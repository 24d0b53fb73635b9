------------------------ MODULE WorkflowContextProofs ------------------------
(***************************************************************************)
(* What the operations of the lifecycle do to the fields the workflow goes *)
(* by, and what the proposer is shown: its context is current, whatever    *)
(* commands of how many processes are underway.                            *)
(***************************************************************************)
EXTENDS WorkflowProofs

-----------------------------------------------------------------------------
(***************************************************************************)
(* The operations, field by field.                                         *)
(***************************************************************************)

\* The iteration, its candidate and the evidence behind it stay.
SameBest == dom'.best = dom.best /\ dom'.active = dom.active /\ dom'.confirm = dom.confirm
SameCandidate == dom'.iteration = dom.iteration /\ dom'.candidate = dom.candidate
SameJudgement ==
  /\ dom'.provisional = dom.provisional /\ dom'.confirmation = dom.confirmation
  /\ dom'.provisionalManifest = dom.provisionalManifest /\ dom'.gatePhase = dom.gatePhase
SameConsumed == dom'.consumed = dom.consumed
Uses(m, by) == dom'.consumed = Append(dom.consumed, [manifest |-> m, by |-> by])

\* The iteration is over, with this best score and active snapshot.
Advances(best, active) ==
  /\ dom'.best = best /\ dom'.active = active /\ dom'.confirm = dom.confirm
  /\ dom'.iteration = IF best = Perfect THEN dom.iteration ELSE dom.iteration + 1
  /\ dom'.state = IF L!Finished(best, dom'.iteration) THEN "DONE" ELSE "NEEDS_TRAIN_RUN"
  /\ dom'.candidate = None /\ dom'.gatePhase = "none" /\ dom'.current = None

LEMMA FoundEffect ==
  ASSUME LP!LifecycleInv,
         L!InitDomain \/ L!SkipSeed \/ L!SeedObservations \/ L!RollbackSeed
  PROVE  /\ dom.state \in LP!BeforeBaseline /\ dom'.state \in LP!BeforeBaseline
         /\ SameBest /\ SameCandidate /\ SameJudgement /\ SameConsumed
         /\ dom'.current = dom.current
<1>1. CASE L!InitDomain
  BY <1>1, DomRecord
  DEF L!InitDomain, L!At, L!Become, LP!BeforeBaseline, LP!DomainState, SameBest, SameCandidate,
      SameJudgement, SameConsumed
<1>2. CASE L!SkipSeed
  BY <1>2, DomRecord
  DEF L!SkipSeed, L!At, L!Become, LP!BeforeBaseline, LP!DomainState, SameBest, SameCandidate,
      SameJudgement, SameConsumed
<1>3. CASE L!SeedObservations
  BY <1>3, DomRecord
  DEF L!SeedObservations, L!At, L!Become, LP!BeforeBaseline, LP!DomainState, SameBest,
      SameCandidate, SameJudgement, SameConsumed
<1>4. CASE L!RollbackSeed
  BY <1>4, DomRecord
  DEF L!RollbackSeed, L!At, L!Become, LP!BeforeBaseline, LP!DomainState, SameBest, SameCandidate,
      SameJudgement, SameConsumed
<1>5. QED
  BY <1>1, <1>2, <1>3, <1>4

LEMMA ResetEffect ==
  ASSUME LP!LifecycleInv, L!ResetManifest
  PROVE  /\ dom.state \in L!Resettable
         /\ dom'.state = IF dom.state = "NEEDS_WIKI" THEN "NEEDS_TRAIN_RUN" ELSE dom.state
         /\ SameBest /\ SameCandidate /\ SameJudgement /\ SameConsumed
         /\ dom'.current = None
BY DomRecord
DEF L!ResetManifest, L!At, L!Become, LP!DomainState, SameBest, SameCandidate, SameJudgement,
    SameConsumed

LEMMA TrainEffect ==
  ASSUME LP!LifecycleInv, NEW m \in Scored(Scores), L!IngestTrain(m)
  PROVE  /\ dom.state = "NEEDS_TRAIN_RUN" /\ dom'.state = "NEEDS_WIKI"
         /\ SameBest /\ SameCandidate /\ SameJudgement /\ SameConsumed
         /\ dom'.current = m
BY DomRecord
DEF L!IngestTrain, L!Own, L!At, L!Become, LP!DomainState, SameBest, SameCandidate, SameJudgement,
    SameConsumed

LEMMA ValidationEffect ==
  ASSUME LP!LifecycleInv, NEW m \in Scored(Scores), L!IngestVal(m, m.score)
  PROVE  /\ dom.state = "NEEDS_VAL_RUN" /\ dom'.state = "NEEDS_GATE"
         /\ SameBest /\ SameCandidate /\ SameConsumed
         /\ dom'.current = m /\ dom'.gatePhase = "validation" /\ dom'.provisional = m.score
         /\ dom'.provisionalManifest = dom.provisionalManifest
BY DomRecord
DEF L!IngestVal, L!Own, L!At, L!Become, LP!DomainState, SameBest, SameCandidate, SameConsumed

LEMMA ConfirmationEffect ==
  ASSUME LP!LifecycleInv, NEW m \in Scored(Scores), L!IngestConfirm(m, m.score)
  PROVE  /\ dom.state = "NEEDS_VAL_CONFIRM" /\ dom'.state = "NEEDS_GATE"
         /\ SameBest /\ SameCandidate /\ SameConsumed
         /\ dom'.current = m /\ dom'.gatePhase = "confirmation" /\ dom'.confirmation = m.score
         /\ dom'.provisional = dom.provisional
         /\ dom'.provisionalManifest = dom.provisionalManifest
BY DomRecord
DEF L!IngestConfirm, L!Own, L!At, L!Become, LP!DomainState, SameBest, SameCandidate, SameConsumed

LEMMA TestEffect ==
  ASSUME LP!LifecycleInv, NEW phase \in Tests,
         PreparedTest(phase) \/ \E m \in Scored(Scores) : L!IngestTest(phase, m)
  PROVE  /\ dom.state = "DONE" /\ dom'.state = "DONE"
         /\ SameBest /\ SameCandidate /\ SameJudgement /\ SameConsumed
         /\ dom'.current = dom.current
<1>1. CASE PreparedTest(phase)
  BY <1>1, DomRecord
  DEF PreparedTest, L!PrepareTest, L!At, L!Become, LP!DomainState, SameBest, SameCandidate,
      SameJudgement, SameConsumed
<1>2. ASSUME NEW m \in Scored(Scores), L!IngestTest(phase, m)
      PROVE  /\ dom.state = "DONE" /\ dom'.state = "DONE"
             /\ SameBest /\ SameCandidate /\ SameJudgement /\ SameConsumed
             /\ dom'.current = dom.current
  BY <1>2, DomRecord
  DEF L!IngestTest, L!At, L!Become, LP!DomainState, SameBest, SameCandidate, SameJudgement,
      SameConsumed
<1>3. QED
  BY <1>1, <1>2

LEMMA ChangeEffect ==
  ASSUME LP!LifecycleInv, NEW snapshot \in Snapshots, L!ProposeChange(snapshot)
  PROVE  /\ dom.state = "NEEDS_PROPOSAL" /\ dom'.state = "NEEDS_VAL_RUN"
         /\ SameBest /\ SameJudgement /\ SameConsumed
         /\ dom'.iteration = dom.iteration /\ dom'.candidate = snapshot
         /\ dom'.current = dom.current
BY DomRecord
DEF L!ProposeChange, L!At, L!Become, LP!DomainState, SameBest, SameJudgement, SameConsumed

\* A settled iteration, seen from the state it was settled in.
LEMMA AdvanceEffect ==
  ASSUME NEW d \in LP!DomainState, NEW op, L!Become(op, L!Advance(d)),
         d.iteration = dom.iteration, d.confirm = dom.confirm
  PROVE  Advances(d.best, d.active) /\ dom'.consumed = d.consumed
BY DEF L!Become, L!Advance, LP!DomainState, Advances

LEMMA NothingEffect ==
  ASSUME LP!LifecycleInv, L!ProposeNothing
  PROVE  /\ dom.state = "NEEDS_PROPOSAL"
         /\ Advances(dom.best, dom.active) /\ SameConsumed
BY DomRecord, AdvanceEffect DEF L!ProposeNothing, L!At, SameConsumed

LEMMA WikiEffect ==
  ASSUME LP!LifecycleInv, L!ApplyWiki
  PROVE  /\ dom.state = "NEEDS_WIKI" /\ dom'.state = "NEEDS_PROPOSAL"
         /\ SameBest /\ SameCandidate /\ SameJudgement
         /\ dom'.current = None /\ Uses(dom.current, "apply-wiki")
<1> DEFINE d == [dom EXCEPT !.state = "NEEDS_PROPOSAL", !.current = None, !.currentPhase = "none"]
           a == Append(d.consumed, [manifest |-> dom.current, by |-> "apply-wiki"])
<1>1. /\ d.consumed = dom.consumed
      /\ dom' = [[d EXCEPT !.consumed = a] EXCEPT !.last = "apply-wiki"]
  BY DomRecord DEF L!ApplyWiki, L!Become, L!Consume, LP!DomainState
<1>2. a = Append(dom.consumed, [manifest |-> dom.current, by |-> "apply-wiki"])
  BY <1>1
<1> HIDE DEF a
<1>3. dom.state = "NEEDS_WIKI"
  BY DEF L!ApplyWiki, L!At
<1>4. QED
  BY <1>1, <1>2, <1>3, DomRecord
  DEF LP!DomainState, SameBest, SameCandidate, SameJudgement, Uses

LEMMA AskEffect ==
  ASSUME LP!LifecycleInv, L!AskConfirmation
  PROVE  /\ dom.state = "NEEDS_GATE" /\ dom'.state = "NEEDS_VAL_CONFIRM"
         /\ dom.gatePhase = "validation" /\ dom'.gatePhase = "validation"
         /\ dom.confirm /\ dom.current # None
         /\ SameBest /\ SameCandidate
         /\ dom'.provisional = dom.provisional /\ dom'.confirmation = dom.confirmation
         /\ dom'.provisionalManifest = dom.current
         /\ dom'.current = None /\ Uses(dom.current, "gate-validation")
<1> DEFINE d == [dom EXCEPT !.state = "NEEDS_VAL_CONFIRM", !.provisionalManifest = dom.current,
                            !.current = None, !.currentPhase = "none"]
           a == Append(d.consumed, [manifest |-> dom.current, by |-> "gate-validation"])
<1>1. /\ d.consumed = dom.consumed
      /\ dom' = [[d EXCEPT !.consumed = a] EXCEPT !.last = "gate"]
  BY DomRecord DEF L!AskConfirmation, L!Become, L!Consume, LP!DomainState
<1>2. a = Append(dom.consumed, [manifest |-> dom.current, by |-> "gate-validation"])
  BY <1>1
<1> HIDE DEF a
<1>3. /\ dom.state = "NEEDS_GATE" /\ dom.gatePhase = "validation" /\ dom.confirm
      /\ dom.current # None
  BY DEF L!AskConfirmation, L!Gated, L!At, L!Owns
<1>4. QED
  BY <1>1, <1>2, <1>3, DomRecord
  DEF LP!DomainState, SameBest, SameCandidate, Uses

LEMMA BaselineEffect ==
  ASSUME LP!LifecycleInv, NEW m \in Scored(Scores), L!FinalizeBaseline(m, m.score, Empty)
  PROVE  /\ dom.state = "NEEDS_BASELINE_RUN"
         /\ dom'.state = IF m.score = Perfect THEN "DONE" ELSE "NEEDS_TRAIN_RUN"
         /\ dom'.best = m.score /\ dom'.active = Empty /\ dom'.confirm = dom.confirm
         /\ dom'.iteration = 1 /\ dom'.candidate = dom.candidate
         /\ SameJudgement /\ dom'.current = dom.current
         /\ Uses(m, "baseline-finalize")
<1> DEFINE d == [dom EXCEPT !.best = m.score, !.active = Empty, !.iteration = 1,
                            !.state = IF m.score = Perfect THEN "DONE" ELSE "NEEDS_TRAIN_RUN"]
           a == Append(d.consumed, [manifest |-> m, by |-> "baseline-finalize"])
<1>1. /\ d.consumed = dom.consumed
      /\ dom' = [[d EXCEPT !.consumed = a] EXCEPT !.last = "baseline-finalize"]
  BY DomRecord DEF L!FinalizeBaseline, L!Become, L!Consume, LP!DomainState
<1>2. a = Append(dom.consumed, [manifest |-> m, by |-> "baseline-finalize"])
  BY <1>1
<1> HIDE DEF a
<1>3. dom.state = "NEEDS_BASELINE_RUN"
  BY DEF L!FinalizeBaseline, L!At
<1>4. QED
  BY <1>1, <1>2, <1>3, DomRecord DEF LP!DomainState, SameJudgement, Uses

\* The current manifest is used and the iteration settled.
LEMMA SettleEffect ==
  ASSUME LP!LifecycleInv, dom.current \in Scored(Scores), NEW by \in LP!Uses, NEW op,
         L!Become(op, L!Advance(L!Consume(dom, dom.current, by)))
  PROVE  Advances(dom.best, dom.active) /\ Uses(dom.current, by)
<1> DEFINE a == Append(dom.consumed, [manifest |-> dom.current, by |-> by])
           d == L!Consume(dom, dom.current, by)
<1>1. d \in LP!DomainState /\ d.consumed = a
  BY ConsumeNames, DomRecord
<1> HIDE DEF a
<1>2. d = [dom EXCEPT !.consumed = a]
  BY <1>1, DomRecord DEF L!Consume, LP!DomainState, a
<1>3. /\ d.iteration = dom.iteration /\ d.best = dom.best /\ d.active = dom.active
      /\ d.confirm = dom.confirm
  BY <1>2, DomRecord DEF LP!DomainState
<1>4. L!Become(op, L!Advance(d))
  OBVIOUS
<1> HIDE DEF d
<1>5. QED
  BY <1>1, <1>3, <1>4, AdvanceEffect DEF a, Uses

LEMMA PromoteEffect ==
  ASSUME LP!LifecycleInv, dom.current \in Scored(Scores), dom.candidate \in Snapshots,
         NEW by \in LP!Uses, NEW score \in Scores,
         L!Become("gate", L!Promote(L!Consume(dom, dom.current, by), score))
  PROVE  Advances(score, dom.candidate) /\ Uses(dom.current, by)
<1> DEFINE a == Append(dom.consumed, [manifest |-> dom.current, by |-> by])
           e == L!Consume(dom, dom.current, by)
           g == [e EXCEPT !.best = score, !.active = e.candidate]
<1>1. e \in LP!DomainState /\ e.consumed = a /\ e.candidate = dom.candidate
  BY ConsumeNames, DomRecord
<1> HIDE DEF a
<1>2. e = [dom EXCEPT !.consumed = a]
  BY <1>1, DomRecord DEF L!Consume, LP!DomainState, a
<1>3. e.iteration = dom.iteration /\ e.confirm = dom.confirm
  BY <1>2, DomRecord DEF LP!DomainState
<1>4. L!Become("gate", L!Advance(g))
  BY DEF L!Promote
<1> HIDE DEF e
<1>5. g \in LP!DomainState /\ g.iteration = dom.iteration /\ g.confirm = dom.confirm
      /\ g.best = score /\ g.active = dom.candidate /\ g.consumed = a
  <2>1. g \in LP!DomainState
    BY <1>1, ConstantTypes DEF LP!DomainState, Scores, LP!Scores
  <2>2. g.best = score /\ g.active = dom.candidate
    BY <1>1 DEF LP!DomainState
  <2>3. g.iteration = dom.iteration /\ g.confirm = dom.confirm /\ g.consumed = a
    BY <1>1, <1>3 DEF LP!DomainState
  <2>4. QED
    BY <2>1, <2>2, <2>3
<1> HIDE DEF g
<1>6. QED
  BY <1>4, <1>5, AdvanceEffect DEF a, Uses

\* The judgement of a candidate is in the state while it waits for the gate.
LEMMA JudgedScores ==
  ASSUME LP!LifecycleInv, dom.state = "NEEDS_GATE"
  PROVE  /\ dom.candidate \in Snapshots /\ dom.provisional \in Scores
         /\ dom.gatePhase \in {"validation", "confirmation"}
         /\ dom.gatePhase = "confirmation" =>
              dom.confirmation \in Scores /\ dom.provisionalManifest \in Scored(Scores)
         /\ dom.current \in Scored(Scores)
  BY HasCandidate, DomTypes
  DEF L!Candidate, LP!LifecycleInv, LP!CandidateScope, LP!At, LP!GatePhases

LEMMA AcceptEffect ==
  ASSUME LP!LifecycleInv, L!AcceptOnValidation
  PROVE  /\ dom.state = "NEEDS_GATE" /\ dom.gatePhase = "validation" /\ ~dom.confirm
         /\ L!StrictWin
         /\ Advances(dom.provisional, dom.candidate) /\ Uses(dom.current, "gate-validation")
<1>1. /\ dom.state = "NEEDS_GATE" /\ dom.gatePhase = "validation" /\ ~dom.confirm /\ L!StrictWin
      /\ L!Become("gate", L!Promote(L!Consume(dom, dom.current, "gate-validation"), dom.provisional))
  BY DEF L!AcceptOnValidation, L!Gated, L!At
<1>2. "gate-validation" \in LP!Uses
  BY DEF LP!Uses
<1>3. QED
  BY <1>1, <1>2, JudgedScores, PromoteEffect

LEMMA AcceptConfirmedEffect ==
  ASSUME LP!LifecycleInv, L!AcceptOnConfirmation
  PROVE  /\ dom.state = "NEEDS_GATE" /\ dom.gatePhase = "confirmation" /\ L!StrictWin
         /\ Advances(L!LowerOf(dom.provisional, dom.confirmation), dom.candidate)
         /\ Uses(dom.current, "gate-confirmation")
<1>1. /\ dom.state = "NEEDS_GATE" /\ dom.gatePhase = "confirmation" /\ L!StrictWin
      /\ L!Become("gate", L!Promote(L!Consume(dom, dom.current, "gate-confirmation"),
                                    L!LowerOf(dom.provisional, dom.confirmation)))
  BY DEF L!AcceptOnConfirmation, L!Gated, L!At
<1>2. "gate-confirmation" \in LP!Uses
  BY DEF LP!Uses
<1>3. L!LowerOf(dom.provisional, dom.confirmation) \in Scores
  BY <1>1, JudgedScores DEF L!LowerOf
<1>4. QED
  BY <1>1, <1>2, <1>3, JudgedScores, PromoteEffect

LEMMA RejectEffect ==
  ASSUME LP!LifecycleInv, L!Reject
  PROVE  /\ dom.state = "NEEDS_GATE" /\ ~L!StrictWin
         /\ Advances(dom.best, dom.active)
         /\ \E by \in {"gate-validation-reject", "gate-confirmation-reject"} : Uses(dom.current, by)
<1> DEFINE by == IF dom.gatePhase = "validation" THEN "gate-validation-reject"
                                                 ELSE "gate-confirmation-reject"
<1>1. /\ dom.state = "NEEDS_GATE" /\ ~L!StrictWin
      /\ L!Become("gate", L!Advance(L!Consume(dom, dom.current, by)))
  BY DEF L!Reject, L!At
<1>2. by \in LP!Uses /\ by \in {"gate-validation-reject", "gate-confirmation-reject"}
  BY DEF LP!Uses
<1> HIDE DEF by
<1>3. QED
  BY <1>1, <1>2, JudgedScores, SettleEffect

LEMMA AbandonEffect ==
  ASSUME LP!LifecycleInv, L!Abandon
  PROVE  /\ dom.state \in L!Candidate
         /\ Advances(dom.best, dom.active)
         /\ IF dom.current = None THEN SameConsumed ELSE Uses(dom.current, "abandon")
<1>1. dom.state \in L!Candidate
  BY DEF L!Abandon, L!At
<1>2. CASE dom.current = None
  <2>1. L!Become("abandon", L!Advance(dom))
    BY <1>2 DEF L!Abandon
  <2>2. QED
    BY <1>1, <1>2, <2>1, AdvanceEffect, DomRecord DEF SameConsumed
<1>3. CASE dom.current # None
  <2>1. dom.current \in Scored(Scores) /\ "abandon" \in LP!Uses
    BY <1>3, DomTypes DEF LP!Uses
  <2>2. L!Become("abandon", L!Advance(L!Consume(dom, dom.current, "abandon")))
    BY <1>3 DEF L!Abandon
  <2>3. QED
    BY <1>1, <1>3, <2>1, <2>2, SettleEffect
<1>4. QED
  BY <1>2, <1>3

-----------------------------------------------------------------------------
(***************************************************************************)
(* What the proposer is shown.  A context is drafted while its proposal is *)
(* due and committed then or too late to matter; a wiki that was drafted   *)
(* on an older wiki no longer fits.                                        *)
(***************************************************************************)

\* The wiki of iteration k is written, or was.
Reached(k) ==
  \/ k < dom.iteration
  \/ k = dom.iteration /\ dom.state \notin {"NEEDS_TRAIN_RUN", "NEEDS_WIKI"}

\* The wiki of iteration k is due.
WikiDue(k) == k = dom.iteration /\ dom.state \in {"NEEDS_TRAIN_RUN", "NEEDS_WIKI"}

ContextFile(k) == Of("proposer-context", k)
Wiki == History(The("wiki"))
Shown == [wiki |-> Wiki, impact |-> Impact, active |-> dom.active]

\* The wiki lengthened by one entry, of the iteration that is due or of an overtaken one.
WikiDraft(d) ==
  LET o == d.outs[The("wiki")]
      base == Past(o.before)
  IN  /\ o # Keep /\ ~o.same /\ base \in Seq(WikiEntry)
      /\ dom.iteration # 0 /\ Len(base) <= Len(Wiki)
      /\ \E e \in WikiEntry :
           /\ o.to = Append(base, e)
           /\ Len(base) < Len(Wiki) \/ WikiDue(e.iteration)

ContextDraft(d) ==
  /\ \A k \in Iterations : d.outs[ContextFile(k)] # Keep =>
       /\ d.op = "persist" /\ Reached(k)
       /\ dom.state = "NEEDS_PROPOSAL" /\ k = dom.iteration => d.outs[ContextFile(k)].to = Shown
  /\ d.op = "persist" => d.outs[The("wiki")] = Keep /\ d.outs[The("impact")] = Keep
  /\ d.op = "apply-wiki" => WikiDraft(d)

ContextFiles ==
  /\ \A k \in Iterations : file[ContextFile(k)] # Absent => Reached(k)
  /\ dom.state = "NEEDS_PROPOSAL" =>
       /\ file[ContextFile(dom.iteration)] \in {Absent, Shown}
       /\ Wiki # <<>> /\ Wiki[Len(Wiki)].iteration = dom.iteration

ContextInv ==
  /\ ContextFiles
  /\ \A c \in Clients : pending[c] # Idle => ContextDraft(pending[c])

\* Where an operation leads.
LEMMA Moves ==
  ASSUME LP!LifecycleInv, NEW op, NEW arg, TypedArg(op, arg), Transition(op, arg)
  PROVE  /\ dom'.iteration >= dom.iteration
         /\ \A k \in Iterations : Reached(k) => Reached(k)'
         /\ op # "apply-wiki" => \A k \in Iterations : WikiDue(k) => WikiDue(k)'
         /\ op = "apply-wiki" =>
              /\ dom.state = "NEEDS_WIKI" /\ dom'.state = "NEEDS_PROPOSAL"
              /\ dom'.iteration = dom.iteration /\ dom'.active = dom.active
         /\ dom'.state = "NEEDS_PROPOSAL" => op = "apply-wiki" \/ (op = "persist" /\ UNCHANGED dom)
<1> DEFINE Good ==
      /\ dom'.iteration >= dom.iteration
      /\ \A k \in Iterations : Reached(k) => Reached(k)'
      /\ op # "apply-wiki" => \A k \in Iterations : WikiDue(k) => WikiDue(k)'
      /\ op = "apply-wiki" =>
           /\ dom.state = "NEEDS_WIKI" /\ dom'.state = "NEEDS_PROPOSAL"
           /\ dom'.iteration = dom.iteration /\ dom'.active = dom.active
      /\ dom'.state = "NEEDS_PROPOSAL" => op = "apply-wiki" \/ (op = "persist" /\ UNCHANGED dom)
<1>0. /\ dom.iteration \in Nat /\ MaxIterations \in Nat /\ Iterations \subseteq Nat \ {0}
      /\ dom.state \in LP!BeforeBaseline => dom.iteration = 0
  BY DomTypes, ConstantTypes DEF Iterations, LP!LifecycleInv, LP!StopsInTime, LP!At
<1>1. CASE op = "persist" /\ UNCHANGED dom
  BY <1>0, <1>1 DEF Reached, WikiDue
<1>2. CASE op \in {"skip-seed", "seed-observations", "rollback-seed"} /\
           (L!SkipSeed \/ L!SeedObservations \/ L!RollbackSeed)
  <2>1. /\ dom.state \in LP!BeforeBaseline /\ dom'.state \in LP!BeforeBaseline
        /\ dom'.iteration = dom.iteration
    BY <1>2, FoundEffect DEF SameCandidate
  <2>2. QED
    BY <1>0, <1>2, <2>1 DEF Reached, WikiDue, LP!BeforeBaseline
<1>3. CASE op = "baseline-finalize" /\ L!FinalizeBaseline(arg, arg.score, Empty)
  <2>1. /\ dom.state = "NEEDS_BASELINE_RUN" /\ dom'.iteration = 1
        /\ dom'.state \in {"DONE", "NEEDS_TRAIN_RUN"}
    BY <1>3, BaselineEffect DEF TypedArg
  <2>2. QED
    BY <1>0, <1>3, <2>1 DEF Reached, WikiDue, LP!BeforeBaseline
<1>4. CASE op = "ingest" /\ Ingested(arg)
  <2>1. CASE arg.score = Invalid
    <3>1. UNCHANGED dom /\ dom.state = RunsIn(arg.phase) /\ arg.phase \in Phases
      BY <1>4, <2>1 DEF Ingested, TypedArg, Scored
    <3>2. dom.state # "NEEDS_PROPOSAL"
      BY <3>1, RunsWhere DEF Phases, Repeated
    <3>3. QED
      BY <1>0, <1>4, <3>1, <3>2 DEF Reached, WikiDue
  <2>2. CASE arg.score # Invalid
    <3>1. arg \in Scored(Scores)
      BY <1>4, <2>2 DEF TypedArg, Scored
    <3>2. CASE L!IngestTrain(arg)
      BY <1>0, <1>4, <3>1, <3>2, TrainEffect DEF Reached, WikiDue, SameCandidate
    <3>3. CASE L!IngestVal(arg, arg.score)
      BY <1>0, <1>4, <3>1, <3>3, ValidationEffect DEF Reached, WikiDue, SameCandidate
    <3>4. CASE L!IngestConfirm(arg, arg.score)
      BY <1>0, <1>4, <3>1, <3>4, ConfirmationEffect DEF Reached, WikiDue, SameCandidate
    <3>5. ASSUME arg.phase \in Tests, L!IngestTest(arg.phase, arg) PROVE Good
      BY <1>0, <1>4, <3>1, <3>5, TestEffect DEF Reached, WikiDue, SameCandidate
    <3>6. QED
      BY <1>4, <2>2, <3>2, <3>3, <3>4, <3>5 DEF Ingested
  <2>3. QED
    BY <2>1, <2>2
<1>5. CASE op = "apply-wiki" /\ L!ApplyWiki
  BY <1>0, <1>5, WikiEffect DEF Reached, WikiDue, SameCandidate, SameBest
<1>6. CASE op = "apply-proposal-change" /\ L!ProposeChange(arg)
  BY <1>0, <1>6, ChangeEffect DEF Reached, WikiDue, TypedArg
<1>7. ASSUME NEW best, NEW active, Advances(best, active), op \notin {"apply-wiki"},
             dom.state \in {"NEEDS_PROPOSAL"} \union L!Candidate
      PROVE  Good
  <2>1. /\ dom'.state \in {"DONE", "NEEDS_TRAIN_RUN"}
        /\ \/ dom'.iteration = dom.iteration /\ dom'.state = "DONE"
           \/ dom'.iteration = dom.iteration + 1
    BY <1>7 DEF Advances, L!Finished
  <2>2. QED
    BY <1>0, <1>7, <2>1 DEF Reached, WikiDue, L!Candidate
<1>8. CASE op = "apply-proposal-no-action" /\ L!ProposeNothing
  BY <1>7, <1>8, NothingEffect
<1>9. CASE op = "gate" /\ L!Gate
  <2>1. CASE L!AskConfirmation
    BY <1>0, <1>9, <2>1, AskEffect DEF Reached, WikiDue, SameCandidate
  <2>2. CASE L!AcceptOnValidation
    BY <1>7, <1>9, <2>2, AcceptEffect DEF L!Candidate
  <2>3. CASE L!AcceptOnConfirmation
    BY <1>7, <1>9, <2>3, AcceptConfirmedEffect DEF L!Candidate
  <2>4. CASE L!Reject
    BY <1>7, <1>9, <2>4, RejectEffect DEF L!Candidate
  <2>5. QED
    BY <1>9, <2>1, <2>2, <2>3, <2>4 DEF L!Gate
<1>10. CASE op = "abandon" /\ L!Abandon
  BY <1>7, <1>10, AbandonEffect
<1>11. CASE op = "reset-manifest" /\ L!ResetManifest
  <2>1. /\ dom.state \in L!Resettable /\ dom'.iteration = dom.iteration
        /\ dom'.state = IF dom.state = "NEEDS_WIKI" THEN "NEEDS_TRAIN_RUN" ELSE dom.state
    BY <1>11, ResetEffect DEF SameCandidate
  <2>2. QED
    BY <1>0, <1>11, <2>1 DEF Reached, WikiDue, L!Resettable
<1>12. CASE op \in Tests /\ PreparedTest(op)
  BY <1>0, <1>12, TestEffect DEF Reached, WikiDue, SameCandidate, Tests
<1>13. QED
  BY <1>1, <1>2, <1>3, <1>4, <1>5, <1>6, <1>8, <1>9, <1>10, <1>11, <1>12 DEF Transition

LEMMA DraftInContext ==
  ASSUME TypedInv, ContextInv, NEW c \in Clients, NEW op, NEW arg, NEW outs, NEW deps,
         Draft(c, op, arg, outs, deps), ContextDraft(DraftOf(op, arg, outs, deps))
  PROVE  ContextInv'
<1> DEFINE d == DraftOf(op, arg, outs, deps)
<1>1. pending' = [pending EXCEPT ![c] = d] /\ UNCHANGED <<dom, file>>
  BY DEF Draft, DraftOf
<1> HIDE DEF d
<1>2. \A e : ContextDraft(e) => ContextDraft(e)'
  BY <1>1
  DEF ContextDraft, WikiDraft, Reached, WikiDue, Shown, Wiki, Impact, History, ContextFile
<1>3. ContextFiles'
  BY <1>1 DEF ContextInv, ContextFiles, Reached, Shown, Wiki, Impact, History
<1>4. ASSUME NEW b \in Clients, NEW e, e = pending'[b], e # Idle PROVE ContextDraft(e)'
  BY <1>1, <1>2, <1>4 DEF ContextInv, TypedInv, d
<1>5. QED
  BY <1>3, <1>4 DEF ContextInv, ContextDraft, WikiDraft

\* Most drafts are of no context, and those of no operation of no knowledge.
Quiet(op, outs) ==
  \A q \in DOMAIN outs :
    q[1] # "proposer-context" /\ (op = "persist" => q[1] \notin Knowledge)

LEMMA QuietOnly ==
  ASSUME NEW op, NEW q, NEW x, q[1] \notin {"proposer-context", "wiki", "impact"}
  PROVE  Quiet(op, Only(q, x))
BY DEF Quiet, Only, Knowledge

LEMMA QuietBoth ==
  ASSUME NEW op, NEW f, NEW g, Quiet(op, f), Quiet(op, g)
  PROVE  Quiet(op, f ++ g)
BY DEF Quiet, ++

LEMMA QuietNothing ==
  ASSUME NEW op
  PROVE  Quiet(op, Nothing)
BY DEF Quiet, Nothing

LEMMA QuietRecorded ==
  ASSUME NEW op, op # "persist", NEW outcome, NEW candidate, NEW scores
  PROVE  Quiet(op, Recorded(outcome, candidate, scores))
BY KindOf DEF Quiet, Recorded, Only

LEMMA QuietContext ==
  ASSUME TypedInv, ContextInv, NEW c \in Clients, NEW op, NEW arg, NEW outs, NEW deps,
         Draft(c, op, arg, outs, deps), Quiet(op, outs), op # "apply-wiki"
  PROVE  ContextInv'
<1> DEFINE d == DraftOf(op, arg, outs, deps)
<1>1. d.op = op
  BY DEF DraftOf
<1>2. \A k \in Iterations : d.outs[ContextFile(k)] = Keep
  <2>1. \A k \in Iterations : ContextFile(k) \in Paths /\ ContextFile(k) \notin DOMAIN outs
    BY PathsOf, KindOf DEF ContextFile, StepFiles, Quiet
  <2>2. QED
    BY <2>1, DraftAt
<1>3. op = "persist" => d.outs[The("wiki")] = Keep /\ d.outs[The("impact")] = Keep
  <2>1. /\ The("wiki") \in Paths /\ The("impact") \in Paths
        /\ op = "persist" => The("wiki") \notin DOMAIN outs /\ The("impact") \notin DOMAIN outs
    BY PathsOf, KindOf DEF DomainFiles, Quiet, Knowledge
  <2>2. QED
    BY <2>1, DraftAt
<1> HIDE DEF d
<1>4. ContextDraft(d)
  BY <1>1, <1>2, <1>3 DEF ContextDraft
<1>5. QED
  BY <1>4, DraftInContext DEF d

LEMMA SeedInContext ==
  ASSUME TypedInv, ContextInv, NEW c \in Clients, Seed(c)
  PROVE  ContextInv'
<1>1. CASE SkipSeed(c)
  BY <1>1, QuietContext, QuietNothing DEF SkipSeed
<1>2. CASE SeedObservations(c)
  <2> DEFINE outs == Only(The("seed"), New(Empty)) ++ Only(The("wiki"), New(SeededWiki))
  <2>1. Quiet("seed-observations", outs)
    BY KindOf DEF Quiet, Only, ++
  <2>2. Draft(c, "seed-observations", None, outs, {})
    BY <1>2 DEF SeedObservations
  <2> HIDE DEF outs
  <2>3. QED
    BY <2>1, <2>2, QuietContext
<1>3. CASE RollbackSeed(c)
  <2>1. Quiet("rollback-seed", Delete({The("seed"), The("wiki")}))
    BY KindOf DEF Quiet, Delete
  <2>2. QED
    BY <1>3, <2>1, QuietContext DEF RollbackSeed
<1>4. QED
  BY <1>1, <1>2, <1>3 DEF Seed

LEMMA RolloutInContext ==
  ASSUME TypedInv, ContextInv, NEW c \in Clients, Rollout(c)
  PROVE  ContextInv'
<1>1. ASSUME NEW phase \in Phases, PrepareRollout(c, phase) PROVE ContextInv'
  <2> DEFINE op == IF phase \in Tests THEN phase ELSE "persist"
             outs == Only(In("job", Dir(phase)), Kept(Pointer(phase)))
  <2>1. Quiet(op, outs)
    BY QuietOnly, QuietBoth, KindOf
  <2>2. Draft(c, op, None, outs, {}) /\ op # "apply-wiki"
    BY <1>1 DEF PrepareRollout, Tests
  <2> HIDE DEF op, outs
  <2>3. QED
    BY <2>1, <2>2, QuietContext
<1>2. ASSUME NEW phase \in Phases, NEW answer, RecordExecution(c, phase, answer) PROVE ContextInv'
  BY <1>2, QuietOnly, QuietBoth, KindOf, QuietContext DEF RecordExecution
<1>3. ASSUME NEW m PROVE \A op : Quiet(op, RawEvidence(m))
  BY QuietOnly, QuietBoth, QuietNothing, KindOf DEF RawEvidence
<1>4. ASSUME NEW phase \in Phases, IngestRollout(c, phase) PROVE ContextInv'
  <2> DEFINE op == IF phase = "baseline" THEN "persist" ELSE "ingest"
  <2>1. PICK m, deps : Draft(c, op, m, Only(In("manifest", Dir(phase)), New(m)) ++ RawEvidence(m), deps)
    BY <1>4 DEF IngestRollout
  <2>2. Quiet(op, Only(In("manifest", Dir(phase)), New(m)) ++ RawEvidence(m))
    BY <1>3, QuietOnly, QuietBoth, KindOf
  <2>3. QED
    BY <2>1, <2>2, QuietContext
<1>5. ASSUME NEW phase \in Phases, ResetManifest(c, phase) PROVE ContextInv'
  <2> DEFINE d == Dir(phase)
             owned == {In("manifest", d), In("execution", d)}
                        \union IF phase # "train" THEN {}
                               ELSE {Of("trace", d[2]), The("alias")}
  <2>1. Quiet("reset-manifest", Delete(Present(owned)))
    BY KindOf DEF Present, Quiet, Delete
  <2>2. QED
    BY <1>5, <2>1, QuietContext DEF ResetManifest
<1>6. CASE FinalizeBaseline(c)
  BY <1>6, QuietNothing, QuietContext DEF FinalizeBaseline
<1>7. QED
  BY <1>1, <1>2, <1>4, <1>5, <1>6 DEF Rollout

LEMMA OutputAmong ==
  ASSUME NEW S, NEW before \in S, NEW to \in S, NEW same \in BOOLEAN,
         Keep \notin [before : S, to : S, same : BOOLEAN]
  PROVE  [before |-> before, to |-> to, same |-> same] # Keep
OBVIOUS

\* A wiki that is drafted is bound to the wiki it lengthens.
LEMMA WikiInContext ==
  ASSUME LP!LifecycleInv, TypedInv, ContextInv, NEW c \in Clients, ApplyWiki(c)
  PROVE  ContextInv'
<1> DEFINE input == file[Of("maintainer-input", dom.iteration)]
           entry == [iteration |-> dom.iteration, from |-> input]
           answer == Only(Of("maintainer-output", dom.iteration), New(input))
           o == Replace(The("wiki"), Append(Wiki, entry))
           outs == answer ++ Only(The("wiki"), o)
           deps == {Of("maintainer-input", dom.iteration), TrainRun} \union Present({The("wiki")})
           d == DraftOf("apply-wiki", None, outs, deps)
<1>1. Draft(c, "apply-wiki", None, outs, deps) /\ dom.state = "NEEDS_WIKI"
  BY DEF ApplyWiki, Wiki
<1>2. entry \in WikiEntry /\ Wiki \in Seq(WikiEntry) /\ dom.iteration \in Iterations
  BY <1>1, InputScore, KnowledgeTypes, StepPaths DEF Wiki, LP!Evolving, TypedInv
<1>3. entry.iteration = dom.iteration
  OBVIOUS
<1> HIDE DEF entry
<1>4. o.before = file[The("wiki")] /\ ~o.same /\ o.to = Append(Wiki, entry) /\ Past(o.before) = Wiki
  BY DEF Replace, Past, Wiki, History
<1>5. o # Keep
  <2>1. file[The("wiki")] \in Seq(WikiEntry) \union {Absent}
    BY PathsOf, KindOf, HoldsWhat DEF TypedInv, TypedFiles, DomainFiles
  <2>2. Append(Wiki, entry) \in Seq(WikiEntry)
    BY <1>2
  <2> DEFINE values == Seq(WikiEntry) \union Seq(ImpactEntry) \union CandidateRecord \union {Absent}
  <2>3. file[The("wiki")] \in values /\ Append(Wiki, entry) \in values
    BY <2>1, <2>2
  <2>4. Keep \notin [before : values, to : values, same : BOOLEAN]
    BY HistoryMarkers
  <2> HIDE DEF values
  <2>5. QED
    BY <2>3, <2>4, OutputAmong DEF Replace
<1> HIDE DEF o
<1>6. The("wiki") \in DOMAIN outs /\ outs[The("wiki")] = o
  BY DEF Only, ++, Of, The
<1>7. Quiet("apply-wiki", outs)
  BY KindOf DEF Quiet, Only, ++
<1> HIDE DEF outs, deps
<1>8. d.op = "apply-wiki" /\ d.outs[The("wiki")] = o
  BY <1>6, DraftAt, PathsOf DEF DomainFiles
<1>9. \A k \in Iterations : d.outs[ContextFile(k)] = Keep
  <2>1. \A k \in Iterations : ContextFile(k) \in Paths /\ ContextFile(k) \notin DOMAIN outs
    BY <1>7, PathsOf, KindOf DEF ContextFile, StepFiles, Quiet
  <2>2. QED
    BY <2>1, DraftAt
<1> HIDE DEF d
<1>10. WikiDraft(d)
  BY <1>1, <1>2, <1>3, <1>4, <1>5, <1>8, ConstantTypes DEF WikiDraft, WikiDue, Iterations
<1>11. ContextDraft(d)
  BY <1>8, <1>9, <1>10 DEF ContextDraft
<1>12. QED
  BY <1>1, <1>11, DraftInContext DEF d

\* A context that is drafted shows what there is.
LEMMA ShownInContext ==
  ASSUME LP!LifecycleInv, TypedInv, ContextInv, NEW c \in Clients, ProposerContext(c)
  PROVE  ContextInv'
<1> DEFINE outs == Only(ContextFile(dom.iteration), Kept(Shown))
           deps == {TrainRun, Of("trace", dom.iteration)} \union Present({The("wiki"), The("impact")})
           d == DraftOf("persist", None, outs, deps)
<1>1. Draft(c, "persist", None, outs, deps) /\ dom.state = "NEEDS_PROPOSAL"
  BY DEF ProposerContext, Shown, Wiki, Impact, ContextFile
<1>2. dom.iteration \in Iterations
  BY <1>1, StepPaths DEF LP!Evolving
<1>3. DOMAIN outs = {ContextFile(dom.iteration)} /\ outs[ContextFile(dom.iteration)].to = Shown
  BY DEF Only, Kept
<1> HIDE DEF outs, deps
<1>4. d.op = "persist" /\ d.outs[The("wiki")] = Keep /\ d.outs[The("impact")] = Keep
  <2>1. /\ The("wiki") \in Paths /\ The("impact") \in Paths
        /\ The("wiki") \notin DOMAIN outs /\ The("impact") \notin DOMAIN outs
    BY <1>3, PathsOf DEF DomainFiles, ContextFile, Of, The
  <2>2. QED
    BY <2>1, DraftAt
<1>5. ASSUME NEW k \in Iterations, d.outs[ContextFile(k)] # Keep
      PROVE  k = dom.iteration /\ d.outs[ContextFile(k)].to = Shown
  <2>1. ContextFile(k) \in Paths
    BY PathsOf DEF ContextFile, StepFiles
  <2>2. ContextFile(k) \in DOMAIN outs
    BY <1>5, <2>1, DraftAt
  <2>3. k = dom.iteration
    BY <1>3, <2>2 DEF ContextFile, Of
  <2>4. d.outs[ContextFile(k)] = outs[ContextFile(k)]
    BY <2>1, <2>2, DraftAt
  <2>5. QED
    BY <1>3, <2>3, <2>4
<1> HIDE DEF d
<1>6. ContextDraft(d)
  BY <1>1, <1>4, <1>5 DEF ContextDraft, Reached
<1>7. QED
  BY <1>1, <1>6, DraftInContext DEF d

LEMMA EvolveInContext ==
  ASSUME LP!LifecycleInv, TypedInv, ContextInv, NEW c \in Clients, Evolve(c)
  PROVE  ContextInv'
<1>1. CASE SampleTrain(c)
  BY <1>1, QuietOnly, QuietBoth, KindOf, QuietContext DEF SampleTrain
<1>2. CASE ProposeNothing(c)
  BY <1>2, QuietOnly, QuietBoth, QuietRecorded, KindOf, QuietContext DEF ProposeNothing, Proposed
<1>3. ASSUME NEW candidate \in Candidates, ProposeChange(c, candidate) PROVE ContextInv'
  BY <1>3, QuietOnly, QuietBoth, KindOf, QuietContext DEF ProposeChange, Proposed
<1>4. CASE Gate(c)
  <2>1. Quiet("gate", Verdict)
    BY QuietNothing, QuietRecorded DEF Verdict
  <2>2. QED
    BY <1>4, <2>1, QuietContext DEF Gate
<1>5. CASE Abandon(c)
  <2>1. Quiet("abandon", Delete(Unusable))
    <3>1. \A phase : ValRun(phase)[1] = "manifest"
      BY DEF ValRun, In
    <3>2. QED
      BY <3>1 DEF Quiet, Delete, Unusable, Present
  <2>2. Quiet("abandon", Recorded("Abandoned", dom.candidate, <<>>) ++ Delete(Unusable))
    BY <2>1, QuietBoth, QuietRecorded
  <2>3. QED
    BY <1>5, <2>2, QuietContext DEF Abandon
<1>6. QED
  BY <1>1, <1>2, <1>3, <1>4, <1>5, WikiInContext, ShownInContext DEF Evolve

\* A wiki that is lengthened is the current one, of the iteration that is due.
LEMMA WikiCommitted ==
  ASSUME TypedInv, ContextInv, NEW c \in Clients, Commit(c), pending[c].op = "apply-wiki"
  PROVE  \E e \in WikiEntry : Wiki' = Append(Wiki, e) /\ WikiDue(e.iteration)
<1> DEFINE o == pending[c].outs[The("wiki")]
           base == Past(o.before)
<1>1. /\ o # Keep /\ ~o.same /\ base \in Seq(WikiEntry)
      /\ \E e \in WikiEntry :
           o.to = Append(base, e) /\ (Len(base) < Len(Wiki) \/ WikiDue(e.iteration))
  BY DEF Commit, ContextInv, ContextDraft, WikiDraft
<1>2. file[The("wiki")] = o.before /\ file'[The("wiki")] = o.to
  <2>1. The("wiki") \in Paths
    BY PathsOf DEF DomainFiles
  <2>2. QED
    BY <1>1, <2>1, Committed
<1>3. Wiki = base
  BY <1>2 DEF Wiki, History, Past
<1> HIDE DEF base, o
<1>4. PICK e \in WikiEntry : file'[The("wiki")] = Append(base, e) /\ WikiDue(e.iteration)
  BY <1>1, <1>2, <1>3
<1>5. Append(base, e) \in Seq(WikiEntry)
  BY <1>1
<1>6. Wiki' = Append(Wiki, e)
  BY <1>3, <1>4, <1>5, WorkflowMarkers DEF Wiki, History
<1>7. QED
  BY <1>4, <1>6

LEMMA CommitInContext ==
  ASSUME LP!LifecycleInv, TypedInv, KnowledgeInv, ContextInv, NEW c \in Clients, Commit(c)
  PROVE  ContextInv'
<1> DEFINE d == pending[c]
<1>1. /\ d # Idle /\ Transition(d.op, d.arg) /\ TypedArg(d.op, d.arg) /\ ContextDraft(d)
      /\ pending' = [pending EXCEPT ![c] = Idle]
  BY DEF Commit, TypedInv, TypedDraft, ContextInv
<1>2. /\ dom'.iteration >= dom.iteration
      /\ \A k \in Iterations : Reached(k) => Reached(k)'
      /\ d.op # "apply-wiki" => \A k \in Iterations : WikiDue(k) => WikiDue(k)'
      /\ d.op = "apply-wiki" =>
           /\ dom.state = "NEEDS_WIKI" /\ dom'.state = "NEEDS_PROPOSAL"
           /\ dom'.iteration = dom.iteration /\ dom'.active = dom.active
      /\ dom'.state = "NEEDS_PROPOSAL" =>
           d.op = "apply-wiki" \/ (d.op = "persist" /\ UNCHANGED dom)
  BY <1>1, Moves
<1>3. /\ dom.iteration \in Nat /\ MaxIterations \in Nat
      /\ dom.state = "NEEDS_WIKI" => dom.iteration \in Iterations
  BY DomTypes, ConstantTypes, StepPaths DEF LP!Evolving
<1>4. \A k \in Iterations : ContextFile(k) \in Paths
  BY PathsOf DEF ContextFile, StepFiles
<1>5. The("wiki") \in Paths /\ The("impact") \in Paths
  BY PathsOf DEF DomainFiles
<1>6. Wiki \in Seq(WikiEntry) /\ TypedInv'
  BY KnowledgeTypes, CommitTyped DEF Wiki, TypedInv
<1>7. Wiki' \in Seq(WikiEntry)
  <2>1. file'[The("wiki")] \in Seq(WikiEntry) \union {Absent}
    BY <1>5, <1>6, KindOf, HoldsWhat DEF TypedInv, TypedFiles
  <2>2. QED
    BY <2>1 DEF Wiki, History
<1>8. dom.iteration # 0 => Len(Wiki) <= Len(Wiki')
  <2>1. dom.iteration # 0 => dom.best # None
    BY DEF LP!LifecycleInv, LP!StopsInTime
  <2>2. dom.iteration # 0 => Seqs!IsPrefix(Wiki, Wiki')
    BY <2>1, CommitGrows DEF GrowsStep, Wiki, History
  <2>3. QED
    BY <2>2 DEF Seqs!IsPrefix
<1>9. d.op = "persist" /\ UNCHANGED dom => Shown' = Shown /\ Wiki' = Wiki
  BY <1>1, <1>5, Committed DEF ContextDraft, Shown, Wiki, Impact, History
<1>10. d.op = "apply-wiki" =>
        \E e \in WikiEntry : Wiki' = Append(Wiki, e) /\ WikiDue(e.iteration)
  BY WikiCommitted
<1>11. ASSUME NEW k \in Iterations, d.op = "apply-wiki" PROVE Reached(k) => k # dom.iteration
  BY <1>2, <1>3, <1>11 DEF Reached, Iterations
<1> HIDE DEF d
<1>12. ContextFiles'
  <2>1. ASSUME NEW k \in Iterations, file'[ContextFile(k)] # Absent PROVE Reached(k)
    <3>1. CASE d.outs[ContextFile(k)] = Keep
      BY <1>4, <2>1, <3>1, Committed DEF ContextInv, ContextFiles, d
    <3>2. CASE d.outs[ContextFile(k)] # Keep
      BY <1>1, <3>2 DEF ContextDraft
    <3>3. QED
      BY <3>1, <3>2
  <2>2. CASE d.op = "persist" /\ UNCHANGED dom /\ dom'.state = "NEEDS_PROPOSAL"
    <3>1. dom.state = "NEEDS_PROPOSAL" /\ dom.iteration \in Iterations
      BY <2>2, StepPaths DEF LP!Evolving
    <3>2. file'[ContextFile(dom.iteration)] \in {Absent, Shown}
      BY <1>1, <1>4, <3>1, Committed DEF ContextInv, ContextFiles, ContextDraft, d
    <3>3. QED
      BY <1>2, <1>9, <2>1, <2>2, <3>1, <3>2 DEF ContextInv, ContextFiles, ContextFile
  <2>3. CASE d.op = "apply-wiki"
    <3>1. dom.state = "NEEDS_WIKI" /\ dom.iteration \in Iterations /\ ~Reached(dom.iteration)
      BY <1>2, <1>3, <1>11, <2>3
    <3>2. file[ContextFile(dom.iteration)] = Absent /\ d.outs[ContextFile(dom.iteration)] = Keep
      BY <1>1, <3>1 DEF ContextInv, ContextFiles, ContextDraft
    <3>3. file'[ContextFile(dom.iteration)] = Absent
      BY <1>4, <3>1, <3>2, Committed DEF d
    <3>4. PICK e \in WikiEntry : Wiki' = Append(Wiki, e) /\ WikiDue(e.iteration)
      BY <1>10, <2>3
    <3>5. Wiki' # <<>> /\ Wiki'[Len(Wiki')] = e
      BY <1>6, <3>4
    <3>6. e.iteration = dom.iteration
      BY <3>4 DEF WikiDue
    <3>7. QED
      BY <1>2, <2>1, <2>3, <3>3, <3>5, <3>6 DEF ContextFiles, ContextFile
  <2>4. CASE dom'.state # "NEEDS_PROPOSAL"
    BY <1>2, <2>1, <2>4 DEF ContextFiles, ContextFile
  <2>5. QED
    BY <1>2, <2>2, <2>3, <2>4
<1>13. ASSUME NEW e, ContextDraft(e) PROVE ContextDraft(e)'
  <2>1. ASSUME NEW k \in Iterations, e.outs[ContextFile(k)] # Keep
        PROVE  /\ e.op = "persist" /\ Reached(k)'
               /\ dom'.state = "NEEDS_PROPOSAL" /\ k = dom'.iteration =>
                    e.outs[ContextFile(k)].to = Shown'
    <3>1. e.op = "persist" /\ Reached(k)
      BY <1>13, <2>1 DEF ContextDraft
    <3>2. ASSUME dom'.state = "NEEDS_PROPOSAL", k = dom'.iteration
          PROVE  e.outs[ContextFile(k)].to = Shown'
      BY <1>2, <1>9, <1>11, <1>13, <2>1, <3>1, <3>2 DEF ContextDraft
    <3>3. QED
      BY <1>2, <3>1, <3>2
  <2>2. ASSUME e.op = "apply-wiki" PROVE WikiDraft(e)'
    <3> DEFINE o == e.outs[The("wiki")]
               base == Past(o.before)
    <3>1. /\ o # Keep /\ ~o.same /\ base \in Seq(WikiEntry)
          /\ dom.iteration # 0 /\ Len(base) <= Len(Wiki)
          /\ \E w \in WikiEntry :
               o.to = Append(base, w) /\ (Len(base) < Len(Wiki) \/ WikiDue(w.iteration))
      BY <1>13, <2>2 DEF ContextDraft, WikiDraft
    <3> HIDE DEF base, o
    <3>2. PICK w \in WikiEntry :
            o.to = Append(base, w) /\ (Len(base) < Len(Wiki) \/ WikiDue(w.iteration))
      BY <3>1
    <3>3. dom'.iteration # 0 /\ Len(base) <= Len(Wiki')
      BY <1>2, <1>3, <1>6, <1>7, <1>8, <3>1
    <3>4. Len(base) < Len(Wiki') \/ WikiDue(w.iteration)'
      <4>1. CASE d.op = "apply-wiki"
        <5>1. PICK x \in WikiEntry : Wiki' = Append(Wiki, x)
          BY <1>10, <4>1
        <5>2. Len(Wiki') = Len(Wiki) + 1
          BY <1>6, <5>1
        <5>3. QED
          BY <1>6, <3>1, <5>2
      <4>2. CASE d.op # "apply-wiki" /\ Len(base) < Len(Wiki)
        BY <1>6, <1>7, <1>8, <3>1, <4>2
      <4>3. CASE d.op # "apply-wiki" /\ WikiDue(w.iteration)
        <5>1. w.iteration \in Iterations
          BY <1>3, <4>3, StepPaths DEF WikiDue, LP!Evolving
        <5>2. QED
          BY <1>2, <4>3, <5>1
      <4>4. QED
        BY <3>2, <4>1, <4>2, <4>3
    <3>5. QED
      BY <3>1, <3>2, <3>3, <3>4 DEF WikiDraft, o, base
  <2>3. QED
    BY <1>13, <2>1, <2>2 DEF ContextDraft
<1>14. ASSUME NEW b \in Clients, NEW e, e = pending'[b], e # Idle PROVE ContextDraft(e)'
  BY <1>1, <1>13, <1>14 DEF ContextInv, TypedInv
<1>15. QED
  BY <1>12, <1>14 DEF ContextInv, ContextDraft, WikiDraft

\* The state a draft is judged by, its files and the histories stay.
LEMMA ContextUndisturbed ==
  ASSUME LP!LifecycleInv, TypedInv, ContextInv, dom'.iteration = dom.iteration, dom'.active = dom.active,
         \/ dom'.state = dom.state
         \/ dom.state \in LP!BeforeBaseline /\ dom'.state \in LP!BeforeBaseline,
         \A q \in Paths : q[1] # "manifest" => file'[q] = file[q],
         \A c \in Clients : pending'[c] \in {pending[c], Idle}
  PROVE  ContextInv'
<1>1. \A k \in Iterations : Reached(k)' = Reached(k)
  BY DEF Reached, LP!BeforeBaseline
<1>2. \A k \in Iterations : file'[ContextFile(k)] = file[ContextFile(k)]
  <2>1. \A k \in Iterations : ContextFile(k) \in Paths /\ ContextFile(k)[1] = "proposer-context"
    BY PathsOf DEF ContextFile, StepFiles, Of
  <2>2. QED
    BY <2>1
<1>3. file'[The("wiki")] = file[The("wiki")] /\ file'[The("impact")] = file[The("impact")]
  <2>1. /\ The("wiki") \in Paths /\ The("wiki")[1] = "wiki"
        /\ The("impact") \in Paths /\ The("impact")[1] = "impact"
    BY PathsOf DEF DomainFiles, The
  <2>2. QED
    BY <2>1
<1>4. Wiki' = Wiki /\ Shown' = Shown
  BY <1>3 DEF Wiki, Shown, Impact, History
<1>5. \A x : WikiDue(x)' = WikiDue(x)
  BY DEF WikiDue, LP!BeforeBaseline
<1>6. dom.state = "NEEDS_PROPOSAL" <=> dom'.state = "NEEDS_PROPOSAL"
  BY DEF LP!BeforeBaseline
<1>7. ContextFiles'
  <2>1. dom.state = "NEEDS_PROPOSAL" => dom.iteration \in Iterations
    BY StepPaths DEF LP!Evolving
  <2>2. \A k \in Iterations : file'[ContextFile(k)] # Absent => Reached(k)'
    BY <1>1, <1>2 DEF ContextInv, ContextFiles
  <2>3. ASSUME dom'.state = "NEEDS_PROPOSAL"
        PROVE  /\ file'[ContextFile(dom'.iteration)] \in {Absent, Shown'}
               /\ Wiki' # <<>> /\ Wiki'[Len(Wiki')].iteration = dom'.iteration
    BY <1>2, <1>4, <1>6, <2>1, <2>3 DEF ContextInv, ContextFiles
  <2>4. QED
    BY <2>2, <2>3 DEF ContextFiles, ContextFile
<1>8. ASSUME NEW e, ContextDraft(e) PROVE ContextDraft(e)'
  BY <1>1, <1>4, <1>5, <1>6, <1>8 DEF ContextDraft, WikiDraft
<1>9. ASSUME NEW b \in Clients, NEW e, e = pending'[b], e # Idle PROVE ContextDraft(e)'
  BY <1>8, <1>9 DEF ContextInv
<1>10. QED
  BY <1>7, <1>9 DEF ContextInv, ContextDraft, WikiDraft

LEMMA StepInContext ==
  ASSUME LP!LifecycleInv, TypedInv, KnowledgeInv, ContextInv, [Next]_vars
  PROVE  ContextInv'
<1>1. CASE UNCHANGED vars
  BY <1>1, ContextUndisturbed DEF vars
<1>2. CASE Initialize
  <2>1. /\ dom.state \in LP!BeforeBaseline /\ dom'.state \in LP!BeforeBaseline
        /\ dom'.iteration = dom.iteration /\ dom'.active = dom.active
    BY <1>2, FoundEffect DEF Initialize, SameBest, SameCandidate
  <2>2. QED
    BY <1>2, <2>1, ContextUndisturbed DEF Initialize
<1>3. ASSUME NEW c \in Clients, Seed(c) \/ Rollout(c) \/ Evolve(c) PROVE ContextInv'
  BY <1>3, SeedInContext, RolloutInContext, EvolveInContext
<1>4. ASSUME NEW c \in Clients, GiveUp(c) PROVE ContextInv'
  <2>1. \A b \in Clients : pending'[b] \in {pending[b], Idle}
    BY <1>4 DEF GiveUp, TypedInv
  <2>2. QED
    BY <1>4, <2>1, ContextUndisturbed DEF GiveUp
<1>5. ASSUME NEW c \in Clients, Commit(c) PROVE ContextInv'
  BY <1>5, CommitInContext
<1>6. ASSUME NEW d \in RunDirs, Damage(d) PROVE ContextInv'
  <2>1. \A q \in Paths : q[1] # "manifest" => file'[q] = file[q]
    BY <1>6, KindOf DEF Damage, TypedInv
  <2>2. QED
    BY <1>6, <2>1, ContextUndisturbed DEF Damage
<1>7. QED
  BY <1>1, <1>2, <1>3, <1>4, <1>5, <1>6 DEF Next

LEMMA InitInContext ==
  ASSUME Init
  PROVE  KnowledgeInv /\ ContextInv
<1>1. dom.state = "UNINITIALIZED"
  BY DEF Init, L!Init
<1>2. \A k \in Iterations : ContextFile(k) \in Paths
  BY PathsOf DEF ContextFile, StepFiles
<1>3. QED
  BY <1>1, <1>2 DEF Init, KnowledgeInv, ContextInv, ContextFiles

(***************************************************************************)
(* What the proposer was shown is what there is: while its proposal is     *)
(* due, the context on file holds the wiki, the impact history and the     *)
(* active snapshot of that very state, and the wiki ends with what this    *)
(* iteration taught, however many processes run proposer-context, apply-   *)
(* wiki and every other command on states other than they drafted on.      *)
(***************************************************************************)
THEOREM ContextStaysCurrent == Spec => []ContextCurrent
<1>1. Init => KnowledgeInv /\ ContextInv
  BY InitInContext
<1>2. WorkflowInv /\ KnowledgeInv /\ ContextInv /\ [Next]_vars => KnowledgeInv' /\ ContextInv'
  BY StepGrows, StepInContext DEF WorkflowInv
<1>3. ContextInv => ContextCurrent
  BY DEF ContextInv, ContextFiles, ContextCurrent, ContextFile, Shown, Wiki
<1>4. QED
  BY <1>1, <1>2, <1>3, WorkflowInvariance, PTL DEF Spec
=============================================================================
