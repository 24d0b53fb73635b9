--------------------------- MODULE LifecycleProofs ---------------------------
(***************************************************************************)
(* Lifecycle keeps LifecycleInv for every set of manifests and snapshots,  *)
(* every range of scores and every number of iterations.                   *)
(***************************************************************************)
EXTENDS Lifecycle, TLAPS

USE DEF Unspent, Finished, Resettable

(***************************************************************************)
(* An operation consumes at most one manifest besides the export, which    *)
(* consumes two; whatever is appended is new.                              *)
(***************************************************************************)
Spends(m, by) ==
  /\ m \in Manifests /\ by \in Uses /\ m \notin ConsumedIn(dom)
  /\ dom'.consumed = Append(dom.consumed, [manifest |-> m, by |-> by])

\* The fields the delivery is about.
KeepsDelivery ==
  /\ dom'.route = dom.route /\ dom'.step = dom.step /\ dom'.prepared = dom.prepared
  /\ dom'.tests = dom.tests /\ dom'.ledger = dom.ledger

LEMMA SpendOnce ==
  ASSUME TypeOK, ConsumedOnce, NEW m, NEW by, Spends(m, by)
  PROVE  ConsumedOnce'
<1> DEFINE s == dom.consumed
           e == [manifest |-> m, by |-> by]
<1>1. s \in Seq([manifest : Manifests, by : Uses]) /\ Len(s) \in Nat
  BY DEF TypeOK, DomainState
<1>2. e \in [manifest : Manifests, by : Uses] /\ e.manifest = m
  BY DEF Spends
<1>3. /\ Len(Append(s, e)) = Len(s) + 1
      /\ Append(s, e)[Len(s) + 1] = e
      /\ \A i \in 1..Len(s) : Append(s, e)[i] = s[i]
  BY <1>1, <1>2
<1>4. \A i \in 1..Len(s) : s[i].manifest # m
  BY DEF Spends, ConsumedIn
<1> DEFINE t == Append(s, e)
<1>5. /\ Len(t) = Len(s) + 1 /\ t[Len(s) + 1].manifest = m
      /\ \A i \in 1..Len(s) : t[i] = s[i]
      /\ \A i, j \in 1..Len(s) : s[i].manifest = s[j].manifest => i = j
  BY <1>2, <1>3 DEF ConsumedOnce
<1>6. dom'.consumed = t
  BY DEF Spends
<1> HIDE DEF s, e, t
<1>7. ASSUME NEW i \in 1..Len(t), NEW j \in 1..Len(t), t[i].manifest = t[j].manifest
      PROVE  i = j
  <2>1. \A k \in 1..Len(t) : k \in 1..Len(s) \/ k = Len(s) + 1
    BY <1>1, <1>5
  <2>2. CASE i \in 1..Len(s) /\ j \in 1..Len(s)
    BY <1>5, <1>7, <2>2
  <2>3. CASE i = Len(s) + 1 /\ j = Len(s) + 1
    BY <2>3
  <2>4. CASE (i \in 1..Len(s) /\ j = Len(s) + 1) \/ (j \in 1..Len(s) /\ i = Len(s) + 1)
    BY <1>4, <1>5, <1>7, <2>4
  <2>5. QED
    BY <2>1, <2>2, <2>3, <2>4
<1>8. QED
  BY <1>6, <1>7 DEF ConsumedOnce

\* What was consumed stays consumed, at its place.
LEMMA SpendKeeps ==
  ASSUME TypeOK, NEW m, NEW by, Spends(m, by)
  PROVE  /\ dom'.consumed \in Seq([manifest : Manifests, by : Uses])
         /\ Len(dom'.consumed) = Len(dom.consumed) + 1
         /\ dom'.consumed[Len(dom'.consumed)] = [manifest |-> m, by |-> by]
         /\ \A i \in 1..Len(dom.consumed) : dom'.consumed[i] = dom.consumed[i]
BY DEF TypeOK, DomainState, Spends

LEMMA DeliveryKept ==
  ASSUME TypeOK, OneDelivery, KeepsDelivery,
         \/ dom'.consumed = dom.consumed
         \/ \E m \in Manifests, by \in Uses : Spends(m, by)
  PROVE  OneDelivery'
<1>1. /\ Len(dom.consumed) \in Nat /\ Len(dom'.consumed) \in Nat
      /\ Len(dom.consumed) \leq Len(dom'.consumed)
      /\ \A i \in 1..Len(dom.consumed) : dom'.consumed[i] = dom.consumed[i]
  <2>1. Len(dom.consumed) \in Nat
    BY DEF TypeOK, DomainState
  <2>2. CASE dom'.consumed = dom.consumed
    BY <2>1, <2>2
  <2>3. ASSUME NEW m \in Manifests, NEW by \in Uses, Spends(m, by)
        PROVE  /\ Len(dom'.consumed) = Len(dom.consumed) + 1
               /\ \A i \in 1..Len(dom.consumed) : dom'.consumed[i] = dom.consumed[i]
    BY <2>1, <2>3, SpendKeeps
  <2>4. QED
    BY <2>1, <2>2, <2>3
<1>2. dom'.step = "exported" =>
        \A ph \in TestPhases : \E i \in 1..Len(dom'.consumed) :
          dom'.consumed[i] = [manifest |-> dom'.tests[ph], by |-> "export"]
  <2> SUFFICES ASSUME dom'.step = "exported", NEW ph \in TestPhases
               PROVE  \E i \in 1..Len(dom'.consumed) :
                        dom'.consumed[i] = [manifest |-> dom'.tests[ph], by |-> "export"]
    OBVIOUS
  <2>1. PICK i \in 1..Len(dom.consumed) :
          dom.consumed[i] = [manifest |-> dom.tests[ph], by |-> "export"]
    BY DEF OneDelivery, KeepsDelivery
  <2>2. i \in 1..Len(dom'.consumed) /\ dom'.tests = dom.tests
    BY <1>1, <2>1 DEF KeepsDelivery
  <2>3. QED
    BY <1>1, <2>1, <2>2
<1>3. QED
  BY <1>2 DEF OneDelivery, KeepsDelivery

LEMMA StateNames ==
  /\ BeforeBaseline \subseteq States /\ Evolving \subseteq States
  /\ Candidate \subseteq Evolving /\ "DONE" \in States
BY DEF States, Evolving

LEMMA FieldNames ==
  /\ "none" \in GatePhases /\ "validation" \in GatePhases /\ "confirmation" \in GatePhases
  /\ "none" \in RunPhases /\ "train" \in RunPhases /\ "val" \in RunPhases
  /\ "val_confirm" \in RunPhases /\ "none" \in SeedDecisions
  /\ "none" \in DeliverySteps /\ "prepared" \in DeliverySteps
  /\ "ingested" \in DeliverySteps /\ "exported" \in DeliverySteps
BY DEF GatePhases, RunPhases, SeedDecisions, DeliverySteps

LEMMA InitInv == Init => LifecycleInv
<1> SUFFICES ASSUME Init PROVE LifecycleInv
  OBVIOUS
<1> USE LifecycleConstants DEF Init
<1>1. TypeOK
  BY FieldNames DEF TypeOK, DomainState, States, BeforeBaseline
<1>2. ConsumedOnce /\ CandidateScope /\ ConfirmationEarned
  BY DEF ConsumedOnce, CandidateScope, ConfirmationEarned, At, Candidate
<1>3. StopsInTime /\ OneDelivery
  BY DEF StopsInTime, OneDelivery, At, BeforeBaseline
<1>4. QED
  BY <1>1, <1>2, <1>3 DEF LifecycleInv

-----------------------------------------------------------------------------
(***************************************************************************)
(* What the helpers of the table return.                                   *)
(***************************************************************************)

LEMMA BecomeType ==
  ASSUME NEW operation \in Operations, NEW d \in DomainState, Become(operation, d)
  PROVE  TypeOK'
BY DEF Become, TypeOK, DomainState

LEMMA ConsumeFacts ==
  ASSUME NEW d \in DomainState, NEW m \in Manifests, NEW by \in Uses
  PROVE  /\ Consume(d, m, by) \in DomainState
         /\ Consume(d, m, by) =
              [d EXCEPT !.consumed = Append(d.consumed, [manifest |-> m, by |-> by])]
<1> DEFINE c == Append(d.consumed, [manifest |-> m, by |-> by])
<1>1. [manifest |-> m, by |-> by] \in [manifest : Manifests, by : Uses]
  OBVIOUS
<1>2. d.consumed \in Seq([manifest : Manifests, by : Uses])
  BY DEF DomainState
<1>3. c \in Seq([manifest : Manifests, by : Uses])
  BY <1>1, <1>2
<1>4. Consume(d, m, by) = [d EXCEPT !.consumed = c]
  BY DEF Consume, DomainState
<1> HIDE DEF c
<1>5. [d EXCEPT !.consumed = c] \in DomainState
  BY <1>3, FieldNames DEF DomainState
<1>6. QED
  BY <1>4, <1>5 DEF c

(***************************************************************************)
(* After Advance the domain is in a new iteration, or done, with no trace  *)
(* of the candidate.                                                       *)
(***************************************************************************)
LEMMA AdvanceFacts ==
  ASSUME NEW d \in DomainState, d.iteration \in 1..MaxIterations, NEW a, a = Advance(d)
  PROVE  /\ a \in DomainState
         /\ a.state \in {"NEEDS_TRAIN_RUN", "DONE"} /\ a.iteration \in 1..(MaxIterations + 1)
         /\ a.state = "DONE" <=> a.best = Perfect \/ a.iteration > MaxIterations
         /\ a.best = d.best /\ a.active = d.active /\ a.consumed = d.consumed
         /\ a.confirm = d.confirm
         /\ a.route = d.route /\ a.step = d.step /\ a.prepared = d.prepared
         /\ a.tests = d.tests /\ a.ledger = d.ledger
         /\ a.candidate = None /\ a.provisional = None /\ a.confirmation = None
         /\ a.provisionalManifest = None /\ a.gatePhase = "none"
         /\ a.current = None /\ a.currentPhase = "none"
<1> DEFINE next == IF d.best = Perfect THEN d.iteration ELSE d.iteration + 1
           over == IF d.best = Perfect \/ next > MaxIterations THEN "DONE" ELSE "NEEDS_TRAIN_RUN"
<1>1. next \in 1..(MaxIterations + 1) /\ over \in States /\ over \in {"NEEDS_TRAIN_RUN", "DONE"}
  BY LifecycleConstants, StateNames DEF Evolving
<1>2. over = "DONE" <=> d.best = Perfect \/ next > MaxIterations
  OBVIOUS
<1> DEFINE e == [d EXCEPT !.state = over, !.iteration = next,
                          !.candidate = None, !.provisional = None, !.confirmation = None,
                          !.provisionalManifest = None, !.gatePhase = "none",
                          !.current = None, !.currentPhase = "none"]
<1>3. a = e
  BY DEF Advance
<1>4. next \in 0..(MaxIterations + 1)
  BY <1>1, LifecycleConstants
<1> HIDE DEF next, over
<1>5. e \in DomainState
  BY <1>1, <1>4, FieldNames DEF DomainState
<1>6. /\ e.state = over /\ e.iteration = next
      /\ e.best = d.best /\ e.active = d.active /\ e.consumed = d.consumed
      /\ e.confirm = d.confirm
      /\ e.route = d.route /\ e.step = d.step /\ e.prepared = d.prepared
      /\ e.tests = d.tests /\ e.ledger = d.ledger
      /\ e.candidate = None /\ e.provisional = None /\ e.confirmation = None
      /\ e.provisionalManifest = None /\ e.gatePhase = "none"
      /\ e.current = None /\ e.currentPhase = "none"
  BY DEF DomainState
<1> HIDE DEF e
<1>7. QED
  BY <1>1, <1>2, <1>3, <1>5, <1>6

\* An operation that settles the candidate, or ends an iteration without one.
LEMMA AdvanceInv ==
  ASSUME LifecycleInv, At(Evolving), NEW operation \in Operations, NEW d \in DomainState,
         Become(operation, Advance(d)),
         d.iteration = dom.iteration, d.best # None,
         d.route = dom.route, d.step = dom.step, d.prepared = dom.prepared,
         d.tests = dom.tests, d.ledger = dom.ledger,
         \/ d.consumed = dom.consumed
         \/ \E m \in Manifests, by \in Uses :
              /\ m \notin ConsumedIn(dom)
              /\ d.consumed = Append(dom.consumed, [manifest |-> m, by |-> by])
  PROVE  LifecycleInv'
<1>1. d.iteration \in 1..MaxIterations
  <2>1. dom.iteration \in 0..(MaxIterations + 1)
    BY DEF LifecycleInv, TypeOK, DomainState
  <2>2. ~At(BeforeBaseline) /\ ~At({"DONE"})
    BY DEF At, Evolving, Candidate, BeforeBaseline
  <2>3. QED
    BY <2>1, <2>2, LifecycleConstants DEF LifecycleInv, StopsInTime
<1> DEFINE a == Advance(d)
<1>2. /\ a \in DomainState
      /\ a.state \in {"NEEDS_TRAIN_RUN", "DONE"} /\ a.iteration \in 1..(MaxIterations + 1)
      /\ a.state = "DONE" <=> a.best = Perfect \/ a.iteration > MaxIterations
      /\ a.best = d.best /\ a.consumed = d.consumed
      /\ a.route = d.route /\ a.step = d.step /\ a.prepared = d.prepared
      /\ a.tests = d.tests /\ a.ledger = d.ledger
      /\ a.candidate = None /\ a.provisional = None /\ a.confirmation = None
      /\ a.provisionalManifest = None /\ a.gatePhase = "none"
      /\ a.current = None
  BY <1>1, AdvanceFacts
<1> HIDE DEF a
<1>3. dom' = [a EXCEPT !.last = operation]
  BY DEF Become, a
<1>4. TypeOK'
  BY <1>2, BecomeType DEF Become, a
<1>5. /\ dom'.state = a.state /\ dom'.iteration = a.iteration /\ dom'.best = a.best
      /\ dom'.consumed = d.consumed /\ KeepsDelivery
      /\ dom'.candidate = None /\ dom'.provisional = None /\ dom'.confirmation = None
      /\ dom'.provisionalManifest = None /\ dom'.gatePhase = "none" /\ dom'.current = None
  BY <1>2, <1>3 DEF DomainState, KeepsDelivery
<1>6. dom'.consumed = dom.consumed \/ \E m \in Manifests, by \in Uses : Spends(m, by)
  BY <1>5 DEF Spends
<1>7. ConsumedOnce' /\ OneDelivery'
  <2>1. CASE dom'.consumed = dom.consumed
    BY <2>1, <1>5, DeliveryKept DEF ConsumedOnce, LifecycleInv
  <2>2. CASE \E m \in Manifests, by \in Uses : Spends(m, by)
    BY <2>2, <1>5, SpendOnce, DeliveryKept DEF LifecycleInv
  <2>3. QED
    BY <1>6, <2>1, <2>2
<1>8. CandidateScope' /\ ConfirmationEarned'
  BY <1>2, <1>5 DEF CandidateScope, ConfirmationEarned, At, Candidate
<1>9. StopsInTime'
  BY <1>2, <1>5 DEF StopsInTime, At, BeforeBaseline
<1>10. QED
  BY <1>4, <1>7, <1>8, <1>9 DEF LifecycleInv

\* An operation that leaves the delivery alone and consumes at most one manifest.
LEMMA Assemble ==
  ASSUME LifecycleInv, TypeOK', KeepsDelivery,
         \/ dom'.consumed = dom.consumed
         \/ \E m \in Manifests, by \in Uses : Spends(m, by),
         CandidateScope', ConfirmationEarned', StopsInTime'
  PROVE  LifecycleInv'
<1>1. OneDelivery'
  BY DeliveryKept DEF LifecycleInv
<1>2. CASE dom'.consumed = dom.consumed
  BY <1>1, <1>2 DEF LifecycleInv, ConsumedOnce
<1>3. CASE \E m \in Manifests, by \in Uses : Spends(m, by)
  BY <1>1, <1>3, SpendOnce DEF LifecycleInv
<1>4. QED
  BY <1>2, <1>3

-----------------------------------------------------------------------------
(***************************************************************************)
(* One lemma per operation.                                                *)
(***************************************************************************)

LEMMA SeedType ==
  ASSUME NEW d \in DomainState, NEW state \in States,
         NEW choice \in SeedDecisions
  PROVE  [d EXCEPT !.state = state, !.seed = choice] \in DomainState
BY DEF DomainState

LEMMA FoundInv ==
  ASSUME LifecycleInv, Found
  PROVE  LifecycleInv'
<1>1. PICK from \in BeforeBaseline, to \in BeforeBaseline,
           choice \in SeedDecisions, operation \in Operations :
        /\ dom.state = from
        /\ Become(operation, [dom EXCEPT !.state = to, !.seed = choice])
  <2>1. dom.seed \in SeedDecisions /\ dom = [dom EXCEPT !.seed = dom.seed]
    BY DEF LifecycleInv, TypeOK, DomainState
  <2>2. CASE InitDomain
    <3>1. Become("init", [dom EXCEPT !.state = "NEEDS_OPTIONAL_SEED", !.seed = dom.seed])
      BY <2>2 DEF InitDomain, Become, LifecycleInv, TypeOK, DomainState
    <3>2. QED
      BY <2>1, <2>2, <3>1 DEF InitDomain, At, BeforeBaseline, Operations
  <2>3. CASE SeedObservations \/ SkipSeed \/ RollbackSeed
    BY <2>3 DEF SeedObservations, SkipSeed, RollbackSeed, At, BeforeBaseline, Operations,
                SeedDecisions
  <2>4. QED
    BY <2>2, <2>3 DEF Found
<1> DEFINE d == [dom EXCEPT !.state = to, !.seed = choice]
<1>2. d \in DomainState
  <2>1. dom \in DomainState /\ to \in States /\ choice \in SeedDecisions
    BY <1>1, StateNames DEF LifecycleInv, TypeOK
  <2>2. QED
    BY <2>1, SeedType
<1>3. TypeOK'
  BY <1>1, <1>2, BecomeType
<1>4. /\ KeepsDelivery /\ dom'.consumed = dom.consumed /\ dom'.state = to
      /\ dom'.iteration = dom.iteration /\ dom'.best = dom.best
      /\ dom'.candidate = dom.candidate /\ dom'.provisional = dom.provisional
      /\ dom'.confirmation = dom.confirmation /\ dom'.gatePhase = dom.gatePhase
      /\ dom'.provisionalManifest = dom.provisionalManifest /\ dom'.current = dom.current
  BY <1>1 DEF Become, KeepsDelivery, LifecycleInv, TypeOK, DomainState
<1>5. CandidateScope' /\ ConfirmationEarned' /\ StopsInTime'
  BY <1>1, <1>4 DEF LifecycleInv, CandidateScope, ConfirmationEarned, StopsInTime, At,
                    BeforeBaseline, Candidate
<1>6. QED
  BY <1>3, <1>4, <1>5, Assemble

LEMMA BaselineType ==
  ASSUME NEW d \in DomainState, NEW score \in Scores, NEW snapshot \in Snapshots,
         NEW n \in 0..(MaxIterations + 1), NEW state \in States
  PROVE  [d EXCEPT !.best = score, !.active = snapshot, !.iteration = n, !.state = state]
           \in DomainState
BY DEF DomainState

LEMMA FinalizeBaselineInv ==
  ASSUME LifecycleInv, NEW m \in Manifests, NEW score \in Scores, NEW snapshot \in Snapshots,
         FinalizeBaseline(m, score, snapshot)
  PROVE  LifecycleInv'
<1> DEFINE to == IF score = Perfect THEN "DONE" ELSE "NEEDS_TRAIN_RUN"
           d == [dom EXCEPT !.best = score, !.active = snapshot, !.iteration = 1, !.state = to]
<1>1. to \in States /\ to \in {"DONE", "NEEDS_TRAIN_RUN"} /\ (to = "DONE" <=> score = Perfect)
  BY StateNames DEF Evolving
<1>2. /\ Become("baseline-finalize", Consume(d, m, "baseline-finalize"))
      /\ m \notin ConsumedIn(dom) /\ dom.state = "NEEDS_BASELINE_RUN"
  BY DEF FinalizeBaseline, At
<1> HIDE DEF to
<1>3. d \in DomainState
  <2>1. dom \in DomainState /\ 1 \in 0..(MaxIterations + 1)
    BY LifecycleConstants DEF LifecycleInv, TypeOK
  <2>2. QED
    BY <1>1, <2>1, BaselineType
<1>4. /\ d.consumed = dom.consumed /\ d.best = score /\ d.iteration = 1 /\ d.state = to
      /\ d.route = dom.route /\ d.step = dom.step /\ d.prepared = dom.prepared
      /\ d.tests = dom.tests /\ d.ledger = dom.ledger
      /\ d.candidate = dom.candidate /\ d.provisional = dom.provisional
      /\ d.confirmation = dom.confirmation /\ d.gatePhase = dom.gatePhase
      /\ d.provisionalManifest = dom.provisionalManifest /\ d.current = dom.current
  BY DEF LifecycleInv, TypeOK, DomainState
<1> HIDE DEF d
<1>5. /\ TypeOK'
      /\ dom'.consumed = Append(dom.consumed, [manifest |-> m, by |-> "baseline-finalize"])
      /\ KeepsDelivery
      /\ dom'.best = score /\ dom'.iteration = 1 /\ dom'.state = to
      /\ dom'.candidate = dom.candidate /\ dom'.provisional = dom.provisional
      /\ dom'.confirmation = dom.confirmation /\ dom'.gatePhase = dom.gatePhase
      /\ dom'.provisionalManifest = dom.provisionalManifest /\ dom'.current = dom.current
  <2>1. /\ Consume(d, m, "baseline-finalize") \in DomainState
        /\ Consume(d, m, "baseline-finalize") =
             [d EXCEPT !.consumed = Append(d.consumed, [manifest |-> m, by |-> "baseline-finalize"])]
    BY <1>3, ConsumeFacts DEF Uses
  <2>2. TypeOK'
    BY <1>2, <2>1, BecomeType DEF Operations
  <2>3. QED
    BY <1>2, <1>3, <1>4, <2>1, <2>2 DEF Become, KeepsDelivery, DomainState
<1>6. Spends(m, "baseline-finalize")
  BY <1>2, <1>5 DEF Spends, Uses
<1>7. CandidateScope' /\ ConfirmationEarned' /\ StopsInTime'
  BY <1>1, <1>2, <1>5, LifecycleConstants
  DEF LifecycleInv, CandidateScope, ConfirmationEarned, StopsInTime, At, BeforeBaseline,
      Candidate, Scores
<1>8. QED
  BY <1>5, <1>6, <1>7, Assemble DEF Uses

LEMMA IngestTrainInv ==
  ASSUME LifecycleInv, NEW m \in Manifests, IngestTrain(m)
  PROVE  LifecycleInv'
<1> DEFINE d == [Own(dom, m, "train") EXCEPT !.state = "NEEDS_WIKI"]
<1>1. Become("train-ingest", d) /\ dom.state = "NEEDS_TRAIN_RUN"
  BY DEF IngestTrain, At
<1>2. d = [dom EXCEPT !.current = m, !.currentPhase = "train", !.state = "NEEDS_WIKI"]
  BY DEF Own, LifecycleInv, TypeOK, DomainState
<1> HIDE DEF d
<1>3. "NEEDS_WIKI" \in States
  BY StateNames DEF Evolving
<1>4. d \in DomainState
  <2>1. dom \in DomainState
    BY DEF LifecycleInv, TypeOK
  <2>2. QED
    BY <1>2, <1>3, <2>1, FieldNames DEF DomainState
<1>5. TypeOK'
  BY <1>1, <1>4, BecomeType DEF Operations
<1>6. /\ KeepsDelivery /\ dom'.consumed = dom.consumed /\ dom'.state = "NEEDS_WIKI"
      /\ dom'.iteration = dom.iteration /\ dom'.best = dom.best
      /\ dom'.candidate = dom.candidate /\ dom'.provisional = dom.provisional
      /\ dom'.confirmation = dom.confirmation /\ dom'.gatePhase = dom.gatePhase
      /\ dom'.provisionalManifest = dom.provisionalManifest /\ dom'.current = m
  BY <1>1, <1>2 DEF Become, KeepsDelivery, LifecycleInv, TypeOK, DomainState
<1>7. CandidateScope' /\ ConfirmationEarned' /\ StopsInTime'
  BY <1>1, <1>6, LifecycleConstants
  DEF LifecycleInv, CandidateScope, ConfirmationEarned, StopsInTime, At, BeforeBaseline, Candidate
<1>8. QED
  BY <1>5, <1>6, <1>7, Assemble

LEMMA ApplyWikiInv ==
  ASSUME LifecycleInv, ApplyWiki
  PROVE  LifecycleInv'
<1> DEFINE m == dom.current
           d == [dom EXCEPT !.state = "NEEDS_PROPOSAL", !.current = None, !.currentPhase = "none"]
<1>1. /\ dom.state = "NEEDS_WIKI" /\ dom \in DomainState
      /\ m \in Manifests /\ m \notin ConsumedIn(dom)
      /\ Become("apply-wiki", Consume(d, m, "apply-wiki"))
  <2>1. dom.current \in Manifests \union {None}
    BY DEF LifecycleInv, TypeOK, DomainState
  <2>2. QED
    BY <2>1 DEF ApplyWiki, Owns, At, LifecycleInv, TypeOK
<1>2. "NEEDS_PROPOSAL" \in States
  BY StateNames DEF Evolving
<1>3. d \in DomainState
  <2>1. dom \in DomainState
    BY <1>1
  <2>2. QED
    BY <1>2, <2>1, FieldNames DEF DomainState
<1>4. /\ d.state = "NEEDS_PROPOSAL" /\ d.current = None /\ d.consumed = dom.consumed
      /\ d.route = dom.route /\ d.step = dom.step /\ d.prepared = dom.prepared
      /\ d.tests = dom.tests /\ d.ledger = dom.ledger
      /\ d.iteration = dom.iteration /\ d.best = dom.best
      /\ d.candidate = dom.candidate /\ d.provisional = dom.provisional
      /\ d.confirmation = dom.confirmation /\ d.gatePhase = dom.gatePhase
      /\ d.provisionalManifest = dom.provisionalManifest
  BY <1>1, FieldNames DEF DomainState
<1> HIDE DEF d, m
<1>5. /\ Consume(d, m, "apply-wiki") \in DomainState
      /\ Consume(d, m, "apply-wiki") =
           [d EXCEPT !.consumed = Append(d.consumed, [manifest |-> m, by |-> "apply-wiki"])]
  BY <1>1, <1>3, ConsumeFacts DEF Uses
<1>6. TypeOK'
  BY <1>1, <1>5, BecomeType DEF Operations
<1>7. /\ dom'.consumed = Append(dom.consumed, [manifest |-> m, by |-> "apply-wiki"])
      /\ KeepsDelivery
      /\ dom'.state = "NEEDS_PROPOSAL" /\ dom'.current = None
      /\ dom'.iteration = dom.iteration /\ dom'.best = dom.best
      /\ dom'.candidate = dom.candidate /\ dom'.provisional = dom.provisional
      /\ dom'.confirmation = dom.confirmation /\ dom'.gatePhase = dom.gatePhase
      /\ dom'.provisionalManifest = dom.provisionalManifest
  BY <1>1, <1>3, <1>4, <1>5 DEF Become, KeepsDelivery, DomainState
<1>8. Spends(m, "apply-wiki")
  BY <1>1, <1>7 DEF Spends, Uses
<1>9. CandidateScope' /\ ConfirmationEarned' /\ StopsInTime'
  BY <1>1, <1>7
  DEF LifecycleInv, CandidateScope, ConfirmationEarned, StopsInTime, At, BeforeBaseline, Candidate
<1>10. QED
  BY <1>1, <1>6, <1>7, <1>8, <1>9, Assemble DEF Uses

LEMMA ProposeChangeInv ==
  ASSUME LifecycleInv, NEW snapshot \in Snapshots, ProposeChange(snapshot)
  PROVE  LifecycleInv'
<1> DEFINE d == [dom EXCEPT !.state = "NEEDS_VAL_RUN", !.candidate = snapshot]
<1>1. /\ dom.state = "NEEDS_PROPOSAL" /\ dom \in DomainState
      /\ Become("apply-proposal-change", d)
  BY DEF ProposeChange, At, LifecycleInv, TypeOK
<1>2. "NEEDS_VAL_RUN" \in States
  BY StateNames DEF Candidate
<1>3. d \in DomainState
  BY <1>1, <1>2, FieldNames DEF DomainState
<1>4. TypeOK'
  BY <1>1, <1>3, BecomeType DEF Operations
<1>5. /\ KeepsDelivery /\ dom'.consumed = dom.consumed /\ dom'.state = "NEEDS_VAL_RUN"
      /\ dom'.iteration = dom.iteration /\ dom'.best = dom.best
      /\ dom'.candidate = snapshot /\ dom'.provisional = dom.provisional
      /\ dom'.confirmation = dom.confirmation /\ dom'.gatePhase = dom.gatePhase
      /\ dom'.provisionalManifest = dom.provisionalManifest /\ dom'.current = dom.current
  BY <1>1 DEF Become, KeepsDelivery, DomainState
<1>6. CandidateScope' /\ ConfirmationEarned' /\ StopsInTime'
  BY <1>1, <1>5, LifecycleConstants
  DEF LifecycleInv, CandidateScope, ConfirmationEarned, StopsInTime, At, BeforeBaseline, Candidate
<1>7. QED
  BY <1>4, <1>5, <1>6, Assemble

LEMMA ProposeNothingInv ==
  ASSUME LifecycleInv, ProposeNothing
  PROVE  LifecycleInv'
<1>1. /\ At(Evolving) /\ dom \in DomainState /\ dom.best # None
      /\ Become("apply-proposal-no-action", Advance(dom))
  BY DEF ProposeNothing, At, Evolving, LifecycleInv, TypeOK, StopsInTime, BeforeBaseline
<1>2. QED
  BY <1>1, AdvanceInv DEF Operations

LEMMA ConfirmType ==
  ASSUME NEW d \in DomainState, NEW m \in Manifests, NEW score \in Scores, NEW state \in States
  PROVE  [d EXCEPT !.current = m, !.currentPhase = "val_confirm", !.state = state,
                   !.confirmation = score, !.gatePhase = "confirmation"] \in DomainState
BY FieldNames DEF DomainState

LEMMA ValType ==
  ASSUME NEW d \in DomainState, NEW m \in Manifests, NEW score \in Scores, NEW state \in States
  PROVE  [d EXCEPT !.current = m, !.currentPhase = "val", !.state = state,
                   !.provisional = score, !.gatePhase = "validation"] \in DomainState
BY FieldNames DEF DomainState

\* Both ingests of a candidate's evidence, and what they leave alone.
LEMMA IngestedInv ==
  ASSUME LifecycleInv, NEW m \in Manifests, NEW score \in Scores,
         IngestVal(m, score) \/ IngestConfirm(m, score)
  PROVE  LifecycleInv'
<1>1. dom \in DomainState /\ "NEEDS_GATE" \in States
  BY StateNames DEF LifecycleInv, TypeOK, Candidate
<1>2. CASE IngestVal(m, score)
  <2> DEFINE d == [dom EXCEPT !.current = m, !.currentPhase = "val", !.state = "NEEDS_GATE",
                              !.provisional = score, !.gatePhase = "validation"]
  <2>1. dom.state = "NEEDS_VAL_RUN" /\ Become("val-ingest", d)
    BY <1>1, <1>2 DEF IngestVal, Own, At, DomainState, Become
  <2>2. d \in DomainState
    BY <1>1, ValType
  <2>3. TypeOK'
    BY <2>1, <2>2, BecomeType DEF Operations
  <2>4. /\ KeepsDelivery /\ dom'.consumed = dom.consumed /\ dom'.state = "NEEDS_GATE"
        /\ dom'.iteration = dom.iteration /\ dom'.best = dom.best
        /\ dom'.candidate = dom.candidate /\ dom'.provisional = score
        /\ dom'.confirmation = dom.confirmation /\ dom'.gatePhase = "validation"
        /\ dom'.provisionalManifest = dom.provisionalManifest /\ dom'.current = m
    BY <1>1, <2>1 DEF Become, KeepsDelivery, DomainState
  <2>5. CandidateScope' /\ ConfirmationEarned' /\ StopsInTime'
    BY <2>1, <2>4, LifecycleConstants
    DEF LifecycleInv, CandidateScope, ConfirmationEarned, StopsInTime, At, BeforeBaseline,
        Candidate, Scores
  <2>6. QED
    BY <2>3, <2>4, <2>5, Assemble
<1>3. CASE IngestConfirm(m, score)
  <2> DEFINE d == [dom EXCEPT !.current = m, !.currentPhase = "val_confirm",
                              !.state = "NEEDS_GATE", !.confirmation = score,
                              !.gatePhase = "confirmation"]
  <2>1. dom.state = "NEEDS_VAL_CONFIRM" /\ Become("confirm-ingest", d)
    BY <1>1, <1>3 DEF IngestConfirm, Own, At, DomainState, Become
  <2>2. d \in DomainState
    BY <1>1, ConfirmType
  <2>3. TypeOK'
    BY <2>1, <2>2, BecomeType DEF Operations
  <2>4. /\ KeepsDelivery /\ dom'.consumed = dom.consumed /\ dom'.state = "NEEDS_GATE"
        /\ dom'.iteration = dom.iteration /\ dom'.best = dom.best /\ dom'.confirm = dom.confirm
        /\ dom'.candidate = dom.candidate /\ dom'.provisional = dom.provisional
        /\ dom'.confirmation = score /\ dom'.gatePhase = "confirmation"
        /\ dom'.provisionalManifest = dom.provisionalManifest /\ dom'.current = m
    BY <1>1, <2>1 DEF Become, KeepsDelivery, DomainState
  <2>5. CandidateScope' /\ StopsInTime'
    <3>1. score # None /\ m # None
      BY LifecycleConstants DEF Scores
    <3>2. CandidateScope'
      BY <2>1, <2>4, <3>1 DEF LifecycleInv, CandidateScope, At, Candidate
    <3>3. StopsInTime'
      BY <2>1, <2>4 DEF LifecycleInv, StopsInTime, At, BeforeBaseline
    <3>4. QED
      BY <3>2, <3>3
  <2>6. ConfirmationEarned'
    BY <2>1, <2>4 DEF LifecycleInv, ConfirmationEarned, At
  <2>7. QED
    BY <2>3, <2>4, <2>5, <2>6, Assemble
<1>4. QED
  BY <1>2, <1>3

(***************************************************************************)
(* The gate.                                                               *)
(***************************************************************************)

\* The manifest the gate owns is a manifest, and unspent.
LEMMA OwnedManifest ==
  ASSUME TypeOK, NEW phases, Owns(phases)
  PROVE  dom.current \in Manifests /\ dom.current \notin ConsumedIn(dom)
BY DEF TypeOK, DomainState, Owns

LEMMA ScoreFacts == \A score \in Scores : score \in Nat /\ score # None
BY LifecycleConstants DEF Scores

LEMMA PromotedType ==
  ASSUME NEW d \in DomainState, NEW score \in Scores, NEW snapshot \in Snapshots
  PROVE  [d EXCEPT !.best = score, !.active = snapshot] \in DomainState
BY DEF DomainState

\* Consume and promote, or consume only, then advance.
LEMMA SettleInv ==
  ASSUME LifecycleInv, At(Evolving), NEW operation \in Operations, NEW by \in Uses,
         NEW m \in Manifests, m \notin ConsumedIn(dom), NEW d,
         LET used == Consume(dom, m, by)
         IN  \/ d = used
             \/ \E score \in Scores : /\ dom.candidate \in Snapshots
                                      /\ d = [used EXCEPT !.best = score, !.active = used.candidate],
         Become(operation, Advance(d))
  PROVE  LifecycleInv'
<1> DEFINE used == Consume(dom, m, by)
           c == Append(dom.consumed, [manifest |-> m, by |-> by])
<1>1. /\ dom \in DomainState /\ dom.best # None
      /\ used \in DomainState /\ used = [dom EXCEPT !.consumed = c]
  BY ConsumeFacts DEF LifecycleInv, TypeOK, At, Evolving, Candidate, BeforeBaseline, StopsInTime
<1>2. /\ used.consumed = c /\ used.iteration = dom.iteration /\ used.best = dom.best
      /\ used.candidate = dom.candidate
      /\ used.route = dom.route /\ used.step = dom.step /\ used.prepared = dom.prepared
      /\ used.tests = dom.tests /\ used.ledger = dom.ledger
  <2> HIDE DEF used, c
  <2>1. QED
    BY <1>1, FieldNames DEF DomainState
<1> HIDE DEF c
<1>3. /\ d \in DomainState /\ d.consumed = c /\ d.iteration = dom.iteration /\ d.best # None
      /\ d.route = dom.route /\ d.step = dom.step /\ d.prepared = dom.prepared
      /\ d.tests = dom.tests /\ d.ledger = dom.ledger
  <2>1. CASE d = used
    BY <1>1, <1>2, <2>1
  <2>2. ASSUME NEW score \in Scores, dom.candidate \in Snapshots,
               d = [used EXCEPT !.best = score, !.active = used.candidate]
        PROVE  /\ d \in DomainState /\ d.consumed = c /\ d.iteration = dom.iteration
               /\ d.best # None
               /\ d.route = dom.route /\ d.step = dom.step /\ d.prepared = dom.prepared
               /\ d.tests = dom.tests /\ d.ledger = dom.ledger
    <3>1. score # None
      BY <2>2, ScoreFacts
    <3> HIDE DEF used
    <3>2. used.candidate \in Snapshots
      BY <1>2, <2>2
    <3>3. [used EXCEPT !.best = score, !.active = used.candidate] \in DomainState
      BY <1>1, <2>2, <3>2, PromotedType
    <3>4. QED
      BY <1>1, <1>2, <2>2, <3>1, <3>3 DEF DomainState
  <2>3. QED
    BY <2>1, <2>2
<1>4. QED
  BY <1>3, AdvanceInv DEF c

LEMMA AskConfirmationInv ==
  ASSUME LifecycleInv, AskConfirmation
  PROVE  LifecycleInv'
<1> DEFINE m == dom.current
           d == [dom EXCEPT !.state = "NEEDS_VAL_CONFIRM", !.provisionalManifest = dom.current,
                            !.current = None, !.currentPhase = "none"]
           e == [manifest |-> m, by |-> "gate-validation"]
<1>1. /\ dom.state = "NEEDS_GATE" /\ dom.gatePhase = "validation" /\ dom.confirm
      /\ dom.best # None /\ dom.provisional > dom.best
      /\ m \in Manifests /\ m \notin ConsumedIn(dom)
      /\ Become("gate", Consume(d, m, "gate-validation"))
  BY OwnedManifest DEF AskConfirmation, Gated, StrictWin, Judged, At, LifecycleInv
<1>2. dom \in DomainState /\ "NEEDS_VAL_CONFIRM" \in States
  BY StateNames DEF LifecycleInv, TypeOK, Candidate
<1> HIDE DEF m
<1>3. d = [dom EXCEPT !.state = "NEEDS_VAL_CONFIRM", !.provisionalManifest = m,
                      !.current = None, !.currentPhase = "none"]
  BY DEF m
<1> HIDE DEF d
<1>4. d \in DomainState
  BY <1>1, <1>2, <1>3, FieldNames DEF DomainState
<1>5. /\ d.state = "NEEDS_VAL_CONFIRM" /\ d.current = None /\ d.provisionalManifest = m
      /\ d.consumed = dom.consumed /\ d.confirm = dom.confirm
      /\ d.route = dom.route /\ d.step = dom.step /\ d.prepared = dom.prepared
      /\ d.tests = dom.tests /\ d.ledger = dom.ledger
      /\ d.iteration = dom.iteration /\ d.best = dom.best
      /\ d.candidate = dom.candidate /\ d.provisional = dom.provisional
      /\ d.confirmation = dom.confirmation /\ d.gatePhase = dom.gatePhase
  BY <1>2, <1>3, FieldNames DEF DomainState
<1>6. /\ Consume(d, m, "gate-validation") \in DomainState
      /\ Consume(d, m, "gate-validation") = [d EXCEPT !.consumed = Append(d.consumed, e)]
  BY <1>1, <1>4, ConsumeFacts DEF Uses
<1>7. TypeOK'
  BY <1>1, <1>6, BecomeType DEF Operations
<1>8. /\ dom'.consumed = Append(dom.consumed, e) /\ KeepsDelivery
      /\ dom'.state = "NEEDS_VAL_CONFIRM" /\ dom'.current = None /\ dom'.provisionalManifest = m
      /\ dom'.iteration = dom.iteration /\ dom'.best = dom.best /\ dom'.confirm = dom.confirm
      /\ dom'.candidate = dom.candidate /\ dom'.provisional = dom.provisional
      /\ dom'.confirmation = dom.confirmation /\ dom'.gatePhase = dom.gatePhase
  <2> DEFINE c == Append(dom.consumed, e)
  <2>1. Become("gate", [d EXCEPT !.consumed = c])
    BY <1>1, <1>5, <1>6
  <2> HIDE DEF c
  <2>2. QED
    BY <1>4, <1>5, <2>1 DEF Become, KeepsDelivery, DomainState, c
<1>9. Spends(m, "gate-validation")
  BY <1>1, <1>8 DEF Spends, Uses
<1>10. CandidateScope'
  BY <1>1, <1>8, LifecycleConstants DEF LifecycleInv, CandidateScope, At, Candidate
<1>11. StopsInTime'
  BY <1>1, <1>8 DEF LifecycleInv, StopsInTime, At, BeforeBaseline
<1>12. ConfirmationEarned'
  <2>1. /\ Len(dom'.consumed) \in 1..Len(dom'.consumed)
        /\ dom'.consumed[Len(dom'.consumed)] = [manifest |-> m, by |-> "gate-validation"]
    <3>1. Len(dom.consumed) \in Nat
      BY <1>2 DEF DomainState
    <3>2. QED
      BY <1>9, <3>1, SpendKeeps DEF LifecycleInv
  <2>2. QED
    BY <1>1, <1>8, <2>1 DEF ConfirmationEarned
<1>13. QED
  BY <1>1, <1>7, <1>8, <1>9, <1>10, <1>11, <1>12, Assemble DEF Uses

LEMMA AcceptInv ==
  ASSUME LifecycleInv, AcceptOnValidation \/ AcceptOnConfirmation
  PROVE  LifecycleInv'
<1>1. /\ At(Evolving) /\ dom.current \in Manifests /\ dom.current \notin ConsumedIn(dom)
      /\ dom.candidate \in Snapshots
  <2>1. dom.candidate \in Snapshots \union {None}
    BY DEF LifecycleInv, TypeOK, DomainState
  <2>2. QED
    BY <2>1, OwnedManifest
    DEF AcceptOnValidation, AcceptOnConfirmation, Gated, At, Evolving, Candidate, LifecycleInv
<1>2. /\ dom.provisional \in Scores \union {None} /\ dom.confirmation \in Scores \union {None}
  BY DEF LifecycleInv, TypeOK, DomainState
<1>3. PICK score \in Scores, by \in Uses :
        Become("gate", Advance([Consume(dom, dom.current, by) EXCEPT
                                  !.best = score,
                                  !.active = Consume(dom, dom.current, by).candidate]))
  <2>1. CASE AcceptOnValidation
    BY <1>2, <2>1 DEF AcceptOnValidation, Promote, Gated, Judged, Uses
  <2>2. CASE AcceptOnConfirmation
    <3>1. LowerOf(dom.provisional, dom.confirmation) \in Scores
      BY <1>2, <2>2 DEF AcceptOnConfirmation, Gated, Judged, LowerOf
    <3>2. QED
      BY <2>2, <3>1 DEF AcceptOnConfirmation, Promote, Uses
  <2>3. QED
    BY <2>1, <2>2
<1>4. QED
  BY <1>1, <1>3, SettleInv DEF Operations

LEMMA RejectInv ==
  ASSUME LifecycleInv, Reject
  PROVE  LifecycleInv'
<1>1. At(Evolving) /\ dom.current \in Manifests /\ dom.current \notin ConsumedIn(dom)
  BY OwnedManifest DEF Reject, At, Evolving, Candidate, LifecycleInv
<1>2. PICK by \in Uses : Become("gate", Advance(Consume(dom, dom.current, by)))
  BY DEF Reject, Uses
<1>3. QED
  BY <1>1, <1>2, SettleInv DEF Operations

LEMMA AbandonInv ==
  ASSUME LifecycleInv, Abandon
  PROVE  LifecycleInv'
<1>1. At(Evolving) /\ dom \in DomainState /\ dom.best # None
  BY DEF Abandon, At, Evolving, Candidate, LifecycleInv, TypeOK, StopsInTime, BeforeBaseline
<1>2. CASE dom.current = None
  BY <1>1, <1>2, AdvanceInv DEF Abandon, Operations
<1>3. CASE dom.current # None
  <2>1. dom.current \in Manifests /\ dom.current \notin ConsumedIn(dom)
    BY <1>3, OwnedManifest DEF Abandon, LifecycleInv
  <2>2. Become("abandon", Advance(Consume(dom, dom.current, "abandon")))
    BY <1>3 DEF Abandon
  <2>3. QED
    BY <1>1, <2>1, <2>2, SettleInv DEF Operations, Uses
<1>4. QED
  BY <1>2, <1>3

LEMMA DroppedType ==
  ASSUME NEW d \in DomainState, NEW state \in States
  PROVE  [d EXCEPT !.state = state, !.current = None, !.currentPhase = "none"] \in DomainState
BY FieldNames DEF DomainState

LEMMA ResetManifestInv ==
  ASSUME LifecycleInv, ResetManifest
  PROVE  LifecycleInv'
<1> DEFINE to == IF dom.state = "NEEDS_WIKI" THEN "NEEDS_TRAIN_RUN" ELSE dom.state
           d == [dom EXCEPT !.state = to, !.current = None, !.currentPhase = "none"]
<1>1. /\ dom \in DomainState /\ Become("reset-manifest", d)
      /\ dom.state \in {"NEEDS_BASELINE_RUN", "NEEDS_TRAIN_RUN", "NEEDS_WIKI", "NEEDS_VAL_RUN",
                        "NEEDS_VAL_CONFIRM", "DONE"}
  BY DEF ResetManifest, Become, At, LifecycleInv, TypeOK, DomainState
<1>2. to \in States
  BY <1>1, StateNames DEF Evolving, DomainState
<1> HIDE DEF to
<1>3. TypeOK'
  <2>1. d \in DomainState
    BY <1>1, <1>2, DroppedType
  <2> HIDE DEF d
  <2>2. QED
    BY <1>1, <2>1, BecomeType DEF Operations
<1>4. /\ KeepsDelivery /\ dom'.consumed = dom.consumed /\ dom'.state = to
      /\ dom'.iteration = dom.iteration /\ dom'.best = dom.best /\ dom'.confirm = dom.confirm
      /\ dom'.candidate = dom.candidate /\ dom'.provisional = dom.provisional
      /\ dom'.confirmation = dom.confirmation /\ dom'.gatePhase = dom.gatePhase
      /\ dom'.provisionalManifest = dom.provisionalManifest /\ dom'.current = None
  BY <1>1 DEF Become, KeepsDelivery, DomainState
<1>5. to # "NEEDS_WIKI" /\ (to = dom.state \/ (to = "NEEDS_TRAIN_RUN" /\ dom.state = "NEEDS_WIKI"))
  BY DEF to
<1>6. CandidateScope'
  BY <1>1, <1>4, <1>5 DEF LifecycleInv, CandidateScope, At, Candidate
<1>7. ConfirmationEarned' /\ StopsInTime'
  BY <1>1, <1>4, <1>5 DEF LifecycleInv, ConfirmationEarned, StopsInTime, At, BeforeBaseline
<1>8. QED
  BY <1>3, <1>4, <1>6, <1>7, Assemble

-----------------------------------------------------------------------------
(***************************************************************************)
(* Delivery: nothing of the evolution changes any more.                    *)
(***************************************************************************)

KeepsEvolution ==
  /\ dom.state = "DONE" /\ dom'.state = "DONE"
  /\ dom'.iteration = dom.iteration /\ dom'.best = dom.best /\ dom'.confirm = dom.confirm
  /\ dom'.candidate = dom.candidate /\ dom'.provisional = dom.provisional
  /\ dom'.confirmation = dom.confirmation /\ dom'.gatePhase = dom.gatePhase
  /\ dom'.provisionalManifest = dom.provisionalManifest /\ dom'.current = dom.current

LEMMA EvolutionKept ==
  ASSUME LifecycleInv, KeepsEvolution
  PROVE  CandidateScope' /\ ConfirmationEarned' /\ StopsInTime'
BY DEF LifecycleInv, KeepsEvolution, CandidateScope, ConfirmationEarned, StopsInTime, At,
       BeforeBaseline, Candidate

LEMMA PreparedType ==
  ASSUME NEW d \in DomainState, NEW prepared \in SUBSET TestPhases
  PROVE  [d EXCEPT !.route = "validated", !.step = "prepared", !.prepared = prepared]
           \in DomainState
<1>1. "validated" \in Routes \union {"none"} /\ "prepared" \in DeliverySteps
  BY FieldNames DEF Routes
<1>2. QED
  BY <1>1 DEF DomainState

LEMMA PrepareTestInv ==
  ASSUME LifecycleInv, NEW phase \in TestPhases, PrepareTest(phase)
  PROVE  LifecycleInv'
<1> DEFINE d == [dom EXCEPT !.route = "validated", !.step = "prepared",
                            !.prepared = dom.prepared \union {phase}]
<1>1. /\ dom \in DomainState /\ dom.state = "DONE" /\ dom.route # "untested"
      /\ dom.tests[phase] = None /\ Become("test-prepare", d)
  BY DEF PrepareTest, Become, At, LifecycleInv, TypeOK, DomainState
<1>2. d \in DomainState
  <2>1. dom.prepared \union {phase} \in SUBSET TestPhases
    BY <1>1 DEF DomainState
  <2>2. QED
    BY <1>1, <2>1, PreparedType
<1>3. TypeOK'
  BY <1>1, <1>2, BecomeType DEF Operations
<1>4. /\ KeepsEvolution /\ dom'.consumed = dom.consumed
      /\ dom'.route = "validated" /\ dom'.step = "prepared"
      /\ dom'.tests = dom.tests /\ dom'.ledger = dom.ledger
  BY <1>1 DEF Become, KeepsEvolution, DomainState
<1>5. OneDelivery'
  BY <1>1, <1>4 DEF LifecycleInv, OneDelivery
<1>6. QED
  BY <1>3, <1>4, <1>5, EvolutionKept DEF LifecycleInv, ConsumedOnce

LEMMA TestsType ==
  ASSUME NEW d \in DomainState, NEW step \in DeliverySteps,
         NEW tests \in [TestPhases -> Manifests \union {None}]
  PROVE  [d EXCEPT !.tests = tests, !.step = step] \in DomainState
BY DEF DomainState

LEMMA IngestTestInv ==
  ASSUME LifecycleInv, NEW phase \in TestPhases, NEW m \in Manifests, IngestTest(phase, m)
  PROVE  LifecycleInv'
<1> DEFINE tests == [dom.tests EXCEPT ![phase] = m]
           step == IF None \in {tests[ph] : ph \in TestPhases} THEN "prepared" ELSE "ingested"
           d == [dom EXCEPT !.tests = tests, !.step = step]
<1>1. /\ dom \in DomainState /\ dom.state = "DONE" /\ dom.route = "validated"
      /\ dom.tests[phase] = None /\ Become("test-ingest", d)
  BY DEF IngestTest, At, LifecycleInv, TypeOK
<1>2. tests \in [TestPhases -> Manifests \union {None}] /\ step \in DeliverySteps
  BY <1>1, FieldNames DEF DomainState
<1>3. step = "prepared" \/ (step = "ingested" /\ \A ph \in TestPhases : tests[ph] # None)
  OBVIOUS
<1>4. dom.step \notin {"ingested", "exported"}
  BY <1>1 DEF LifecycleInv, OneDelivery
<1> HIDE DEF tests, step
<1>5. TypeOK'
  <2>1. d \in DomainState
    BY <1>1, <1>2, TestsType
  <2> HIDE DEF d
  <2>2. QED
    BY <1>1, <2>1, BecomeType DEF Operations
<1>6. /\ KeepsEvolution /\ dom'.consumed = dom.consumed
      /\ dom'.route = "validated" /\ dom'.step = step
      /\ dom'.tests = tests /\ dom'.ledger = dom.ledger
  BY <1>1 DEF Become, KeepsEvolution, DomainState
<1>7. OneDelivery'
  BY <1>1, <1>3, <1>4, <1>6 DEF LifecycleInv, OneDelivery
<1>8. QED
  BY <1>5, <1>6, <1>7, EvolutionKept DEF LifecycleInv, ConsumedOnce

LEMMA LedgerFacts ==
  ASSUME NEW l, l \in Seq([delivery : Deliveries, route : Routes]), Len(l) = 0,
         NEW delivery \in Deliveries, NEW route \in Routes
  PROVE  LET e == [delivery |-> delivery, route |-> route]
         IN  /\ Append(l, e) \in Seq([delivery : Deliveries, route : Routes])
             /\ Len(Append(l, e)) = 1 /\ Append(l, e)[1] = e
OBVIOUS

LEMMA PackageUntestedInv ==
  ASSUME LifecycleInv, NEW delivery \in Deliveries, PackageUntested(delivery)
  PROVE  LifecycleInv'
<1> DEFINE e == [delivery |-> delivery, route |-> "untested"]
           l == Append(dom.ledger, e)
           d == [dom EXCEPT !.route = "untested", !.ledger = l]
<1>1. /\ dom \in DomainState /\ dom.state = "DONE" /\ dom.route = "none"
      /\ dom.prepared = {} /\ \A ph \in TestPhases : dom.tests[ph] = None
      /\ Become("package-untested", d)
  BY DEF PackageUntested, Latched, Become, At, LifecycleInv, TypeOK, DomainState
<1>2. dom.step = "none" /\ Len(dom.ledger) = 0
  BY <1>1 DEF LifecycleInv, OneDelivery
<1>3. "untested" \in Routes
  BY DEF Routes
<1>4. /\ l \in Seq([delivery : Deliveries, route : Routes])
      /\ Len(l) = 1 /\ l[1] = e /\ e.route = "untested"
  BY <1>1, <1>2, <1>3, LedgerFacts DEF DomainState
<1> HIDE DEF l, e
<1>5. TypeOK'
  <2>1. d \in DomainState
    BY <1>1, <1>3, <1>4 DEF DomainState
  <2> HIDE DEF d
  <2>2. QED
    BY <1>1, <2>1, BecomeType DEF Operations
<1>6. /\ KeepsEvolution /\ dom'.consumed = dom.consumed
      /\ dom'.route = "untested" /\ dom'.step = dom.step /\ dom'.prepared = dom.prepared
      /\ dom'.tests = dom.tests /\ dom'.ledger = l
  BY <1>1 DEF Become, KeepsEvolution, DomainState
<1>7. OneDelivery'
  <2>1. dom'.ledger = l
    BY <1>6
  <2>2. \A i \in 1..Len(l) : l[i].route = "untested"
    BY <1>4
  <2>3. QED
    BY <1>1, <1>2, <1>4, <1>6, <2>1, <2>2 DEF OneDelivery
<1>8. QED
  BY <1>5, <1>6, <1>7, EvolutionKept DEF LifecycleInv, ConsumedOnce

LEMMA ExportedType ==
  ASSUME NEW d \in DomainState, NEW l \in Seq([delivery : Deliveries, route : Routes])
  PROVE  [d EXCEPT !.step = "exported", !.ledger = l] \in DomainState
<1>1. "exported" \in DeliverySteps
  BY FieldNames
<1>2. QED
  BY <1>1 DEF DomainState

\* Two new and different manifests appended to a sequence without repetitions.
LEMMA SpendTwice ==
  ASSUME TypeOK, ConsumedOnce,
         NEW x \in [manifest : Manifests, by : Uses],
         NEW y \in [manifest : Manifests, by : Uses],
         x.manifest \notin ConsumedIn(dom), y.manifest \notin ConsumedIn(dom),
         x.manifest # y.manifest,
         dom'.consumed = Append(Append(dom.consumed, x), y)
  PROVE  /\ ConsumedOnce'
         /\ \E i \in 1..Len(dom'.consumed) : dom'.consumed[i] = x
         /\ \E i \in 1..Len(dom'.consumed) : dom'.consumed[i] = y
<1> DEFINE s == dom.consumed
           t == dom'.consumed
<1>0. /\ s \in Seq([manifest : Manifests, by : Uses])
      /\ t = Append(Append(s, x), y)
      /\ \A i, j \in 1..Len(s) : s[i].manifest = s[j].manifest => i = j
      /\ \A i \in 1..Len(s) : s[i].manifest \notin {x.manifest, y.manifest}
  BY DEF TypeOK, DomainState, ConsumedOnce, ConsumedIn
<1> HIDE DEF s, t
<1>1. /\ Len(s) \in Nat /\ Len(t) = Len(s) + 2
      /\ t[Len(s) + 1] = x /\ t[Len(s) + 2] = y
      /\ \A i \in 1..Len(s) : t[i] = s[i]
  BY <1>0
<1>2. \A i \in 1..Len(t) : i \in 1..Len(s) \/ i = Len(s) + 1 \/ i = Len(s) + 2
  BY <1>1
<1>3. Len(s) + 1 \in 1..Len(t) /\ Len(s) + 2 \in 1..Len(t)
  BY <1>1
<1>4. ASSUME NEW i \in 1..Len(t), NEW j \in 1..Len(t), t[i].manifest = t[j].manifest
      PROVE  i = j
  <2>1. CASE i \in 1..Len(s) /\ j \in 1..Len(s)
    BY <1>0, <1>1, <1>4, <2>1
  <2>2. CASE i \in 1..Len(s) /\ j \notin 1..Len(s)
    BY <1>0, <1>1, <1>2, <1>4, <2>2
  <2>3. CASE i \notin 1..Len(s) /\ j \in 1..Len(s)
    BY <1>0, <1>1, <1>2, <1>4, <2>3
  <2>4. CASE i \notin 1..Len(s) /\ j \notin 1..Len(s)
    BY <1>1, <1>2, <1>4, <2>4
  <2>5. QED
    BY <2>1, <2>2, <2>3, <2>4
<1>5. QED
  BY <1>1, <1>3, <1>4 DEF ConsumedOnce, t

LEMMA ExportInv ==
  ASSUME LifecycleInv, NEW delivery \in Deliveries, Export(delivery)
  PROVE  LifecycleInv'
<1> DEFINE base == dom.tests["test-baseline"]
           final == dom.tests["test-final"]
           x == [manifest |-> base, by |-> "export"]
           y == [manifest |-> final, by |-> "export"]
           entry == [delivery |-> delivery, route |-> "validated"]
           l == Append(dom.ledger, entry)
           once == Consume(dom, base, "export")
           used == Consume(once, final, "export")
           d == [used EXCEPT !.step = "exported", !.ledger = l]
<1>1. /\ dom \in DomainState /\ dom.state = "DONE"
      /\ dom.route = "validated" /\ dom.step = "ingested"
      /\ base \in Manifests /\ final \in Manifests /\ base # final
      /\ base \notin ConsumedIn(dom) /\ final \notin ConsumedIn(dom)
  <2>1. dom.tests \in [TestPhases -> Manifests \union {None}]
    BY DEF LifecycleInv, TypeOK, DomainState
  <2>2. base \in Manifests \union {None} /\ final \in Manifests \union {None}
    BY <2>1 DEF TestPhases
  <2>3. QED
    BY <2>2 DEF Export, At, LifecycleInv, TypeOK
<1>2. /\ once \in DomainState /\ once = [dom EXCEPT !.consumed = Append(dom.consumed, x)]
      /\ used \in DomainState /\ used = [once EXCEPT !.consumed = Append(once.consumed, y)]
  BY <1>1, ConsumeFacts DEF Uses
<1> HIDE DEF base, final, x, y, once
<1>3. used = [dom EXCEPT !.consumed = Append(Append(dom.consumed, x), y)]
  BY <1>1, <1>2 DEF DomainState
<1> HIDE DEF used
<1>4. used.ledger = dom.ledger /\ Become("export", d)
  <2>1. used.ledger = dom.ledger
    BY <1>1, <1>3 DEF DomainState
  <2>2. Become("export", Latched([used EXCEPT !.step = "exported"], delivery, "validated"))
    BY DEF Export, used, once, base, final
  <2>3. Latched([used EXCEPT !.step = "exported"], delivery, "validated") = d
    BY <1>2, <2>1 DEF Latched, DomainState
  <2>4. QED
    BY <2>1, <2>2, <2>3
<1>5. /\ l \in Seq([delivery : Deliveries, route : Routes])
      /\ Len(l) = 1 /\ l[1] = entry /\ entry.route = "validated"
  <2>1. Len(dom.ledger) = 0 /\ "validated" \in Routes
    BY <1>1 DEF LifecycleInv, OneDelivery, Routes
  <2>2. QED
    BY <1>1, <2>1, LedgerFacts DEF DomainState
<1> HIDE DEF l, entry
<1>6. TypeOK'
  <2>1. d \in DomainState
    BY <1>2, <1>5, ExportedType
  <2> HIDE DEF d
  <2>2. QED
    BY <1>4, <2>1, BecomeType DEF Operations
<1>7. /\ KeepsEvolution /\ dom'.route = "validated" /\ dom'.step = "exported"
      /\ dom'.tests = dom.tests /\ dom'.ledger = l
      /\ dom'.consumed = Append(Append(dom.consumed, x), y)
  <2> DEFINE c == Append(Append(dom.consumed, x), y)
  <2>1. used = [dom EXCEPT !.consumed = c]
    BY <1>3
  <2> HIDE DEF c
  <2>2. /\ dom' = [[used EXCEPT !.step = "exported", !.ledger = l] EXCEPT !.last = "export"]
    BY <1>4 DEF Become
  <2>3. QED
    BY <1>1, <1>2, <2>1, <2>2 DEF KeepsEvolution, DomainState, c
<1>8. /\ ConsumedOnce'
      /\ \E i \in 1..Len(dom'.consumed) : dom'.consumed[i] = x
      /\ \E i \in 1..Len(dom'.consumed) : dom'.consumed[i] = y
  <2>1. dom.consumed \in Seq([manifest : Manifests, by : Uses])
    BY <1>1 DEF DomainState
  <2>2. /\ x \in [manifest : Manifests, by : Uses] /\ x.manifest = base
        /\ y \in [manifest : Manifests, by : Uses] /\ y.manifest = final
    BY <1>1 DEF x, y, Uses
  <2>3. QED
    BY <1>1, <1>7, <2>1, <2>2, SpendTwice DEF LifecycleInv
<1>9. OneDelivery'
  <2>1. \A i \in 1..Len(l) : l[i].route = "validated"
    BY <1>5
  <2>2. \A ph \in TestPhases : \E i \in 1..Len(dom'.consumed) :
          dom'.consumed[i] = [manifest |-> dom'.tests[ph], by |-> "export"]
    BY <1>7, <1>8 DEF TestPhases, x, y, base, final
  <2>3. \A ph \in TestPhases : dom'.tests[ph] # None
    BY <1>1, <1>7 DEF LifecycleInv, OneDelivery
  <2>4. QED
    BY <1>5, <1>7, <2>1, <2>2, <2>3 DEF OneDelivery
<1>10. QED
  BY <1>6, <1>7, <1>8, <1>9, EvolutionKept DEF LifecycleInv

-----------------------------------------------------------------------------
LEMMA NextInv == LifecycleInv /\ [Next]_dom => LifecycleInv'
<1> SUFFICES ASSUME LifecycleInv, [Next]_dom PROVE LifecycleInv'
  OBVIOUS
<1>1. ASSUME NEW m \in Manifests, Ingest(m) PROVE LifecycleInv'
  BY <1>1, FinalizeBaselineInv, IngestTrainInv, IngestedInv, IngestTestInv DEF Ingest
<1>2. CASE Evolve
  BY <1>2, ApplyWikiInv, ProposeNothingInv, ProposeChangeInv, AbandonInv, AcceptInv,
     AskConfirmationInv, RejectInv DEF Evolve, Gate
<1>3. CASE Deliver
  BY <1>3, PrepareTestInv, ExportInv, PackageUntestedInv DEF Deliver
<1>4. CASE UNCHANGED dom
  BY <1>4 DEF LifecycleInv, TypeOK, ConsumedOnce, CandidateScope, ConfirmationEarned,
              StopsInTime, OneDelivery, At
<1>5. QED
  BY <1>1, <1>2, <1>3, <1>4, FoundInv, ResetManifestInv DEF Next

\* Every reachable state of the table satisfies the invariant.
THEOREM Invariance == Spec => []LifecycleInv
<1>1. Init => LifecycleInv
  BY InitInv
<1>2. LifecycleInv /\ [Next]_dom => LifecycleInv'
  BY NextInv
<1>3. QED
  BY <1>1, <1>2, PTL DEF Spec

\* Every field keeps its type, and the iteration its bound.
THEOREM TypeCorrect == Spec => []TypeOK
<1>1. LifecycleInv => TypeOK
  BY DEF LifecycleInv
<1>2. QED
  BY <1>1, Invariance, PTL

\* No manifest is evidence for two decisions (_consume_manifest).
THEOREM EvidenceSpentOnce == Spec => []ConsumedOnce
<1>1. LifecycleInv => ConsumedOnce
  BY DEF LifecycleInv
<1>2. QED
  BY <1>1, Invariance, PTL

\* Nothing of a settled candidate is left when the next one is judged.
THEOREM ScopedCandidates == Spec => []CandidateScope
<1>1. LifecycleInv => CandidateScope
  BY DEF LifecycleInv
<1>2. QED
  BY <1>1, Invariance, PTL

\* The evolution stops exactly when it has to.
THEOREM Stops == Spec => []StopsInTime
<1>1. LifecycleInv => StopsInTime
  BY DEF LifecycleInv
<1>2. QED
  BY <1>1, Invariance, PTL

\* A domain is delivered at most once, along the route it latched.
THEOREM DeliveredOnce == Spec => []OneDelivery
<1>1. LifecycleInv => OneDelivery
  BY DEF LifecycleInv
<1>2. QED
  BY <1>1, Invariance, PTL

\* A candidate asked to confirm has won once, with evidence already spent.
THEOREM WonBeforeConfirming == Spec => []ConfirmationEarned
<1>1. LifecycleInv => ConfirmationEarned
  BY DEF LifecycleInv
<1>2. QED
  BY <1>1, Invariance, PTL

-----------------------------------------------------------------------------
(***************************************************************************)
(* Promotion.  Two operations replace the best score after the baseline,   *)
(* and they do it on evidence; all others leave it, and the active         *)
(* snapshot, alone.                                                        *)
(***************************************************************************)

KeepsBest == dom'.best = dom.best /\ dom'.active = dom.active

Earned ==
  /\ dom'.best > dom.best
  /\ dom'.active = dom.candidate
  /\ dom.provisional \geq dom'.best
  /\ dom.confirm => /\ dom.confirmation \geq dom'.best
                    /\ dom.provisionalManifest \in ConsumedIn(dom) \ {dom.current}
  /\ dom.current \in ConsumedIn(dom')

LEMMA BecomeBest ==
  ASSUME NEW operation, NEW d \in DomainState, Become(operation, d)
  PROVE  dom'.best = d.best /\ dom'.active = d.active /\ dom'.consumed = d.consumed
BY DEF Become, DomainState

\* In an iteration, the number that Advance starts from.
LEMMA EvolvingIteration ==
  ASSUME LifecycleInv, At(Evolving)
  PROVE  dom.iteration \in 1..MaxIterations
<1>1. dom.iteration \in 0..(MaxIterations + 1)
  BY DEF LifecycleInv, TypeOK, DomainState
<1>2. ~At(BeforeBaseline) /\ ~At({"DONE"})
  BY DEF At, Evolving, Candidate, BeforeBaseline
<1>3. QED
  BY <1>1, <1>2, LifecycleConstants DEF LifecycleInv, StopsInTime

LEMMA AdvanceBest ==
  ASSUME NEW operation, NEW d \in DomainState, d.iteration \in 1..MaxIterations,
         Become(operation, Advance(d))
  PROVE  dom'.best = d.best /\ dom'.active = d.active /\ dom'.consumed = d.consumed
<1> DEFINE a == Advance(d)
<1>1. a \in DomainState /\ a.best = d.best /\ a.active = d.active /\ a.consumed = d.consumed
  BY AdvanceFacts
<1> HIDE DEF a
<1>2. Become(operation, a)
  BY DEF a
<1>3. QED
  BY <1>1, <1>2, BecomeBest

\* What consuming a manifest leaves of the fields promotion is about.
LEMMA ConsumeBest ==
  ASSUME NEW d \in DomainState, NEW m \in Manifests, NEW by \in Uses, NEW e, e = Consume(d, m, by)
  PROVE  /\ e \in DomainState /\ e.best = d.best /\ e.active = d.active
         /\ e.iteration = d.iteration /\ e.candidate = d.candidate
         /\ m \in ConsumedIn(e)
<1> DEFINE x == [manifest |-> m, by |-> by]
           c == Append(d.consumed, x)
<1>1. e \in DomainState /\ e = [d EXCEPT !.consumed = c]
  BY ConsumeFacts
<1>2. d.consumed \in Seq([manifest : Manifests, by : Uses]) /\ x \in [manifest : Manifests, by : Uses]
  BY DEF DomainState
<1>3. Len(c) \in 1..Len(c) /\ c[Len(c)].manifest = m
  BY <1>2
<1> HIDE DEF c
<1>4. /\ e.consumed = c /\ e.best = d.best /\ e.active = d.active
      /\ e.iteration = d.iteration /\ e.candidate = d.candidate
  BY <1>1 DEF DomainState
<1>5. QED
  BY <1>1, <1>3, <1>4 DEF ConsumedIn

\* Seeding, ingests, proposals, resets and delivery do not promote.
LEMMA OthersKeepBest ==
  ASSUME LifecycleInv, dom.best # None,
         \/ Found \/ ResetManifest \/ Deliver
         \/ \E m \in Manifests : Ingest(m)
         \/ \E snapshot \in Snapshots : ProposeChange(snapshot)
         \/ ApplyWiki \/ ProposeNothing
  PROVE  KeepsBest
<1>1. dom \in DomainState /\ ~At(BeforeBaseline)
  BY DEF LifecycleInv, TypeOK, StopsInTime
<1>2. ~Found /\ \A m \in Manifests, score \in Scores, snapshot \in Snapshots :
                  ~FinalizeBaseline(m, score, snapshot)
  BY <1>1 DEF Found, InitDomain, SeedObservations, SkipSeed, RollbackSeed, FinalizeBaseline, At,
              BeforeBaseline
<1>3. CASE ResetManifest
  BY <1>1, <1>3 DEF ResetManifest, Become, KeepsBest, DomainState
<1>4. ASSUME NEW phase \in TestPhases, PrepareTest(phase) PROVE KeepsBest
  BY <1>1, <1>4 DEF PrepareTest, Become, KeepsBest, DomainState
<1>5. ASSUME NEW delivery \in Deliveries, Export(delivery) \/ PackageUntested(delivery)
      PROVE  KeepsBest
  BY <1>1, <1>5 DEF Export, PackageUntested, Latched, Consume, Become, KeepsBest, DomainState
<1>6. ASSUME NEW m \in Manifests, Ingest(m) PROVE KeepsBest
  <2>1. ASSUME NEW score \in Scores, IngestVal(m, score) \/ IngestConfirm(m, score)
        PROVE  KeepsBest
    <3>1. CASE IngestVal(m, score)
      BY <1>1, <3>1 DEF IngestVal, Own, Become, KeepsBest, DomainState
    <3>2. CASE IngestConfirm(m, score)
      <4> DEFINE d == [Own(dom, m, "val_confirm") EXCEPT !.state = "NEEDS_GATE",
                         !.confirmation = score, !.gatePhase = "confirmation"]
      <4>1. dom' = [d EXCEPT !.last = "confirm-ingest"]
        BY <3>2 DEF IngestConfirm, Become
      <4>2. d.best = dom.best /\ d.active = dom.active
        BY <1>1 DEF Own, DomainState
      <4> HIDE DEF d
      <4>3. dom' = [d EXCEPT !.last = "confirm-ingest"] /\ dom \in DomainState
        BY <1>1, <4>1
      <4>4. DOMAIN d = DOMAIN dom
        BY <1>1 DEF Own, DomainState, d
      <4>5. QED
        BY <4>2, <4>3, <4>4 DEF KeepsBest, DomainState
    <3>3. QED
      BY <2>1, <3>1, <3>2
  <2>2. CASE IngestTrain(m)
    BY <1>1, <2>2 DEF IngestTrain, Own, Become, KeepsBest, DomainState
  <2>3. ASSUME NEW phase \in TestPhases, IngestTest(phase, m) PROVE KeepsBest
    BY <1>1, <2>3 DEF IngestTest, Become, KeepsBest, DomainState
  <2>4. QED
    BY <1>2, <1>6, <2>1, <2>2, <2>3 DEF Ingest
<1>7. ASSUME NEW snapshot \in Snapshots, ProposeChange(snapshot) PROVE KeepsBest
  BY <1>1, <1>7 DEF ProposeChange, Become, KeepsBest, DomainState
<1>8. CASE ApplyWiki
  BY <1>1, <1>8 DEF ApplyWiki, Consume, Become, KeepsBest, DomainState
<1>9. CASE ProposeNothing
  BY <1>1, <1>9, EvolvingIteration, AdvanceBest DEF ProposeNothing, KeepsBest, At, Evolving
<1>10. QED
  BY <1>2, <1>3, <1>4, <1>5, <1>6, <1>7, <1>8, <1>9 DEF Deliver

\* Asking for confirmation, rejecting and abandoning do not promote either.
LEMMA UnpromotedKeepBest ==
  ASSUME LifecycleInv, AskConfirmation \/ Reject \/ Abandon
  PROVE  KeepsBest
<1>1. dom \in DomainState
  BY DEF LifecycleInv, TypeOK
<1>2. CASE AskConfirmation
  BY <1>1, <1>2 DEF AskConfirmation, Consume, Become, KeepsBest, DomainState
<1>3. ASSUME NEW by \in Uses, NEW operation, dom.current \in Manifests, At(Evolving),
             Become(operation, Advance(Consume(dom, dom.current, by)))
      PROVE  KeepsBest
  <2> DEFINE d == Consume(dom, dom.current, by)
  <2>1. /\ d \in DomainState /\ d.best = dom.best /\ d.active = dom.active
        /\ d.iteration \in 1..MaxIterations
    BY <1>1, <1>3, ConsumeBest, EvolvingIteration
  <2> HIDE DEF d
  <2>2. Become(operation, Advance(d))
    BY <1>3 DEF d
  <2>3. QED
    BY <2>1, <2>2, AdvanceBest DEF KeepsBest
<1>4. CASE Reject
  BY <1>3, <1>4, OwnedManifest DEF Reject, Uses, At, Evolving, Candidate, LifecycleInv
<1>5. CASE Abandon
  <2>1. At(Evolving)
    BY <1>5 DEF Abandon, At, Evolving, Candidate
  <2>2. CASE dom.current = None
    BY <1>1, <1>5, <2>1, <2>2, EvolvingIteration, AdvanceBest DEF Abandon, KeepsBest
  <2>3. CASE dom.current # None
    BY <1>3, <1>5, <2>1, <2>3, OwnedManifest DEF Abandon, Uses, LifecycleInv
  <2>4. QED
    BY <2>2, <2>3
<1>6. QED
  BY <1>2, <1>4, <1>5

\* The provisional manifest of a candidate in confirmation is spent; the current one is not.
LEMMA ProvisionalSpent ==
  ASSUME LifecycleInv, dom.gatePhase = "confirmation", dom.current \notin ConsumedIn(dom)
  PROVE  dom.provisionalManifest \in ConsumedIn(dom) \ {dom.current}
BY DEF LifecycleInv, ConfirmationEarned, ConsumedIn

\* The two accepting branches of the gate promote on evidence.
LEMMA AcceptOnEvidence ==
  ASSUME LifecycleInv, AcceptOnValidation \/ AcceptOnConfirmation
  PROVE  Earned
<1>1. /\ dom \in DomainState /\ At(Evolving) /\ dom.current \in Manifests
      /\ dom.current \notin ConsumedIn(dom) /\ dom.candidate \in Snapshots
  <2>1. dom \in DomainState /\ dom.candidate \in Snapshots \union {None}
    BY DEF LifecycleInv, TypeOK, DomainState
  <2>2. QED
    BY <2>1, OwnedManifest
    DEF AcceptOnValidation, AcceptOnConfirmation, Gated, At, Evolving, Candidate, LifecycleInv
<1>2. /\ dom.provisional \in Scores \union {None} /\ dom.confirmation \in Scores \union {None}
      /\ dom.best \in Scores \union {None} /\ \A score \in Scores : score \in Nat
  BY <1>1, ScoreFacts DEF DomainState
<1>3. ASSUME NEW by \in Uses, NEW score \in Scores,
             Become("gate", Advance([Consume(dom, dom.current, by) EXCEPT
                                       !.best = score,
                                       !.active = Consume(dom, dom.current, by).candidate]))
      PROVE  dom'.best = score /\ dom'.active = dom.candidate /\ dom.current \in ConsumedIn(dom')
  <2> DEFINE used == Consume(dom, dom.current, by)
             d == [used EXCEPT !.best = score, !.active = used.candidate]
  <2>1. /\ used \in DomainState /\ used.iteration \in 1..MaxIterations
        /\ used.candidate = dom.candidate /\ dom.current \in ConsumedIn(used)
    BY <1>1, ConsumeBest, EvolvingIteration
  <2>2. Become("gate", Advance(d))
    BY <1>3
  <2> HIDE DEF used
  <2>3. d \in DomainState
    BY <1>1, <2>1, PromotedType
  <2>4. /\ d.best = score /\ d.active = dom.candidate /\ d.iteration \in 1..MaxIterations
        /\ d.consumed = used.consumed
    BY <2>1 DEF DomainState
  <2> HIDE DEF d
  <2>5. dom'.best = score /\ dom'.active = dom.candidate /\ dom'.consumed = used.consumed
    BY <2>2, <2>3, <2>4, AdvanceBest
  <2>6. QED
    BY <2>1, <2>5 DEF ConsumedIn
<1>4. CASE AcceptOnValidation
  <2>1. /\ dom.provisional \in Scores /\ dom.provisional > dom.best /\ ~dom.confirm
        /\ Become("gate", Promote(Consume(dom, dom.current, "gate-validation"), dom.provisional))
    BY <1>2, <1>4 DEF AcceptOnValidation, Gated, Judged, StrictWin
  <2>2. /\ dom'.best = dom.provisional /\ dom'.active = dom.candidate
        /\ dom.current \in ConsumedIn(dom')
    BY <1>3, <2>1 DEF Promote, Uses
  <2>3. QED
    BY <1>2, <2>1, <2>2 DEF Earned
<1>5. CASE AcceptOnConfirmation
  <2> DEFINE low == LowerOf(dom.provisional, dom.confirmation)
  <2>1. /\ dom.provisional \in Scores /\ dom.confirmation \in Scores /\ dom.best \in Scores
        /\ dom.confirmation > dom.best /\ dom.gatePhase = "confirmation"
        /\ Become("gate", Promote(Consume(dom, dom.current, "gate-confirmation"), low))
    BY <1>2, <1>5 DEF AcceptOnConfirmation, Gated, Judged, StrictWin
  <2>2. dom.provisional > dom.best
    BY <2>1 DEF LifecycleInv, ConfirmationEarned
  <2>3. /\ low \in Scores /\ low > dom.best
        /\ dom.provisional \geq low /\ dom.confirmation \geq low
    BY <1>2, <2>1, <2>2 DEF LowerOf
  <2> HIDE DEF low
  <2>4. dom'.best = low /\ dom'.active = dom.candidate /\ dom.current \in ConsumedIn(dom')
    BY <1>3, <2>1, <2>3 DEF Promote, Uses
  <2>5. QED
    BY <1>1, <2>1, <2>3, <2>4, ProvisionalSpent DEF Earned
<1>6. QED
  BY <1>4, <1>5

(***************************************************************************)
(* After the baseline, the best score and the active snapshot change only  *)
(* by promotion, and every promotion is a strict win whose evidence is     *)
(* spent - two separate manifests where the domain asks for confirmation.  *)
(***************************************************************************)
THEOREM PromotionEarned == Spec => PromotedOnEvidence
<1>1. ASSUME LifecycleInv, dom.best # None, Next
      PROVE  KeepsBest \/ Earned
  BY <1>1, OthersKeepBest, UnpromotedKeepBest, AcceptOnEvidence DEF Next, Evolve, Gate
<1>2. ASSUME LifecycleInv, [Next]_dom
      PROVE  [dom.best # None /\ (dom'.best # dom.best \/ dom'.active # dom.active) =>
                Earned]_dom
  BY <1>1, <1>2 DEF KeepsBest
<1>3. QED
  BY <1>2, Invariance, PTL DEF Spec, PromotedOnEvidence, Earned
=============================================================================
