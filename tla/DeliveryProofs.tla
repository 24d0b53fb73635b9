--------------------------- MODULE DeliveryProofs ---------------------------
(***************************************************************************)
(* Delivery runs the lifecycle and nothing else, so what is proved of the  *)
(* lifecycle holds to the end of a domain; and what it stages is evidenced *)
(* or approved, whatever the processes and the outside do in between.      *)
(***************************************************************************)
EXTENDS Delivery, LifecycleProofs

-----------------------------------------------------------------------------
(***************************************************************************)
(* Delivery implements Lifecycle.                                          *)
(***************************************************************************)

\* A commit latches the delivery, or finds it latched.
LEMMA LatchStep ==
  ASSUME NEW entry \in Deliveries, Latch(entry)
  PROVE  [Next]_dom
BY DEF Latch, Next, Deliver

LEMMA EvolutionStep ==
  ASSUME TypeOK, Evolution
  PROVE  Next
<1>1. dom.active \in Snapshots
  BY DEF TypeOK, DomainState
<1>2. QED
  BY <1>1 DEF Evolution, Next, Ingest

\* Every step of the delivery is an operation of the table, or leaves the state alone.
LEMMA StepOfLifecycle ==
  ASSUME LifecycleInv, DeliveryTypeOK, [DeliveryNext]_deliveryVars
  PROVE  [Next]_dom
<1>1. CASE Evolution
  BY <1>1, EvolutionStep DEF LifecycleInv
<1>2. ASSUME NEW phase \in TestPhases, PrepareTestRun(phase) PROVE Next
  BY <1>2 DEF PrepareTestRun, Next, Deliver
<1>3. ASSUME NEW phase \in TestPhases, NEW m \in Manifests, NEW report \in Reports,
             IngestTestRun(phase, m, report)
      PROVE  Next
  BY <1>3 DEF IngestTestRun, Next, Ingest
<1>4. ASSUME NEW c \in Clients, Commit(c) PROVE [Next]_dom
  <2>1. draft[c].entry \in Deliveries /\ Latch(draft[c].entry)
    BY <1>4 DEF Commit, DeliveryTypeOK
  <2>2. QED
    BY <2>1, LatchStep
<1>5. ASSUME NEW c \in Clients, Drafting(c) \/ GiveUp(c)
      PROVE  UNCHANGED dom
  BY <1>5 DEF Drafting, StageSkill, CheckTest, BindTest, CompleteDraft, GiveUp
<1>6. CASE Tamper
  BY <1>6 DEF Tamper
<1>7. CASE UNCHANGED deliveryVars
  BY <1>7 DEF deliveryVars
<1>8. QED
  BY <1>1, <1>2, <1>3, <1>4, <1>5, <1>6, <1>7 DEF DeliveryNext

-----------------------------------------------------------------------------
(***************************************************************************)
(* Types.                                                                  *)
(***************************************************************************)

\* The kinds of governed files are told apart by their paths.
LEMMA PathFacts ==
  /\ \A ph \in TestPhases : Test(ph) \in Paths
  /\ \A s \in Snapshots : Stage(s) \in Paths /\ Archive(s) \in Paths /\ Approval(s) \in Paths
  /\ \A s \in Snapshots, ph \in TestPhases :
       Test(ph) \notin {Stage(s), Archive(s), Approval(s)}
  /\ \A s, t \in Snapshots :
       /\ Stage(s) # Archive(t) /\ Stage(s) # Approval(t) /\ Archive(s) # Approval(t)
       /\ Stage(s) = Stage(t) => s = t
       /\ Archive(s) = Archive(t) => s = t
       /\ Approval(s) = Approval(t) => s = t
BY DEF Paths, TestFiles, Staged, Test, Stage, Archive, Approval

\* What a commit leaves at each path: an output of its draft, or what was there.
LEMMA CommitFacts ==
  ASSUME DeliveryTypeOK, NEW c \in Clients, Commit(c), NEW d, d = draft[c]
  PROVE  /\ DOMAIN file' = Paths
         /\ file'[Stage(d.entry.snapshot)] = d.variant.compat
         /\ file'[Archive(d.entry.snapshot)] = d.variant
         /\ RouteOf(d.entry) = "untested" => file'[Approval(d.entry.snapshot)] = d.entry.approval
         /\ \A ph \in TestPhases : file'[Test(ph)] = file[Test(ph)]
         /\ \A s \in Snapshots :
              /\ s # d.entry.snapshot => file'[Stage(s)] = file[Stage(s)]
                                         /\ file'[Archive(s)] = file[Archive(s)]
              /\ s # d.entry.snapshot \/ RouteOf(d.entry) # "untested" =>
                   file'[Approval(s)] = file[Approval(s)]
<1> DEFINE s0 == d.entry.snapshot
           outs == Outputs(d)
<1>1. /\ d.entry \in Deliveries /\ d.variant \in Variants /\ s0 \in Snapshots
      /\ d.entry.approval \in Approvals \union {None}
      /\ d.variant.compat \in Compats
  BY DeliveryConstants DEF Commit, DeliveryTypeOK
<1>2. RouteOf(d.entry) = "untested" => d.entry.approval \in Approvals
  BY <1>1 DEF RouteOf
<1>3. \A x \in Contents : New(x) # Keep /\ New(x).to = x
  BY DeliveryMarkers DEF New
<1>4. file' = [q \in Paths |-> IF outs[q] = Keep THEN file[q] ELSE outs[q].to]
  BY DEF Commit, P!Overlay, Transaction
<1>5. /\ outs[Stage(s0)] = New(d.variant.compat)
      /\ outs[Archive(s0)] = New(d.variant)
      /\ outs[Approval(s0)] = IF RouteOf(d.entry) = "untested" THEN New(d.entry.approval) ELSE Keep
      /\ \A ph \in TestPhases : outs[Test(ph)] = Keep
      /\ \A s \in Snapshots : s # s0 =>
           outs[Stage(s)] = Keep /\ outs[Archive(s)] = Keep /\ outs[Approval(s)] = Keep
  BY <1>1, PathFacts DEF Outputs
<1> HIDE DEF outs, s0
<1>6. /\ d.variant.compat \in Contents /\ d.variant \in Contents
      /\ RouteOf(d.entry) = "untested" => d.entry.approval \in Contents
  BY <1>1, <1>2 DEF Contents
<1>7. QED
  BY <1>1, <1>3, <1>4, <1>5, <1>6, PathFacts DEF s0

\* A manifest that some test run can leave.
LEMMA ManifestTyped ==
  ASSUME NEW ph \in TestPhases, NEW s \in Snapshots, NEW report \in Reports
  PROVE  /\ ManifestOf(ph, s, report) \in TestManifest
         /\ ManifestOf(ph, s, report) \notin {Absent, Keep}
<1>1. ManifestOf(ph, s, report) \in TestManifest
  BY DeliveryConstants DEF ManifestOf, TestManifest
<1>2. QED
  BY <1>1, DeliveryMarkers DEF Contents

\* A draft in the making grows and keeps its request; nothing else changes.
LEMMA DraftingFacts ==
  ASSUME DeliveryTypeOK, NEW c \in Clients, Drafting(c)
  PROVE  /\ UNCHANGED <<dom, file, tampers>>
         /\ draft' = [draft EXCEPT ![c] = draft'[c]]
         /\ draft[c] # Idle =>
              /\ draft'[c].entry = draft[c].entry /\ draft'[c].variant = draft[c].variant
              /\ draft'[c].report = draft[c].report
         /\ draft[c] = Idle =>
              \E entry \in Deliveries, variant \in Variants, report \in Reports :
                StageSkill(c, entry, variant, report)
<1> USE DEF DeliveryTypeOK
<1>1. CASE \E entry \in Deliveries, variant \in Variants, report \in Reports :
             StageSkill(c, entry, variant, report)
  BY <1>1 DEF StageSkill
<1>2. ASSUME NEW ph \in TestPhases, CheckTest(c, ph) \/ BindTest(c, ph)
      PROVE  /\ draft[c] # Idle /\ UNCHANGED <<dom, file, tampers>>
             /\ draft' = [draft EXCEPT ![c] = draft'[c]]
             /\ draft'[c].entry = draft[c].entry /\ draft'[c].variant = draft[c].variant
             /\ draft'[c].report = draft[c].report
  BY <1>2 DEF CheckTest, BindTest
<1>3. CASE CompleteDraft(c)
  BY <1>3 DEF CompleteDraft
<1>4. QED
  BY <1>1, <1>2, <1>3 DEF Drafting

LEMMA TypesKept ==
  ASSUME LifecycleInv, DeliveryTypeOK, [DeliveryNext]_deliveryVars
  PROVE  DeliveryTypeOK'
<1> USE DEF DeliveryTypeOK
<1>1. CASE Evolution \/ UNCHANGED deliveryVars
  BY <1>1 DEF Evolution, deliveryVars
<1>2. ASSUME NEW phase \in TestPhases, PrepareTestRun(phase) PROVE DeliveryTypeOK'
  BY <1>2, PathFacts DEF PrepareTestRun
<1>3. ASSUME NEW phase \in TestPhases, NEW m \in Manifests, NEW report \in Reports,
             IngestTestRun(phase, m, report)
      PROVE  DeliveryTypeOK'
  <2>1. ManifestOf(phase, dom.active, report) \in TestManifest
    BY ManifestTyped DEF LifecycleInv, TypeOK, DomainState
  <2>2. QED
    BY <1>3, <2>1, PathFacts DEF IngestTestRun
<1>4. ASSUME NEW c \in Clients, Drafting(c) PROVE DeliveryTypeOK'
  <2>1. CASE \E entry \in Deliveries, variant \in Variants, report \in Reports :
               StageSkill(c, entry, variant, report)
    BY <2>1 DEF StageSkill, Unread
  <2>2. ASSUME NEW ph \in TestPhases, CheckTest(c, ph) PROVE DeliveryTypeOK'
    <3>1. file[Test(ph)] \in TestManifest
      BY <2>2, ManifestTyped, DeliveryConstants DEF CheckTest
    <3>2. QED
      BY <2>2, <3>1 DEF CheckTest
  <2>3. ASSUME NEW ph \in TestPhases, BindTest(c, ph) PROVE DeliveryTypeOK'
    BY <2>3 DEF BindTest
  <2>4. CASE CompleteDraft(c)
    BY <2>4 DEF CompleteDraft
  <2>5. QED
    BY <1>4, <2>1, <2>2, <2>3, <2>4 DEF Drafting
<1>5. ASSUME NEW c \in Clients, Commit(c) PROVE DeliveryTypeOK'
  <2> DEFINE d == draft[c]
  <2>1. /\ d.entry \in Deliveries /\ d.variant \in Variants /\ d.variant.compat \in Compats
        /\ RouteOf(d.entry) = "untested" => d.entry.approval \in Approvals
    BY <1>5, DeliveryConstants DEF Commit, RouteOf
  <2>2. /\ tampers' = tampers
        /\ draft' = [draft EXCEPT ![c] = Idle]
    BY <1>5 DEF Commit
  <2>3. /\ DOMAIN file' = Paths
        /\ \A ph \in TestPhases :
             file'[Test(ph)] \in TestManifest \union {Absent, Prepared, Corrupt}
        /\ \A s \in Snapshots :
             /\ file'[Stage(s)] \in Compats \union {Absent, Corrupt}
             /\ file'[Archive(s)] \in Variants \union {Absent, Corrupt}
             /\ file'[Approval(s)] \in Approvals \union {Absent, Corrupt}
    BY <1>5, <2>1, CommitFacts
  <2>4. QED
    BY <2>2, <2>3
<1>6. ASSUME NEW c \in Clients, GiveUp(c) PROVE DeliveryTypeOK'
  BY <1>6 DEF GiveUp
<1>7. CASE Tamper
  <2>1. tampers' \in 0..MaxTampers /\ UNCHANGED draft
    BY <1>7, DeliveryConstants DEF Tamper
  <2>2. CASE \E q \in Paths : file' = [file EXCEPT ![q] = Corrupt]
    BY <2>1, <2>2, PathFacts
  <2>3. CASE \E s \in Snapshots :
               file' = [file EXCEPT ![Stage(s)] = Absent, ![Archive(s)] = Absent]
    BY <2>1, <2>3, PathFacts
  <2>4. QED
    BY <1>7, <2>2, <2>3 DEF Tamper
<1>8. QED
  BY <1>1, <1>2, <1>3, <1>4, <1>5, <1>6, <1>7 DEF DeliveryNext

LEMMA InitTypes == DeliveryInit => LifecycleInv /\ DeliveryTypeOK
<1> SUFFICES ASSUME DeliveryInit PROVE LifecycleInv /\ DeliveryTypeOK
  OBVIOUS
<1>1. LifecycleInv
  BY InitInv DEF DeliveryInit
<1>2. DeliveryTypeOK
  BY PathFacts, DeliveryConstants DEF DeliveryInit, DeliveryTypeOK
<1>3. QED
  BY <1>1, <1>2

\* The types of the files and drafts, on top of the lifecycle's invariant.
THEOREM DeliveryTypes == DeliverySpec => [](LifecycleInv /\ DeliveryTypeOK)
<1>1. LifecycleInv /\ DeliveryTypeOK /\ [DeliveryNext]_deliveryVars
        => (LifecycleInv /\ DeliveryTypeOK)'
  BY StepOfLifecycle, TypesKept, NextInv
<1>2. QED
  BY <1>1, InitTypes, PTL DEF DeliverySpec

(***************************************************************************)
(* The delivery implements the lifecycle: stage_skill and its commits do   *)
(* nothing to the state that the transition table does not know.           *)
(***************************************************************************)
THEOREM DeliveryImplementsLifecycle == DeliverySpec => Spec
<1>1. DeliveryInit => Init
  BY DEF DeliveryInit
<1>2. LifecycleInv /\ DeliveryTypeOK /\ [DeliveryNext]_deliveryVars => [Next]_dom
  BY StepOfLifecycle
<1>3. QED
  BY <1>1, <1>2, DeliveryTypes, PTL DEF DeliverySpec, Spec

-----------------------------------------------------------------------------
(***************************************************************************)
(* The evolution has nothing to do with the delivery, and is over when it  *)
(* begins.                                                                 *)
(***************************************************************************)

\* d has the delivery of the state it was made from.
SameDelivery(d) ==
  /\ d.route = dom.route /\ d.step = dom.step /\ d.prepared = dom.prepared
  /\ d.tests = dom.tests /\ d.ledger = dom.ledger

LEMMA BecomeSame ==
  ASSUME NEW operation, NEW d \in DomainState, SameDelivery(d), Become(operation, d)
  PROVE  KeepsDelivery
BY DEF SameDelivery, Become, KeepsDelivery, DomainState

LEMMA AdvanceSame ==
  ASSUME NEW operation, NEW d \in DomainState, d.iteration \in 1..MaxIterations,
         SameDelivery(d), Become(operation, Advance(d))
  PROVE  KeepsDelivery
<1> DEFINE a == Advance(d)
<1>1. a \in DomainState /\ SameDelivery(a)
  BY AdvanceFacts DEF SameDelivery
<1> HIDE DEF a
<1>2. Become(operation, a)
  BY DEF a
<1>3. QED
  BY <1>1, <1>2, BecomeSame

LEMMA ConsumeSame ==
  ASSUME TypeOK, NEW m \in Manifests, NEW by \in Uses, NEW e, e = Consume(dom, m, by)
  PROVE  e \in DomainState /\ SameDelivery(e) /\ e.iteration = dom.iteration
                           /\ e.candidate = dom.candidate
<1> DEFINE c == Append(dom.consumed, [manifest |-> m, by |-> by])
<1>1. dom \in DomainState
  BY DEF TypeOK
<1>2. e \in DomainState /\ e = [dom EXCEPT !.consumed = c]
  BY <1>1, ConsumeFacts
<1> HIDE DEF c
<1>3. QED
  BY <1>1, <1>2 DEF SameDelivery, DomainState

LEMMA GateKeeps ==
  ASSUME LifecycleInv, Gate \/ Abandon \/ ProposeNothing
  PROVE  KeepsDelivery
<1>1. dom \in DomainState /\ SameDelivery(dom)
  BY DEF LifecycleInv, TypeOK, SameDelivery
<1>2. ASSUME NEW by \in Uses, NEW operation, dom.current \in Manifests, At(Evolving),
             Become(operation, Advance(Consume(dom, dom.current, by)))
      PROVE  KeepsDelivery
  <2> DEFINE d == Consume(dom, dom.current, by)
  <2>1. d \in DomainState /\ SameDelivery(d) /\ d.iteration \in 1..MaxIterations
    BY <1>2, ConsumeSame, EvolvingIteration DEF LifecycleInv
  <2> HIDE DEF d
  <2>2. Become(operation, Advance(d))
    BY <1>2 DEF d
  <2>3. QED
    BY <2>1, <2>2, AdvanceSame
<1>3. ASSUME NEW by \in Uses, NEW score \in Scores, dom.current \in Manifests, At(Evolving),
             dom.candidate \in Snapshots,
             Become("gate", Promote(Consume(dom, dom.current, by), score))
      PROVE  KeepsDelivery
  <2> DEFINE used == Consume(dom, dom.current, by)
             d == [used EXCEPT !.best = score, !.active = used.candidate]
  <2>1. /\ used \in DomainState /\ SameDelivery(used) /\ used.iteration \in 1..MaxIterations
        /\ used.candidate \in Snapshots
    BY <1>3, ConsumeSame, EvolvingIteration DEF LifecycleInv
  <2>2. Become("gate", Advance(d))
    BY <1>3 DEF Promote
  <2> HIDE DEF used
  <2>3. d \in DomainState
    BY <2>1, PromotedType
  <2>4. SameDelivery(d) /\ d.iteration \in 1..MaxIterations
    BY <2>1 DEF DomainState, SameDelivery
  <2> HIDE DEF d
  <2>5. QED
    BY <2>2, <2>3, <2>4, AdvanceSame
<1>4. CASE AcceptOnValidation \/ AcceptOnConfirmation
  <2>1. /\ At(Evolving) /\ dom.current \in Manifests /\ dom.candidate \in Snapshots
        /\ dom.provisional \in Scores \union {None}
        /\ dom.confirmation \in Scores \union {None}
    BY <1>1, <1>4, OwnedManifest
    DEF AcceptOnValidation, AcceptOnConfirmation, Gated, At, Evolving, Candidate, LifecycleInv,
        DomainState
  <2>2. CASE AcceptOnValidation
    <3>1. /\ dom.provisional \in Scores
          /\ Become("gate", Promote(Consume(dom, dom.current, "gate-validation"), dom.provisional))
      BY <2>1, <2>2 DEF AcceptOnValidation, Gated, Judged
    <3>2. QED
      BY <1>3, <2>1, <3>1 DEF Uses
  <2>3. CASE AcceptOnConfirmation
    <3>1. LowerOf(dom.provisional, dom.confirmation) \in Scores
      BY <2>1, <2>3 DEF AcceptOnConfirmation, Gated, Judged, LowerOf
    <3>2. Become("gate", Promote(Consume(dom, dom.current, "gate-confirmation"),
                                 LowerOf(dom.provisional, dom.confirmation)))
      BY <2>3 DEF AcceptOnConfirmation
    <3>3. QED
      BY <1>3, <2>1, <3>1, <3>2 DEF Uses
  <2>4. QED
    BY <1>4, <2>2, <2>3
<1>5. CASE AskConfirmation
  BY <1>1, <1>5 DEF AskConfirmation, Consume, Become, KeepsDelivery, DomainState
<1>6. CASE Reject
  BY <1>2, <1>6, OwnedManifest DEF Reject, Uses, At, Evolving, Candidate, LifecycleInv
<1>7. CASE Abandon
  <2>1. At(Evolving)
    BY <1>7 DEF Abandon, At, Evolving, Candidate
  <2>2. CASE dom.current = None
    BY <1>1, <1>7, <2>1, <2>2, EvolvingIteration, AdvanceSame DEF Abandon
  <2>3. CASE dom.current # None
    BY <1>2, <1>7, <2>1, <2>3, OwnedManifest DEF Abandon, Uses, LifecycleInv
  <2>4. QED
    BY <2>2, <2>3
<1>8. CASE ProposeNothing
  BY <1>1, <1>8, EvolvingIteration, AdvanceSame DEF ProposeNothing, At, Evolving
<1>9. QED
  BY <1>4, <1>5, <1>6, <1>7, <1>8 DEF Gate

LEMMA EvolutionKeeps ==
  ASSUME LifecycleInv, Evolution
  PROVE  KeepsDelivery
<1>1. dom \in DomainState
  BY DEF LifecycleInv, TypeOK
<1>2. CASE Found
  <2>1. CASE InitDomain
    BY <1>1, <2>1 DEF InitDomain, Become, KeepsDelivery, DomainState
  <2>2. CASE SeedObservations
    BY <1>1, <2>2 DEF SeedObservations, Become, KeepsDelivery, DomainState
  <2>3. CASE SkipSeed
    BY <1>1, <2>3 DEF SkipSeed, Become, KeepsDelivery, DomainState
  <2>4. CASE RollbackSeed
    BY <1>1, <2>4 DEF RollbackSeed, Become, KeepsDelivery, DomainState
  <2>5. QED
    BY <1>2, <2>1, <2>2, <2>3, <2>4 DEF Found
<1>3. CASE Gate \/ Abandon \/ ProposeNothing
  BY <1>3, GateKeeps
<1>4. CASE ApplyWiki \/ \E snapshot \in Snapshots : ProposeChange(snapshot)
  <2>1. CASE ApplyWiki
    BY <1>1, <2>1 DEF ApplyWiki, Consume, Become, KeepsDelivery, DomainState
  <2>2. ASSUME NEW snapshot \in Snapshots, ProposeChange(snapshot) PROVE KeepsDelivery
    BY <1>1, <2>2 DEF ProposeChange, Become, KeepsDelivery, DomainState
  <2>3. QED
    BY <1>4, <2>1, <2>2
<1>5. CASE ResetManifest
  BY <1>1, <1>5 DEF ResetManifest, Become, KeepsDelivery, DomainState
<1>6. ASSUME NEW m \in Manifests, IngestTrain(m) PROVE KeepsDelivery
  BY <1>1, <1>6 DEF IngestTrain, Own, Become, KeepsDelivery, DomainState
<1>7. ASSUME NEW m \in Manifests, NEW score \in Scores, FinalizeBaseline(m, score, dom.active)
      PROVE  KeepsDelivery
  BY <1>1, <1>7 DEF FinalizeBaseline, Consume, Become, KeepsDelivery, DomainState
<1>8. ASSUME NEW m \in Manifests, NEW score \in Scores, IngestVal(m, score)
      PROVE  KeepsDelivery
  BY <1>1, <1>8 DEF IngestVal, Own, Become, KeepsDelivery, DomainState
<1>9. ASSUME NEW m \in Manifests, NEW score \in Scores, IngestConfirm(m, score)
      PROVE  KeepsDelivery
  BY <1>1, <1>9 DEF IngestConfirm, Own, Become, KeepsDelivery, DomainState
<1>10. QED
  BY <1>2, <1>3, <1>4, <1>5, <1>6, <1>7, <1>8, <1>9 DEF Evolution, Evolve

\* A finished domain stays finished, with its active snapshot.
LEMMA DoneStays ==
  ASSUME LifecycleInv, dom.state = "DONE", Evolution
  PROVE  dom'.state = "DONE" /\ dom'.active = dom.active
<1>1. dom \in DomainState
  BY DEF LifecycleInv, TypeOK
<1>2. ResetManifest
  BY DEF Evolution, Found, Evolve, Gate, Gated, At, Candidate, InitDomain, SeedObservations,
         SkipSeed, RollbackSeed, FinalizeBaseline, IngestTrain, IngestVal, IngestConfirm,
         ApplyWiki, ProposeChange, ProposeNothing, AcceptOnValidation, AskConfirmation,
         AcceptOnConfirmation, Reject, Abandon
<1>3. QED
  BY <1>1, <1>2 DEF ResetManifest, Become, DomainState

-----------------------------------------------------------------------------
(***************************************************************************)
(* What is staged.                                                         *)
(***************************************************************************)

\* A commit writes where nothing is: its draft binds the absence of what it stages.
LEMMA CommitFits ==
  ASSUME DeliveryTypeOK, NEW c \in Clients, Commit(c), NEW d, d = draft[c]
  PROVE  /\ file[Stage(d.entry.snapshot)] \in {Absent, d.variant.compat}
         /\ file[Archive(d.entry.snapshot)] \in {Absent, d.variant}
         /\ RouteOf(d.entry) = "untested" =>
              file[Approval(d.entry.snapshot)] \in {Absent, d.entry.approval}
         /\ \A ph \in TestPhases : file[Test(ph)] = d.bound[ph]
<1> DEFINE s0 == d.entry.snapshot
           t0 == Transaction(d)
<1>1. /\ d.entry \in Deliveries /\ d.variant \in Variants /\ s0 \in Snapshots
      /\ d.variant.compat \in Compats
      /\ \A ph \in TestPhases : d.bound[ph] \in TestManifest \union {Absent, Prepared, Corrupt}
      /\ RouteOf(d.entry) = "untested" => d.entry.approval \in Approvals
  BY DeliveryConstants DEF Commit, DeliveryTypeOK, RouteOf
<1>2. \A x \in Contents : New(x) # Keep /\ New(x).to = x /\ New(x).before = Absent
  BY DeliveryMarkers DEF New
<1>3. P!Fits(file, t0) /\ t0.outs = Outputs(d)
      /\ t0.reads = [q \in Paths |-> IF q \in DOMAIN DependsOn(d) THEN DependsOn(d)[q] ELSE Keep]
  BY DEF Commit, Transaction
<1> HIDE DEF t0
<1>4. \A q \in Paths : t0.outs[q] # Keep => file[q] \in {t0.outs[q].before, t0.outs[q].to}
  BY <1>3 DEF P!Fits, P!Planned
<1>5. \A q \in Paths : t0.reads[q] # Keep => file[q] = t0.reads[q]
  BY <1>3 DEF P!Fits
<1>6. /\ t0.outs[Stage(s0)] = New(d.variant.compat)
      /\ t0.outs[Archive(s0)] = New(d.variant)
      /\ RouteOf(d.entry) = "untested" => t0.outs[Approval(s0)] = New(d.entry.approval)
  BY <1>1, <1>3, PathFacts DEF Outputs
<1>7. /\ d.variant.compat \in Contents /\ d.variant \in Contents
      /\ RouteOf(d.entry) = "untested" => d.entry.approval \in Contents
  BY <1>1 DEF Contents
<1>8. /\ file[Stage(s0)] \in {Absent, d.variant.compat}
      /\ file[Archive(s0)] \in {Absent, d.variant}
      /\ RouteOf(d.entry) = "untested" => file[Approval(s0)] \in {Absent, d.entry.approval}
  BY <1>1, <1>2, <1>4, <1>6, <1>7, PathFacts
<1>9. \A ph \in TestPhases : file[Test(ph)] = d.bound[ph]
  <2> TAKE ph \in TestPhases
  <2>1. Test(ph) \in TestFiles /\ Test(ph) \in Paths /\ Test(ph)[2] = ph
    BY PathFacts DEF TestFiles, Test
  <2>2. Test(ph) \in DOMAIN DependsOn(d) /\ DependsOn(d)[Test(ph)] = d.bound[ph]
    BY <2>1 DEF DependsOn
  <2>3. d.bound[ph] # Keep
    BY <1>1, DeliveryMarkers DEF Contents
  <2>4. QED
    BY <1>3, <1>5, <2>1, <2>2, <2>3
<1>10. QED
  BY <1>8, <1>9

(***************************************************************************)
(* No command replaces a staged tree, an archive or a consumed approval.   *)
(***************************************************************************)
THEOREM StagedForGood == DeliverySpec => DeliveredForGood
<1> DEFINE Governed == Staged \union {Approval(s) : s \in Snapshots}
<1>1. ASSUME LifecycleInv, DeliveryTypeOK, DeliveryNext, tampers' = tampers, NEW q \in Governed,
             file[q] # Absent
      PROVE  file'[q] = file[q]
  <2>1. PICK s \in Snapshots : q \in {Stage(s), Archive(s), Approval(s)}
    BY DEF Staged
  <2>2. CASE Evolution
    BY <2>2 DEF Evolution
  <2>3. ASSUME NEW phase \in TestPhases,
               PrepareTestRun(phase) \/ \E m \in Manifests, report \in Reports :
                                          IngestTestRun(phase, m, report)
        PROVE  file'[q] = file[q]
    <3>1. \E x : file' = [file EXCEPT ![Test(phase)] = x]
      BY <2>3 DEF PrepareTestRun, IngestTestRun
    <3>2. q # Test(phase) /\ q \in DOMAIN file
      BY <1>1, <2>1, PathFacts DEF DeliveryTypeOK
    <3>3. QED
      BY <3>1, <3>2
  <2>4. ASSUME NEW c \in Clients, Commit(c) PROVE file'[q] = file[q]
    BY <1>1, <2>1, <2>4, CommitFacts, CommitFits
  <2>5. ASSUME NEW c \in Clients, Drafting(c) \/ GiveUp(c)
        PROVE  file'[q] = file[q]
    BY <1>1, <2>5, DraftingFacts DEF GiveUp
  <2>6. ~Tamper
    BY <1>1 DEF Tamper, DeliveryTypeOK
  <2>7. QED
    BY <1>1, <2>2, <2>3, <2>4, <2>5, <2>6 DEF DeliveryNext
<1>2. LifecycleInv /\ DeliveryTypeOK /\ [DeliveryNext]_deliveryVars =>
        [tampers' = tampers =>
           \A q \in Governed : file[q] # Absent => file'[q] = file[q]]_deliveryVars
  BY <1>1
<1>3. QED
  BY <1>2, DeliveryTypes, PTL DEF DeliverySpec, DeliveredForGood

-----------------------------------------------------------------------------
(***************************************************************************)
(* What is recorded.                                                       *)
(***************************************************************************)

LEMMA LatchedLedger ==
  ASSUME NEW d \in DomainState, Len(d.ledger) = 0,
         NEW entry \in Deliveries, NEW route \in Routes, NEW operation,
         Become(operation, Latched(d, entry, route))
  PROVE  /\ Len(dom'.ledger) = 1
         /\ dom'.ledger[1] = [delivery |-> entry, route |-> route]
<1> DEFINE l == Append(d.ledger, [delivery |-> entry, route |-> route])
<1>1. Len(l) = 1 /\ l[1] = [delivery |-> entry, route |-> route]
  BY LedgerFacts DEF DomainState
<1>2. dom' = [[d EXCEPT !.ledger = l] EXCEPT !.last = operation]
  BY DEF Become, Latched, DomainState
<1> HIDE DEF l
<1>3. dom'.ledger = l
  BY <1>2 DEF DomainState
<1>4. QED
  BY <1>1, <1>3

LEMMA ExportedStep ==
  ASSUME NEW u \in DomainState, NEW d, d = [u EXCEPT !.step = "exported"]
  PROVE  d \in DomainState /\ d.ledger = u.ledger
<1>1. "exported" \in DeliverySteps
  BY FieldNames
<1>2. QED
  BY <1>1 DEF DomainState

LEMMA Elements ==
  ASSUME NEW S, NEW q \in Seq(S)
  PROVE  \A i \in 1..Len(q) : q[i] \in S
OBVIOUS

LEMMA LedgerSnapshots ==
  ASSUME LifecycleInv
  PROVE  \A i \in 1..Len(dom.ledger) : dom.ledger[i].delivery.snapshot \in Snapshots
<1>1. dom.ledger \in Seq([delivery : Deliveries, route : Routes])
  BY DEF LifecycleInv, TypeOK, DomainState
<1> DEFINE E == [delivery : Deliveries, route : Routes]
<1> HIDE DEF E
<1>2. \A i \in 1..Len(dom.ledger) : dom.ledger[i] \in E
  BY <1>1, Elements DEF E
<1>3. \A entry \in Deliveries : entry.snapshot \in Snapshots
  BY DeliveryConstants
<1>4. \A e \in E : e.delivery \in Deliveries
  BY DEF E
<1>5. QED
  BY <1>2, <1>3, <1>4

\* After a commit its entry is the one delivery of the domain.
LEMMA LatchFacts ==
  ASSUME LifecycleInv, NEW entry \in Deliveries, Latch(entry)
  PROVE  /\ Len(dom'.ledger) = 1
         /\ dom'.ledger[1] = [delivery |-> entry, route |-> RouteOf(entry)]
<1>1. dom \in DomainState /\ Len(dom.ledger) \in {0, 1}
  BY DEF LifecycleInv, TypeOK, OneDelivery
<1>2. CASE RouteOf(entry) = "validated" /\ Export(entry)
  <2> DEFINE base == dom.tests["test-baseline"]
             final == dom.tests["test-final"]
             once == Consume(dom, base, "export")
             used == Consume(once, final, "export")
             d == [used EXCEPT !.step = "exported"]
  <2>1. /\ base \in Manifests /\ final \in Manifests /\ Len(dom.ledger) = 0
    <3>1. dom.tests \in [TestPhases -> Manifests \union {None}]
      BY <1>1 DEF DomainState
    <3>2. base \in Manifests \union {None} /\ final \in Manifests \union {None}
      BY <3>1 DEF TestPhases
    <3>3. QED
      BY <1>2, <3>2 DEF Export, LifecycleInv, OneDelivery
  <2>2. once \in DomainState /\ once.ledger = dom.ledger
    BY <1>1, <2>1, ConsumeSame DEF Uses, LifecycleInv, SameDelivery
  <2> HIDE DEF once
  <2>3. used \in DomainState /\ used.ledger = once.ledger
    <3>1. used \in DomainState /\
          used = [once EXCEPT !.consumed =
                    Append(once.consumed, [manifest |-> final, by |-> "export"])]
      BY <2>1, <2>2, ConsumeFacts DEF Uses
    <3>2. QED
      BY <2>2, <3>1 DEF DomainState
  <2> HIDE DEF used
  <2>4. d \in DomainState /\ d.ledger = dom.ledger
    BY <2>2, <2>3, ExportedStep
  <2>5. Become("export", Latched(d, entry, "validated"))
    BY <1>2 DEF Export, used, once
  <2> HIDE DEF d
  <2>6. QED
    BY <1>2, <2>1, <2>4, <2>5, LatchedLedger DEF Routes
<1>3. CASE RouteOf(entry) = "untested" /\ PackageUntested(entry)
  <2> DEFINE d == [dom EXCEPT !.route = "untested"]
  <2>1. d \in DomainState /\ d.ledger = dom.ledger
    BY <1>1 DEF DomainState, Routes
  <2>2. Len(dom.ledger) = 0
    BY <1>3 DEF PackageUntested, LifecycleInv, OneDelivery
  <2>3. Become("package-untested", Latched(d, entry, "untested"))
    BY <1>3 DEF PackageUntested
  <2> HIDE DEF d
  <2>4. QED
    BY <1>3, <2>1, <2>2, <2>3, LatchedLedger DEF Routes
<1>4. CASE Recorded(entry) /\ UNCHANGED dom
  BY <1>1, <1>4 DEF Recorded
<1>5. QED
  BY <1>2, <1>3, <1>4 DEF Latch

\* Preparing and ingesting tests records nothing.
LEMMA TestsKeepLedger ==
  ASSUME LifecycleInv,
         NEW phase \in TestPhases,
         PrepareTest(phase) \/ \E m \in Manifests : IngestTest(phase, m)
  PROVE  dom'.ledger = dom.ledger /\ dom'.active = dom.active /\ dom'.state = dom.state
<1>1. dom \in DomainState
  BY DEF LifecycleInv, TypeOK
<1>2. CASE PrepareTest(phase)
  BY <1>1, <1>2 DEF PrepareTest, Become, DomainState
<1>3. ASSUME NEW m \in Manifests, IngestTest(phase, m)
      PROVE  dom'.ledger = dom.ledger /\ dom'.active = dom.active /\ dom'.state = dom.state
  BY <1>1, <1>3 DEF IngestTest, Become, DomainState
<1>4. QED
  BY <1>2, <1>3

(***************************************************************************)
(* The approval a draft was made with is for its package: the draft keeps  *)
(* it, so that the check need not be repeated when it is committed.        *)
(***************************************************************************)
DraftsCovered ==
  \A c \in Clients :
    draft[c] # Idle /\ RouteOf(draft[c].entry) = "untested" =>
      /\ draft[c].entry.approval.snapshot = draft[c].entry.snapshot
      /\ draft[c].entry.approval.variant = draft[c].variant

RoutesRecorded ==
  \A i \in 1..Len(dom.ledger) : dom.ledger[i].route = RouteOf(dom.ledger[i].delivery)

Covered == DraftsCovered /\ RoutesRecorded /\ ApprovalCovers

LEMMA CoveredStep ==
  ASSUME LifecycleInv, DeliveryTypeOK, Covered, [DeliveryNext]_deliveryVars
  PROVE  Covered'
<1> USE DEF Covered
<1>1. CASE Evolution
  <2>1. dom'.ledger = dom.ledger
    BY <1>1, EvolutionKeeps DEF KeepsDelivery
  <2>2. UNCHANGED <<file, draft>>
    BY <1>1 DEF Evolution
  <2>3. QED
    BY <2>1, <2>2 DEF DraftsCovered, RoutesRecorded, ApprovalCovers
<1>2. ASSUME NEW phase \in TestPhases,
             PrepareTestRun(phase) \/ \E m \in Manifests, report \in Reports :
                                        IngestTestRun(phase, m, report)
      PROVE  Covered'
  <2>1. /\ dom'.ledger = dom.ledger /\ UNCHANGED draft
        /\ \E x : file' = [file EXCEPT ![Test(phase)] = x]
    BY <1>2, TestsKeepLedger DEF PrepareTestRun, IngestTestRun
  <2>2. \A s \in Snapshots :
          UNCHANGED <<file[Stage(s)], file[Archive(s)], file[Approval(s)]>>
    BY <2>1, PathFacts DEF DeliveryTypeOK
  <2>3. \A i \in 1..Len(dom.ledger) : dom.ledger[i].delivery.snapshot \in Snapshots
    BY LedgerSnapshots
  <2>4. QED
    BY <2>1, <2>2, <2>3 DEF DraftsCovered, RoutesRecorded, ApprovalCovers
<1>3. ASSUME NEW c \in Clients, Drafting(c) PROVE Covered'
  <2>1. /\ UNCHANGED <<dom, file, tampers>>
        /\ draft' = [draft EXCEPT ![c] = draft'[c]]
    BY <1>3, DraftingFacts
  <2>2. DraftsCovered'
    <3>1. CASE draft[c] # Idle
      BY <1>3, <2>1, <3>1, DraftingFacts DEF DraftsCovered, DeliveryTypeOK
    <3>2. CASE draft[c] = Idle
      <4>1. PICK entry \in Deliveries, variant \in Variants, report \in Reports :
              StageSkill(c, entry, variant, report)
        BY <1>3, <3>2, DraftingFacts
      <4>2. draft'[c].entry = entry /\ draft'[c].variant = variant
        BY <4>1 DEF StageSkill, DeliveryTypeOK
      <4>3. RouteOf(entry) = "untested" => Covers(entry, variant)
        BY <4>1 DEF StageSkill
      <4>4. QED
        BY <2>1, <4>2, <4>3 DEF DraftsCovered, DeliveryTypeOK, Covers
    <3>3. QED
      BY <3>1, <3>2
  <2>3. QED
    BY <2>1, <2>2 DEF RoutesRecorded, ApprovalCovers
<1>4. ASSUME NEW c \in Clients, Commit(c) PROVE Covered'
  <2> DEFINE d == draft[c]
             s0 == d.entry.snapshot
  <2>1. d # Idle /\ d.entry \in Deliveries /\ Latch(d.entry)
    BY <1>4 DEF Commit, DeliveryTypeOK
  <2>2. /\ Len(dom'.ledger) = 1
        /\ dom'.ledger[1] = [delivery |-> d.entry, route |-> RouteOf(d.entry)]
    BY <2>1, LatchFacts
  <2>3. /\ file'[Stage(s0)] = d.variant.compat /\ file'[Archive(s0)] = d.variant
        /\ RouteOf(d.entry) = "untested" => file'[Approval(s0)] = d.entry.approval
    BY <1>4, CommitFacts
  <2>4. RouteOf(d.entry) = "untested" =>
          d.entry.approval.snapshot = s0 /\ d.entry.approval.variant = d.variant
    BY <2>1 DEF DraftsCovered
  <2>5. ApprovalCovers' /\ RoutesRecorded'
    <3>1. \A i \in 1..Len(dom'.ledger) : i = 1
      BY <2>2
    <3>2. RoutesRecorded'
      BY <2>2, <3>1 DEF RoutesRecorded
    <3>3. ApprovalCovers'
      BY <2>2, <2>3, <2>4, <3>1 DEF ApprovalCovers
    <3>4. QED
      BY <3>2, <3>3
  <2>6. DraftsCovered'
    <3>1. \A client \in Clients : draft'[client] # Idle => draft'[client] = draft[client]
      BY <1>4 DEF Commit, DeliveryTypeOK
    <3>2. QED
      BY <3>1 DEF DraftsCovered
  <2>7. QED
    BY <2>5, <2>6
<1>5. ASSUME NEW c \in Clients, GiveUp(c) PROVE Covered'
  BY <1>5 DEF GiveUp, DraftsCovered, RoutesRecorded, ApprovalCovers, DeliveryTypeOK
<1>6. CASE Tamper
  <2>1. UNCHANGED <<dom, draft>>
    BY <1>6 DEF Tamper
  <2>2. \A s \in Snapshots :
          /\ file'[Stage(s)] \in {file[Stage(s)], Absent, Corrupt}
          /\ file'[Archive(s)] \in {file[Archive(s)], Absent, Corrupt}
          /\ file'[Approval(s)] \in {file[Approval(s)], Corrupt}
    <3>1. CASE \E q \in Paths : file' = [file EXCEPT ![q] = Corrupt]
      BY <3>1, PathFacts DEF DeliveryTypeOK
    <3>2. CASE \E s \in Snapshots :
                 file' = [file EXCEPT ![Stage(s)] = Absent, ![Archive(s)] = Absent]
      BY <3>2, PathFacts DEF DeliveryTypeOK
    <3>3. QED
      BY <1>6, <3>1, <3>2 DEF Tamper
  <2>3. \A i \in 1..Len(dom.ledger) : dom.ledger[i].delivery.snapshot \in Snapshots
    BY LedgerSnapshots
  <2>4. QED
    BY <2>1, <2>2, <2>3 DEF DraftsCovered, RoutesRecorded, ApprovalCovers
<1>7. CASE UNCHANGED deliveryVars
  BY <1>7 DEF deliveryVars, DraftsCovered, RoutesRecorded, ApprovalCovers
<1>8. QED
  BY <1>1, <1>2, <1>3, <1>4, <1>5, <1>6, <1>7 DEF DeliveryNext

(***************************************************************************)
(* An untested package is the one its approval names, in the state and on  *)
(* disk (delivery.py checks the approval when it drafts, and only then).   *)
(***************************************************************************)
THEOREM UntestedIsApproved == DeliverySpec => []ApprovalCovers
<1>1. DeliveryInit => Covered
  BY DEF DeliveryInit, Init, Covered, DraftsCovered, RoutesRecorded, ApprovalCovers
<1>2. LifecycleInv /\ DeliveryTypeOK /\ Covered /\ [DeliveryNext]_deliveryVars => Covered'
  BY CoveredStep
<1>3. Covered => ApprovalCovers
  BY DEF Covered
<1>4. QED
  BY <1>1, <1>2, <1>3, DeliveryTypes, PTL DEF DeliverySpec

-----------------------------------------------------------------------------
(***************************************************************************)
(* What an export rests on.                                                *)
(***************************************************************************)

\* Delivery happens in a finished domain.
DoneWhenRouted == dom.route # "none" => dom.state = "DONE"

(***************************************************************************)
(* What a draft of an export has verified, and bound: each manifest was    *)
(* intact when it was checked; what is on disk and what is bound is the    *)
(* same, or damaged since.                                                 *)
(***************************************************************************)
Verified(d) ==
  /\ dom.state = "DONE"
  /\ d.entry.snapshot = dom.active
  /\ \A ph \in TestPhases : dom.tests[ph] # None
  /\ <<dom.active, d.variant.compat, d.report>> \in Fitting
  /\ \A ph \in TestPhases :
       /\ d.seen[ph] # Absent =>
            /\ d.seen[ph] = ManifestOf(ph, dom.active, d.report)
            /\ file[Test(ph)] \in {d.seen[ph], Corrupt}
            /\ tampers = 0 => file[Test(ph)] = d.seen[ph]
       /\ d.bound[ph] # Absent =>
            /\ d.seen[ph] # Absent
            /\ d.bound[ph] \in {d.seen[ph], Corrupt}
            /\ tampers = 0 => d.bound[ph] = d.seen[ph]
       /\ d.ready => d.bound[ph] # Absent

DraftsVerified ==
  \A c \in Clients :
    draft[c] # Idle /\ RouteOf(draft[c].entry) = "validated" => Verified(draft[c])

Evidenced == DoneWhenRouted /\ DraftsVerified

LEMMA LatchKeepsState ==
  ASSUME LifecycleInv, NEW entry \in Deliveries, Latch(entry)
  PROVE  /\ dom'.state = dom.state /\ dom'.active = dom.active /\ dom'.tests = dom.tests
         /\ dom'.step = "exported" /\ dom.step # "exported" => RouteOf(entry) = "validated"
         /\ dom'.route # "none" => dom.state = "DONE" \/ dom.route # "none"
<1>1. dom \in DomainState
  BY DEF LifecycleInv, TypeOK
<1>2. CASE Export(entry) /\ RouteOf(entry) = "validated"
  BY <1>1, <1>2 DEF Export, Latched, Consume, Become, DomainState, At
<1>3. CASE PackageUntested(entry)
  BY <1>1, <1>3 DEF PackageUntested, Latched, Become, DomainState, At
<1>4. CASE UNCHANGED dom
  BY <1>4
<1>5. QED
  BY <1>2, <1>3, <1>4 DEF Latch

\* Tests that were ingested stay ingested, and their manifests intact or get damaged.
TestsKept ==
  \A ph \in TestPhases :
    dom.tests[ph] # None =>
      /\ dom'.tests[ph] # None
      /\ file'[Test(ph)] \in {file[Test(ph)], Corrupt}
      /\ tampers' = 0 => tampers = 0 /\ file'[Test(ph)] = file[Test(ph)]

\* A draft stays verified as long as the domain stays finished.
LEMMA VerifiedKept ==
  ASSUME Evidenced, dom'.active = dom.active, dom.state = "DONE" => dom'.state = "DONE",
         TestsKept,
         NEW c \in Clients, draft'[c] = draft[c], draft[c] # Idle,
         RouteOf(draft[c].entry) = "validated"
  PROVE  Verified(draft[c])'
<1> DEFINE d == draft[c]
<1>1. Verified(d)
  BY DEF Evidenced, DraftsVerified
<1>2. dom'.state = "DONE" /\ d.entry.snapshot = dom'.active
      /\ <<dom'.active, d.variant.compat, d.report>> \in Fitting
      /\ \A ph \in TestPhases : dom'.tests[ph] # None
  BY <1>1 DEF Verified, TestsKept
<1>3. ASSUME NEW ph \in TestPhases, d.seen[ph] # Absent
      PROVE  /\ d.seen[ph] = ManifestOf(ph, dom'.active, d.report)
             /\ file'[Test(ph)] \in {d.seen[ph], Corrupt}
             /\ tampers' = 0 => file'[Test(ph)] = d.seen[ph]
  BY <1>1, <1>3 DEF Verified, TestsKept
<1>4. ASSUME NEW ph \in TestPhases, d.bound[ph] # Absent
      PROVE  /\ d.seen[ph] # Absent
             /\ d.bound[ph] \in {d.seen[ph], Corrupt}
             /\ tampers' = 0 => d.bound[ph] = d.seen[ph]
  BY <1>1, <1>4 DEF Verified, TestsKept
<1>5. \A ph \in TestPhases : d.ready => d.bound[ph] # Absent
  BY <1>1 DEF Verified
<1>6. QED
  BY <1>2, <1>3, <1>4, <1>5 DEF Verified, ManifestOf

\* The run of one test touches no other test.
LEMMA OtherTests ==
  ASSUME LifecycleInv, DeliveryTypeOK, NEW phase \in TestPhases,
         PrepareTestRun(phase) \/ \E m \in Manifests, report \in Reports :
                                    IngestTestRun(phase, m, report)
  PROVE  /\ dom.tests[phase] = None
         /\ \A ph \in TestPhases :
              ph # phase => dom'.tests[ph] = dom.tests[ph] /\ file'[Test(ph)] = file[Test(ph)]
<1>1. dom.tests[phase] = None
  BY DEF PrepareTestRun, IngestTestRun, PrepareTest, IngestTest
<1>2. \E x : file' = [file EXCEPT ![Test(phase)] = x]
  BY DEF PrepareTestRun, IngestTestRun
<1>3. \A ph \in TestPhases : ph # phase => Test(ph) # Test(phase)
  BY DEF Test
<1>4. \A ph \in TestPhases : ph # phase => dom'.tests[ph] = dom.tests[ph]
  <2>1. dom \in DomainState
    BY DEF LifecycleInv, TypeOK
  <2>2. CASE PrepareTest(phase)
    BY <2>1, <2>2 DEF PrepareTest, Become, DomainState
  <2>3. ASSUME NEW m \in Manifests, IngestTest(phase, m)
        PROVE  \A ph \in TestPhases : ph # phase => dom'.tests[ph] = dom.tests[ph]
    <3>1. dom'.tests = [dom.tests EXCEPT ![phase] = m]
      BY <2>1, <2>3 DEF IngestTest, Become, DomainState
    <3>2. QED
      BY <2>1, <3>1 DEF DomainState
  <2>4. QED
    BY <2>2, <2>3 DEF PrepareTestRun, IngestTestRun
<1>5. QED
  BY <1>1, <1>2, <1>3, <1>4, PathFacts DEF DeliveryTypeOK

\* What a client reads for its draft of an export.
LEMMA DraftingVerifies ==
  ASSUME LifecycleInv, DeliveryTypeOK, Evidenced, NEW c \in Clients, Drafting(c),
         draft'[c] # Idle, RouteOf(draft'[c].entry) = "validated"
  PROVE  Verified(draft[c])'
<1>1. /\ UNCHANGED <<dom, file, tampers>>
      /\ draft' = [draft EXCEPT ![c] = draft'[c]]
  BY DraftingFacts
<1>2. CASE \E entry \in Deliveries, variant \in Variants, report \in Reports :
             StageSkill(c, entry, variant, report)
  <2>1. PICK entry \in Deliveries, variant \in Variants, report \in Reports :
          StageSkill(c, entry, variant, report)
    BY <1>2
  <2>2. draft'[c] = [entry |-> entry, variant |-> variant, report |-> report,
                     seen |-> Unread, bound |-> Unread, ready |-> FALSE]
    BY <2>1 DEF StageSkill, DeliveryTypeOK
  <2>3. /\ entry.snapshot = dom.active /\ \A ph \in TestPhases : dom.tests[ph] # None
        /\ <<dom.active, variant.compat, report>> \in Fitting
    BY <2>1, <2>2 DEF StageSkill, Requested
  <2>4. dom.state = "DONE"
    BY <2>3 DEF LifecycleInv, OneDelivery, Evidenced, DoneWhenRouted, TestPhases
  <2>5. QED
    BY <1>1, <2>2, <2>3, <2>4 DEF Verified, Unread
<1>3. CASE draft[c] # Idle
  <2> DEFINE d == draft[c]
             e == draft'[c]
  <2>1. RouteOf(d.entry) = "validated" /\ Verified(d)
    BY <1>3, DraftingFacts DEF Evidenced, DraftsVerified
  <2>2. ASSUME NEW ph \in TestPhases, CheckTest(c, ph)
        PROVE  Verified(d)'
    <3>1. /\ e = [d EXCEPT !.seen[ph] = file[Test(ph)]]
          /\ file[Test(ph)] = ManifestOf(ph, d.entry.snapshot, d.report)
      BY <2>2 DEF CheckTest, DeliveryTypeOK
    <3>2. /\ e.entry = d.entry /\ e.variant = d.variant /\ e.report = d.report
          /\ e.bound = d.bound /\ e.ready = d.ready
          /\ e.seen = [d.seen EXCEPT ![ph] = ManifestOf(ph, dom.active, d.report)]
      BY <1>3, <2>1, <3>1 DEF DeliveryTypeOK, Verified
    <3>3. d.seen[ph] = Absent /\ d.bound[ph] = Absent
      BY <2>1, <2>2 DEF CheckTest, Verified
    <3>4. DOMAIN d.seen = TestPhases
      BY <1>3 DEF DeliveryTypeOK
    <3> HIDE DEF e
    <3>5. Verified(e)
      BY <2>1, <3>1, <3>2, <3>3, <3>4 DEF Verified
    <3>6. QED
      BY <1>1, <3>5 DEF e, Verified, ManifestOf
  <2>3. ASSUME NEW ph \in TestPhases, BindTest(c, ph)
        PROVE  Verified(d)'
    <3>1. e = [d EXCEPT !.bound[ph] = file[Test(ph)]] /\ d.seen[ph] # Absent
      BY <2>3 DEF BindTest, DeliveryTypeOK
    <3>2. /\ e.entry = d.entry /\ e.variant = d.variant /\ e.report = d.report
          /\ e.seen = d.seen /\ e.ready = d.ready
          /\ e.bound = [d.bound EXCEPT ![ph] = file[Test(ph)]]
      BY <1>3, <3>1 DEF DeliveryTypeOK
    <3>3. DOMAIN d.bound = TestPhases
      BY <1>3 DEF DeliveryTypeOK
    <3>4. file[Test(ph)] # Absent
      BY <2>3 DEF BindTest
    <3> HIDE DEF e
    <3>5. Verified(e)
      BY <2>1, <3>1, <3>2, <3>3, <3>4 DEF Verified
    <3>6. QED
      BY <1>1, <3>5 DEF e, Verified, ManifestOf
  <2>4. CASE CompleteDraft(c)
    <3>1. e = [d EXCEPT !.ready = TRUE] /\ \A ph \in TestPhases : d.bound[ph] # Absent
      BY <2>1, <2>4 DEF CompleteDraft, DeliveryTypeOK
    <3>2. /\ e.entry = d.entry /\ e.variant = d.variant /\ e.report = d.report
          /\ e.seen = d.seen /\ e.bound = d.bound
      BY <1>3, <3>1 DEF DeliveryTypeOK
    <3> HIDE DEF e
    <3>3. Verified(e)
      BY <2>1, <3>1, <3>2 DEF Verified
    <3>4. QED
      BY <1>1, <3>3 DEF e, Verified, ManifestOf
  <2>5. QED
    BY <1>2, <1>3, <2>2, <2>3, <2>4 DEF Drafting, StageSkill
<1>4. QED
  BY <1>2, <1>3, DraftingFacts

LEMMA EvidencedStep ==
  ASSUME LifecycleInv, DeliveryTypeOK, Evidenced, [DeliveryNext]_deliveryVars
  PROVE  Evidenced'
<1>1. CASE Evolution
  <2>1. KeepsDelivery /\ UNCHANGED <<file, draft, tampers>>
    BY <1>1, EvolutionKeeps DEF Evolution
  <2>2. dom.state = "DONE" => dom'.state = "DONE" /\ dom'.active = dom.active
    BY <1>1, DoneStays
  <2>3. DoneWhenRouted'
    BY <2>1, <2>2 DEF Evidenced, DoneWhenRouted, KeepsDelivery
  <2>4. DraftsVerified'
    <3>1. SUFFICES ASSUME NEW c \in Clients, draft[c] # Idle,
                          RouteOf(draft[c].entry) = "validated"
                   PROVE  Verified(draft[c])'
      BY <2>1 DEF DraftsVerified
    <3>2. dom'.active = dom.active
      <4>1. Verified(draft[c])
        BY <3>1 DEF Evidenced, DraftsVerified
      <4>2. dom.state = "DONE"
        BY <4>1 DEF Verified
      <4>3. QED
        BY <2>2, <4>2
    <3>3. TestsKept
      BY <2>1 DEF TestsKept, KeepsDelivery
    <3>4. QED
      BY <2>1, <2>2, <3>1, <3>2, <3>3, VerifiedKept
  <2>5. QED
    BY <2>3, <2>4 DEF Evidenced
<1>2. ASSUME NEW phase \in TestPhases,
             PrepareTestRun(phase) \/ \E m \in Manifests, report \in Reports :
                                        IngestTestRun(phase, m, report)
      PROVE  Evidenced'
  <2>1. /\ UNCHANGED <<draft, tampers>> /\ dom.state = "DONE"
        /\ dom'.active = dom.active /\ dom'.state = dom.state
    BY <1>2, TestsKeepLedger
    DEF PrepareTestRun, IngestTestRun, PrepareTest, IngestTest, At
  <2>2. TestsKept
    BY <1>2, <2>1, OtherTests DEF TestsKept
  <2>3. QED
    BY <2>1, <2>2, VerifiedKept DEF Evidenced, DoneWhenRouted, DraftsVerified
<1>3. ASSUME NEW c \in Clients, Drafting(c) PROVE Evidenced'
  <2>1. /\ UNCHANGED <<dom, file, tampers>>
        /\ \A e \in Clients : e # c => draft'[e] = draft[e]
    BY <1>3, DraftingFacts DEF DeliveryTypeOK
  <2>2. TestsKept
    BY <2>1 DEF TestsKept
  <2>3. DraftsVerified'
    BY <1>3, <2>1, <2>2, VerifiedKept, DraftingVerifies DEF DraftsVerified
  <2>4. QED
    BY <2>1, <2>3 DEF Evidenced, DoneWhenRouted
<1>4. ASSUME NEW c \in Clients, Commit(c) PROVE Evidenced'
  <2>1. draft[c].entry \in Deliveries /\ Latch(draft[c].entry)
    BY <1>4 DEF Commit, DeliveryTypeOK
  <2>2. /\ dom'.state = dom.state /\ dom'.active = dom.active /\ dom'.tests = dom.tests
        /\ dom'.route # "none" => dom.state = "DONE" \/ dom.route # "none"
    BY <2>1, LatchKeepsState
  <2>3. draft' = [draft EXCEPT ![c] = Idle] /\ tampers' = tampers
    BY <1>4 DEF Commit
  <2>4. TestsKept
    BY <1>4, <2>2, <2>3, CommitFacts DEF TestsKept
  <2>5. DraftsVerified'
    BY <2>2, <2>3, <2>4, VerifiedKept DEF DraftsVerified, DeliveryTypeOK
  <2>6. QED
    BY <2>2, <2>5 DEF Evidenced, DoneWhenRouted
<1>5. ASSUME NEW c \in Clients, GiveUp(c) PROVE Evidenced'
  <2>1. UNCHANGED <<dom, file, tampers>> /\ draft' = [draft EXCEPT ![c] = Idle]
    BY <1>5 DEF GiveUp
  <2>2. TestsKept
    BY <2>1 DEF TestsKept
  <2>3. DraftsVerified'
    BY <2>1, <2>2, VerifiedKept DEF DraftsVerified, DeliveryTypeOK
  <2>4. QED
    BY <2>1, <2>3 DEF Evidenced, DoneWhenRouted
<1>6. CASE Tamper
  <2>1. UNCHANGED <<dom, draft>> /\ tampers' # 0
    BY <1>6 DEF Tamper, DeliveryTypeOK
  <2>2. \A ph \in TestPhases : file'[Test(ph)] \in {file[Test(ph)], Corrupt}
    <3>1. CASE \E q \in Paths : file' = [file EXCEPT ![q] = Corrupt]
      BY <3>1, PathFacts DEF DeliveryTypeOK
    <3>2. CASE \E s \in Snapshots :
                 file' = [file EXCEPT ![Stage(s)] = Absent, ![Archive(s)] = Absent]
      BY <3>2, PathFacts DEF DeliveryTypeOK
    <3>3. QED
      BY <1>6, <3>1, <3>2 DEF Tamper
  <2>3. TestsKept
    BY <2>1, <2>2 DEF TestsKept
  <2>4. QED
    BY <2>1, <2>3, VerifiedKept DEF Evidenced, DoneWhenRouted, DraftsVerified
<1>7. CASE UNCHANGED deliveryVars
  <2>1. UNCHANGED <<dom, file, draft, tampers>>
    BY <1>7 DEF deliveryVars
  <2>2. QED
    BY <2>1, VerifiedKept DEF Evidenced, DoneWhenRouted, DraftsVerified, TestsKept
<1>8. QED
  BY <1>1, <1>2, <1>3, <1>4, <1>5, <1>6, <1>7 DEF DeliveryNext

\* Only the commit of an export exports.
LEMMA ExportingStep ==
  ASSUME LifecycleInv, DeliveryTypeOK, DeliveryNext,
         dom.step # "exported", dom'.step = "exported"
  PROVE  \E c \in Clients : Commit(c) /\ RouteOf(draft[c].entry) = "validated"
<1>1. ~Evolution
  BY EvolutionKeeps DEF KeepsDelivery
<1>2. \A phase \in TestPhases : ~PrepareTestRun(phase)
  BY DEF PrepareTestRun, PrepareTest, Become, LifecycleInv, TypeOK, DomainState
<1>3. \A phase \in TestPhases, m \in Manifests, report \in Reports :
        ~IngestTestRun(phase, m, report)
  BY DEF IngestTestRun, IngestTest, Become, LifecycleInv, TypeOK, DomainState
<1>4. ~Tamper /\ \A c \in Clients : ~GiveUp(c)
  BY DEF Tamper, GiveUp
<1>5. \A c \in Clients : ~Drafting(c)
  BY DraftingFacts
<1>6. PICK c \in Clients : Commit(c)
  BY <1>1, <1>2, <1>3, <1>4, <1>5 DEF DeliveryNext
<1>7. draft[c].entry \in Deliveries /\ Latch(draft[c].entry)
  BY <1>6 DEF Commit, DeliveryTypeOK
<1>8. QED
  BY <1>6, <1>7, LatchKeepsState

(***************************************************************************)
(* An export rests on the two test manifests, which its process found      *)
(* intact, of one report, and of the empty and the delivered snapshot; and *)
(* which are so at that moment, except one that was damaged between its    *)
(* two reads: the draft binds what it read, and a finished domain does not *)
(* move on.                                                                *)
(***************************************************************************)
THEOREM ExportOnEvidence == DeliverySpec => ExportEvidenced
<1>1. DeliveryInit => Evidenced
  BY DEF DeliveryInit, Init, Evidenced, DoneWhenRouted, DraftsVerified
<1>2. LifecycleInv /\ DeliveryTypeOK /\ Evidenced /\ [DeliveryNext]_deliveryVars => Evidenced'
  BY EvidencedStep
<1> DEFINE Exported ==
      \E c \in Clients, report \in Reports, variant \in Variants :
         LET d == draft[c]
             s == dom.active
         IN  /\ d # Idle /\ draft'[c] = Idle
             /\ \A ph \in TestPhases :
                  /\ d.seen[ph] = ManifestOf(ph, s, report)
                  /\ file[Test(ph)] = d.seen[ph] \/ d.bound[ph] = Corrupt
             /\ <<s, variant.compat, report>> \in Fitting
             /\ file'[Stage(s)] = variant.compat /\ file'[Archive(s)] = variant
<1>3. ASSUME LifecycleInv, DeliveryTypeOK, Evidenced, DeliveryNext,
             dom.step # "exported", dom'.step = "exported"
      PROVE  Exported
  <2>1. PICK c \in Clients : Commit(c) /\ RouteOf(draft[c].entry) = "validated"
    BY <1>3, ExportingStep
  <2> DEFINE d == draft[c]
  <2>2. /\ d # Idle /\ d.ready /\ draft'[c] = Idle
        /\ d.variant \in Variants /\ d.report \in Reports /\ Verified(d)
    BY <1>3, <2>1 DEF Evidenced, DraftsVerified, Commit, DeliveryTypeOK
  <2>3. /\ file'[Stage(dom.active)] = d.variant.compat
        /\ file'[Archive(dom.active)] = d.variant
    BY <1>3, <2>1, <2>2, CommitFacts DEF Verified
  <2>4. \A ph \in TestPhases : file[Test(ph)] = d.bound[ph]
    BY <1>3, <2>1, CommitFits
  <2>5. \A ph \in TestPhases :
          /\ d.seen[ph] = ManifestOf(ph, dom.active, d.report)
          /\ d.bound[ph] \in {d.seen[ph], Corrupt}
    BY <2>2 DEF Verified
  <2>6. <<dom.active, d.variant.compat, d.report>> \in Fitting
    BY <2>2 DEF Verified
  <2>7. \A ph \in TestPhases : file[Test(ph)] = d.seen[ph] \/ d.bound[ph] = Corrupt
    BY <2>4, <2>5
  <2> HIDE DEF d
  <2>8. QED
    BY <2>2, <2>3, <2>5, <2>6, <2>7 DEF d
<1>4. LifecycleInv /\ DeliveryTypeOK /\ Evidenced /\ [DeliveryNext]_deliveryVars =>
        [dom.step # "exported" /\ dom'.step = "exported" => Exported]_deliveryVars
  BY <1>3
<1>5. QED
  BY <1>1, <1>2, <1>4, DeliveryTypes, PTL DEF DeliverySpec, ExportEvidenced

-----------------------------------------------------------------------------
(***************************************************************************)
(* A delivery can be asked for again.                                      *)
(***************************************************************************)

\* What the documents of the delivered snapshot and the report agree on for good.
Agreed(entry, variant, report) ==
  /\ Label[entry.snapshot] = RouteOf(entry)
  /\ <<entry.snapshot, variant.compat, report>> \in Fitting

\* What the delivery left, and the test manifests it rests on.
Intact(entry, variant, report) ==
  LET s == entry.snapshot
  IN  /\ file[Stage(s)] = variant.compat /\ file[Archive(s)] = variant
      /\ RouteOf(entry) = "untested" => file[Approval(s)] = entry.approval
      /\ RouteOf(entry) = "validated" =>
           \A ph \in TestPhases :
             /\ dom.tests[ph] # None
             /\ file[Test(ph)] = ManifestOf(ph, s, report)

DraftsAgreed ==
  \A c \in Clients :
    draft[c] # Idle => \E report \in Reports : Agreed(draft[c].entry, draft[c].variant, report)

Delivered == {dom.ledger[i].delivery : i \in 1..Len(dom.ledger)}

DeliveryIntact ==
  tampers = 0 =>
    \A entry \in Delivered : \E variant \in Variants, report \in Reports :
      Agreed(entry, variant, report) /\ Intact(entry, variant, report)

Replayable == DraftsAgreed /\ DeliveryIntact

\* A delivery stays intact in every step that keeps its files and the tests it rests on.
LEMMA IntactKept ==
  ASSUME DeliveryIntact, tampers' = tampers, dom'.ledger = dom.ledger,
         \A entry \in Delivered :
           /\ UNCHANGED <<file[Stage(entry.snapshot)], file[Archive(entry.snapshot)],
                          file[Approval(entry.snapshot)]>>
           /\ RouteOf(entry) = "validated" =>
                \A ph \in TestPhases :
                  dom.tests[ph] # None => UNCHANGED <<dom.tests[ph], file[Test(ph)]>>
  PROVE  DeliveryIntact'
<1>1. Delivered' = Delivered
  BY DEF Delivered
<1> SUFFICES ASSUME tampers = 0, NEW entry \in Delivered
             PROVE  \E variant \in Variants, report \in Reports :
                      Agreed(entry, variant, report) /\ Intact(entry, variant, report)'
  BY <1>1 DEF DeliveryIntact, Agreed
<1>2. PICK variant \in Variants, report \in Reports :
        Agreed(entry, variant, report) /\ Intact(entry, variant, report)
  BY DEF DeliveryIntact
<1>3. Intact(entry, variant, report)'
  BY <1>2 DEF Intact
<1>4. QED
  BY <1>2, <1>3

\* The commit of a draft leaves its delivery intact.
LEMMA CommitIntact ==
  ASSUME LifecycleInv, LifecycleInv', DeliveryTypeOK, Evidenced, DraftsAgreed,
         NEW c \in Clients, Commit(c), NEW d, d = draft[c], tampers = 0
  PROVE  \E variant \in Variants, report \in Reports :
           Agreed(d.entry, variant, report) /\ Intact(d.entry, variant, report)'
<1>1. /\ d # Idle /\ d.entry \in Deliveries /\ d.variant \in Variants /\ Latch(d.entry)
      /\ d.entry.snapshot \in Snapshots
  BY DeliveryConstants DEF Commit, DeliveryTypeOK
<1>2. /\ file'[Stage(d.entry.snapshot)] = d.variant.compat
      /\ file'[Archive(d.entry.snapshot)] = d.variant
      /\ RouteOf(d.entry) = "untested" => file'[Approval(d.entry.snapshot)] = d.entry.approval
      /\ \A ph \in TestPhases : file'[Test(ph)] = file[Test(ph)]
  BY CommitFacts
<1>3. CASE RouteOf(d.entry) # "validated"
  <2>1. PICK report \in Reports : Agreed(d.entry, d.variant, report)
    BY <1>1 DEF DraftsAgreed
  <2>2. Intact(d.entry, d.variant, report)'
    BY <1>2, <1>3 DEF Intact
  <2>3. QED
    BY <1>1, <2>1, <2>2
<1>4. CASE RouteOf(d.entry) = "validated"
  <2>1. Verified(d) /\ d.ready /\ d.report \in Reports
    BY <1>1, <1>4 DEF Evidenced, DraftsVerified, Commit, DeliveryTypeOK
  <2>2. Agreed(d.entry, d.variant, d.report)
    BY <1>1, <2>1 DEF DraftsAgreed, Agreed, Verified
  <2>3. \A ph \in TestPhases : d.bound[ph] = ManifestOf(ph, d.entry.snapshot, d.report)
    BY <2>1 DEF Verified
  <2>4. \A ph \in TestPhases : file[Test(ph)] = d.bound[ph]
    BY CommitFits
  <2>5. \A ph \in TestPhases : file'[Test(ph)] = ManifestOf(ph, d.entry.snapshot, d.report)
    BY <1>2, <2>3, <2>4
  <2>6. /\ Len(dom'.ledger) = 1
        /\ dom'.ledger[1] = [delivery |-> d.entry, route |-> RouteOf(d.entry)]
    BY <1>1, LatchFacts
  <2>7. \A ph \in TestPhases : dom'.tests[ph] # None
    BY <1>4, <2>6 DEF LifecycleInv, OneDelivery
  <2>8. Intact(d.entry, d.variant, d.report)'
    BY <1>2, <1>4, <2>5, <2>7 DEF Intact, ManifestOf
  <2>9. QED
    BY <1>1, <2>1, <2>2, <2>8
<1>5. QED
  BY <1>3, <1>4

LEMMA ReplayableStep ==
  ASSUME LifecycleInv, LifecycleInv', DeliveryTypeOK, Evidenced, Replayable,
         [DeliveryNext]_deliveryVars
  PROVE  Replayable'
<1> USE DEF Replayable
<1>1. CASE Evolution
  <2>1. /\ dom'.ledger = dom.ledger /\ dom'.tests = dom.tests
        /\ UNCHANGED <<file, draft, tampers>>
    BY <1>1, EvolutionKeeps DEF KeepsDelivery, Evolution
  <2>2. DeliveryIntact'
    BY <2>1, IntactKept
  <2>3. QED
    BY <2>1, <2>2 DEF DraftsAgreed, Agreed
<1>2. ASSUME NEW phase \in TestPhases,
             PrepareTestRun(phase) \/ \E m \in Manifests, report \in Reports :
                                        IngestTestRun(phase, m, report)
      PROVE  Replayable'
  <2>1. /\ dom'.ledger = dom.ledger /\ UNCHANGED <<draft, tampers>>
        /\ \E x : file' = [file EXCEPT ![Test(phase)] = x]
    BY <1>2, TestsKeepLedger DEF PrepareTestRun, IngestTestRun
  <2>2. \A s \in Snapshots :
          UNCHANGED <<file[Stage(s)], file[Archive(s)], file[Approval(s)]>>
    BY <2>1, PathFacts DEF DeliveryTypeOK
  <2>3. dom.tests[phase] = None
    BY <1>2, OtherTests
  <2>4. \A ph \in TestPhases :
          ph # phase => dom'.tests[ph] = dom.tests[ph] /\ file'[Test(ph)] = file[Test(ph)]
    BY <1>2, OtherTests
  <2>5. \A entry \in Delivered : entry.snapshot \in Snapshots
    BY LedgerSnapshots DEF Delivered
  <2>6. DeliveryIntact'
    BY <2>1, <2>2, <2>3, <2>4, <2>5, IntactKept
  <2>7. QED
    BY <2>1, <2>6 DEF DraftsAgreed, Agreed
<1>3. ASSUME NEW c \in Clients, Drafting(c) PROVE Replayable'
  <2>1. /\ UNCHANGED <<dom, file, tampers>>
        /\ draft' = [draft EXCEPT ![c] = draft'[c]]
    BY <1>3, DraftingFacts
  <2>2. DraftsAgreed'
    <3>1. CASE draft[c] # Idle
      <4>1. draft'[c].entry = draft[c].entry /\ draft'[c].variant = draft[c].variant
        BY <1>3, <3>1, DraftingFacts
      <4>2. \A e \in Clients : e # c => draft'[e] = draft[e]
        BY <2>1 DEF DeliveryTypeOK
      <4>3. ASSUME NEW e \in Clients, draft'[e] # Idle
            PROVE  \E report \in Reports : Agreed(draft'[e].entry, draft'[e].variant, report)
        BY <3>1, <4>1, <4>2, <4>3 DEF Replayable, DraftsAgreed
      <4>4. QED
        BY <4>3 DEF DraftsAgreed, Agreed
    <3>2. CASE draft[c] = Idle
      <4>1. PICK entry \in Deliveries, variant \in Variants, report \in Reports :
              StageSkill(c, entry, variant, report)
        BY <1>3, <3>2, DraftingFacts
      <4>2. draft'[c].entry = entry /\ draft'[c].variant = variant
        BY <4>1 DEF StageSkill, DeliveryTypeOK
      <4>3. Agreed(entry, variant, report)
        BY <4>1 DEF StageSkill, Requested, Agreed
      <4>4. QED
        BY <2>1, <4>2, <4>3 DEF DraftsAgreed, Agreed, DeliveryTypeOK
    <3>3. QED
      BY <3>1, <3>2
  <2>3. QED
    BY <2>1, <2>2, IntactKept
<1>4. ASSUME NEW c \in Clients, Commit(c) PROVE Replayable'
  <2> DEFINE entry == draft[c].entry
  <2>1. /\ Len(dom'.ledger) = 1
        /\ dom'.ledger[1] = [delivery |-> entry, route |-> RouteOf(entry)]
    <3>1. entry \in Deliveries /\ Latch(entry)
      BY <1>4 DEF Commit, DeliveryTypeOK
    <3>2. QED
      BY <3>1, LatchFacts
  <2>2. \A d : tampers = 0 /\ d = draft[c] =>
          \E variant \in Variants, report \in Reports :
            Agreed(d.entry, variant, report) /\ Intact(d.entry, variant, report)'
    BY <1>4, CommitIntact
  <2>3. \A e : tampers' = 0 /\ e = entry =>
          \E variant \in Variants, report \in Reports :
            Agreed(e, variant, report) /\ Intact(e, variant, report)'
    BY <1>4, <2>2 DEF Commit
  <2>4. \A e \in Delivered' : e = entry
    BY <2>1 DEF Delivered
  <2> HIDE DEF entry
  <2>5. DeliveryIntact'
    BY <2>3, <2>4 DEF DeliveryIntact, Agreed
  <2>6. DraftsAgreed'
    BY <1>4 DEF Commit, DraftsAgreed, Agreed, DeliveryTypeOK
  <2>7. QED
    BY <2>5, <2>6
<1>5. ASSUME NEW c \in Clients, GiveUp(c) PROVE Replayable'
  <2>1. UNCHANGED <<dom, file, tampers>> /\ draft' = [draft EXCEPT ![c] = Idle]
    BY <1>5 DEF GiveUp
  <2>2. DraftsAgreed'
    BY <2>1 DEF DraftsAgreed, Agreed, DeliveryTypeOK
  <2>3. QED
    BY <2>1, <2>2, IntactKept
<1>6. CASE Tamper
  <2>1. tampers' # 0 /\ UNCHANGED <<dom, draft>>
    BY <1>6 DEF Tamper, DeliveryTypeOK
  <2>2. QED
    BY <2>1 DEF DraftsAgreed, DeliveryIntact, Agreed
<1>7. CASE UNCHANGED deliveryVars
  <2>1. UNCHANGED <<dom, file, draft, tampers>>
    BY <1>7 DEF deliveryVars
  <2>2. QED
    BY <2>1, IntactKept DEF DraftsAgreed, Agreed
<1>8. QED
  BY <1>1, <1>2, <1>3, <1>4, <1>5, <1>6, <1>7 DEF DeliveryNext

\* What is recorded and intact answers the request that recorded it.
LEMMA IntactReplays ==
  ASSUME LifecycleInv, RoutesRecorded, DeliveryIntact
  PROVE  ReplayOpen
<1> SUFFICES ASSUME NEW i \in 1..Len(dom.ledger), NEW entry, entry = dom.ledger[i].delivery,
                    entry.snapshot = dom.active, tampers = 0
             PROVE  \E variant \in Variants, report \in Reports : Replayed(entry, variant, report)
  BY DEF ReplayOpen
<1>1. PICK variant \in Variants, report \in Reports :
        Agreed(entry, variant, report) /\ Intact(entry, variant, report)
  BY DEF DeliveryIntact, Delivered
<1>2. RouteOf(entry) = "validated" => Evidence(entry, report)
  BY <1>1 DEF Intact, Evidence
<1>3. Requested(entry, variant, report)
  BY <1>1 DEF Requested, Agreed, Intact
<1>4. Recorded(entry)
  <2> DEFINE E == [delivery : Deliveries, route : Routes]
  <2>1. dom.ledger \in Seq(E)
    BY DEF LifecycleInv, TypeOK, DomainState
  <2> HIDE DEF E
  <2>2. dom.ledger[i] \in E
    BY <2>1, Elements
  <2>3. dom.ledger[i] = [delivery |-> entry, route |-> RouteOf(entry)]
    BY <2>2 DEF E, RoutesRecorded
  <2>4. QED
    BY <2>3 DEF Recorded
<1>5. QED
  BY <1>1, <1>2, <1>3, <1>4 DEF Replayed, Intact

(***************************************************************************)
(* The request that delivered the active snapshot is answered as done when *)
(* it is made again: nobody replaces what it staged, and the tests it      *)
(* rests on are run once (delivery.py, _exact_existing_delivery).          *)
(***************************************************************************)
THEOREM RequestsReplay == DeliverySpec => []ReplayOpen
<1>1. DeliveryInit => Evidenced /\ Covered /\ Replayable
  BY DEF DeliveryInit, Init, Evidenced, DoneWhenRouted, DraftsVerified, Covered, DraftsCovered,
         RoutesRecorded, ApprovalCovers, Replayable, DraftsAgreed, DeliveryIntact, Delivered
<1> DEFINE Inv == Evidenced /\ Covered /\ Replayable
<1>2. LifecycleInv /\ LifecycleInv' /\ DeliveryTypeOK /\ Inv /\ [DeliveryNext]_deliveryVars => Inv'
  BY EvidencedStep, CoveredStep, ReplayableStep
<1>3. LifecycleInv /\ Inv => ReplayOpen
  BY IntactReplays DEF Covered, Replayable
<1>4. QED
  BY <1>1, <1>2, <1>3, DeliveryTypes, PTL DEF DeliverySpec
=============================================================================
