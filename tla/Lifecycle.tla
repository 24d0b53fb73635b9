------------------------------ MODULE Lifecycle ------------------------------
(***************************************************************************)
(* The lifecycle transition table (lifecycle.py, transition): the          *)
(* authoritative DomainState and the operations that change it, one action *)
(* each.  An operation the table refuses is not enabled, and one that      *)
(* returns the current state (invalid evidence, the replay of a delivery)  *)
(* is a stuttering step.                                                   *)
(*                                                                         *)
(* A domain is seeded or not, gets a baseline score, and is then improved  *)
(* iteration by iteration: train evidence, wiki, proposal, and for a       *)
(* changed proposal a candidate snapshot that must beat the best score in  *)
(* validation, and again in confirmation when the domain requires it.  A   *)
(* finished domain is delivered along one of two routes.                   *)
(***************************************************************************)
EXTENDS Naturals, Sequences

CONSTANTS
  Manifests,     \* SHA-256 identities of rollout manifests
  Snapshots,     \* SHA-256 identities of skill snapshots
  Deliveries,    \* delivery identities
  Perfect,       \* the score 1.0; scores are 0..Perfect, compared only
  MaxIterations, \* max_iterations of the domain
  None           \* no manifest, snapshot or score

ASSUME LifecycleConstants ==
  /\ Perfect \in Nat \ {0}
  /\ MaxIterations \in Nat \ {0}
  /\ None \notin Manifests \union Snapshots \union Nat

VARIABLE dom  \* DomainState

Scores == 0..Perfect

Candidate == {"NEEDS_VAL_RUN", "NEEDS_GATE", "NEEDS_VAL_CONFIRM"}
BeforeBaseline == {"UNINITIALIZED", "NEEDS_OPTIONAL_SEED", "NEEDS_BASELINE_RUN"}
Evolving == {"NEEDS_TRAIN_RUN", "NEEDS_WIKI", "NEEDS_PROPOSAL"} \union Candidate
States == BeforeBaseline \union Evolving \union {"DONE"}

TestPhases == {"test-baseline", "test-final"}
Uses == {"baseline-finalize", "apply-wiki", "gate-validation", "gate-confirmation",
         "gate-validation-reject", "gate-confirmation-reject", "abandon", "export"}
Operations ==
  {"init", "seed-observations", "skip-seed", "rollback-seed", "baseline-finalize",
   "train-ingest", "apply-wiki", "apply-proposal-change", "apply-proposal-no-action",
   "val-ingest", "confirm-ingest", "gate", "abandon", "reset-manifest",
   "test-prepare", "test-ingest", "export", "package-untested"}

SeedDecisions == {"none", "seeded", "skipped"}
GatePhases == {"none", "validation", "confirmation"}
RunPhases == {"none", "train", "val", "val_confirm"}
Routes == {"validated", "untested"}
DeliverySteps == {"none", "prepared", "ingested", "exported"}

DomainState ==
  [state : States,
   confirm : BOOLEAN,                      \* confirmation_required
   seed : SeedDecisions,                   \* seed_decision
   iteration : 0..(MaxIterations + 1),
   best : Scores \union {None},
   active : Snapshots,                     \* active_snapshot_hash
   candidate : Snapshots \union {None},
   provisional : Scores \union {None},
   confirmation : Scores \union {None},
   provisionalManifest : Manifests \union {None},
   gatePhase : GatePhases,
   current : Manifests \union {None},      \* current_manifest_hash
   currentPhase : RunPhases,
   consumed : Seq([manifest : Manifests, by : Uses]),
   route : Routes \union {"none"},
   step : DeliverySteps,                   \* validated_step
   prepared : SUBSET TestPhases,
   tests : [TestPhases -> Manifests \union {None}],  \* test_manifests
   ledger : Seq([delivery : Deliveries, route : Routes]),
   last : Operations \union {"none"}]      \* operation of the last history event

\* A new domain runs with the empty snapshot.
Init ==
  \E confirm \in BOOLEAN, empty \in Snapshots :
    dom = [state |-> "UNINITIALIZED", confirm |-> confirm, seed |-> "none",
           iteration |-> 0, best |-> None, active |-> empty, candidate |-> None,
           provisional |-> None, confirmation |-> None,
           provisionalManifest |-> None, gatePhase |-> "none",
           current |-> None, currentPhase |-> "none", consumed |-> <<>>,
           route |-> "none", step |-> "none", prepared |-> {},
           tests |-> [ph \in TestPhases |-> None], ledger |-> <<>>, last |-> "none"]

At(states) == dom.state \in states

\* Every changed state appends its operation to the history.
Become(operation, d) == dom' = [d EXCEPT !.last = operation]

ConsumedIn(d) == {d.consumed[i].manifest : i \in 1..Len(d.consumed)}

Consume(d, m, by) ==
  [d EXCEPT !.consumed = Append(@, [manifest |-> m, by |-> by])]

\* Faulty: a spent manifest is evidence again.
UnspentUnchecked(m) == TRUE

\* The refusal _consume_manifest and _record_current_manifest share.
Unspent(m) == m \notin ConsumedIn(dom)

\* The current manifest is of one of these phases and was never consumed.
Owns(phases) ==
  /\ dom.current # None /\ dom.currentPhase \in phases
  /\ Unspent(dom.current)

\* Faulty: the last iteration is not the last; the last iteration is not begun.
FinishedLate(score, iteration) == score = Perfect \/ iteration > MaxIterations + 1
FinishedEarly(score, iteration) == score = Perfect \/ iteration \geq MaxIterations

Finished(score, iteration) == score = Perfect \/ iteration > MaxIterations

\* _advance_iteration: the candidate is settled; a perfect score ends the domain.
Advance(d) ==
  LET next == IF d.best = Perfect THEN d.iteration ELSE d.iteration + 1
  IN  [d EXCEPT
        !.state = IF Finished(d.best, next) THEN "DONE" ELSE "NEEDS_TRAIN_RUN",
        !.iteration = next,
        !.candidate = None, !.provisional = None, !.confirmation = None,
        !.provisionalManifest = None, !.gatePhase = "none",
        !.current = None, !.currentPhase = "none"]

-----------------------------------------------------------------------------
(***************************************************************************)
(* From the empty domain to the baseline.                                  *)
(***************************************************************************)

InitDomain ==
  /\ At({"UNINITIALIZED"})
  /\ Become("init", [dom EXCEPT !.state = "NEEDS_OPTIONAL_SEED"])

SeedObservations ==
  /\ At({"NEEDS_OPTIONAL_SEED"})
  /\ Become("seed-observations",
            [dom EXCEPT !.state = "NEEDS_BASELINE_RUN", !.seed = "seeded"])

SkipSeed ==
  /\ At({"NEEDS_OPTIONAL_SEED"})
  /\ Become("skip-seed", [dom EXCEPT !.state = "NEEDS_BASELINE_RUN", !.seed = "skipped"])

RollbackSeed ==
  /\ At({"NEEDS_BASELINE_RUN"})
  /\ dom.seed = "seeded"
  /\ Become("rollback-seed",
            [dom EXCEPT !.state = "NEEDS_OPTIONAL_SEED", !.seed = "none"])

FinalizeBaseline(m, score, snapshot) ==
  /\ At({"NEEDS_BASELINE_RUN"})
  /\ Unspent(m)
  /\ Become("baseline-finalize",
            Consume([dom EXCEPT !.best = score, !.active = snapshot, !.iteration = 1,
                                !.state = IF score = Perfect THEN "DONE" ELSE "NEEDS_TRAIN_RUN"],
                    m, "baseline-finalize"))

-----------------------------------------------------------------------------
(***************************************************************************)
(* One iteration: train, wiki, proposal.                                   *)
(***************************************************************************)

\* A valid manifest becomes the current one of its phase.
Own(d, m, phase) == [d EXCEPT !.current = m, !.currentPhase = phase]

IngestTrain(m) ==
  /\ At({"NEEDS_TRAIN_RUN"})
  /\ Unspent(m)
  /\ Become("train-ingest", [Own(dom, m, "train") EXCEPT !.state = "NEEDS_WIKI"])

ApplyWiki ==
  /\ At({"NEEDS_WIKI"})
  /\ Owns({"train"})
  /\ Become("apply-wiki",
            Consume([dom EXCEPT !.state = "NEEDS_PROPOSAL",
                                !.current = None, !.currentPhase = "none"],
                    dom.current, "apply-wiki"))

ProposeChange(snapshot) ==
  /\ At({"NEEDS_PROPOSAL"})
  /\ Become("apply-proposal-change",
            [dom EXCEPT !.state = "NEEDS_VAL_RUN", !.candidate = snapshot])

ProposeNothing ==
  /\ At({"NEEDS_PROPOSAL"})
  /\ Become("apply-proposal-no-action", Advance(dom))

-----------------------------------------------------------------------------
(***************************************************************************)
(* The candidate: validation, gate, confirmation, gate.                    *)
(***************************************************************************)

IngestVal(m, score) ==
  /\ At({"NEEDS_VAL_RUN"})
  /\ Unspent(m)
  /\ Become("val-ingest",
            [Own(dom, m, "val") EXCEPT
               !.state = "NEEDS_GATE", !.provisional = score, !.gatePhase = "validation"])

IngestConfirm(m, score) ==
  /\ At({"NEEDS_VAL_CONFIRM"})
  /\ Unspent(m)
  /\ Become("confirm-ingest",
            [Own(dom, m, "val_confirm") EXCEPT
               !.state = "NEEDS_GATE", !.confirmation = score, !.gatePhase = "confirmation"])

Judged == IF dom.gatePhase = "confirmation" THEN dom.confirmation ELSE dom.provisional

\* Faulty: a tie wins.
TieWins == Judged \geq dom.best

\* The gate asks for a strictly better score than the best one so far.
StrictWin == Judged > dom.best

Gated(phase) ==
  /\ At({"NEEDS_GATE"})
  /\ dom.best # None /\ Judged # None
  /\ dom.gatePhase = phase
  /\ StrictWin

Promote(d, score) == Advance([d EXCEPT !.best = score, !.active = d.candidate])

AcceptOnValidation ==
  /\ Gated("validation")
  /\ ~dom.confirm
  /\ Owns({"val"}) /\ dom.candidate # None
  /\ Become("gate",
            Promote(Consume(dom, dom.current, "gate-validation"), dom.provisional))

AskConfirmation ==
  /\ Gated("validation")
  /\ dom.confirm
  /\ Owns({"val"})
  /\ Become("gate",
            Consume([dom EXCEPT !.state = "NEEDS_VAL_CONFIRM",
                                !.provisionalManifest = dom.current,
                                !.current = None, !.currentPhase = "none"],
                    dom.current, "gate-validation"))

\* Faulty: the confirmation replaces the score it should only confirm.
Confirmed(provisional, confirmation) == confirmation

LowerOf(x, y) == IF x < y THEN x ELSE y

AcceptOnConfirmation ==
  /\ Gated("confirmation")
  /\ Owns({"val_confirm"}) /\ dom.candidate # None
  /\ dom.provisionalManifest # None /\ dom.provisional # None
  /\ Become("gate",
            Promote(Consume(dom, dom.current, "gate-confirmation"),
                    LowerOf(dom.provisional, dom.confirmation)))

Reject ==
  /\ At({"NEEDS_GATE"})
  /\ dom.best # None /\ Judged # None
  /\ ~StrictWin
  /\ Owns({"val", "val_confirm"})
  /\ Become("gate",
            Advance(Consume(dom, dom.current,
                            IF dom.gatePhase = "validation" THEN "gate-validation-reject"
                                                            ELSE "gate-confirmation-reject")))

Gate == AcceptOnValidation \/ AskConfirmation \/ AcceptOnConfirmation \/ Reject

Abandon ==
  /\ At(Candidate)
  /\ dom.candidate # None
  /\ dom.current # None => Owns({"val", "val_confirm"})
  /\ Become("abandon",
            Advance(IF dom.current = None THEN dom
                                          ELSE Consume(dom, dom.current, "abandon")))

Resettable == {"NEEDS_BASELINE_RUN", "NEEDS_TRAIN_RUN", "NEEDS_WIKI", "NEEDS_VAL_RUN",
               "NEEDS_VAL_CONFIRM", "DONE"}

\* Faulty: the manifest that was reset is still the current one.
ResetKeepsManifest ==
  /\ At(Resettable)
  /\ Become("reset-manifest",
            [dom EXCEPT !.state = IF @ = "NEEDS_WIKI" THEN "NEEDS_TRAIN_RUN" ELSE @])

(***************************************************************************)
(* reset-manifest drops the current manifest; from NEEDS_WIKI the train    *)
(* run is due again.                                                       *)
(***************************************************************************)
ResetManifest ==
  /\ At(Resettable)
  /\ Become("reset-manifest",
            [dom EXCEPT !.state = IF @ = "NEEDS_WIKI" THEN "NEEDS_TRAIN_RUN" ELSE @,
                        !.current = None, !.currentPhase = "none"])

-----------------------------------------------------------------------------
(***************************************************************************)
(* Delivery.                                                               *)
(***************************************************************************)

PrepareTest(phase) ==
  /\ At({"DONE"})
  /\ dom.route # "untested"
  /\ dom.tests[phase] = None
  /\ phase \notin dom.prepared
  /\ Become("test-prepare",
            [dom EXCEPT !.route = "validated", !.step = "prepared",
                        !.prepared = @ \union {phase}])

IngestTest(phase, m) ==
  /\ At({"DONE"})
  /\ dom.route = "validated" /\ phase \in dom.prepared
  /\ dom.tests[phase] = None
  /\ LET tests == [dom.tests EXCEPT ![phase] = m]
     IN  Become("test-ingest",
                [dom EXCEPT
                   !.tests = tests,
                   !.step = IF None \in {tests[ph] : ph \in TestPhases}
                            THEN "prepared" ELSE "ingested"])

Latched(d, delivery, route) ==
  [d EXCEPT !.ledger = Append(@, [delivery |-> delivery, route |-> route])]

Export(delivery) ==
  /\ At({"DONE"})
  /\ dom.route = "validated" /\ dom.step = "ingested"
  /\ LET base == dom.tests["test-baseline"]  final == dom.tests["test-final"]
     IN  /\ base # None /\ final # None /\ base # final
         /\ Unspent(base) /\ Unspent(final)
         /\ Become("export",
                   Latched([Consume(Consume(dom, base, "export"), final, "export")
                              EXCEPT !.step = "exported"],
                           delivery, "validated"))

\* Faulty: no look at the route taken before.
PackageRegardless(delivery) ==
  /\ At({"DONE"})
  /\ Become("package-untested", Latched([dom EXCEPT !.route = "untested"], delivery, "untested"))

PackageUntested(delivery) ==
  /\ At({"DONE"})
  /\ dom.route = "none"
  /\ dom.prepared = {} /\ \A ph \in TestPhases : dom.tests[ph] = None
  /\ Become("package-untested", Latched([dom EXCEPT !.route = "untested"], delivery, "untested"))

-----------------------------------------------------------------------------
Found == InitDomain \/ SeedObservations \/ SkipSeed \/ RollbackSeed

Ingest(m) ==
  \/ \E score \in Scores :
       \/ \E snapshot \in Snapshots : FinalizeBaseline(m, score, snapshot)
       \/ IngestVal(m, score) \/ IngestConfirm(m, score)
  \/ IngestTrain(m)
  \/ \E phase \in TestPhases : IngestTest(phase, m)

Evolve ==
  \/ ApplyWiki \/ ProposeNothing \/ Gate \/ Abandon
  \/ \E snapshot \in Snapshots : ProposeChange(snapshot)

Deliver ==
  \/ \E phase \in TestPhases : PrepareTest(phase)
  \/ \E delivery \in Deliveries : Export(delivery) \/ PackageUntested(delivery)

Next == Found \/ (\E m \in Manifests : Ingest(m)) \/ Evolve \/ ResetManifest \/ Deliver

Spec == Init /\ [][Next]_dom

-----------------------------------------------------------------------------
(***************************************************************************)
(* Properties.                                                             *)
(***************************************************************************)

\* The state holds a value of its kind in every field.
TypeOK == dom \in DomainState

(***************************************************************************)
(* No manifest counts as evidence twice, whatever operation used it first: *)
(* the same validation run cannot be both the provisional score and its    *)
(* confirmation, nor can one test run stand for baseline and final.        *)
(***************************************************************************)
ConsumedOnce ==
  \A i, j \in 1..Len(dom.consumed) :
    dom.consumed[i].manifest = dom.consumed[j].manifest => i = j

(***************************************************************************)
(* Nothing of a settled candidate survives into the next iteration: scores *)
(* and manifests of a candidate exist only while it is being judged, and   *)
(* each stage knows exactly the evidence of the stages before it.          *)
(***************************************************************************)
CandidateScope ==
  /\ dom.candidate # None <=> At(Candidate)
  /\ dom.provisional # None <=> dom.gatePhase # "none"
  /\ dom.confirmation # None <=> dom.gatePhase = "confirmation"
  /\ dom.gatePhase # "none" <=> At({"NEEDS_GATE", "NEEDS_VAL_CONFIRM"})
  /\ dom.provisionalManifest # None <=>
       At({"NEEDS_VAL_CONFIRM"}) \/ dom.gatePhase = "confirmation"
  /\ dom.current # None <=> At({"NEEDS_WIKI", "NEEDS_GATE"})

(***************************************************************************)
(* A candidate that reaches confirmation has beaten the best score once,   *)
(* with a manifest that is spent, in a domain that asks for confirmation.  *)
(***************************************************************************)
ConfirmationEarned ==
  At({"NEEDS_VAL_CONFIRM"}) \/ dom.gatePhase = "confirmation" =>
    /\ dom.confirm
    /\ dom.best # None /\ dom.provisional > dom.best
    /\ \E i \in 1..Len(dom.consumed) :
         dom.consumed[i] = [manifest |-> dom.provisionalManifest, by |-> "gate-validation"]

(***************************************************************************)
(* The evolution is over exactly when the best score is perfect or the     *)
(* iterations are used up; the iteration number never runs ahead.          *)
(***************************************************************************)
StopsInTime ==
  /\ At(BeforeBaseline) <=> dom.iteration = 0
  /\ At(BeforeBaseline) <=> dom.best = None
  /\ At({"DONE"}) <=> dom.best = Perfect \/ dom.iteration > MaxIterations

(***************************************************************************)
(* One delivery along one route.  An untested package leaves no test       *)
(* evidence behind, and an export has spent both test manifests.           *)
(***************************************************************************)
OneDelivery ==
  /\ Len(dom.ledger) =
       IF dom.route = "untested" \/ dom.step = "exported" THEN 1 ELSE 0
  /\ \A i \in 1..Len(dom.ledger) : dom.ledger[i].route = dom.route
  /\ dom.route # "validated" =>
       dom.prepared = {} /\ dom.step = "none" /\ \A ph \in TestPhases : dom.tests[ph] = None
  /\ dom.step \in {"ingested", "exported"} => \A ph \in TestPhases : dom.tests[ph] # None
  /\ dom.step = "exported" =>
       \A ph \in TestPhases : \E i \in 1..Len(dom.consumed) :
         dom.consumed[i] = [manifest |-> dom.tests[ph], by |-> "export"]

(***************************************************************************)
(* After the baseline the active snapshot and the best score change only   *)
(* together and only by promotion: the candidate becomes active, the score *)
(* rises strictly, it exceeds no score the candidate was judged by, and    *)
(* when confirmation is required two different manifests stand behind it.  *)
(***************************************************************************)
PromotedOnEvidence ==
  [][dom.best # None /\ (dom'.best # dom.best \/ dom'.active # dom.active) =>
       /\ dom'.best > dom.best
       /\ dom'.active = dom.candidate
       /\ dom.provisional \geq dom'.best
       /\ dom.confirm => /\ dom.confirmation \geq dom'.best
                         /\ dom.provisionalManifest \in ConsumedIn(dom) \ {dom.current}
       /\ dom.current \in ConsumedIn(dom')]_dom

\* The inductive invariant behind the safety properties.
LifecycleInv ==
  /\ TypeOK /\ ConsumedOnce /\ CandidateScope /\ ConfirmationEarned
  /\ StopsInTime /\ OneDelivery
=============================================================================
