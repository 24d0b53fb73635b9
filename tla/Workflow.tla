------------------------------ MODULE Workflow ------------------------------
(***************************************************************************)
(* EvolutionWorkflow (workflow.py): how the commands of one domain read    *)
(* and write its evidence files around the lifecycle.  One task stands for *)
(* a split.                                                                *)
(*                                                                         *)
(* Every command works in two steps.  It reads the state and the files,    *)
(* checks them, and DRAFTS a change: a lifecycle operation (or none, for   *)
(* DomainWorkspace.persist), outputs, and the files it depends on.  Then   *)
(* DomainWorkspace.apply or persist reads the state AGAIN, applies the     *)
(* operation to whatever it finds, and COMMITS one transaction, which      *)
(* binds the drafted files but not the state the draft was made for.  The  *)
(* commit is atomic: module Transaction implements module AtomicStore.     *)
(***************************************************************************)
EXTENDS Integers, Sequences

CONSTANTS
  Clients,        \* processes that run commands on the domain
  Snapshots,      \* SHA-256 identities of skill snapshots
  Empty,          \* the empty snapshot
  Answers,        \* bound: what the runtime may answer in each rollout phase
  Perfect, MaxIterations, None,  \* of Lifecycle
  MaxCorruptions, \* bound: manifests damaged from outside
  Absent, Keep,   \* of Plans
  Invalid,        \* an answer that gets no score; a manifest without one
  Corrupt,        \* a manifest file that cannot be parsed
  Idle            \* no draft

VARIABLES
  dom,        \* DomainState
  file,       \* governed files
  pending,    \* each client's draft
  corruptions \* bound counter

vars == <<dom, file, pending, corruptions>>

Scores == 0..Perfect
Iterations == 1..MaxIterations
Candidates == Snapshots \ {Empty}

-----------------------------------------------------------------------------
(***************************************************************************)
(* Rollout phases and governed files.                                      *)
(***************************************************************************)

Repeated == {"train", "val", "val_confirm"}
Tests == {"test-baseline", "test-final"}
Phases == {"baseline"} \union Repeated \union Tests

\* A run directory: the phase and, for the repeated ones, the iteration.
RunDirs == (Repeated \X Iterations) \union ((Phases \ Repeated) \X {0})

\* Per run directory; per iteration; per domain.
RunFiles == {"job", "execution", "output", "manifest"}
StepFiles == {"trace", "maintainer-input", "maintainer-output",
              "proposer-context", "proposer-output", "candidate"}
DomainFiles == {"seed", "alias", "wiki", "impact"}

In(kind, d) == <<kind, d[1], d[2]>>
Of(kind, k) == <<kind, "step", k>>
The(kind) == <<kind, "domain", 0>>

Paths == {In(kind, d) : kind \in RunFiles, d \in RunDirs}
           \union {Of(kind, k) : kind \in StepFiles, k \in Iterations}
           \union {The(kind) : kind \in DomainFiles}

(***************************************************************************)
(* A manifest's identity: where it belongs, the snapshot the run evaluated *)
(* and the score, Invalid if there is none.                                *)
(***************************************************************************)
Scored(scores) == [phase : Phases, iteration : 0..MaxIterations,
                   snapshot : Snapshots, score : scores]

Outcomes == {"Accepted", "Rejected", "RejectedAfterConfirm", "NoAction", "Abandoned"}
ImpactEntry == [iteration : Iterations, outcome : Outcomes,
                candidate : Snapshots \union {None}, scores : Seq(Scores)]
\* A wiki entry names the train answers its author was shown; None for the seed.
WikiEntry == [iteration : 0..MaxIterations, from : Scores \union {None}]
Context == [wiki : Seq(WikiEntry), impact : Seq(ImpactEntry), active : Snapshots]
CandidateRecord == [candidate : Snapshots, active : Snapshots]

\* What a file of each kind can hold.
Holds(kind) ==
  CASE kind \in {"job", "seed"} -> Snapshots
    [] kind \in {"execution", "output"} -> Scores \union {Invalid}
    [] kind = "manifest" -> Scored(Scores \union {Invalid}) \union {Corrupt}
    [] kind \in {"trace", "maintainer-input", "maintainer-output"} -> Scores
    [] kind \in {"proposer-context", "proposer-output"} -> Context
    [] kind = "candidate" -> CandidateRecord
    [] kind = "alias" -> Iterations
    [] kind = "wiki" -> Seq(WikiEntry)
    [] kind = "impact" -> Seq(ImpactEntry)

Contents == UNION {Holds(q[1]) : q \in Paths}

L == INSTANCE Lifecycle WITH Manifests <- Scored(Scores), Deliveries <- {}
P == INSTANCE Plans
Seqs == INSTANCE SequencesExt

ASSUME WorkflowConstants ==
  /\ L!LifecycleConstants
  /\ Empty \in Snapshots
  /\ MaxCorruptions \in Nat
  /\ \A phase \in Phases : Answers[phase] \subseteq Scores \union {Invalid}

\* What the files of a run directory hold; the markers are none of it.
RunContents == Snapshots \union Scores \union {Invalid, Corrupt}
                 \union Scored(Scores \union {Invalid})

ASSUME WorkflowMarkers ==
  /\ Absent \notin RunContents \union Seq(WikiEntry) \union Seq(ImpactEntry)
  /\ Invalid \notin Scores
  /\ Corrupt \notin Scored(Scores \union {Invalid})
  /\ LET values == RunContents \union {Absent}
     IN  Keep \notin values /\ Keep \notin [before : values, to : values, same : BOOLEAN]

\* Nor is an output that lengthens a history or records a candidate a marker.
ASSUME HistoryMarkers ==
  LET values == Seq(WikiEntry) \union Seq(ImpactEntry) \union CandidateRecord \union {Absent}
  IN  /\ Absent \notin CandidateRecord
      /\ Keep \notin [before : values, to : values, same : BOOLEAN]

Init ==
  /\ L!Init
  /\ dom.active = Empty
  /\ file = [q \in Paths |-> Absent]
  /\ pending = [c \in Clients |-> Idle]
  /\ corruptions = 0

\* The manifest at q was parsed; it carries a score.
Readable(q) == file[q] \notin {Absent, Corrupt}
Valid(q) == Readable(q) /\ file[q].score # Invalid

\* The history at q, empty if the file does not exist.
History(q) == IF file[q] = Absent THEN <<>> ELSE file[q]

-----------------------------------------------------------------------------
(***************************************************************************)
(* Drafts.                                                                 *)
(***************************************************************************)

New(x) == [before |-> Absent, to |-> x, same |-> FALSE]
Kept(x) == [before |-> Absent, to |-> x, same |-> TRUE]  \* allow_existing_identical
Replace(q, x) == [before |-> file[q], to |-> x, same |-> FALSE]
Delete(qs) == [q \in qs |-> [before |-> file[q], to |-> Absent, same |-> FALSE]]

Nothing == [q \in {} |-> Keep]
Only(q, x) == [p \in {q} |-> x]
f ++ g == [q \in DOMAIN f \union DOMAIN g |-> IF q \in DOMAIN f THEN f[q] ELSE g[q]]

\* The files among these that exist.
Present(qs) == {q \in qs : file[q] # Absent}

(***************************************************************************)
(* The operation op with argument arg, the outputs outs, and the files the *)
(* change depends on, as they are now.                                     *)
(***************************************************************************)
Draft(c, op, arg, outs, deps) ==
  /\ pending[c] = Idle
  /\ pending' = [pending EXCEPT ![c] =
       [op |-> op, arg |-> arg,
        outs |-> [q \in Paths |-> IF q \in DOMAIN outs THEN outs[q] ELSE Keep],
        reads |-> [q \in Paths |-> IF q \in deps THEN file[q] ELSE Keep]]]
  /\ UNCHANGED <<dom, file, corruptions>>

Entry(outcome, candidate, scores) ==
  [iteration |-> dom.iteration, outcome |-> outcome, candidate |-> candidate, scores |-> scores]

\* Faulty: the entry replaces the history.
RecordedAlone(outcome, candidate, scores) ==
  Only(The("impact"), Replace(The("impact"), <<Entry(outcome, candidate, scores)>>))

\* The entry joins the impact history.
Recorded(outcome, candidate, scores) ==
  Only(The("impact"),
       Replace(The("impact"),
               Append(History(The("impact")), Entry(outcome, candidate, scores))))

-----------------------------------------------------------------------------
(***************************************************************************)
(* The optional seed.                                                      *)
(***************************************************************************)

SkipSeed(c) ==
  /\ dom.state = "NEEDS_OPTIONAL_SEED"
  /\ Draft(c, "skip-seed", None, Nothing, {})

SeededWiki == <<[iteration |-> 0, from |-> None]>>

SeedObservations(c) ==
  /\ dom.state = "NEEDS_OPTIONAL_SEED"
  /\ file[The("wiki")] = Absent
  /\ Draft(c, "seed-observations", None,
           Only(The("seed"), New(Empty)) ++ Only(The("wiki"), New(SeededWiki)), {})

\* Refused once the baseline ran, or when the seeded wiki is not intact.
RollbackSeed(c) ==
  /\ dom.state = "NEEDS_BASELINE_RUN" /\ dom.seed = "seeded"
  /\ file[In("manifest", <<"baseline", 0>>)] = Absent
  /\ file[The("seed")] # Absent /\ file[The("wiki")] = SeededWiki
  /\ Draft(c, "rollback-seed", None, Delete({The("seed"), The("wiki")}), {})

-----------------------------------------------------------------------------
(***************************************************************************)
(* Rollouts: prepare, record, ingest.                                      *)
(***************************************************************************)

\* _phase_context: the state a phase runs in, its directory and its snapshot.
RunsIn(phase) ==
  CASE phase = "baseline" -> "NEEDS_BASELINE_RUN"
    [] phase = "train" -> "NEEDS_TRAIN_RUN"
    [] phase = "val" -> "NEEDS_VAL_RUN"
    [] phase = "val_confirm" -> "NEEDS_VAL_CONFIRM"
    [] phase \in Tests -> "DONE"

AfterIngest(phase) ==
  CASE phase = "train" -> {"NEEDS_WIKI"}
    [] phase \in {"val", "val_confirm"} -> {"NEEDS_GATE"}
    [] OTHER -> {}

Dir(phase) == <<phase, IF phase \in Repeated THEN dom.iteration ELSE 0>>

\* Faulty: a validation run evaluates the active snapshot.
PointerActive(phase) ==
  IF phase \in {"baseline", "test-baseline"} THEN Empty ELSE dom.active

Pointer(phase) ==
  CASE phase \in {"baseline", "test-baseline"} -> Empty
    [] phase \in {"val", "val_confirm"} -> dom.candidate
    [] OTHER -> dom.active

\* Prompts and jobs for the phase, bound to its snapshot.
PrepareRollout(c, phase) ==
  /\ dom.state = RunsIn(phase)
  /\ Draft(c, IF phase \in Tests THEN phase ELSE "persist", None,
           Only(In("job", Dir(phase)), Kept(Pointer(phase))), {})

\* Faulty: the last capture wins.
RecordAgain(c, phase, answer) ==
  LET d == Dir(phase)
  IN  /\ dom.state \in {RunsIn(phase)} \union AfterIngest(phase)
      /\ file[In("job", d)] # Absent
      /\ Draft(c, "persist", None,
               [q \in {In("execution", d), In("output", d)} |-> Replace(q, answer)],
               {In("job", d)})

(***************************************************************************)
(* An answer for a prepared job.  One output is never replaced by another, *)
(* except right after a reset took the execution record away.              *)
(***************************************************************************)
RecordExecution(c, phase, answer) ==
  LET job == In("job", Dir(phase))
      execution == In("execution", Dir(phase))
      output == In("output", Dir(phase))
      replacing == file[execution] = Absent /\ file[output] # Absent
  IN  /\ dom.state \in {RunsIn(phase)} \union AfterIngest(phase)
      /\ file[job] # Absent
      /\ replacing => dom.last = "reset-manifest"
      /\ Draft(c, "persist", None,
               Only(execution, Kept(answer))
                 ++ Only(output, [Kept(answer) EXCEPT !.before =
                                    IF replacing THEN file[output] ELSE Absent]),
               {job})

\* Faulty: an invalid run leaves raw evidence too.
RawOfAny(m) ==
  IF m.phase # "train" THEN Nothing
  ELSE Only(Of("trace", m.iteration), New(m.score))
         ++ Only(The("alias"), Replace(The("alias"), m.iteration))

\* The raw evidence of a valid train run: the trace and the alias to it.
RawEvidence(m) ==
  IF m.phase # "train" \/ m.score = Invalid THEN Nothing
  ELSE Only(Of("trace", m.iteration), New(m.score))
         ++ Only(The("alias"), Replace(The("alias"), m.iteration))

(***************************************************************************)
(* The manifest of the recorded answer, with its raw evidence.  Other      *)
(* phases than the baseline hand the manifest to the lifecycle.            *)
(***************************************************************************)
IngestRollout(c, phase) ==
  LET d == Dir(phase)
      answer == file[In("execution", d)]
      m == [phase |-> phase, iteration |-> d[2], snapshot |-> Pointer(phase),
            score |-> IF file[In("job", d)] = Pointer(phase) THEN answer ELSE Invalid]
  IN  /\ dom.state = RunsIn(phase)
      /\ file[In("manifest", d)] = Absent
      /\ \A kind \in {"job", "execution", "output"} : file[In(kind, d)] # Absent
      /\ file[In("output", d)] = answer
      /\ Draft(c, IF phase = "baseline" THEN "persist" ELSE "ingest", m,
               Only(In("manifest", d), New(m)) ++ RawEvidence(m),
               {In(kind, d) : kind \in {"job", "execution", "output"}})

FinalizeBaseline(c) ==
  LET manifest == In("manifest", <<"baseline", 0>>)
  IN  /\ dom.state = "NEEDS_BASELINE_RUN"
      /\ Valid(manifest)
      /\ Draft(c, "baseline-finalize", file[manifest], Nothing, {manifest})

(***************************************************************************)
(* reset-manifest: an invalid or unparseable manifest of the phase that is *)
(* due goes, with its execution record and a train run's raw evidence; the *)
(* output stays.  In DONE the phase is the one prepared test whose         *)
(* manifest is on disk and not ingested.                                   *)
(***************************************************************************)
ResetPhase(phase) ==
  IF dom.state = "DONE"
  THEN {phase} = {ph \in dom.prepared : /\ dom.tests[ph] = None
                                        /\ file[In("manifest", <<ph, 0>>)] # Absent}
  ELSE dom.state \in {RunsIn(phase)} \union (AfterIngest(phase) \ {"NEEDS_GATE"})

ResetManifest(c, phase) ==
  LET d == Dir(phase)
      manifest == In("manifest", d)
      owned == {manifest, In("execution", d)}
                 \union IF phase # "train" THEN {}
                        ELSE {Of("trace", d[2]), The("alias")}
  IN  /\ ResetPhase(phase)
      /\ file[manifest] # Absent /\ ~Valid(manifest)
      /\ Draft(c, "reset-manifest", None, Delete(Present(owned)), Present(owned))

-----------------------------------------------------------------------------
(***************************************************************************)
(* Wiki and proposal.                                                      *)
(***************************************************************************)

TrainRun == In("manifest", <<"train", dom.iteration>>)
TraceMatches == file[Of("trace", dom.iteration)] = file[TrainRun].score

\* The traces of the current train manifest become the maintainer's input.
SampleTrain(c) ==
  /\ dom.state = "NEEDS_WIKI" /\ dom.currentPhase = "train"
  /\ Valid(TrainRun) /\ file[TrainRun] = dom.current
  /\ TraceMatches
  /\ Draft(c, "persist", None,
           Only(Of("maintainer-input", dom.iteration), Kept(file[Of("trace", dom.iteration)])),
           {TrainRun, Of("trace", dom.iteration)} \union Present({The("wiki")}))

\* The maintainer's answer to that input; any train manifest file will do.
ApplyWiki(c) ==
  LET input == Of("maintainer-input", dom.iteration)
      entry == [iteration |-> dom.iteration, from |-> file[input]]
  IN  /\ dom.state = "NEEDS_WIKI"
      /\ file[input] # Absent /\ file[TrainRun] # Absent
      /\ Draft(c, "apply-wiki", None,
               Only(Of("maintainer-output", dom.iteration), New(file[input]))
                 ++ Only(The("wiki"),
                         Replace(The("wiki"), Append(History(The("wiki")), entry))),
               {input, TrainRun} \union Present({The("wiki")}))

\* Faulty: the context may be built while the wiki is still due.
ContextBeforeWiki(c) ==
  /\ dom.state \in {"NEEDS_WIKI", "NEEDS_PROPOSAL"}
  /\ Readable(TrainRun) /\ TraceMatches
  /\ Draft(c, "persist", None,
           Only(Of("proposer-context", dom.iteration),
                Kept([wiki |-> History(The("wiki")), impact |-> History(The("impact")),
                      active |-> dom.active])),
           {TrainRun} \union Present({The("wiki"), The("impact")}))

\* What the proposer is shown: the consumed train run, wiki, impact history.
ProposerContext(c) ==
  LET trace == Of("trace", dom.iteration)
  IN  /\ dom.state = "NEEDS_PROPOSAL"
      /\ Readable(TrainRun)
      /\ [manifest |-> file[TrainRun], by |-> "apply-wiki"]
           \in {dom.consumed[i] : i \in 1..Len(dom.consumed)}
      /\ TraceMatches
      /\ Draft(c, "persist", None,
               Only(Of("proposer-context", dom.iteration),
                    Kept([wiki |-> History(The("wiki")), impact |-> History(The("impact")),
                          active |-> dom.active])),
               {TrainRun, trace} \union Present({The("wiki"), The("impact")}))

\* A proposal answers the context on file: nothing to do, or a candidate.
Proposed(c, op, candidate, outs) ==
  LET context == Of("proposer-context", dom.iteration)
  IN  /\ dom.state = "NEEDS_PROPOSAL"
      /\ file[context] # Absent
      /\ Draft(c, op, candidate,
               Only(Of("proposer-output", dom.iteration), New(file[context])) ++ outs, {context})

ProposeNothing(c) ==
  Proposed(c, "apply-proposal-no-action", None, Recorded("NoAction", None, <<>>))

ProposeChange(c, candidate) ==
  /\ candidate # dom.active
  /\ Proposed(c, "apply-proposal-change", candidate,
       Only(Of("candidate", dom.iteration), New([candidate |-> candidate, active |-> dom.active])))

-----------------------------------------------------------------------------
(***************************************************************************)
(* The gate.                                                               *)
(***************************************************************************)

CandidateFile == Of("candidate", dom.iteration)

CandidateMatches ==
  file[CandidateFile] = [candidate |-> dom.candidate, active |-> dom.active]

ValRun(phase) == In("manifest", <<phase, dom.iteration>>)

\* Faulty: during confirmation the current manifest is taken for the provisional one.
EvidenceOfCurrent ==
  CASE dom.gatePhase = "validation" -> Only("val", dom.current)
    [] dom.gatePhase = "confirmation" ->
         Only("val", dom.provisionalManifest) ++ Only("val_confirm", dom.current)
    [] OTHER -> Nothing

\* _validation_dependency_bundle: the manifests the state names, by phase.
Evidence ==
  CASE dom.state = "NEEDS_VAL_CONFIRM" -> Only("val", dom.provisionalManifest)
    [] dom.state # "NEEDS_VAL_CONFIRM" /\ dom.gatePhase = "validation" -> Only("val", dom.current)
    [] dom.state # "NEEDS_VAL_CONFIRM" /\ dom.gatePhase = "confirmation" ->
         Only("val", dom.provisionalManifest) ++ Only("val_confirm", dom.current)
    [] OTHER -> Nothing

EvidenceMatches ==
  \A phase \in DOMAIN Evidence :
    Readable(ValRun(phase)) /\ file[ValRun(phase)] = Evidence[phase]

Judgement == {CandidateFile} \union {ValRun(phase) : phase \in DOMAIN Evidence}

\* Faulty: a win in validation is recorded although it has to be confirmed.
VerdictAtOnce ==
  LET validated == dom.gatePhase = "validation"
      scores == IF validated THEN <<dom.provisional>>
                             ELSE <<dom.provisional, dom.confirmation>>
  IN  IF L!StrictWin THEN Recorded("Accepted", dom.candidate, scores)
      ELSE Recorded(IF validated THEN "Rejected" ELSE "RejectedAfterConfirm",
                    dom.candidate, scores)

\* What the gate writes: nothing while the candidate still has to be confirmed.
Verdict ==
  LET validated == dom.gatePhase = "validation"
      scores == IF validated THEN <<dom.provisional>>
                             ELSE <<dom.provisional, dom.confirmation>>
  IN  CASE L!StrictWin /\ validated /\ dom.confirm -> Nothing
        [] L!StrictWin /\ ~(validated /\ dom.confirm) ->
             Recorded("Accepted", dom.candidate, scores)
        [] ~L!StrictWin ->
             Recorded(IF validated THEN "Rejected" ELSE "RejectedAfterConfirm",
                      dom.candidate, scores)

\* Faulty: the gate takes the state's word for the evidence.
GateTrusting(c) ==
  /\ dom.state = "NEEDS_GATE"
  /\ CandidateMatches
  /\ Draft(c, "gate", None, Verdict, {CandidateFile})

Gate(c) ==
  /\ dom.state = "NEEDS_GATE"
  /\ CandidateMatches
  /\ dom.currentPhase = IF dom.gatePhase = "validation" THEN "val" ELSE "val_confirm"
  /\ EvidenceMatches
  /\ Draft(c, "gate", None, Verdict, Judgement)

\* An invalid manifest of the run that is due.
Unusable == Present({ValRun(phase) : phase \in {ph \in {"val", "val_confirm"} :
                                                  dom.state = RunsIn(ph)}})

CanAbandon ==
  /\ dom.state \in L!Candidate
  /\ CandidateMatches
  /\ \A q \in Unusable : ~Valid(q)
  /\ EvidenceMatches

\* Faulty: the invalid manifest stays.
AbandonInPlace(c) ==
  /\ CanAbandon
  /\ Draft(c, "abandon", None, Recorded("Abandoned", dom.candidate, <<>>), Judgement)

\* The candidate goes, and the unusable manifest with it.
Abandon(c) ==
  /\ CanAbandon
  /\ Draft(c, "abandon", None,
           Recorded("Abandoned", dom.candidate, <<>>) ++ Delete(Unusable), Judgement)

-----------------------------------------------------------------------------
(***************************************************************************)
(* The commit.                                                             *)
(***************************************************************************)

\* A valid manifest is evidence; an invalid one is refused or changes nothing.
Ingested(m) ==
  IF m.score = Invalid
  THEN /\ dom.state = RunsIn(m.phase)
       /\ m.phase \in Tests => m.phase \in dom.prepared /\ dom.tests[m.phase] = None
       /\ UNCHANGED dom
  ELSE \/ m.phase = "train" /\ L!IngestTrain(m)
       \/ m.phase = "val" /\ L!IngestVal(m, m.score)
       \/ m.phase = "val_confirm" /\ L!IngestConfirm(m, m.score)
       \/ m.phase \in Tests /\ L!IngestTest(m.phase, m)

\* test-prepare; to repeat it changes nothing.
PreparedTest(phase) ==
  \/ L!PrepareTest(phase)
  \/ /\ dom.state = "DONE" /\ phase \in dom.prepared /\ dom.tests[phase] = None
     /\ UNCHANGED dom

\* For a test phase the operation is its test-prepare.
Transition(op, arg) ==
  \/ op = "persist" /\ UNCHANGED dom
  \/ op = "skip-seed" /\ L!SkipSeed
  \/ op = "seed-observations" /\ L!SeedObservations
  \/ op = "rollback-seed" /\ L!RollbackSeed
  \/ op = "baseline-finalize" /\ L!FinalizeBaseline(arg, arg.score, Empty)
  \/ op = "ingest" /\ Ingested(arg)
  \/ op = "apply-wiki" /\ L!ApplyWiki
  \/ op = "apply-proposal-no-action" /\ L!ProposeNothing
  \/ op = "apply-proposal-change" /\ L!ProposeChange(arg)
  \/ op = "gate" /\ L!Gate
  \/ op = "abandon" /\ L!Abandon
  \/ op = "reset-manifest" /\ L!ResetManifest
  \/ op \in Tests /\ PreparedTest(op)

\* Faulty: the commit takes the draft's word for the files.
CommitUnchecked(c) ==
  /\ pending[c] # Idle
  /\ Transition(pending[c].op, pending[c].arg)
  /\ file' = P!Overlay(file, pending[c])
  /\ pending' = [pending EXCEPT ![c] = Idle]
  /\ UNCHANGED corruptions

Commit(c) ==
  /\ pending[c] # Idle
  /\ Transition(pending[c].op, pending[c].arg)
  /\ P!Fits(file, pending[c])
  /\ file' = P!Overlay(file, pending[c])
  /\ pending' = [pending EXCEPT ![c] = Idle]
  /\ UNCHANGED corruptions

\* The command dies, or the commit is refused.
GiveUp(c) ==
  /\ pending[c] # Idle
  /\ pending' = [pending EXCEPT ![c] = Idle]
  /\ UNCHANGED <<dom, file, corruptions>>

Initialize == L!InitDomain /\ UNCHANGED <<file, pending, corruptions>>

\* Something outside the engine damages a manifest.
Damage(d) ==
  /\ corruptions < MaxCorruptions
  /\ Readable(In("manifest", d))
  /\ file' = [file EXCEPT ![In("manifest", d)] = Corrupt]
  /\ corruptions' = corruptions + 1
  /\ UNCHANGED <<dom, pending>>

Seed(c) == SkipSeed(c) \/ SeedObservations(c) \/ RollbackSeed(c)

Rollout(c) ==
  \/ \E phase \in Phases :
       \/ PrepareRollout(c, phase) \/ IngestRollout(c, phase) \/ ResetManifest(c, phase)
       \/ \E answer \in Answers[phase] : RecordExecution(c, phase, answer)
  \/ FinalizeBaseline(c)

Evolve(c) ==
  \/ SampleTrain(c) \/ ApplyWiki(c) \/ ProposerContext(c) \/ ProposeNothing(c)
  \/ \E candidate \in Candidates : ProposeChange(c, candidate)
  \/ Gate(c) \/ Abandon(c)

Next ==
  \/ Initialize
  \/ \E c \in Clients : Seed(c) \/ Rollout(c) \/ Evolve(c) \/ Commit(c) \/ GiveUp(c)
  \/ \E d \in RunDirs : Damage(d)

Spec == Init /\ [][Next]_vars

-----------------------------------------------------------------------------
(***************************************************************************)
(* Properties.                                                             *)
(***************************************************************************)

\* The state is a DomainState and every file holds something of its kind.
TypeOK ==
  /\ L!TypeOK
  /\ \A q \in Paths : file[q] \in Holds(q[1]) \union {Absent}
  /\ corruptions \in 0..MaxCorruptions

Consumed == {dom.consumed[i] : i \in 1..Len(dom.consumed)}

\* The run of this phase and iteration on this snapshot scored and was consumed.
Stands(phase, k, snapshot, score, by) ==
  [manifest |-> [phase |-> phase, iteration |-> k, snapshot |-> snapshot, score |-> score],
   by |-> by] \in Consumed

(***************************************************************************)
(* The best score is what consumed runs of the active snapshot itself      *)
(* scored: the baseline run of the empty snapshot, or the validation run   *)
(* of the promoted candidate and, where the domain asks for it, the lower  *)
(* of that and its confirmation.                                           *)
(***************************************************************************)
BestEvidenced ==
  dom.best # None =>
    \/ dom.active = Empty /\ Stands("baseline", 0, Empty, dom.best, "baseline-finalize")
    \/ \E k \in Iterations, score \in Scores :
         /\ Stands("val", k, dom.active, score, "gate-validation")
         /\ IF dom.confirm
            THEN \E again \in Scores :
                   /\ Stands("val_confirm", k, dom.active, again, "gate-confirmation")
                   /\ dom.best = L!LowerOf(score, again)
            ELSE dom.best = score

\* The manifests the state refers to.
Named ==
  ({e.manifest : e \in Consumed} \union {dom.current, dom.provisionalManifest}
     \union {dom.tests[ph] : ph \in Tests}) \ {None}

(***************************************************************************)
(* Evidence the state refers to stays on disk: its manifest (unless it was *)
(* damaged from outside) and the job and the answer it was made from.  No  *)
(* reset, repeated recording or abandonment takes it away.                 *)
(***************************************************************************)
EvidenceKept ==
  \A m \in Named :
    LET d == <<m.phase, m.iteration>>
    IN  /\ file[In("manifest", d)] \in {m, Corrupt}
        /\ file[In("job", d)] = m.snapshot
        /\ file[In("execution", d)] = m.score /\ file[In("output", d)] = m.score

\* The candidate of iteration k, if there was one, is decided.
Settled(k) == k < dom.iteration \/ dom.state = "DONE"

(***************************************************************************)
(* Contract 8.2, abandon: "consume or delete owned manifests".  A manifest *)
(* of a candidate that is decided is consumed evidence.                    *)
(***************************************************************************)
SettledEvidence ==
  \A d \in {"val", "val_confirm"} \X Iterations :
    Settled(d[2]) /\ Readable(In("manifest", d)) =>
      file[In("manifest", d)] \in {e.manifest : e \in Consumed}

Impact == History(The("impact"))
Accepted == {i \in 1..Len(Impact) : Impact[i].outcome = "Accepted"}

\* How many iterations were decided; a perfect baseline leaves nothing to decide.
Decided ==
  IF dom.state = "DONE" /\ dom.best = Perfect /\ dom.active # Empty
  THEN dom.iteration
  ELSE IF dom.iteration = 0 THEN 0 ELSE dom.iteration - 1

(***************************************************************************)
(* The impact history explains the state: one entry per decided iteration, *)
(* in order, and the last accepted one names the active snapshot and the   *)
(* scores behind the best score.  The gate's docstring: "record only       *)
(* terminal outcomes".                                                     *)
(***************************************************************************)
ImpactExplains ==
  /\ Len(Impact) = Decided
  /\ \A i \in 1..Len(Impact) : Impact[i].iteration = i
  /\ dom.active # Empty =>
       \E i \in Accepted :
         /\ \A j \in Accepted : j <= i
         /\ Impact[i].candidate = dom.active
         /\ dom.best \in {Impact[i].scores[n] : n \in 1..Len(Impact[i].scores)}
         /\ \A n \in 1..Len(Impact[i].scores) : dom.best <= Impact[i].scores[n]
  /\ Accepted # {} => dom.active # Empty

(***************************************************************************)
(* Contract 8.3: a rejected candidate rolls back skills only, never the    *)
(* wiki, and the impact history persists.  Both only grow, save for the    *)
(* rollback of a seed no baseline was finalized on.                        *)
(***************************************************************************)
KnowledgeKept ==
  [][/\ Seqs!IsPrefix(History(The("impact")), History(The("impact"))')
     /\ \/ Seqs!IsPrefix(History(The("wiki")), History(The("wiki"))')
        \/ dom.best = None /\ dom'.seed = "none"]_vars

(***************************************************************************)
(* What the proposer was shown is what there is: wiki and impact history   *)
(* do not move between its context and its proposal, and the wiki holds    *)
(* what this iteration taught.                                             *)
(***************************************************************************)
ContextCurrent ==
  LET context == Of("proposer-context", dom.iteration)
      wiki == History(The("wiki"))
  IN  dom.state = "NEEDS_PROPOSAL" /\ file[context] # Absent =>
        /\ file[context] = [wiki |-> wiki, impact |-> Impact, active |-> dom.active]
        /\ wiki[Len(wiki)].iteration = dom.iteration

(***************************************************************************)
(* Contract 8.2 lists abandon for every candidate-bearing state: wherever  *)
(* a candidate is, gate and abandon find the evidence they ask for and the *)
(* candidate can be dropped, unless that evidence was damaged from outside.*)
(***************************************************************************)
AbandonOpen ==
  dom.state \in L!Candidate =>
    CanAbandon \/ \E phase \in DOMAIN Evidence : file[ValRun(phase)] = Corrupt

(***************************************************************************)
(* Contract 8.2, apply-wiki: "sampled input, validated attestation,        *)
(* persistent wiki, consume train".  What the wiki says of an iteration    *)
(* comes from the train run that was consumed for it.                      *)
(***************************************************************************)
WikiFromConsumed ==
  \A k \in Iterations, score \in Scores :
    (\E snapshot \in Snapshots : Stands("train", k, snapshot, score, "apply-wiki")) =>
      [iteration |-> k, from |-> score]
        \in {History(The("wiki"))[i] : i \in 1..Len(History(The("wiki")))}

(***************************************************************************)
(* SP-047: reset retains .out.md "until a corrected capture replaces it".  *)
(* While a phase is due and its output has no execution record, a          *)
(* corrected capture is accepted.                                          *)
(***************************************************************************)
OrphanReplaceable ==
  \A phase \in Phases :
    /\ dom.state = RunsIn(phase)
    /\ file[In("output", Dir(phase))] # Absent
    /\ file[In("execution", Dir(phase))] = Absent
    => dom.last = "reset-manifest"
=============================================================================
