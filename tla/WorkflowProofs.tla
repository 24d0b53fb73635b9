--------------------------- MODULE WorkflowProofs ---------------------------
(***************************************************************************)
(* Workflow implements Lifecycle, its files keep their kinds, its evidence *)
(* stays on disk and its knowledge only grows, for any number of processes *)
(* that commit on states other than the ones they drafted on.              *)
(***************************************************************************)
EXTENDS Workflow, SequenceTheorems, TLAPS

LP == INSTANCE LifecycleProofs WITH Manifests <- Scored(Scores), Deliveries <- {}

LEMMA SameConstants == LP!LifecycleConstants
BY WorkflowConstants DEF LP!LifecycleConstants, L!LifecycleConstants

LEMMA ConstantTypes ==
  /\ Perfect \in Nat \ {0} /\ MaxIterations \in Nat \ {0}
  /\ None \notin Scored(Scores) /\ None \notin Snapshots /\ None \notin Nat
  /\ Empty \in Snapshots /\ Scores \subseteq Nat
BY WorkflowConstants DEF L!LifecycleConstants, Scores

LEMMA SameInit == L!Init => LP!Init
BY DEF L!Init, LP!Init, L!TestPhases, LP!TestPhases

USE DEF L!At, LP!At, L!Become, LP!Become, L!ConsumedIn, LP!ConsumedIn, L!Consume, LP!Consume,
        L!Unspent, LP!Unspent, L!Owns, LP!Owns, L!Own, LP!Own, L!Finished, LP!Finished,
        L!Advance, LP!Advance, L!TestPhases, LP!TestPhases

LEMMA SameFounding ==
  /\ L!InitDomain => LP!InitDomain
  /\ L!SeedObservations => LP!SeedObservations
  /\ L!SkipSeed => LP!SkipSeed
  /\ L!RollbackSeed => LP!RollbackSeed
  /\ L!ResetManifest => LP!ResetManifest
BY DEF L!InitDomain, LP!InitDomain, L!SeedObservations, LP!SeedObservations, L!SkipSeed,
       LP!SkipSeed, L!RollbackSeed, LP!RollbackSeed, L!ResetManifest, LP!ResetManifest,
       L!Resettable, LP!Resettable

LEMMA SameIngest ==
  ASSUME NEW m, NEW score, NEW snapshot, NEW phase
  PROVE  /\ L!FinalizeBaseline(m, score, snapshot) => LP!FinalizeBaseline(m, score, snapshot)
         /\ L!IngestTrain(m) => LP!IngestTrain(m)
         /\ L!IngestVal(m, score) => LP!IngestVal(m, score)
         /\ L!IngestConfirm(m, score) => LP!IngestConfirm(m, score)
         /\ L!IngestTest(phase, m) => LP!IngestTest(phase, m)
         /\ L!PrepareTest(phase) => LP!PrepareTest(phase)
BY DEF L!FinalizeBaseline, LP!FinalizeBaseline, L!IngestTrain, LP!IngestTrain, L!IngestVal,
       LP!IngestVal, L!IngestConfirm, LP!IngestConfirm, L!IngestTest, LP!IngestTest,
       L!PrepareTest, LP!PrepareTest

LEMMA SameEvolve ==
  ASSUME NEW snapshot
  PROVE  /\ L!ApplyWiki => LP!ApplyWiki
         /\ L!ProposeNothing => LP!ProposeNothing
         /\ L!ProposeChange(snapshot) => LP!ProposeChange(snapshot)
         /\ L!Gate => LP!Gate
         /\ L!Abandon => LP!Abandon
<1>1. L!ApplyWiki => LP!ApplyWiki
  BY DEF L!ApplyWiki, LP!ApplyWiki
<1>2. L!ProposeNothing => LP!ProposeNothing
  BY DEF L!ProposeNothing, LP!ProposeNothing
<1>3. L!ProposeChange(snapshot) => LP!ProposeChange(snapshot)
  BY DEF L!ProposeChange, LP!ProposeChange
<1>4. L!Gate => LP!Gate
  BY DEF L!Gate, LP!Gate, L!AcceptOnValidation, LP!AcceptOnValidation, L!AskConfirmation,
         LP!AskConfirmation, L!AcceptOnConfirmation, LP!AcceptOnConfirmation, L!Reject,
         LP!Reject, L!Gated, LP!Gated, L!StrictWin, LP!StrictWin, L!Judged, LP!Judged,
         L!Promote, LP!Promote, L!LowerOf, LP!LowerOf
<1>5. L!Abandon => LP!Abandon
  BY DEF L!Abandon, LP!Abandon, L!Candidate, LP!Candidate
<1>6. QED
  BY <1>1, <1>2, <1>3, <1>4, <1>5

LEMMA SameNext == [L!Next]_dom => [LP!Next]_dom
<1>1. ASSUME NEW m \in Scored(Scores), L!Ingest(m) PROVE LP!Ingest(m)
  BY <1>1, SameIngest DEF L!Ingest, LP!Ingest, L!Scores, LP!Scores
<1>2. L!Found => LP!Found
  BY SameFounding DEF L!Found, LP!Found
<1>3. L!Evolve => LP!Evolve
  BY SameEvolve DEF L!Evolve, LP!Evolve
<1>4. L!Deliver => LP!Deliver
  BY SameIngest DEF L!Deliver, LP!Deliver
<1>5. QED
  BY <1>1, <1>2, <1>3, <1>4, SameFounding DEF L!Next, LP!Next

HIDE DEF L!At, LP!At, L!Become, LP!Become, L!ConsumedIn, LP!ConsumedIn, L!Consume, LP!Consume,
         L!Unspent, LP!Unspent, L!Owns, LP!Owns, L!Own, LP!Own, L!Finished, LP!Finished,
         L!Advance, LP!Advance, L!TestPhases, LP!TestPhases

-----------------------------------------------------------------------------
(***************************************************************************)
(* Types.  A draft carries what its operation takes, and each of its       *)
(* outputs is of the kind of its file.                                     *)
(***************************************************************************)

Typed(outs) == \A q \in DOMAIN outs : outs[q].to \in Holds(q[1]) \union {Absent}

TypedArg(op, arg) ==
  /\ op = "ingest" => arg \in Scored(Scores \union {Invalid})
  /\ op = "baseline-finalize" => arg \in Scored(Scores)
  /\ op = "apply-proposal-change" => arg \in Snapshots

TypedDraft(d) ==
  /\ TypedArg(d.op, d.arg)
  /\ \A q \in Paths : d.outs[q] = Keep \/ d.outs[q].to \in Holds(q[1]) \union {Absent}

TypedFiles == \A q \in Paths : file[q] \in Holds(q[1]) \union {Absent}

TypedInv ==
  /\ DOMAIN pending = Clients /\ DOMAIN file = Paths
  /\ TypedFiles
  /\ corruptions \in 0..MaxCorruptions
  /\ \A c \in Clients : pending[c] # Idle => TypedDraft(pending[c])

LEMMA KindOf ==
  ASSUME NEW kind, NEW d, NEW k
  PROVE  In(kind, d)[1] = kind /\ Of(kind, k)[1] = kind /\ The(kind)[1] = kind
BY DEF In, Of, The

LEMMA HoldsWhat ==
  /\ Holds("job") = Snapshots /\ Holds("seed") = Snapshots
  /\ Holds("execution") = Scores \union {Invalid} /\ Holds("output") = Scores \union {Invalid}
  /\ Holds("manifest") = Scored(Scores \union {Invalid}) \union {Corrupt}
  /\ Holds("trace") = Scores
  /\ Holds("maintainer-input") = Scores /\ Holds("maintainer-output") = Scores
  /\ Holds("proposer-context") = Context /\ Holds("proposer-output") = Context
  /\ Holds("candidate") = CandidateRecord /\ Holds("alias") = Iterations
  /\ Holds("wiki") = Seq(WikiEntry) /\ Holds("impact") = Seq(ImpactEntry)
BY DEF Holds

\* Outputs are built from single ones and put together.
LEMMA OnlyTyped ==
  ASSUME NEW q, NEW x, x.to \in Holds(q[1]) \union {Absent}
  PROVE  Typed(Only(q, x))
BY DEF Typed, Only

LEMMA BothTyped ==
  ASSUME NEW f, NEW g, Typed(f), Typed(g)
  PROVE  Typed(f ++ g)
BY DEF Typed, ++

LEMMA NothingTyped == Typed(Nothing)
BY DEF Typed, Nothing

LEMMA DeleteTyped ==
  ASSUME NEW qs
  PROVE  Typed(Delete(qs))
BY DEF Typed, Delete

LEMMA DraftTyped ==
  ASSUME TypedInv, NEW c \in Clients, NEW op, NEW arg, NEW outs, NEW deps,
         Draft(c, op, arg, outs, deps), TypedArg(op, arg), Typed(outs)
  PROVE  TypedInv'
<1> DEFINE d == [op |-> op, arg |-> arg,
                 outs |-> [q \in Paths |-> IF q \in DOMAIN outs THEN outs[q] ELSE Keep],
                 reads |-> [q \in Paths |-> IF q \in deps THEN file[q] ELSE Keep]]
<1>1. pending' = [pending EXCEPT ![c] = d] /\ UNCHANGED <<dom, file, corruptions>>
  BY DEF Draft
<1>2. TypedDraft(d)
  BY DEF TypedDraft, Typed
<1> HIDE DEF d
<1>3. QED
  BY <1>1, <1>2 DEF TypedInv, TypedFiles

-----------------------------------------------------------------------------
\* A lifecycle state in which the workflow acts is typed.
LEMMA DomTypes ==
  ASSUME LP!LifecycleInv
  PROVE  /\ dom.state \in LP!States /\ dom.confirm \in BOOLEAN
         /\ dom.iteration \in 0..(MaxIterations + 1)
         /\ dom.best \in Scores \union {None}
         /\ dom.active \in Snapshots /\ dom.candidate \in Snapshots \union {None}
         /\ dom.provisional \in Scores \union {None}
         /\ dom.confirmation \in Scores \union {None}
         /\ dom.gatePhase \in LP!GatePhases
         /\ dom.current \in Scored(Scores) \union {None}
         /\ dom.provisionalManifest \in Scored(Scores) \union {None}
         /\ dom.tests \in [Tests -> Scored(Scores) \union {None}]
         /\ dom.consumed \in Seq([manifest : Scored(Scores), by : LP!Uses])
         /\ dom.seed \in LP!SeedDecisions
BY DEF LP!LifecycleInv, LP!TypeOK, LP!DomainState, LP!Scores, Scores, LP!TestPhases, Tests

LEMMA IterationRuns ==
  ASSUME LP!LifecycleInv, dom.state \in LP!Evolving
  PROVE  dom.iteration \in Iterations
BY LP!EvolvingIteration, SameConstants DEF LP!At, Iterations

LEMMA HasCandidate ==
  ASSUME LP!LifecycleInv, dom.state \in L!Candidate
  PROVE  dom.candidate \in Snapshots
BY DomTypes DEF LP!LifecycleInv, LP!CandidateScope, LP!At, L!Candidate, LP!Candidate

LEMMA FileTypes ==
  ASSUME TypedFiles, NEW q \in Paths, file[q] # Absent
  PROVE  file[q] \in Holds(q[1])
BY DEF TypedFiles

LEMMA PathsOf ==
  /\ \A kind \in RunFiles, d \in RunDirs : In(kind, d) \in Paths
  /\ \A kind \in StepFiles, k \in Iterations : Of(kind, k) \in Paths
  /\ \A kind \in DomainFiles : The(kind) \in Paths
BY DEF Paths

LEMMA KnowledgeTypes ==
  ASSUME TypedFiles
  PROVE  /\ History(The("wiki")) \in Seq(WikiEntry)
         /\ History(The("impact")) \in Seq(ImpactEntry)
<1>1. The("wiki") \in Paths /\ The("impact") \in Paths
  BY PathsOf DEF DomainFiles
<1>2. /\ file[The("wiki")] # Absent => file[The("wiki")] \in Seq(WikiEntry)
      /\ file[The("impact")] # Absent => file[The("impact")] \in Seq(ImpactEntry)
  BY <1>1, FileTypes, KindOf, HoldsWhat
<1>3. QED
  BY <1>2 DEF History

LEMMA RecordedTyped ==
  ASSUME TypedFiles, NEW outcome \in Outcomes, NEW candidate \in Snapshots \union {None},
         NEW scores \in Seq(Scores), dom.iteration \in Iterations
  PROVE  Typed(Recorded(outcome, candidate, scores))
<1> DEFINE e == Entry(outcome, candidate, scores)
<1>1. e \in ImpactEntry
  BY DEF Entry, ImpactEntry
<1> DEFINE x == Replace(The("impact"), Append(History(The("impact")), e))
<1>2. x.to \in Holds("impact")
  <2> HIDE DEF e
  <2>1. Append(History(The("impact")), e) \in Seq(ImpactEntry)
    BY <1>1, KnowledgeTypes, AppendProperties
  <2>2. QED
    BY <2>1, HoldsWhat DEF Replace
<1>3. Recorded(outcome, candidate, scores) = Only(The("impact"), x)
  BY DEF Recorded
<1> HIDE DEF x
<1>4. QED
  BY <1>2, <1>3, OnlyTyped, KindOf

LEMMA UnscoredTyped ==
  ASSUME TypedFiles, NEW outcome \in Outcomes, NEW candidate \in Snapshots \union {None},
         dom.iteration \in Iterations
  PROVE  Typed(Recorded(outcome, candidate, <<>>))
<1>1. <<>> \in Seq(Scores)
  OBVIOUS
<1>2. QED
  BY <1>1, RecordedTyped

LEMMA SeedTyped ==
  ASSUME TypedInv, NEW c \in Clients, Seed(c)
  PROVE  TypedInv'
<1>1. CASE SkipSeed(c)
  BY <1>1, DraftTyped, NothingTyped DEF SkipSeed, TypedArg
<1>2. CASE SeedObservations(c)
  <2>1. Typed(Only(The("seed"), New(Empty)))
    BY OnlyTyped, KindOf, HoldsWhat, ConstantTypes DEF New
  <2>2. SeededWiki \in Seq(WikiEntry)
    BY ConstantTypes DEF SeededWiki, WikiEntry
  <2>3. Typed(Only(The("wiki"), New(SeededWiki)))
    BY <2>2, OnlyTyped, KindOf, HoldsWhat DEF New
  <2>4. QED
    BY <1>2, <2>1, <2>3, BothTyped, DraftTyped DEF SeedObservations, TypedArg
<1>3. CASE RollbackSeed(c)
  BY <1>3, DeleteTyped, DraftTyped DEF RollbackSeed, TypedArg
<1>4. QED
  BY <1>1, <1>2, <1>3 DEF Seed

LEMMA RunsWhere ==
  /\ RunsIn("baseline") = "NEEDS_BASELINE_RUN" /\ AfterIngest("baseline") = {}
  /\ RunsIn("train") = "NEEDS_TRAIN_RUN" /\ AfterIngest("train") = {"NEEDS_WIKI"}
  /\ RunsIn("val") = "NEEDS_VAL_RUN" /\ AfterIngest("val") = {"NEEDS_GATE"}
  /\ RunsIn("val_confirm") = "NEEDS_VAL_CONFIRM" /\ AfterIngest("val_confirm") = {"NEEDS_GATE"}
  /\ \A phase \in Tests : RunsIn(phase) = "DONE" /\ AfterIngest(phase) = {}
BY DEF RunsIn, AfterIngest, Tests

\* While a phase runs, its iteration and snapshot are known.
LEMMA PhaseTypes ==
  ASSUME LP!LifecycleInv, NEW phase \in Phases,
         dom.state \in {RunsIn(phase)} \union AfterIngest(phase)
  PROVE  /\ Dir(phase) \in RunDirs /\ Dir(phase) = <<phase, Dir(phase)[2]>>
         /\ Dir(phase)[2] \in 0..MaxIterations
         /\ phase = "train" => Dir(phase)[2] \in Iterations
<1>1. phase \in Repeated => dom.iteration \in Iterations
  BY IterationRuns, RunsWhere DEF Repeated, LP!Evolving, LP!Candidate
<1>2. QED
  BY <1>1, ConstantTypes DEF Dir, RunDirs, Phases, Repeated, Tests, Iterations

LEMMA PointerTypes ==
  ASSUME LP!LifecycleInv, NEW phase \in Phases, dom.state = RunsIn(phase)
  PROVE  Pointer(phase) \in Snapshots
<1>1. phase \in {"val", "val_confirm"} => dom.candidate \in Snapshots
  BY HasCandidate, RunsWhere DEF L!Candidate
<1>2. QED
  BY <1>1, DomTypes, ConstantTypes DEF Pointer

LEMMA PrepareTyped ==
  ASSUME LP!LifecycleInv, TypedInv, NEW c \in Clients, NEW phase \in Phases,
         PrepareRollout(c, phase)
  PROVE  TypedInv'
<1>1. Typed(Only(In("job", Dir(phase)), Kept(Pointer(phase))))
  BY OnlyTyped, KindOf, HoldsWhat, PointerTypes DEF Kept, PrepareRollout
<1>2. TypedArg(IF phase \in Tests THEN phase ELSE "persist", None)
  BY DEF TypedArg, Tests
<1>3. QED
  BY <1>1, <1>2, DraftTyped DEF PrepareRollout

LEMMA RecordTyped ==
  ASSUME TypedInv, NEW c \in Clients, NEW phase \in Phases, NEW answer \in Answers[phase],
         RecordExecution(c, phase, answer)
  PROVE  TypedInv'
<1> DEFINE execution == In("execution", Dir(phase))
           output == In("output", Dir(phase))
           replacing == file[execution] = Absent /\ file[output] # Absent
           kept == [Kept(answer) EXCEPT !.before = IF replacing THEN file[output] ELSE Absent]
<1>1. answer \in Scores \union {Invalid} /\ kept.to = answer /\ Kept(answer).to = answer
  BY WorkflowConstants DEF Kept
<1>2. Typed(Only(execution, Kept(answer))) /\ Typed(Only(output, kept))
  <2> HIDE DEF kept
  <2>1. Typed(Only(execution, Kept(answer)))
    BY <1>1, OnlyTyped, KindOf, HoldsWhat
  <2>2. Typed(Only(output, kept))
    BY <1>1, OnlyTyped, KindOf, HoldsWhat
  <2>3. QED
    BY <2>1, <2>2
<1>3. Draft(c, "persist", None, Only(execution, Kept(answer)) ++ Only(output, kept),
            {In("job", Dir(phase))})
  BY DEF RecordExecution
<1>4. QED
  BY <1>2, <1>3, BothTyped, DraftTyped DEF TypedArg

LEMMA RawTyped ==
  ASSUME NEW m \in Scored(Scores \union {Invalid}), m.phase = "train" => m.iteration \in Iterations
  PROVE  Typed(RawEvidence(m))
<1>1. CASE m.phase # "train" \/ m.score = Invalid
  BY <1>1, NothingTyped DEF RawEvidence
<1>2. CASE m.phase = "train" /\ m.score # Invalid
  <2>1. m.score \in Scores
    BY <1>2 DEF Scored
  <2>2. Typed(Only(Of("trace", m.iteration), New(m.score)))
    BY <2>1, OnlyTyped, KindOf, HoldsWhat DEF New
  <2>3. Typed(Only(The("alias"), Replace(The("alias"), m.iteration)))
    BY <1>2, OnlyTyped, KindOf, HoldsWhat DEF Replace
  <2>4. QED
    BY <1>2, <2>2, <2>3, BothTyped DEF RawEvidence
<1>3. QED
  BY <1>1, <1>2

LEMMA IngestTyped ==
  ASSUME LP!LifecycleInv, TypedInv, NEW c \in Clients, NEW phase \in Phases,
         IngestRollout(c, phase)
  PROVE  TypedInv'
<1> DEFINE d == Dir(phase)
           answer == file[In("execution", d)]
           m == [phase |-> phase, iteration |-> d[2], snapshot |-> Pointer(phase),
                 score |-> IF file[In("job", d)] = Pointer(phase) THEN answer ELSE Invalid]
<1>1. d \in RunDirs /\ d[2] \in 0..MaxIterations /\ phase = "train" => d[2] \in Iterations
  BY PhaseTypes DEF IngestRollout
<1>2. answer \in Scores \union {Invalid}
  <2>1. In("execution", d) \in Paths /\ file[In("execution", d)] # Absent
    BY PhaseTypes, PathsOf DEF IngestRollout, RunFiles
  <2>2. QED
    BY <2>1, FileTypes, KindOf, HoldsWhat DEF TypedInv
<1>3. m \in Scored(Scores \union {Invalid}) /\ (m.phase = "train" => m.iteration \in Iterations)
  BY <1>2, PhaseTypes, PointerTypes DEF IngestRollout, Scored
<1>4. Typed(Only(In("manifest", d), New(m)) ++ RawEvidence(m))
  <2> HIDE DEF m
  <2>1. New(m).to \in Holds("manifest")
    BY <1>3, HoldsWhat DEF New
  <2>2. In("manifest", d)[1] = "manifest"
    BY KindOf
  <2>3. Typed(Only(In("manifest", d), New(m)))
    BY <2>1, <2>2, OnlyTyped
  <2>4. QED
    BY <1>3, <2>3, RawTyped, BothTyped
<1>5. Draft(c, IF phase = "baseline" THEN "persist" ELSE "ingest", m,
            Only(In("manifest", d), New(m)) ++ RawEvidence(m),
            {In(kind, d) : kind \in {"job", "execution", "output"}})
  BY DEF IngestRollout
<1>6. TypedArg(IF phase = "baseline" THEN "persist" ELSE "ingest", m)
  BY <1>3 DEF TypedArg
<1> HIDE DEF m, d
<1>7. QED
  BY <1>4, <1>5, <1>6, DraftTyped

LEMMA RolloutTyped ==
  ASSUME LP!LifecycleInv, TypedInv, NEW c \in Clients, Rollout(c)
  PROVE  TypedInv'
<1>1. ASSUME NEW phase \in Phases, ResetManifest(c, phase) PROVE TypedInv'
  BY <1>1, DeleteTyped, DraftTyped DEF ResetManifest, TypedArg
<1>2. CASE FinalizeBaseline(c)
  <2> DEFINE manifest == In("manifest", <<"baseline", 0>>)
  <2>1. manifest \in Paths
    BY PathsOf DEF RunFiles, RunDirs, Phases, Repeated
  <2>2. Valid(manifest)
    BY <1>2 DEF FinalizeBaseline
  <2>3. file[manifest] \in Scored(Scores)
    BY <2>1, <2>2, FileTypes, KindOf, HoldsWhat DEF TypedInv, Valid, Readable, Scored
  <2>4. QED
    BY <1>2, <2>3, DraftTyped, NothingTyped DEF FinalizeBaseline, TypedArg
<1>3. QED
  BY <1>1, <1>2, PrepareTyped, RecordTyped, IngestTyped DEF Rollout

LEMMA StepPaths ==
  ASSUME LP!LifecycleInv, dom.state \in LP!Evolving
  PROVE  /\ dom.iteration \in Iterations /\ TrainRun \in Paths
         /\ \A kind \in StepFiles : Of(kind, dom.iteration) \in Paths
<1>1. dom.iteration \in Iterations
  BY IterationRuns
<1>2. <<"train", dom.iteration>> \in RunDirs
  BY <1>1 DEF RunDirs, Repeated
<1>3. QED
  BY <1>1, <1>2, PathsOf DEF TrainRun, RunFiles

\* What the maintainer was shown is a train score.
LEMMA InputScore ==
  ASSUME LP!LifecycleInv, TypedInv, NEW c \in Clients, ApplyWiki(c)
  PROVE  [iteration |-> dom.iteration, from |-> file[Of("maintainer-input", dom.iteration)]]
           \in WikiEntry
<1> DEFINE input == Of("maintainer-input", dom.iteration)
<1>1. dom.iteration \in Iterations /\ input \in Paths
  BY StepPaths DEF ApplyWiki, LP!Evolving, StepFiles
<1>2. file[input] \in Scores
  BY <1>1, FileTypes, KindOf, HoldsWhat DEF TypedInv, ApplyWiki
<1>3. QED
  BY <1>1, <1>2, ConstantTypes DEF WikiEntry, Iterations

\* The entries the gate and abandon record are entries of the history.
LEMMA JudgedTypes ==
  ASSUME LP!LifecycleInv, dom.state \in L!Candidate
  PROVE  /\ dom.iteration \in Iterations /\ dom.candidate \in Snapshots
         /\ dom.state = "NEEDS_GATE" =>
              (IF dom.gatePhase = "validation" THEN <<dom.provisional>>
               ELSE <<dom.provisional, dom.confirmation>>) \in Seq(Scores)
<1>1. dom.iteration \in Iterations /\ dom.candidate \in Snapshots
  BY StepPaths, HasCandidate DEF LP!Evolving, LP!Candidate, L!Candidate
<1>2. dom.state = "NEEDS_GATE" =>
        dom.provisional \in Scores /\ (dom.gatePhase # "validation" => dom.confirmation \in Scores)
  BY DomTypes DEF LP!LifecycleInv, LP!CandidateScope, LP!At, LP!GatePhases
<1>3. QED
  BY <1>1, <1>2

LEMMA SampleTyped ==
  ASSUME LP!LifecycleInv, TypedInv, NEW c \in Clients, SampleTrain(c)
  PROVE  TypedInv'
<1>1. TrainRun \in Paths /\ Valid(TrainRun)
  BY StepPaths DEF SampleTrain, LP!Evolving
<1>2. file[TrainRun].score \in Scores
  BY <1>1, FileTypes, KindOf, HoldsWhat DEF TypedInv, Valid, Readable, Scored, TrainRun
<1>3. file[Of("trace", dom.iteration)] \in Scores
  BY <1>2 DEF SampleTrain, TraceMatches
<1>4. Typed(Only(Of("maintainer-input", dom.iteration), Kept(file[Of("trace", dom.iteration)])))
  BY <1>3, OnlyTyped, KindOf, HoldsWhat DEF Kept
<1>5. QED
  BY <1>4, DraftTyped DEF SampleTrain, TypedArg

LEMMA WikiTyped ==
  ASSUME LP!LifecycleInv, TypedInv, NEW c \in Clients, ApplyWiki(c)
  PROVE  TypedInv'
<1> DEFINE input == Of("maintainer-input", dom.iteration)
           entry == [iteration |-> dom.iteration, from |-> file[input]]
           wiki == Replace(The("wiki"), Append(History(The("wiki")), entry))
<1>1. dom.iteration \in Iterations /\ input \in Paths
  BY StepPaths DEF ApplyWiki, LP!Evolving, StepFiles
<1>2. file[input] \in Scores
  BY <1>1, FileTypes, KindOf, HoldsWhat DEF TypedInv, ApplyWiki
<1>3. entry \in WikiEntry
  BY InputScore
<1>4. Typed(Only(Of("maintainer-output", dom.iteration), New(file[input])))
  BY <1>2, OnlyTyped, KindOf, HoldsWhat DEF New
<1>5. Typed(Only(The("wiki"), wiki))
  <2> HIDE DEF entry
  <2>1. Append(History(The("wiki")), entry) \in Seq(WikiEntry)
    BY <1>3, KnowledgeTypes, AppendProperties DEF TypedInv
  <2>2. wiki.to \in Holds("wiki")
    BY <2>1, HoldsWhat DEF Replace
  <2> HIDE DEF wiki
  <2>3. QED
    BY <2>2, OnlyTyped, KindOf
<1>6. Draft(c, "apply-wiki", None,
            Only(Of("maintainer-output", dom.iteration), New(file[input])) ++ Only(The("wiki"), wiki),
            {input, TrainRun} \union Present({The("wiki")}))
  BY DEF ApplyWiki
<1> HIDE DEF wiki, input
<1>7. QED
  BY <1>4, <1>5, <1>6, BothTyped, DraftTyped DEF TypedArg

LEMMA ContextTyped ==
  ASSUME LP!LifecycleInv, TypedInv, NEW c \in Clients, ProposerContext(c)
  PROVE  TypedInv'
<1> DEFINE context == [wiki |-> History(The("wiki")), impact |-> History(The("impact")),
                       active |-> dom.active]
<1>1. context \in Context
  BY KnowledgeTypes, DomTypes DEF TypedInv, Context
<1>2. Typed(Only(Of("proposer-context", dom.iteration), Kept(context)))
  <2> HIDE DEF context
  <2>1. QED
    BY <1>1, OnlyTyped, KindOf, HoldsWhat DEF Kept
<1>3. QED
  BY <1>2, DraftTyped DEF ProposerContext, TypedArg

LEMMA ProposedTyped ==
  ASSUME LP!LifecycleInv, TypedInv, NEW c \in Clients, NEW op, NEW candidate, NEW outs,
         Proposed(c, op, candidate, outs), Typed(outs), TypedArg(op, candidate)
  PROVE  TypedInv'
<1> DEFINE context == Of("proposer-context", dom.iteration)
<1>1. context \in Paths /\ file[context] # Absent
  BY StepPaths DEF Proposed, LP!Evolving, StepFiles
<1>2. file[context] \in Context
  BY <1>1, FileTypes, KindOf, HoldsWhat DEF TypedInv
<1>3. Typed(Only(Of("proposer-output", dom.iteration), New(file[context])))
  BY <1>2, OnlyTyped, KindOf, HoldsWhat DEF New
<1>4. QED
  BY <1>3, BothTyped, DraftTyped DEF Proposed

LEMMA ProposeTyped ==
  ASSUME LP!LifecycleInv, TypedInv, NEW c \in Clients,
         ProposeNothing(c) \/ \E candidate \in Candidates : ProposeChange(c, candidate)
  PROVE  TypedInv'
<1>1. CASE ProposeNothing(c)
  <2>1. dom.iteration \in Iterations
    BY <1>1, StepPaths DEF ProposeNothing, Proposed, LP!Evolving
  <2>2. Typed(Recorded("NoAction", None, <<>>))
    BY <2>1, UnscoredTyped DEF TypedInv, Outcomes
  <2>3. QED
    BY <1>1, <2>2, ProposedTyped DEF ProposeNothing, TypedArg
<1>2. ASSUME NEW candidate \in Candidates, ProposeChange(c, candidate) PROVE TypedInv'
  <2> DEFINE r == [candidate |-> candidate, active |-> dom.active]
  <2>1. r \in CandidateRecord /\ candidate \in Snapshots
    BY DomTypes DEF CandidateRecord, Candidates
  <2>2. Typed(Only(Of("candidate", dom.iteration), New(r)))
    <3> HIDE DEF r
    <3>1. QED
      BY <2>1, OnlyTyped, KindOf, HoldsWhat DEF New
  <2>3. QED
    BY <1>2, <2>1, <2>2, ProposedTyped DEF ProposeChange, TypedArg
<1>3. QED
  BY <1>1, <1>2

LEMMA GateTyped ==
  ASSUME LP!LifecycleInv, TypedInv, NEW c \in Clients, Gate(c)
  PROVE  TypedInv'
<1> DEFINE scores == IF dom.gatePhase = "validation" THEN <<dom.provisional>>
                     ELSE <<dom.provisional, dom.confirmation>>
<1>1. dom.iteration \in Iterations /\ dom.candidate \in Snapshots /\ scores \in Seq(Scores)
  BY JudgedTypes DEF Gate, L!Candidate
<1>2. Verdict = Nothing \/ \E outcome \in Outcomes :
        Verdict = Recorded(outcome, dom.candidate, scores)
  BY DEF Verdict, Outcomes
<1> HIDE DEF scores
<1>3. Typed(Verdict)
  BY <1>1, <1>2, NothingTyped, RecordedTyped DEF TypedInv
<1>4. QED
  BY <1>3, DraftTyped DEF Gate, TypedArg

LEMMA AbandonTyped ==
  ASSUME LP!LifecycleInv, TypedInv, NEW c \in Clients, Abandon(c)
  PROVE  TypedInv'
<1>1. dom.iteration \in Iterations /\ dom.candidate \in Snapshots
  BY JudgedTypes DEF Abandon, CanAbandon
<1>2. Typed(Recorded("Abandoned", dom.candidate, <<>>))
  BY <1>1, UnscoredTyped DEF TypedInv, Outcomes
<1>3. QED
  BY <1>2, DeleteTyped, BothTyped, DraftTyped DEF Abandon, TypedArg

LEMMA EvolveTyped ==
  ASSUME LP!LifecycleInv, TypedInv, NEW c \in Clients, Evolve(c)
  PROVE  TypedInv'
BY SampleTyped, WikiTyped, ContextTyped, ProposeTyped, GateTyped, AbandonTyped DEF Evolve

-----------------------------------------------------------------------------
(***************************************************************************)
(* What a commit does to the state is a step of the lifecycle, whatever    *)
(* state it finds.                                                         *)
(***************************************************************************)

LEMMA IngestSteps ==
  ASSUME NEW m \in Scored(Scores \union {Invalid}), Ingested(m)
  PROVE  [L!Next]_dom
<1>1. CASE m.score = Invalid
  BY <1>1 DEF Ingested
<1>2. CASE m.score # Invalid
  <2>1. m \in Scored(Scores) /\ m.score \in L!Scores
    BY <1>2 DEF Scored, Scores, L!Scores
  <2>2. \/ L!IngestTrain(m) \/ L!IngestVal(m, m.score) \/ L!IngestConfirm(m, m.score)
        \/ \E phase \in L!TestPhases : L!IngestTest(phase, m)
    BY <1>2 DEF Ingested, Tests, L!TestPhases
  <2>3. L!Ingest(m)
    BY <2>1, <2>2 DEF L!Ingest
  <2>4. QED
    BY <2>1, <2>3 DEF L!Next
<1>3. QED
  BY <1>1, <1>2

LEMMA TransitionSteps ==
  ASSUME NEW op, NEW arg, TypedArg(op, arg), Transition(op, arg)
  PROVE  [L!Next]_dom
<1>1. CASE op = "baseline-finalize" /\ L!FinalizeBaseline(arg, arg.score, Empty)
  <2>1. arg \in Scored(Scores) /\ arg.score \in L!Scores
    BY <1>1 DEF TypedArg, Scored, Scores, L!Scores
  <2>2. L!FinalizeBaseline(arg, arg.score, Empty)
    BY <1>1
  <2>3. QED
    BY <2>1, <2>2, ConstantTypes DEF L!Next, L!Ingest
<1>2. CASE op = "ingest" /\ Ingested(arg)
  BY <1>2, IngestSteps DEF TypedArg
<1>3. CASE op = "apply-proposal-change" /\ L!ProposeChange(arg)
  BY <1>3 DEF TypedArg, L!Next, L!Evolve
<1>4. CASE op \in Tests /\ PreparedTest(op)
  BY <1>4 DEF PreparedTest, Tests, L!TestPhases, L!Next, L!Deliver
<1>5. CASE L!ApplyWiki \/ L!ProposeNothing \/ L!Gate \/ L!Abandon
  BY <1>5 DEF L!Next, L!Evolve
<1>6. CASE L!SkipSeed \/ L!SeedObservations \/ L!RollbackSeed \/ L!ResetManifest
  BY <1>6 DEF L!Next, L!Found
<1>7. QED
  BY <1>1, <1>2, <1>3, <1>4, <1>5, <1>6 DEF Transition

LEMMA CommitTyped ==
  ASSUME TypedInv, NEW c \in Clients, Commit(c)
  PROVE  TypedInv' /\ [L!Next]_dom
<1>1. TypedDraft(pending[c])
  BY DEF TypedInv, Commit
<1>2. [L!Next]_dom
  BY <1>1, TransitionSteps DEF TypedDraft, Commit
<1>3. DOMAIN file' = Paths /\ TypedFiles'
  BY <1>1 DEF TypedDraft, TypedInv, TypedFiles, Commit, P!Overlay
<1>4. QED
  BY <1>2, <1>3 DEF TypedInv, Commit

LEMMA DamageTyped ==
  ASSUME TypedInv, NEW d \in RunDirs, Damage(d)
  PROVE  TypedInv'
<1> DEFINE q == In("manifest", d)
<1>1. q \in Paths /\ Corrupt \in Holds(q[1])
  BY PathsOf, KindOf, HoldsWhat DEF RunFiles
<1>2. file' = [file EXCEPT ![q] = Corrupt] /\ corruptions' \in 0..MaxCorruptions
      /\ UNCHANGED pending
  BY WorkflowConstants DEF Damage, TypedInv
<1> HIDE DEF q
<1>3. QED
  BY <1>1, <1>2 DEF TypedInv, TypedFiles

LEMMA StepTyped ==
  ASSUME LP!LifecycleInv, TypedInv, [Next]_vars
  PROVE  TypedInv' /\ [L!Next]_dom
<1>1. CASE UNCHANGED vars
  BY <1>1 DEF vars, TypedInv, TypedFiles
<1>2. CASE Initialize
  <2>1. L!Next
    BY <1>2 DEF Initialize, L!Next, L!Found
  <2>2. QED
    BY <1>2, <2>1 DEF Initialize, TypedInv, TypedFiles
<1>3. ASSUME NEW c \in Clients, Seed(c) \/ Rollout(c) \/ Evolve(c)
      PROVE  TypedInv' /\ [L!Next]_dom
  <2>1. TypedInv'
    BY <1>3, SeedTyped, RolloutTyped, EvolveTyped
  <2>2. UNCHANGED dom
    BY <1>3 DEF Seed, SkipSeed, SeedObservations, RollbackSeed, Rollout, PrepareRollout,
         RecordExecution, IngestRollout, FinalizeBaseline, ResetManifest, Evolve, SampleTrain,
         ApplyWiki, ProposerContext, ProposeNothing, ProposeChange, Proposed, Gate, Abandon, Draft
  <2>3. QED
    BY <2>1, <2>2
<1>4. ASSUME NEW c \in Clients, GiveUp(c) PROVE TypedInv' /\ [L!Next]_dom
  BY <1>4 DEF GiveUp, TypedInv, TypedFiles
<1>5. ASSUME NEW d \in RunDirs, Damage(d) PROVE TypedInv' /\ [L!Next]_dom
  BY <1>5, DamageTyped DEF Damage
<1>6. QED
  BY <1>1, <1>2, <1>3, <1>4, <1>5, CommitTyped DEF Next

LEMMA InitTyped ==
  ASSUME Init
  PROVE  LP!Init /\ LP!LifecycleInv /\ TypedInv
<1>1. LP!Init
  BY SameInit DEF Init
<1>2. TypedInv
  BY WorkflowConstants DEF Init, TypedInv, TypedFiles
<1>3. QED
  BY <1>1, <1>2, LP!InitInv, SameConstants

WorkflowInv == LP!LifecycleInv /\ TypedInv

\* The lifecycle's invariant and the drafts' and files' types hold throughout.
THEOREM WorkflowInvariance == Spec => []WorkflowInv
<1>1. Init => WorkflowInv
  BY InitTyped DEF WorkflowInv
<1>2. WorkflowInv /\ [Next]_vars => WorkflowInv'
  BY StepTyped, SameNext, LP!NextInv, SameConstants DEF WorkflowInv
<1>3. QED
  BY <1>1, <1>2, PTL DEF Spec

(***************************************************************************)
(* Whatever state a command was drafted on, its commit is a step of the    *)
(* transition table: the workflow implements the lifecycle.                *)
(***************************************************************************)
THEOREM WorkflowImplementsLifecycle == Spec => L!Spec
<1>1. Init => L!Init
  BY DEF Init
<1>2. WorkflowInv /\ [Next]_vars => [L!Next]_dom
  BY StepTyped DEF WorkflowInv
<1>3. QED
  BY <1>1, <1>2, WorkflowInvariance, PTL DEF Spec, L!Spec

\* Every file of the domain holds something of its kind, and the state is a DomainState.
THEOREM WorkflowTypes == Spec => []TypeOK
<1>1. LP!TypeOK => L!TypeOK
  BY DEF LP!TypeOK, L!TypeOK, LP!DomainState, L!DomainState, LP!States, L!States, LP!Scores,
         L!Scores, LP!SeedDecisions, L!SeedDecisions, LP!GatePhases, L!GatePhases, LP!RunPhases,
         L!RunPhases, LP!Uses, L!Uses, LP!Routes, L!Routes, LP!DeliverySteps, L!DeliverySteps,
         LP!TestPhases, L!TestPhases, LP!Operations, L!Operations, LP!BeforeBaseline,
         L!BeforeBaseline, LP!Evolving, L!Evolving, LP!Candidate, L!Candidate
<1>2. WorkflowInv => TypeOK
  BY <1>1 DEF WorkflowInv, LP!LifecycleInv, TypedInv, TypedFiles, TypeOK
<1>3. QED
  BY <1>2, WorkflowInvariance, PTL

-----------------------------------------------------------------------------
(***************************************************************************)
(* Knowledge only grows: an output for the wiki or the impact history is   *)
(* bound to the content it lengthens, except in the rollback of a seed.    *)
(***************************************************************************)

Knowledge == {"wiki", "impact"}

Past(x) == IF x = Absent THEN <<>> ELSE x

Grows(op, q, out) ==
  /\ ~out.same
  /\ Seqs!IsPrefix(Past(out.before), Past(out.to)) \/ (op = "rollback-seed" /\ q = The("wiki"))

Growing(op, outs) == \A q \in DOMAIN outs : q[1] \in Knowledge => Grows(op, q, outs[q])

GrowingDraft(d) ==
  \A q \in Paths : q[1] \in Knowledge => d.outs[q] = Keep \/ Grows(d.op, q, d.outs[q])

KnowledgeInv == \A c \in Clients : pending[c] # Idle => GrowingDraft(pending[c])

LEMMA PrefixOfItself ==
  ASSUME NEW S, NEW s \in Seq(S)
  PROVE  Seqs!IsPrefix(s, s)
BY DEF Seqs!IsPrefix

LEMMA PrefixEmpty ==
  ASSUME NEW S, NEW s \in Seq(S)
  PROVE  Seqs!IsPrefix(<<>>, s)
BY SubSeqEmpty DEF Seqs!IsPrefix

LEMMA PrefixOfAppend ==
  ASSUME NEW S, NEW s \in Seq(S), NEW e \in S
  PROVE  Seqs!IsPrefix(s, Append(s, e))
<1>1. CASE s = <<>>
  BY <1>1, PrefixEmpty, AppendProperties
<1>2. CASE s # <<>>
  <2>1. Len(s) \in 1..Len(s)
    BY <1>2, EmptySeq
  <2>2. SubSeq(Append(s, e), 1, Len(s)) = SubSeq(s, 1, Len(s))
    BY <2>1, SubSeqOfConcat1, AppendIsConcat
  <2>3. QED
    BY <2>2, AppendProperties DEF Seqs!IsPrefix
<1>3. QED
  BY <1>1, <1>2

LEMMA OnlyGrows ==
  ASSUME NEW op, NEW q, NEW x, q[1] \in Knowledge => Grows(op, q, x)
  PROVE  Growing(op, Only(q, x))
BY DEF Growing, Only

LEMMA BothGrow ==
  ASSUME NEW op, NEW f, NEW g, Growing(op, f), Growing(op, g)
  PROVE  Growing(op, f ++ g)
BY DEF Growing, ++

LEMMA NothingGrows ==
  ASSUME NEW op
  PROVE  Growing(op, Nothing)
BY DEF Growing, Nothing

LEMMA DeleteGrows ==
  ASSUME NEW op, NEW qs, \A q \in qs : q[1] \notin Knowledge
  PROVE  Growing(op, Delete(qs))
BY DEF Growing, Delete

LEMMA DraftGrows ==
  ASSUME TypedInv, KnowledgeInv, NEW c \in Clients, NEW op, NEW arg, NEW outs, NEW deps,
         Draft(c, op, arg, outs, deps), Growing(op, outs)
  PROVE  KnowledgeInv'
<1> DEFINE d == [op |-> op, arg |-> arg,
                 outs |-> [q \in Paths |-> IF q \in DOMAIN outs THEN outs[q] ELSE Keep],
                 reads |-> [q \in Paths |-> IF q \in deps THEN file[q] ELSE Keep]]
<1>1. pending' = [pending EXCEPT ![c] = d]
  BY DEF Draft
<1>2. GrowingDraft(d)
  BY DEF GrowingDraft, Growing
<1> HIDE DEF d
<1>3. QED
  BY <1>1, <1>2 DEF TypedInv, KnowledgeInv

LEMMA AppendGrows ==
  ASSUME TypedFiles, NEW op, NEW kind, NEW entry,
         \/ kind = "wiki" /\ entry \in WikiEntry
         \/ kind = "impact" /\ entry \in ImpactEntry
  PROVE  Growing(op, Only(The(kind), Replace(The(kind), Append(History(The(kind)), entry))))
<1> DEFINE old == History(The(kind))
           out == Replace(The(kind), Append(old, entry))
<1>1. PICK S : old \in Seq(S) /\ entry \in S /\ Absent \notin Seq(S)
  BY KnowledgeTypes, WorkflowMarkers
<1>2. Past(Append(old, entry)) = Append(old, entry)
  BY <1>1, AppendProperties DEF Past
<1>3. Past(out.before) = old /\ out.to = Append(old, entry) /\ ~out.same
  BY DEF Past, History, Replace
<1>4. Seqs!IsPrefix(Past(out.before), Past(out.to))
  BY <1>1, <1>2, <1>3, PrefixOfAppend
<1> HIDE DEF out, old
<1>5. Grows(op, The(kind), out)
  BY <1>3, <1>4 DEF Grows
<1>6. Growing(op, Only(The(kind), out))
  BY <1>5, OnlyGrows
<1>7. QED
  BY <1>6 DEF out, old

LEMMA RecordedGrows ==
  ASSUME TypedFiles, NEW op, NEW outcome \in Outcomes, NEW candidate \in Snapshots \union {None},
         NEW scores \in Seq(Scores), dom.iteration \in Iterations
  PROVE  Growing(op, Recorded(outcome, candidate, scores))
BY AppendGrows DEF Recorded, Entry, ImpactEntry

\* A new file outside the wiki and the history.
LEMMA OtherGrows ==
  ASSUME NEW op, NEW q, NEW x, q[1] \notin Knowledge
  PROVE  Growing(op, Only(q, x))
BY OnlyGrows

LEMMA SeedGrows ==
  ASSUME TypedInv, KnowledgeInv, NEW c \in Clients, Seed(c)
  PROVE  KnowledgeInv'
<1>1. CASE SkipSeed(c)
  BY <1>1, DraftGrows, NothingGrows DEF SkipSeed
<1>2. CASE SeedObservations(c)
  <2>1. Growing("seed-observations", Only(The("seed"), New(Empty)))
    BY OtherGrows, KindOf DEF Knowledge
  <2>2. SeededWiki \in Seq(WikiEntry)
    BY ConstantTypes DEF SeededWiki, WikiEntry
  <2>3. Seqs!IsPrefix(Past(Absent), Past(SeededWiki))
    BY <2>2, PrefixEmpty, WorkflowMarkers DEF Past
  <2>4. Growing("seed-observations", Only(The("wiki"), New(SeededWiki)))
    <3> HIDE DEF Past
    <3>1. Grows("seed-observations", The("wiki"), New(SeededWiki))
      BY <2>3 DEF Grows, New
    <3>2. QED
      BY <3>1, OnlyGrows
  <2>5. QED
    BY <1>2, <2>1, <2>4, BothGrow, DraftGrows DEF SeedObservations
<1>3. CASE RollbackSeed(c)
  <2>1. Growing("rollback-seed", Delete({The("seed"), The("wiki")}))
    BY KindOf DEF Growing, Delete, Grows, Knowledge, The
  <2>2. QED
    BY <1>3, <2>1, DraftGrows DEF RollbackSeed
<1>4. QED
  BY <1>1, <1>2, <1>3 DEF Seed

LEMMA RolloutGrows ==
  ASSUME TypedInv, KnowledgeInv, NEW c \in Clients, Rollout(c)
  PROVE  KnowledgeInv'
<1> USE DEF Knowledge
<1>1. ASSUME NEW phase \in Phases, PrepareRollout(c, phase) PROVE KnowledgeInv'
  BY <1>1, OtherGrows, KindOf, DraftGrows DEF PrepareRollout
<1>2. ASSUME NEW phase \in Phases, NEW answer, RecordExecution(c, phase, answer) PROVE KnowledgeInv'
  BY <1>2, OtherGrows, KindOf, BothGrow, DraftGrows DEF RecordExecution
<1>3. ASSUME NEW m PROVE \A op : Growing(op, RawEvidence(m))
  BY OtherGrows, KindOf, BothGrow, NothingGrows DEF RawEvidence
<1>4. ASSUME NEW phase \in Phases, IngestRollout(c, phase) PROVE KnowledgeInv'
  BY <1>3, <1>4, OtherGrows, KindOf, BothGrow, DraftGrows DEF IngestRollout
<1>5. ASSUME NEW phase \in Phases, ResetManifest(c, phase) PROVE KnowledgeInv'
  <2> DEFINE d == Dir(phase)
             owned == {In("manifest", d), In("execution", d)}
                        \union IF phase # "train" THEN {}
                               ELSE {Of("trace", d[2]), The("alias")}
  <2>1. \A q \in Present(owned) : q[1] \notin Knowledge
    BY KindOf DEF Present
  <2>2. QED
    BY <1>5, <2>1, DeleteGrows, DraftGrows DEF ResetManifest
<1>6. CASE FinalizeBaseline(c)
  BY <1>6, NothingGrows, DraftGrows DEF FinalizeBaseline
<1>7. QED
  BY <1>1, <1>2, <1>4, <1>5, <1>6 DEF Rollout

LEMMA EvolveGrows ==
  ASSUME LP!LifecycleInv, TypedInv, KnowledgeInv, NEW c \in Clients, Evolve(c)
  PROVE  KnowledgeInv'
<1> USE DEF Knowledge
<1>1. CASE SampleTrain(c)
  BY <1>1, OtherGrows, KindOf, DraftGrows DEF SampleTrain
<1>2. CASE ApplyWiki(c)
  <2> DEFINE entry == [iteration |-> dom.iteration, from |-> file[Of("maintainer-input", dom.iteration)]]
             wiki == Only(The("wiki"), Replace(The("wiki"), Append(History(The("wiki")), entry)))
             answer == Only(Of("maintainer-output", dom.iteration),
                            New(file[Of("maintainer-input", dom.iteration)]))
  <2>1. entry \in WikiEntry
    BY <1>2, InputScore
  <2>2. Growing("apply-wiki", wiki)
    <3> HIDE DEF entry
    <3>1. QED
      BY <2>1, AppendGrows DEF TypedInv
  <2>3. Growing("apply-wiki", answer)
    BY OtherGrows, KindOf
  <2>4. Draft(c, "apply-wiki", None, answer ++ wiki,
              {Of("maintainer-input", dom.iteration), TrainRun} \union Present({The("wiki")}))
    BY <1>2 DEF ApplyWiki
  <2> HIDE DEF wiki, answer
  <2>5. QED
    BY <2>2, <2>3, <2>4, BothGrow, DraftGrows
<1>3. CASE ProposerContext(c)
  BY <1>3, OtherGrows, KindOf, DraftGrows DEF ProposerContext
<1>4. CASE ProposeNothing(c)
  <2>1. dom.iteration \in Iterations
    BY <1>4, StepPaths DEF ProposeNothing, Proposed, LP!Evolving
  <2>2. <<>> \in Seq(Scores) /\ "NoAction" \in Outcomes
    BY DEF Outcomes
  <2>3. \A op : Growing(op, Recorded("NoAction", None, <<>>))
    BY <2>1, <2>2, RecordedGrows DEF TypedInv
  <2>4. QED
    BY <1>4, <2>3, OtherGrows, KindOf, BothGrow, DraftGrows DEF ProposeNothing, Proposed
<1>5. ASSUME NEW candidate \in Candidates, ProposeChange(c, candidate) PROVE KnowledgeInv'
  BY <1>5, OtherGrows, KindOf, BothGrow, DraftGrows DEF ProposeChange, Proposed
<1>6. CASE Gate(c)
  <2> DEFINE scores == IF dom.gatePhase = "validation" THEN <<dom.provisional>>
                       ELSE <<dom.provisional, dom.confirmation>>
  <2>1. /\ dom.iteration \in Iterations /\ dom.candidate \in Snapshots /\ scores \in Seq(Scores)
    BY <1>6, JudgedTypes DEF Gate, L!Candidate
  <2>2. Verdict = Nothing \/ \E outcome \in Outcomes :
          Verdict = Recorded(outcome, dom.candidate, scores)
    BY DEF Verdict, Outcomes
  <2>3. Growing("gate", Verdict)
    <3> HIDE DEF scores
    <3>1. QED
      BY <2>1, <2>2, NothingGrows, RecordedGrows DEF TypedInv
  <2>4. QED
    BY <1>6, <2>3, DraftGrows DEF Gate
<1>7. CASE Abandon(c)
  <2>1. dom.iteration \in Iterations /\ dom.candidate \in Snapshots
    BY <1>7, JudgedTypes DEF Abandon, CanAbandon
  <2>2. <<>> \in Seq(Scores) /\ "Abandoned" \in Outcomes
    BY DEF Outcomes
  <2>3. Growing("abandon", Recorded("Abandoned", dom.candidate, <<>>))
    BY <2>1, <2>2, RecordedGrows DEF TypedInv
  <2>4. \A phase : ValRun(phase)[1] = "manifest"
    BY DEF ValRun, In
  <2>5. \A q \in Unusable : q[1] \notin Knowledge
    BY <2>4 DEF Unusable, Present
  <2>6. QED
    BY <1>7, <2>3, <2>5, DeleteGrows, BothGrow, DraftGrows DEF Abandon
<1>8. QED
  BY <1>1, <1>2, <1>3, <1>4, <1>5, <1>6, <1>7 DEF Evolve

\* One file under a commit: as it was, or the output its draft was bound to.
LEMMA Committed ==
  ASSUME TypedInv, NEW c \in Clients, Commit(c), NEW q \in Paths
  PROVE  LET o == pending[c].outs[q]
         IN  \/ o = Keep /\ file'[q] = file[q]
             \/ /\ o # Keep /\ file'[q] = o.to
                /\ file[q] = o.before \/ (o.same /\ file[q] = o.to)
BY DEF Commit, P!Overlay, P!Fits, P!Planned

GrowsStep ==
  /\ Seqs!IsPrefix(History(The("impact")), History(The("impact"))')
  /\ \/ Seqs!IsPrefix(History(The("wiki")), History(The("wiki"))')
     \/ dom.best = None /\ dom'.seed = "none"

LEMMA SameKnowledge ==
  ASSUME TypedInv, file'[The("wiki")] = file[The("wiki")],
         file'[The("impact")] = file[The("impact")]
  PROVE  GrowsStep
<1>1. /\ History(The("wiki")) \in Seq(WikiEntry) /\ History(The("impact")) \in Seq(ImpactEntry)
      /\ History(The("wiki"))' = History(The("wiki"))
      /\ History(The("impact"))' = History(The("impact"))
  BY KnowledgeTypes DEF TypedInv, History
<1>2. QED
  BY <1>1, PrefixOfItself DEF GrowsStep

LEMMA CommitGrows ==
  ASSUME LP!LifecycleInv, TypedInv, KnowledgeInv, NEW c \in Clients, Commit(c)
  PROVE  GrowsStep
<1> DEFINE d == pending[c]
<1>1. \A kind \in Knowledge : The(kind) \in Paths /\ The(kind)[1] \in Knowledge
  BY PathsOf, KindOf DEF Knowledge, DomainFiles
<1>2. ASSUME NEW kind \in Knowledge
      PROVE  \/ Seqs!IsPrefix(History(The(kind)), History(The(kind))')
             \/ d.op = "rollback-seed" /\ The(kind) = The("wiki")
  <2> DEFINE q == The(kind)
             o == d.outs[q]
  <2>1. q \in Paths /\ q[1] \in Knowledge
    BY <1>1
  <2>2. History(q) = Past(file[q]) /\ History(q)' = Past(file'[q])
    BY DEF History, Past
  <2>3. CASE o = Keep
    <3>1. History(q)' = History(q)
      BY <2>1, <2>2, <2>3, Committed
    <3>2. History(q) \in Seq(WikiEntry) \/ History(q) \in Seq(ImpactEntry)
      BY KnowledgeTypes DEF TypedInv, Knowledge
    <3>3. QED
      BY <3>1, <3>2, PrefixOfItself
  <2>4. CASE o # Keep
    <3>1. Grows(d.op, q, o)
      BY <2>1, <2>4 DEF KnowledgeInv, GrowingDraft, Commit
    <3>2. file[q] = o.before /\ file'[q] = o.to
      BY <2>1, <2>4, <3>1, Committed DEF Grows
    <3>3. QED
      BY <2>2, <3>1, <3>2 DEF Grows
  <2>5. QED
    BY <2>3, <2>4
<1>3. The("wiki") # The("impact")
  BY DEF The
<1>4. d.op = "rollback-seed" => dom.best = None /\ dom'.seed = "none"
  <2>1. ASSUME d.op = "rollback-seed" PROVE L!RollbackSeed
    BY <2>1 DEF Commit, Transition, Tests
  <2>2. L!RollbackSeed => dom.state = "NEEDS_BASELINE_RUN" /\ dom'.seed = "none"
    BY DEF L!RollbackSeed, L!At, L!Become, LP!LifecycleInv, LP!TypeOK, LP!DomainState
  <2>3. QED
    BY <2>1, <2>2 DEF LP!LifecycleInv, LP!StopsInTime, LP!At, LP!BeforeBaseline
<1>5. QED
  BY <1>2, <1>3, <1>4 DEF GrowsStep, Knowledge

LEMMA StepGrows ==
  ASSUME LP!LifecycleInv, TypedInv, KnowledgeInv, [Next]_vars
  PROVE  KnowledgeInv' /\ GrowsStep
<1>1. CASE UNCHANGED vars
  BY <1>1, SameKnowledge DEF vars, KnowledgeInv
<1>2. CASE Initialize
  BY <1>2, SameKnowledge DEF Initialize, KnowledgeInv
<1>3. ASSUME NEW c \in Clients, Seed(c) \/ Rollout(c) \/ Evolve(c)
      PROVE  KnowledgeInv' /\ GrowsStep
  <2>1. UNCHANGED file
    BY <1>3 DEF Seed, SkipSeed, SeedObservations, RollbackSeed, Rollout, PrepareRollout,
         RecordExecution, IngestRollout, FinalizeBaseline, ResetManifest, Evolve, SampleTrain,
         ApplyWiki, ProposerContext, ProposeNothing, ProposeChange, Proposed, Gate, Abandon, Draft
  <2>2. QED
    BY <1>3, <2>1, SeedGrows, RolloutGrows, EvolveGrows, SameKnowledge
<1>4. ASSUME NEW c \in Clients, GiveUp(c) PROVE KnowledgeInv' /\ GrowsStep
  BY <1>4, SameKnowledge DEF GiveUp, KnowledgeInv, TypedInv
<1>5. ASSUME NEW c \in Clients, Commit(c) PROVE KnowledgeInv' /\ GrowsStep
  BY <1>5, CommitGrows DEF Commit, KnowledgeInv, TypedInv
<1>6. ASSUME NEW d \in RunDirs, Damage(d) PROVE KnowledgeInv' /\ GrowsStep
  <2>1. In("manifest", d) # The("wiki") /\ In("manifest", d) # The("impact")
    BY DEF In, The
  <2>2. QED
    BY <1>6, <2>1, SameKnowledge DEF Damage, KnowledgeInv, TypedInv
<1>7. QED
  BY <1>1, <1>2, <1>3, <1>4, <1>5, <1>6 DEF Next

(***************************************************************************)
(* Contract 8.3: the wiki and the impact history only grow, whatever       *)
(* commands of how many processes interleave, save for the rollback of a   *)
(* seed no baseline was finalized on.                                      *)
(***************************************************************************)
THEOREM KnowledgeOnlyGrows == Spec => KnowledgeKept
<1>1. Init => KnowledgeInv
  BY DEF Init, KnowledgeInv
<1>2. WorkflowInv /\ KnowledgeInv /\ [Next]_vars => KnowledgeInv' /\ GrowsStep
  BY StepGrows DEF WorkflowInv
<1>3. GrowsStep => [/\ Seqs!IsPrefix(History(The("impact")), History(The("impact"))')
                    /\ \/ Seqs!IsPrefix(History(The("wiki")), History(The("wiki"))')
                       \/ dom.best = None /\ dom'.seed = "none"]_vars
  BY DEF GrowsStep
<1>4. QED
  BY <1>1, <1>2, <1>3, WorkflowInvariance, PTL DEF Spec, KnowledgeKept

-----------------------------------------------------------------------------
(***************************************************************************)
(* The manifests the state names: a step adds at most the manifest its     *)
(* draft carries.                                                          *)
(***************************************************************************)

Carries(op, arg, m) ==
  /\ m = arg
  /\ op = "baseline-finalize" \/ (op = "ingest" /\ arg.score # Invalid)

LEMMA AppendedSet ==
  ASSUME NEW S, NEW s \in Seq(S), NEW e \in S
  PROVE  LET t == Append(s, e)
         IN  {t[i] : i \in 1..Len(t)} = {s[i] : i \in 1..Len(s)} \union {e}
<1> DEFINE t == Append(s, e)
<1>1. /\ Len(t) = Len(s) + 1 /\ t[Len(s) + 1] = e /\ Len(s) \in Nat
      /\ \A i \in 1..Len(s) : t[i] = s[i]
  BY AppendProperties
<1> HIDE DEF t
<1>2. \A i \in 1..Len(t) : i \in 1..Len(s) \/ i = Len(s) + 1
  BY <1>1
<1>3. \A i \in 1..Len(s) : i \in 1..Len(t)
  BY <1>1
<1>4. Len(s) + 1 \in 1..Len(t)
  BY <1>1
<1>5. {t[i] : i \in 1..Len(t)} = {s[i] : i \in 1..Len(s)} \union {e}
  BY <1>1, <1>2, <1>3, <1>4
<1>6. QED
  BY <1>5 DEF t

\* The fields Named reads: each keeps its value, drops it, or takes x.
Names(x) ==
  /\ \/ dom'.consumed = dom.consumed
     \/ \E m \in {dom.current, x} \ {None}, by \in LP!Uses :
          /\ m \in Scored(Scores)
          /\ dom'.consumed = Append(dom.consumed, [manifest |-> m, by |-> by])
  /\ dom'.current \in {dom.current, x, None}
  /\ dom'.provisionalManifest \in {dom.provisionalManifest, dom.current, None}
  /\ \A ph \in Tests : dom'.tests[ph] \in {dom.tests[ph], x}

LEMMA NamedStep ==
  ASSUME LP!LifecycleInv, NEW x, Names(x)
  PROVE  \A m \in Named' : m \in Named \/ m = x
<1>1. \A m \in {e.manifest : e \in Consumed'} : m \in {e.manifest : e \in Consumed} \/ m \in {dom.current, x} \ {None}
  <2>1. CASE dom'.consumed = dom.consumed
    BY <2>1 DEF Consumed
  <2>2. ASSUME NEW m \in {dom.current, x} \ {None}, NEW by \in LP!Uses, m \in Scored(Scores),
               dom'.consumed = Append(dom.consumed, [manifest |-> m, by |-> by])
        PROVE  \A n \in {e.manifest : e \in Consumed'} :
                 n \in {e.manifest : e \in Consumed} \/ n \in {dom.current, x} \ {None}
    <3> DEFINE e == [manifest |-> m, by |-> by]
    <3>1. e \in [manifest : Scored(Scores), by : LP!Uses] /\ e.manifest = m
      BY <2>2
    <3>2. dom'.consumed = Append(dom.consumed, e)
      BY <2>2
    <3> HIDE DEF e
    <3>3. Consumed' = Consumed \union {e}
      BY <3>1, <3>2, AppendedSet, DomTypes DEF Consumed
    <3>4. QED
      BY <3>1, <3>3
  <2>3. QED
    BY <2>1, <2>2 DEF Names
<1>2. QED
  BY <1>1 DEF Names, Named

\* The state as a record whose fields can be changed one by one.
LEMMA DomRecord ==
  ASSUME LP!LifecycleInv
  PROVE  dom \in LP!DomainState
BY DEF LP!LifecycleInv, LP!TypeOK

LEMMA AdvanceNames ==
  ASSUME NEW d \in LP!DomainState, NEW op, L!Become(op, L!Advance(d))
  PROVE  /\ dom'.consumed = d.consumed /\ dom'.tests = d.tests
         /\ dom'.current = None /\ dom'.provisionalManifest = None
BY DEF L!Become, L!Advance, LP!DomainState

LEMMA ConsumeNames ==
  ASSUME NEW d \in LP!DomainState, NEW m \in Scored(Scores), NEW by \in LP!Uses
  PROVE  /\ L!Consume(d, m, by) \in LP!DomainState
         /\ L!Consume(d, m, by).consumed = Append(d.consumed, [manifest |-> m, by |-> by])
         /\ L!Consume(d, m, by).tests = d.tests
         /\ L!Consume(d, m, by).candidate = d.candidate
         /\ L!Consume(d, m, by).current = d.current
         /\ L!Consume(d, m, by).provisionalManifest = d.provisionalManifest
<1> DEFINE a == Append(d.consumed, [manifest |-> m, by |-> by])
<1>1. /\ LP!Consume(d, m, by) \in LP!DomainState
      /\ LP!Consume(d, m, by) = [d EXCEPT !.consumed = a]
  BY LP!ConsumeFacts, SameConstants
<1>2. L!Consume(d, m, by) = LP!Consume(d, m, by)
  BY DEF L!Consume, LP!Consume
<1> HIDE DEF a
<1>3. /\ [d EXCEPT !.consumed = a].consumed = a /\ [d EXCEPT !.consumed = a].tests = d.tests
      /\ [d EXCEPT !.consumed = a].candidate = d.candidate
      /\ [d EXCEPT !.consumed = a].current = d.current
      /\ [d EXCEPT !.consumed = a].provisionalManifest = d.provisionalManifest
  BY DEF LP!DomainState
<1>4. QED
  BY <1>1, <1>2, <1>3 DEF a

LEMMA FoundNames ==
  ASSUME LP!LifecycleInv, L!SkipSeed \/ L!SeedObservations \/ L!RollbackSeed \/ L!ResetManifest
  PROVE  Names(None)
BY DomRecord DEF Names, L!SkipSeed, L!SeedObservations, L!RollbackSeed, L!ResetManifest, L!Become,
     LP!DomainState

LEMMA IngestNames ==
  ASSUME LP!LifecycleInv, NEW m \in Scored(Scores),
         \/ L!IngestTrain(m) \/ L!IngestVal(m, m.score) \/ L!IngestConfirm(m, m.score)
         \/ \E phase \in Tests : L!IngestTest(phase, m)
  PROVE  Names(m)
<1>1. CASE L!IngestTrain(m) \/ L!IngestVal(m, m.score) \/ L!IngestConfirm(m, m.score)
  BY <1>1, DomRecord DEF Names, L!IngestTrain, L!IngestVal, L!IngestConfirm, L!Own, L!Become,
       LP!DomainState
<1>2. ASSUME NEW phase \in Tests, L!IngestTest(phase, m) PROVE Names(m)
  BY <1>2, DomRecord DEF Names, L!IngestTest, L!Become, LP!DomainState, Tests, LP!TestPhases
<1>3. QED
  BY <1>1, <1>2

LEMMA BaselineNames ==
  ASSUME LP!LifecycleInv, NEW m \in Scored(Scores), L!FinalizeBaseline(m, m.score, Empty)
  PROVE  Names(m)
<1> DEFINE d == [dom EXCEPT !.best = m.score, !.active = Empty, !.iteration = 1,
                            !.state = IF m.score = Perfect THEN "DONE" ELSE "NEEDS_TRAIN_RUN"]
<1>1. d \in LP!DomainState
  <2>1. /\ m.score \in LP!Scores /\ 1 \in 0..(MaxIterations + 1)
        /\ (IF m.score = Perfect THEN "DONE" ELSE "NEEDS_TRAIN_RUN") \in LP!States
    BY ConstantTypes DEF Scored, Scores, LP!Scores, LP!States, LP!Evolving
  <2>2. QED
    BY <2>1, DomRecord, ConstantTypes, LP!BaselineType, SameConstants
<1>2. /\ d.consumed = dom.consumed /\ d.current = dom.current /\ d.tests = dom.tests
      /\ d.provisionalManifest = dom.provisionalManifest
  BY DomRecord DEF LP!DomainState
<1>3. L!Become("baseline-finalize", L!Consume(d, m, "baseline-finalize"))
  BY DEF L!FinalizeBaseline
<1> HIDE DEF d
<1> DEFINE e == L!Consume(d, m, "baseline-finalize")
<1>4. /\ e \in LP!DomainState
      /\ e.consumed = Append(dom.consumed, [manifest |-> m, by |-> "baseline-finalize"])
      /\ e.current = dom.current /\ e.tests = dom.tests
      /\ e.provisionalManifest = dom.provisionalManifest
  <2>1. "baseline-finalize" \in LP!Uses
    BY DEF LP!Uses
  <2>2. QED
    BY <1>1, <1>2, <2>1, ConsumeNames
<1> HIDE DEF e
<1>5. /\ dom'.consumed = e.consumed /\ dom'.current = e.current /\ dom'.tests = e.tests
      /\ dom'.provisionalManifest = e.provisionalManifest
  BY <1>3, <1>4 DEF e, L!Become, LP!DomainState
<1>6. m # None
  BY ConstantTypes
<1>7. QED
  BY <1>4, <1>5, <1>6 DEF Names, LP!Uses

\* What is consumed and settled in one step.
LEMMA SettledNames ==
  ASSUME LP!LifecycleInv, dom.current \in Scored(Scores), NEW by \in LP!Uses, NEW d, NEW op,
         d \in LP!DomainState, d.consumed = dom.consumed, d.tests = dom.tests,
         L!Become(op, L!Advance(L!Consume(d, dom.current, by)))
  PROVE  Names(None)
<1> DEFINE e == L!Consume(d, dom.current, by)
<1>1. /\ e \in LP!DomainState /\ e.tests = dom.tests
      /\ e.consumed = Append(dom.consumed, [manifest |-> dom.current, by |-> by])
  BY ConsumeNames
<1>2. L!Become(op, L!Advance(e))
  OBVIOUS
<1> HIDE DEF e
<1>3. /\ dom'.consumed = e.consumed /\ dom'.tests = e.tests
      /\ dom'.current = None /\ dom'.provisionalManifest = None
  BY <1>1, <1>2, AdvanceNames
<1>4. dom.current # None
  BY ConstantTypes
<1>5. QED
  BY <1>1, <1>3, <1>4 DEF Names

LEMMA OwnedCurrent ==
  ASSUME LP!LifecycleInv, NEW phases, L!Owns(phases)
  PROVE  dom.current \in Scored(Scores)
BY DomTypes DEF L!Owns

LEMMA WikiNames ==
  ASSUME LP!LifecycleInv, L!ApplyWiki
  PROVE  Names(None)
<1> DEFINE d == [dom EXCEPT !.state = "NEEDS_PROPOSAL", !.current = None, !.currentPhase = "none"]
           a == Append(d.consumed, [manifest |-> dom.current, by |-> "apply-wiki"])
<1>1. dom.current \in Scored(Scores) /\ dom.current # None
  BY OwnedCurrent, ConstantTypes DEF L!ApplyWiki
<1>2. /\ d.consumed = dom.consumed
      /\ dom' = [[d EXCEPT !.consumed = a] EXCEPT !.last = "apply-wiki"]
  BY DomRecord DEF L!ApplyWiki, L!Become, L!Consume, LP!DomainState
<1> HIDE DEF a
<1>3. /\ dom'.consumed = a /\ dom'.current = None /\ dom'.tests = dom.tests
      /\ dom'.provisionalManifest = dom.provisionalManifest
  BY <1>2, DomRecord DEF LP!DomainState
<1>4. a = Append(dom.consumed, [manifest |-> dom.current, by |-> "apply-wiki"])
  BY <1>2 DEF a
<1>5. "apply-wiki" \in LP!Uses
  BY DEF LP!Uses
<1>6. QED
  BY <1>1, <1>3, <1>4, <1>5 DEF Names

LEMMA ConfirmNames ==
  ASSUME LP!LifecycleInv, L!AskConfirmation
  PROVE  Names(None)
<1> DEFINE d == [dom EXCEPT !.state = "NEEDS_VAL_CONFIRM", !.provisionalManifest = dom.current,
                            !.current = None, !.currentPhase = "none"]
           a == Append(d.consumed, [manifest |-> dom.current, by |-> "gate-validation"])
<1>1. dom.current \in Scored(Scores) /\ dom.current # None
  BY OwnedCurrent, ConstantTypes DEF L!AskConfirmation
<1>2. /\ d.consumed = dom.consumed
      /\ dom' = [[d EXCEPT !.consumed = a] EXCEPT !.last = "gate"]
  BY DomRecord DEF L!AskConfirmation, L!Become, L!Consume, LP!DomainState
<1> HIDE DEF a
<1>3. /\ dom'.consumed = a /\ dom'.current = None /\ dom'.tests = dom.tests
      /\ dom'.provisionalManifest = dom.current
  BY <1>2, DomRecord DEF LP!DomainState
<1>4. a = Append(dom.consumed, [manifest |-> dom.current, by |-> "gate-validation"])
  BY <1>2 DEF a
<1>5. "gate-validation" \in LP!Uses
  BY DEF LP!Uses
<1>6. QED
  BY <1>1, <1>3, <1>4, <1>5 DEF Names


LEMMA PromotedNames ==
  ASSUME LP!LifecycleInv, dom.current \in Scored(Scores), dom.candidate \in Snapshots,
         NEW by \in LP!Uses, NEW score \in Scores,
         L!Become("gate", L!Promote(L!Consume(dom, dom.current, by), score))
  PROVE  Names(None)
<1> DEFINE e == L!Consume(dom, dom.current, by)
           g == [e EXCEPT !.best = score, !.active = e.candidate]
<1>1. /\ e \in LP!DomainState /\ e.tests = dom.tests /\ e.candidate = dom.candidate
      /\ e.consumed = Append(dom.consumed, [manifest |-> dom.current, by |-> by])
  BY ConsumeNames, DomRecord
<1>2. L!Become("gate", L!Advance(g))
  BY DEF L!Promote
<1> HIDE DEF e
<1>3. g \in LP!DomainState /\ g.tests = e.tests /\ g.consumed = e.consumed
  <2>1. score \in LP!Scores /\ e.candidate \in Snapshots
    BY <1>1 DEF Scores, LP!Scores
  <2>2. g \in LP!DomainState
    BY <1>1, <2>1 DEF LP!DomainState
  <2>3. g.tests = e.tests /\ g.consumed = e.consumed
    BY <1>1 DEF LP!DomainState
  <2>4. QED
    BY <2>2, <2>3
<1> HIDE DEF g
<1>4. /\ dom'.consumed = g.consumed /\ dom'.tests = g.tests
      /\ dom'.current = None /\ dom'.provisionalManifest = None
  BY <1>2, <1>3, AdvanceNames
<1>5. dom.current # None
  BY ConstantTypes
<1>6. QED
  BY <1>1, <1>3, <1>4, <1>5 DEF Names

LEMMA GateNames ==
  ASSUME LP!LifecycleInv, L!Gate
  PROVE  Names(None)
<1>1. /\ "gate-validation" \in LP!Uses /\ "gate-confirmation" \in LP!Uses
      /\ "gate-validation-reject" \in LP!Uses /\ "gate-confirmation-reject" \in LP!Uses
  BY DEF LP!Uses
<1>2. ASSUME L!Gated("validation") \/ L!Gated("confirmation")
      PROVE  /\ dom.candidate \in Snapshots /\ dom.provisional \in Scores
             /\ dom.gatePhase = "confirmation" => dom.confirmation \in Scores
  <2>1. dom.state = "NEEDS_GATE"
    BY <1>2 DEF L!Gated, L!At
  <2>2. QED
    BY <2>1, HasCandidate, DomTypes
       DEF L!Candidate, LP!LifecycleInv, LP!CandidateScope, LP!At
<1>3. CASE L!AcceptOnValidation
  <2>1. dom.current \in Scored(Scores)
    BY <1>3, OwnedCurrent DEF L!AcceptOnValidation
  <2>2. QED
    BY <1>1, <1>2, <1>3, <2>1, PromotedNames DEF L!AcceptOnValidation
<1>4. CASE L!AcceptOnConfirmation
  <2>1. dom.current \in Scored(Scores) /\ dom.gatePhase = "confirmation"
    BY <1>4, OwnedCurrent DEF L!AcceptOnConfirmation, L!Gated
  <2>2. L!LowerOf(dom.provisional, dom.confirmation) \in Scores
    BY <1>2, <1>4, <2>1 DEF L!LowerOf, L!AcceptOnConfirmation
  <2>3. QED
    BY <1>1, <1>2, <1>4, <2>1, <2>2, PromotedNames DEF L!AcceptOnConfirmation
<1>5. CASE L!Reject
  <2>1. dom.current \in Scored(Scores)
    BY <1>5, OwnedCurrent DEF L!Reject
  <2> DEFINE by == IF dom.gatePhase = "validation" THEN "gate-validation-reject"
                                                   ELSE "gate-confirmation-reject"
  <2>2. by \in LP!Uses /\ L!Become("gate", L!Advance(L!Consume(dom, dom.current, by)))
    BY <1>1, <1>5 DEF L!Reject
  <2> HIDE DEF by
  <2>3. QED
    BY <2>1, <2>2, SettledNames, DomRecord
<1>6. QED
  BY <1>3, <1>4, <1>5, ConfirmNames DEF L!Gate

LEMMA AbandonNames ==
  ASSUME LP!LifecycleInv, L!Abandon
  PROVE  Names(None)
<1>1. CASE dom.current = None
  <2>1. L!Become("abandon", L!Advance(dom))
    BY <1>1 DEF L!Abandon
  <2>2. QED
    BY <2>1, AdvanceNames, DomRecord DEF Names
<1>2. CASE dom.current # None
  <2>1. dom.current \in Scored(Scores) /\ "abandon" \in LP!Uses
    BY <1>2, DomTypes DEF LP!Uses
  <2>2. L!Become("abandon", L!Advance(L!Consume(dom, dom.current, "abandon")))
    BY <1>2 DEF L!Abandon
  <2>3. QED
    BY <2>1, <2>2, SettledNames, DomRecord
<1>3. QED
  BY <1>1, <1>2

LEMMA ProposalNames ==
  ASSUME LP!LifecycleInv, L!ProposeNothing \/ (\E snapshot \in Snapshots : L!ProposeChange(snapshot))
  PROVE  Names(None)
<1>1. CASE L!ProposeNothing
  BY <1>1, AdvanceNames, DomRecord DEF Names, L!ProposeNothing
<1>2. ASSUME NEW snapshot \in Snapshots, L!ProposeChange(snapshot) PROVE Names(None)
  BY <1>2, DomRecord DEF Names, L!ProposeChange, L!Become, LP!DomainState
<1>3. QED
  BY <1>1, <1>2

LEMMA TestNames ==
  ASSUME LP!LifecycleInv, NEW phase \in Tests, PreparedTest(phase)
  PROVE  Names(None)
<1>1. CASE L!PrepareTest(phase)
  BY <1>1, DomRecord DEF Names, L!PrepareTest, L!Become, LP!DomainState
<1>2. QED
  BY <1>1 DEF PreparedTest, Names

LEMMA TransitionNames ==
  ASSUME LP!LifecycleInv, NEW op, NEW arg, TypedArg(op, arg), Transition(op, arg)
  PROVE  \A m \in Named' : m \in Named \/ Carries(op, arg, m)
<1>1. ASSUME Names(None) PROVE \A m \in Named' : m \in Named
  BY <1>1, NamedStep DEF Named
<1>2. CASE UNCHANGED dom
  BY <1>2 DEF Named, Consumed
<1>3. CASE op = "baseline-finalize" /\ L!FinalizeBaseline(arg, arg.score, Empty)
  BY <1>3, BaselineNames, NamedStep DEF TypedArg, Carries
<1>4. CASE op = "ingest" /\ Ingested(arg)
  <2>1. CASE arg.score = Invalid
    BY <1>2, <1>4, <2>1 DEF Ingested
  <2>2. CASE arg.score # Invalid
    <3>1. arg \in Scored(Scores)
      BY <1>4, <2>2 DEF TypedArg, Scored
    <3>2. Names(arg)
      BY <1>4, <2>2, <3>1, IngestNames DEF Ingested
    <3>3. QED
      BY <1>4, <2>2, <3>2, NamedStep DEF Carries
  <2>3. QED
    BY <2>1, <2>2
<1>5. CASE op = "apply-proposal-change" /\ L!ProposeChange(arg)
  BY <1>1, <1>5, ProposalNames DEF TypedArg
<1>6. CASE op \in Tests /\ PreparedTest(op)
  BY <1>1, <1>6, TestNames
<1>7. CASE L!ApplyWiki \/ L!ProposeNothing \/ L!Gate \/ L!Abandon
  BY <1>1, <1>7, WikiNames, ProposalNames, GateNames, AbandonNames
<1>8. CASE L!SkipSeed \/ L!SeedObservations \/ L!RollbackSeed \/ L!ResetManifest
  BY <1>1, <1>8, FoundNames
<1>9. QED
  BY <1>2, <1>3, <1>4, <1>5, <1>6, <1>7, <1>8 DEF Transition

-----------------------------------------------------------------------------
(***************************************************************************)
(* Evidence.  A valid manifest lies where it belongs, over the job and the *)
(* answer it was made from, and every manifest the state names is on disk. *)
(* A draft made on an older state cannot change that: what it replaces in  *)
(* a run directory is absent or unusable, what it repeats is the same, and *)
(* the manifest it adds is bound to its job and its answer.                *)
(***************************************************************************)

OnDisk ==
  \A d \in RunDirs : Valid(In("manifest", d)) =>
    LET m == file[In("manifest", d)]
    IN  /\ m.phase = d[1] /\ m.iteration = d[2]
        /\ file[In("job", d)] = m.snapshot
        /\ file[In("execution", d)] = m.score /\ file[In("output", d)] = m.score

Backed(m) ==
  /\ <<m.phase, m.iteration>> \in RunDirs
  /\ file[In("manifest", <<m.phase, m.iteration>>)] = m

Unfit(x) == x \in {Absent, Corrupt} \/ x.score = Invalid

Repeats(out) == out # Keep /\ out.before = Absent /\ out.same

\* The manifest goes; the manifest comes with the run it was made from.
Drops(d, q) ==
  d.outs[q] # Keep /\ d.outs[q].to = Absent /\ ~d.outs[q].same /\ Unfit(d.outs[q].before)

Adds(d, dir) ==
  LET out == d.outs[In("manifest", dir)]
      m == out.to
  IN  /\ out.before = Absent /\ ~out.same
      /\ m.phase = dir[1] /\ m.iteration = dir[2]
      /\ m.score # Invalid =>
           /\ d.reads[In("job", dir)] = m.snapshot
           /\ d.reads[In("execution", dir)] = m.score /\ d.reads[In("output", dir)] = m.score
           /\ \A kind \in {"job", "execution", "output"} : d.outs[In(kind, dir)] = Keep

KeepsRun(d, dir) ==
  LET job == d.outs[In("job", dir)]
      execution == d.outs[In("execution", dir)]
      output == d.outs[In("output", dir)]
  IN  /\ job = Keep \/ Repeats(job)
      /\ d.outs[In("manifest", dir)] = Keep \/ Drops(d, In("manifest", dir)) \/ Adds(d, dir)
      /\ \/ execution = Keep
         \/ Drops(d, In("manifest", dir))
         \/ Repeats(execution) /\ output.to = execution.to
      /\ output = Keep \/ (Repeats(execution) /\ output.to = execution.to)

EvidentDraft(d) ==
  /\ \A dir \in RunDirs : KeepsRun(d, dir)
  /\ d.op = "ingest" /\ d.arg.score # Invalid =>
       /\ <<d.arg.phase, d.arg.iteration>> \in RunDirs
       /\ d.outs[In("manifest", <<d.arg.phase, d.arg.iteration>>)] = New(d.arg)
  /\ d.op = "baseline-finalize" =>
       /\ d.arg.phase = "baseline" /\ d.arg.iteration = 0 /\ d.arg.score # Invalid
       /\ d.reads[In("manifest", <<"baseline", 0>>)] = d.arg

EvidenceInv ==
  /\ OnDisk
  /\ \A m \in Named : Backed(m)
  /\ \A c \in Clients : pending[c] # Idle => EvidentDraft(pending[c])

\* The markers are no manifests, scores or snapshots.
LEMMA Markers ==
  /\ Absent \notin Snapshots /\ Absent \notin Scores /\ Absent # Invalid /\ Absent # Corrupt
  /\ Absent \notin Scored(Scores \union {Invalid}) /\ Corrupt \notin Scored(Scores \union {Invalid})
  /\ Invalid \notin Scores
  /\ Keep \notin Snapshots /\ Keep \notin Scores /\ Keep \notin Scored(Scores \union {Invalid})
  /\ Keep # Invalid
BY WorkflowMarkers DEF RunContents

LEMMA OutputIsNoMarker ==
  ASSUME NEW before \in RunContents \union {Absent}, NEW to \in RunContents \union {Absent},
         NEW same \in BOOLEAN
  PROVE  [before |-> before, to |-> to, same |-> same] # Keep
BY WorkflowMarkers

LEMMA RunContentsAre ==
  /\ Snapshots \subseteq RunContents /\ Scores \union {Invalid} \subseteq RunContents
  /\ Scored(Scores \union {Invalid}) \subseteq RunContents /\ Corrupt \in RunContents
BY DEF RunContents

\* Different directories and kinds are different files.
LEMMA DirsDiffer ==
  ASSUME NEW d \in RunDirs, NEW e \in RunDirs, NEW kind, NEW other, In(kind, d) = In(other, e)
  PROVE  kind = other /\ d = e
<1>1. kind = other /\ d[1] = e[1] /\ d[2] = e[2]
  BY DEF In
<1>2. d = <<d[1], d[2]>> /\ e = <<e[1], e[2]>>
  BY DEF RunDirs
<1>3. QED
  BY <1>1, <1>2

LEMMA NamedScored ==
  ASSUME LP!LifecycleInv, NEW m \in Named
  PROVE  m \in Scored(Scores) /\ m.score \in Scores
<1>1. m \in Scored(Scores)
  <2>1. dom.consumed \in Seq([manifest : Scored(Scores), by : LP!Uses])
    BY DomTypes
  <2>2. \A e \in Consumed : e \in [manifest : Scored(Scores), by : LP!Uses]
    <3> DEFINE s == dom.consumed
    <3>1. ASSUME NEW i \in 1..Len(s)
          PROVE  s[i] \in [manifest : Scored(Scores), by : LP!Uses]
      <4> HIDE DEF s
      <4>1. s \in Seq([manifest : Scored(Scores), by : LP!Uses])
        BY <2>1 DEF s
      <4>2. QED
        BY <4>1, ElementOfSeq
    <3>2. QED
      BY <3>1 DEF Consumed
  <2>3. \A e \in Consumed : e.manifest \in Scored(Scores)
    BY <2>2
  <2>4. \A ph \in Tests : dom.tests[ph] \in Scored(Scores) \union {None}
    BY DomTypes
  <2>5. QED
    BY <2>3, <2>4, DomTypes DEF Named
<1>2. QED
  BY <1>1 DEF Scored

LEMMA ValidScore ==
  ASSUME TypedInv, NEW d \in RunDirs, Valid(In("manifest", d))
  PROVE  file[In("manifest", d)] \in Scored(Scores)
<1>1. In("manifest", d) \in Paths
  BY PathsOf DEF RunFiles
<1>2. QED
  BY <1>1, FileTypes, KindOf, HoldsWhat DEF TypedInv, Valid, Readable, Scored

LEMMA BackedValid ==
  ASSUME NEW m \in Scored(Scores), Backed(m)
  PROVE  Valid(In("manifest", <<m.phase, m.iteration>>))
BY Markers DEF Backed, Valid, Readable, Scored

\* What the run of a valid manifest rests on survives a commit.
LEMMA RunSurvives ==
  ASSUME TypedInv, OnDisk, NEW c \in Clients, Commit(c), EvidentDraft(pending[c]),
         NEW d \in RunDirs, Valid(In("manifest", d))
  PROVE  /\ file'[In("manifest", d)] = file[In("manifest", d)]
         /\ \A kind \in {"job", "execution", "output"} : file'[In(kind, d)] = file[In(kind, d)]
<1> DEFINE r == pending[c]
           m == file[In("manifest", d)]
<1>1. \A kind \in RunFiles : In(kind, d) \in Paths
  BY PathsOf
<1>2. m \in Scored(Scores) /\ m \notin {Absent, Corrupt} /\ m.score # Invalid
  BY ValidScore DEF Valid, Readable
<1>3. /\ file[In("job", d)] = m.snapshot /\ m.snapshot # Absent
      /\ file[In("execution", d)] = m.score /\ file[In("output", d)] = m.score /\ m.score # Absent
  BY <1>2, Markers DEF OnDisk, Scored
<1>4. KeepsRun(r, d)
  BY DEF EvidentDraft
<1>5. ~Drops(r, In("manifest", d)) /\ (Adds(r, d) => r.outs[In("manifest", d)] = Keep)
  <2>1. In("manifest", d) \in Paths
    BY <1>1 DEF RunFiles
  <2>2. QED
    BY <1>2, <2>1, Committed DEF Drops, Adds, Unfit
<1>6. r.outs[In("manifest", d)] = Keep
  BY <1>4, <1>5 DEF KeepsRun
<1>7. ASSUME NEW kind \in RunFiles, r.outs[In(kind, d)] = Keep
      PROVE  file'[In(kind, d)] = file[In(kind, d)]
  BY <1>1, <1>7, Committed
<1>8. ASSUME NEW kind \in RunFiles, Repeats(r.outs[In(kind, d)]), file[In(kind, d)] # Absent
      PROVE  /\ file'[In(kind, d)] = file[In(kind, d)]
             /\ file[In(kind, d)] = r.outs[In(kind, d)].to
  BY <1>1, <1>8, Committed DEF Repeats
<1>9. file'[In("job", d)] = file[In("job", d)]
  BY <1>3, <1>4, <1>7, <1>8 DEF KeepsRun, RunFiles
<1>10. file'[In("execution", d)] = file[In("execution", d)]
  BY <1>3, <1>4, <1>5, <1>7, <1>8 DEF KeepsRun, RunFiles
<1>11. file'[In("output", d)] = file[In("output", d)]
  <2>1. CASE r.outs[In("output", d)] = Keep
    BY <1>7, <2>1 DEF RunFiles
  <2>2. CASE r.outs[In("output", d)] # Keep
    <3>1. /\ Repeats(r.outs[In("execution", d)])
          /\ r.outs[In("output", d)].to = r.outs[In("execution", d)].to
      BY <1>4, <2>2 DEF KeepsRun
    <3>2. r.outs[In("output", d)].to = m.score
      BY <1>3, <1>8, <3>1 DEF RunFiles
    <3>3. In("output", d) \in Paths
      BY <1>1 DEF RunFiles
    <3>4. QED
      BY <1>3, <2>2, <3>2, <3>3, Committed
  <2>3. QED
    BY <2>1, <2>2
<1>12. QED
  BY <1>6, <1>7, <1>9, <1>10, <1>11 DEF RunFiles

DraftOf(op, arg, outs, deps) ==
  [op |-> op, arg |-> arg,
   outs |-> [q \in Paths |-> IF q \in DOMAIN outs THEN outs[q] ELSE Keep],
   reads |-> [q \in Paths |-> IF q \in deps THEN file[q] ELSE Keep]]

LEMMA DraftAt ==
  ASSUME NEW op, NEW arg, NEW outs, NEW deps, NEW q \in Paths
  PROVE  LET d == DraftOf(op, arg, outs, deps)
         IN  /\ d.op = op /\ d.arg = arg
             /\ q \in DOMAIN outs => d.outs[q] = outs[q]
             /\ q \notin DOMAIN outs => d.outs[q] = Keep
             /\ q \in deps => d.reads[q] = file[q]
BY DEF DraftOf

LEMMA DraftEvident ==
  ASSUME TypedInv, EvidenceInv, NEW c \in Clients, NEW op, NEW arg, NEW outs, NEW deps,
         Draft(c, op, arg, outs, deps), EvidentDraft(DraftOf(op, arg, outs, deps))
  PROVE  EvidenceInv'
<1> DEFINE d == DraftOf(op, arg, outs, deps)
<1>1. pending' = [pending EXCEPT ![c] = d] /\ UNCHANGED <<dom, file>>
  BY DEF Draft, DraftOf
<1> HIDE DEF d
<1>2. \A e \in Clients : pending'[e] # Idle => EvidentDraft(pending'[e])
  BY <1>1 DEF TypedInv, EvidenceInv, d
<1>3. OnDisk' /\ (\A m \in Named' : Backed(m)')
  BY <1>1 DEF EvidenceInv, OnDisk, Valid, Readable, Named, Consumed, Backed
<1>4. QED
  BY <1>2, <1>3 DEF EvidenceInv

\* Most drafts leave the run directories alone.
Elsewhere(outs) == \A q \in DOMAIN outs : q[1] \notin RunFiles

LEMMA ElsewhereParts ==
  /\ Elsewhere(Nothing)
  /\ \A q, x : q[1] \notin RunFiles => Elsewhere(Only(q, x))
  /\ \A f, g : Elsewhere(f) /\ Elsewhere(g) => Elsewhere(f ++ g)
BY DEF Elsewhere, Nothing, Only, ++

LEMMA ElsewhereKeeps ==
  ASSUME NEW op, NEW arg, NEW outs, NEW deps, Elsewhere(outs)
  PROVE  \A dir \in RunDirs : KeepsRun(DraftOf(op, arg, outs, deps), dir)
<1> DEFINE d == DraftOf(op, arg, outs, deps)
<1>1. ASSUME NEW dir \in RunDirs, NEW kind \in RunFiles PROVE d.outs[In(kind, dir)] = Keep
  <2>1. In(kind, dir) \in Paths /\ In(kind, dir) \notin DOMAIN outs
    BY PathsOf, KindOf DEF Elsewhere
  <2>2. QED
    BY <2>1, DraftAt
<1> HIDE DEF d
<1>2. QED
  BY <1>1 DEF KeepsRun, RunFiles, d

LEMMA ElsewhereEvident ==
  ASSUME TypedInv, EvidenceInv, NEW c \in Clients, NEW op, NEW arg, NEW outs, NEW deps,
         Draft(c, op, arg, outs, deps), Elsewhere(outs), op \notin {"ingest", "baseline-finalize"}
  PROVE  EvidenceInv'
<1>1. DraftOf(op, arg, outs, deps).op = op
  BY DEF DraftOf
<1>2. \A dir \in RunDirs : KeepsRun(DraftOf(op, arg, outs, deps), dir)
  BY ElsewhereKeeps
<1>3. EvidentDraft(DraftOf(op, arg, outs, deps))
  BY <1>1, <1>2 DEF EvidentDraft
<1>4. QED
  BY <1>3, DraftEvident

LEMMA KnowledgeElsewhere ==
  /\ \A outcome, candidate, scores : Elsewhere(Recorded(outcome, candidate, scores))
  /\ \A m : Elsewhere(RawEvidence(m))
<1>1. \A outcome, candidate, scores : Elsewhere(Recorded(outcome, candidate, scores))
  BY ElsewhereParts, KindOf DEF Recorded, RunFiles
<1>2. \A m : Elsewhere(RawEvidence(m))
  BY ElsewhereParts, KindOf DEF RawEvidence, RunFiles
<1>3. QED
  BY <1>1, <1>2

LEMMA SeedEvident ==
  ASSUME TypedInv, EvidenceInv, NEW c \in Clients, Seed(c)
  PROVE  EvidenceInv'
<1>1. CASE SkipSeed(c)
  BY <1>1, ElsewhereParts, ElsewhereEvident DEF SkipSeed
<1>2. CASE SeedObservations(c)
  <2>1. Elsewhere(Only(The("seed"), New(Empty)) ++ Only(The("wiki"), New(SeededWiki)))
    BY ElsewhereParts, KindOf DEF RunFiles
  <2>2. QED
    BY <1>2, <2>1, ElsewhereEvident DEF SeedObservations
<1>3. CASE RollbackSeed(c)
  <2>1. Elsewhere(Delete({The("seed"), The("wiki")}))
    BY KindOf DEF Elsewhere, Delete, RunFiles
  <2>2. QED
    BY <1>3, <2>1, ElsewhereEvident DEF RollbackSeed
<1>4. QED
  BY <1>1, <1>2, <1>3 DEF Seed

\* A path is the file of a directory only by its kind, phase and iteration.
LEMMA SameFile ==
  ASSUME NEW d \in RunDirs, NEW phase, NEW k, NEW kind, NEW other,
         In(kind, d) = In(other, <<phase, k>>)
  PROVE  kind = other /\ d = <<phase, k>>
<1>1. kind = other /\ d[1] = phase /\ d[2] = k
  BY DEF In
<1>2. d = <<d[1], d[2]>>
  BY DEF RunDirs
<1>3. QED
  BY <1>1, <1>2

LEMMA RunFileContents ==
  ASSUME TypedInv, NEW kind \in RunFiles, NEW d \in RunDirs
  PROVE  In(kind, d) \in Paths /\ file[In(kind, d)] \in RunContents \union {Absent}
<1>1. In(kind, d) \in Paths
  BY PathsOf
<1>2. file[In(kind, d)] \in Holds(kind) \union {Absent}
  BY <1>1, KindOf DEF TypedInv, TypedFiles
<1>3. Holds(kind) \subseteq RunContents
  BY HoldsWhat, RunContentsAre DEF RunFiles
<1>4. QED
  BY <1>1, <1>2, <1>3

LEMMA PrepareEvident ==
  ASSUME TypedInv, EvidenceInv, NEW c \in Clients, NEW phase \in Phases,
         PrepareRollout(c, phase)
  PROVE  EvidenceInv'
<1> DEFINE op == IF phase \in Tests THEN phase ELSE "persist"
           outs == Only(In("job", Dir(phase)), Kept(Pointer(phase)))
           d == DraftOf(op, None, outs, {})
<1>1. d.op \notin {"ingest", "baseline-finalize"}
  BY DEF DraftOf, Tests
<1>2. ASSUME NEW dir \in RunDirs PROVE KeepsRun(d, dir)
  <2>1. \A kind \in RunFiles : In(kind, dir) \in Paths
    BY PathsOf
  <2>2. \A kind \in RunFiles : kind # "job" => In(kind, dir) \notin DOMAIN outs
    BY DEF Only, In
  <2>3. \A kind \in RunFiles : kind # "job" => d.outs[In(kind, dir)] = Keep
    <3> HIDE DEF outs, op
    <3>1. QED
      BY <2>1, <2>2, DraftAt
  <2>4. d.outs[In("job", dir)] \in {Keep, Kept(Pointer(phase))}
    <3>1. In("job", dir) \in DOMAIN outs => outs[In("job", dir)] = Kept(Pointer(phase))
      BY DEF Only
    <3> HIDE DEF outs, op
    <3>2. QED
      BY <2>1, <3>1, DraftAt DEF RunFiles
  <2> HIDE DEF d
  <2>5. QED
    BY <2>3, <2>4 DEF KeepsRun, Repeats, Kept, RunFiles
<1>3. EvidentDraft(d)
  BY <1>1, <1>2 DEF EvidentDraft
<1>4. Draft(c, op, None, outs, {})
  BY DEF PrepareRollout
<1> HIDE DEF op, outs
<1>5. QED
  BY <1>3, <1>4, DraftEvident

LEMMA RecordEvident ==
  ASSUME TypedInv, EvidenceInv, NEW c \in Clients, NEW phase \in Phases,
         NEW answer \in Answers[phase], RecordExecution(c, phase, answer)
  PROVE  EvidenceInv'
<1> DEFINE execution == In("execution", Dir(phase))
           output == In("output", Dir(phase))
           replacing == file[execution] = Absent /\ file[output] # Absent
           kept == [Kept(answer) EXCEPT !.before = IF replacing THEN file[output] ELSE Absent]
           outs == Only(execution, Kept(answer)) ++ Only(output, kept)
           deps == {In("job", Dir(phase))}
           d == DraftOf("persist", None, outs, deps)
<1>1. Draft(c, "persist", None, outs, deps)
  BY DEF RecordExecution
<1>2. DOMAIN outs = {execution, output} /\ outs[execution] = Kept(answer)
      /\ outs[output].to = answer
  <2>1. execution # output
    BY DEF In
  <2>2. kept.to = answer
    BY DEF Kept
  <2> HIDE DEF kept, execution, output
  <2>3. QED
    BY <2>1, <2>2 DEF Only, ++
<1>3. Kept(answer).to = answer /\ Repeats(Kept(answer))
  <2>1. answer \in RunContents
    BY WorkflowConstants, RunContentsAre
  <2>2. Kept(answer) # Keep
    BY <2>1, OutputIsNoMarker DEF Kept
  <2>3. QED
    BY <2>2 DEF Repeats, Kept
<1>4. \A dir \in RunDirs : /\ In("job", dir) \notin {execution, output}
                           /\ In("manifest", dir) \notin {execution, output}
                           /\ In("execution", dir) # output /\ In("output", dir) # execution
                           /\ In("output", dir) = output <=> In("execution", dir) = execution
  BY DEF In
<1> HIDE DEF outs, execution, output, deps
<1>5. ASSUME NEW dir \in RunDirs PROVE KeepsRun(d, dir)
  <2>1. \A kind \in RunFiles : In(kind, dir) \in Paths
    BY PathsOf
  <2>2. d.outs[In("job", dir)] = Keep /\ d.outs[In("manifest", dir)] = Keep
    BY <1>2, <1>4, <2>1, DraftAt DEF RunFiles
  <2>3. CASE In("execution", dir) = execution
    <3>1. /\ d.outs[In("execution", dir)] = Kept(answer)
          /\ d.outs[In("output", dir)].to = answer
      BY <1>2, <1>4, <2>1, <2>3, DraftAt DEF RunFiles
    <3> HIDE DEF d
    <3>2. QED
      BY <1>3, <2>2, <3>1 DEF KeepsRun
  <2>4. CASE In("execution", dir) # execution
    <3>1. /\ d.outs[In("execution", dir)] = Keep
          /\ d.outs[In("output", dir)] = Keep
      BY <1>2, <1>4, <2>1, <2>4, DraftAt DEF RunFiles
    <3> HIDE DEF d
    <3>2. QED
      BY <2>2, <3>1 DEF KeepsRun
  <2>5. QED
    BY <2>3, <2>4
<1>6. d.op = "persist"
  BY DEF DraftOf
<1>7. EvidentDraft(d)
  <2> HIDE DEF d
  <2>1. QED
    BY <1>5, <1>6 DEF EvidentDraft
<1>8. QED
  BY <1>1, <1>7, DraftEvident

LEMMA IngestEvident ==
  ASSUME LP!LifecycleInv, TypedInv, EvidenceInv, NEW c \in Clients, NEW phase \in Phases,
         IngestRollout(c, phase)
  PROVE  EvidenceInv'
<1> DEFINE dir == Dir(phase)
           answer == file[In("execution", dir)]
           m == [phase |-> phase, iteration |-> dir[2], snapshot |-> Pointer(phase),
                 score |-> IF file[In("job", dir)] = Pointer(phase) THEN answer ELSE Invalid]
           op == IF phase = "baseline" THEN "persist" ELSE "ingest"
           outs == Only(In("manifest", dir), New(m)) ++ RawEvidence(m)
           deps == {In(kind, dir) : kind \in {"job", "execution", "output"}}
           d == DraftOf(op, m, outs, deps)
<1>1. Draft(c, op, m, outs, deps)
  BY DEF IngestRollout
<1>2. dir \in RunDirs /\ dir = <<phase, dir[2]>>
  BY PhaseTypes DEF IngestRollout
<1>3. /\ m.phase = dir[1] /\ m.iteration = dir[2] /\ <<m.phase, m.iteration>> = dir
      /\ m.score # Invalid => /\ file[In("job", dir)] = m.snapshot
                              /\ file[In("execution", dir)] = m.score
                              /\ file[In("output", dir)] = m.score
  BY <1>2 DEF IngestRollout
<1>4. op # "baseline-finalize" /\ d.op = op /\ d.arg = m
  BY DEF DraftOf
<1> HIDE DEF m, dir, op
<1>5. /\ In("manifest", dir) \in DOMAIN outs /\ outs[In("manifest", dir)] = New(m)
      /\ \A q \in DOMAIN outs : q = In("manifest", dir) \/ q[1] \notin RunFiles
  BY KnowledgeElsewhere DEF Elsewhere, Only, ++
<1> HIDE DEF outs, d
<1>6. \A e \in RunDirs : \A kind \in RunFiles :
        d.outs[In(kind, e)] = IF kind = "manifest" /\ e = dir THEN New(m) ELSE Keep
  <2>1. ASSUME NEW e \in RunDirs, NEW kind \in RunFiles
        PROVE  /\ In(kind, e) \in Paths /\ In(kind, e)[1] \in RunFiles
               /\ In(kind, e) = In("manifest", dir) <=> (kind = "manifest" /\ e = dir)
    BY <1>2, PathsOf, KindOf, DirsDiffer
  <2>2. QED
    BY <1>5, <2>1, DraftAt DEF d
<1>7. \A kind \in {"job", "execution", "output"} : d.reads[In(kind, dir)] = file[In(kind, dir)]
  <2>1. \A kind \in {"job", "execution", "output"} :
          In(kind, dir) \in Paths /\ In(kind, dir) \in deps
    BY <1>2, PathsOf DEF RunFiles
  <2> HIDE DEF deps
  <2>2. QED
    BY <2>1, DraftAt DEF d
<1>8. ASSUME NEW e \in RunDirs PROVE KeepsRun(d, e)
  <2>1. CASE e = dir
    <3>1. Adds(d, dir)
      BY <1>2, <1>3, <1>6, <1>7 DEF Adds, New, RunFiles
    <3>2. QED
      BY <1>2, <1>6, <2>1, <3>1 DEF KeepsRun, RunFiles
  <2>2. CASE e # dir
    BY <1>6, <2>2 DEF KeepsRun, RunFiles
  <2>3. QED
    BY <2>1, <2>2
<1>9. EvidentDraft(d)
  BY <1>2, <1>3, <1>4, <1>6, <1>8 DEF EvidentDraft, RunFiles
<1>10. QED
  BY <1>1, <1>9, DraftEvident DEF d

\* A manifest that carries no score can go.
LEMMA UnfitGoes ==
  ASSUME TypedInv, NEW dir \in RunDirs, ~Valid(In("manifest", dir)),
         NEW d, d.outs[In("manifest", dir)]
                  = [before |-> file[In("manifest", dir)], to |-> Absent, same |-> FALSE]
  PROVE  Drops(d, In("manifest", dir))
<1> DEFINE q == In("manifest", dir)
<1>1. file[q] \in RunContents \union {Absent}
  BY RunFileContents DEF RunFiles
<1>2. [before |-> file[q], to |-> Absent, same |-> FALSE] # Keep
  BY <1>1, OutputIsNoMarker
<1>3. Unfit(file[q])
  BY DEF Unfit, Valid, Readable
<1> HIDE DEF q
<1>4. QED
  BY <1>2, <1>3 DEF Drops, q

LEMMA ResetEvident ==
  ASSUME TypedInv, EvidenceInv, NEW c \in Clients, NEW phase \in Phases,
         ResetManifest(c, phase)
  PROVE  EvidenceInv'
<1> DEFINE manifest == In("manifest", Dir(phase))
           owned == {manifest, In("execution", Dir(phase))}
                      \union IF phase # "train" THEN {}
                             ELSE {Of("trace", Dir(phase)[2]), The("alias")}
           outs == Delete(Present(owned))
           d == DraftOf("reset-manifest", None, outs, Present(owned))
<1>1. /\ Draft(c, "reset-manifest", None, outs, Present(owned))
      /\ manifest \in Present(owned) /\ ~Valid(manifest)
  BY DEF ResetManifest, Present
<1>2. \A q \in Present(owned) : q[1] \in RunFiles => q \in {manifest, In("execution", Dir(phase))}
  BY KindOf DEF Present, RunFiles
<1>3. DOMAIN outs = Present(owned)
      /\ outs[manifest] = [before |-> file[manifest], to |-> Absent, same |-> FALSE]
  BY <1>1 DEF Delete
<1> HIDE DEF outs, owned
<1>4. ASSUME NEW dir \in RunDirs PROVE KeepsRun(d, dir)
  <2>1. \A kind \in RunFiles : In(kind, dir) \in Paths /\ In(kind, dir)[1] = kind
    BY PathsOf, KindOf
  <2>2. \A kind \in RunFiles : In(kind, dir) \in DOMAIN outs =>
          /\ kind \in {"manifest", "execution"}
          /\ In("manifest", dir) = manifest
    <3>1. \A kind \in RunFiles : In(kind, dir) \in DOMAIN outs =>
            In(kind, dir) \in {manifest, In("execution", Dir(phase))}
      BY <1>2, <1>3, <2>1
    <3>2. \A kind \in RunFiles : In(kind, dir) \in {manifest, In("execution", Dir(phase))} =>
            kind \in {"manifest", "execution"} /\ In("manifest", dir) = manifest
      BY DEF In
    <3>3. QED
      BY <3>1, <3>2
  <2>3. CASE In("manifest", dir) = manifest
    <3>1. d.outs[manifest] = [before |-> file[manifest], to |-> Absent, same |-> FALSE]
      <4>1. manifest \in Paths /\ manifest \in DOMAIN outs
        BY <1>1, <1>3, <2>1, <2>3 DEF RunFiles
      <4> HIDE DEF manifest
      <4>2. d.outs[manifest] = outs[manifest]
        BY <4>1, DraftAt
      <4>3. QED
        BY <1>3, <4>2
    <3>2. d.outs[In("job", dir)] = Keep /\ d.outs[In("output", dir)] = Keep
      BY <2>1, <2>2, DraftAt DEF RunFiles
    <3> HIDE DEF d, manifest
    <3>3. Drops(d, In("manifest", dir))
      BY <1>1, <2>3, <3>1, UnfitGoes
    <3>4. QED
      BY <3>2, <3>3 DEF KeepsRun
  <2>4. CASE In("manifest", dir) # manifest
    <3>1. \A kind \in RunFiles : d.outs[In(kind, dir)] = Keep
      BY <2>1, <2>2, <2>4, DraftAt
    <3> HIDE DEF d
    <3>2. QED
      BY <3>1 DEF KeepsRun, RunFiles
  <2>5. QED
    BY <2>3, <2>4
<1>5. d.op = "reset-manifest"
  BY DEF DraftOf
<1>6. EvidentDraft(d)
  <2> HIDE DEF d
  <2>1. QED
    BY <1>4, <1>5 DEF EvidentDraft
<1>7. QED
  BY <1>1, <1>6, DraftEvident

LEMMA FinalizeEvident ==
  ASSUME TypedInv, EvidenceInv, NEW c \in Clients, FinalizeBaseline(c)
  PROVE  EvidenceInv'
<1> DEFINE manifest == In("manifest", <<"baseline", 0>>)
           d == DraftOf("baseline-finalize", file[manifest], Nothing, {manifest})
<1>1. Valid(manifest) /\ Draft(c, "baseline-finalize", file[manifest], Nothing, {manifest})
  BY DEF FinalizeBaseline
<1>2. <<"baseline", 0>> \in RunDirs
  BY DEF RunDirs, Phases, Repeated
<1>3. manifest \in Paths
  BY <1>2, PathsOf DEF RunFiles
<1>4. file[manifest].phase = "baseline" /\ file[manifest].iteration = 0
      /\ file[manifest].score # Invalid
  BY <1>1, <1>2 DEF EvidenceInv, OnDisk, Valid
<1>5. d.op = "baseline-finalize" /\ d.arg = file[manifest] /\ d.reads[manifest] = file[manifest]
  BY <1>3 DEF DraftOf
<1>6. \A dir \in RunDirs : KeepsRun(d, dir)
  BY ElsewhereParts, ElsewhereKeeps
<1>7. EvidentDraft(d)
  <2> HIDE DEF d
  <2>1. QED
    BY <1>4, <1>5, <1>6 DEF EvidentDraft
<1>8. QED
  BY <1>1, <1>7, DraftEvident

LEMMA RolloutEvident ==
  ASSUME LP!LifecycleInv, TypedInv, EvidenceInv, NEW c \in Clients, Rollout(c)
  PROVE  EvidenceInv'
BY PrepareEvident, RecordEvident, IngestEvident, ResetEvident, FinalizeEvident DEF Rollout

LEMMA AbandonEvident ==
  ASSUME TypedInv, EvidenceInv, NEW c \in Clients, Abandon(c)
  PROVE  EvidenceInv'
<1> DEFINE record == Recorded("Abandoned", dom.candidate, <<>>)
           outs == record ++ Delete(Unusable)
           d == DraftOf("abandon", None, outs, Judgement)
<1>1. Draft(c, "abandon", None, outs, Judgement) /\ \A q \in Unusable : ~Valid(q)
  BY DEF Abandon, CanAbandon
<1>2. \A q \in Unusable : q[1] = "manifest"
  BY DEF Unusable, Present, ValRun, In
<1>3. \A q \in DOMAIN outs : q[1] \in RunFiles =>
        /\ q \in Unusable
        /\ outs[q] = [before |-> file[q], to |-> Absent, same |-> FALSE]
  <2>1. Elsewhere(record)
    BY KnowledgeElsewhere
  <2> HIDE DEF record
  <2>2. QED
    BY <2>1 DEF Elsewhere, Delete, ++
<1> HIDE DEF outs
<1>4. ASSUME NEW dir \in RunDirs PROVE KeepsRun(d, dir)
  <2>1. \A kind \in RunFiles : In(kind, dir) \in Paths /\ In(kind, dir)[1] = kind
    BY PathsOf, KindOf
  <2>2. \A kind \in RunFiles : kind # "manifest" => d.outs[In(kind, dir)] = Keep
    BY <1>2, <1>3, <2>1, DraftAt
  <2>3. CASE In("manifest", dir) \in DOMAIN outs
    <3>1. /\ ~Valid(In("manifest", dir))
          /\ d.outs[In("manifest", dir)]
               = [before |-> file[In("manifest", dir)], to |-> Absent, same |-> FALSE]
      <4> DEFINE q == In("manifest", dir)
      <4>1. q \in Paths /\ q[1] \in RunFiles
        BY <2>1 DEF RunFiles
      <4> HIDE DEF q
      <4>2. q \in DOMAIN outs
        BY <2>3 DEF q
      <4>3. d.outs[q] = outs[q]
        BY <4>1, <4>2, DraftAt
      <4>4. ~Valid(q) /\ outs[q] = [before |-> file[q], to |-> Absent, same |-> FALSE]
        BY <1>1, <1>3, <4>1, <4>2
      <4>5. QED
        BY <4>3, <4>4 DEF q
    <3> HIDE DEF d
    <3>2. Drops(d, In("manifest", dir))
      BY <3>1, UnfitGoes
    <3>3. QED
      BY <2>2, <3>2 DEF KeepsRun, RunFiles
  <2>4. CASE In("manifest", dir) \notin DOMAIN outs
    <3>1. d.outs[In("manifest", dir)] = Keep
      BY <2>1, <2>4, DraftAt DEF RunFiles
    <3> HIDE DEF d
    <3>2. QED
      BY <2>2, <3>1 DEF KeepsRun, RunFiles
  <2>5. QED
    BY <2>3, <2>4
<1>5. d.op = "abandon"
  BY DEF DraftOf
<1>6. EvidentDraft(d)
  <2> HIDE DEF d
  <2>1. QED
    BY <1>4, <1>5 DEF EvidentDraft
<1>7. QED
  BY <1>1, <1>6, DraftEvident

LEMMA EvolveEvident ==
  ASSUME TypedInv, EvidenceInv, NEW c \in Clients, Evolve(c)
  PROVE  EvidenceInv'
<1>1. \A kind \in StepFiles : \A k, x : Elsewhere(Only(Of(kind, k), x))
  BY ElsewhereParts, KindOf DEF StepFiles, RunFiles
<1>2. \A x : Elsewhere(Only(The("wiki"), x))
  BY ElsewhereParts, KindOf DEF RunFiles
<1>3. CASE SampleTrain(c)
  BY <1>1, <1>3, ElsewhereEvident DEF SampleTrain, StepFiles
<1>4. CASE ApplyWiki(c)
  BY <1>1, <1>2, <1>4, ElsewhereParts, ElsewhereEvident DEF ApplyWiki, StepFiles
<1>5. CASE ProposerContext(c)
  BY <1>1, <1>5, ElsewhereEvident DEF ProposerContext, StepFiles
<1>6. CASE ProposeNothing(c)
  BY <1>1, <1>6, KnowledgeElsewhere, ElsewhereParts, ElsewhereEvident
     DEF ProposeNothing, Proposed, StepFiles
<1>7. ASSUME NEW candidate \in Candidates, ProposeChange(c, candidate) PROVE EvidenceInv'
  BY <1>1, <1>7, ElsewhereParts, ElsewhereEvident DEF ProposeChange, Proposed, StepFiles
<1>8. CASE Gate(c)
  <2>1. Elsewhere(Verdict)
    BY KnowledgeElsewhere, ElsewhereParts DEF Verdict
  <2>2. QED
    BY <1>8, <2>1, ElsewhereEvident DEF Gate
<1>9. QED
  BY <1>3, <1>4, <1>5, <1>6, <1>7, <1>8, AbandonEvident DEF Evolve

\* A manifest that becomes valid is the one the commit adds, over its run.
LEMMA RunArrives ==
  ASSUME TypedInv, NEW c \in Clients, Commit(c), EvidentDraft(pending[c]),
         NEW d \in RunDirs, ~Valid(In("manifest", d)), Valid(In("manifest", d))'
  PROVE  LET m == file'[In("manifest", d)]
         IN  /\ m.phase = d[1] /\ m.iteration = d[2]
             /\ file'[In("job", d)] = m.snapshot
             /\ file'[In("execution", d)] = m.score /\ file'[In("output", d)] = m.score
<1> DEFINE r == pending[c]
           q == In("manifest", d)
           m == file'[q]
<1>1. \A kind \in RunFiles : In(kind, d) \in Paths
  BY PathsOf
<1>2. TypedInv'
  BY CommitTyped
<1>3. m \in Scored(Scores) /\ m \notin {Absent, Corrupt} /\ m.score # Invalid
  <2>1. m \in Holds("manifest") \union {Absent}
    BY <1>1, <1>2, KindOf DEF TypedInv, TypedFiles, RunFiles
  <2>2. m \notin {Absent, Corrupt} /\ m.score # Invalid
    BY DEF Valid, Readable
  <2>3. QED
    BY <2>1, <2>2, HoldsWhat DEF Scored
<1>4. r.outs[q] # Keep /\ m = r.outs[q].to
  <2>1. q \in Paths
    BY <1>1 DEF RunFiles
  <2>2. m # file[q]
    BY DEF Valid, Readable
  <2>3. QED
    BY <2>1, <2>2, Committed
<1>5. Adds(r, d)
  BY <1>3, <1>4 DEF EvidentDraft, KeepsRun, Drops
<1>6. /\ m.phase = d[1] /\ m.iteration = d[2]
      /\ r.reads[In("job", d)] = m.snapshot
      /\ r.reads[In("execution", d)] = m.score /\ r.reads[In("output", d)] = m.score
      /\ \A kind \in {"job", "execution", "output"} : r.outs[In(kind, d)] = Keep
  BY <1>3, <1>4, <1>5 DEF Adds
<1>7. m.snapshot # Keep /\ m.score # Keep
  BY <1>3, Markers DEF Scored
<1>8. \A p \in Paths : r.reads[p] # Keep => file[p] = r.reads[p]
  BY DEF Commit, P!Fits
<1>9. \A kind \in {"job", "execution", "output"} : file'[In(kind, d)] = file[In(kind, d)]
  BY <1>1, <1>6, Committed DEF RunFiles
<1>10. /\ file[In("job", d)] = m.snapshot
       /\ file[In("execution", d)] = m.score /\ file[In("output", d)] = m.score
  BY <1>1, <1>6, <1>7, <1>8 DEF RunFiles
<1>11. QED
  BY <1>6, <1>9, <1>10

LEMMA CommitOnDisk ==
  ASSUME TypedInv, EvidenceInv, NEW c \in Clients, Commit(c)
  PROVE  OnDisk'
<1>1. EvidentDraft(pending[c]) /\ OnDisk
  BY DEF EvidenceInv, Commit
<1>2. ASSUME NEW d \in RunDirs, Valid(In("manifest", d))'
      PROVE  LET m == file'[In("manifest", d)]
             IN  /\ m.phase = d[1] /\ m.iteration = d[2]
                 /\ file'[In("job", d)] = m.snapshot
                 /\ file'[In("execution", d)] = m.score /\ file'[In("output", d)] = m.score
  <2>1. CASE Valid(In("manifest", d))
    BY <1>1, <2>1, RunSurvives DEF OnDisk
  <2>2. CASE ~Valid(In("manifest", d))
    BY <1>1, <1>2, <2>2, RunArrives
  <2>3. QED
    BY <2>1, <2>2
<1>3. QED
  BY <1>2 DEF OnDisk

\* The manifest a commit makes the state name is on disk after it.
LEMMA CarriedBacked ==
  ASSUME TypedInv, EvidenceInv, NEW c \in Clients, Commit(c),
         NEW m, Carries(pending[c].op, pending[c].arg, m)
  PROVE  Backed(m)'
<1> DEFINE r == pending[c]
           d == <<m.phase, m.iteration>>
<1>1. EvidentDraft(r) /\ TypedArg(r.op, m) /\ OnDisk /\ m = r.arg
  BY DEF EvidenceInv, TypedInv, TypedDraft, Commit, Carries
<1>2. CASE r.op = "ingest" /\ m.score # Invalid
  <2>1. d \in RunDirs /\ r.outs[In("manifest", d)] = New(m)
    BY <1>1, <1>2 DEF EvidentDraft
  <2>2. m \in RunContents
    BY <1>1, <1>2, RunContentsAre DEF TypedArg
  <2>3. New(m) # Keep /\ New(m).to = m
    BY <2>2, OutputIsNoMarker DEF New
  <2>4. In("manifest", d) \in Paths
    BY <2>1, PathsOf DEF RunFiles
  <2>5. file'[In("manifest", d)] = m
    BY <2>1, <2>3, <2>4, Committed
  <2>6. QED
    BY <2>1, <2>5 DEF Backed
<1>3. CASE r.op = "baseline-finalize"
  <2>1. /\ d = <<"baseline", 0>> /\ m.score # Invalid
        /\ r.reads[In("manifest", d)] = m
    BY <1>1, <1>3 DEF EvidentDraft
  <2>2. d \in RunDirs
    BY <2>1 DEF RunDirs, Phases, Repeated
  <2>3. m \in Scored(Scores) /\ m # Keep /\ m \notin {Absent, Corrupt}
    BY <1>1, <1>3, Markers DEF TypedArg, Scored
  <2>4. In("manifest", d) \in Paths
    BY <2>2, PathsOf DEF RunFiles
  <2>5. file[In("manifest", d)] = m
    BY <2>1, <2>3, <2>4 DEF Commit, P!Fits
  <2>6. Valid(In("manifest", d))
    BY <2>1, <2>3, <2>5 DEF Valid, Readable
  <2>7. file'[In("manifest", d)] = m
    BY <1>1, <2>2, <2>5, <2>6, RunSurvives
  <2>8. QED
    BY <2>2, <2>7 DEF Backed
<1>4. QED
  BY <1>2, <1>3 DEF Carries

LEMMA CommitEvident ==
  ASSUME LP!LifecycleInv, TypedInv, EvidenceInv, NEW c \in Clients, Commit(c)
  PROVE  EvidenceInv'
<1> DEFINE r == pending[c]
<1>1. EvidentDraft(r) /\ TypedArg(r.op, r.arg) /\ Transition(r.op, r.arg) /\ OnDisk
  BY DEF EvidenceInv, TypedInv, TypedDraft, Commit
<1>2. ASSUME NEW m \in Named PROVE Backed(m)'
  <2> DEFINE d == <<m.phase, m.iteration>>
  <2>1. Backed(m) /\ m \in Scored(Scores)
    BY NamedScored DEF EvidenceInv
  <2>2. Valid(In("manifest", d)) /\ d \in RunDirs /\ file[In("manifest", d)] = m
    BY <2>1, BackedValid DEF Backed
  <2>3. file'[In("manifest", d)] = m
    BY <1>1, <2>2, RunSurvives
  <2>4. QED
    BY <2>2, <2>3 DEF Backed
<1>3. ASSUME NEW m \in Named' PROVE Backed(m)'
  <2>1. m \in Named \/ Carries(r.op, r.arg, m)
    BY <1>1, TransitionNames
  <2>2. CASE Carries(r.op, r.arg, m)
    BY <2>2, CarriedBacked
  <2>3. QED
    BY <1>2, <2>1, <2>2
<1>4. \A e \in Clients : pending'[e] # Idle => EvidentDraft(pending'[e])
  BY DEF EvidenceInv, Commit, TypedInv
<1>5. OnDisk'
  BY CommitOnDisk
<1>6. QED
  BY <1>3, <1>4, <1>5 DEF EvidenceInv

LEMMA InitializeNames ==
  ASSUME LP!LifecycleInv, L!InitDomain
  PROVE  Named' = Named
BY DomRecord DEF L!InitDomain, L!Become, LP!DomainState, Named, Consumed

LEMMA StepEvident ==
  ASSUME LP!LifecycleInv, TypedInv, corruptions = 0 => EvidenceInv, [Next]_vars, corruptions' = 0
  PROVE  EvidenceInv'
<1>1. ASSUME NEW d \in RunDirs, Damage(d) PROVE FALSE
  <2>1. corruptions \in Nat /\ corruptions' = corruptions + 1
    BY <1>1, WorkflowConstants DEF TypedInv, Damage
  <2>2. QED
    BY <2>1
<1>2. ASSUME UNCHANGED <<file, pending, corruptions>>, Named' = Named PROVE EvidenceInv'
  BY <1>2 DEF EvidenceInv, OnDisk, Valid, Readable, Backed
<1>3. CASE UNCHANGED vars
  BY <1>2, <1>3 DEF vars, Named, Consumed
<1>4. CASE Initialize
  BY <1>2, <1>4, InitializeNames DEF Initialize
<1>5. ASSUME NEW c \in Clients, Seed(c) \/ Rollout(c) \/ Evolve(c) PROVE EvidenceInv'
  <2>1. UNCHANGED corruptions
    BY <1>5 DEF Seed, SkipSeed, SeedObservations, RollbackSeed, Rollout, PrepareRollout,
         RecordExecution, IngestRollout, FinalizeBaseline, ResetManifest, Evolve, SampleTrain,
         ApplyWiki, ProposerContext, ProposeNothing, ProposeChange, Proposed, Gate, Abandon, Draft
  <2>2. QED
    BY <1>5, <2>1, SeedEvident, RolloutEvident, EvolveEvident
<1>6. ASSUME NEW c \in Clients, Commit(c) PROVE EvidenceInv'
  BY <1>6, CommitEvident DEF Commit
<1>7. ASSUME NEW c \in Clients, GiveUp(c) PROVE EvidenceInv'
  <2>1. EvidenceInv /\ pending' = [pending EXCEPT ![c] = Idle] /\ UNCHANGED <<dom, file>>
    BY <1>7 DEF GiveUp
  <2>2. QED
    BY <2>1 DEF EvidenceInv, OnDisk, Valid, Readable, Backed, Named, Consumed, TypedInv
<1>8. QED
  BY <1>1, <1>3, <1>4, <1>5, <1>6, <1>7 DEF Next

LEMMA InitEvident ==
  ASSUME Init
  PROVE  EvidenceInv
<1>1. Named = {}
  BY EmptySeq DEF Init, L!Init, Named, Consumed, Tests, L!TestPhases
<1>2. OnDisk
  <2>1. \A d \in RunDirs : In("manifest", d) \in Paths
    BY PathsOf DEF RunFiles
  <2>2. QED
    BY <2>1 DEF Init, OnDisk, Valid, Readable
<1>3. QED
  BY <1>1, <1>2 DEF EvidenceInv, Init

(***************************************************************************)
(* No reset, repeated recording or abandonment takes away evidence the     *)
(* state refers to: until something outside damages a manifest, each one   *)
(* the state names is on disk with the job and the answer behind it,       *)
(* however many processes commit on states other than they drafted on.     *)
(***************************************************************************)
THEOREM EvidenceStays == Spec => [](corruptions = 0 => EvidenceKept)
<1> DEFINE Inv == corruptions = 0 => EvidenceInv
<1>1. Init => Inv
  BY InitEvident
<1>2. WorkflowInv /\ Inv /\ [Next]_vars => Inv'
  BY StepEvident DEF WorkflowInv
<1>3. WorkflowInv /\ Inv => (corruptions = 0 => EvidenceKept)
  <2> SUFFICES ASSUME WorkflowInv, EvidenceInv, NEW m \in Named
               PROVE  LET d == <<m.phase, m.iteration>>
                      IN  /\ file[In("manifest", d)] \in {m, Corrupt}
                          /\ file[In("job", d)] = m.snapshot
                          /\ file[In("execution", d)] = m.score
                          /\ file[In("output", d)] = m.score
    BY DEF EvidenceKept
  <2>1. Backed(m) /\ m \in Scored(Scores)
    BY NamedScored DEF EvidenceInv, WorkflowInv
  <2>2. Valid(In("manifest", <<m.phase, m.iteration>>))
    BY <2>1, BackedValid
  <2>3. QED
    BY <2>1, <2>2 DEF Backed, EvidenceInv, OnDisk
<1> HIDE DEF Inv
<1>4. QED
  BY <1>1, <1>2, <1>3, WorkflowInvariance, PTL DEF Spec
=============================================================================
