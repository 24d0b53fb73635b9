------------------------ MODULE WorkflowSerialProofs ------------------------
(***************************************************************************)
(* What one command at a time keeps: no draft is begun while another is    *)
(* uncommitted, by whichever process, so every commit finds the state its  *)
(* draft was made for.  Manifests may be damaged from outside all the way. *)
(***************************************************************************)
EXTENDS WorkflowContextProofs

\* One command at a time.
Serial == \A c, d \in Clients : pending[c] # Idle /\ pending[d] # Idle => c = d

-----------------------------------------------------------------------------
(***************************************************************************)
(* The state and its files between two commands.                           *)
(***************************************************************************)

Judges == {"val", "val_confirm"}
ManifestOf(phase, k) == In("manifest", <<phase, k>>)
Baseline == ManifestOf("baseline", 0)
Lost == {Absent, Corrupt}

Validated == dom.state = "NEEDS_GATE" /\ dom.gatePhase = "validation"
Confirmed == dom.state = "NEEDS_GATE" /\ dom.gatePhase = "confirmation"
Confirming == dom.state = "NEEDS_VAL_CONFIRM" \/ Confirmed

\* The run of this phase for the candidate of this iteration, with this score.
RunOf(phase, score) ==
  [phase |-> phase, iteration |-> dom.iteration, snapshot |-> dom.candidate, score |-> score]

\* A candidate is judged by its own runs, with the scores in the state.
Judging ==
  /\ Validated => dom.current = RunOf("val", dom.provisional)
  /\ Confirming => dom.provisionalManifest = RunOf("val", dom.provisional)
  /\ Confirmed => dom.current = RunOf("val_confirm", dom.confirmation)

\* What the manifest file of the current iteration's validation, or confirmation, can be.
ValFile(x) ==
  /\ dom.state \notin L!Candidate => x \in Lost
  /\ dom.state = "NEEDS_VAL_RUN" => Unfit(x)
  /\ Validated => x \in {dom.current, Corrupt}
  /\ Confirming => x \in {dom.provisionalManifest, Corrupt}

ConfirmFile(x) ==
  /\ ~Confirming => x \in Lost
  /\ dom.state = "NEEDS_VAL_CONFIRM" => Unfit(x)
  /\ Confirmed => x \in {dom.current, Corrupt}

\* What the manifest file of a judging phase and an iteration can be.
JudgedFile(phase, k) ==
  LET x == file[ManifestOf(phase, k)]
  IN  /\ Settled(k) => x \in Lost \union {e.manifest : e \in Consumed}
      /\ ~Settled(k) /\ k # dom.iteration => x \in Lost
      /\ ~Settled(k) /\ k = dom.iteration => IF phase = "val" THEN ValFile(x) ELSE ConfirmFile(x)

JudgedFiles == \A phase \in Judges, k \in Iterations : JudgedFile(phase, k)

\* The candidate that is judged is the recorded one, and never the empty snapshot.
CandidateRecorded ==
  /\ dom.state \in L!Candidate => CandidateMatches
  /\ dom.candidate # Empty

IsBaseline(m) == m.phase = "baseline" /\ m.iteration = 0 /\ m.snapshot = Empty
BaselineFile == file[Baseline] \in Lost \/ IsBaseline(file[Baseline])

(***************************************************************************)
(* A draft is fresh: it is what its command makes of the state there is.   *)
(***************************************************************************)

\* It touches the manifest that is due, to add the run's or to take an unusable one away.
FreshRuns(d) ==
  /\ \A phase \in Judges, k \in Iterations :
       LET o == d.outs[ManifestOf(phase, k)]
       IN  o # Keep =>
             /\ k = dom.iteration /\ dom.state = RunsIn(phase)
             /\ \/ d.op = "ingest" /\ d.arg.phase = phase /\ o.to = d.arg
                \/ d.op \in {"reset-manifest", "abandon"} /\ o.to = Absent
  /\ d.op = "abandon" => \A q \in Unusable : d.outs[q] # Keep

\* It ingests the run of the snapshot the phase is about.
FreshManifest(d) ==
  /\ d.op = "ingest" =>
       /\ d.arg.iteration = Dir(d.arg.phase)[2] /\ d.arg.snapshot = Pointer(d.arg.phase)
       /\ d.arg.phase \in Judges => d.outs[ValRun(d.arg.phase)] # Keep
  /\ d.op = "baseline-finalize" => IsBaseline(d.arg)
  /\ d.outs[Baseline] # Keep => d.outs[Baseline].to = Absent \/ IsBaseline(d.outs[Baseline].to)

\* It records a candidate with its proposal, beside the snapshot that is active.
FreshCandidate(d) ==
  /\ \A k \in Iterations : d.outs[Of("candidate", k)] # Keep => d.op = "apply-proposal-change"
  /\ d.op = "apply-proposal-change" =>
       /\ d.arg # Empty
       /\ d.outs[CandidateFile] # Keep
       /\ d.outs[CandidateFile].to = [candidate |-> d.arg, active |-> dom.active]

\* It adds this entry to the impact history.
Enters(d, outcome, candidate, scores) ==
  LET o == d.outs[The("impact")]
  IN  o # Keep /\ ~o.same /\ o.to = Append(Past(o.before), Entry(outcome, candidate, scores))

ToConfirm == L!StrictWin /\ dom.gatePhase = "validation" /\ dom.confirm

GateOutcome ==
  IF L!StrictWin THEN "Accepted"
  ELSE IF dom.gatePhase = "validation" THEN "Rejected" ELSE "RejectedAfterConfirm"

GateScores ==
  IF dom.gatePhase = "validation" THEN <<dom.provisional>>
                                  ELSE <<dom.provisional, dom.confirmation>>

\* It enters what is decided by it, and nothing else.
FreshEntry(d) ==
  /\ d.op = "gate" =>
       IF ToConfirm THEN d.outs[The("impact")] = Keep
                    ELSE Enters(d, GateOutcome, dom.candidate, GateScores)
  /\ d.op = "abandon" => Enters(d, "Abandoned", dom.candidate, <<>>)
  /\ d.op = "apply-proposal-no-action" => Enters(d, "NoAction", None, <<>>)
  /\ d.op \notin {"gate", "abandon", "apply-proposal-no-action"} => d.outs[The("impact")] = Keep

Fresh(d) ==
  /\ dom.state # "UNINITIALIZED"
  /\ FreshRuns(d) /\ FreshManifest(d) /\ FreshCandidate(d) /\ FreshEntry(d)

SerialState ==
  Judging /\ JudgedFiles /\ CandidateRecorded /\ BaselineFile /\ ImpactExplains /\ BestEvidenced

SerialInv == SerialState /\ \A c \in Clients : pending[c] # Idle => Fresh(pending[c])

-----------------------------------------------------------------------------
(***************************************************************************)
(* A draft is fresh when it is made.                                       *)
(***************************************************************************)

LEMMA SerialPaths ==
  /\ \A phase \in Judges, k \in Iterations : <<phase, k>> \in RunDirs
  /\ \A phase \in Judges, k \in Iterations :
       ManifestOf(phase, k) \in Paths /\ ManifestOf(phase, k)[1] = "manifest"
  /\ <<"baseline", 0>> \in RunDirs /\ Baseline \in Paths /\ Baseline[1] = "manifest"
  /\ \A k \in Iterations : Of("candidate", k) \in Paths /\ Of("candidate", k)[1] = "candidate"
  /\ The("impact") \in Paths /\ The("impact")[1] = "impact"
<1>1. \A phase \in Judges, k \in Iterations : <<phase, k>> \in RunDirs
  BY DEF Judges, RunDirs, Repeated
<1>2. <<"baseline", 0>> \in RunDirs
  BY DEF RunDirs, Repeated, Phases, Tests
<1>3. QED
  BY <1>1, <1>2, PathsOf
  DEF ManifestOf, Baseline, RunFiles, StepFiles, DomainFiles, In, Of, The

\* Different manifests are different files.
LEMMA ManifestsDiffer ==
  ASSUME NEW phase, NEW k, NEW other, NEW n, ManifestOf(phase, k) = ManifestOf(other, n)
  PROVE  phase = other /\ k = n
BY DEF ManifestOf, In

\* What is said of a draft made for the state, whatever happened to readable manifests.
LEMMA FreshUnmoved ==
  ASSUME UNCHANGED dom, Unusable' = Unusable
  PROVE  \A d : Fresh(d) => Fresh(d)'
<1>1. ASSUME NEW d, Fresh(d) PROVE Fresh(d)'
  <2>1. FreshRuns(d)'
    BY <1>1 DEF Fresh, FreshRuns
  <2>2. FreshManifest(d)'
    BY <1>1 DEF Fresh, FreshManifest, Dir, Pointer, ValRun
  <2>3. FreshCandidate(d)'
    BY <1>1 DEF Fresh, FreshCandidate, CandidateFile
  <2>4. FreshEntry(d)'
    <3>1. ToConfirm' = ToConfirm /\ GateOutcome' = GateOutcome /\ GateScores' = GateScores
      BY DEF ToConfirm, GateOutcome, GateScores, L!StrictWin, L!Judged
    <3>2. \A outcome, candidate, scores :
            Enters(d, outcome, candidate, scores)' = Enters(d, outcome, candidate, scores)
      BY DEF Enters, Entry
    <3>3. QED
      BY <1>1, <3>1, <3>2 DEF Fresh, FreshEntry
  <2>5. QED
    BY <1>1, <2>1, <2>2, <2>3, <2>4 DEF Fresh
<1>2. QED
  BY <1>1

\* What is said of the state and the files alone, and of a draft made for them.
LEMMA SerialUnmoved ==
  ASSUME UNCHANGED <<dom, file>>
  PROVE  /\ SerialState => SerialState'
         /\ \A d : Fresh(d) => Fresh(d)'
<1> USE DEF Validated, Confirming, Confirmed
<1>1. Judging' = Judging
  BY DEF Judging, RunOf
<1>2. Consumed' = Consumed
  BY DEF Consumed
<1>3. JudgedFiles => JudgedFiles'
  <2>1. ASSUME NEW phase \in Judges, NEW k \in Iterations, JudgedFile(phase, k)
        PROVE  JudgedFile(phase, k)'
    <3>1. Settled(k)' = Settled(k) /\ file'[ManifestOf(phase, k)] = file[ManifestOf(phase, k)]
      BY DEF Settled
    <3>2. \A x : ValFile(x)' = ValFile(x) /\ ConfirmFile(x)' = ConfirmFile(x)
      BY DEF ValFile, ConfirmFile
    <3>3. QED
      BY <1>2, <2>1, <3>1, <3>2 DEF JudgedFile
  <2>2. QED
    BY <2>1 DEF JudgedFiles
<1>4. CandidateRecorded' = CandidateRecorded /\ BaselineFile' = BaselineFile
  BY DEF CandidateRecorded, CandidateMatches, CandidateFile, BaselineFile
<1>5. ImpactExplains => ImpactExplains'
  <2>1. Impact' = Impact /\ Decided' = Decided
    BY DEF Impact, History, Decided
  <2>2. Accepted' = Accepted
    BY <2>1 DEF Accepted
  <2>3. QED
    BY <2>1, <2>2 DEF ImpactExplains
<1>6. BestEvidenced => BestEvidenced'
  BY <1>2 DEF BestEvidenced, Stands, L!LowerOf
<1>7. \A d : Fresh(d) => Fresh(d)'
  <2>1. Unusable' = Unusable
    BY DEF Unusable, Present, ValRun
  <2>2. QED
    BY <2>1, FreshUnmoved
<1>8. QED
  BY <1>1, <1>3, <1>4, <1>5, <1>6, <1>7 DEF SerialState

LEMMA SerialDraft ==
  ASSUME TypedInv, SerialInv, NEW c \in Clients, NEW op, NEW arg, NEW outs, NEW deps,
         Draft(c, op, arg, outs, deps), Fresh(DraftOf(op, arg, outs, deps))
  PROVE  SerialInv'
<1> DEFINE d == DraftOf(op, arg, outs, deps)
<1>1. pending' = [pending EXCEPT ![c] = d] /\ UNCHANGED <<dom, file>>
  BY DEF Draft, DraftOf
<1> HIDE DEF d
<1>2. SerialState' /\ \A e : Fresh(e) => Fresh(e)'
  BY <1>1, SerialUnmoved DEF SerialInv
<1>3. ASSUME NEW b \in Clients, NEW e, e = pending'[b], e # Idle PROVE Fresh(e)'
  <2>1. e = pending[b] \/ e = d
    BY <1>1, <1>3 DEF TypedInv
  <2>2. Fresh(e)
    BY <1>3, <2>1 DEF SerialInv, d
  <2>3. QED
    BY <1>2, <2>2
<1>4. QED
  BY <1>2, <1>3 DEF SerialInv, Fresh

\* Outputs of no file of this kind.
Without(kind, outs) == \A q \in DOMAIN outs : q[1] # kind

LEMMA WithoutParts ==
  ASSUME NEW kind
  PROVE  /\ Without(kind, Nothing)
         /\ \A q, x : q[1] # kind => Without(kind, Only(q, x))
         /\ \A f, g : Without(kind, f) /\ Without(kind, g) => Without(kind, f ++ g)
         /\ \A outcome, candidate, scores :
              kind # "impact" => Without(kind, Recorded(outcome, candidate, scores))
BY KindOf DEF Without, Nothing, Only, ++, Recorded, The

LEMMA WithoutKeeps ==
  ASSUME NEW op, NEW arg, NEW outs, NEW deps, NEW q \in Paths, NEW kind, q[1] = kind,
         Without(kind, outs)
  PROVE  DraftOf(op, arg, outs, deps).outs[q] = Keep
BY DraftAt DEF Without

\* What the other drafts of an operation need not say.
LEMMA NoManifestFresh ==
  ASSUME NEW op, NEW arg, NEW outs, NEW deps, Without("manifest", outs),
         op \notin {"ingest", "abandon", "baseline-finalize"}
  PROVE  FreshRuns(DraftOf(op, arg, outs, deps)) /\ FreshManifest(DraftOf(op, arg, outs, deps))
<1> DEFINE d == DraftOf(op, arg, outs, deps)
<1>1. d.op = op
  BY DEF DraftOf
<1>2. \A q \in Paths : q[1] = "manifest" => d.outs[q] = Keep
  BY WithoutKeeps
<1> HIDE DEF d
<1>3. QED
  BY <1>1, <1>2, SerialPaths DEF d, FreshRuns, FreshManifest

LEMMA NoCandidateFresh ==
  ASSUME NEW op, NEW arg, NEW outs, NEW deps, Without("candidate", outs),
         op # "apply-proposal-change"
  PROVE  FreshCandidate(DraftOf(op, arg, outs, deps))
<1> DEFINE d == DraftOf(op, arg, outs, deps)
<1>1. d.op = op
  BY DEF DraftOf
<1>2. \A q \in Paths : q[1] = "candidate" => d.outs[q] = Keep
  BY WithoutKeeps
<1> HIDE DEF d
<1>3. QED
  BY <1>1, <1>2, SerialPaths DEF d, FreshCandidate

LEMMA NoEntryFresh ==
  ASSUME NEW op, NEW arg, NEW outs, NEW deps, Without("impact", outs),
         op \notin {"gate", "abandon", "apply-proposal-no-action"}
  PROVE  FreshEntry(DraftOf(op, arg, outs, deps))
<1> DEFINE d == DraftOf(op, arg, outs, deps)
<1>1. d.op = op
  BY DEF DraftOf
<1>2. d.outs[The("impact")] = Keep
  BY WithoutKeeps, SerialPaths
<1> HIDE DEF d
<1>3. QED
  BY <1>1, <1>2 DEF d, FreshEntry

Plain == {"persist", "skip-seed", "seed-observations", "rollback-seed", "apply-wiki"} \union Tests

LEMMA PlainFresh ==
  ASSUME TypedInv, SerialInv, dom.state # "UNINITIALIZED", NEW c \in Clients,
         NEW op \in Plain, NEW arg, NEW outs, NEW deps,
         Draft(c, op, arg, outs, deps), Without("manifest", outs), Without("candidate", outs),
         Without("impact", outs)
  PROVE  SerialInv'
BY NoManifestFresh, NoCandidateFresh, NoEntryFresh, SerialDraft DEF Fresh, Plain, Tests

LEMMA SeedFresh ==
  ASSUME TypedInv, SerialInv, NEW c \in Clients, Seed(c)
  PROVE  SerialInv'
<1> USE DEF Plain
<1>1. CASE SkipSeed(c)
  BY <1>1, PlainFresh, WithoutParts DEF SkipSeed
<1>2. CASE SeedObservations(c)
  <2> DEFINE outs == Only(The("seed"), New(Empty)) ++ Only(The("wiki"), New(SeededWiki))
  <2>1. ASSUME NEW kind \in {"manifest", "candidate", "impact"} PROVE Without(kind, outs)
    BY WithoutParts DEF The
  <2>2. Draft(c, "seed-observations", None, outs, {}) /\ dom.state # "UNINITIALIZED"
    BY <1>2 DEF SeedObservations
  <2> HIDE DEF outs
  <2>3. QED
    BY <2>1, <2>2, PlainFresh
<1>3. CASE RollbackSeed(c)
  <2> DEFINE outs == Delete({The("seed"), The("wiki")})
  <2>1. ASSUME NEW kind \in {"manifest", "candidate", "impact"} PROVE Without(kind, outs)
    BY DEF Without, Delete, The
  <2>2. Draft(c, "rollback-seed", None, outs, {}) /\ dom.state # "UNINITIALIZED"
    BY <1>3 DEF RollbackSeed
  <2> HIDE DEF outs
  <2>3. QED
    BY <2>1, <2>2, PlainFresh
<1>4. QED
  BY <1>1, <1>2, <1>3 DEF Seed

LEMMA RunsSomewhere ==
  ASSUME NEW phase \in Phases, dom.state \in {RunsIn(phase)} \union AfterIngest(phase)
  PROVE  dom.state # "UNINITIALIZED"
BY RunsWhere DEF Phases, Repeated

LEMMA PrepareFresh ==
  ASSUME TypedInv, SerialInv, NEW c \in Clients, NEW phase \in Phases, PrepareRollout(c, phase)
  PROVE  SerialInv'
<1> DEFINE op == IF phase \in Tests THEN phase ELSE "persist"
           outs == Only(In("job", Dir(phase)), Kept(Pointer(phase)))
<1>1. ASSUME NEW kind \in {"manifest", "candidate", "impact"} PROVE Without(kind, outs)
  BY WithoutParts DEF In
<1>2. Draft(c, op, None, outs, {}) /\ op \in Plain /\ dom.state # "UNINITIALIZED"
  BY RunsSomewhere DEF PrepareRollout, Plain
<1> HIDE DEF outs, op
<1>3. QED
  BY <1>1, <1>2, PlainFresh

LEMMA RecordFresh ==
  ASSUME TypedInv, SerialInv, NEW c \in Clients, NEW phase \in Phases, NEW answer,
         RecordExecution(c, phase, answer)
  PROVE  SerialInv'
<1> DEFINE execution == In("execution", Dir(phase))
           output == In("output", Dir(phase))
<1>1. PICK x, y, deps : Draft(c, "persist", None, Only(execution, x) ++ Only(output, y), deps)
  BY DEF RecordExecution
<1>2. ASSUME NEW kind \in {"manifest", "candidate", "impact"}
      PROVE  Without(kind, Only(execution, x) ++ Only(output, y))
  BY WithoutParts DEF In
<1>3. "persist" \in Plain /\ dom.state # "UNINITIALIZED"
  BY RunsSomewhere DEF RecordExecution, Plain
<1> HIDE DEF execution, output
<1>4. QED
  BY <1>1, <1>2, <1>3, PlainFresh

LEMMA IngestFresh ==
  ASSUME LP!LifecycleInv, TypedInv, SerialInv, NEW c \in Clients, NEW phase \in Phases,
         IngestRollout(c, phase)
  PROVE  SerialInv'
<1> DEFINE dir == Dir(phase)
           answer == file[In("execution", dir)]
           m == [phase |-> phase, iteration |-> dir[2], snapshot |-> Pointer(phase),
                 score |-> IF file[In("job", dir)] = Pointer(phase) THEN answer ELSE Invalid]
           op == IF phase = "baseline" THEN "persist" ELSE "ingest"
           outs == Only(In("manifest", dir), New(m)) ++ RawEvidence(m)
           deps == {In(kind, dir) : kind \in {"job", "execution", "output"}}
           d == DraftOf(op, m, outs, deps)
<1>1. Draft(c, op, m, outs, deps) /\ dom.state = RunsIn(phase)
  BY DEF IngestRollout
<1>2. dir \in RunDirs /\ dir = <<phase, dir[2]>> /\ dir[2] \in 0..MaxIterations
  BY <1>1, PhaseTypes
<1>3. /\ phase \in Judges => dir[2] = dom.iteration
      /\ phase = "baseline" => dir[2] = 0
  BY DEF Dir, Judges, Repeated
<1>4. /\ m.phase = phase /\ m.iteration = dir[2] /\ m.snapshot = Pointer(phase)
      /\ phase = "baseline" => m.snapshot = Empty
      /\ m \in Scored(Scores \union {Invalid})
  <2>1. answer \in Scores \union {Invalid}
    <3>1. In("execution", dir) \in Paths /\ file[In("execution", dir)] # Absent
      BY <1>2, PathsOf DEF IngestRollout, RunFiles
    <3>2. QED
      BY <3>1, FileTypes, KindOf, HoldsWhat DEF TypedInv
  <2>2. Pointer(phase) \in Snapshots
    BY <1>1, PointerTypes
  <2> HIDE DEF answer
  <2>3. QED
    BY <1>2, <2>1, <2>2 DEF Scored, Pointer
<1>5. d.op = op /\ d.arg = m
  BY DEF DraftOf
<1> HIDE DEF m, dir
<1>6. New(m) # Keep
  BY <1>4, OutputIsNoMarker, RunContentsAre DEF New
<1>7. /\ In("manifest", dir) \in DOMAIN outs /\ outs[In("manifest", dir)] = New(m)
      /\ \A q \in DOMAIN outs : q = In("manifest", dir) \/ q[1] \in {"trace", "alias"}
  BY KindOf DEF RawEvidence, Nothing, Only, ++, Of, The
<1> HIDE DEF outs
<1>8. \A q \in Paths : q[1] = "manifest" =>
        d.outs[q] = IF q = In("manifest", dir) THEN New(m) ELSE Keep
  BY <1>7, DraftAt
<1>9. In("manifest", dir) \in Paths
  BY <1>2, PathsOf DEF RunFiles
<1>10. Without("candidate", outs) /\ Without("impact", outs)
  BY <1>7, KindOf DEF Without
<1>11. FreshCandidate(d) /\ FreshEntry(d)
  BY <1>10, NoCandidateFresh, NoEntryFresh
<1> HIDE DEF d, deps
<1>12. FreshRuns(d)
  <2>1. ASSUME NEW ph \in Judges, NEW k \in Iterations, d.outs[ManifestOf(ph, k)] # Keep
        PROVE  /\ k = dom.iteration /\ dom.state = RunsIn(ph)
               /\ d.op = "ingest" /\ d.arg.phase = ph /\ d.outs[ManifestOf(ph, k)].to = d.arg
    <3>1. ManifestOf(ph, k) = In("manifest", dir)
      BY <1>8, <2>1, SerialPaths
    <3>2. ManifestOf(ph, k) = ManifestOf(phase, dir[2])
      BY <1>2, <3>1 DEF ManifestOf
    <3>3. ph = phase /\ k = dir[2]
      BY <3>2, ManifestsDiffer
    <3>4. d.outs[ManifestOf(ph, k)].to = m
      BY <1>8, <2>1, <3>1, SerialPaths DEF New
    <3>5. QED
      BY <1>1, <1>3, <1>4, <1>5, <2>1, <3>3, <3>4 DEF Judges
  <2>2. d.op # "abandon"
    BY <1>5
  <2>3. QED
    BY <2>1, <2>2 DEF FreshRuns
<1>13. FreshManifest(d)
  <2>1. phase \in Judges => d.outs[ValRun(phase)] # Keep
    BY <1>2, <1>3, <1>6, <1>8, <1>9, KindOf DEF ValRun
  <2>2. d.outs[Baseline] # Keep => IsBaseline(d.outs[Baseline].to)
    <3>1. SUFFICES ASSUME d.outs[Baseline] # Keep PROVE IsBaseline(m) /\ d.outs[Baseline].to = m
      OBVIOUS
    <3>2. Baseline = In("manifest", dir) /\ d.outs[Baseline] = New(m)
      BY <1>8, <3>1, SerialPaths
    <3>3. ManifestOf("baseline", 0) = ManifestOf(phase, dir[2])
      BY <1>2, <3>2 DEF ManifestOf, Baseline
    <3>4. phase = "baseline"
      BY <3>3, ManifestsDiffer
    <3>5. QED
      BY <1>3, <1>4, <3>2, <3>4 DEF IsBaseline, New
  <2>3. QED
    BY <1>4, <1>5, <2>1, <2>2 DEF FreshManifest, dir
<1>14. dom.state # "UNINITIALIZED"
  BY <1>1, RunsSomewhere
<1>15. QED
  BY <1>1, <1>11, <1>12, <1>13, <1>14, SerialDraft DEF Fresh, d

LEMMA FinalizeFresh ==
  ASSUME TypedInv, SerialInv, NEW c \in Clients, FinalizeBaseline(c)
  PROVE  SerialInv'
<1> DEFINE m == file[Baseline]
           d == DraftOf("baseline-finalize", m, Nothing, {Baseline})
<1>1. /\ Draft(c, "baseline-finalize", m, Nothing, {Baseline})
      /\ dom.state = "NEEDS_BASELINE_RUN" /\ Valid(Baseline)
  BY DEF FinalizeBaseline, Baseline, ManifestOf
<1>2. IsBaseline(m)
  BY <1>1 DEF SerialInv, SerialState, BaselineFile, Valid, Readable, Lost
<1>3. \A q \in Paths : d.outs[q] = Keep
  BY DraftAt DEF Nothing
<1>4. d.op = "baseline-finalize" /\ d.arg = m
  BY DEF DraftOf
<1>5. FreshCandidate(d) /\ FreshEntry(d)
  BY NoCandidateFresh, NoEntryFresh, WithoutParts
<1> HIDE DEF m, d
<1>6. FreshRuns(d) /\ FreshManifest(d)
  BY <1>2, <1>3, <1>4, SerialPaths DEF FreshRuns, FreshManifest
<1>7. QED
  BY <1>1, <1>5, <1>6, SerialDraft DEF Fresh, d

LEMMA ResetFresh ==
  ASSUME LP!LifecycleInv, TypedInv, SerialInv, NEW c \in Clients, NEW phase \in Phases, ResetManifest(c, phase)
  PROVE  SerialInv'
<1> DEFINE dir == Dir(phase)
           owned == {In("manifest", dir), In("execution", dir)}
                      \union IF phase # "train" THEN {} ELSE {Of("trace", dir[2]), The("alias")}
           outs == Delete(Present(owned))
           d == DraftOf("reset-manifest", None, outs, Present(owned))
<1>1. Draft(c, "reset-manifest", None, outs, Present(owned)) /\ ResetPhase(phase)
  BY DEF ResetManifest
<1>2. /\ \A q \in DOMAIN outs : q = In("manifest", dir) \/ q[1] \in {"execution", "trace", "alias"}
      /\ \A q \in DOMAIN outs : outs[q].to = Absent
  BY KindOf DEF Delete, Present, In
<1>3. FreshCandidate(d) /\ FreshEntry(d)
  <2>1. In("manifest", dir)[1] = "manifest"
    BY KindOf
  <2>2. Without("candidate", outs) /\ Without("impact", outs)
    BY <1>2, <2>1 DEF Without
  <2> HIDE DEF outs
  <2>3. QED
    BY <2>2, NoCandidateFresh, NoEntryFresh
<1>4. d.op = "reset-manifest"
  BY DEF DraftOf
<1> HIDE DEF outs
<1>5. \A q \in Paths : q[1] = "manifest" /\ d.outs[q] # Keep =>
        q = In("manifest", dir) /\ d.outs[q].to = Absent
  BY <1>2, DraftAt
<1> HIDE DEF d
<1>6. FreshRuns(d)
  <2>1. ASSUME NEW ph \in Judges, NEW k \in Iterations, d.outs[ManifestOf(ph, k)] # Keep
        PROVE  /\ k = dom.iteration /\ dom.state = RunsIn(ph)
               /\ d.outs[ManifestOf(ph, k)].to = Absent
    <3>1. In("manifest", <<ph, k>>) = In("manifest", dir) /\ d.outs[ManifestOf(ph, k)].to = Absent
      BY <1>5, <2>1, SerialPaths DEF ManifestOf
    <3>2. ph = phase /\ k = dir[2]
      BY <3>1 DEF In, Dir
    <3>3. k = dom.iteration /\ dom.state \in {RunsIn(phase)} \union (AfterIngest(phase) \ {"NEEDS_GATE"})
      <4>1. phase \notin Tests
        BY <3>2 DEF Judges, Tests
      <4>2. dom.prepared \subseteq Tests
        BY DomRecord DEF LP!DomainState, LP!TestPhases, Tests
      <4>3. dom.state = "DONE" => phase \in dom.prepared
        BY <1>1 DEF ResetPhase
      <4>4. QED
        BY <1>1, <3>2, <4>1, <4>2, <4>3 DEF ResetPhase, Dir, Judges, Repeated
    <3>4. QED
      BY <3>1, <3>2, <3>3, RunsWhere DEF Judges
  <2>2. QED
    BY <1>4, <2>1 DEF FreshRuns
<1>7. FreshManifest(d)
  BY <1>4, <1>5, SerialPaths DEF FreshManifest
<1>8. dom.state # "UNINITIALIZED"
  BY <1>1, RunsSomewhere DEF ResetPhase
<1>9. QED
  BY <1>1, <1>3, <1>6, <1>7, <1>8, SerialDraft DEF Fresh, d

\* An entry put into the impact history is one output, bound to the history it joins.
LEMMA RecordedEnters ==
  ASSUME TypedInv, dom.iteration \in Iterations, NEW outcome \in Outcomes,
         NEW candidate \in Snapshots \union {None}, NEW scores \in Seq(Scores),
         NEW op, NEW arg, NEW outs, NEW deps, The("impact") \in DOMAIN outs,
         outs[The("impact")] = Recorded(outcome, candidate, scores)[The("impact")]
  PROVE  Enters(DraftOf(op, arg, outs, deps), outcome, candidate, scores)
<1> DEFINE e == Entry(outcome, candidate, scores)
           to == Append(Impact, e)
           o == [before |-> file[The("impact")], to |-> to, same |-> FALSE]
           values == Seq(WikiEntry) \union Seq(ImpactEntry) \union CandidateRecord \union {Absent}
<1>1. e \in ImpactEntry
  BY DEF Entry, ImpactEntry
<1>2. outs[The("impact")] = o
  BY DEF Recorded, Only, Replace, Impact
<1> HIDE DEF e
<1>3. to \in Seq(ImpactEntry)
  BY <1>1, KnowledgeTypes DEF Impact, TypedInv
<1>4. file[The("impact")] \in Seq(ImpactEntry) \union {Absent}
  BY SerialPaths, HoldsWhat DEF TypedInv, TypedFiles
<1>5. to = Append(Past(file[The("impact")]), e)
  BY DEF Impact, History, Past
<1> HIDE DEF to
<1>6. o # Keep
  <2>1. Keep \notin [before : values, to : values, same : BOOLEAN]
    BY HistoryMarkers
  <2>2. file[The("impact")] \in values /\ to \in values
    BY <1>3, <1>4
  <2> HIDE DEF values
  <2>3. QED
    BY <2>1, <2>2, OutputAmong
<1> HIDE DEF o
<1>7. DraftOf(op, arg, outs, deps).outs[The("impact")] = o
  BY <1>2, DraftAt, SerialPaths
<1>8. QED
  BY <1>5, <1>6, <1>7 DEF Enters, e, o

LEMMA WithRecorded ==
  ASSUME NEW f, NEW g, NEW outcome, NEW candidate, NEW scores,
         \/ f = Recorded(outcome, candidate, scores)
         \/ g = Recorded(outcome, candidate, scores) /\ Without("impact", f)
  PROVE  /\ The("impact") \in DOMAIN (f ++ g)
         /\ (f ++ g)[The("impact")] = Recorded(outcome, candidate, scores)[The("impact")]
BY KindOf DEF Recorded, Only, ++, Without

LEMMA EvolvePlain ==
  ASSUME TypedInv, SerialInv, NEW c \in Clients, SampleTrain(c) \/ ApplyWiki(c) \/ ProposerContext(c)
  PROVE  SerialInv'
<1> USE DEF Plain
<1>1. CASE SampleTrain(c)
  <2>1. PICK x, deps : Draft(c, "persist", None, Only(Of("maintainer-input", dom.iteration), x), deps)
    BY <1>1 DEF SampleTrain
  <2>2. ASSUME NEW kind \in {"manifest", "candidate", "impact"}
        PROVE  Without(kind, Only(Of("maintainer-input", dom.iteration), x))
    BY WithoutParts DEF Of
  <2>3. QED
    BY <1>1, <2>1, <2>2, PlainFresh DEF SampleTrain
<1>2. CASE ApplyWiki(c)
  <2>1. PICK x, y, deps :
          Draft(c, "apply-wiki", None,
                Only(Of("maintainer-output", dom.iteration), x) ++ Only(The("wiki"), y), deps)
    BY <1>2 DEF ApplyWiki
  <2>2. ASSUME NEW kind \in {"manifest", "candidate", "impact"}
        PROVE  Without(kind, Only(Of("maintainer-output", dom.iteration), x) ++ Only(The("wiki"), y))
    BY WithoutParts DEF Of, The
  <2>3. QED
    BY <1>2, <2>1, <2>2, PlainFresh DEF ApplyWiki
<1>3. CASE ProposerContext(c)
  <2>1. PICK x, deps : Draft(c, "persist", None, Only(Of("proposer-context", dom.iteration), x), deps)
    BY <1>3 DEF ProposerContext
  <2>2. ASSUME NEW kind \in {"manifest", "candidate", "impact"}
        PROVE  Without(kind, Only(Of("proposer-context", dom.iteration), x))
    BY WithoutParts DEF Of
  <2>3. QED
    BY <1>3, <2>1, <2>2, PlainFresh DEF ProposerContext
<1>4. QED
  BY <1>1, <1>2, <1>3

LEMMA NothingFresh ==
  ASSUME LP!LifecycleInv, TypedInv, SerialInv, NEW c \in Clients, ProposeNothing(c)
  PROVE  SerialInv'
<1> DEFINE op == "apply-proposal-no-action"
           record == Recorded("NoAction", None, <<>>)
<1>1. PICK x, deps :
        /\ Draft(c, op, None, Only(Of("proposer-output", dom.iteration), x) ++ record, deps)
        /\ dom.state = "NEEDS_PROPOSAL"
  BY DEF ProposeNothing, Proposed
<1> DEFINE f == Only(Of("proposer-output", dom.iteration), x)
           outs == f ++ record
           d == DraftOf(op, None, outs, deps)
<1>2. dom.iteration \in Iterations
  BY <1>1, StepPaths DEF LP!Evolving
<1>3. Without("impact", f)
  BY WithoutParts DEF Of
<1>4. Without("manifest", outs) /\ Without("candidate", outs)
  BY WithoutParts DEF Of
<1>5. The("impact") \in DOMAIN outs /\ outs[The("impact")] = record[The("impact")]
  BY <1>3, WithRecorded
<1>6. "NoAction" \in Outcomes /\ <<>> \in Seq(Scores)
  BY DEF Outcomes
<1> HIDE DEF outs
<1>7. Enters(d, "NoAction", None, <<>>)
  BY <1>2, <1>5, <1>6, RecordedEnters
<1>8. FreshRuns(d) /\ FreshManifest(d) /\ FreshCandidate(d)
  BY <1>4, NoManifestFresh, NoCandidateFresh
<1>9. d.op = op
  BY DEF DraftOf
<1> HIDE DEF d
<1>10. FreshEntry(d)
  BY <1>7, <1>9 DEF FreshEntry
<1>11. QED
  BY <1>1, <1>8, <1>10, SerialDraft DEF Fresh, d, outs

LEMMA ChangeFresh ==
  ASSUME LP!LifecycleInv, TypedInv, SerialInv, NEW c \in Clients,
         NEW candidate \in Candidates, ProposeChange(c, candidate)
  PROVE  SerialInv'
<1> DEFINE op == "apply-proposal-change"
           record == [candidate |-> candidate, active |-> dom.active]
           change == Only(CandidateFile, New(record))
<1>1. PICK x, deps :
        /\ Draft(c, op, candidate, Only(Of("proposer-output", dom.iteration), x) ++ change, deps)
        /\ dom.state = "NEEDS_PROPOSAL"
  BY DEF ProposeChange, Proposed, CandidateFile
<1> DEFINE outs == Only(Of("proposer-output", dom.iteration), x) ++ change
           d == DraftOf(op, candidate, outs, deps)
<1>2. CandidateFile \in Paths /\ dom.iteration \in Iterations
  BY <1>1, StepPaths DEF LP!Evolving, CandidateFile, StepFiles
<1>3. CandidateFile \in DOMAIN outs /\ outs[CandidateFile] = New(record)
  BY DEF CandidateFile, Of, Only, ++
<1>4. Without("manifest", outs) /\ Without("impact", outs)
  BY WithoutParts DEF Of, CandidateFile
<1> HIDE DEF outs
<1>5. New(record) # Keep /\ New(record).to = record
  <2> DEFINE values == Seq(WikiEntry) \union Seq(ImpactEntry) \union CandidateRecord \union {Absent}
  <2>1. Keep \notin [before : values, to : values, same : BOOLEAN]
    BY HistoryMarkers
  <2>2. record \in CandidateRecord
    BY DomTypes DEF CandidateRecord, Candidates
  <2>3. Absent \in values /\ record \in values
    BY <2>2
  <2> HIDE DEF values, record
  <2>4. New(record) # Keep
    BY <2>1, <2>3, OutputAmong DEF New
  <2>5. QED
    BY <2>4 DEF New
<1>6. d.outs[CandidateFile] = New(record)
  BY <1>2, <1>3, DraftAt
<1>7. FreshRuns(d) /\ FreshManifest(d) /\ FreshEntry(d)
  BY <1>4, NoManifestFresh, NoEntryFresh
<1>8. d.op = op /\ d.arg = candidate
  BY DEF DraftOf
<1> HIDE DEF d
<1>9. FreshCandidate(d)
  BY <1>5, <1>6, <1>8 DEF FreshCandidate, Candidates
<1>10. QED
  BY <1>1, <1>7, <1>9, SerialDraft DEF Fresh, d, outs

\* The scores the gate judges by, and the outcome it finds, are typed.
LEMMA GateTypes ==
  ASSUME LP!LifecycleInv, dom.state = "NEEDS_GATE"
  PROVE  /\ dom.iteration \in Iterations /\ dom.candidate \in Snapshots
         /\ GateOutcome \in Outcomes /\ GateScores \in Seq(Scores)
BY JudgedTypes DEF L!Candidate, GateOutcome, GateScores, Outcomes

LEMMA VerdictIs ==
  /\ ToConfirm => Verdict = Nothing
  /\ ~ToConfirm => Verdict = Recorded(GateOutcome, dom.candidate, GateScores)
BY DEF Verdict, ToConfirm, GateOutcome, GateScores

LEMMA GateFresh ==
  ASSUME LP!LifecycleInv, TypedInv, SerialInv, NEW c \in Clients, Gate(c)
  PROVE  SerialInv'
<1> DEFINE d == DraftOf("gate", None, Verdict, Judgement)
<1>1. Draft(c, "gate", None, Verdict, Judgement) /\ dom.state = "NEEDS_GATE"
  BY DEF Gate
<1>2. Without("manifest", Verdict) /\ Without("candidate", Verdict)
  BY VerdictIs, WithoutParts
<1>3. FreshRuns(d) /\ FreshManifest(d) /\ FreshCandidate(d)
  BY <1>2, NoManifestFresh, NoCandidateFresh
<1>4. CASE ToConfirm
  <2>1. Without("impact", Verdict)
    BY <1>4, VerdictIs, WithoutParts
  <2>2. d.outs[The("impact")] = Keep
    BY <2>1, WithoutKeeps, SerialPaths
  <2>3. d.op = "gate"
    BY DEF DraftOf
  <2> HIDE DEF d
  <2>4. FreshEntry(d)
    BY <1>4, <2>2, <2>3 DEF FreshEntry
  <2>5. QED
    BY <1>1, <1>3, <2>4, SerialDraft DEF Fresh, d
<1>5. CASE ~ToConfirm
  <2>1. Verdict = Recorded(GateOutcome, dom.candidate, GateScores)
    BY <1>5, VerdictIs
  <2>2. The("impact") \in DOMAIN Verdict
    BY <2>1 DEF Recorded, Only
  <2>3. /\ GateOutcome \in Outcomes /\ GateScores \in Seq(Scores)
        /\ dom.candidate \in Snapshots /\ dom.iteration \in Iterations
    BY <1>1, GateTypes
  <2>4. Enters(d, GateOutcome, dom.candidate, GateScores)
    BY <2>1, <2>2, <2>3, RecordedEnters
  <2>5. d.op = "gate"
    BY DEF DraftOf
  <2> HIDE DEF d
  <2>6. FreshEntry(d)
    BY <1>5, <2>4, <2>5 DEF FreshEntry
  <2>7. QED
    BY <1>1, <1>3, <2>6, SerialDraft DEF Fresh, d
<1>6. QED
  BY <1>4, <1>5

LEMMA AbandonFresh ==
  ASSUME LP!LifecycleInv, TypedInv, SerialInv, NEW c \in Clients, Abandon(c)
  PROVE  SerialInv'
<1> DEFINE record == Recorded("Abandoned", dom.candidate, <<>>)
           outs == record ++ Delete(Unusable)
           d == DraftOf("abandon", None, outs, Judgement)
<1>1. Draft(c, "abandon", None, outs, Judgement) /\ dom.state \in L!Candidate
  BY DEF Abandon, CanAbandon
<1>2. dom.iteration \in Iterations /\ dom.candidate \in Snapshots
  BY <1>1, JudgedTypes
<1>3. \A q \in Unusable : \E phase \in Judges :
        q = ManifestOf(phase, dom.iteration) /\ dom.state = RunsIn(phase)
  BY DEF Unusable, Present, ValRun, ManifestOf, Judges
<1>4. \A q \in Unusable : q \in Paths /\ q[1] = "manifest"
  BY <1>2, <1>3, SerialPaths
<1>5. DOMAIN outs = {The("impact")} \union Unusable
  BY DEF Recorded, Only, Delete, ++
<1>6. outs[The("impact")] = record[The("impact")]
  BY WithRecorded
<1>7. \A q \in Unusable : outs[q] = [before |-> file[q], to |-> Absent, same |-> FALSE]
  BY <1>4, SerialPaths DEF Recorded, Only, Delete, ++
<1>8. "Abandoned" \in Outcomes /\ <<>> \in Seq(Scores)
  BY DEF Outcomes
<1> HIDE DEF outs
<1>9. Enters(d, "Abandoned", dom.candidate, <<>>)
  BY <1>2, <1>5, <1>6, <1>8, RecordedEnters
<1>10. Without("candidate", outs)
  BY <1>4, <1>5, SerialPaths DEF Without
<1>11. FreshCandidate(d)
  BY <1>10, NoCandidateFresh
<1>12. d.op = "abandon"
  BY DEF DraftOf
<1>13. \A q \in Paths : q[1] = "manifest" =>
         d.outs[q] = IF q \in Unusable THEN outs[q] ELSE Keep
  BY <1>5, SerialPaths, DraftAt
<1>14. \A q \in Unusable : outs[q].to = Absent /\ outs[q] # Keep
  <2>1. ASSUME NEW q \in Unusable PROVE outs[q].to = Absent /\ outs[q] # Keep
    <3>1. PICK phase \in Judges : q = In("manifest", <<phase, dom.iteration>>)
      BY <1>3 DEF ManifestOf
    <3>2. file[q] \in RunContents \union {Absent}
      BY <1>2, <3>1, SerialPaths, RunFileContents DEF RunFiles
    <3>3. outs[q] = [before |-> file[q], to |-> Absent, same |-> FALSE]
      BY <1>7
    <3>4. [before |-> file[q], to |-> Absent, same |-> FALSE] # Keep
      BY <3>2, OutputIsNoMarker
    <3>5. outs[q].to = Absent
      BY <3>3
    <3>6. QED
      BY <3>3, <3>4, <3>5
  <2>2. QED
    BY <2>1
<1> HIDE DEF d
<1>15. FreshEntry(d)
  BY <1>9, <1>12 DEF FreshEntry
<1>16. FreshRuns(d)
  <2>1. ASSUME NEW ph \in Judges, NEW k \in Iterations, d.outs[ManifestOf(ph, k)] # Keep
        PROVE  /\ k = dom.iteration /\ dom.state = RunsIn(ph)
               /\ d.outs[ManifestOf(ph, k)].to = Absent
    <3>1. ManifestOf(ph, k) \in Unusable /\ d.outs[ManifestOf(ph, k)].to = Absent
      BY <1>13, <1>14, <2>1, SerialPaths
    <3>2. PICK phase \in Judges : /\ ManifestOf(ph, k) = ManifestOf(phase, dom.iteration)
                                  /\ dom.state = RunsIn(phase)
      BY <1>3, <3>1
    <3>3. ph = phase /\ k = dom.iteration
      BY <3>2, ManifestsDiffer
    <3>4. QED
      BY <3>1, <3>2, <3>3
  <2>2. \A q \in Unusable : d.outs[q] # Keep
    BY <1>4, <1>13, <1>14
  <2>3. QED
    BY <1>12, <2>1, <2>2 DEF FreshRuns
<1>17. FreshManifest(d)
  BY <1>12, <1>13, <1>14, SerialPaths DEF FreshManifest
<1>18. dom.state # "UNINITIALIZED"
  BY <1>1 DEF L!Candidate
<1>19. QED
  BY <1>1, <1>11, <1>15, <1>16, <1>17, <1>18, SerialDraft DEF Fresh, d

-----------------------------------------------------------------------------
(***************************************************************************)
(* What a commit does to the state: most leave the candidate and its       *)
(* evidence alone, some settle the iteration, five do neither.             *)
(***************************************************************************)

Spent == {e.manifest : e \in Consumed}

LEMMA ConsumedSame ==
  ASSUME SameConsumed
  PROVE  Consumed' = Consumed /\ Spent' = Spent
BY DEF SameConsumed, Consumed, Spent

LEMMA ConsumedMore ==
  ASSUME LP!LifecycleInv, NEW m \in Scored(Scores), NEW by \in LP!Uses, Uses(m, by)
  PROVE  /\ Consumed' = Consumed \union {[manifest |-> m, by |-> by]}
         /\ Spent \subseteq Spent' /\ m \in Spent'
<1> DEFINE e == [manifest |-> m, by |-> by]
           S == [manifest : Scored(Scores), by : LP!Uses]
<1>1. dom.consumed \in Seq(S) /\ e \in S
  BY DomTypes
<1>2. e.manifest = m
  OBVIOUS
<1>3. dom'.consumed = Append(dom.consumed, e)
  BY DEF Uses
<1> HIDE DEF e, S
<1>4. Consumed' = Consumed \union {e}
  BY <1>1, <1>3, AppendedSet DEF Consumed
<1>5. QED
  BY <1>2, <1>4 DEF Spent, e

\* No candidate is judged yet, and none was decided in this iteration.
Early == LP!BeforeBaseline \union {"NEEDS_TRAIN_RUN", "NEEDS_WIKI", "NEEDS_PROPOSAL"}

\* The candidate and its evidence stay as they are.
Minor ==
  /\ SameBest /\ SameCandidate /\ SameJudgement /\ Consumed \subseteq Consumed'
  /\ \/ dom'.state = dom.state /\ (dom.state = "NEEDS_GATE" => dom'.current = dom.current)
     \/ dom.state \in Early /\ dom'.state \in Early

\* The iteration is settled and the current manifest spent.
Settling ==
  /\ dom.state \in {"NEEDS_PROPOSAL"} \union L!Candidate
  /\ \E best, active : Advances(best, active)
  /\ Consumed \subseteq Consumed' /\ (dom.current # None => dom.current \in Spent')

MinorOps ==
  {"persist", "skip-seed", "seed-observations", "rollback-seed", "ingest", "apply-wiki",
   "reset-manifest"} \union Tests

LEMMA MinorSteps ==
  ASSUME LP!LifecycleInv, NEW op, NEW arg, TypedArg(op, arg), Transition(op, arg), op \in MinorOps,
         op = "ingest" => arg.score = Invalid \/ arg.phase \notin Judges
  PROVE  Minor
<1>1. CASE UNCHANGED dom
  BY <1>1
  DEF Minor, SameBest, SameCandidate, SameJudgement, Consumed
<1>2. CASE L!SkipSeed \/ L!SeedObservations \/ L!RollbackSeed
  BY <1>2, FoundEffect, ConsumedSame DEF Minor, Early
<1>3. CASE L!ApplyWiki
  <2>1. dom.current \in Scored(Scores) /\ "apply-wiki" \in LP!Uses
    BY <1>3, DomTypes DEF L!ApplyWiki, L!Owns, LP!Uses
  <2>2. QED
    BY <1>3, <2>1, WikiEffect, ConsumedMore DEF Minor, Early
<1>4. CASE L!ResetManifest
  BY <1>4, ResetEffect, ConsumedSame DEF Minor, Early, L!Resettable
<1>5. ASSUME op = "ingest", arg.score # Invalid PROVE Minor
  <2>1. arg \in Scored(Scores)
    BY <1>5 DEF TypedArg, Scored
  <2>2. CASE L!IngestTrain(arg)
    BY <2>1, <2>2, TrainEffect, ConsumedSame DEF Minor, Early
  <2>3. ASSUME arg.phase \in Tests, L!IngestTest(arg.phase, arg) PROVE Minor
    BY <2>1, <2>3, TestEffect, ConsumedSame DEF Minor
  <2>4. Ingested(arg)
    BY <1>5 DEF Transition, Tests
  <2>5. QED
    BY <1>5, <2>2, <2>3, <2>4 DEF Ingested, Judges
<1>6. ASSUME NEW phase \in Tests, PreparedTest(phase) PROVE Minor
  BY <1>6, TestEffect, ConsumedSame DEF Minor
<1>7. QED
  BY <1>1, <1>2, <1>3, <1>4, <1>5, <1>6 DEF Transition, Ingested, MinorOps, Tests

LEMMA SettlingSteps ==
  ASSUME LP!LifecycleInv,
         L!ProposeNothing \/ L!Abandon \/ L!AcceptOnValidation \/ L!AcceptOnConfirmation \/ L!Reject
  PROVE  Settling
<1>1. CASE L!ProposeNothing
  <2>1. dom.current = None
    BY <1>1, NothingEffect DEF LP!LifecycleInv, LP!CandidateScope, LP!At
  <2>2. QED
    BY <1>1, <2>1, NothingEffect, ConsumedSame DEF Settling
<1>2. ASSUME NEW by \in LP!Uses, NEW best, NEW active, Advances(best, active),
             dom.state \in L!Candidate, dom.current \in Scored(Scores), Uses(dom.current, by)
      PROVE  Settling
  BY <1>2, ConsumedMore DEF Settling
<1>3. dom.state = "NEEDS_GATE" => dom.current \in Scored(Scores)
  BY JudgedScores
<1>4. CASE L!AcceptOnValidation
  BY <1>2, <1>3, <1>4, AcceptEffect DEF L!Candidate, LP!Uses
<1>5. CASE L!AcceptOnConfirmation
  BY <1>2, <1>3, <1>5, AcceptConfirmedEffect DEF L!Candidate, LP!Uses
<1>6. CASE L!Reject
  BY <1>2, <1>3, <1>6, RejectEffect DEF L!Candidate, LP!Uses
<1>7. CASE L!Abandon
  <2>1. CASE dom.current = None
    BY <1>7, <2>1, AbandonEffect, ConsumedSame DEF Settling
  <2>2. CASE dom.current # None
    BY <1>2, <1>7, <2>2, AbandonEffect, DomTypes DEF LP!Uses
  <2>3. QED
    BY <2>1, <2>2
<1>8. QED
  BY <1>1, <1>4, <1>5, <1>6, <1>7

LEMMA Effects ==
  ASSUME LP!LifecycleInv, NEW op, NEW arg, TypedArg(op, arg), Transition(op, arg)
  PROVE  \/ /\ op \in MinorOps /\ Minor
            /\ op = "ingest" => arg.score = Invalid \/ arg.phase \notin Judges
         \/ /\ op = "baseline-finalize" /\ arg \in Scored(Scores)
            /\ L!FinalizeBaseline(arg, arg.score, Empty)
         \/ /\ op = "ingest" /\ arg \in Scored(Scores) /\ arg.phase = "val"
            /\ L!IngestVal(arg, arg.score)
         \/ /\ op = "ingest" /\ arg \in Scored(Scores) /\ arg.phase = "val_confirm"
            /\ L!IngestConfirm(arg, arg.score)
         \/ op = "apply-proposal-change" /\ arg \in Snapshots /\ L!ProposeChange(arg)
         \/ op = "gate" /\ L!AskConfirmation
         \/ /\ Settling
            /\ \/ op = "apply-proposal-no-action" /\ L!ProposeNothing
               \/ op = "abandon" /\ L!Abandon
               \/ op = "gate" /\ (L!AcceptOnValidation \/ L!AcceptOnConfirmation \/ L!Reject)
<1>1. CASE op \in MinorOps /\ (op = "ingest" => arg.score = Invalid \/ arg.phase \notin Judges)
  BY <1>1, MinorSteps
<1>2. CASE op = "ingest" /\ arg.score # Invalid /\ arg.phase \in Judges
  <2>1. arg \in Scored(Scores)
    BY <1>2 DEF TypedArg, Scored
  <2>2. Ingested(arg)
    BY <1>2 DEF Transition, Tests
  <2>3. QED
    BY <1>2, <2>1, <2>2 DEF Ingested, Judges, Tests
<1>3. CASE op = "baseline-finalize"
  BY <1>3 DEF Transition, Tests, TypedArg
<1>4. CASE op = "apply-proposal-change"
  BY <1>4 DEF Transition, Tests, TypedArg
<1>5. CASE op = "gate"
  BY <1>5, SettlingSteps DEF Transition, Tests, L!Gate
<1>6. CASE op \in {"apply-proposal-no-action", "abandon"}
  BY <1>6, SettlingSteps DEF Transition, Tests
<1>7. QED
  BY <1>1, <1>2, <1>3, <1>4, <1>5, <1>6 DEF Transition, MinorOps

-----------------------------------------------------------------------------
(***************************************************************************)
(* The manifests a candidate is judged by, under a commit.                 *)
(***************************************************************************)

LEMMA ManifestStep ==
  ASSUME TypedInv, NEW c \in Clients, Commit(c), NEW d, d = pending[c], FreshRuns(d),
         NEW phase \in Judges, NEW k \in Iterations
  PROVE  LET q == ManifestOf(phase, k)
         IN  \/ /\ file'[q] = file[q]
                /\ d.op = "abandon" /\ k = dom.iteration /\ dom.state = RunsIn(phase) =>
                     file[q] = Absent
             \/ /\ k = dom.iteration /\ dom.state = RunsIn(phase)
                /\ \/ d.op = "ingest" /\ d.arg.phase = phase /\ file'[q] = d.arg
                   \/ d.op \in {"reset-manifest", "abandon"} /\ file'[q] = Absent
<1> DEFINE q == ManifestOf(phase, k)
<1>1. q \in Paths
  BY SerialPaths
<1>2. CASE d.outs[q] # Keep
  BY <1>1, <1>2, Committed DEF FreshRuns
<1>3. CASE d.outs[q] = Keep
  <2>1. file'[q] = file[q]
    BY <1>1, <1>3, Committed
  <2>2. ASSUME d.op = "abandon", k = dom.iteration, dom.state = RunsIn(phase), file[q] # Absent
        PROVE  FALSE
    <3>1. q \in Unusable
      BY <2>2 DEF Unusable, Present, ValRun, ManifestOf, Judges
    <3>2. QED
      BY <1>3, <2>2, <3>1 DEF FreshRuns
  <2>3. QED
    BY <2>1, <2>2
<1>4. QED
  BY <1>2, <1>3

\* A file that is lost, while no candidate is judged, is what it can be.
LEMMA LostFile ==
  ASSUME NEW phase, NEW k, file'[ManifestOf(phase, k)] \in Lost, dom'.state \notin L!Candidate
  PROVE  JudgedFile(phase, k)'
BY DEF JudgedFile, ValFile, ConfirmFile, Validated, Confirming, Confirmed, L!Candidate

\* Nor do other iterations matter to it.
LEMMA OtherFile ==
  ASSUME NEW phase, NEW k, JudgedFile(phase, k),
         file'[ManifestOf(phase, k)] = file[ManifestOf(phase, k)],
         Consumed \subseteq Consumed', dom'.iteration = dom.iteration, k # dom.iteration,
         dom'.state = "DONE" <=> dom.state = "DONE"
  PROVE  JudgedFile(phase, k)'
BY DEF JudgedFile, Settled

LEMMA MinorJudged ==
  ASSUME LP!LifecycleInv, NEW phase \in Judges, NEW k \in Iterations, JudgedFile(phase, k), Minor,
         NEW x, x = file[ManifestOf(phase, k)], NEW y, y = file'[ManifestOf(phase, k)],
         \/ y = x \/ (y = Corrupt /\ x \notin Lost)
         \/ k = dom.iteration /\ dom.state = RunsIn(phase) /\ dom'.state = dom.state /\ Unfit(y)
  PROVE  JudgedFile(phase, k)'
<1>1. /\ Settled(k)' = Settled(k) /\ dom'.iteration = dom.iteration
      /\ Spent \subseteq Spent'
  BY DEF Minor, SameCandidate, Settled, Early, LP!BeforeBaseline, Spent
<1>2. /\ Settled(k) => x \in Lost \union Spent
      /\ ~Settled(k) /\ k # dom.iteration => x \in Lost
      /\ ~Settled(k) /\ k = dom.iteration => IF phase = "val" THEN ValFile(x) ELSE ConfirmFile(x)
  BY DEF JudgedFile, Spent
<1>3. CASE y = x \/ (y = Corrupt /\ x \notin Lost)
  <2>1. ValFile(x) => ValFile(y)'
    <3>1. CASE dom.state \in Early /\ dom'.state \in Early
      BY <1>3, <3>1
      DEF ValFile, Validated, Confirming, Confirmed, Early, LP!BeforeBaseline, L!Candidate
    <3>2. CASE dom'.state = dom.state /\ (dom.state = "NEEDS_GATE" => dom'.current = dom.current)
      <4>1. /\ dom'.gatePhase = dom.gatePhase
            /\ dom'.provisionalManifest = dom.provisionalManifest
        BY DEF Minor, SameJudgement
      <4>2. QED
        BY <1>3, <3>2, <4>1
        DEF ValFile, Validated, Confirming, Confirmed, Unfit
    <3>3. QED
      BY <3>1, <3>2 DEF Minor
  <2>2. ConfirmFile(x) => ConfirmFile(y)'
    <3>1. CASE dom.state \in Early /\ dom'.state \in Early
      BY <1>3, <3>1
      DEF ConfirmFile, Validated, Confirming, Confirmed, Early, LP!BeforeBaseline, L!Candidate
    <3>2. CASE dom'.state = dom.state /\ (dom.state = "NEEDS_GATE" => dom'.current = dom.current)
      <4>1. dom'.gatePhase = dom.gatePhase
        BY DEF Minor, SameJudgement
      <4>2. QED
        BY <1>3, <3>2, <4>1
        DEF ConfirmFile, Validated, Confirming, Confirmed, Unfit
    <3>3. QED
      BY <3>1, <3>2 DEF Minor
  <2>3. QED
    BY <1>1, <1>2, <1>3, <2>1, <2>2 DEF JudgedFile, Lost, Spent
<1>4. CASE k = dom.iteration /\ dom.state = RunsIn(phase) /\ dom'.state = dom.state /\ Unfit(y)
  <2>1. ~Settled(k)
    BY <1>4, RunsWhere, DomTypes DEF Settled, Judges
  <2>2. /\ phase = "val" => ValFile(y)'
        /\ phase # "val" => ConfirmFile(y)'
    BY <1>4, RunsWhere
    DEF ValFile, ConfirmFile, Validated, Confirming, Confirmed, Judges, L!Candidate
  <2>3. QED
    BY <1>1, <1>4, <2>1, <2>2 DEF JudgedFile
<1>5. QED
  BY <1>3, <1>4

\* The validation a confirmation rests on is spent.
LEMMA EarnedSpent ==
  ASSUME LP!LifecycleInv, dom.state = "NEEDS_VAL_CONFIRM" \/ dom.gatePhase = "confirmation"
  PROVE  /\ [manifest |-> dom.provisionalManifest, by |-> "gate-validation"] \in Consumed
         /\ dom.provisionalManifest \in Spent
<1>1. [manifest |-> dom.provisionalManifest, by |-> "gate-validation"] \in Consumed
  BY DEF LP!LifecycleInv, LP!ConfirmationEarned, LP!At, Consumed
<1>2. [manifest |-> dom.provisionalManifest, by |-> "gate-validation"].manifest
        = dom.provisionalManifest
  OBVIOUS
<1>3. QED
  BY <1>1, <1>2 DEF Spent

\* What a settled iteration leaves behind is spent.
LEMMA SettlingJudged ==
  ASSUME LP!LifecycleInv, NEW phase \in Judges, NEW k \in Iterations, JudgedFile(phase, k), Settling,
         NEW x, x = file[ManifestOf(phase, k)], NEW y, y = file'[ManifestOf(phase, k)],
         y \in {x, Absent},
         k = dom.iteration /\ dom.state = RunsIn(phase) => y = Absent
  PROVE  JudgedFile(phase, k)'
<1>1. /\ Settled(k) => x \in Lost \union Spent
      /\ ~Settled(k) /\ k # dom.iteration => x \in Lost
      /\ ~Settled(k) /\ k = dom.iteration => IF phase = "val" THEN ValFile(x) ELSE ConfirmFile(x)
  BY DEF JudgedFile, Spent
<1>2. PICK best, active : Advances(best, active)
  BY DEF Settling
<1>3. /\ dom'.state \in {"DONE", "NEEDS_TRAIN_RUN"} /\ dom.state # "DONE"
      /\ \/ dom'.iteration = dom.iteration /\ dom'.state = "DONE"
         \/ dom'.iteration = dom.iteration + 1
      /\ dom.iteration \in Nat /\ k \in Nat
  BY <1>2, DomTypes, ConstantTypes DEF Advances, L!Finished, Settling, L!Candidate, Iterations
<1>4. Spent \subseteq Spent' /\ (dom.current # None => dom.current \in Spent')
  BY DEF Settling, Spent
<1>5. CASE k # dom.iteration
  <2>1. Settled(k) => Settled(k)'
    BY <1>3 DEF Settled
  <2>2. Settled(k) => y \in Lost \union Spent'
    BY <1>1, <1>4 DEF Lost
  <2>3. ~Settled(k) => y \in Lost
    BY <1>1, <1>5 DEF Lost
  <2>4. CASE Settled(k)
    BY <2>1, <2>2, <2>4 DEF JudgedFile, Spent
  <2>5. CASE ~Settled(k)
    BY <1>3, <2>3, <2>5, LostFile DEF L!Candidate
  <2>6. QED
    BY <2>4, <2>5
<1>6. CASE k = dom.iteration
  <2>1. ~Settled(k) /\ Settled(k)'
    BY <1>3, <1>6 DEF Settled
  <2>2. y \in Lost \union Spent'
    <3>1. CASE dom.state = RunsIn(phase)
      BY <1>6, <3>1 DEF Lost
    <3>2. CASE x \in Lost
      BY <3>2 DEF Lost
    <3>3. CASE dom.state = "NEEDS_GATE"
      <4>1. dom.current \in Spent'
        BY <1>4, <3>3, JudgedScores, ConstantTypes
      <4>2. dom.gatePhase = "confirmation" => dom.provisionalManifest \in Spent'
        BY <1>4, EarnedSpent
      <4>3. dom.gatePhase \in {"validation", "confirmation"}
        BY <3>3, JudgedScores
      <4>4. QED
        BY <1>1, <1>6, <2>1, <3>3, <4>1, <4>2, <4>3
        DEF ValFile, ConfirmFile, Validated, Confirming, Confirmed, Lost
    <3>4. CASE dom.state = "NEEDS_VAL_CONFIRM" /\ phase = "val"
      <4>1. dom.provisionalManifest \in Spent'
        BY <1>4, <3>4, EarnedSpent
      <4>2. QED
        BY <1>1, <1>6, <2>1, <3>4, <4>1 DEF ValFile, Confirming, Lost
    <3>5. CASE dom.state = "NEEDS_PROPOSAL" \/ (dom.state = "NEEDS_VAL_RUN" /\ phase # "val")
      BY <1>1, <1>6, <2>1, <3>2, <3>5
      DEF ValFile, ConfirmFile, Validated, Confirming, Confirmed, Lost, L!Candidate
    <3>6. QED
      BY <3>1, <3>3, <3>4, <3>5, RunsWhere DEF Settling, L!Candidate, Judges
  <2>3. QED
    BY <2>1, <2>2 DEF JudgedFile, Spent
<1>7. QED
  BY <1>5, <1>6

\* A commit between two states that judge, or may, the candidate of the same iteration.
LEMMA JudgedOver ==
  ASSUME JudgedFiles, NEW phase \in Judges, NEW k \in Iterations,
         dom.state # "DONE", dom'.state \in L!Candidate, dom'.iteration = dom.iteration,
         Consumed \subseteq Consumed', dom.iteration \in Nat,
         NEW x, x = file[ManifestOf(phase, k)], NEW y, y = file'[ManifestOf(phase, k)],
         k # dom.iteration => y = x,
         k = dom.iteration /\ phase = "val" /\ ValFile(x) => ValFile(y)',
         k = dom.iteration /\ phase # "val" /\ ConfirmFile(x) => ConfirmFile(y)'
  PROVE  JudgedFile(phase, k)'
<1>1. JudgedFile(phase, k)
  BY DEF JudgedFiles
<1>2. dom'.state # "DONE"
  BY DEF L!Candidate
<1>3. CASE k # dom.iteration
  BY <1>1, <1>2, <1>3, OtherFile
<1>4. CASE k = dom.iteration
  <2>1. ~Settled(k) /\ ~Settled(k)'
    BY <1>2, <1>4 DEF Settled
  <2>2. (phase = "val" => ValFile(x)) /\ (phase # "val" => ConfirmFile(x))
    BY <1>1, <1>4, <2>1 DEF JudgedFile
  <2>3. (phase = "val" => ValFile(y)') /\ (phase # "val" => ConfirmFile(y)')
    BY <1>4, <2>2
  <2>4. QED
    BY <1>4, <2>1, <2>3 DEF JudgedFile
<1>5. QED
  BY <1>3, <1>4

LEMMA ChangeJudged ==
  ASSUME LP!LifecycleInv, JudgedFiles, NEW snapshot \in Snapshots, L!ProposeChange(snapshot),
         \A phase \in Judges, k \in Iterations :
           file'[ManifestOf(phase, k)] = file[ManifestOf(phase, k)]
  PROVE  JudgedFiles'
<1>1. /\ dom.state = "NEEDS_PROPOSAL" /\ dom'.state = "NEEDS_VAL_RUN"
      /\ dom'.iteration = dom.iteration /\ Consumed' = Consumed /\ dom.iteration \in Nat
  BY ChangeEffect, ConsumedSame, DomTypes, ConstantTypes
<1>2. ASSUME NEW x PROVE (ValFile(x) => ValFile(x)') /\ (ConfirmFile(x) => ConfirmFile(x)')
  BY <1>1
  DEF ValFile, ConfirmFile, Validated, Confirming, Confirmed, Lost, Unfit, L!Candidate
<1>3. ASSUME NEW phase \in Judges, NEW k \in Iterations PROVE JudgedFile(phase, k)'
  BY <1>1, <1>2, JudgedOver DEF L!Candidate
<1>4. QED
  BY <1>3 DEF JudgedFiles

LEMMA AskJudged ==
  ASSUME LP!LifecycleInv, JudgedFiles, L!AskConfirmation,
         \A phase \in Judges, k \in Iterations :
           file'[ManifestOf(phase, k)] = file[ManifestOf(phase, k)]
  PROVE  JudgedFiles'
<1>1. /\ dom.state = "NEEDS_GATE" /\ dom'.state = "NEEDS_VAL_CONFIRM"
      /\ dom.gatePhase = "validation" /\ dom'.provisionalManifest = dom.current
      /\ dom'.iteration = dom.iteration /\ dom.iteration \in Nat
  BY AskEffect, DomTypes, ConstantTypes DEF SameCandidate
<1>2. Consumed \subseteq Consumed'
  <2>1. dom.current \in Scored(Scores) /\ "gate-validation" \in LP!Uses
    BY <1>1, JudgedScores DEF LP!Uses
  <2>2. QED
    BY <2>1, AskEffect, ConsumedMore
<1>3. ASSUME NEW x PROVE (ValFile(x) => ValFile(x)') /\ (ConfirmFile(x) => ConfirmFile(x)')
  BY <1>1
  DEF ValFile, ConfirmFile, Validated, Confirming, Confirmed, Lost, Unfit, L!Candidate
<1>4. ASSUME NEW phase \in Judges, NEW k \in Iterations PROVE JudgedFile(phase, k)'
  BY <1>1, <1>2, <1>3, JudgedOver DEF L!Candidate
<1>5. QED
  BY <1>4 DEF JudgedFiles

\* The run that is ingested is the current manifest, on disk.
LEMMA RunJudged ==
  ASSUME LP!LifecycleInv, JudgedFiles, NEW m \in Scored(Scores),
         \/ m.phase = "val" /\ L!IngestVal(m, m.score)
         \/ m.phase = "val_confirm" /\ L!IngestConfirm(m, m.score),
         file'[ManifestOf(m.phase, dom.iteration)] = m,
         \A phase \in Judges, k \in Iterations :
           phase # m.phase \/ k # dom.iteration =>
             file'[ManifestOf(phase, k)] = file[ManifestOf(phase, k)]
  PROVE  JudgedFiles'
<1>1. /\ dom'.state = "NEEDS_GATE" /\ dom'.current = m
      /\ dom'.iteration = dom.iteration /\ Consumed' = Consumed /\ dom.iteration \in Nat
      /\ dom'.provisionalManifest = dom.provisionalManifest
      /\ \/ dom.state = "NEEDS_VAL_RUN" /\ m.phase = "val" /\ dom'.gatePhase = "validation"
         \/ /\ dom.state = "NEEDS_VAL_CONFIRM" /\ m.phase = "val_confirm"
            /\ dom'.gatePhase = "confirmation"
  BY ValidationEffect, ConfirmationEffect, ConsumedSame, DomTypes, ConstantTypes
  DEF SameCandidate
<1>2. /\ m.phase = "val" => ValFile(m)'
      /\ m.phase = "val_confirm" => ConfirmFile(m)'
  BY <1>1 DEF ValFile, ConfirmFile, Validated, Confirming, Confirmed, L!Candidate
<1>3. ASSUME NEW x
      PROVE  /\ m.phase = "val_confirm" /\ ValFile(x) => ValFile(x)'
             /\ m.phase = "val" /\ ConfirmFile(x) => ConfirmFile(x)'
  BY <1>1 DEF ValFile, ConfirmFile, Validated, Confirming, Confirmed, L!Candidate
<1>4. ASSUME NEW phase \in Judges, NEW k \in Iterations PROVE JudgedFile(phase, k)'
  BY <1>1, <1>2, <1>3, JudgedOver DEF L!Candidate, Judges
<1>5. QED
  BY <1>4 DEF JudgedFiles

LEMMA CommitJudged ==
  ASSUME LP!LifecycleInv, TypedInv, JudgedFiles, NEW c \in Clients, Commit(c),
         NEW d, d = pending[c], Fresh(d)
  PROVE  JudgedFiles'
<1>1. TypedArg(d.op, d.arg) /\ Transition(d.op, d.arg)
  BY DEF Commit, TypedInv, TypedDraft
<1>2. FreshRuns(d) /\ FreshManifest(d)
  BY DEF Fresh
<1>3. ASSUME NEW phase \in Judges, NEW k \in Iterations
      PROVE  LET q == ManifestOf(phase, k)
             IN  \/ /\ file'[q] = file[q]
                    /\ d.op = "abandon" /\ k = dom.iteration /\ dom.state = RunsIn(phase) =>
                         file[q] = Absent
                 \/ /\ k = dom.iteration /\ dom.state = RunsIn(phase)
                    /\ \/ d.op = "ingest" /\ d.arg.phase = phase /\ file'[q] = d.arg
                       \/ d.op \in {"reset-manifest", "abandon"} /\ file'[q] = Absent
  BY <1>2, ManifestStep
<1>4. d.op \notin {"ingest", "reset-manifest", "abandon"} =>
        \A phase \in Judges, k \in Iterations :
          file'[ManifestOf(phase, k)] = file[ManifestOf(phase, k)]
  BY <1>3
<1>5. CASE /\ d.op \in MinorOps /\ Minor
           /\ d.op = "ingest" => d.arg.score = Invalid \/ d.arg.phase \notin Judges
  <2>1. ASSUME NEW phase \in Judges, NEW k \in Iterations PROVE JudgedFile(phase, k)'
    <3> DEFINE q == ManifestOf(phase, k)
    <3>1. JudgedFile(phase, k)
      BY DEF JudgedFiles
    <3>2. CASE file'[q] = file[q]
      BY <1>5, <3>1, <3>2, MinorJudged
    <3>3. CASE file'[q] # file[q]
      <4>1. k = dom.iteration /\ dom.state = RunsIn(phase) /\ Unfit(file'[q])
        BY <1>3, <1>5, <3>3 DEF Unfit, MinorOps, Tests
      <4>2. dom'.state = dom.state
        BY <1>5, <4>1, RunsWhere DEF Minor, Judges, Early, LP!BeforeBaseline
      <4>3. QED
        BY <1>5, <3>1, <4>1, <4>2, MinorJudged
    <3>4. QED
      BY <3>2, <3>3
  <2>2. QED
    BY <2>1 DEF JudgedFiles
<1>6. CASE /\ d.op = "baseline-finalize" /\ d.arg \in Scored(Scores)
           /\ L!FinalizeBaseline(d.arg, d.arg.score, Empty)
  <2>1. dom.state = "NEEDS_BASELINE_RUN" /\ dom'.state \in {"DONE", "NEEDS_TRAIN_RUN"}
    BY <1>6, BaselineEffect
  <2>2. dom.iteration = 0
    BY <2>1 DEF LP!LifecycleInv, LP!StopsInTime, LP!At, LP!BeforeBaseline
  <2>3. ASSUME NEW phase \in Judges, NEW k \in Iterations PROVE JudgedFile(phase, k)'
    <3>1. ~Settled(k) /\ k # dom.iteration
      BY <2>1, <2>2 DEF Settled, Iterations
    <3>2. file'[ManifestOf(phase, k)] \in Lost
      BY <1>4, <1>6, <3>1 DEF JudgedFiles, JudgedFile
    <3>3. QED
      BY <2>1, <3>2, LostFile DEF L!Candidate
  <2>4. QED
    BY <2>3 DEF JudgedFiles
<1>7. CASE /\ d.op = "ingest" /\ d.arg \in Scored(Scores)
           /\ \/ d.arg.phase = "val" /\ L!IngestVal(d.arg, d.arg.score)
              \/ d.arg.phase = "val_confirm" /\ L!IngestConfirm(d.arg, d.arg.score)
  <2>1. d.arg.phase \in Judges /\ dom.state \in L!Candidate
    BY <1>7, ValidationEffect, ConfirmationEffect DEF Judges, L!Candidate
  <2>2. dom.iteration \in Iterations
    BY <2>1, JudgedTypes
  <2>3. d.outs[ManifestOf(d.arg.phase, dom.iteration)] # Keep
    BY <1>2, <1>7, <2>1 DEF FreshManifest, ValRun, ManifestOf
  <2>4. file'[ManifestOf(d.arg.phase, dom.iteration)] = d.arg
    BY <1>2, <1>7, <2>1, <2>2, <2>3, SerialPaths, Committed DEF FreshRuns
  <2>5. \A phase \in Judges, k \in Iterations :
          phase # d.arg.phase \/ k # dom.iteration =>
            file'[ManifestOf(phase, k)] = file[ManifestOf(phase, k)]
    BY <1>3, <1>7
  <2>6. QED
    BY <1>7, <2>4, <2>5, RunJudged
<1>8. CASE d.op = "apply-proposal-change" /\ d.arg \in Snapshots /\ L!ProposeChange(d.arg)
  BY <1>4, <1>8, ChangeJudged
<1>9. CASE d.op = "gate" /\ L!AskConfirmation
  BY <1>4, <1>9, AskJudged
<1>10. CASE /\ Settling
            /\ \/ d.op = "apply-proposal-no-action" /\ L!ProposeNothing
               \/ d.op = "abandon" /\ L!Abandon
               \/ d.op = "gate" /\ (L!AcceptOnValidation \/ L!AcceptOnConfirmation \/ L!Reject)
  <2>1. ASSUME NEW phase \in Judges, NEW k \in Iterations PROVE JudgedFile(phase, k)'
    <3> DEFINE q == ManifestOf(phase, k)
    <3>1. JudgedFile(phase, k)
      BY DEF JudgedFiles
    <3>2. file'[q] \in {file[q], Absent}
      BY <1>3, <1>10
    <3>3. d.op # "abandon" => dom.state # RunsIn(phase)
      BY <1>10, NothingEffect, AcceptEffect, AcceptConfirmedEffect, RejectEffect, RunsWhere
      DEF Judges
    <3>4. k = dom.iteration /\ dom.state = RunsIn(phase) => file'[q] = Absent
      BY <1>3, <1>10, <3>3
    <3>5. QED
      BY <1>10, <3>1, <3>2, <3>4, SettlingJudged
  <2>2. QED
    BY <2>1 DEF JudgedFiles
<1>11. QED
  BY <1>1, <1>5, <1>6, <1>7, <1>8, <1>9, <1>10, Effects

-----------------------------------------------------------------------------
(***************************************************************************)
(* The state and the other files, under a commit.                          *)
(***************************************************************************)

LEMMA CommitEffects ==
  ASSUME LP!LifecycleInv, TypedInv, NEW c \in Clients, Commit(c), NEW d, d = pending[c]
  PROVE  \/ /\ d.op \in MinorOps /\ Minor
            /\ d.op = "ingest" => d.arg.score = Invalid \/ d.arg.phase \notin Judges
         \/ /\ d.op = "baseline-finalize" /\ d.arg \in Scored(Scores)
            /\ L!FinalizeBaseline(d.arg, d.arg.score, Empty)
         \/ /\ d.op = "ingest" /\ d.arg \in Scored(Scores) /\ d.arg.phase = "val"
            /\ L!IngestVal(d.arg, d.arg.score)
         \/ /\ d.op = "ingest" /\ d.arg \in Scored(Scores) /\ d.arg.phase = "val_confirm"
            /\ L!IngestConfirm(d.arg, d.arg.score)
         \/ d.op = "apply-proposal-change" /\ d.arg \in Snapshots /\ L!ProposeChange(d.arg)
         \/ d.op = "gate" /\ L!AskConfirmation
         \/ /\ Settling
            /\ \/ d.op = "apply-proposal-no-action" /\ L!ProposeNothing
               \/ d.op = "abandon" /\ L!Abandon
               \/ d.op = "gate" /\ (L!AcceptOnValidation \/ L!AcceptOnConfirmation \/ L!Reject)
<1>1. TypedArg(d.op, d.arg) /\ Transition(d.op, d.arg)
  BY DEF Commit, TypedInv, TypedDraft
<1>2. QED
  BY <1>1, Effects

\* A manifest of this identity is this run.
LEMMA RunIs ==
  ASSUME NEW m \in Scored(Scores), m.iteration = dom.iteration, m.snapshot = dom.candidate
  PROVE  m = RunOf(m.phase, m.score)
BY DEF Scored, RunOf

LEMMA CommitJudging ==
  ASSUME LP!LifecycleInv, TypedInv, Judging, NEW c \in Clients, Commit(c),
         NEW d, d = pending[c], FreshManifest(d)
  PROVE  Judging'
<1> USE DEF Validated, Confirming, Confirmed
<1>1. CASE dom'.state \notin {"NEEDS_GATE", "NEEDS_VAL_CONFIRM"}
  BY <1>1 DEF Judging
<1>2. CASE Minor /\ dom'.state = dom.state
  <2>1. dom.state = "NEEDS_GATE" => dom'.current = dom.current
    BY <1>2 DEF Minor, Early, LP!BeforeBaseline
  <2>2. /\ dom'.iteration = dom.iteration /\ dom'.candidate = dom.candidate
        /\ dom'.provisional = dom.provisional /\ dom'.confirmation = dom.confirmation
        /\ dom'.provisionalManifest = dom.provisionalManifest /\ dom'.gatePhase = dom.gatePhase
    BY <1>2 DEF Minor, SameCandidate, SameJudgement
  <2>3. QED
    BY <1>2, <2>1, <2>2 DEF Judging, RunOf
<1>3. CASE Minor /\ dom'.state # dom.state
  BY <1>1, <1>3 DEF Minor, Early, LP!BeforeBaseline
<1>4. CASE d.op = "baseline-finalize" /\ d.arg \in Scored(Scores)
             /\ L!FinalizeBaseline(d.arg, d.arg.score, Empty)
  BY <1>1, <1>4, BaselineEffect
<1>5. ASSUME NEW m, m = d.arg, d.op = "ingest", m \in Scored(Scores), m.phase = "val",
             L!IngestVal(m, m.score)
      PROVE  Judging'
  <2>1. /\ dom'.state = "NEEDS_GATE" /\ dom'.gatePhase = "validation"
        /\ dom'.current = m /\ dom'.provisional = m.score
        /\ dom'.iteration = dom.iteration /\ dom'.candidate = dom.candidate
    BY <1>5, ValidationEffect DEF SameCandidate
  <2>2. m = RunOf("val", m.score)
    BY <1>5, RunIs DEF FreshManifest, Dir, Pointer, Repeated
  <2>3. QED
    BY <2>1, <2>2 DEF Judging, RunOf
<1>6. ASSUME NEW m, m = d.arg, d.op = "ingest", m \in Scored(Scores), m.phase = "val_confirm",
             L!IngestConfirm(m, m.score)
      PROVE  Judging'
  <2>1. /\ dom.state = "NEEDS_VAL_CONFIRM"
        /\ dom'.state = "NEEDS_GATE" /\ dom'.gatePhase = "confirmation"
        /\ dom'.current = m /\ dom'.confirmation = m.score
        /\ dom'.provisional = dom.provisional
        /\ dom'.provisionalManifest = dom.provisionalManifest
        /\ dom'.iteration = dom.iteration /\ dom'.candidate = dom.candidate
    BY <1>6, ConfirmationEffect DEF SameCandidate
  <2>2. m = RunOf("val_confirm", m.score)
    BY <1>6, RunIs DEF FreshManifest, Dir, Pointer, Repeated
  <2>3. QED
    BY <2>1, <2>2 DEF Judging, RunOf
<1>7. CASE d.arg \in Snapshots /\ L!ProposeChange(d.arg)
  BY <1>1, <1>7, ChangeEffect
<1>8. CASE L!AskConfirmation
  <2>1. /\ dom.state = "NEEDS_GATE" /\ dom.gatePhase = "validation"
        /\ dom'.state = "NEEDS_VAL_CONFIRM"
        /\ dom'.provisionalManifest = dom.current /\ dom'.provisional = dom.provisional
        /\ dom'.iteration = dom.iteration /\ dom'.candidate = dom.candidate
    BY <1>8, AskEffect DEF SameCandidate
  <2>2. QED
    BY <2>1 DEF Judging, RunOf
<1>9. CASE Settling
  BY <1>1, <1>9 DEF Settling, Advances
<1>10. QED
  BY <1>2, <1>3, <1>4, <1>5, <1>6, <1>7, <1>8, <1>9, CommitEffects

LEMMA CommitCandidate ==
  ASSUME LP!LifecycleInv, TypedInv, CandidateRecorded, NEW c \in Clients, Commit(c),
         NEW d, d = pending[c], FreshCandidate(d)
  PROVE  CandidateRecorded'
<1>1. d.op # "apply-proposal-change" =>
        \A k \in Iterations : file'[Of("candidate", k)] = file[Of("candidate", k)]
  BY SerialPaths, Committed DEF FreshCandidate
<1>2. ASSUME dom'.active = dom.active, dom'.iteration = dom.iteration,
             dom'.candidate = dom.candidate, d.op # "apply-proposal-change",
             dom'.state \in L!Candidate => dom.state \in L!Candidate
      PROVE  CandidateRecorded'
  <2>1. CASE dom.state \in L!Candidate
    <3>1. dom.iteration \in Iterations
      BY <2>1, JudgedTypes
    <3>2. QED
      BY <1>1, <1>2, <2>1, <3>1 DEF CandidateRecorded, CandidateMatches, CandidateFile
  <2>2. CASE dom.state \notin L!Candidate
    BY <1>2, <2>2 DEF CandidateRecorded
  <2>3. QED
    BY <2>1, <2>2
<1>3. CASE d.op \in MinorOps /\ Minor
  <2>1. dom'.state \in L!Candidate => dom.state \in L!Candidate
    BY <1>3 DEF Minor, Early, LP!BeforeBaseline, L!Candidate
  <2>2. QED
    BY <1>2, <1>3, <2>1 DEF Minor, SameBest, SameCandidate, MinorOps, Tests
<1>4. CASE d.arg \in Scored(Scores) /\ L!FinalizeBaseline(d.arg, d.arg.score, Empty)
  BY <1>4, BaselineEffect DEF CandidateRecorded, L!Candidate
<1>5. CASE /\ d.op = "ingest" /\ d.arg \in Scored(Scores)
           /\ L!IngestVal(d.arg, d.arg.score) \/ L!IngestConfirm(d.arg, d.arg.score)
  BY <1>2, <1>5, ValidationEffect, ConfirmationEffect DEF SameBest, SameCandidate, L!Candidate
<1>6. CASE d.op = "apply-proposal-change" /\ d.arg \in Snapshots /\ L!ProposeChange(d.arg)
  <2>1. /\ dom.state = "NEEDS_PROPOSAL" /\ dom'.candidate = d.arg
        /\ dom'.active = dom.active /\ dom'.iteration = dom.iteration
    BY <1>6, ChangeEffect DEF SameBest
  <2>2. CandidateFile \in Paths
    BY <2>1, StepPaths DEF LP!Evolving, CandidateFile, StepFiles
  <2>3. file'[CandidateFile] = [candidate |-> d.arg, active |-> dom.active] /\ d.arg # Empty
    BY <1>6, <2>2, Committed DEF FreshCandidate
  <2>4. QED
    BY <2>1, <2>3 DEF CandidateRecorded, CandidateMatches, CandidateFile
<1>7. CASE d.op = "gate" /\ L!AskConfirmation
  BY <1>2, <1>7, AskEffect DEF SameBest, SameCandidate, L!Candidate
<1>8. CASE Settling
  BY <1>8, ConstantTypes DEF Settling, Advances, CandidateRecorded, L!Candidate
<1>9. QED
  BY <1>3, <1>4, <1>5, <1>6, <1>7, <1>8, CommitEffects

LEMMA CommitBaseline ==
  ASSUME TypedInv, BaselineFile, NEW c \in Clients, Commit(c), NEW d, d = pending[c], FreshManifest(d)
  PROVE  BaselineFile'
<1>1. \/ file'[Baseline] = file[Baseline]
      \/ file'[Baseline] = Absent \/ IsBaseline(file'[Baseline])
  BY SerialPaths, Committed DEF FreshManifest
<1>2. QED
  BY <1>1 DEF BaselineFile, IsBaseline, Lost

LEMMA BestKept ==
  ASSUME BestEvidenced, SameBest, Consumed \subseteq Consumed'
  PROVE  BestEvidenced'
BY DEF BestEvidenced, SameBest, Stands, L!LowerOf

LEMMA CommitBest ==
  ASSUME LP!LifecycleInv, TypedInv, Judging, BestEvidenced, NEW c \in Clients, Commit(c),
         NEW d, d = pending[c], FreshManifest(d)
  PROVE  BestEvidenced'
<1>1. CASE Minor
  BY <1>1, BestKept DEF Minor
<1>2. ASSUME NEW m, m = d.arg, d.op = "baseline-finalize", m \in Scored(Scores),
             L!FinalizeBaseline(m, m.score, Empty)
      PROVE  BestEvidenced'
  <2>1. dom'.best = m.score /\ dom'.active = Empty /\ Uses(m, "baseline-finalize")
    BY <1>2, BaselineEffect
  <2>2. [manifest |-> m, by |-> "baseline-finalize"] \in Consumed'
    BY <1>2, <2>1, ConsumedMore DEF LP!Uses
  <2>3. m = [phase |-> "baseline", iteration |-> 0, snapshot |-> Empty, score |-> m.score]
    BY <1>2 DEF FreshManifest, IsBaseline, Scored
  <2>4. QED
    BY <2>1, <2>2, <2>3 DEF BestEvidenced, Stands
<1>3. CASE d.arg \in Scored(Scores) /\ (\/ L!IngestVal(d.arg, d.arg.score)
                                        \/ L!IngestConfirm(d.arg, d.arg.score))
  BY <1>3, ValidationEffect, ConfirmationEffect, ConsumedSame, BestKept
<1>4. CASE d.arg \in Snapshots /\ L!ProposeChange(d.arg)
  BY <1>4, ChangeEffect, ConsumedSame, BestKept
<1>5. CASE L!AskConfirmation
  <2>1. dom.current \in Scored(Scores) /\ "gate-validation" \in LP!Uses
    BY <1>5, AskEffect, JudgedScores DEF LP!Uses
  <2>2. QED
    BY <1>5, <2>1, AskEffect, ConsumedMore, BestKept
<1>6. CASE Settling /\ Advances(dom.best, dom.active)
  BY <1>6, BestKept DEF Settling, Advances, SameBest
<1>7. CASE L!AcceptOnValidation
  <2>1. /\ Validated /\ ~dom.confirm /\ dom'.confirm = dom.confirm
        /\ dom'.best = dom.provisional /\ dom'.active = dom.candidate
        /\ Uses(dom.current, "gate-validation")
    BY <1>7, AcceptEffect DEF Validated, Advances
  <2>2. dom.current \in Scored(Scores) /\ dom.provisional \in Scores
    BY <2>1, JudgedScores DEF Validated
  <2>3. [manifest |-> dom.current, by |-> "gate-validation"] \in Consumed'
    BY <2>1, <2>2, ConsumedMore DEF LP!Uses
  <2>4. dom.current = RunOf("val", dom.provisional)
    BY <2>1 DEF Judging
  <2>5. dom.iteration \in Iterations
    BY <2>1, JudgedTypes DEF Validated, L!Candidate
  <2>6. \E k \in Iterations, score \in Scores :
          /\ [manifest |-> [phase |-> "val", iteration |-> k, snapshot |-> dom'.active,
                            score |-> score], by |-> "gate-validation"] \in Consumed'
          /\ dom'.best = score
    BY <2>1, <2>2, <2>3, <2>4, <2>5 DEF RunOf
  <2>7. QED
    BY <2>1, <2>6 DEF BestEvidenced, Stands
<1>8. CASE L!AcceptOnConfirmation
  <2>1. /\ Confirmed /\ dom'.confirm = dom.confirm
        /\ dom'.best = L!LowerOf(dom.provisional, dom.confirmation)
        /\ dom'.active = dom.candidate
        /\ Uses(dom.current, "gate-confirmation")
    BY <1>8, AcceptConfirmedEffect DEF Confirmed, Advances
  <2>2. /\ dom.current \in Scored(Scores)
        /\ dom.provisional \in Scores /\ dom.confirmation \in Scores
    BY <2>1, JudgedScores DEF Confirmed
  <2>3. /\ [manifest |-> dom.current, by |-> "gate-confirmation"] \in Consumed'
        /\ Consumed \subseteq Consumed'
    BY <2>1, <2>2, ConsumedMore DEF LP!Uses
  <2>4. [manifest |-> dom.provisionalManifest, by |-> "gate-validation"] \in Consumed'
    BY <2>1, <2>3, EarnedSpent DEF Confirmed
  <2>5. /\ dom.current = RunOf("val_confirm", dom.confirmation)
        /\ dom.provisionalManifest = RunOf("val", dom.provisional)
    BY <2>1 DEF Judging, Confirming
  <2>6. dom.iteration \in Iterations
    BY <2>1, JudgedTypes DEF Confirmed, L!Candidate
  <2>7. \E k \in Iterations, score \in Scores :
          /\ [manifest |-> [phase |-> "val", iteration |-> k, snapshot |-> dom'.active,
                            score |-> score], by |-> "gate-validation"] \in Consumed'
          /\ \E again \in Scores :
               /\ [manifest |-> [phase |-> "val_confirm", iteration |-> k, snapshot |-> dom'.active,
                                 score |-> again], by |-> "gate-confirmation"] \in Consumed'
               /\ dom'.best = L!LowerOf(score, again)
    BY <2>1, <2>2, <2>3, <2>4, <2>5, <2>6 DEF RunOf
  <2>8. dom'.confirm
    BY <2>1 DEF Confirmed, LP!LifecycleInv, LP!ConfirmationEarned
  <2>9. QED
    BY <2>7, <2>8 DEF BestEvidenced, Stands, L!LowerOf
<1>9. QED
  BY <1>1, <1>2, <1>3, <1>4, <1>5, <1>6, <1>7, <1>8, CommitEffects,
     NothingEffect, AbandonEffect, RejectEffect

(***************************************************************************)
(* The impact history.                                                     *)
(***************************************************************************)

\* The history h explains n decided iterations, the active snapshot and the best score.
Explained(h, n, active, best) ==
  LET accepted == {i \in 1..Len(h) : h[i].outcome = "Accepted"}
  IN  /\ Len(h) = n
      /\ \A i \in 1..Len(h) : h[i].iteration = i
      /\ active # Empty =>
           \E i \in accepted :
             /\ \A j \in accepted : j <= i
             /\ h[i].candidate = active
             /\ best \in {h[i].scores[s] : s \in 1..Len(h[i].scores)}
             /\ \A s \in 1..Len(h[i].scores) : best <= h[i].scores[s]
      /\ accepted # {} => active # Empty

LEMMA ExplainsIs ==
  /\ ImpactExplains <=> Explained(Impact, Decided, dom.active, dom.best)
  /\ ImpactExplains' <=> Explained(Impact', Decided', dom'.active, dom'.best)
<1>1. ImpactExplains <=> Explained(Impact, Decided, dom.active, dom.best)
  BY DEF ImpactExplains, Explained, Accepted
<1>2. ImpactExplains' <=> Explained(Impact', Decided', dom'.active, dom'.best)
  BY DEF ImpactExplains, Explained, Accepted
<1>3. QED
  BY <1>1, <1>2

\* One more iteration is decided, without a promotion.
LEMMA ExplainedFurther ==
  ASSUME NEW h \in Seq(ImpactEntry), NEW e \in ImpactEntry, NEW n \in Nat, NEW active, NEW best,
         Explained(h, n, active, best), e.iteration = n + 1, e.outcome # "Accepted"
  PROVE  Explained(Append(h, e), n + 1, active, best)
<1> DEFINE t == Append(h, e)
           accepted == {i \in 1..Len(h) : h[i].outcome = "Accepted"}
<1>1. /\ Len(t) = Len(h) + 1 /\ Len(h) \in Nat
      /\ \A i \in 1..Len(h) : t[i] = h[i]
      /\ t[Len(h) + 1] = e
  OBVIOUS
<1> HIDE DEF t
<1>2. {i \in 1..Len(t) : t[i].outcome = "Accepted"} = accepted
  BY <1>1
<1>3. \A i \in accepted : t[i] = h[i]
  BY <1>1
<1>4. Len(t) = n + 1 /\ \A i \in 1..Len(t) : t[i].iteration = i
  BY <1>1 DEF Explained
<1>5. /\ active # Empty =>
           \E i \in accepted :
             /\ \A j \in accepted : j <= i
             /\ t[i].candidate = active
             /\ best \in {t[i].scores[s] : s \in 1..Len(t[i].scores)}
             /\ \A s \in 1..Len(t[i].scores) : best <= t[i].scores[s]
      /\ accepted # {} => active # Empty
  <2> HIDE DEF accepted
  <2>1. /\ active # Empty =>
             \E i \in accepted :
               /\ \A j \in accepted : j <= i
               /\ h[i].candidate = active
               /\ best \in {h[i].scores[s] : s \in 1..Len(h[i].scores)}
               /\ \A s \in 1..Len(h[i].scores) : best <= h[i].scores[s]
        /\ accepted # {} => active # Empty
    BY DEF Explained, accepted
  <2>2. CASE active = Empty
    BY <2>1, <2>2
  <2>3. CASE active # Empty
    <3>1. PICK i \in accepted :
            /\ \A j \in accepted : j <= i
            /\ h[i].candidate = active
            /\ best \in {h[i].scores[s] : s \in 1..Len(h[i].scores)}
            /\ \A s \in 1..Len(h[i].scores) : best <= h[i].scores[s]
      BY <2>1, <2>3
    <3>2. t[i] = h[i]
      BY <1>3
    <3>3. /\ t[i].candidate = active
          /\ best \in {t[i].scores[s] : s \in 1..Len(t[i].scores)}
          /\ \A s \in 1..Len(t[i].scores) : best <= t[i].scores[s]
      BY <3>1, <3>2
    <3>4. QED
      BY <2>3, <3>1, <3>3
  <2>4. QED
    BY <2>2, <2>3
<1>6. QED
  BY <1>2, <1>4, <1>5 DEF Explained, t

\* One more iteration is decided, and its candidate promoted.
LEMMA ExplainedPromotion ==
  ASSUME NEW h \in Seq(ImpactEntry), NEW e \in ImpactEntry, NEW n \in Nat, NEW active, NEW best,
         NEW before, NEW score, Explained(h, n, before, score),
         e.iteration = n + 1, e.outcome = "Accepted", e.candidate = active, active # Empty,
         best \in {e.scores[s] : s \in 1..Len(e.scores)},
         \A s \in 1..Len(e.scores) : best <= e.scores[s]
  PROVE  Explained(Append(h, e), n + 1, active, best)
<1> DEFINE t == Append(h, e)
           accepted == {i \in 1..Len(t) : t[i].outcome = "Accepted"}
<1>1. /\ Len(t) = n + 1 /\ Len(h) = n
      /\ \A i \in 1..n : t[i] = h[i]
      /\ t[n + 1] = e
  <2>1. Len(h) = n
    BY DEF Explained
  <2>2. QED
    BY <2>1
<1> HIDE DEF t
<1>2. n + 1 \in accepted /\ \A j \in accepted : j <= n + 1
  BY <1>1
<1>3. \A i \in 1..Len(t) : t[i].iteration = i
  BY <1>1 DEF Explained
<1>4. \E i \in accepted :
        /\ \A j \in accepted : j <= i
        /\ t[i].candidate = active
        /\ best \in {t[i].scores[s] : s \in 1..Len(t[i].scores)}
        /\ \A s \in 1..Len(t[i].scores) : best <= t[i].scores[s]
  <2> HIDE DEF accepted
  <2>1. QED
    BY <1>1, <1>2
<1>5. QED
  BY <1>1, <1>3, <1>4 DEF Explained, t

\* The history under a commit.
LEMMA ImpactKept ==
  ASSUME TypedInv, NEW c \in Clients, Commit(c), NEW d, d = pending[c],
         d.outs[The("impact")] = Keep
  PROVE  Impact' = Impact
<1>1. file'[The("impact")] = file[The("impact")]
  BY SerialPaths, Committed
<1>2. QED
  BY <1>1 DEF Impact, History

LEMMA ImpactEntered ==
  ASSUME LP!LifecycleInv, TypedInv, NEW c \in Clients, Commit(c), NEW d, d = pending[c],
         NEW outcome \in Outcomes, NEW candidate \in Snapshots \union {None},
         NEW scores \in Seq(Scores), dom.iteration \in Iterations,
         Enters(d, outcome, candidate, scores)
  PROVE  /\ Impact \in Seq(ImpactEntry) /\ Entry(outcome, candidate, scores) \in ImpactEntry
         /\ Impact' = Append(Impact, Entry(outcome, candidate, scores))
<1> DEFINE e == Entry(outcome, candidate, scores)
<1>1. Impact \in Seq(ImpactEntry)
  BY KnowledgeTypes DEF Impact, TypedInv
<1>2. e \in ImpactEntry
  BY DEF Entry, ImpactEntry
<1> HIDE DEF e
<1>3. /\ d.outs[The("impact")] # Keep /\ ~d.outs[The("impact")].same
      /\ d.outs[The("impact")].to = Append(Past(d.outs[The("impact")].before), e)
  BY DEF Enters, e
<1>4. file'[The("impact")] = Append(Past(file[The("impact")]), e)
  BY <1>3, SerialPaths, Committed
<1>5. Past(file[The("impact")]) = Impact
  BY DEF Past, Impact, History
<1>6. Append(Impact, e) # Absent
  BY <1>1, <1>2, WorkflowMarkers
<1>7. Impact' = Append(Impact, e)
  BY <1>4, <1>5, <1>6 DEF Impact, History
<1>8. QED
  BY <1>1, <1>2, <1>7 DEF e

\* How many iterations are decided, before and after one is settled.
LEMMA DecidedBefore ==
  ASSUME LP!LifecycleInv, dom.state # "DONE"
  PROVE  /\ Decided = IF dom.iteration = 0 THEN 0 ELSE dom.iteration - 1
         /\ dom.best # Perfect
BY DEF Decided, LP!LifecycleInv, LP!StopsInTime, LP!At

LEMMA DecidedAfter ==
  ASSUME LP!LifecycleInv, NEW best, NEW active, Advances(best, active), dom.iteration \in Iterations,
         best = Perfect => active # Empty
  PROVE  Decided' = dom.iteration
<1>1. dom'.best = best /\ dom'.active = active /\ dom.iteration \in Nat \ {0}
  BY ConstantTypes DEF Advances, Iterations
<1>2. CASE best = Perfect
  <2>1. dom'.iteration = dom.iteration /\ dom'.state = "DONE"
    BY <1>2 DEF Advances, L!Finished
  <2>2. QED
    BY <1>1, <1>2, <2>1 DEF Decided
<1>3. CASE best # Perfect
  <2>1. dom'.iteration = dom.iteration + 1
    BY <1>3 DEF Advances
  <2>2. QED
    BY <1>1, <1>3, <2>1 DEF Decided
<1>4. QED
  BY <1>2, <1>3

\* Nothing is decided, and nothing entered.
LEMMA ExplainsKept ==
  ASSUME ImpactExplains, Impact' = Impact, Decided' = Decided, SameBest
  PROVE  ImpactExplains'
BY ExplainsIs DEF SameBest

\* The iteration is decided without a promotion, and the entry says so.
LEMMA ExplainsSettled ==
  ASSUME LP!LifecycleInv, TypedInv, ImpactExplains, NEW c \in Clients, Commit(c),
         NEW d, d = pending[c], NEW outcome \in Outcomes, NEW candidate \in Snapshots \union {None},
         NEW scores \in Seq(Scores), Enters(d, outcome, candidate, scores), outcome # "Accepted",
         Advances(dom.best, dom.active), dom.iteration \in Iterations, dom.state # "DONE"
  PROVE  ImpactExplains'
<1> DEFINE e == Entry(outcome, candidate, scores)
<1>1. /\ Impact \in Seq(ImpactEntry) /\ e \in ImpactEntry
      /\ Impact' = Append(Impact, e)
  BY ImpactEntered
<1>2. e.iteration = dom.iteration /\ e.outcome = outcome
  BY DEF Entry
<1>3. Decided = dom.iteration - 1 /\ dom.best # Perfect /\ dom.iteration \in Nat \ {0}
  BY DecidedBefore, ConstantTypes DEF Iterations
<1>4. Decided' = dom.iteration /\ dom'.best = dom.best /\ dom'.active = dom.active
  BY <1>3, DecidedAfter DEF Advances
<1> HIDE DEF e
<1>5. Explained(Impact, dom.iteration - 1, dom.active, dom.best)
  BY <1>3, ExplainsIs
<1>6. dom.iteration - 1 \in Nat /\ (dom.iteration - 1) + 1 = dom.iteration
  BY <1>3
<1>7. Explained(Append(Impact, e), (dom.iteration - 1) + 1, dom.active, dom.best)
  BY <1>1, <1>2, <1>5, <1>6, ExplainedFurther
<1>8. QED
  BY <1>1, <1>4, <1>6, <1>7, ExplainsIs

\* The candidate is promoted, with the scores it was judged by.
LEMMA ExplainsPromoted ==
  ASSUME LP!LifecycleInv, TypedInv, ImpactExplains, NEW c \in Clients, Commit(c),
         NEW d, d = pending[c], NEW scores \in Seq(Scores), NEW best,
         Enters(d, "Accepted", dom.candidate, scores),
         Advances(best, dom.candidate), dom.iteration \in Iterations, dom.state # "DONE",
         dom.candidate \in Snapshots, dom.candidate # Empty,
         best \in {scores[s] : s \in 1..Len(scores)},
         \A s \in 1..Len(scores) : best <= scores[s]
  PROVE  ImpactExplains'
<1> DEFINE e == Entry("Accepted", dom.candidate, scores)
<1>1. /\ Impact \in Seq(ImpactEntry) /\ e \in ImpactEntry
      /\ Impact' = Append(Impact, e)
  BY ImpactEntered DEF Outcomes
<1>2. /\ e.iteration = dom.iteration /\ e.outcome = "Accepted" /\ e.candidate = dom.candidate
      /\ e.scores = scores
  BY DEF Entry
<1>3. Decided = dom.iteration - 1 /\ dom.iteration \in Nat \ {0}
  BY DecidedBefore, ConstantTypes DEF Iterations
<1>4. Decided' = dom.iteration /\ dom'.best = best /\ dom'.active = dom.candidate
  BY DecidedAfter DEF Advances
<1> HIDE DEF e
<1>5. Explained(Impact, dom.iteration - 1, dom.active, dom.best)
  BY <1>3, ExplainsIs
<1>6. dom.iteration - 1 \in Nat /\ (dom.iteration - 1) + 1 = dom.iteration
  BY <1>3
<1>7. /\ best \in {e.scores[s] : s \in 1..Len(e.scores)}
      /\ \A s \in 1..Len(e.scores) : best <= e.scores[s]
  BY <1>2
<1>8. Explained(Append(Impact, e), (dom.iteration - 1) + 1, dom.candidate, best)
  BY <1>1, <1>2, <1>5, <1>6, <1>7, ExplainedPromotion
<1>9. QED
  BY <1>1, <1>4, <1>6, <1>8, ExplainsIs

LEMMA CommitExplains ==
  ASSUME LP!LifecycleInv, TypedInv, ImpactExplains, CandidateRecorded,
         NEW c \in Clients, Commit(c), NEW d, d = pending[c], FreshEntry(d)
  PROVE  ImpactExplains'
<1>1. CASE d.op \in MinorOps /\ Minor
  <2>1. Impact' = Impact
    BY <1>1, ImpactKept DEF FreshEntry, MinorOps, Tests
  <2>2. Decided' = Decided
    BY <1>1 DEF Minor, Decided, SameBest, SameCandidate, Early, LP!BeforeBaseline
  <2>3. QED
    BY <1>1, <2>1, <2>2, ExplainsKept DEF Minor
<1>2. CASE /\ d.op = "baseline-finalize" /\ d.arg \in Scored(Scores)
           /\ L!FinalizeBaseline(d.arg, d.arg.score, Empty)
  <2>1. Impact' = Impact
    BY <1>2, ImpactKept DEF FreshEntry
  <2>2. dom.state = "NEEDS_BASELINE_RUN" /\ dom'.iteration = 1 /\ dom'.active = Empty
    BY <1>2, BaselineEffect
  <2>3. dom.iteration = 0
    BY <2>2 DEF LP!LifecycleInv, LP!StopsInTime, LP!At, LP!BeforeBaseline
  <2>4. Decided = 0 /\ Decided' = 0
    BY <2>2, <2>3, DecidedBefore DEF Decided
  <2>5. Explained(Impact, 0, dom.active, dom.best)
    BY <2>4, ExplainsIs
  <2>6. Explained(Impact, 0, Empty, dom'.best)
    BY <2>5 DEF Explained
  <2>7. QED
    BY <2>1, <2>2, <2>4, <2>6, ExplainsIs
<1>3. ASSUME SameBest, dom'.iteration = dom.iteration, dom.state # "DONE", dom'.state # "DONE",
             d.outs[The("impact")] = Keep
      PROVE  ImpactExplains'
  <2>1. Impact' = Impact
    BY <1>3, ImpactKept
  <2>2. Decided' = Decided
    BY <1>3 DEF Decided
  <2>3. QED
    BY <1>3, <2>1, <2>2, ExplainsKept
<1>4. CASE d.op = "ingest" /\ d.arg \in Scored(Scores) /\ (\/ L!IngestVal(d.arg, d.arg.score)
                                                           \/ L!IngestConfirm(d.arg, d.arg.score))
  BY <1>3, <1>4, ValidationEffect, ConfirmationEffect DEF FreshEntry, SameCandidate
<1>5. CASE d.op = "apply-proposal-change" /\ d.arg \in Snapshots /\ L!ProposeChange(d.arg)
  BY <1>3, <1>5, ChangeEffect DEF FreshEntry
<1>6. CASE d.op = "gate" /\ L!AskConfirmation
  <2>1. ToConfirm
    BY <1>6 DEF ToConfirm, L!AskConfirmation, L!Gated
  <2>2. QED
    BY <1>3, <1>6, <2>1, AskEffect DEF FreshEntry, SameCandidate
<1>7. CASE d.op = "apply-proposal-no-action" /\ L!ProposeNothing
  <2>1. dom.state = "NEEDS_PROPOSAL" /\ Advances(dom.best, dom.active)
    BY <1>7, NothingEffect
  <2>2. dom.iteration \in Iterations
    BY <2>1, IterationRuns DEF LP!Evolving
  <2>3. Enters(d, "NoAction", None, <<>>)
    BY <1>7 DEF FreshEntry
  <2>4. "NoAction" \in Outcomes /\ <<>> \in Seq(Scores)
    BY DEF Outcomes
  <2>5. QED
    BY <2>1, <2>2, <2>3, <2>4, ExplainsSettled
<1>8. CASE d.op = "abandon" /\ L!Abandon
  <2>1. dom.state \in L!Candidate /\ Advances(dom.best, dom.active)
    BY <1>8, AbandonEffect
  <2>2. dom.iteration \in Iterations /\ dom.candidate \in Snapshots
    BY <2>1, JudgedTypes
  <2>3. Enters(d, "Abandoned", dom.candidate, <<>>)
    BY <1>8 DEF FreshEntry
  <2>4. "Abandoned" \in Outcomes /\ <<>> \in Seq(Scores)
    BY DEF Outcomes
  <2>5. QED
    BY <2>1, <2>2, <2>3, <2>4, ExplainsSettled DEF L!Candidate
<1>9. ASSUME d.op = "gate", dom.state = "NEEDS_GATE", ~ToConfirm
      PROVE  /\ Enters(d, GateOutcome, dom.candidate, GateScores)
             /\ dom.iteration \in Iterations /\ dom.candidate \in Snapshots
             /\ GateOutcome \in Outcomes /\ GateScores \in Seq(Scores)
             /\ dom.candidate # Empty
  BY <1>9, GateTypes DEF FreshEntry, CandidateRecorded
<1>10. CASE d.op = "gate" /\ L!Reject
  <2>1. dom.state = "NEEDS_GATE" /\ ~L!StrictWin /\ Advances(dom.best, dom.active)
    BY <1>10, RejectEffect
  <2>2. ~ToConfirm /\ GateOutcome # "Accepted"
    BY <2>1 DEF ToConfirm, GateOutcome
  <2>3. QED
    BY <1>9, <1>10, <2>1, <2>2, ExplainsSettled
<1>11. CASE d.op = "gate" /\ L!AcceptOnValidation
  <2>1. /\ dom.state = "NEEDS_GATE" /\ dom.gatePhase = "validation" /\ ~dom.confirm /\ L!StrictWin
        /\ Advances(dom.provisional, dom.candidate)
    BY <1>11, AcceptEffect
  <2>2. ~ToConfirm /\ GateOutcome = "Accepted" /\ GateScores = <<dom.provisional>>
    BY <2>1 DEF ToConfirm, GateOutcome, GateScores
  <2>3. dom.provisional \in Nat
    BY <2>1, JudgedScores, ConstantTypes
  <2>4. /\ dom.provisional \in {GateScores[s] : s \in 1..Len(GateScores)}
        /\ \A s \in 1..Len(GateScores) : dom.provisional <= GateScores[s]
    BY <2>2, <2>3
  <2>5. QED
    BY <1>9, <1>11, <2>1, <2>2, <2>4, ExplainsPromoted
<1>12. CASE d.op = "gate" /\ L!AcceptOnConfirmation
  <2> DEFINE best == L!LowerOf(dom.provisional, dom.confirmation)
  <2>1. /\ dom.state = "NEEDS_GATE" /\ dom.gatePhase = "confirmation" /\ L!StrictWin
        /\ Advances(best, dom.candidate)
    BY <1>12, AcceptConfirmedEffect
  <2>2. /\ ~ToConfirm /\ GateOutcome = "Accepted"
        /\ GateScores = <<dom.provisional, dom.confirmation>>
    BY <2>1 DEF ToConfirm, GateOutcome, GateScores
  <2>3. dom.provisional \in Nat /\ dom.confirmation \in Nat
    BY <2>1, JudgedScores, ConstantTypes
  <2>4. /\ best \in {GateScores[s] : s \in 1..Len(GateScores)}
        /\ \A s \in 1..Len(GateScores) : best <= GateScores[s]
    <3>1. Len(GateScores) = 2 /\ GateScores[1] = dom.provisional /\ GateScores[2] = dom.confirmation
      BY <2>2
    <3>2. /\ best \in {dom.provisional, dom.confirmation}
          /\ best <= dom.provisional /\ best <= dom.confirmation
      BY <2>3 DEF L!LowerOf
    <3> HIDE DEF best
    <3>3. QED
      BY <3>1, <3>2
  <2>5. QED
    BY <1>9, <1>12, <2>1, <2>2, <2>4, ExplainsPromoted
<1>13. QED
  BY <1>1, <1>2, <1>4, <1>5, <1>6, <1>7, <1>8, <1>10, <1>11, <1>12, CommitEffects

-----------------------------------------------------------------------------
(***************************************************************************)
(* One command at a time, the invariant is kept.                           *)
(***************************************************************************)

\* No other draft is left to be fresh after a commit.
LEMMA CommitSerial ==
  ASSUME LP!LifecycleInv, TypedInv, Serial, SerialInv, NEW c \in Clients, Commit(c)
  PROVE  SerialInv'
<1> DEFINE d == pending[c]
<1>1. d # Idle /\ pending' = [pending EXCEPT ![c] = Idle]
  BY DEF Commit
<1>2. Fresh(d) /\ SerialState
  BY <1>1 DEF SerialInv
<1>3. \A b \in Clients : pending'[b] = Idle
  BY <1>1 DEF Serial, TypedInv
<1> HIDE DEF d
<1>4. d = pending[c]
  BY DEF d
<1>5. /\ Judging /\ JudgedFiles /\ CandidateRecorded /\ BaselineFile
      /\ ImpactExplains /\ BestEvidenced
  BY <1>2 DEF SerialState
<1>6. FreshManifest(d) /\ FreshCandidate(d) /\ FreshEntry(d)
  BY <1>2 DEF Fresh
<1>7. Judging'
  BY <1>4, <1>5, <1>6, CommitJudging
<1>8. JudgedFiles'
  BY <1>2, <1>4, <1>5, CommitJudged
<1>9. CandidateRecorded' /\ BaselineFile'
  BY <1>4, <1>5, <1>6, CommitCandidate, CommitBaseline
<1>10. ImpactExplains'
  BY <1>4, <1>5, <1>6, CommitExplains
<1>11. BestEvidenced'
  BY <1>4, <1>5, <1>6, CommitBest
<1>12. SerialState'
  BY <1>7, <1>8, <1>9, <1>10, <1>11 DEF SerialState
<1>13. QED
  BY <1>3, <1>12 DEF SerialInv

LEMMA InitializeSerial ==
  ASSUME LP!LifecycleInv, SerialInv, Initialize
  PROVE  SerialInv'
<1>1. dom.state = "UNINITIALIZED" /\ UNCHANGED <<file, pending>>
  BY DEF Initialize, L!InitDomain, L!At
<1>2. /\ dom'.state \in LP!BeforeBaseline
      /\ SameBest /\ SameCandidate /\ SameConsumed /\ Minor
  BY FoundEffect, ConsumedSame DEF Initialize, Minor, Early
<1>3. Judging'
  BY <1>2 DEF Judging, Validated, Confirming, Confirmed, LP!BeforeBaseline
<1>4. JudgedFiles'
  <2>1. ASSUME NEW phase \in Judges, NEW k \in Iterations PROVE JudgedFile(phase, k)'
    BY <1>1, <1>2, MinorJudged DEF SerialInv, SerialState, JudgedFiles
  <2>2. QED
    BY <2>1 DEF JudgedFiles
<1>5. CandidateRecorded'
  BY <1>2
  DEF SerialInv, SerialState, CandidateRecorded, SameCandidate, LP!BeforeBaseline, L!Candidate
<1>6. BaselineFile'
  BY <1>1 DEF SerialInv, SerialState, BaselineFile
<1>7. ImpactExplains'
  <2>1. Impact' = Impact
    BY <1>1 DEF Impact, History
  <2>2. Decided' = Decided
    BY <1>1, <1>2 DEF Decided, SameCandidate, LP!BeforeBaseline
  <2>3. QED
    BY <1>2, <2>1, <2>2, ExplainsKept DEF SerialInv, SerialState
<1>8. BestEvidenced'
  BY <1>2, ConsumedSame, BestKept DEF SerialInv, SerialState
<1>9. \A c \in Clients : pending'[c] = Idle
  BY <1>1 DEF SerialInv, Fresh
<1>10. QED
  BY <1>3, <1>4, <1>5, <1>6, <1>7, <1>8, <1>9 DEF SerialInv, SerialState

\* A damaged manifest is still there, and still no evidence of another run.
LEMMA DamageSerial ==
  ASSUME LP!LifecycleInv, TypedInv, SerialInv, NEW dir \in RunDirs, Damage(dir)
  PROVE  SerialInv'
<1> DEFINE p == In("manifest", dir)
<1>1. /\ p \in Paths /\ p[1] = "manifest" /\ file[p] \notin Lost
      /\ file' = [file EXCEPT ![p] = Corrupt] /\ UNCHANGED <<dom, pending>>
  BY PathsOf, KindOf DEF Damage, Readable, Lost, RunFiles
<1> HIDE DEF p
<1>2. \A q \in Paths : \/ file'[q] = file[q]
                       \/ file'[q] = Corrupt /\ file[q] \notin Lost /\ q[1] = "manifest"
  BY <1>1 DEF TypedInv
<1>3. Judging'
  BY <1>1 DEF SerialInv, SerialState, Judging, Validated, Confirming, Confirmed, RunOf
<1>4. Minor
  BY <1>1 DEF Minor, SameBest, SameCandidate, SameJudgement, Consumed
<1>5. JudgedFiles'
  <2>1. ASSUME NEW phase \in Judges, NEW k \in Iterations PROVE JudgedFile(phase, k)'
    BY <1>2, <1>4, <2>1, SerialPaths, MinorJudged DEF SerialInv, SerialState, JudgedFiles
  <2>2. QED
    BY <2>1 DEF JudgedFiles
<1>6. CandidateRecorded'
  <2>1. CASE dom.state \in L!Candidate
    <3>1. dom.iteration \in Iterations
      BY <2>1, JudgedTypes
    <3>2. file'[Of("candidate", dom.iteration)] = file[Of("candidate", dom.iteration)]
      BY <1>2, <3>1, SerialPaths
    <3>3. QED
      BY <1>1, <3>2
      DEF SerialInv, SerialState, CandidateRecorded, CandidateMatches, CandidateFile
  <2>2. CASE dom.state \notin L!Candidate
    BY <1>1, <2>2 DEF SerialInv, SerialState, CandidateRecorded
  <2>3. QED
    BY <2>1, <2>2
<1>7. BaselineFile'
  BY <1>2, SerialPaths DEF SerialInv, SerialState, BaselineFile, IsBaseline, Lost
<1>8. ImpactExplains'
  <2>1. file'[The("impact")] = file[The("impact")]
    BY <1>2, SerialPaths
  <2>2. Impact' = Impact /\ Decided' = Decided
    BY <1>1, <2>1 DEF Impact, History, Decided
  <2>3. QED
    BY <1>4, <2>2, ExplainsKept DEF Minor, SerialInv, SerialState
<1>9. BestEvidenced'
  BY <1>4, BestKept DEF Minor, SerialInv, SerialState
<1>10. Unusable' = Unusable
  <2>1. ASSUME NEW phase \in Judges, dom.state = RunsIn(phase)
        PROVE  file'[ValRun(phase)] # Absent <=> file[ValRun(phase)] # Absent
    <3>1. dom.iteration \in Iterations
      BY <2>1, RunsWhere, JudgedTypes DEF Judges, L!Candidate
    <3>2. ValRun(phase) \in Paths
      BY <3>1, SerialPaths DEF ValRun, ManifestOf
    <3>3. QED
      BY <1>2, <3>2, Markers DEF Lost
  <2>2. ValRun("val")' = ValRun("val") /\ ValRun("val_confirm")' = ValRun("val_confirm")
    BY <1>1 DEF ValRun
  <2>3. QED
    BY <1>1, <2>1, <2>2 DEF Unusable, Present, Judges, ValRun
<1>11. \A e : Fresh(e) => Fresh(e)'
  BY <1>1, <1>10, FreshUnmoved
<1>12. QED
  BY <1>1, <1>3, <1>5, <1>6, <1>7, <1>8, <1>9, <1>11 DEF SerialInv, SerialState

LEMMA StepSerial ==
  ASSUME LP!LifecycleInv, TypedInv, Serial, SerialInv, [Next]_vars
  PROVE  SerialInv'
<1>1. ASSUME UNCHANGED <<dom, file>>, NEW c \in Clients,
             \A b \in Clients : pending'[b] \in {pending[b], Idle}
      PROVE  SerialInv'
  BY <1>1, SerialUnmoved DEF SerialInv
<1>2. CASE UNCHANGED vars
  BY <1>2, SerialUnmoved DEF SerialInv, vars
<1>3. CASE Initialize
  BY <1>3, InitializeSerial
<1>4. ASSUME NEW c \in Clients, Rollout(c) PROVE SerialInv'
  BY <1>4, PrepareFresh, RecordFresh, IngestFresh, ResetFresh, FinalizeFresh DEF Rollout
<1>5. ASSUME NEW c \in Clients, Evolve(c) PROVE SerialInv'
  BY <1>5, EvolvePlain, NothingFresh, ChangeFresh, GateFresh, AbandonFresh DEF Evolve
<1>6. ASSUME NEW c \in Clients, GiveUp(c) PROVE SerialInv'
  BY <1>1, <1>6 DEF GiveUp, TypedInv
<1>7. ASSUME NEW c \in Clients, Commit(c) PROVE SerialInv'
  BY <1>7, CommitSerial
<1>8. ASSUME NEW dir \in RunDirs, Damage(dir) PROVE SerialInv'
  BY <1>8, DamageSerial
<1>9. QED
  BY <1>2, <1>3, <1>4, <1>5, <1>6, <1>7, <1>8, SeedFresh DEF Next

LEMMA InitSerial ==
  ASSUME Init
  PROVE  SerialInv
<1>1. /\ dom.state = "UNINITIALIZED" /\ dom.iteration = 0 /\ dom.candidate = None
      /\ dom.best = None /\ dom.active = Empty
      /\ \A q \in Paths : file[q] = Absent
      /\ \A c \in Clients : pending[c] = Idle
  BY DEF Init, L!Init
<1>2. Judging /\ CandidateRecorded /\ BestEvidenced
  BY <1>1, ConstantTypes
  DEF Judging, Validated, Confirming, Confirmed, CandidateRecorded, L!Candidate, BestEvidenced
<1>3. JudgedFiles
  BY <1>1, SerialPaths
  DEF JudgedFiles, JudgedFile, Settled, Iterations, Lost
<1>4. BaselineFile
  BY <1>1, SerialPaths DEF BaselineFile, Lost
<1>5. ImpactExplains
  <2>1. Impact = <<>> /\ Decided = 0
    BY <1>1, SerialPaths DEF Impact, History, Decided
  <2>2. QED
    BY <1>1, <2>1 DEF ImpactExplains, Accepted
<1>6. QED
  BY <1>1, <1>2, <1>3, <1>4, <1>5 DEF SerialInv, SerialState

(***************************************************************************)
(* With one command at a time the state, the manifests of judged           *)
(* candidates, the baseline's and the impact history agree, whatever was   *)
(* reset, abandoned, damaged or given up: a commit finds the state and the *)
(* files its draft was made for, or files damaged in between.              *)
(***************************************************************************)
THEOREM SerialInvariance == Spec /\ []Serial => []SerialInv
<1>1. Init => SerialInv
  BY InitSerial
<1>2. WorkflowInv /\ Serial /\ SerialInv /\ [Next]_vars => SerialInv'
  BY StepSerial DEF WorkflowInv
<1>3. QED
  BY <1>1, <1>2, WorkflowInvariance, PTL DEF Spec

-----------------------------------------------------------------------------
(***************************************************************************)
(* What follows.                                                           *)
(***************************************************************************)

(***************************************************************************)
(* Contract 8.2, abandon: "consume or delete owned manifests".  With one   *)
(* command at a time, whatever is on disk for a decided candidate is       *)
(* consumed evidence: the abandon, the gate and the proposal without a     *)
(* change leave no manifest behind.                                        *)
(***************************************************************************)
THEOREM SettledIsConsumed == Spec /\ []Serial => []SettledEvidence
<1>1. SerialInv => SettledEvidence
  <2>1. ASSUME SerialInv, NEW phase \in Judges, NEW k \in Iterations, Settled(k),
               Readable(In("manifest", <<phase, k>>))
        PROVE  file[In("manifest", <<phase, k>>)] \in {e.manifest : e \in Consumed}
    BY <2>1 DEF SerialInv, SerialState, JudgedFiles, JudgedFile, ManifestOf, Readable, Lost
  <2>2. QED
    BY <2>1 DEF SettledEvidence, Judges
<1>2. QED
  BY <1>1, SerialInvariance, PTL

(***************************************************************************)
(* The best score is what consumed runs of the active snapshot scored: the *)
(* gate promotes the snapshot its evidence is about, with the score that   *)
(* evidence names.                                                         *)
(***************************************************************************)
THEOREM BestIsEvidenced == Spec /\ []Serial => []BestEvidenced
<1>1. SerialInv => BestEvidenced
  BY DEF SerialInv, SerialState
<1>2. QED
  BY <1>1, SerialInvariance, PTL

(***************************************************************************)
(* The impact history explains the state: gate, abandon and the proposal   *)
(* without a change enter one outcome per decided iteration, and the last  *)
(* accepted one names the active snapshot and the scores of the best one.  *)
(***************************************************************************)
THEOREM HistoryExplains == Spec /\ []Serial => []ImpactExplains
<1>1. SerialInv => ImpactExplains
  BY DEF SerialInv, SerialState
<1>2. QED
  BY <1>1, SerialInvariance, PTL

\* The evidence gate and abandon ask for is on disk, or was damaged.
LEMMA EvidenceOnDisk ==
  ASSUME LP!LifecycleInv, SerialInv, dom.state \in L!Candidate, NEW phase \in DOMAIN Evidence
  PROVE  /\ Evidence[phase] \in Scored(Scores)
         /\ file[ValRun(phase)] \in {Evidence[phase], Corrupt}
<1>1. dom.iteration \in Iterations /\ dom.iteration \in Nat /\ ~Settled(dom.iteration)
  BY JudgedTypes, ConstantTypes, DomTypes DEF Settled, L!Candidate
<1>2. /\ ValFile(file[ValRun("val")])
      /\ ConfirmFile(file[ValRun("val_confirm")])
  BY <1>1
  DEF SerialInv, SerialState, JudgedFiles, JudgedFile, Judges, ValRun, ManifestOf
<1>3. CASE dom.state = "NEEDS_VAL_RUN"
  <2>1. dom.gatePhase = "none"
    BY <1>3, DomTypes DEF LP!LifecycleInv, LP!CandidateScope, LP!At
  <2>2. Evidence = Nothing
    BY <1>3, <2>1 DEF Evidence
  <2>3. QED
    BY <2>2 DEF Nothing
<1>4. CASE dom.state = "NEEDS_VAL_CONFIRM"
  <2>1. Evidence = Only("val", dom.provisionalManifest)
    BY <1>4 DEF Evidence
  <2>2. dom.provisionalManifest \in Scored(Scores)
    BY <1>4, DomTypes DEF LP!LifecycleInv, LP!CandidateScope, LP!At
  <2>3. QED
    BY <1>2, <1>4, <2>1, <2>2 DEF Only, ValFile, Confirming
<1>5. CASE dom.state = "NEEDS_GATE" /\ dom.gatePhase = "validation"
  <2>1. Evidence = Only("val", dom.current)
    BY <1>5 DEF Evidence
  <2>2. QED
    BY <1>2, <1>5, <2>1, JudgedScores DEF Only, ValFile, Validated
<1>6. CASE dom.state = "NEEDS_GATE" /\ dom.gatePhase = "confirmation"
  <2>1. Evidence = Only("val", dom.provisionalManifest) ++ Only("val_confirm", dom.current)
    BY <1>6 DEF Evidence
  <2>2. dom.current \in Scored(Scores) /\ dom.provisionalManifest \in Scored(Scores)
    BY <1>6, JudgedScores
  <2>3. \/ phase = "val" /\ Evidence[phase] = dom.provisionalManifest
        \/ phase = "val_confirm" /\ Evidence[phase] = dom.current
    BY <2>1 DEF Only, ++
  <2>4. QED
    BY <1>2, <1>6, <2>2, <2>3 DEF ValFile, ConfirmFile, Confirming, Confirmed
<1>7. QED
  BY <1>3, <1>4, <1>5, <1>6, JudgedScores DEF L!Candidate

(***************************************************************************)
(* Contract 8.2 lists abandon for every candidate-bearing state.  With one *)
(* command at a time nothing but outside damage to the evidence closes it: *)
(* the recorded candidate is the one that is judged, the run that is due   *)
(* left no valid manifest, and the evidence the state names is on disk.    *)
(***************************************************************************)
THEOREM AbandonStaysOpen == Spec /\ []Serial => []AbandonOpen
<1>1. WorkflowInv /\ SerialInv => AbandonOpen
  <2> SUFFICES ASSUME WorkflowInv, SerialInv, dom.state \in L!Candidate,
                      \A phase \in DOMAIN Evidence : file[ValRun(phase)] # Corrupt
               PROVE  CanAbandon
    BY DEF AbandonOpen
  <2>1. CandidateMatches
    BY DEF SerialInv, SerialState, CandidateRecorded
  <2>2. ASSUME NEW q \in Unusable PROVE ~Valid(q)
    <3>1. PICK phase \in Judges : q = ValRun(phase) /\ dom.state = RunsIn(phase)
      BY DEF Unusable, Present, Judges
    <3>2. dom.iteration \in Iterations /\ ~Settled(dom.iteration)
      BY JudgedTypes, ConstantTypes, DomTypes DEF WorkflowInv, Settled, L!Candidate
    <3>3. JudgedFile(phase, dom.iteration)
      BY <3>2 DEF SerialInv, SerialState, JudgedFiles
    <3>4. Unfit(file[q])
      BY <3>1, <3>2, <3>3, RunsWhere DEF JudgedFile, ValFile, ConfirmFile, Judges, ValRun, ManifestOf
    <3>5. QED
      BY <3>4 DEF Unfit, Valid, Readable
  <2>3. ASSUME NEW phase \in DOMAIN Evidence
        PROVE  Readable(ValRun(phase)) /\ file[ValRun(phase)] = Evidence[phase]
    <3>1. Evidence[phase] \in Scored(Scores) /\ file[ValRun(phase)] = Evidence[phase]
      BY EvidenceOnDisk DEF WorkflowInv
    <3>2. Evidence[phase] \in Scored(Scores \union {Invalid})
      BY <3>1 DEF Scored
    <3>3. QED
      BY <3>1, <3>2, Markers DEF Readable
  <2>4. QED
    BY <2>1, <2>2, <2>3 DEF CanAbandon, EvidenceMatches
<1>2. QED
  BY <1>1, SerialInvariance, WorkflowInvariance, PTL
=============================================================================
