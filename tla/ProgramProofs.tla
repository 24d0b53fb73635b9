---------------------------- MODULE ProgramProofs ----------------------------
(***************************************************************************)
(* What the programs around the lifecycle guarantee for every number of    *)
(* processes, tasks, attempts and files.  Each theorem is about one of     *)
(* them; they share no state.                                              *)
(***************************************************************************)
EXTENDS Rollout, Maintainer, Proposer, SkillInstall, FiniteSetTheorems, TLAPS

-----------------------------------------------------------------------------
(***************************************************************************)
(* The maintainer.  A response is in its attempt's file before it can be   *)
(* applied; a loop that goes on after a commit it was told had failed      *)
(* writes only to the files of later attempts.                             *)
(***************************************************************************)
MaintainerInv ==
  /\ DOMAIN attempts = Numbers
  /\ loop.pc \in {"ask", "keep", "apply"} => loop.attempt \in Numbers
  /\ loop.pc = "apply" => attempts[loop.attempt] = loop.text
  /\ wiki # NoText => \E n \in Numbers : attempts[n] = wiki
  /\ wiki # NoText /\ loop.pc \in {"ask", "keep", "apply"} =>
       \E n \in Numbers : attempts[n] = wiki /\ n < loop.attempt
  /\ DOMAIN loop = {"pc", "attempt", "text"}

LEMMA MaintainerStep ==
  ASSUME MaintainerInv, [MaintainerNext]_maintainerVars
  PROVE  MaintainerInv'
<1> USE MaintainerConstants DEF MaintainerInv, Numbers
<1>1. CASE Launch
  BY <1>1 DEF Launch, NotRunning
<1>2. CASE Ask
  BY <1>2 DEF Ask
<1>3. CASE KeepResponse
  BY <1>3 DEF KeepResponse
<1>4. CASE ApplyWiki
  <2>1. /\ loop.pc = "apply" /\ loop.attempt \in Numbers /\ UNCHANGED attempts
        /\ \/ wiki = NoText /\ wiki' = loop.text
           \/ wiki' = wiki
        /\ loop' = [loop EXCEPT !.pc = "done"] \/ Refused
    BY <1>4 DEF ApplyWiki
  <2>2. wiki' # NoText =>
          \E n \in Numbers : attempts'[n] = wiki' /\ n \leq loop.attempt
    BY <2>1
  <2>3. CASE loop' = [loop EXCEPT !.pc = "done"]
    BY <2>1, <2>2, <2>3
  <2>4. CASE Refused
    <3>1. CASE MayRetry(loop.attempt)
      <4>1. loop' = [loop EXCEPT !.pc = "ask", !.attempt = loop.attempt + 1, !.text = NoText]
        BY <2>4, <3>1 DEF Refused
      <4>2. /\ loop'.pc = "ask" /\ loop'.attempt = loop.attempt + 1
            /\ loop'.attempt \in Numbers /\ DOMAIN loop' = {"pc", "attempt", "text"}
        BY <2>1, <3>1, <4>1 DEF MayRetry
      <4>3. \A n \in Numbers : n \leq loop.attempt => n < loop'.attempt
        BY <2>1, <4>2
      <4>4. QED
        BY <2>1, <2>2, <4>2, <4>3
    <3>2. CASE ~MayRetry(loop.attempt)
      <4>1. loop'.pc = "failed" /\ DOMAIN loop' = {"pc", "attempt", "text"}
        BY <2>4, <3>2 DEF Refused
      <4>2. QED
        BY <2>1, <2>2, <4>1
    <3>3. QED
      BY <3>1, <3>2
  <2>5. QED
    BY <2>1, <2>3, <2>4
<1>5. CASE Killed
  BY <1>5 DEF Killed, NotRunning
<1>6. CASE UNCHANGED maintainerVars
  BY <1>6 DEF maintainerVars
<1>7. QED
  BY <1>1, <1>2, <1>3, <1>4, <1>5, <1>6 DEF MaintainerNext

\* What is in the wiki is the raw response in some attempt's file.
THEOREM WikiIsKept == MaintainerSpec => []AppliedKept
<1>1. MaintainerInit => MaintainerInv
  BY DEF MaintainerInit, MaintainerInv, NotRunning
<1>2. MaintainerInv /\ [MaintainerNext]_maintainerVars => MaintainerInv'
  BY MaintainerStep
<1>3. MaintainerInv => AppliedKept
  BY DEF MaintainerInv, AppliedKept
<1>4. QED
  BY <1>1, <1>2, <1>3, PTL DEF MaintainerSpec

-----------------------------------------------------------------------------
(***************************************************************************)
(* The proposer.  The traces read are the paths in the log that exist.     *)
(***************************************************************************)
Logged == {session.log[i] : i \in 1..Len(session.log)}

Sessions == [turn : Nat, calls : Nat, read : SUBSET Traces,
             log : Seq(Traces \union {Unknown}), finishes : Nat]

ProposerInv ==
  /\ session \in Sessions
  /\ session.read \subseteq Logged
  /\ result.end = "proposed" =>
       /\ Cardinality(session.read) \geq MinTraces
       /\ result.cited # {} /\ result.cited \subseteq session.read

\* An answered call changes neither what was read nor the log.
LEMMA AnsweredCall ==
  ASSUME NEW s \in Sessions, s.calls > 0
  PROVE  /\ Answered(s) \in Sessions
         /\ Answered(s).log = s.log /\ Answered(s).read = s.read
<1> DEFINE turn == IF s.calls = 1 THEN s.turn + 1 ELSE s.turn
<1>1. turn \in Nat /\ s.calls - 1 \in Nat
  BY DEF Sessions
<1>2. Answered(s) = [s EXCEPT !.calls = s.calls - 1, !.turn = turn]
  BY DEF Answered, Sessions
<1> HIDE DEF turn
<1>3. QED
  BY <1>1, <1>2 DEF Sessions

LEMMA ProposerStep ==
  ASSUME ProposerInv, [ProposerNext]_proposerVars
  PROVE  ProposerInv'
<1> USE ProposerConstants DEF ProposerInv
<1>1. CASE Stall
  BY <1>1 DEF Stall, Asked, Active, Running, Logged, Sessions
<1>2. ASSUME NEW n \in 1..MaxCalls, Respond(n) PROVE ProposerInv'
  BY <1>2 DEF Respond, Asked, Active, Running, Logged, Sessions
<1>3. ASSUME NEW path \in Traces \union {Unknown}, ReadFile(path) PROVE ProposerInv'
  <2> DEFINE log == Append(session.log, path)
             read == IF path \in Traces THEN session.read \union {path} ELSE session.read
             turn == IF session.calls = 1 THEN session.turn + 1 ELSE session.turn
  <2>1. /\ session' = [session EXCEPT !.calls = session.calls - 1, !.turn = turn,
                                      !.read = read, !.log = log]
        /\ session.calls \in Nat \ {0} /\ result' = result /\ result.end # "proposed"
    BY <1>3 DEF ReadFile, Answered, Calling, Active, Running, Sessions
  <2>2. /\ log \in Seq(Traces \union {Unknown}) /\ Len(log) = Len(session.log) + 1
        /\ log[Len(log)] = path /\ \A i \in 1..Len(session.log) : log[i] = session.log[i]
        /\ Len(session.log) \in Nat
    BY DEF Sessions
  <2>3. turn \in Nat /\ session.calls - 1 \in Nat /\ read \in SUBSET Traces
    BY <2>1 DEF Sessions
  <2> HIDE DEF log, turn
  <2>4. read \subseteq {log[i] : i \in 1..Len(log)}
    BY <2>2 DEF Logged
  <2> HIDE DEF read
  <2>5. session'.log = log /\ session'.read = read
    BY <2>1 DEF Sessions
  <2>6. session' \in Sessions
    BY <2>1, <2>2, <2>3 DEF Sessions
  <2>7. QED
    BY <2>1, <2>4, <2>5, <2>6 DEF Logged
<1>4. CASE UnknownTool
  <2>1. /\ session' \in Sessions
        /\ session'.log = session.log /\ session'.read = session.read
    BY <1>4, AnsweredCall DEF UnknownTool, Calling
  <2>2. QED
    BY <1>4, <2>1 DEF UnknownTool, Logged
<1>5. ASSUME NEW cited \in SUBSET (Traces \union {Unknown}), Finish(cited) PROVE ProposerInv'
  <2>1. /\ session' \in Sessions
        /\ session'.log = session.log /\ session'.read = session.read
    <3>1. CASE session' = [session EXCEPT !.finishes = session.finishes + 1]
      <4> DEFINE n == session.finishes + 1
      <4>1. session \in Sessions /\ n \in Nat
        BY DEF Sessions
      <4> HIDE DEF n, ProposerInv
      <4>2. session' = [session EXCEPT !.finishes = n]
        BY <3>1 DEF n
      <4>3. QED
        BY <4>1, <4>2 DEF Sessions
    <3>2. CASE session' = [Answered(session) EXCEPT !.finishes = session.finishes + 1]
      <4>1. /\ Answered(session) \in Sessions
            /\ Answered(session).log = session.log /\ Answered(session).read = session.read
        BY <1>5, AnsweredCall DEF Finish, Calling
      <4> HIDE DEF Answered
      <4>2. session.finishes + 1 \in Nat
        BY DEF Sessions
      <4>3. QED
        BY <3>2, <4>1, <4>2 DEF Sessions
    <3>3. QED
      BY <1>5, <3>1, <3>2 DEF Finish
  <2>2. \/ Acceptable(cited) /\ result' = [end |-> "proposed", cited |-> cited]
        \/ result'.end # "proposed"
    BY <1>5 DEF Finish, End, Calling, Active, Running
  <2>3. QED
    BY <2>1, <2>2 DEF Acceptable, EnoughRead, Logged
<1>6. CASE TurnCap \/ Raise \/ UNCHANGED proposerVars
  <2>1. UNCHANGED session /\ (result' = result \/ result'.end # "proposed")
    BY <1>6 DEF TurnCap, Raise, proposerVars, End
  <2>2. QED
    BY <2>1 DEF Logged
<1>7. QED
  BY <1>1, <1>2, <1>3, <1>4, <1>5, <1>6 DEF ProposerNext

(***************************************************************************)
(* Every proposal rests on enough different traces, all read, and cites    *)
(* only such; in a domain with fewer traces there is none.                 *)
(***************************************************************************)
THEOREM ProposalsRestOnTraces == ProposerSpec => []ProposedOnTraces
<1>1. ProposerInit => ProposerInv
  BY DEF ProposerInit, ProposerInv, Logged, Running, Sessions
<1>2. ProposerInv /\ [ProposerNext]_proposerVars => ProposerInv'
  BY ProposerStep
<1>3. ProposerInv => ProposedOnTraces
  BY DEF ProposerInv, ProposedOnTraces, Logged, Sessions
<1>4. QED
  BY <1>1, <1>2, <1>3, PTL DEF ProposerSpec
-----------------------------------------------------------------------------
(***************************************************************************)
(* The rollout phase.  The jobs of a phase are prepared all at once, so    *)
(* they bind one report, and a process under another one prepares nothing. *)
(***************************************************************************)
DriverTypes ==
  \A d \in Drivers : /\ DOMAIN driver[d] = {"pc", "report", "at", "captured"}
                     /\ driver[d].report \in Nat
                     /\ driver[d].pc = "record" => driver[d].captured.report \in Nat

FileTypes ==
  /\ DOMAIN driver = Drivers /\ job \in [Tasks -> Nat \union {Missing}]
  /\ DOMAIN execution = Tasks /\ DOMAIN output = Tasks

JobsAgree == \A t, u \in Tasks : job[t] = job[u]

AnswersJobs == \A t \in Tasks : execution[t] # Missing => job[t] # Missing /\ execution[t].report = job[t]

ManifestCounts ==
  manifest # Missing =>
    \A t \in Tasks :
      /\ execution[t] # Missing /\ execution[t].report = manifest.report
      /\ manifest.valid => execution[t].output = Good /\ output[t] = Good

RolloutInv ==
  probes \in Nat /\ FileTypes /\ DriverTypes /\ JobsAgree /\ AnswersJobs /\ ManifestCounts

\* A recorded execution answers a prepared job and completes no manifest that was there.
LEMMA RecordKeepsInv ==
  ASSUME RolloutInv, NEW t \in Tasks, NEW e, e.report \in Nat, RecordExecution(t, e)
  PROVE  /\ UNCHANGED job /\ DOMAIN execution' = Tasks /\ DOMAIN output' = Tasks
         /\ JobsAgree' /\ AnswersJobs' /\ ManifestCounts'
<1> USE RolloutConstants DEF RolloutInv, FileTypes
<1>1. /\ job' = job /\ job[t] # Missing /\ execution[t] = Missing
      /\ execution' = [execution EXCEPT ![t] = e]
      /\ output' = [output EXCEPT ![t] = e.output] /\ manifest' = manifest
  BY DEF RecordExecution
<1>2. JobsAgree'
  BY <1>1 DEF JobsAgree
<1>3. AnswersJobs'
  BY <1>1 DEF AnswersJobs, RecordExecution
<1>4. manifest' = Missing
  BY <1>1 DEF ManifestCounts
<1>5. QED
  BY <1>1, <1>2, <1>3, <1>4 DEF ManifestCounts

\* The manifest's report is that of every execution it counts.
LEMMA IngestKeepsInv ==
  ASSUME RolloutInv, IngestRollout
  PROVE  /\ UNCHANGED <<job, execution, output, probes>>
         /\ ManifestCounts'
<1> DEFINE reports == {execution[t].report : t \in Tasks}
<1>1. /\ UNCHANGED <<job, execution, output, probes>> /\ manifest' = BuildManifest
      /\ \A t \in Tasks : execution[t] # Missing /\ output[t] = execution[t].output
  BY DEF IngestRollout
<1>2. \A t, u \in Tasks : execution[t].report = execution[u].report
  BY <1>1 DEF RolloutInv, AnswersJobs, JobsAgree
<1>3. manifest'.report = (CHOOSE r \in reports : TRUE)
  BY <1>1 DEF BuildManifest
<1>4. ASSUME NEW t \in Tasks PROVE execution[t].report = manifest'.report
  <2>1. execution[t].report \in reports
    OBVIOUS
  <2>2. manifest'.report \in reports
    BY <1>3, <2>1
  <2>3. QED
    BY <1>2, <2>2
<1>5. manifest'.valid => \A t \in Tasks : execution[t].output = Good
  BY <1>1 DEF BuildManifest
<1>6. QED
  BY <1>1, <1>4, <1>5 DEF ManifestCounts

LEMMA RolloutStep ==
  ASSUME RolloutInv, [RolloutNext]_rolloutVars
  PROVE  RolloutInv'
<1> USE RolloutConstants DEF RolloutInv
<1>1. ASSUME NEW d \in Drivers, Probe(d) PROVE RolloutInv'
  BY <1>1 DEF Probe, Go, Off, FileTypes, DriverTypes, JobsAgree, AnswersJobs, ManifestCounts
<1>2. ASSUME NEW d \in Drivers, Prepare(d) PROVE RolloutInv'
  <2>1. /\ job' = [t \in Tasks |-> driver[d].report] /\ UNCHANGED <<execution, output, manifest, probes>>
        /\ \A t \in Tasks : job[t] \in {Missing, driver[d].report}
        /\ driver' = [driver EXCEPT ![d] = [driver[d] EXCEPT !.pc = "dispatch", !.at = 1]]
    BY <1>2 DEF Prepare, Go
  <2>2. FileTypes' /\ DriverTypes'
    BY <2>1 DEF FileTypes, DriverTypes
  <2>3. JobsAgree' /\ AnswersJobs'
    BY <2>1 DEF JobsAgree, AnswersJobs
  <2>4. QED
    BY <2>1, <2>2, <2>3 DEF ManifestCounts
<1>3. ASSUME NEW d \in Drivers, Dispatch(d) PROVE RolloutInv'
  <2>1. PICK answer \in Outputs, n \in {captures'} :
          driver' = [driver EXCEPT ![d] = [driver[d] EXCEPT !.pc = "record", !.captured =
                       [report |-> driver[d].report, output |-> answer, nth |-> n]]]
    BY <1>3 DEF Dispatch, Go
  <2>2. DriverTypes' /\ FileTypes'
    BY <1>3, <2>1 DEF DriverTypes, FileTypes, Dispatch
  <2>3. QED
    BY <1>3, <2>2 DEF Dispatch, JobsAgree, AnswersJobs, ManifestCounts
<1>4. ASSUME NEW d \in Drivers, Record(d) PROVE RolloutInv'
  <2> DEFINE next == [driver[d] EXCEPT
                        !.pc = IF driver[d].at + 1 \in Tasks THEN "dispatch" ELSE "ingest",
                        !.at = @ + 1, !.captured = Missing]
  <2>1. /\ driver[d].pc = "record" /\ RecordExecution(driver[d].at, driver[d].captured)
        /\ driver' = [driver EXCEPT ![d] = next] /\ probes' = probes
    BY <1>4 DEF Record, Go
  <2>2. driver[d].captured.report \in Nat
    BY <2>1 DEF DriverTypes
  <2>3. driver[d].at \in Tasks \/ driver[d].at \notin Tasks
    OBVIOUS
  <2>4. /\ next.pc # "record" /\ next.report = driver[d].report
        /\ DOMAIN next = {"pc", "report", "at", "captured"}
    BY DEF DriverTypes
  <2>5. DriverTypes' /\ DOMAIN driver' = Drivers
    BY <2>1, <2>4 DEF DriverTypes, FileTypes
  <2>6. CASE driver[d].at \in Tasks
    BY <2>1, <2>2, <2>5, <2>6, RecordKeepsInv DEF FileTypes
  <2>7. CASE driver[d].at \notin Tasks
    BY <2>1, <2>5, <2>7 DEF RecordExecution, FileTypes, JobsAgree, AnswersJobs, ManifestCounts
  <2>8. QED
    BY <2>6, <2>7
<1>5. ASSUME NEW d \in Drivers, Ingest(d) PROVE RolloutInv'
  <2>1. IngestRollout /\ driver' = [driver EXCEPT ![d] = Off]
    BY <1>5 DEF Ingest, Go
  <2>2. DriverTypes' /\ FileTypes'
    BY <2>1, IngestKeepsInv DEF DriverTypes, FileTypes, Off
  <2>3. QED
    BY <2>1, <2>2, IngestKeepsInv DEF JobsAgree, AnswersJobs
<1>6. ASSUME NEW d \in Drivers, Die(d) PROVE RolloutInv'
  BY <1>6 DEF Die, Go, Off, FileTypes, DriverTypes, JobsAgree, AnswersJobs, ManifestCounts
<1>7. ASSUME NEW t \in Tasks, RecordByHand(t) PROVE RolloutInv'
  <2> DEFINE e == [report |-> job[t], output |-> Good, nth |-> captures']
  <2>1. /\ job[t] # Missing /\ RecordExecution(t, e) /\ UNCHANGED <<driver, probes>>
    BY <1>7 DEF RecordByHand
  <2>2. job[t] \in Nat
    BY <2>1 DEF FileTypes
  <2>3. e.report \in Nat
    BY <2>2
  <2> HIDE DEF e
  <2>4. QED
    BY <2>1, <2>3, RecordKeepsInv DEF DriverTypes, FileTypes
<1>8. CASE IngestByHand
  BY <1>8, IngestKeepsInv DEF IngestByHand, FileTypes, DriverTypes, JobsAgree, AnswersJobs
<1>9. CASE Reset
  BY <1>9 DEF Reset, FileTypes, DriverTypes, JobsAgree, AnswersJobs, ManifestCounts
<1>10. CASE UNCHANGED rolloutVars
  BY <1>10 DEF rolloutVars, FileTypes, DriverTypes, JobsAgree, AnswersJobs, ManifestCounts
<1>11. QED
  BY <1>1, <1>2, <1>3, <1>4, <1>5, <1>6, <1>7, <1>8, <1>9, <1>10 DEF RolloutNext

LEMMA RolloutInvariance == RolloutSpec => []RolloutInv
<1>1. RolloutInit => RolloutInv
  BY DEF RolloutInit, RolloutInv, Off, FileTypes, DriverTypes, JobsAgree, AnswersJobs, ManifestCounts
<1>2. QED
  BY <1>1, RolloutStep, PTL DEF RolloutSpec

(***************************************************************************)
(* However many processes work on a phase and die, its executions answer   *)
(* jobs under one report, and that is the manifest's.                      *)
(***************************************************************************)
THEOREM PhaseUnderOneReport == RolloutSpec => []OneReport
<1>1. RolloutInv => OneReport
  BY DEF RolloutInv, OneReport, JobsAgree, AnswersJobs, ManifestCounts
<1>2. QED
  BY <1>1, RolloutInvariance, PTL

\* A valid manifest counts no failed request.
THEOREM ScoreWithoutFailures == RolloutSpec => []FailuresDoNotScore
<1>1. RolloutInv => FailuresDoNotScore
  BY RolloutConstants DEF RolloutInv, FailuresDoNotScore, ManifestCounts
<1>2. QED
  BY <1>1, RolloutInvariance, PTL

\* A captured answer changes only when an invalid manifest is reset, and then it goes.
THEOREM CapturesAreKept == RolloutSpec => CaptureKept
<1> DEFINE Keeps ==
      \A t \in Tasks : execution[t] # Missing /\ execution'[t] # execution[t] =>
        /\ execution'[t] = Missing
        /\ manifest # Missing /\ ~manifest.valid
<1>1. RolloutInv /\ [RolloutNext]_rolloutVars => [Keeps]_rolloutVars
  <2> SUFFICES ASSUME RolloutInv, RolloutNext PROVE Keeps
    OBVIOUS
  <2>1. ASSUME NEW t, NEW e, RecordExecution(t, e) PROVE Keeps
    BY <2>1 DEF RecordExecution, RolloutInv, FileTypes
  <2>2. CASE Reset
    BY <2>2 DEF Reset
  <2>3. CASE UNCHANGED execution
    BY <2>3
  <2>4. QED
    BY <2>1, <2>2, <2>3 DEF RolloutNext, Probe, Prepare, Dispatch, Record, Ingest, Die,
                            RecordByHand, IngestByHand, IngestRollout
<1>2. QED
  BY <1>1, RolloutInvariance, PTL DEF RolloutSpec, CaptureKept

-----------------------------------------------------------------------------
(***************************************************************************)
(* The installation.  What is renamed into place was staged completely.    *)
(* While no removal is cut short, a destination that is missing or         *)
(* incomplete is the work of a process that goes on: it removes the files  *)
(* in their order, so another remover of the same tree either keeps pace   *)
(* with it or is behind and meets files that are gone.                     *)
(***************************************************************************)
Places == [pc : {"off", "copy", "open", "unlink", "rename"}, replacing : BOOLEAN,
           staged : SUBSET Members, tree : Nat, left : SUBSET Members]

InstallTypes ==
  /\ installer \in [Installers -> Places]
  /\ trees \in Nat /\ trees \leq MaxTrees /\ accidents \in Nat
  /\ destination # NoTree =>
       /\ destination \in [id : 1..MaxTrees, files : SUBSET Members]
       /\ destination.id \leq trees

Staged ==
  \A p \in Installers : /\ installer[p].pc \in {"open", "unlink", "rename"} => installer[p].staged = Members
                        /\ installer[p].pc \in {"open", "unlink"} => installer[p].replacing
                        /\ installer[p].pc = "unlink" => installer[p].tree \leq trees

Removes(p) == installer[p].pc = "unlink" /\ destination # NoTree /\ installer[p].tree = destination.id

\* What a remover still has to remove is what is left of the tree, and files before it.
BehindOrLevel ==
  \A p \in Installers : Removes(p) =>
    /\ destination.files \subseteq installer[p].left
    /\ \A f \in installer[p].left \ destination.files, g \in destination.files : f < g

InHand ==
  /\ trees > 0 /\ destination = NoTree =>
       \E p \in Installers : installer[p].pc = "rename" /\ installer[p].replacing
  /\ destination # NoTree /\ destination.files # Members =>
       \E p \in Installers : Removes(p) /\ installer[p].left = destination.files

InstallInv == InstallTypes /\ Staged /\ (accidents = 0 => BehindOrLevel /\ InHand)

\* A process between the removals may come and go: nothing rests on it.
LEMMA Bystander ==
  ASSUME InstallInv, UNCHANGED <<destination, trees, accidents>>,
         NEW p \in Installers, NEW x \in Places,
         ~(installer[p].pc = "rename" /\ installer[p].replacing /\ destination = NoTree),
         ~(Removes(p) /\ installer[p].left = destination.files),
         Goes(p, x),
         x.pc \in {"open", "rename"} => x.staged = Members,
         x.pc = "open" => x.replacing,
         x.pc # "unlink"
  PROVE  InstallInv'
<1> USE DEF InstallInv, InstallTypes
<1>1. installer' = [installer EXCEPT ![p] = x] /\ installer' \in [Installers -> Places]
  BY DEF Goes
<1>2. InstallTypes' /\ Staged'
  BY <1>1 DEF Staged
<1>3. \A q \in Installers : q # p => installer'[q] = installer[q] /\ (Removes(q)' <=> Removes(q))
  BY <1>1 DEF Removes
<1>4. ~Removes(p)'
  BY <1>1 DEF Removes
<1>5. ASSUME accidents = 0 PROVE BehindOrLevel' /\ InHand'
  <2>1. BehindOrLevel'
    BY <1>3, <1>4, <1>5 DEF BehindOrLevel
  <2>2. InHand'
    BY <1>1, <1>3, <1>5 DEF InHand
  <2>3. QED
    BY <2>1, <2>2
<1>6. QED
  BY <1>2, <1>5

LEMMA InstallStep ==
  ASSUME InstallInv, [InstallNext]_installVars
  PROVE  InstallInv'
<1> USE SkillInstallConstants DEF InstallInv, InstallTypes
<1>1. Inactive \in Places /\ Inactive.pc = "off"
  BY DEF Inactive, Places
<1>2. ASSUME NEW p \in Installers, NEW force \in BOOLEAN, CheckTarget(p, force) PROVE InstallInv'
  <2>1. PICK r \in BOOLEAN : Goes(p, [Inactive EXCEPT !.pc = "copy", !.replacing = r])
    BY <1>2 DEF CheckTarget
  <2>2. [Inactive EXCEPT !.pc = "copy", !.replacing = r] \in Places
    BY DEF Inactive, Places
  <2>3. installer[p].pc = "off" /\ UNCHANGED <<destination, trees, accidents>>
    BY <1>2 DEF CheckTarget
  <2>4. [Inactive EXCEPT !.pc = "copy", !.replacing = r].pc = "copy"
    BY DEF Inactive
  <2> HIDE DEF InstallInv, InstallTypes
  <2>5. QED
    BY <2>1, <2>2, <2>3, <2>4, Bystander DEF Removes
<1>3. ASSUME NEW p \in Installers, CopyFile(p) PROVE InstallInv'
  <2>1. PICK f \in Members : 
          Goes(p, [installer[p] EXCEPT !.staged = installer[p].staged \union {f},
                     !.pc = IF installer[p].staged \union {f} # Members THEN "copy"
                            ELSE IF installer[p].replacing THEN "open" ELSE "rename"])
    BY <1>3 DEF CopyFile
  <2> DEFINE staged == installer[p].staged \union {f}
             x == [installer[p] EXCEPT !.staged = staged,
                     !.pc = IF staged # Members THEN "copy"
                            ELSE IF installer[p].replacing THEN "open" ELSE "rename"]
  <2>2. /\ x \in Places /\ x.pc # "unlink"
        /\ x.pc \in {"open", "rename"} => x.staged = Members
        /\ x.pc = "open" => x.replacing
    BY DEF Places
  <2>3. installer[p].pc = "copy" /\ UNCHANGED <<destination, trees, accidents>>
    BY <1>3 DEF CopyFile
  <2> HIDE DEF x, InstallInv, InstallTypes
  <2>4. Goes(p, x)
    BY <2>1 DEF x
  <2>5. QED
    BY <2>2, <2>3, <2>4, Bystander DEF Removes
<1>4. ASSUME NEW p \in Installers, Goes(p, Inactive), UNCHANGED <<destination, trees, accidents>>,
             ~(installer[p].pc = "rename" /\ installer[p].replacing /\ destination = NoTree),
             ~(Removes(p) /\ installer[p].left = destination.files)
      PROVE  InstallInv'
  BY ONLY <1>1, <1>4, InstallInv, Bystander
<1>5. ASSUME NEW p \in Installers, Fails(p) \/ InstallerDies(p) PROVE InstallInv'
  <2>1. Goes(p, Inactive) /\ UNCHANGED <<destination, trees>> /\ Counted(p)
    BY <1>5 DEF Fails, InstallerDies, Cleanup
  <2>2. CASE Replacing(p)
    <3>1. accidents' = accidents + 1 /\ installer' = [installer EXCEPT ![p] = Inactive]
      BY <2>1, <2>2 DEF Counted, Goes
    <3>2. InstallTypes' /\ Staged'
      BY <1>1, <2>1, <3>1 DEF Staged
    <3>3. QED
      BY <3>1, <3>2
  <2>3. CASE ~Replacing(p)
    BY <1>4, <2>1, <2>3 DEF Counted, Replacing, Removes
  <2>4. QED
    BY <2>2, <2>3
<1>6. ASSUME NEW p \in Installers, OpenTree(p) PROVE InstallInv'
  <2>1. CASE destination = NoTree
    BY <1>4, <1>6, <2>1 DEF OpenTree, Removes, Cleanup
  <2>2. CASE destination # NoTree
    <3> DEFINE x == [installer[p] EXCEPT !.pc = "unlink", !.tree = destination.id,
                                         !.left = destination.files]
    <3>1. /\ installer' = [installer EXCEPT ![p] = x] /\ installer[p].pc = "open"
          /\ UNCHANGED <<destination, trees, accidents>>
      BY <1>6, <2>2 DEF OpenTree, Goes
    <3>2. /\ x \in Places /\ x.pc = "unlink" /\ x.tree = destination.id
          /\ x.left = destination.files /\ x.staged = installer[p].staged
          /\ x.replacing = installer[p].replacing
      <4>1. destination.id \in Nat /\ destination.files \in SUBSET Members /\ installer[p] \in Places
        BY <2>2
      <4> HIDE DEF InstallInv, InstallTypes
      <4>2. QED
        BY <4>1 DEF Places
    <3> HIDE DEF x
    <3>3. InstallTypes' /\ Staged'
      BY <2>2, <3>1, <3>2 DEF Staged
    <3>4. \A q \in Installers : q # p => installer'[q] = installer[q]
      BY <3>1
    <3>5. installer'[p] = x
      BY <3>1
    <3>6. ASSUME accidents = 0 PROVE BehindOrLevel' /\ InHand'
      <4>1. BehindOrLevel'
        BY <3>1, <3>2, <3>4, <3>5, <3>6 DEF BehindOrLevel, Removes
      <4>2. InHand'
        BY <2>2, <3>1, <3>2, <3>4, <3>5, <3>6 DEF InHand, Removes
      <4>3. QED
        BY <4>1, <4>2
    <3>7. QED
      BY <3>1, <3>3, <3>6
  <2>3. QED
    BY <2>1, <2>2
<1>7. ASSUME NEW p \in Installers, Unlink(p) PROVE InstallInv'
  <2> DEFINE passed(f) == [installer[p] EXCEPT !.left = installer[p].left \ {f}]
             here(f) == /\ destination # NoTree
                        /\ destination.id = installer[p].tree /\ f \in destination.files
  <2>1. PICK f \in installer[p].left :
          /\ \A g \in installer[p].left : f \leq g
          /\ \/ /\ here(f)
                /\ destination' = [destination EXCEPT !.files = destination.files \ {f}]
                /\ Goes(p, passed(f)) /\ UNCHANGED <<trees, accidents>>
             \/ ~here(f) /\ Cleanup(p) /\ UNCHANGED accidents
             \/ ~here(f) /\ Goes(p, passed(f)) /\ UNCHANGED <<destination, trees, accidents>>
    BY <1>7 DEF Unlink
  <2>2. /\ installer[p].pc = "unlink" /\ passed(f) \in Places /\ passed(f).pc = "unlink"
        /\ passed(f).left = installer[p].left \ {f} /\ passed(f).tree = installer[p].tree
        /\ passed(f).staged = installer[p].staged /\ passed(f).replacing = installer[p].replacing
    BY <1>7 DEF Unlink, Places
  <2>3. PICK last \in Nat : Members = 1..last
    BY DEF InstallInv
  <2>4. installer[p].left \subseteq Nat /\ f \in Nat
    BY <2>3 DEF Places
  <2> HIDE DEF passed
  <2>5. CASE here(f) /\ destination' = [destination EXCEPT !.files = destination.files \ {f}]
             /\ Goes(p, passed(f)) /\ UNCHANGED <<trees, accidents>>
    <3>1. /\ destination # NoTree /\ f \in destination.files
          /\ destination'.id = destination.id /\ destination'.files = destination.files \ {f}
          /\ destination' \in [id : 1..MaxTrees, files : SUBSET Members]
          /\ Removes(p)
      BY <2>2, <2>5 DEF Removes
    <3>2. destination' # NoTree
      BY <3>1
    <3>3. /\ \A q \in Installers : q # p => installer'[q] = installer[q]
          /\ installer'[p] = passed(f) /\ installer' \in [Installers -> Places]
      BY <2>2, <2>5 DEF Goes
    <3>4. InstallTypes' /\ Staged'
      BY <2>2, <2>5, <3>1, <3>3 DEF Staged
    <3>5. \A q \in Installers : Removes(q)' <=> Removes(q)
      BY <2>2, <3>1, <3>2, <3>3 DEF Removes
    <3>6. ASSUME accidents = 0 PROVE BehindOrLevel' /\ InHand'
      <4>1. /\ destination.files \subseteq installer[p].left
            /\ \A g \in installer[p].left \ destination.files, h \in destination.files : g < h
        BY <3>1, <3>6 DEF BehindOrLevel
      <4>2. installer[p].left = destination.files
        <5>1. ASSUME NEW g \in installer[p].left \ destination.files PROVE FALSE
          <6>1. g < f /\ f \leq g /\ g \in Nat
            BY <2>1, <2>4, <3>1, <4>1
          <6>2. QED
            BY <2>4, <6>1
        <5>2. QED
          BY <4>1, <5>1
      <4>3. \A h \in destination'.files : f < h
        BY <2>1, <2>4, <3>1, <4>2
      <4>4. ASSUME NEW q \in Installers, Removes(q)'
            PROVE  /\ destination'.files \subseteq installer'[q].left
                   /\ \A g \in installer'[q].left \ destination'.files, h \in destination'.files : g < h
        <5>1. CASE q = p
          BY <2>2, <3>1, <3>3, <4>2, <5>1
        <5>2. CASE q # p
          <6>1. /\ destination.files \subseteq installer[q].left
                /\ \A g \in installer[q].left \ destination.files, h \in destination.files : g < h
            BY <3>5, <3>6, <4>4 DEF BehindOrLevel
          <6>2. QED
            BY <3>1, <3>3, <4>3, <5>2, <6>1
        <5>3. QED
          BY <5>1, <5>2
      <4>5. BehindOrLevel'
        BY <4>4 DEF BehindOrLevel
      <4>6. Removes(p)' /\ installer'[p].left = destination'.files
        BY <2>2, <3>1, <3>3, <3>5, <4>2
      <4>7. InHand'
        BY <3>2, <4>6 DEF InHand
      <4>8. QED
        BY <4>5, <4>7
    <3>7. QED
      BY <2>5, <3>4, <3>6
  <2>6. ASSUME ~here(f), accidents = 0 PROVE ~(Removes(p) /\ installer[p].left = destination.files)
    BY <2>1, <2>6 DEF Removes
  <2>7. CASE ~here(f) /\ Cleanup(p) /\ UNCHANGED accidents
    <3>1. ~(Removes(p) /\ installer[p].left = destination.files)
      BY <2>1, <2>7 DEF Removes
    <3>2. QED
      BY <1>4, <2>2, <2>7, <3>1 DEF Cleanup
  <2>8. CASE ~here(f) /\ Goes(p, passed(f)) /\ UNCHANGED <<destination, trees, accidents>>
    <3>1. /\ \A q \in Installers : q # p => installer'[q] = installer[q]
          /\ installer'[p] = passed(f) /\ installer' \in [Installers -> Places]
      BY <2>2, <2>8 DEF Goes
    <3>2. InstallTypes' /\ Staged'
      BY <2>2, <2>8, <3>1 DEF Staged
    <3>3. \A q \in Installers : Removes(q)' <=> Removes(q)
      BY <2>2, <2>8, <3>1 DEF Removes
    <3>4. ASSUME accidents = 0 PROVE BehindOrLevel' /\ InHand'
      <4>1. Removes(p) => f \notin destination.files
        BY <2>8 DEF Removes
      <4>2. BehindOrLevel'
        BY <2>2, <2>8, <3>1, <3>3, <3>4, <4>1 DEF BehindOrLevel
      <4>3. InHand'
        BY <2>2, <2>6, <2>8, <3>1, <3>3, <3>4 DEF InHand
      <4>4. QED
        BY <4>2, <4>3
    <3>5. QED
      BY <2>8, <3>2, <3>4
  <2>9. QED
    BY <2>1, <2>5, <2>7, <2>8
<1>8. ASSUME NEW p \in Installers, RemoveDirectory(p) PROVE InstallInv'
  <2>1. CASE destination = NoTree
    BY <1>4, <1>8, <2>1 DEF RemoveDirectory, Removes, Cleanup
  <2>2. CASE destination # NoTree /\ destination.files # {}
    BY <1>4, <1>8, <2>2 DEF RemoveDirectory, Removes, Cleanup
  <2>3. CASE destination # NoTree /\ destination.files = {}
    <3> DEFINE x == [installer[p] EXCEPT !.pc = "rename"]
    <3>1. /\ installer' = [installer EXCEPT ![p] = x] /\ installer[p].pc = "unlink"
          /\ destination' = NoTree /\ UNCHANGED <<trees, accidents>>
      BY <1>8, <2>3 DEF RemoveDirectory, Goes
    <3>2. x \in Places /\ x.pc = "rename" /\ x.staged = installer[p].staged
          /\ x.replacing
      BY <3>1 DEF Places, Staged
    <3> HIDE DEF x
    <3>3. InstallTypes' /\ Staged'
      BY <3>1, <3>2 DEF Staged
    <3>4. installer'[p].pc = "rename" /\ installer'[p].replacing
      BY <3>1, <3>2
    <3>5. BehindOrLevel' /\ InHand'
      BY <3>1, <3>4 DEF BehindOrLevel, InHand, Removes
    <3>6. QED
      BY <3>3, <3>5
  <2>4. QED
    BY <2>1, <2>2, <2>3
<1>9. ASSUME NEW p \in Installers, Rename(p) PROVE InstallInv'
  <2>1. CASE ~Vacant
    <3>1. /\ installer' = [installer EXCEPT ![p] = Inactive] /\ installer[p].pc = "rename"
          /\ UNCHANGED <<destination, trees, accidents>> /\ destination # NoTree
      BY <1>9, <2>1 DEF Rename, Cleanup, Goes, Vacant
    <3>2. InstallTypes' /\ Staged'
      BY <1>1, <3>1 DEF Staged
    <3>3. \A q \in Installers : /\ Removes(q)' <=> Removes(q)
                                /\ q # p => installer'[q] = installer[q]
      BY <1>1, <3>1 DEF Removes
    <3>4. ~Removes(p)
      BY <3>1 DEF Removes
    <3>5. ASSUME accidents = 0 PROVE BehindOrLevel' /\ InHand'
      BY <3>1, <3>3, <3>4, <3>5 DEF BehindOrLevel, InHand
    <3>6. QED
      BY <3>1, <3>2, <3>5
  <2>2. CASE Vacant
    <3>1. /\ installer' = [installer EXCEPT ![p] = Inactive] /\ installer[p].pc = "rename"
          /\ trees < MaxTrees /\ trees' = trees + 1 /\ accidents' = accidents
          /\ destination' = [id |-> trees + 1, files |-> Members]
      BY <1>9, <2>2 DEF Rename, Goes, Staged
    <3>2. destination' # NoTree /\ destination'.id = trees' /\ destination'.files = Members
      BY <3>1
    <3>3. InstallTypes'
      BY <1>1, <3>1, <3>2
    <3>4. Staged'
      BY <1>1, <3>1 DEF Staged, Places
    <3>5. ASSUME NEW q \in Installers PROVE ~Removes(q)'
      <4>1. installer'[q].pc = "unlink" => installer'[q].tree \leq trees /\ installer'[q].tree \in Nat
        BY <1>1, <3>1 DEF Staged, Places
      <4>2. QED
        BY <3>1, <3>2, <4>1 DEF Removes
    <3>6. BehindOrLevel' /\ InHand'
      BY <3>2, <3>5 DEF BehindOrLevel, InHand
    <3>7. QED
      BY <3>3, <3>4, <3>6
  <2>3. QED
    BY <2>1, <2>2
<1>10. CASE UNCHANGED installVars
  BY <1>10 DEF installVars, Staged, BehindOrLevel, InHand, Removes
<1>11. QED
  BY <1>2, <1>3, <1>5, <1>6, <1>7, <1>8, <1>9, <1>10 DEF InstallNext

LEMMA InstallInvariance == InstallSpec => []InstallInv
<1>1. InstallInit => InstallInv
  BY SkillInstallConstants DEF InstallInit, InstallInv, InstallTypes, Staged, BehindOrLevel,
     InHand, Removes, Inactive, Places
<1>2. QED
  BY <1>1, InstallStep, PTL DEF InstallSpec

(***************************************************************************)
(* Once a skill was installed, and as long as no removal of it was cut     *)
(* short, it is there complete whenever no installation is under way.      *)
(***************************************************************************)
THEOREM SkillAtRest == InstallSpec => []InstalledAtRest
<1>1. InstallInv => InstalledAtRest
  BY DEF InstallInv, InstalledAtRest, InHand, Removes
<1>2. QED
  BY <1>1, InstallInvariance, PTL

\* Files appear at the destination all together, and only where none was.
THEOREM SkillInOnePiece == InstallSpec => InOnePiece
<1> DEFINE Whole ==
      destination' # NoTree =>
        \/ destination # NoTree /\ destination'.id = destination.id
                                /\ destination'.files \subseteq destination.files
        \/ destination'.files = Members /\ (destination = NoTree \/ destination.files = {})
<1>1. InstallInv /\ [InstallNext]_installVars => [Whole]_installVars
  <2> SUFFICES ASSUME InstallInv, InstallNext PROVE Whole
    OBVIOUS
  <2>1. CASE UNCHANGED destination
    BY <2>1
  <2>2. ASSUME NEW p \in Installers, Unlink(p) PROVE Whole
    <3>1. \/ UNCHANGED destination
          \/ /\ destination # NoTree
             /\ \E f \in installer[p].left :
                  destination' = [destination EXCEPT !.files = destination.files \ {f}]
      BY <2>2 DEF Unlink, Cleanup
    <3>2. QED
      BY <3>1 DEF InstallInv, InstallTypes
  <2>3. ASSUME NEW p \in Installers, Rename(p) PROVE Whole
    BY <2>3 DEF Rename, Cleanup, Vacant, InstallInv, Staged
  <2>4. ASSUME NEW p \in Installers, RemoveDirectory(p) PROVE Whole
    BY <2>4 DEF RemoveDirectory, Cleanup
  <2>5. QED
    BY <2>1, <2>2, <2>3, <2>4 DEF InstallNext, CheckTarget, CopyFile, Fails, OpenTree,
                                  InstallerDies, Cleanup
<1>2. QED
  BY <1>1, InstallInvariance, PTL DEF InstallSpec, InOnePiece

=============================================================================
