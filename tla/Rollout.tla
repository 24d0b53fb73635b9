------------------------------- MODULE Rollout -------------------------------
(***************************************************************************)
(* One rollout phase driven by scripts/run_rollout.py through the direct   *)
(* adapter (adapters/direct): processes that probe the endpoint, prepare   *)
(* the jobs of the phase, send every task to the model and hand the        *)
(* answers in.  A process may die anywhere and be started again; people    *)
(* hand in answers by the command line, and reset an invalid manifest.     *)
(*                                                                         *)
(* A command of the workflow is one step here (module Workflow takes it    *)
(* apart); what this module adds is the several tasks of a phase and the   *)
(* capability report, which every prepared job binds.                      *)
(***************************************************************************)
EXTENDS Naturals

CONSTANTS
  Drivers,   \* processes of run_rollout.py
  Tasks,     \* tasks of the split, 1..n in the order of their ids
  Good, Failed, \* what an extractor makes of an output: a prediction, or nothing
  MaxProbes, \* bound: reports measured; a probe's time stamp makes each one new
  MaxCaptures, \* bound: answers captured
  Missing    \* no such file

ASSUME RolloutConstants ==
  /\ \E n \in Tasks : n \in Nat /\ Tasks = 1..n
  /\ MaxProbes \in Nat /\ MaxCaptures \in Nat
  /\ Good # Failed /\ Missing \notin Nat /\ Missing \notin {Good, Failed}

VARIABLES
  driver,    \* each process: where it is, its report, its task and captured execution
  job,       \* per task, the report its prepared job binds, or Missing
  execution, \* per task, the recorded execution, or Missing
  output,    \* per task, the submitted output, or Missing
  manifest,  \* the phase's manifest, or Missing
  wasReset,  \* the last operation in the history is reset-manifest
  probes, captures \* bound counters

rolloutVars == <<driver, job, execution, output, manifest, wasReset, probes, captures>>

Outputs == {Good, Failed}

\* An execution carries its times, so no two of them are the same.
Executions == [report : 1..MaxProbes, output : Outputs, nth : 1..MaxCaptures]

Manifest == [valid : BOOLEAN, report : 0..MaxProbes]

Off == [pc |-> "off", report |-> 0, at |-> 0, captured |-> Missing]

RolloutInit ==
  /\ driver = [d \in Drivers |-> Off]
  /\ job = [t \in Tasks |-> Missing]
  /\ execution = [t \in Tasks |-> Missing]
  /\ output = [t \in Tasks |-> Missing]
  /\ manifest = Missing /\ wasReset = FALSE
  /\ probes = 0 /\ captures = 0

\* A valid manifest moves the domain on: the phase takes no more runs.
Open == manifest # Missing => ~manifest.valid

Go(d, x) == driver' = [driver EXCEPT ![d] = x]

-----------------------------------------------------------------------------
\* A new process measures the endpoint; the adapter caches the report for its life.
Probe(d) ==
  /\ driver[d].pc = "off"
  /\ probes < MaxProbes
  /\ probes' = probes + 1
  /\ Go(d, [Off EXCEPT !.pc = "prepare", !.report = probes'])
  /\ UNCHANGED <<job, execution, output, manifest, wasReset, captures>>

\* Faulty: the jobs of an earlier process are prepared anew.
PrepareAnew(d) ==
  /\ driver[d].pc = "prepare"
  /\ Open
  /\ job' = [t \in Tasks |-> driver[d].report]
  /\ Go(d, [driver[d] EXCEPT !.pc = "dispatch", !.at = 1])
  /\ UNCHANGED <<execution, output, manifest, wasReset, probes, captures>>

(***************************************************************************)
(* prepare_rollout writes the jobs, or finds the same ones; jobs that bind *)
(* another report are a conflict, and the process ends (see Die).          *)
(***************************************************************************)
Prepare(d) ==
  /\ driver[d].pc = "prepare"
  /\ Open
  /\ \A t \in Tasks : job[t] \in {Missing, driver[d].report}
  /\ job' = [t \in Tasks |-> driver[d].report]
  /\ Go(d, [driver[d] EXCEPT !.pc = "dispatch", !.at = 1])
  /\ UNCHANGED <<execution, output, manifest, wasReset, probes, captures>>

(***************************************************************************)
(* One request for the task's prepared job, which the process prepared     *)
(* under its own report.  A transport error is captured as an execution    *)
(* with an empty output, which no extractor of the repository accepts.     *)
(***************************************************************************)
Dispatch(d) ==
  /\ driver[d].pc = "dispatch"
  /\ captures < MaxCaptures
  /\ captures' = captures + 1
  /\ \E answer \in Outputs :
       Go(d, [driver[d] EXCEPT !.pc = "record", !.captured =
                [report |-> driver[d].report, output |-> answer, nth |-> captures']])
  /\ UNCHANGED <<job, execution, output, manifest, wasReset, probes>>

\* Faulty: the last capture wins.
RecordLast(t, e) ==
  /\ job[t] = e.report
  /\ execution' = [execution EXCEPT ![t] = e]
  /\ output' = [output EXCEPT ![t] = e.output]
  /\ UNCHANGED <<job, manifest, wasReset>>

(***************************************************************************)
(* record_execution: the execution answers the prepared job, and neither   *)
(* it nor its output replaces another; only right after a reset a new      *)
(* output takes the place of the orphaned one.                             *)
(***************************************************************************)
RecordExecution(t, e) ==
  /\ job[t] = e.report
  /\ execution[t] = Missing
  /\ output[t] # Missing => wasReset
  /\ execution' = [execution EXCEPT ![t] = e]
  /\ output' = [output EXCEPT ![t] = e.output]
  /\ UNCHANGED <<job, manifest, wasReset>>

\* The driver records its capture and turns to the next task.
Record(d) ==
  /\ driver[d].pc = "record"
  /\ RecordExecution(driver[d].at, driver[d].captured)
  /\ Go(d, [driver[d] EXCEPT
              !.pc = IF driver[d].at + 1 \in Tasks THEN "dispatch" ELSE "ingest",
              !.at = @ + 1, !.captured = Missing])
  /\ UNCHANGED <<probes, captures>>

\* Someone answers a prepared job by hand and records it.
RecordByHand(t) ==
  /\ job[t] # Missing
  /\ captures < MaxCaptures
  /\ captures' = captures + 1
  /\ RecordExecution(t, [report |-> job[t], output |-> Good, nth |-> captures'])
  /\ UNCHANGED <<driver, probes>>

\* Faulty: a failed task is left out of the score.
BuildFromAnswers ==
  LET reports == {execution[t].report : t \in Tasks}
  IN  [valid |-> \E t \in Tasks : execution[t].output = Good,
       report |-> CHOOSE r \in reports : TRUE]

\* build_rollout_manifest: valid if every task has a prediction, all under one report.
BuildManifest ==
  LET reports == {execution[t].report : t \in Tasks}
  IN  [valid |-> /\ \A t \in Tasks : execution[t].output = Good
                 /\ \A r, q \in reports : r = q,
       report |-> CHOOSE r \in reports : TRUE]

\* ingest_rollout, by the driver at its end or by hand; a second manifest is refused.
IngestRollout ==
  /\ manifest = Missing
  /\ \A t \in Tasks : execution[t] # Missing /\ output[t] = execution[t].output
  /\ manifest' = BuildManifest
  /\ wasReset' = (wasReset /\ ~manifest'.valid)
  /\ UNCHANGED <<job, execution, output, probes, captures>>

Ingest(d) ==
  /\ driver[d].pc = "ingest"
  /\ IngestRollout
  /\ Go(d, Off)

IngestByHand == IngestRollout /\ UNCHANGED driver

\* reset-manifest: an invalid manifest goes with its executions; outputs and jobs stay.
Reset ==
  /\ manifest # Missing /\ ~manifest.valid
  /\ manifest' = Missing
  /\ execution' = [t \in Tasks |-> Missing]
  /\ wasReset' = TRUE
  /\ UNCHANGED <<driver, job, output, probes, captures>>

\* A refused command ends the process, and it may die at any time.
Die(d) ==
  /\ driver[d].pc # "off"
  /\ Go(d, Off)
  /\ UNCHANGED <<job, execution, output, manifest, wasReset, probes, captures>>

RolloutNext ==
  \/ \E d \in Drivers : \/ Probe(d) \/ Prepare(d) \/ Dispatch(d) \/ Record(d)
                        \/ Ingest(d) \/ Die(d)
  \/ \E t \in Tasks : RecordByHand(t)
  \/ IngestByHand \/ Reset

RolloutSpec == RolloutInit /\ [][RolloutNext]_rolloutVars

-----------------------------------------------------------------------------
(***************************************************************************)
(* Properties.                                                             *)
(***************************************************************************)

(***************************************************************************)
(* However often the driver is started again, and whoever else hands in    *)
(* answers, all recorded executions of a phase answer jobs of one process  *)
(* under one capability report, which is the manifest's.                   *)
(***************************************************************************)
OneReport ==
  /\ \A t, u \in Tasks : execution[t] # Missing /\ job[u] # Missing => execution[t].report = job[u]
  /\ manifest # Missing => \A t \in Tasks : execution[t].report = manifest.report

(***************************************************************************)
(* What was captured for a task stays, with its output, until an invalid   *)
(* manifest is reset: no driver and no person replaces an answer that a    *)
(* manifest may already count.                                             *)
(***************************************************************************)
CaptureKept ==
  [][\A t \in Tasks : execution[t] # Missing /\ execution'[t] # execution[t] =>
       /\ execution'[t] = Missing
       /\ manifest # Missing /\ ~manifest.valid]_rolloutVars

\* No failed request is part of a score.
FailuresDoNotScore ==
  manifest # Missing /\ manifest.valid =>
    \A t \in Tasks : execution[t] # Missing /\ execution[t].output # Failed /\ output[t] = Good
=============================================================================
