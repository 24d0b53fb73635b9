-------------------------------- MODULE Plans --------------------------------
(***************************************************************************)
(* Transaction records (transaction.py: PlannedWrite, PlannedDeletion,     *)
(* PlannedRead, PlannedAbsence, TransactionRecord).  A record keeps what    *)
(* the engine decides on: the revision it was planned at, the revision it  *)
(* leads to, its outputs and its read dependencies.  Contents stand for    *)
(* SHA-256 digests of file bytes.                                          *)
(***************************************************************************)
EXTENDS Naturals

CONSTANTS
  Paths,    \* governed file paths, all under the domain root
  Contents, \* what a governed file can hold
  Absent,   \* no such file
  Keep      \* the plan says nothing about this path

ASSUME MarkersAreNotContents == Absent \notin Contents

Value == Contents \union {Absent}

(***************************************************************************)
(* An output: what the plan expects at the path (Absent for a new file),   *)
(* what it leaves there (Absent for a deletion), and whether finding the   *)
(* result already in place is acceptable (allow_existing_identical).       *)
(***************************************************************************)
Output == [before : Value, to : Value, same : BOOLEAN]

ASSUME KeepIsNoEntry == Keep \notin Output /\ Keep \notin Value

(***************************************************************************)
(* One function maps every path to the plan's output for it, so no path    *)
(* has two outputs (validate's duplicate check); reads holds the           *)
(* hash-bound reads and, where it says Absent, the planned absences.       *)
(***************************************************************************)
Record == [base  : Nat,
           next  : Nat,
           outs  : [Paths -> Output \union {Keep}],
           reads : [Paths -> Value \union {Keep}]]

Planned(r) == {q \in Paths : r.outs[q] # Keep}

\* Writes are replayed before deletions.
Deletions(r) == {q \in Planned(r) : r.outs[q].to = Absent}

(***************************************************************************)
(* _validate_plan_preconditions: every output finds what it expects, or    *)
(* what it would write when that is allowed; every dependency still holds. *)
(***************************************************************************)
Fits(files, r) ==
  /\ \A q \in Planned(r) :
       \/ files[q] = r.outs[q].before
       \/ r.outs[q].same /\ files[q] = r.outs[q].to
  /\ \A q \in Paths : r.reads[q] # Keep => files[q] = r.reads[q]

\* The files after every output of the record is in place.
Overlay(files, r) ==
  [q \in Paths |-> IF r.outs[q] = Keep THEN files[q] ELSE r.outs[q].to]
=============================================================================
