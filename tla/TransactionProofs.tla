-------------------------- MODULE TransactionProofs --------------------------
(***************************************************************************)
(* The safety properties of Transaction, proved for every set of clients,  *)
(* paths and contents and every bound.                                     *)
(***************************************************************************)
EXTENDS Transaction, TLAPS

LEMMA InitInv == Init => TxnInv
<1> SUFFICES ASSUME Init PROVE TxnInv
  OBVIOUS
<1> USE EngineConstants, MarkersAreNotContents DEF Init, NoState
<1>1. TypeOK
  BY DEF TypeOK, State, Value, Labels, Resting, Inside
<1>2. LockInv /\ PlanInv /\ CheckedStaysTrue /\ EnvelopeInv
  BY DEF LockInv, PlanInv, CheckedStaysTrue, EnvelopeInv, Inside
<1>3. PendingInv /\ PendingReplayable /\ ReplayInv /\ CommittedInv
  BY DEF PendingInv, PendingReplayable, ReplayInv, CommittedInv
<1>4. QED
  BY <1>1, <1>2, <1>3 DEF TxnInv

LEMMA EndType ==
  ASSUME TypeOK, NEW c \in Clients, NEW how \in Resting, End(c, how)
  PROVE  /\ lock' \in Clients \union {NoClient}
         /\ pc' \in [Clients -> Labels]
         /\ snap' \in [Clients -> State]
         /\ plan' \in [Clients -> Record \union {NoTxn}]
         /\ todo' \in [Clients -> SUBSET Paths]
         /\ target' \in [Clients -> SUBSET Paths]
BY EngineConstants DEF End, TypeOK, State, NoState, Labels

LEMMA ReadStateInv ==
  ASSUME TxnInv, NEW c \in Clients, ReadState(c)
  PROVE  TxnInv'
<1> USE DEF ReadState, diskvars
<1>1. TypeOK'
  BY DEF TxnInv, TypeOK, Labels
<1>2. LockInv'
  BY DEF TxnInv, LockInv, Inside, Resting, TypeOK
<1>3. PlanInv'
  BY DEF TxnInv, PlanInv, TypeOK, NoState
<1>4. CheckedStaysTrue'
  BY DEF TxnInv, CheckedStaysTrue, Admissible, TypeOK
<1>5. EnvelopeInv' /\ PendingInv' /\ PendingReplayable' /\ CommittedInv'
  BY DEF TxnInv, EnvelopeInv, PendingInv, PendingReplayable, CommittedInv, TypeOK
<1>6. ReplayInv'
  BY DEF TxnInv, ReplayInv, TypeOK, Resting
<1>7. QED
  BY <1>1, <1>2, <1>3, <1>4, <1>5, <1>6 DEF TxnInv

(***************************************************************************)
(* A command that ends outside replay leaves the disk to the others.       *)
(***************************************************************************)
LEMMA EndInv ==
  ASSUME TxnInv, NEW c \in Clients, NEW how \in Resting, End(c, how),
         UNCHANGED <<diskvars, crashes, drifts, unseen>>
  PROVE  TxnInv'
<1> USE DEF End, diskvars
<1>1. TypeOK'
  BY EndType DEF TxnInv, TypeOK
<1>2. LockInv'
  BY EngineConstants DEF TxnInv, LockInv, Inside, Resting, TypeOK
<1>3. PlanInv'
  BY DEF TxnInv, PlanInv, TypeOK, NoState, Resting
<1>4. CheckedStaysTrue'
  BY DEF TxnInv, CheckedStaysTrue, Admissible, TypeOK, Resting
<1>5. EnvelopeInv' /\ PendingInv' /\ PendingReplayable' /\ ReplayInv' /\ CommittedInv'
  BY DEF TxnInv, EnvelopeInv, PendingInv, PendingReplayable, ReplayInv, CommittedInv, TypeOK, Resting
<1>6. QED
  BY <1>1, <1>2, <1>3, <1>4, <1>5 DEF TxnInv

LEMMA CrashInv ==
  ASSUME TxnInv, NEW c \in Clients, Crash(c)
  PROVE  TxnInv'
<1> USE DEF Crash, End, diskvars
<1>1. TypeOK'
  <2>1. crashes' \in 0..MaxCrashes
    BY EngineConstants DEF TxnInv, TypeOK
  <2>2. QED
    BY <2>1, EndType DEF TxnInv, TypeOK, Resting
<1>2. LockInv'
  BY EngineConstants DEF TxnInv, LockInv, Inside, Resting, TypeOK
<1>3. PlanInv'
  BY DEF TxnInv, PlanInv, TypeOK, NoState
<1>4. CheckedStaysTrue'
  BY DEF TxnInv, CheckedStaysTrue, Admissible, TypeOK
<1>5. EnvelopeInv' /\ PendingInv' /\ PendingReplayable' /\ CommittedInv'
  BY DEF TxnInv, EnvelopeInv, PendingInv, PendingReplayable, CommittedInv, TypeOK
<1>6. ReplayInv'
  BY DEF TxnInv, ReplayInv, TypeOK, Resting
<1>7. QED
  BY <1>1, <1>2, <1>3, <1>4, <1>5, <1>6 DEF TxnInv

-----------------------------------------------------------------------------
(***************************************************************************)
(* Planning produces records that fit the state they were planned for.     *)
(***************************************************************************)

LEMMA NewFileIsOutput ==
  ASSUME NEW x \in Contents
  PROVE  NewFile(x) \in Output /\ NewFile(x).before = Absent
BY DEF NewFile, Output, Value

LEMMA EntriesAreTyped ==
  ASSUME NEW v \in Value, NEW e \in Entries(v)
  PROVE  e.out \in Output \union {Keep} /\ e.read \in Value \union {Keep}
<1>1. ASSUME NEW o \in Outputs(v) PROVE o \in Output
  <2>1. CASE o \in Writes(v)
    BY <2>1, EngineConstants DEF Writes, Output, Value
  <2>2. CASE o \notin Writes(v)
    <3>1. v # Absent /\ o = [before |-> v, to |-> Absent, same |-> FALSE]
      BY <1>1, <2>2 DEF Outputs
    <3>2. QED
      BY <3>1 DEF Output, Value
  <2>3. QED
    BY <2>1, <2>2
<1>2. QED
  BY <1>1 DEF Entries

LEMMA ReadyInv ==
  ASSUME TxnInv, NEW c \in Clients, pc[c] = "planning", NEW r, PlanFor(r, snap[c]), Ready(c, r)
  PROVE  TxnInv'
<1> USE DEF Ready, diskvars
<1>1. TypeOK'
  BY DEF TxnInv, TypeOK, Labels, PlanFor
<1>2. LockInv'
  BY DEF TxnInv, LockInv, Inside, TypeOK
<1>3. PlanInv'
  BY DEF TxnInv, PlanInv, TypeOK
<1>4. CheckedStaysTrue'
  BY DEF TxnInv, CheckedStaysTrue, Admissible, TypeOK
<1>5. EnvelopeInv' /\ PendingInv' /\ PendingReplayable' /\ CommittedInv'
  BY DEF TxnInv, EnvelopeInv, PendingInv, PendingReplayable, CommittedInv, TypeOK
<1>6. ReplayInv'
  BY DEF TxnInv, ReplayInv, TypeOK, Resting
<1>7. QED
  BY <1>1, <1>2, <1>3, <1>4, <1>5, <1>6 DEF TxnInv

LEMMA PlanInitInv ==
  ASSUME TxnInv, NEW c \in Clients, PlanInit(c)
  PROVE  TxnInv'
<1>1. PICK outs \in [Paths -> {Keep} \union {NewFile(x) : x \in Contents \ Outside}] :
        Ready(c, [base |-> 0, next |-> 1, outs |-> outs, reads |-> [q \in Paths |-> Keep]])
  BY DEF PlanInit
<1> DEFINE r == [base |-> 0, next |-> 1, outs |-> outs, reads |-> [q \in Paths |-> Keep]]
<1>2. \A q \in Paths : outs[q] \in Output \union {Keep} /\ (outs[q] # Keep => outs[q].before = Absent)
  BY NewFileIsOutput
<1>3. FoundingPlan(r)
  BY <1>2 DEF FoundingPlan, Record
<1>4. PlanFor(r, snap[c])
  BY <1>3, EngineConstants DEF PlanInit, PlanFor, FoundingPlan, NoState
<1>5. QED
  BY <1>1, <1>4, ReadyInv DEF PlanInit

LEMMA PlanMutationInv ==
  ASSUME TxnInv, NEW c \in Clients, PlanMutation(c)
  PROVE  TxnInv'
<1> DEFINE options == [q \in Paths |-> Entries(file[q])]
<1>1. PICK entries \in [Paths -> UNION {options[q] : q \in Paths}], step \in {0, 1} :
        /\ \A q \in Paths : entries[q] \in options[q]
        /\ snap[c].rev + step <= MaxRevision
        /\ Ready(c, [base |-> snap[c].rev, next |-> snap[c].rev + step,
                     outs |-> [q \in Paths |-> entries[q].out],
                     reads |-> [q \in Paths |-> entries[q].read]])
  BY DEF PlanMutation
<1> DEFINE r == [base |-> snap[c].rev, next |-> snap[c].rev + step,
                 outs |-> [q \in Paths |-> entries[q].out],
                 reads |-> [q \in Paths |-> entries[q].read]]
<1>2. \A q \in Paths : entries[q].out \in Output \union {Keep} /\ entries[q].read \in Value \union {Keep}
  BY <1>1, EntriesAreTyped DEF TxnInv, TypeOK
<1>3. snap[c].rev \in 0..MaxRevision
  BY DEF TxnInv, TypeOK, State
<1>4. r \in Record
  BY <1>2, <1>3 DEF Record
<1>5. PlanFor(r, snap[c])
  BY <1>1, <1>3, <1>4 DEF PlanMutation, PlanFor
<1>6. QED
  BY <1>1, <1>5, ReadyInv DEF PlanMutation

-----------------------------------------------------------------------------
(***************************************************************************)
(* execute.                                                                *)
(***************************************************************************)

LEMMA EnterInv ==
  ASSUME TxnInv, NEW c \in Clients, Lock(c) \/ StartRecover(c)
  PROVE  TxnInv'
<1> USE DEF Lock, StartRecover, Enter, diskvars
<1>1. TypeOK'
  BY DEF TxnInv, TypeOK, Labels, Inside
<1>2. LockInv'
  BY EngineConstants DEF TxnInv, LockInv, Inside, TypeOK
<1>3. PlanInv'
  BY DEF TxnInv, PlanInv, TypeOK, NoState, Resting
<1>4. CheckedStaysTrue'
  BY DEF TxnInv, CheckedStaysTrue, Admissible, TypeOK
<1>5. EnvelopeInv' /\ PendingInv' /\ PendingReplayable' /\ CommittedInv'
  BY DEF TxnInv, EnvelopeInv, PendingInv, PendingReplayable, CommittedInv, TypeOK
<1>6. ReplayInv'
  BY DEF TxnInv, ReplayInv, TypeOK, Resting
<1>7. QED
  BY <1>1, <1>2, <1>3, <1>4, <1>5, <1>6 DEF TxnInv

LEMMA BindInv ==
  ASSUME TxnInv, NEW c \in Clients, Bind(c)
  PROVE  TxnInv'
<1> USE DEF Bind, diskvars
<1>1. TypeOK'
  BY DEF TxnInv, TypeOK, Labels, Inside
<1>2. LockInv'
  BY DEF TxnInv, LockInv, Inside, TypeOK
<1>3. PlanInv'
  BY DEF TxnInv, PlanInv, TypeOK
<1>4. CheckedStaysTrue'
  BY DEF TxnInv, CheckedStaysTrue, Admissible, TypeOK
<1>5. EnvelopeInv' /\ PendingInv' /\ PendingReplayable' /\ CommittedInv'
  BY DEF TxnInv, EnvelopeInv, PendingInv, PendingReplayable, CommittedInv, TypeOK
<1>6. ReplayInv'
  BY DEF TxnInv, ReplayInv, TypeOK, Resting
<1>7. QED
  BY <1>1, <1>2, <1>3, <1>4, <1>5, <1>6 DEF TxnInv

\* A client about to record its intent holds a plan for the state on disk.
LEMMA BoundPlan ==
  ASSUME TxnInv, NEW c \in Clients, pc[c] \in {"bound", "envelope"}
  PROVE  /\ lock = c /\ disk.txn = NoTxn
         /\ PlanFor(plan[c], disk) /\ Fits(file, plan[c])
<1>1. Admissible(c) /\ PlanFor(plan[c], snap[c]) /\ (snap[c] # NoState => disk # NoState)
  BY DEF TxnInv, CheckedStaysTrue, PlanInv
<1>2. snap[c] = disk
  BY <1>1 DEF Admissible
<1>3. QED
  BY <1>1, <1>2 DEF Admissible, TxnInv, LockInv, Inside

\* Nobody else is inside.
LEMMA Alone ==
  ASSUME TxnInv, NEW c \in Clients, pc[c] \in Inside, NEW d \in Clients, d # c
  PROVE  pc[d] \notin Inside
BY DEF TxnInv, LockInv

LEMMA RecordEnvelopeInv ==
  ASSUME TxnInv, NEW c \in Clients, RecordEnvelope(c)
  PROVE  TxnInv'
<1> USE DEF RecordEnvelope
<1>1. FoundingPlan(plan[c])
  BY BoundPlan DEF PlanFor
<1>2. TypeOK'
  BY <1>1 DEF TxnInv, TypeOK, Labels, Inside, FoundingPlan
<1>3. LockInv'
  BY DEF TxnInv, LockInv, Inside, TypeOK
<1>4. PlanInv'
  BY DEF TxnInv, PlanInv, TypeOK
<1>5. CheckedStaysTrue'
  BY DEF TxnInv, CheckedStaysTrue, Admissible, TypeOK
<1>6. EnvelopeInv'
  BY <1>1, Alone DEF TxnInv, EnvelopeInv, TypeOK, Inside
<1>7. PendingInv' /\ PendingReplayable' /\ ReplayInv' /\ CommittedInv'
  BY DEF TxnInv, PendingInv, PendingReplayable, ReplayInv, CommittedInv, TypeOK
<1>8. QED
  BY <1>2, <1>3, <1>4, <1>5, <1>6, <1>7 DEF TxnInv

(***************************************************************************)
(* A record that fits the files becomes the pending one: by execute, or by *)
(* recover from the envelope.                                              *)
(***************************************************************************)
LEMMA PendInv ==
  ASSUME TxnInv, NEW c \in Clients, pc[c] \in Inside, NEW r,
         disk.txn = NoTxn, PlanFor(r, disk), Fits(file, r),
         Pend(c, r), plan' = [plan EXCEPT ![c] = r],
         target[c] = {},
         UNCHANGED <<intent, file, snap, target, lock, crashes, drifts, unseen>>
  PROVE  TxnInv'
<1> USE DEF Pend
<1>1. r \in Record /\ r # NoTxn /\ disk' # NoState /\ disk'.txn = r /\ disk'.rev = r.base
  BY EngineConstants DEF PlanFor, NoState
<1>2. disk' \in State /\ disk'.rev = disk.rev
  BY <1>1 DEF TxnInv, TypeOK, State, PlanFor
<1>3. r.next \in 1..MaxRevision
  <2>1. CASE disk = NoState
    BY <2>1, EngineConstants DEF PlanFor, FoundingPlan
  <2>2. CASE disk # NoState
    <3>1. disk.rev \in 1..MaxRevision
      BY <2>2 DEF TxnInv, TypeOK, State, NoState
    <3>2. QED
      BY <3>1, EngineConstants DEF PlanFor
  <2>3. QED
    BY <2>1, <2>2
<1>4. TypeOK'
  BY <1>1, <1>2 DEF TxnInv, TypeOK, Labels, Inside, Planned
<1>5. LockInv'
  BY DEF TxnInv, LockInv, Inside, TypeOK
<1>6. PlanInv'
  BY <1>1 DEF TxnInv, PlanInv, TypeOK
<1>7. CheckedStaysTrue'
  BY Alone DEF TxnInv, CheckedStaysTrue, TypeOK, Inside
<1>8. EnvelopeInv'
  BY <1>1, Alone DEF TxnInv, EnvelopeInv, TypeOK, Inside
<1>9. PendingInv'
  BY <1>1, <1>2, <1>3 DEF PendingInv, PlanFor
<1>10. PendingReplayable'
  BY <1>1 DEF PendingReplayable, Fits
<1>11. ReplayInv'
  BY <1>1, Alone DEF TxnInv, ReplayInv, TypeOK, Inside
<1>12. CommittedInv'
  BY Alone DEF TxnInv, CommittedInv, TypeOK, Inside
<1>13. QED
  BY <1>4, <1>5, <1>6, <1>7, <1>8, <1>9, <1>10, <1>11, <1>12 DEF TxnInv

LEMMA RecordIntentInv ==
  ASSUME TxnInv, NEW c \in Clients, RecordIntent(c)
  PROVE  TxnInv'
<1>1. pc[c] \in {"bound", "envelope"}
  BY DEF RecordIntent
<1>2. plan' = [plan EXCEPT ![c] = plan[c]]
  BY DEF RecordIntent, TxnInv, TypeOK
<1>3. target[c] = {}
  BY <1>1 DEF TxnInv, ReplayInv
<1>4. QED
  BY <1>1, <1>2, <1>3, BoundPlan, PendInv DEF RecordIntent, Inside

-----------------------------------------------------------------------------
(***************************************************************************)
(* Replay and recover.                                                     *)
(***************************************************************************)

\* The client replays the pending record, and q is one of its outputs.
LEMMA AtWork ==
  ASSUME TxnInv, NEW c \in Clients, pc[c] = "replaying",
         NEW q \in todo[c] \union target[c]
  PROVE  /\ q \in Planned(plan[c])
         /\ plan[c] \in Record /\ disk.txn = plan[c] /\ disk # NoState
BY EngineConstants DEF TxnInv, TypeOK, ReplayInv, NoState

LEMMA InspectInv ==
  ASSUME TxnInv, NEW c \in Clients, NEW q \in Paths, Inspect(c, q) \/ Verify(c, q)
  PROVE  TxnInv'
<1> USE DEF Inspect, Verify, diskvars
<1>1. q \in Planned(plan[c]) /\ pc[c] = "replaying"
  BY AtWork DEF Due
<1>2. TypeOK'
  BY DEF TxnInv, TypeOK
<1>3. LockInv' /\ PlanInv' /\ CheckedStaysTrue' /\ EnvelopeInv'
  BY DEF TxnInv, LockInv, PlanInv, CheckedStaysTrue, Admissible, EnvelopeInv
<1>4. PendingInv' /\ PendingReplayable' /\ CommittedInv'
  BY DEF TxnInv, PendingInv, PendingReplayable, CommittedInv
<1>5. ReplayInv'
  BY <1>1 DEF TxnInv, TypeOK, ReplayInv
<1>6. QED
  BY <1>2, <1>3, <1>4, <1>5 DEF TxnInv

(***************************************************************************)
(* An output that was found in place, or is put in place now.              *)
(***************************************************************************)
LEMMA ReplaceInv ==
  ASSUME TxnInv, NEW c \in Clients, NEW q \in Paths, InPlace(c, q) \/ Replace(c, q)
  PROVE  TxnInv'
<1>1. /\ pc[c] = "replaying" /\ q \in todo[c]
      /\ file' = [file EXCEPT ![q] = plan[c].outs[q].to]
      /\ todo' = [todo EXCEPT ![c] = todo[c] \ {q}]
      /\ target' = [target EXCEPT ![c] = target'[c]] /\ target'[c] \subseteq target[c]
      /\ UNCHANGED <<disk, intent, pc, snap, plan, lock, crashes, drifts, unseen>>
  BY DEF InPlace, Replace, Due, TxnInv, TypeOK, diskvars
<1>2. q \in Planned(plan[c]) /\ plan[c] \in Record /\ disk.txn = plan[c] /\ disk # NoState
  BY <1>1, AtWork
<1>3. plan[c].outs[q].to \in Value
  BY <1>2 DEF Record, Output, Planned
<1>4. TypeOK'
  BY <1>1, <1>3 DEF TxnInv, TypeOK
<1>5. LockInv' /\ PlanInv' /\ PendingInv' /\ CommittedInv'
  BY <1>1 DEF TxnInv, LockInv, PlanInv, PendingInv, CommittedInv, PlanFor
<1>6. CheckedStaysTrue'
  BY <1>1, Alone DEF TxnInv, CheckedStaysTrue, Inside
<1>7. EnvelopeInv'
  BY <1>1, <1>2 DEF TxnInv, EnvelopeInv
<1>8. PendingReplayable'
  BY <1>1, <1>2 DEF TxnInv, PendingReplayable, TypeOK
<1>9. ReplayInv'
  BY <1>1, <1>2, Alone DEF TxnInv, ReplayInv, TypeOK, Inside
<1>10. QED
  BY <1>4, <1>5, <1>6, <1>7, <1>8, <1>9 DEF TxnInv

LEMMA CommitInv ==
  ASSUME TxnInv, NEW c \in Clients, Commit(c)
  PROVE  TxnInv'
<1> USE DEF Commit
<1>1. disk' \in State /\ disk' # NoState /\ disk'.txn = NoTxn /\ disk # NoState
  BY EngineConstants DEF TxnInv, TypeOK, State, NoState, ReplayInv, PendingInv
<1>2. TypeOK'
  BY <1>1 DEF TxnInv, TypeOK, Labels, Inside
<1>3. LockInv'
  BY DEF TxnInv, LockInv, Inside, TypeOK
<1>4. PlanInv'
  BY <1>1 DEF TxnInv, PlanInv, TypeOK
<1>5. CheckedStaysTrue'
  BY Alone DEF TxnInv, CheckedStaysTrue, TypeOK, Inside
<1>6. EnvelopeInv'
  BY <1>1, Alone DEF TxnInv, EnvelopeInv, TypeOK, Inside
<1>7. PendingInv' /\ PendingReplayable'
  BY <1>1 DEF PendingInv, PendingReplayable
<1>8. ReplayInv' /\ CommittedInv'
  BY <1>1, Alone DEF TxnInv, ReplayInv, CommittedInv, TypeOK, Inside
<1>9. QED
  BY <1>2, <1>3, <1>4, <1>5, <1>6, <1>7, <1>8 DEF TxnInv

(***************************************************************************)
(* Commands that end and drop the envelope, or leave it.                   *)
(***************************************************************************)
LEMMA EnvelopeDropInv ==
  ASSUME TxnInv, NEW c \in Clients, NEW how \in Resting, pc[c] \in Inside,
         End(c, how), disk # NoState, intent' \in {intent, NoTxn},
         UNCHANGED <<disk, file, crashes, drifts, unseen>>
  PROVE  TxnInv'
<1> USE DEF End
<1>1. TypeOK'
  BY EndType DEF TxnInv, TypeOK
<1>2. LockInv'
  BY EngineConstants DEF TxnInv, LockInv, Inside, Resting, TypeOK
<1>3. PlanInv'
  BY DEF TxnInv, PlanInv, TypeOK, NoState, Resting
<1>4. CheckedStaysTrue'
  BY DEF TxnInv, CheckedStaysTrue, Admissible, TypeOK, Resting
<1>5. EnvelopeInv'
  BY Alone DEF TxnInv, EnvelopeInv, TypeOK, Resting, Inside
<1>6. PendingInv' /\ PendingReplayable' /\ ReplayInv' /\ CommittedInv'
  BY DEF TxnInv, PendingInv, PendingReplayable, ReplayInv, CommittedInv, TypeOK, Resting
<1>7. QED
  BY <1>1, <1>2, <1>3, <1>4, <1>5, <1>6 DEF TxnInv

LEMMA RecoverPendingInv ==
  ASSUME TxnInv, NEW c \in Clients, RecoverPending(c)
  PROVE  TxnInv'
<1> USE DEF RecoverPending, diskvars
<1>1. disk.txn \in Record
  BY DEF TxnInv, TypeOK, State
<1>2. TypeOK'
  BY <1>1 DEF TxnInv, TypeOK, Labels, Inside, Planned
<1>3. LockInv'
  BY DEF TxnInv, LockInv, Inside, TypeOK
<1>4. PlanInv'
  BY DEF TxnInv, PlanInv, TypeOK
<1>5. CheckedStaysTrue'
  BY DEF TxnInv, CheckedStaysTrue, Admissible, TypeOK
<1>6. EnvelopeInv' /\ PendingInv' /\ PendingReplayable' /\ CommittedInv'
  BY DEF TxnInv, EnvelopeInv, PendingInv, PendingReplayable, CommittedInv, TypeOK
<1>7. ReplayInv'
  BY <1>1, Alone DEF TxnInv, ReplayInv, TypeOK, Inside
<1>8. QED
  BY <1>2, <1>3, <1>4, <1>5, <1>6, <1>7 DEF TxnInv

LEMMA RecoverEnvelopeInv ==
  ASSUME TxnInv, NEW c \in Clients, RecoverEnvelope(c)
  PROVE  TxnInv'
<1>1. FoundingPlan(intent) /\ \A q \in Paths : file[q] = Absent
  BY DEF RecoverEnvelope, TxnInv, EnvelopeInv
<1>2. PlanFor(intent, disk)
  BY <1>1, EngineConstants DEF RecoverEnvelope, PlanFor, FoundingPlan, NoState
<1>3. Fits(file, intent)
  BY <1>1 DEF Fits, FoundingPlan, Planned
<1>4. target[c] = {}
  BY DEF RecoverEnvelope, TxnInv, ReplayInv
<1>5. QED
  BY <1>2, <1>3, <1>4, PendInv DEF RecoverEnvelope, Inside, NoState

-----------------------------------------------------------------------------
\* TxnInv is inductive.
LEMMA NextInv == TxnInv /\ [Next]_vars => TxnInv'
<1> SUFFICES ASSUME TxnInv, [Next]_vars PROVE TxnInv'
  OBVIOUS
<1>1. ASSUME NEW c \in Clients, ReadState(c) PROVE TxnInv'
  BY <1>1, ReadStateInv
<1>2. ASSUME NEW c \in Clients, Plan(c) PROVE TxnInv'
  BY <1>2, PlanInitInv, PlanMutationInv, EndInv DEF Plan, Decline, Resting
<1>3. ASSUME NEW c \in Clients, Lock(c) \/ StartRecover(c) PROVE TxnInv'
  BY <1>3, EnterInv
<1>4. ASSUME NEW c \in Clients, Execute(c) PROVE TxnInv'
  BY <1>4, EndInv, BindInv, RecordEnvelopeInv, RecordIntentInv DEF Execute, Refuse, Resting
<1>5. ASSUME NEW c \in Clients, Replay(c) PROVE TxnInv'
  <2>1. ASSUME NEW q \in Paths, \/ InPlace(c, q) \/ Inspect(c, q) \/ Replace(c, q) \/ Verify(c, q)
        PROVE  TxnInv'
    BY <2>1, InspectInv, ReplaceInv
  <2>2. ASSUME NEW q \in Paths, FailClosed(c, q) \/ UnlinkFails(c, q) PROVE TxnInv'
    BY <2>2, EndInv DEF FailClosed, UnlinkFails, Resting
  <2>3. CASE Commit(c)
    BY <2>3, CommitInv
  <2>4. CASE Finish(c)
    <3>1. disk # NoState
      BY <2>4 DEF Finish, TxnInv, CommittedInv
    <3>2. QED
      BY <2>4, <3>1, EnvelopeDropInv DEF Finish, Inside, Resting
  <2>5. QED
    BY <1>5, <2>1, <2>2, <2>3, <2>4 DEF Replay
<1>6. ASSUME NEW c \in Clients, Recover(c) PROVE TxnInv'
  <2>1. CASE RecoverSettled(c)
    BY <2>1, EnvelopeDropInv DEF RecoverSettled, Inside, Resting
  <2>2. CASE RecoverNothing(c)
    BY <2>2, EndInv DEF RecoverNothing, Resting
  <2>3. QED
    BY <1>6, <2>1, <2>2, RecoverPendingInv, RecoverEnvelopeInv DEF Recover
<1>7. ASSUME NEW c \in Clients, Crash(c) PROVE TxnInv'
  BY <1>7, CrashInv
<1>8. CASE UNCHANGED vars
  <2> USE <1>8 DEF vars, diskvars, clientvars
  <2>1. TypeOK' /\ LockInv' /\ PlanInv' /\ CheckedStaysTrue' /\ EnvelopeInv'
    BY DEF TxnInv, TypeOK, LockInv, PlanInv, CheckedStaysTrue, Admissible, EnvelopeInv
  <2>2. PendingInv' /\ PendingReplayable' /\ ReplayInv' /\ CommittedInv'
    BY DEF TxnInv, PendingInv, PendingReplayable, ReplayInv, CommittedInv
  <2>3. QED
    BY <2>1, <2>2 DEF TxnInv
<1>9. QED
  BY <1>1, <1>2, <1>3, <1>4, <1>5, <1>6, <1>7, <1>8 DEF Next, Run

(***************************************************************************)
(* The engine keeps TxnInv in every reachable state: whatever clients plan *)
(* concurrently and wherever they die, only the lock holder is inside, the *)
(* files a pending transaction names hold what it expects or leaves, and   *)
(* checks made under the lock stay true until the intent is recorded.      *)
(***************************************************************************)
THEOREM Invariance == Spec => []TxnInv
<1>1. Init => TxnInv
  BY InitInv
<1>2. TxnInv /\ [Next]_vars => TxnInv'
  BY NextInv
<1>3. QED
  BY <1>1, <1>2, PTL DEF Spec

\* Every variable keeps its type, and the revision its bound.
THEOREM TypeCorrect == Spec => []TypeOK
<1>1. TxnInv => TypeOK
  BY DEF TxnInv
<1>2. QED
  BY <1>1, Invariance, PTL

\* A pending transaction can always be replayed (_materialize_write never refuses).
THEOREM AlwaysReplayable == Spec => []PendingReplayable
<1>1. TxnInv => PendingReplayable
  BY DEF TxnInv
<1>2. QED
  BY <1>1, Invariance, PTL

\* What execute checked holds until its intent is on disk.
THEOREM ChecksHold == Spec => []CheckedStaysTrue
<1>1. TxnInv => CheckedStaysTrue
  BY DEF TxnInv
<1>2. QED
  BY <1>1, Invariance, PTL

-----------------------------------------------------------------------------
(***************************************************************************)
(* The engine implements AtomicStore.                                      *)
(***************************************************************************)

LEMMA PendCommits ==
  ASSUME TxnInv, NEW c \in Clients, NEW r,
         disk.txn = NoTxn, PlanFor(r, disk), Fits(file, r), Pend(c, r), UNCHANGED file
  PROVE  Abs!Next
<1>1. r \in Record /\ r # NoTxn /\ disk'.txn = r
  BY EngineConstants DEF PlanFor, Pend
<1>2. absRevision = r.base /\ absRevision' = r.next /\ r.next \in {r.base, r.base + 1}
  BY <1>1 DEF absRevision, PlanFor
<1>3. absStore = file /\ absStore' = Overlay(file, r)
  BY <1>1 DEF absStore, Pend
<1>4. Abs!Record = Record /\ Abs!Fits(file, r) /\ Abs!Overlay(file, r) = Overlay(file, r)
  BY DEF Abs!Record, Abs!Output, Abs!Value, Abs!Fits, Abs!Planned, Abs!Overlay,
         Record, Output, Value, Fits, Planned, Overlay
<1>5. Abs!Commit(disk'.txn)
  BY <1>1, <1>2, <1>3, <1>4 DEF Abs!Commit
<1>6. QED
  BY <1>1, <1>5 DEF Abs!Next

LEMMA ReplaceStutters ==
  ASSUME TxnInv, NEW c \in Clients, NEW q \in Paths, Replace(c, q)
  PROVE  UNCHANGED Abs!absvars
<1>1. disk.txn = plan[c] /\ disk.txn # NoTxn /\ disk.txn.outs[q] # Keep
  BY AtWork, EngineConstants DEF Replace, Planned
<1>2. Overlay(file', disk.txn) = Overlay(file, disk.txn)
  BY <1>1 DEF Replace, Overlay, TxnInv, TypeOK
<1>3. QED
  BY <1>1, <1>2 DEF Replace, Abs!absvars, absRevision, absStore

LEMMA CommitSettles ==
  ASSUME TxnInv, NEW c \in Clients, Commit(c)
  PROVE  Abs!Next
<1>1. /\ disk.txn = plan[c] /\ disk.txn # NoTxn /\ disk'.txn = NoTxn
      /\ \A q \in Planned(disk.txn) : file[q] = disk.txn.outs[q].to
  BY EngineConstants DEF Commit, TxnInv, ReplayInv
<1>2. Overlay(file, disk.txn) = file
  BY <1>1 DEF Overlay, Planned, TxnInv, TypeOK
<1>3. absRevision' = absRevision /\ absStore' = absStore
  BY <1>1, <1>2 DEF Commit, absRevision, absStore
<1>4. QED
  BY <1>1, <1>3 DEF Abs!Next, Abs!Settle

LEMMA RestStutters ==
  ASSUME UNCHANGED <<disk, file>>
  PROVE  UNCHANGED Abs!absvars
BY DEF Abs!absvars, absRevision, absStore

\* Crash equality: every behaviour of the engine is one of the atomic store.
THEOREM ImplementsAtomicStore == Spec => CrashEquality
<1>1. Init => Abs!Init
  BY DEF Init, NoState, Abs!Init, absRevision, absStore
<1>2. TxnInv /\ [Next]_vars => [Abs!Next]_Abs!absvars
  <2> SUFFICES ASSUME TxnInv, [Next]_vars PROVE Abs!Next \/ UNCHANGED Abs!absvars
    OBVIOUS
  <2>1. ASSUME NEW c \in Clients, ReadState(c) \/ Plan(c) \/ Lock(c) \/ StartRecover(c) \/ Crash(c)
        PROVE  UNCHANGED <<disk, file>>
    BY <2>1 DEF ReadState, Plan, PlanInit, PlanMutation, Ready, Decline, Lock, StartRecover,
                Enter, Crash, diskvars
  <2>2. ASSUME NEW c \in Clients, Execute(c), ~RecordIntent(c)
        PROVE  UNCHANGED <<disk, file>>
    BY <2>2 DEF Execute, Refuse, Bind, RecordEnvelope, diskvars
  <2>3. ASSUME NEW c \in Clients, RecordIntent(c)
        PROVE  Abs!Next
    BY <2>3, BoundPlan, PendCommits DEF RecordIntent
  <2>4. ASSUME NEW c \in Clients, Replay(c)
        PROVE  Abs!Next \/ UNCHANGED Abs!absvars
    <3>1. ASSUME NEW q \in Paths,
                 \/ InPlace(c, q) \/ Inspect(c, q) \/ Verify(c, q)
                 \/ UnlinkFails(c, q) \/ FailClosed(c, q)
          PROVE  UNCHANGED <<disk, file>>
      BY <3>1 DEF InPlace, Inspect, Verify, UnlinkFails, FailClosed, diskvars
    <3>2. CASE Finish(c)
      BY <3>2, RestStutters DEF Finish
    <3>3. QED
      BY <2>4, <3>1, <3>2, ReplaceStutters, CommitSettles, RestStutters DEF Replay
  <2>5. ASSUME NEW c \in Clients, Recover(c), ~RecoverEnvelope(c)
        PROVE  UNCHANGED <<disk, file>>
    BY <2>5 DEF Recover, RecoverPending, RecoverSettled, RecoverNothing, diskvars
  <2>6. ASSUME NEW c \in Clients, RecoverEnvelope(c)
        PROVE  Abs!Next
    <3>1. FoundingPlan(intent) /\ \A q \in Paths : file[q] = Absent
      BY <2>6 DEF RecoverEnvelope, TxnInv, EnvelopeInv
    <3>2. disk.txn = NoTxn /\ PlanFor(intent, disk) /\ Fits(file, intent)
      BY <2>6, <3>1, EngineConstants
      DEF RecoverEnvelope, PlanFor, FoundingPlan, NoState, Fits, Planned
    <3>3. QED
      BY <2>6, <3>2, PendCommits DEF RecoverEnvelope
  <2>7. CASE UNCHANGED vars
    BY <2>7, RestStutters DEF vars, diskvars
  <2>8. QED
    BY <2>1, <2>2, <2>3, <2>4, <2>5, <2>6, <2>7, RestStutters DEF Next, Run
<1>3. QED
  BY <1>1, <1>2, Invariance, PTL DEF Spec, CrashEquality, Abs!Spec

-----------------------------------------------------------------------------
(***************************************************************************)
(* With writers outside the engine.  Of TxnInv they leave what is said of  *)
(* the clients alone: the lock is exclusive, a replaying client touches    *)
(* what it planned, and what it found at a path is still there unless an   *)
(* outsider has written it since.                                          *)
(***************************************************************************)

Typed ==
  /\ DOMAIN file = Paths /\ drifts \in Nat
  /\ DOMAIN pc = Clients /\ DOMAIN plan = Clients
  /\ todo \in [Clients -> SUBSET Paths] /\ target \in [Clients -> SUBSET Paths]

WatchedInv ==
  \A c \in Clients : \A q \in target[c] :
    /\ pc[c] = "replaying"
    /\ q \in todo[c] /\ q \notin unseen => file[q] = plan[c].outs[q].before

DriftInv == Typed /\ LockInv /\ WatchedInv

DriftNext == Next \/ \E q \in Paths : Drift(q)

LEMMA EndKeeps ==
  ASSUME DriftInv, NEW c \in Clients, NEW how \in Resting, End(c, how),
         UNCHANGED <<file, drifts, unseen>>
  PROVE  DriftInv'
<1> USE DEF End, DriftInv
<1>1. Typed' /\ LockInv'
  BY EngineConstants DEF Typed, LockInv, Inside, Resting
<1>2. WatchedInv'
  BY DEF Typed, WatchedInv
<1>3. QED
  BY <1>1, <1>2

\* Outside replay a client has no file at work.
LEMMA NoTarget ==
  ASSUME DriftInv, NEW c \in Clients, pc[c] # "replaying"
  PROVE  target[c] = {}
BY DEF DriftInv, Typed, WatchedInv

\* A step that touches no file, and the lock only as the client's place says.
LEMMA QuietKeeps ==
  ASSUME DriftInv, NEW c \in Clients, target[c] = {}, UNCHANGED <<file, drifts, unseen, target>>,
         DOMAIN pc' = Clients, DOMAIN plan' = Clients, todo' \in [Clients -> SUBSET Paths],
         \A d \in Clients \ {c} : pc'[d] = pc[d] /\ plan'[d] = plan[d] /\ todo'[d] = todo[d],
         \/ lock' = lock /\ (pc'[c] \in Inside <=> pc[c] \in Inside)
         \/ lock = NoClient /\ lock' = c /\ pc'[c] \in Inside
  PROVE  DriftInv' /\ UNCHANGED file
<1>1. Typed'
  BY DEF DriftInv, Typed
<1>2. LockInv'
  BY EngineConstants DEF DriftInv, LockInv
<1>3. WatchedInv'
  BY DEF DriftInv, Typed, WatchedInv
<1>4. QED
  BY <1>1, <1>2, <1>3 DEF DriftInv

\* The steps of a client that has no output to replay.
LEMMA WorkStep ==
  ASSUME DriftInv, NEW c \in Clients,
         \/ ReadState(c) \/ Plan(c) \/ Lock(c) \/ StartRecover(c) \/ Crash(c)
         \/ Execute(c) \/ Recover(c) \/ Commit(c) \/ Finish(c)
  PROVE  DriftInv' /\ UNCHANGED file
<1> USE NoTarget, QuietKeeps
<1>1. /\ DOMAIN pc = Clients /\ DOMAIN plan = Clients
      /\ todo \in [Clients -> SUBSET Paths]
  BY DEF DriftInv, Typed
<1>2. CASE ReadState(c) \/ Lock(c) \/ StartRecover(c)
  BY <1>1, <1>2 DEF ReadState, Lock, StartRecover, Enter, diskvars, Resting, Inside
<1>3. CASE PlanInit(c) \/ PlanMutation(c)
  BY <1>1, <1>3 DEF PlanInit, PlanMutation, Ready, diskvars, Inside
<1>4. CASE Decline(c) \/ Refuse(c) \/ Crash(c)
  BY <1>4, EndKeeps DEF Decline, Refuse, Crash, diskvars, Resting
<1>5. CASE Bind(c) \/ RecordEnvelope(c) \/ Commit(c)
  BY <1>1, <1>5 DEF Bind, RecordEnvelope, Commit, diskvars, Inside
<1>6. ASSUME NEW r PROVE Planned(r) \in SUBSET Paths
  BY DEF Planned
<1>7. CASE RecordIntent(c)
  BY <1>1, <1>6, <1>7 DEF RecordIntent, Pend, Inside
<1>8. CASE RecoverPending(c)
  BY <1>1, <1>6, <1>8 DEF RecoverPending, diskvars, Inside
<1>9. CASE RecoverEnvelope(c)
  BY <1>1, <1>6, <1>9 DEF RecoverEnvelope, Pend, Inside
<1>10. CASE Finish(c) \/ RecoverSettled(c) \/ RecoverNothing(c)
  BY <1>10, EndKeeps DEF Finish, RecoverSettled, RecoverNothing, diskvars, Resting
<1>11. QED
  BY <1>2, <1>3, <1>4, <1>5, <1>7, <1>8, <1>9, <1>10 DEF Plan, Execute, Recover

\* Whatever else is at work on a file, it is this client.
LEMMA OneAtWork ==
  ASSUME DriftInv, NEW c \in Clients, pc[c] = "replaying", NEW d \in Clients, d # c
  PROVE  target[d] = {}
BY DEF DriftInv, LockInv, Typed, WatchedInv, Inside

(***************************************************************************)
(* Replay: it replaces only what Inspect found planned, or what an         *)
(* outsider has written since.                                             *)
(***************************************************************************)
LEMMA ReplayStep ==
  ASSUME DriftInv, NEW c \in Clients, NEW q \in Paths,
         \/ InPlace(c, q) \/ Inspect(c, q) \/ Replace(c, q)
         \/ UnlinkFails(c, q) \/ Verify(c, q) \/ FailClosed(c, q)
  PROVE  /\ DriftInv'
         /\ \A p \in Paths : file'[p] # file[p] =>
              p \in target[c] /\ (plan[c].outs[p].before = file[p] \/ p \in unseen)
<1> USE DEF diskvars
<1>1. CASE UnlinkFails(c, q) \/ FailClosed(c, q)
  BY <1>1, EndKeeps DEF UnlinkFails, FailClosed, Resting
<1>2. CASE InPlace(c, q) \/ Inspect(c, q) \/ Verify(c, q)
  <2>1. Typed' /\ LockInv'
    BY <1>2 DEF InPlace, Inspect, Verify, DriftInv, Typed, LockInv
  <2>2. WatchedInv'
    BY <1>2, OneAtWork DEF InPlace, Inspect, Verify, DriftInv, Typed, WatchedInv
  <2>3. QED
    BY <1>2, <2>1, <2>2 DEF InPlace, Inspect, Verify, DriftInv
<1>3. CASE Replace(c, q)
  <2>1. Typed' /\ LockInv'
    BY <1>3 DEF Replace, DriftInv, Typed, LockInv
  <2>2. WatchedInv'
    BY <1>3, OneAtWork DEF Replace, DriftInv, Typed, WatchedInv
  <2>3. q \in target[c] /\ (plan[c].outs[q].before = file[q] \/ q \in unseen)
    BY <1>3 DEF Replace, DriftInv, WatchedInv
  <2>4. QED
    BY <1>3, <2>1, <2>2, <2>3 DEF Replace, DriftInv, Typed
<1>4. QED
  BY <1>1, <1>2, <1>3

LEMMA DriftStep ==
  ASSUME DriftInv, NEW q \in Paths, Drift(q)
  PROVE  DriftInv' /\ drifts' # drifts
<1>1. Typed' /\ LockInv' /\ drifts' # drifts
  BY DEF Drift, clientvars, DriftInv, Typed, LockInv
<1>2. WatchedInv'
  BY DEF Drift, clientvars, DriftInv, Typed, WatchedInv
<1>3. QED
  BY <1>1, <1>2 DEF DriftInv

(***************************************************************************)
(* What an outsider wrote is replaced or deleted only by a replay that was *)
(* planned over exactly that content, or that had looked at the path       *)
(* before it was written (_materialize_write and _materialize_deletion     *)
(* check and then replace), how many clients plan, die and recover, and    *)
(* however often replay is repeated.                                       *)
(***************************************************************************)
THEOREM OutsidersKeepTheirs == DriftSpec => OutsideContentKept
<1> DEFINE Kept ==
      \A q \in Paths :
        file[q] \in Outside /\ file'[q] # file[q] /\ drifts' = drifts =>
          \E c \in Clients : /\ q \in target[c]
                             /\ plan[c].outs[q].before = file[q] \/ q \in unseen
<1>1. Init => DriftInv
  BY EngineConstants DEF Init, DriftInv, Typed, LockInv, WatchedInv, Inside
<1>2. DriftInv /\ [DriftNext]_vars => DriftInv' /\ Kept
  <2> SUFFICES ASSUME DriftInv, [DriftNext]_vars PROVE DriftInv' /\ Kept
    OBVIOUS
  <2>1. CASE UNCHANGED vars
    BY <2>1 DEF vars, diskvars, clientvars, DriftInv, Typed, LockInv, WatchedInv
  <2>2. ASSUME NEW q \in Paths, Drift(q) PROVE DriftInv' /\ Kept
    BY <2>2, DriftStep
  <2>3. ASSUME NEW c \in Clients, NEW q \in Paths,
               \/ InPlace(c, q) \/ Inspect(c, q) \/ Replace(c, q)
               \/ UnlinkFails(c, q) \/ Verify(c, q) \/ FailClosed(c, q)
        PROVE  DriftInv' /\ Kept
    BY <2>3, ReplayStep
  <2>4. ASSUME NEW c \in Clients,
               \/ ReadState(c) \/ Plan(c) \/ Lock(c) \/ StartRecover(c) \/ Crash(c)
               \/ Execute(c) \/ Recover(c) \/ Commit(c) \/ Finish(c)
        PROVE  DriftInv' /\ Kept
    BY <2>4, WorkStep
  <2>5. QED
    BY <2>1, <2>2, <2>3, <2>4 DEF DriftNext, Next, Run, Replay
<1>3. QED
  BY <1>1, <1>2, PTL DEF DriftSpec, DriftNext, OutsideContentKept
=============================================================================
