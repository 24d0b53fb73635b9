----------------------------- MODULE Transaction -----------------------------
(***************************************************************************)
(* TransactionEngine (transaction.py) with the entry points that drive it  *)
(* from DomainWorkspace (workspace.py): initialize, apply, persist and     *)
(* recover.  Clients are separate CLI processes over one domain root.      *)
(*                                                                         *)
(* A client reads state.json and the files it plans over OUTSIDE the       *)
(* domain lock, then executes its plan under the lock: the plan is checked *)
(* against the disk, written into state.json as the pending transaction,   *)
(* replayed output by output (each checked, replaced and checked again),   *)
(* and committed by one atomic replacement of state.json.  A process may   *)
(* die between any two of these steps, which releases its lock and leaves  *)
(* the disk as it is.  recover finishes what a dead process left behind.   *)
(***************************************************************************)
EXTENDS Plans

CONSTANTS
  Clients, NoClient,
  NoTxn,        \* "txn": null in state.json; no initialization envelope
  Outside,      \* contents that only a writer outside the engine produces
  MaxRevision,  \* bound: no transition is planned beyond this revision
  MaxCrashes,   \* bound: process deaths in a behaviour
  MaxDrifts     \* bound: writes by outsiders in a behaviour

ASSUME EngineConstants ==
  /\ NoClient \notin Clients
  /\ NoTxn \notin Record
  /\ Outside \subseteq Contents
  /\ MaxRevision \in Nat \ {0} /\ MaxCrashes \in Nat /\ MaxDrifts \in Nat

VARIABLES
  disk,     \* state.json: the revision and the pending transaction
  intent,   \* control_root/intents: the initialization envelope's transaction
  file,     \* the governed files
  lock,     \* holder of the domain's flock
  pc,       \* where each client is in its command
  snap,     \* the state.json a client's command read first
  plan,     \* the record a client executes or replays
  todo,     \* outputs the client has not replayed yet
  target,   \* the output it has found replaceable and is at work on, at most one
  crashes,  \* bound counter
  drifts,   \* bound counter
  unseen    \* history: paths an outsider wrote since replay last looked at them

diskvars   == <<disk, intent, file>>
clientvars == <<pc, snap, plan, todo, target>>
vars == <<diskvars, clientvars, lock, crashes, drifts, unseen>>

NoState == [rev |-> 0, txn |-> NoTxn]   \* state.json does not exist

State == [rev : 0..MaxRevision, txn : Record \union {NoTxn}]

\* Labels at which the client is inside _lock().
Inside == {"locked", "bound", "envelope", "replaying", "committed", "recovering"}
\* A client between two commands; "corrupt" if the last one raised RecoveryCorruption.
Resting == {"idle", "corrupt"}

Labels == Resting \union {"planning", "planned"} \union Inside

Init ==
  /\ disk = NoState
  /\ intent = NoTxn
  /\ file = [q \in Paths |-> Absent]
  /\ lock = NoClient
  /\ pc = [c \in Clients |-> "idle"]
  /\ snap = [c \in Clients |-> NoState]
  /\ plan = [c \in Clients |-> NoTxn]
  /\ todo = [c \in Clients |-> {}]
  /\ target = [c \in Clients |-> {}]
  /\ crashes = 0
  /\ drifts = 0
  /\ unseen = {}

\* Faulty: the lock outlives the process that held it.
EndHoldingLock(c, how) ==
  /\ pc' = [pc EXCEPT ![c] = how]
  /\ snap' = [snap EXCEPT ![c] = NoState]
  /\ plan' = [plan EXCEPT ![c] = NoTxn]
  /\ todo' = [todo EXCEPT ![c] = {}]
  /\ target' = [target EXCEPT ![c] = {}]
  /\ UNCHANGED lock

(***************************************************************************)
(* The command ends and the process with it: its lock is released and      *)
(* nothing of its memory is left.                                          *)
(***************************************************************************)
End(c, how) ==
  /\ pc' = [pc EXCEPT ![c] = how]
  /\ snap' = [snap EXCEPT ![c] = NoState]
  /\ plan' = [plan EXCEPT ![c] = NoTxn]
  /\ todo' = [todo EXCEPT ![c] = {}]
  /\ target' = [target EXCEPT ![c] = {}]
  /\ lock' = IF lock = c THEN NoClient ELSE lock

-----------------------------------------------------------------------------
(***************************************************************************)
(* Planning, outside the lock.                                             *)
(***************************************************************************)

\* A command starts and reads state.json.
ReadState(c) ==
  /\ pc[c] \in Resting
  /\ pc' = [pc EXCEPT ![c] = "planning"]
  /\ snap' = [snap EXCEPT ![c] = disk]
  /\ UNCHANGED <<diskvars, plan, todo, target, lock, crashes, drifts, unseen>>

Ready(c, r) ==
  /\ pc' = [pc EXCEPT ![c] = "planned"]
  /\ plan' = [plan EXCEPT ![c] = r]
  /\ UNCHANGED <<diskvars, snap, todo, target, lock, crashes, drifts, unseen>>

NewFile(content) == [before |-> Absent, to |-> content, same |-> FALSE]

(***************************************************************************)
(* initialize: no state.json when the command looked, an empty domain root *)
(* now, and only new files to write.                                       *)
(***************************************************************************)
PlanInit(c) ==
  /\ pc[c] = "planning"
  /\ snap[c] = NoState
  /\ \A q \in Paths : file[q] = Absent
  /\ \E outs \in [Paths -> {Keep} \union {NewFile(x) : x \in Contents \ Outside}] :
       /\ \E q \in Paths : outs[q] # Keep
       /\ Ready(c, [base |-> 0, next |-> 1, outs |-> outs,
                    reads |-> [q \in Paths |-> Keep]])

(***************************************************************************)
(* The outputs and reads a command may plan for a path that holds v when   *)
(* it looks: replace what is there, write a file it takes to be new        *)
(* (accepting the identical file or not), delete what is there.            *)
(***************************************************************************)
Writes(v) ==
  {[before |-> b, to |-> x, same |-> s] :
     b \in {v, Absent}, x \in Contents \ Outside, s \in BOOLEAN}

Outputs(v) ==
  Writes(v) \union
  IF v = Absent THEN {} ELSE {[before |-> v, to |-> Absent, same |-> FALSE]}

\* What a plan may say of one path: nothing, an output, or a dependency.
Entries(v) ==
  {[out |-> Keep, read |-> Keep], [out |-> Keep, read |-> v]} \union
  {[out |-> o, read |-> Keep] : o \in Outputs(v)}

(***************************************************************************)
(* apply (a transition: the revision moves on) and persist (it does not).  *)
(* With nothing to write, persist returns and no transaction is made.      *)
(***************************************************************************)
PlanMutation(c) ==
  LET options == [q \in Paths |-> Entries(file[q])]
  IN  /\ pc[c] = "planning"
      /\ snap[c] # NoState
      /\ \E entries \in [Paths -> UNION {options[q] : q \in Paths}], step \in {0, 1} :
           /\ \A q \in Paths : entries[q] \in options[q]
           /\ step = 0 => \E q \in Paths : entries[q].out # Keep
           /\ snap[c].rev + step <= MaxRevision
           /\ Ready(c, [base |-> snap[c].rev, next |-> snap[c].rev + step,
                        outs |-> [q \in Paths |-> entries[q].out],
                        reads |-> [q \in Paths |-> entries[q].read]])

\* A command that has nothing to write, or that its own checks refuse, ends here.
Decline(c) ==
  /\ pc[c] = "planning"
  /\ End(c, "idle")
  /\ UNCHANGED <<diskvars, crashes, drifts, unseen>>

-----------------------------------------------------------------------------
(***************************************************************************)
(* execute, under the lock.                                                *)
(***************************************************************************)

\* Faulty: the lock is not exclusive.
EnterShared(c, to) ==
  /\ lock' = c
  /\ pc' = [pc EXCEPT ![c] = to]
  /\ UNCHANGED <<diskvars, plan, todo, target, crashes, drifts, unseen>>

Enter(c, to) ==
  /\ lock = NoClient
  /\ lock' = c
  /\ pc' = [pc EXCEPT ![c] = to]
  /\ UNCHANGED <<diskvars, plan, todo, target, crashes, drifts, unseen>>

Lock(c) ==
  /\ pc[c] = "planned"
  /\ Enter(c, "locked")
  /\ UNCHANGED snap

\* Faulty: the state may have moved since it was read; the files may have.
AdmissibleState(c) == disk.txn = NoTxn /\ disk \in {NoState, snap[c]}
AdmissibleFiles(c) == disk.txn = NoTxn /\ Fits(file, plan[c])

\* What execute demands of the disk before it records anything.
Admissible(c) ==
  /\ disk.txn = NoTxn
  /\ disk \in {NoState, snap[c]}
  /\ Fits(file, plan[c])

Refuse(c) ==
  /\ pc[c] = "locked"
  /\ ~Admissible(c)
  /\ End(c, "idle")
  /\ UNCHANGED <<diskvars, crashes, drifts, unseen>>

Bind(c) ==
  /\ pc[c] = "locked"
  /\ Admissible(c)
  /\ pc' = [pc EXCEPT ![c] = "bound"]
  /\ UNCHANGED <<diskvars, snap, plan, todo, target, lock, crashes, drifts, unseen>>

\* An initialization first writes its envelope outside the domain root.
RecordEnvelope(c) ==
  /\ pc[c] = "bound"
  /\ disk = NoState
  /\ intent' = plan[c]
  /\ pc' = [pc EXCEPT ![c] = "envelope"]
  /\ UNCHANGED <<disk, file, snap, plan, todo, target, lock, crashes, drifts, unseen>>

Pend(c, r) ==
  /\ disk' = [rev |-> r.base, txn |-> r]
  /\ todo' = [todo EXCEPT ![c] = Planned(r)]
  /\ pc' = [pc EXCEPT ![c] = "replaying"]

RecordIntent(c) ==
  /\ \/ pc[c] = "bound" /\ disk # NoState
     \/ pc[c] = "envelope"
  /\ Pend(c, plan[c])
  /\ UNCHANGED <<intent, file, snap, plan, target, lock, crashes, drifts, unseen>>

-----------------------------------------------------------------------------
(***************************************************************************)
(* Replay, by execute and by recover alike.                                *)
(***************************************************************************)

\* The next output: any write, or a deletion once the writes are done.
Due(c) ==
  {q \in todo[c] : /\ target[c] = {}
                   /\ q \in Deletions(plan[c]) => todo[c] \subseteq Deletions(plan[c])}

\* The output is in place already.
InPlace(c, q) ==
  /\ pc[c] = "replaying"
  /\ q \in Due(c)
  /\ file[q] = plan[c].outs[q].to
  /\ todo' = [todo EXCEPT ![c] = @ \ {q}]
  /\ UNCHANGED <<diskvars, pc, snap, plan, target, lock, crashes, drifts, unseen>>

\* Faulty: whatever is at the path may be replaced.
InspectNothing(c, q) ==
  /\ pc[c] = "replaying"
  /\ q \in Due(c)
  /\ file[q] # plan[c].outs[q].to
  /\ target' = [target EXCEPT ![c] = {q}]
  /\ unseen' = unseen \ {q}
  /\ UNCHANGED <<diskvars, pc, snap, plan, todo, lock, crashes, drifts>>

\* The path is read and holds what was planned over; nothing is replaced yet.
Inspect(c, q) ==
  /\ pc[c] = "replaying"
  /\ q \in Due(c)
  /\ file[q] = plan[c].outs[q].before /\ file[q] # plan[c].outs[q].to
  /\ target' = [target EXCEPT ![c] = {q}]
  /\ unseen' = unseen \ {q}
  /\ UNCHANGED <<diskvars, pc, snap, plan, todo, lock, crashes, drifts>>

(***************************************************************************)
(* The replacement: os.replace, or unlink.  It goes by what Inspect saw    *)
(* and overwrites what has come to the path since.                         *)
(***************************************************************************)
Replace(c, q) ==
  /\ pc[c] = "replaying"
  /\ q \in target[c] \intersect todo[c]
  /\ q \in Deletions(plan[c]) => file[q] # Absent
  /\ file' = [file EXCEPT ![q] = plan[c].outs[q].to]
  /\ todo' = [todo EXCEPT ![c] = @ \ {q}]
  /\ target' = [target EXCEPT ![c] = @ \ Deletions(plan[c])]
  /\ UNCHANGED <<disk, intent, pc, snap, plan, lock, crashes, drifts, unseen>>

\* Someone else deleted the file first: unlink raises, the transaction stays pending.
UnlinkFails(c, q) ==
  /\ pc[c] = "replaying"
  /\ q \in target[c] \intersect todo[c] \intersect Deletions(plan[c])
  /\ file[q] = Absent
  /\ End(c, "idle")
  /\ UNCHANGED <<diskvars, crashes, drifts, unseen>>

\* A written file is read back.
Verify(c, q) ==
  /\ pc[c] = "replaying"
  /\ q \in target[c] \ todo[c]
  /\ file[q] = plan[c].outs[q].to
  /\ target' = [target EXCEPT ![c] = {}]
  /\ UNCHANGED <<diskvars, pc, snap, plan, todo, lock, crashes, drifts, unseen>>

(***************************************************************************)
(* The path holds neither what was planned over nor the result, or reads   *)
(* back as something else than was written: replay fails closed and the    *)
(* transaction stays pending.                                              *)
(***************************************************************************)
FailClosed(c, q) ==
  /\ pc[c] = "replaying"
  /\ \/ q \in Due(c) /\ file[q] \notin {plan[c].outs[q].to, plan[c].outs[q].before}
     \/ q \in target[c] \ todo[c] /\ file[q] # plan[c].outs[q].to
  /\ End(c, "corrupt")
  /\ UNCHANGED <<diskvars, crashes, drifts, unseen>>

\* Faulty: committed before the outputs are in place; committed with a revision skipped.
CommitEarly(c) ==
  /\ pc[c] = "replaying"
  /\ disk' = [rev |-> plan[c].next, txn |-> NoTxn]
  /\ pc' = [pc EXCEPT ![c] = "committed"]
  /\ UNCHANGED <<intent, file, snap, plan, todo, target, lock, crashes, drifts, unseen>>

CommitSkipping(c) ==
  /\ pc[c] = "replaying"
  /\ todo[c] = {} /\ target[c] = {}
  /\ disk' = [rev |-> plan[c].next + 1, txn |-> NoTxn]
  /\ pc' = [pc EXCEPT ![c] = "committed"]
  /\ UNCHANGED <<intent, file, snap, plan, todo, target, lock, crashes, drifts, unseen>>

Commit(c) ==
  /\ pc[c] = "replaying"
  /\ todo[c] = {} /\ target[c] = {}
  /\ disk' = [rev |-> plan[c].next, txn |-> NoTxn]
  /\ pc' = [pc EXCEPT ![c] = "committed"]
  /\ UNCHANGED <<intent, file, snap, plan, todo, target, lock, crashes, drifts, unseen>>

\* After the commit: drop the envelope of this transaction, object to another's.
Finish(c) ==
  /\ pc[c] = "committed"
  /\ intent' = IF intent = plan[c] THEN NoTxn ELSE intent
  /\ End(c, IF intent \in {NoTxn, plan[c]} THEN "idle" ELSE "corrupt")
  /\ UNCHANGED <<disk, file, crashes, drifts, unseen>>

-----------------------------------------------------------------------------
(***************************************************************************)
(* recover.                                                                *)
(***************************************************************************)

\* recover reads state.json under the lock.
StartRecover(c) ==
  /\ pc[c] \in Resting
  /\ Enter(c, "recovering")
  /\ snap' = [snap EXCEPT ![c] = disk]

\* state.json names a pending transaction: replay it.
RecoverPending(c) ==
  /\ pc[c] = "recovering"
  /\ disk.txn # NoTxn
  /\ plan' = [plan EXCEPT ![c] = disk.txn]
  /\ todo' = [todo EXCEPT ![c] = Planned(disk.txn)]
  /\ pc' = [pc EXCEPT ![c] = "replaying"]
  /\ UNCHANGED <<diskvars, snap, target, lock, crashes, drifts, unseen>>

\* Only the envelope was written: put its transaction into state.json first.
RecoverEnvelope(c) ==
  /\ pc[c] = "recovering"
  /\ disk = NoState
  /\ intent # NoTxn
  /\ plan' = [plan EXCEPT ![c] = intent]
  /\ Pend(c, intent)
  /\ UNCHANGED <<intent, file, snap, target, lock, crashes, drifts, unseen>>

(***************************************************************************)
(* Nothing is pending in an initialized domain.  An envelope whose final   *)
(* state is the state on disk is dropped.  Any other envelope is replayed, *)
(* and _replay refuses it because state.json does not hold its record.     *)
(***************************************************************************)
RecoverSettled(c) ==
  /\ pc[c] = "recovering"
  /\ disk # NoState /\ disk.txn = NoTxn
  /\ LET stale == intent # NoTxn /\ disk.rev # intent.next
     IN  /\ intent' = IF stale THEN intent ELSE NoTxn
         /\ End(c, IF stale THEN "corrupt" ELSE "idle")
  /\ UNCHANGED <<disk, file, crashes, drifts, unseen>>

RecoverNothing(c) ==
  /\ pc[c] = "recovering"
  /\ disk = NoState
  /\ intent = NoTxn
  /\ End(c, "idle")
  /\ UNCHANGED <<diskvars, crashes, drifts, unseen>>

-----------------------------------------------------------------------------
(***************************************************************************)
(* The environment: a process dies; someone writes a governed file without *)
(* the engine.                                                             *)
(***************************************************************************)

Crash(c) ==
  /\ pc[c] \notin Resting
  /\ crashes < MaxCrashes
  /\ crashes' = crashes + 1
  /\ End(c, "idle")
  /\ UNCHANGED <<diskvars, drifts, unseen>>

Drift(q) ==
  /\ drifts < MaxDrifts
  /\ drifts' = drifts + 1
  /\ unseen' = unseen \union {q}
  /\ \E x \in Outside \union {Absent} :
       file[q] # x /\ file' = [file EXCEPT ![q] = x]
  /\ UNCHANGED <<disk, intent, clientvars, lock, crashes>>

Execute(c) ==
  \/ Refuse(c) \/ Bind(c) \/ RecordEnvelope(c) \/ RecordIntent(c)

Replay(c) ==
  \/ \E q \in Paths : \/ InPlace(c, q) \/ Inspect(c, q) \/ Replace(c, q)
                      \/ UnlinkFails(c, q) \/ Verify(c, q) \/ FailClosed(c, q)
  \/ Commit(c) \/ Finish(c)

Recover(c) ==
  \/ RecoverPending(c) \/ RecoverEnvelope(c) \/ RecoverSettled(c) \/ RecoverNothing(c)

\* The steps a client takes by itself once it holds the lock.
Run(c) == Execute(c) \/ Replay(c) \/ Recover(c)

Plan(c) == PlanInit(c) \/ PlanMutation(c) \/ Decline(c)

Next ==
  \E c \in Clients :
    \/ ReadState(c) \/ Plan(c) \/ Lock(c)
    \/ StartRecover(c) \/ Run(c) \/ Crash(c)

Spec == Init /\ [][Next]_vars

\* The same engine when governed files are also written behind its back.
DriftSpec == Init /\ [][Next \/ \E q \in Paths : Drift(q)]_vars

(***************************************************************************)
(* A command that was started runs on until it ends or dies, and a waiter  *)
(* is not overtaken at the lock for ever.  An operator told that a         *)
(* transaction is pending ("recover the pending transaction first") keeps  *)
(* trying recover.                                                         *)
(***************************************************************************)
Persistent ==
  \A c \in Clients : /\ WF_vars(Plan(c)) /\ WF_vars(Run(c))
                    /\ SF_vars(Lock(c)) /\ SF_vars(StartRecover(c))

FairSpec == Spec /\ Persistent
FairDriftSpec == DriftSpec /\ Persistent

-----------------------------------------------------------------------------
(***************************************************************************)
(* Properties.                                                             *)
(***************************************************************************)

\* Every variable holds a value of its kind.
TypeOK ==
  /\ disk \in State
  /\ intent \in Record \union {NoTxn}
  /\ file \in [Paths -> Value]
  /\ lock \in Clients \union {NoClient}
  /\ pc \in [Clients -> Labels]
  /\ snap \in [Clients -> State]
  /\ plan \in [Clients -> Record \union {NoTxn}]
  /\ todo \in [Clients -> SUBSET Paths]
  /\ target \in [Clients -> SUBSET Paths]
  /\ crashes \in 0..MaxCrashes
  /\ drifts \in 0..MaxDrifts
  /\ unseen \subseteq Paths

(***************************************************************************)
(* A pending transaction can always be replayed, whoever died where: each  *)
(* of its outputs is either still what the plan expected or already what   *)
(* the plan leaves.  Otherwise _materialize_write would refuse a domain    *)
(* that only the engine has written to.                                    *)
(***************************************************************************)
PendingReplayable ==
  disk.txn # NoTxn =>
    \A q \in Planned(disk.txn) :
      file[q] \in {disk.txn.outs[q].before, disk.txn.outs[q].to}

(***************************************************************************)
(* What execute checked is still true when it writes the intent, although  *)
(* other processes plan, lock, die and recover around it.                  *)
(***************************************************************************)
CheckedStaysTrue ==
  \A c \in Clients : pc[c] \in {"bound", "envelope"} => Admissible(c)

(***************************************************************************)
(* Crash equality (contract 9.3): seen through its pending transaction,    *)
(* the disk changes in whole transactions only, each from the revision and *)
(* the contents it was planned for, however often replay is interrupted    *)
(* and repeated.                                                           *)
(***************************************************************************)
absRevision == IF disk.txn = NoTxn THEN disk.rev ELSE disk.txn.next
absStore == IF disk.txn = NoTxn THEN file ELSE Overlay(file, disk.txn)

Abs == INSTANCE AtomicStore WITH
  revision <- absRevision, store <- absStore, unsettled <- disk.txn

CrashEquality == Abs!Spec

(***************************************************************************)
(* The inductive invariant behind the safety properties.                   *)
(***************************************************************************)

\* A plan made by initialize: it founds revision 1 with new files only.
FoundingPlan(r) ==
  /\ r \in Record
  /\ r.base = 0 /\ r.next = 1
  /\ \A q \in Paths : /\ r.outs[q] # Keep => r.outs[q].before = Absent
                      /\ r.reads[q] = Keep

\* A plan made against the state s.
PlanFor(r, s) ==
  /\ r \in Record
  /\ r.base = s.rev
  /\ r.next \in {s.rev, s.rev + 1} /\ r.next \leq MaxRevision
  /\ s = NoState => FoundingPlan(r)

\* Exactly the lock holder is inside.
LockInv == \A c \in Clients : pc[c] \in Inside <=> lock = c

\* Plans follow from the state their client read, and state.json never vanishes.
PlanInv ==
  \A c \in Clients :
    /\ snap[c] # NoState => disk # NoState
    /\ pc[c] \in {"planned", "locked", "bound", "envelope"} => PlanFor(plan[c], snap[c])

EnvelopeInv ==
  /\ intent # NoTxn => FoundingPlan(intent)
  /\ disk = NoState => \A q \in Paths : file[q] = Absent
  /\ \A c \in Clients : pc[c] = "envelope" => disk = NoState /\ intent = plan[c]

PendingInv ==
  disk.txn # NoTxn =>
    /\ disk.txn.base = disk.rev
    /\ disk.txn.next \in {disk.rev, disk.rev + 1} /\ disk.txn.next \in 1..MaxRevision

\* A replaying client works on the pending record, and what it has done is in place.
ReplayInv ==
  \A c \in Clients :
    /\ target[c] # {} => pc[c] = "replaying"
    /\ pc[c] = "replaying" =>
         /\ disk.txn = plan[c] /\ plan[c] \in Record
         /\ todo[c] \union target[c] \subseteq Planned(plan[c])
         /\ \A q \in Planned(plan[c]) \ todo[c] : file[q] = plan[c].outs[q].to

CommittedInv ==
  \A c \in Clients : pc[c] = "committed" => disk # NoState /\ disk.txn = NoTxn

TxnInv ==
  /\ TypeOK /\ LockInv /\ PlanInv /\ CheckedStaysTrue /\ EnvelopeInv
  /\ PendingInv /\ PendingReplayable /\ ReplayInv /\ CommittedInv

(***************************************************************************)
(* The engine replaces or deletes what an outsider wrote only when the     *)
(* transaction was planned over exactly that content, or when it was       *)
(* written after replay last looked at the path.  Between that look and    *)
(* the replacement outsiders are not seen; content found there earlier     *)
(* that the plan does not know is never overwritten, however many clients  *)
(* die and replay again.                                                   *)
(***************************************************************************)
OutsideContentKept ==
  [][\A q \in Paths :
       file[q] \in Outside /\ file'[q] # file[q] /\ drifts' = drifts =>
         \E c \in Clients : /\ q \in target[c]
                            /\ plan[c].outs[q].before = file[q] \/ q \in unseen]_vars

\* An output of the record can no longer be replayed: it fails closed.
Overwritten(r) ==
  \E q \in Planned(r) : file[q] \notin {r.outs[q].before, r.outs[q].to}

(***************************************************************************)
(* Under Persistent every pending transaction gets finished: no            *)
(* combination of dead and waiting processes keeps a domain pending for    *)
(* ever, and outsiders do so only by changing one of its outputs.          *)
(***************************************************************************)
PendingResolved ==
  disk.txn # NoTxn ~> disk.txn = NoTxn \/ Overwritten(disk.txn)

(***************************************************************************)
(* Contract 8.2: "Every error path ... leaves state and owned roots        *)
(* byte-identical unless a pending transaction is intentionally            *)
(* recoverable."  A command that raises RecoveryCorruption leaves          *)
(* state.json as it first read it, or pending.                             *)
(***************************************************************************)
ErrorKeepsState ==
  [][\A c \in Clients :
       pc[c] \in Inside /\ pc'[c] = "corrupt" =>
         disk' = snap[c] \/ disk'.txn # NoTxn]_vars
=============================================================================
