----------------------------- MODULE AtomicStore -----------------------------
(***************************************************************************)
(* What the transaction engine promises its callers: the authoritative     *)
(* state and every governed file change together, in one step, and only    *)
(* from the revision and the file contents the plan was computed for.      *)
(* Crashes, locks, replay and recovery do not exist at this level.         *)
(***************************************************************************)
EXTENDS Plans

VARIABLES
  revision,  \* revision of the authoritative state; 0 before initialization
  store,     \* contents of the governed files
  unsettled  \* the transaction that took effect and is not acknowledged, if any

CONSTANT NoTxn \* no transaction

absvars == <<revision, store, unsettled>>

Init ==
  /\ revision = 0
  /\ store = [q \in Paths |-> Absent]
  /\ unsettled = NoTxn

\* A transition moves the revision on by one; persist leaves it where it was.
Commit(r) ==
  /\ unsettled = NoTxn
  /\ r \in Record
  /\ revision = r.base
  /\ r.next \in {r.base, r.base + 1}
  /\ Fits(store, r)
  /\ revision' = r.next
  /\ store' = Overlay(store, r)

Settle == unsettled # NoTxn /\ UNCHANGED <<revision, store>>

\* One transaction at a time: the next one commits after this one is settled.
Next ==
  \/ unsettled' # NoTxn /\ Commit(unsettled')
  \/ unsettled' = NoTxn /\ Settle

Spec == Init /\ [][Next]_absvars
=============================================================================
