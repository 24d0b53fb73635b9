------------------------------- MODULE Mirror -------------------------------
(***************************************************************************)
(* The disposable mirror of the active skill (workspace.py,                *)
(* rebuild_mirror; snapshot.py, mirror_rebuild_plan).  A rebuild verifies  *)
(* that it holds the active snapshot, compares the mirror with it, reads   *)
(* the state again and commits the differences in one transaction, which   *)
(* is refused if the state or a file of the plan moved since it was read.  *)
(***************************************************************************)
EXTENDS Naturals

CONSTANTS
  Rebuilders, \* processes that rebuild the mirror
  Skills,     \* snapshots, in the order in which they become active: 1..n
  Files,      \* paths in a snapshot
  Content,    \* per snapshot and path, the content there, or NoFile
  NoFile,     \* no such file
  NoRebuild,  \* a process between rebuilds
  Garbage,    \* what someone else may leave in the mirror
  MaxDamage   \* bound: writes to the mirror from outside

ASSUME MirrorConstants ==
  /\ \E n \in Skills : n \in Nat /\ Skills = 1..n
  /\ DOMAIN Content = Skills /\ \A s \in Skills : DOMAIN Content[s] = Files
  /\ MaxDamage \in Nat

VARIABLES
  activeSkill, \* active_snapshot_hash
  mirror,      \* the files of the mirror
  rebuild,     \* per process, what it has read and planned
  damage       \* bound counter

mirrorVars == <<activeSkill, mirror, rebuild, damage>>

MirrorInit ==
  /\ activeSkill = 1
  /\ mirror = [f \in Files |-> NoFile]
  /\ rebuild = [p \in Rebuilders |-> NoRebuild]
  /\ damage = 0

\* The lifecycle promotes another snapshot.
PromoteSkill ==
  /\ activeSkill + 1 \in Skills
  /\ activeSkill' = activeSkill + 1
  /\ UNCHANGED <<mirror, rebuild, damage>>

DamageMirror ==
  /\ damage < MaxDamage
  /\ damage' = damage + 1
  /\ \E f \in Files, x \in {Garbage, NoFile} : mirror' = [mirror EXCEPT ![f] = x]
  /\ UNCHANGED <<activeSkill, rebuild>>

\* verify_active_snapshot
Verify(p) ==
  /\ rebuild[p] = NoRebuild
  /\ rebuild' = [rebuild EXCEPT ![p] =
                   [pc |-> "plan", skill |-> activeSkill, before |-> mirror, state |-> 0]]
  /\ UNCHANGED <<activeSkill, mirror, damage>>

\* mirror_rebuild_plan: the mirror as it is.
ReadMirror(p) ==
  /\ rebuild[p] # NoRebuild /\ rebuild[p].pc = "plan"
  /\ rebuild' = [rebuild EXCEPT ![p].pc = "state", ![p].before = mirror]
  /\ UNCHANGED <<activeSkill, mirror, damage>>

\* The second look at the state: the one the transaction is bound to.
ReadState(p) ==
  /\ rebuild[p] # NoRebuild /\ rebuild[p].pc = "state"
  /\ rebuild' = [rebuild EXCEPT ![p].pc = "execute", ![p].state = activeSkill]
  /\ UNCHANGED <<activeSkill, mirror, damage>>

\* Faulty: files that the snapshot does not have stay.
WritesOnly(r) == {f \in Files : Content[r.skill][f] # NoFile /\ r.before[f] # Content[r.skill][f]}

\* The files to write and to delete.
Differing(r) == {f \in Files : r.before[f] # Content[r.skill][f]}

(***************************************************************************)
(* One transaction; or nothing to do; or it is refused, which ends the     *)
(* rebuild as well.                                                        *)
(***************************************************************************)
Execute(p) ==
  /\ rebuild[p] # NoRebuild /\ rebuild[p].pc = "execute"
  /\ LET r == rebuild[p]
         fits == r.state = activeSkill /\ \A f \in Differing(r) : mirror[f] = r.before[f]
     IN  mirror' = [f \in Files |->
                      IF fits /\ f \in Differing(r) THEN Content[r.skill][f] ELSE mirror[f]]
  /\ rebuild' = [rebuild EXCEPT ![p] = NoRebuild]
  /\ UNCHANGED <<activeSkill, damage>>

Rebuild(p) == Verify(p) \/ ReadMirror(p) \/ ReadState(p) \/ Execute(p)

MirrorNext ==
  \/ PromoteSkill \/ DamageMirror
  \/ \E p \in Rebuilders : Rebuild(p)

MirrorSpec ==
  /\ MirrorInit /\ [][MirrorNext]_mirrorVars
  /\ \A p \in Rebuilders : WF_mirrorVars(Rebuild(p))

-----------------------------------------------------------------------------
(***************************************************************************)
(* Once promotions and outside damage are over, a mirror that is rebuilt   *)
(* again and again becomes the active skill and stays it, although         *)
(* rebuilds that started earlier may still write an older skill, or parts  *)
(* of one between parts of another.                                        *)
(***************************************************************************)
MirrorCatchesUp == <>[](mirror = Content[activeSkill])
=============================================================================
