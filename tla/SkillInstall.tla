---------------------------- MODULE SkillInstall ----------------------------
(***************************************************************************)
(* Installing the program's own agent skill (skill_install.py): a copy is  *)
(* staged beside the destination under the process's own name, an existing *)
(* install is removed file by file if it may be replaced, and the staged   *)
(* tree is renamed into place.  Nothing is locked: several processes may   *)
(* install at once, and each may fail, be interrupted or die anywhere.     *)
(***************************************************************************)
EXTENDS Naturals

CONSTANTS
  Installers,  \* processes
  Members,     \* files of the skill, 1..n in the order a directory lists them
  SkillMd,     \* the one that is SKILL.md
  MaxTrees,    \* bound: trees renamed into place
  MaxAccidents, \* bound: removals cut short
  NoTree       \* no such directory

ASSUME SkillInstallConstants ==
  /\ \E n \in Members : n \in Nat /\ Members = 1..n
  /\ SkillMd \in Members
  /\ MaxTrees \in Nat /\ MaxAccidents \in Nat
  /\ \A n \in 1..MaxTrees, S \in SUBSET Members : [id |-> n, files |-> S] # NoTree

VARIABLES
  installer,   \* each process: where it is, its staged files, the tree it removes
  destination, \* the destination: which tree, and what is left of it; or NoTree
  trees,       \* bound counter, numbers the trees renamed into place
  accidents    \* bound counter of the removals that were cut short

installVars == <<installer, destination, trees, accidents>>

Inactive == [pc |-> "off", replacing |-> FALSE, staged |-> {}, tree |-> 0, left |-> {}]

InstallInit ==
  /\ installer = [p \in Installers |-> Inactive]
  /\ destination = NoTree
  /\ trees = 0 /\ accidents = 0

Goes(p, x) == installer' = [installer EXCEPT ![p] = x]

\* Faulty: the handler clears the destination as well.
CleanupBoth(p) ==
  /\ Goes(p, Inactive)
  /\ destination' = NoTree
  /\ UNCHANGED trees

\* The handler of every failure: the staged copy goes, the destination is left alone.
Cleanup(p) ==
  /\ Goes(p, Inactive)
  /\ UNCHANGED <<destination, trees>>

\* It has begun to remove the old install and has not yet brought its own copy in.
Replacing(p) ==
  installer[p].pc = "unlink" \/ (installer[p].pc = "rename" /\ installer[p].replacing)

-----------------------------------------------------------------------------
\* _check_target: nothing there, or with --force a directory that holds a SKILL.md.
CheckTarget(p, force) ==
  /\ installer[p].pc = "off"
  /\ destination # NoTree => force /\ SkillMd \in destination.files
  /\ Goes(p, [Inactive EXCEPT !.pc = "copy", !.replacing = (destination # NoTree)])
  /\ UNCHANGED <<destination, trees, accidents>>

\* One file is copied into the staging directory, which only this process uses.
CopyFile(p) ==
  /\ installer[p].pc = "copy"
  /\ \E f \in Members \ installer[p].staged :
       LET staged == installer[p].staged \union {f}
       IN  Goes(p, [installer[p] EXCEPT !.staged = staged,
                      !.pc = IF staged # Members THEN "copy"
                             ELSE IF installer[p].replacing THEN "open" ELSE "rename"])
  /\ UNCHANGED <<destination, trees, accidents>>

\* shutil.rmtree: open the destination and list it; it may be gone.
OpenTree(p) ==
  /\ installer[p].pc = "open"
  /\ IF destination = NoTree THEN Cleanup(p) /\ UNCHANGED accidents
     ELSE /\ Goes(p, [installer[p] EXCEPT !.pc = "unlink", !.tree = destination.id,
                                          !.left = destination.files])
          /\ UNCHANGED <<destination, trees, accidents>>

(***************************************************************************)
(* The next file of the opened tree goes, wherever that tree is now.  One  *)
(* that somebody else removed is an error, or is passed over (Python 3.13).*)
(***************************************************************************)
Unlink(p) ==
  /\ installer[p].pc = "unlink"
  /\ \E f \in installer[p].left :
       LET here == /\ destination # NoTree
                   /\ destination.id = installer[p].tree /\ f \in destination.files
           passed == [installer[p] EXCEPT !.left = @ \ {f}]
       IN  /\ \A g \in installer[p].left : f \leq g
           /\ \/ /\ here
                 /\ destination' = [destination EXCEPT !.files = @ \ {f}]
                 /\ Goes(p, passed) /\ UNCHANGED <<trees, accidents>>
              \/ ~here /\ Cleanup(p) /\ UNCHANGED accidents
              \/ ~here /\ Goes(p, passed) /\ UNCHANGED <<destination, trees, accidents>>

\* The directory itself goes, by its path: it must be there and empty.
RemoveDirectory(p) ==
  /\ installer[p].pc = "unlink" /\ installer[p].left = {}
  /\ IF destination = NoTree \/ destination.files # {}
     THEN Cleanup(p) /\ UNCHANGED accidents
     ELSE /\ destination' = NoTree
          /\ Goes(p, [installer[p] EXCEPT !.pc = "rename"])
          /\ UNCHANGED <<trees, accidents>>

\* Faulty: whatever is there is replaced.
Anywhere == TRUE

\* rename(2) of a directory: onto nothing, or onto an empty directory.
Vacant == destination = NoTree \/ destination.files = {}

Rename(p) ==
  /\ installer[p].pc = "rename"
  /\ IF ~Vacant THEN Cleanup(p) /\ UNCHANGED accidents
     ELSE /\ trees < MaxTrees
          /\ trees' = trees + 1
          /\ destination' = [id |-> trees', files |-> installer[p].staged]
          /\ Goes(p, Inactive)
          /\ UNCHANGED accidents

\* A failure or a death counts if it cuts a removal short.
Counted(p) ==
  IF Replacing(p) THEN accidents < MaxAccidents /\ accidents' = accidents + 1
  ELSE UNCHANGED accidents

(***************************************************************************)
(* Any call may fail for a reason of its own (a permission, a full disk),  *)
(* and the user may interrupt anywhere: the same handler runs, wherever    *)
(* the process is, and what it has removed is not put back.                *)
(***************************************************************************)
Fails(p) ==
  /\ installer[p].pc # "off"
  /\ Cleanup(p) /\ Counted(p)

\* A process that dies leaves its staging directory, which the next of its name removes.
InstallerDies(p) ==
  /\ installer[p].pc # "off"
  /\ Goes(p, Inactive) /\ Counted(p)
  /\ UNCHANGED <<destination, trees>>

InstallNext ==
  \E p \in Installers :
    \/ \E force \in BOOLEAN : CheckTarget(p, force)
    \/ CopyFile(p)
    \/ OpenTree(p) \/ Unlink(p) \/ RemoveDirectory(p)
    \/ Rename(p) \/ Fails(p) \/ InstallerDies(p)

InstallSpec == InstallInit /\ [][InstallNext]_installVars

-----------------------------------------------------------------------------
(***************************************************************************)
(* A skill is installed in one piece: files appear at the destination only *)
(* where none was, all together.  So no agent ever loads a half copied     *)
(* skill or one mixed from two installs, and an install that somebody else *)
(* finished first is not overwritten by a rename.                          *)
(***************************************************************************)
InOnePiece ==
  [][ destination' # NoTree =>
        \/ destination # NoTree /\ destination'.id = destination.id
                                /\ destination'.files \subseteq destination.files
        \/ destination'.files = Members /\ (destination = NoTree \/ destination.files = {})
    ]_installVars

(***************************************************************************)
(* Of several installations that remove the same install, that fail on     *)
(* each other's removals and clean up after themselves, one brings its     *)
(* copy in: once the skill has been installed it is there, complete,       *)
(* whenever no installation is under way.  This is promised as long as no  *)
(* process failed for another reason, was interrupted or was killed        *)
(* between the first removal and its rename: then the handler leaves a     *)
(* partial destination, or none.  Before that it may fail or die freely.   *)
(***************************************************************************)
InstalledAtRest ==
  (\A p \in Installers : installer[p].pc = "off") /\ trees > 0 /\ accidents = 0 =>
    destination # NoTree /\ destination.files = Members
=============================================================================
