----------------------------- MODULE MCPrograms -----------------------------
(***************************************************************************)
(* The programs around the lifecycle on small instances.  They share no    *)
(* state, so one run serves them all: which of them moves is chosen in the *)
(* initial state, and its state space is the sum of theirs.                *)
(***************************************************************************)
EXTENDS Rollout, Maintainer, Proposer, Mirror, SkillInstall

CONSTANTS x, y, z

VARIABLE subject

programVars == <<rolloutVars, maintainerVars, proposerVars, mirrorVars, installVars, subject>>

ThreeTasks == 1..3
TwoMembers == 1..2
ThreeSkills == 1..3
ThreeTraces == {x, y, z}

\* Three skills: the second drops a file and changes the other, the third drops that one.
TwoFiles == {x, y}
SkillContent ==
  << [f \in TwoFiles |-> 1],
     [f \in TwoFiles |-> IF f = x THEN 2 ELSE NoFile],
     [f \in TwoFiles |-> IF f = x THEN NoFile ELSE 3] >>

ProgramsInit ==
  /\ RolloutInit /\ MaintainerInit /\ ProposerInit /\ MirrorInit /\ InstallInit
  /\ subject \in {"rollout", "maintainer", "proposer", "mirror", "install"}

RolloutMoves ==
  /\ subject = "rollout" /\ RolloutNext
  /\ UNCHANGED <<maintainerVars, proposerVars, mirrorVars, installVars, subject>>

MaintainerMoves ==
  /\ subject = "maintainer" /\ MaintainerNext
  /\ UNCHANGED <<rolloutVars, proposerVars, mirrorVars, installVars, subject>>

ProposerMoves ==
  /\ subject = "proposer" /\ ProposerNext
  /\ UNCHANGED <<rolloutVars, maintainerVars, mirrorVars, installVars, subject>>

RebuilderMoves(p) ==
  /\ subject = "mirror" /\ Rebuild(p)
  /\ UNCHANGED <<rolloutVars, maintainerVars, proposerVars, installVars, subject>>

MirrorMoves ==
  /\ subject = "mirror" /\ MirrorNext
  /\ UNCHANGED <<rolloutVars, maintainerVars, proposerVars, installVars, subject>>

InstallMoves ==
  /\ subject = "install" /\ InstallNext
  /\ UNCHANGED <<rolloutVars, maintainerVars, proposerVars, mirrorVars, subject>>

ProgramsNext ==
  RolloutMoves \/ MaintainerMoves \/ ProposerMoves \/ MirrorMoves \/ InstallMoves

\* A session of the proposer goes on by itself; the mirror is rebuilt again and again.
ProgramsSpec ==
  /\ ProgramsInit /\ [][ProgramsNext]_programVars
  /\ WF_programVars(ProposerMoves)
  /\ \A p \in Rebuilders : WF_programVars(RebuilderMoves(p))

-----------------------------------------------------------------------------
\* Module Proposer: however the model answers, the session of a proposer that runs ends.
ProposerEnds == subject = "proposer" => SessionEnds

\* Module Mirror: a mirror that is rebuilt again and again becomes the active skill.
MirrorSettles == subject = "mirror" => MirrorCatchesUp
=============================================================================
