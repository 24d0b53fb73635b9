----------------------------- MODULE MCWorkflow -----------------------------
(***************************************************************************)
(* Workflow on small instances.                                            *)
(***************************************************************************)
EXTENDS Workflow, TLC

Symmetric == Permutations(Clients) \union Permutations(Candidates)

\* One iteration with every kind of rollout.
WholeAnswers ==
  [phase \in Phases |->
     CASE phase = "baseline" -> {0, Invalid}
       [] phase = "train" -> {0, 1, Invalid}
       [] phase \in {"val", "val_confirm"} -> {0, 1, Invalid}
       [] phase \in Tests -> {0, Invalid}]

\* Two iterations: a train run that fails or answers, validation runs that lose
\* or win, one test.
LongAnswers ==
  [phase \in Phases |->
     CASE phase = "baseline" -> {0}
       [] phase \in {"train", "val_confirm"} -> {1, Invalid}
       [] phase = "val" -> {1, 2, Invalid}
       [] phase = "test-final" -> {0, Invalid}
       [] phase = "test-baseline" -> {}]

\* The evolution without failed runs.
RaceAnswers ==
  [phase \in Phases |->
     CASE phase = "baseline" -> {0}
       [] phase = "train" -> {1}
       [] phase = "val" -> {0, 1}
       [] phase = "val_confirm" -> {1}
       [] phase \in Tests -> {}]

\* Only the ingest of a confirmation and the gate may be held while others act;
\* every other draft is committed or dropped in the next step.
Slow(draft) == draft.op = "gate" \/ (draft.op = "ingest" /\ draft.arg.phase = "val_confirm")
SlowOnly ==
  \A c \in Clients : pending[c] # Idle /\ ~Slow(pending[c]) => pending'[c] = Idle
=============================================================================
