----------------------------- MODULE Maintainer -----------------------------
(***************************************************************************)
(* The Wiki Maintainer's driver (scripts/run_maintainer.py): ask the model *)
(* for a wiki change, keep its raw answer, apply it, and ask again with    *)
(* the validator's message if it is refused, MaxAttempts times in all.     *)
(* The process may die anywhere and be run again for the same iteration.   *)
(***************************************************************************)
EXTENDS Naturals

CONSTANTS
  MaxAttempts,  \* MAX_ATTEMPTS
  MaxResponses, \* bound: answers of the model
  NoText        \* no such file; nothing applied

ASSUME MaintainerConstants ==
  /\ MaxAttempts \in Nat \ {0} /\ MaxResponses \in Nat
  /\ NoText \notin Nat

VARIABLES
  loop,      \* the process: where it is, the attempt, and the response it holds
  attempts,  \* per attempt number, the response in maintainer-attempt-<n>.txt
  wiki,      \* the response apply-wiki committed, or NoText
  responses  \* bound counter; it numbers the responses

maintainerVars == <<loop, attempts, wiki, responses>>

Numbers == 1..MaxAttempts
NotRunning == [pc |-> "off", attempt |-> 0, text |-> NoText]

MaintainerInit ==
  /\ loop = NotRunning
  /\ attempts = [n \in Numbers |-> NoText]
  /\ wiki = NoText
  /\ responses = 0

\* sample_train is refused once the wiki is applied.
Launch ==
  /\ loop.pc \in {"off", "done", "failed"}
  /\ wiki = NoText
  /\ loop' = [NotRunning EXCEPT !.pc = "ask", !.attempt = 1]
  /\ UNCHANGED <<attempts, wiki, responses>>

Ask ==
  /\ loop.pc = "ask"
  /\ responses < MaxResponses
  /\ responses' = responses + 1
  /\ loop' = [loop EXCEPT !.pc = "keep", !.text = responses']
  /\ UNCHANGED <<attempts, wiki>>

\* Faulty: only a refused response is kept.
KeepLater ==
  /\ loop.pc = "keep"
  /\ loop' = [loop EXCEPT !.pc = "apply"]
  /\ UNCHANGED <<attempts, wiki, responses>>

\* The raw response is written before anybody looks at it.
KeepResponse ==
  /\ loop.pc = "keep"
  /\ attempts' = [attempts EXCEPT ![loop.attempt] = loop.text]
  /\ loop' = [loop EXCEPT !.pc = "apply"]
  /\ UNCHANGED <<wiki, responses>>

MayRetry(attempt) == attempt < MaxAttempts

\* A refused response: the next attempt, or the error.
Refused ==
  loop' = IF MayRetry(loop.attempt)
          THEN [loop EXCEPT !.pc = "ask", !.attempt = @ + 1, !.text = NoText]
          ELSE [loop EXCEPT !.pc = "failed", !.text = NoText]

(***************************************************************************)
(* workflow.apply_wiki: committed; refused (always, if the wiki is         *)
(* applied); or committed and reported as refused (see run tx_envelope).   *)
(***************************************************************************)
ApplyWiki ==
  /\ loop.pc = "apply"
  /\ \/ /\ wiki = NoText
        /\ wiki' = loop.text
        /\ \/ loop' = [loop EXCEPT !.pc = "done"]
           \/ Refused
     \/ Refused /\ UNCHANGED wiki
  /\ UNCHANGED <<attempts, responses>>

\* The model call raises, or the process is gone.
Killed ==
  /\ loop.pc \in {"ask", "keep", "apply"}
  /\ loop' = NotRunning
  /\ UNCHANGED <<attempts, wiki, responses>>

MaintainerNext == Launch \/ Ask \/ KeepResponse \/ ApplyWiki \/ Killed

MaintainerSpec == MaintainerInit /\ [][MaintainerNext]_maintainerVars

-----------------------------------------------------------------------------
(***************************************************************************)
(* "Every attempt's raw output is kept" (run_maintainer.py:100): what is   *)
(* in the wiki can be traced to a kept response, also when the process     *)
(* died after the commit, was told of a failure that was none, or had been *)
(* run before.                                                             *)
(***************************************************************************)
AppliedKept == wiki # NoText => \E n \in Numbers : attempts[n] = wiki
=============================================================================
