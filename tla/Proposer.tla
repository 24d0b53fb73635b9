------------------------------ MODULE Proposer ------------------------------
(***************************************************************************)
(* The Skill Proposer's detective mode (scripts/run_proposer.py,           *)
(* run_detective): the model reads files of a virtual file system by tool  *)
(* calls, several in a turn if it likes, and ends with a call of finish,   *)
(* which needs MinTraces different traces read and every cited trace among *)
(* them.  The reads are logged in memory and written at the end.           *)
(***************************************************************************)
EXTENDS Naturals, Sequences, FiniteSets

CONSTANTS
  Traces,      \* trace files of the virtual file system
  Unknown,     \* a path that is not in it
  MinTraces,   \* MIN_TRACES_READ
  RetryBudget, \* FINISH_RETRY_BUDGET
  MaxTurns,    \* max_turns
  MaxCalls,    \* bound: tool calls in one turn
  NoLog        \* no reads log on disk

ASSUME ProposerConstants ==
  /\ IsFiniteSet(Traces) /\ Unknown \notin Traces
  /\ MinTraces \in Nat /\ RetryBudget \in Nat /\ MaxTurns \in Nat /\ MaxCalls \in Nat

VARIABLES
  session, \* the loop: turn, calls left in the turn, traces read, log, finish attempts
  readsLog, \* proposer-reads-log.json, or NoLog
  result   \* how it ended, and with which citations

proposerVars == <<session, readsLog, result>>

Running == [end |-> "running", cited |-> {}]

ProposerInit ==
  /\ session = [turn |-> 1, calls |-> 0, read |-> {}, log |-> <<>>, finishes |-> 0]
  /\ readsLog = NoLog
  /\ result = Running

Active == result = Running

\* The model is asked: the next request is due, within the turn cap.
Asked == Active /\ session.calls = 0 /\ session.turn \leq MaxTurns

\* A response without a tool call is a turn spent.
Stall ==
  /\ Asked
  /\ session' = [session EXCEPT !.turn = @ + 1]
  /\ UNCHANGED <<readsLog, result>>

\* A response with n tool calls, which are handled in their order.
Respond(n) ==
  /\ Asked
  /\ session' = [session EXCEPT !.calls = n]
  /\ UNCHANGED <<readsLog, result>>

\* One call of the turn is answered; with the last one the next turn begins.
Answered(s) ==
  [s EXCEPT !.calls = @ - 1, !.turn = IF s.calls = 1 THEN @ + 1 ELSE @]

Calling == Active /\ session.calls > 0

\* read_file: a path of the file system counts as read, any other is refused; both are logged.
ReadFile(path) ==
  /\ Calling
  /\ session' = [Answered(session) EXCEPT
                   !.read = IF path \in Traces THEN @ \union {path} ELSE @,
                   !.log = Append(@, path)]
  /\ UNCHANGED <<readsLog, result>>

\* A call of a tool that does not exist is answered and forgotten.
UnknownTool ==
  /\ Calling
  /\ session' = Answered(session)
  /\ UNCHANGED <<readsLog, result>>

\* Faulty: reads are counted, not the traces read.
EnoughReads == Len(session.log) \geq MinTraces

EnoughRead == Cardinality(session.read) \geq MinTraces

\* _finish_failure accepts: citations, enough traces, none cited that was not read.
Acceptable(cited) == cited # {} /\ EnoughRead /\ cited \subseteq session.read

End(how, cited) ==
  /\ result' = [end |-> how, cited |-> cited]
  /\ readsLog' = session.log

(***************************************************************************)
(* finish: the proposal goes to apply_proposal, is refused once, or ends   *)
(* the session.                                                            *)
(***************************************************************************)
Finish(cited) ==
  /\ Calling
  /\ LET finishes == session.finishes + 1
     IN  \/ /\ Acceptable(cited)
            /\ End("proposed", cited)
            /\ session' = [session EXCEPT !.finishes = finishes]
         \/ /\ ~Acceptable(cited) /\ finishes > RetryBudget
            /\ End("refused", {})
            /\ session' = [session EXCEPT !.finishes = finishes]
         \/ /\ ~Acceptable(cited) /\ finishes \leq RetryBudget
            /\ session' = [Answered(session) EXCEPT !.finishes = finishes]
            /\ UNCHANGED <<readsLog, result>>

\* Faulty: the loop runs out without an error if something was read.
CapIfIdle ==
  /\ Active /\ session.turn > MaxTurns /\ session.read = {}
  /\ End("capped", {})
  /\ UNCHANGED session

\* The turns are used up: an error.
TurnCap ==
  /\ Active /\ session.turn > MaxTurns
  /\ End("capped", {})
  /\ UNCHANGED session

\* Malformed tool arguments or a failed request raise at once; nothing is written.
Raise ==
  /\ Asked \/ Calling
  /\ result' = [end |-> "raised", cited |-> {}]
  /\ UNCHANGED <<session, readsLog>>

ProposerNext ==
  \/ Stall \/ UnknownTool \/ TurnCap \/ Raise
  \/ \E n \in 1..MaxCalls : Respond(n)
  \/ \E path \in Traces \union {Unknown} : ReadFile(path)
  \/ \E cited \in SUBSET (Traces \union {Unknown}) : Finish(cited)

ProposerSpec ==
  /\ ProposerInit /\ [][ProposerNext]_proposerVars
  /\ WF_proposerVars(ProposerNext)

-----------------------------------------------------------------------------
(***************************************************************************)
(* Properties.                                                             *)
(***************************************************************************)

(***************************************************************************)
(* A proposal that is handed on rests on MinTraces different traces the    *)
(* model has read, whatever it read twice or asked for in vain, and cites  *)
(* only those; with fewer traces in the domain nothing is ever proposed.   *)
(***************************************************************************)
ProposedOnTraces ==
  result.end = "proposed" =>
    \E S \in SUBSET Traces :
      /\ Cardinality(S) \geq MinTraces
      /\ S \subseteq {session.log[i] : i \in 1..Len(session.log)}
      /\ result.cited # {} /\ result.cited \subseteq S

\* The session ends, whatever the model answers.
SessionEnds == <>(result # Running)
=============================================================================
