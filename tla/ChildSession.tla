---------------------------- MODULE ChildSession ----------------------------
(***************************************************************************)
(* A child session, created by the sub-agent manager: its task runs by     *)
(* engine.RunTurn (internal/subagent/execution.go), which registers with   *)
(* the engine and passes the turn scheduler by.  The scheduler still takes *)
(* the messages a user submits to the child.                               *)
(***************************************************************************)
EXTENDS TurnScheduler

\* The task of the sub-agent becomes a turn of the session; from here on the
\* steps of engine.runTurn are those of TurnScheduler, and LoopExit, which finds
\* another runner or none, is its return to the sub-agent manager.
SubagentTurn(t) ==
    /\ t \notin accepted
    /\ slot = None
    /\ slot' = t
    /\ pc' = [pc EXCEPT ![t] = "registered"]
    /\ cur' = [cur EXCEPT ![t] = t]
    /\ accepted' = accepted \cup {t}
    /\ UNCHANGED <<sched, dones, cause, disk, op, removed, served, dropped>>

ChildNext == Next \/ \E t \in Msgs : SubagentTurn(t)

ChildSpec == Init /\ [][ChildNext]_vars

\* queue.go:125: a submitted message starts when the session is idle, and while
\* a turn is active it is appended to the queue; so none is taken and then
\* refused by the engine.  SubmitInput asks the scheduler's maps only, which know
\* nothing of a sub-agent's turn, and runTurnLoop drops the error.
SubmittedTurnStarts == dropped = {}
=============================================================================
