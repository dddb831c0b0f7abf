----------------------------- MODULE Automation -----------------------------
(***************************************************************************)
(* The automation manager (automation/manager.go).  A run of a task        *)
(* creates a session, submits the prompt, and watches the events of the    *)
(* session until its turn is complete; nobody is there to answer, so it    *)
(* cancels the questions of the turn.                                      *)
(*                                                                         *)
(* It is composed with the gateways, whose sessions are those of the runs, *)
(* and with the broker (broker/broker.go), which drops what a subscriber   *)
(* has no room for.  The turn is reduced to what the manager can see of    *)
(* it: questions, an error, the completion.                                *)
(***************************************************************************)
EXTENDS Gateways

CONSTANTS
    Tasks,       \* automations; each may be created once
    Buffer,      \* subscriberBuffer
    MaxCrashes   \* bound: restarts of the kernel

ASSUME BufferAssumption == Buffer \in Nat \ {0}
ASSUME CrashesAssumption == MaxCrashes \in Nat

Runs == Sessions   \* each run has a session of its own

VARIABLES
    status,     \* LastStatus of each task; "none" before it is created, then "gone"
    running,    \* running: the run whose cancel function is kept for each task
    of,         \* the task of each run
    step,       \* where the goroutine of each run is
    stopped,    \* runs whose context was cancelled
    runErr,     \* runs that have seen an error event
    stream,     \* the subscription of each run
    events,     \* its channel
    turn,       \* the turn of each run's session
    closing,    \* the kernel shuts down
    crashes,
    lost,       \* history variable: runs that missed an event
    silent,     \* history variable: runs whose turn failed before its first event
    inherited   \* history variable: tasks loaded with the status of an unfinished run

manager == <<status, running>>
watcher == <<of, step, stopped, runErr>>
broker  == <<stream, events, lost>>
session == <<turn, silent>>
kernel  == <<closing, crashes, inherited>>
autoVars == <<manager, watcher, broker, session, kernel>>
vars == <<gateVars, autoVars>>

Init ==
    /\ GateInit
    /\ status = [t \in Tasks |-> "none"] /\ running = [t \in Tasks |-> None]
    /\ of = [r \in Runs |-> None] /\ step = [r \in Runs |-> "none"]
    /\ stopped = {} /\ runErr = {}
    /\ stream = [r \in Runs |-> "none"] /\ events = [r \in Runs |-> <<>>]
    /\ turn = [r \in Runs |-> "none"]
    /\ closing = FALSE /\ crashes = 0
    /\ lost = {} /\ silent = {} /\ inherited = {}

-----------------------------------------------------------------------------
(***************************************************************************)
(* The tasks.  Every operation holds the manager's lock, and the file is   *)
(* written before it is released; writes that fail are not modelled.       *)
(***************************************************************************)

There(t) == status[t] \notin {"none", "gone"}

Create(t) ==
    /\ ~closing /\ status[t] = "none"
    /\ status' = [status EXCEPT ![t] = "idle"]
    /\ UNCHANGED <<running, watcher, broker, session, kernel, gateVars>>

\* The run that is registered for a task, as a set.
RunOf(t) == {running[t]} \ {None}

\* Mutant: an update resets the last status, as taskFromInput does.
UpdateAsNew(t, enabled) ==
    /\ ~closing /\ There(t)
    /\ status' = [status EXCEPT ![t] = "idle"]
    /\ stopped' = IF enabled THEN stopped ELSE stopped \cup RunOf(t)
    /\ UNCHANGED <<running, of, step, runErr, broker, session, kernel, gateVars>>

\* Update: the last status stays, and disabling a task cancels its run.
Update(t, enabled) ==
    /\ ~closing /\ There(t)
    /\ stopped' = IF enabled THEN stopped ELSE stopped \cup RunOf(t)
    /\ UNCHANGED <<manager, of, step, runErr, broker, session, kernel, gateVars>>

Delete(t) ==
    /\ ~closing /\ There(t)
    /\ status' = [status EXCEPT ![t] = "gone"]
    /\ stopped' = stopped \cup RunOf(t)
    /\ running' = [running EXCEPT ![t] = None]
    /\ UNCHANGED <<of, step, runErr, broker, session, kernel, gateVars>>

\* trigger, by hand or by cron: refused while a run of the task is registered.  Cron is
\* not asked whether the task is enabled, because a job that it has started waits for
\* the lock and may run after the task was disabled.
Trigger(t, r) ==
    /\ ~closing /\ There(t) /\ running[t] = None /\ step[r] = "none"
    /\ running' = [running EXCEPT ![t] = r]
    /\ status' = [status EXCEPT ![t] = "running"]
    /\ of' = [of EXCEPT ![r] = t] /\ step' = [step EXCEPT ![r] = "create"]
    /\ inherited' = inherited \ {t}
    /\ UNCHANGED <<stopped, runErr, broker, session, closing, crashes, gateVars>>

-----------------------------------------------------------------------------
(***************************************************************************)
(* The goroutine of a run.                                                 *)
(***************************************************************************)

\* Mutant: the run is not taken out of the map.
RecordOnly(r, verdict) ==
    /\ step' = [step EXCEPT ![r] = "done"]
    /\ status' = IF There(of[r]) THEN [status EXCEPT ![of[r]] = verdict] ELSE status
    /\ UNCHANGED running

\* finish: a task deleted meanwhile is left alone.
Finish(r, verdict) ==
    /\ step' = [step EXCEPT ![r] = "done"]
    /\ IF There(of[r])
       THEN /\ running' = [running EXCEPT ![of[r]] = None]
            /\ status' = [status EXCEPT ![of[r]] = verdict]
       ELSE UNCHANGED manager

NextTo(r, place) == step' = [step EXCEPT ![r] = place] /\ UNCHANGED manager

CreateSession(r) ==
    /\ step[r] = "create"
    /\ Finish(r, "failed") \/ NextTo(r, "subscribe")
    /\ UNCHANGED <<of, stopped, runErr, broker, session, kernel, gateVars>>

Subscribe(r) ==
    /\ step[r] = "subscribe"
    /\ stream' = [stream EXCEPT ![r] = "open"]
    /\ NextTo(r, "submit")
    /\ UNCHANGED <<of, stopped, runErr, events, lost, session, kernel, gateVars>>

\* Submit: refused for a session that is being deleted, or for its input.
Submit(r) ==
    /\ step[r] = "submit"
    /\ \/ Finish(r, "failed") /\ UNCHANGED turn
       \/ deletion[r] = "no" /\ NextTo(r, "watch") /\ turn' = [turn EXCEPT ![r] = "starting"]
    /\ UNCHANGED <<of, stopped, runErr, broker, silent, kernel, gateVars>>

\* select: the end of the context, or the stream, whichever is chosen.
NoticeStop(r) ==
    /\ step[r] = "watch"
    /\ \/ r \in stopped /\ Finish(r, "cancelled")
       \/ stream[r] = "closed" /\ events[r] = <<>> /\ Finish(r, "failed")
    /\ UNCHANGED <<of, stopped, runErr, broker, session, kernel, gateVars>>

Consume(r) == events' = [events EXCEPT ![r] = Tail(@)]
Sees(r, e) == step[r] = "watch" /\ events[r] # <<>> /\ Head(events[r]) = e

\* Mutant: the questions are left to the user.
SkipQuestion(r) ==
    /\ \E q \in Questions : Sees(r, q) /\ UNCHANGED gateVars
    /\ Consume(r)
    /\ UNCHANGED <<manager, watcher, stream, lost, session, kernel>>

\* CancelQuestions, for a batch that a client may have answered before.
CancelQuestion(r) ==
    /\ \E q \in Questions :
           /\ Sees(r, q)
           /\ \/ home[q] = r /\ ResolveQuestion(q, "cancelled")
              \/ ~(q \in pending /\ deletion[r] # "gone") /\ UNCHANGED gateVars
    /\ Consume(r)
    /\ UNCHANGED <<manager, watcher, stream, lost, session, kernel>>

SeeEvent(r) ==
    /\ \/ Sees(r, "error") /\ runErr' = runErr \cup {r}
       \/ Sees(r, "other") /\ UNCHANGED runErr
    /\ Consume(r)
    /\ UNCHANGED <<manager, of, step, stopped, stream, lost, session, kernel, gateVars>>

SeeComplete(r) ==
    /\ Sees(r, "complete")
    /\ Finish(r, IF r \in runErr THEN "failed" ELSE "completed")
    /\ Consume(r)
    /\ UNCHANGED <<of, stopped, runErr, stream, lost, session, kernel, gateVars>>

-----------------------------------------------------------------------------
(***************************************************************************)
(* The broker, and the turn as far as its events show it.  The turn runs   *)
(* under a context of its own (queue.go, createRunnerLocked).              *)
(***************************************************************************)

\* The end of the run's context closes its channel.
CloseStream(r) ==
    /\ stream[r] = "open" /\ r \in stopped
    /\ stream' = [stream EXCEPT ![r] = "closed"]
    /\ UNCHANGED <<manager, watcher, events, lost, session, kernel, gateVars>>

\* An event for a full channel is dropped, a critical one after a short wait.
Emit(r, e) ==
    LET fits == Len(events[r]) < Buffer IN
    /\ events' = IF stream[r] = "open" /\ fits
                 THEN [events EXCEPT ![r] = Append(@, e)] ELSE events
    /\ lost' = IF stream[r] = "open" /\ ~fits THEN lost \cup {r} ELSE lost
    /\ UNCHANGED stream

TurnStarts(r) ==
    /\ turn[r] = "starting"
    /\ \/ turn' = [turn EXCEPT ![r] = "live"] /\ UNCHANGED silent
       \/ turn' = [turn EXCEPT ![r] = "ended"] /\ silent' = silent \cup {r}
    /\ UNCHANGED <<manager, watcher, broker, kernel, gateVars>>

TurnAsks(q, r) ==
    /\ turn[r] = "live" /\ Ask(q, r)
    /\ UNCHANGED autoVars

PublishQuestion(q) ==
    /\ Publish(q) /\ Emit(home[q], q)
    /\ UNCHANGED <<manager, watcher, session, kernel>>

TurnReports(r, e) ==
    /\ turn[r] = "live" /\ e = "error" => InsideOf(r) = {}
    /\ turn[r] = "live" /\ Emit(r, e)
    /\ turn' = IF e = "error" THEN [turn EXCEPT ![r] = "failing"] ELSE turn
    /\ UNCHANGED <<manager, watcher, silent, kernel, gateVars>>

TurnEnds(r) ==
    /\ turn[r] \in {"live", "failing"} /\ InsideOf(r) = {}
    /\ Emit(r, "complete")
    /\ turn' = [turn EXCEPT ![r] = "ended"]
    /\ UNCHANGED <<manager, watcher, silent, kernel, gateVars>>

-----------------------------------------------------------------------------
(***************************************************************************)
(* The end of the kernel, and its start.                                   *)
(***************************************************************************)

\* Close: the server is down already, so nothing is triggered any more.
Close ==
    /\ ~closing /\ closing' = TRUE
    /\ stopped' = stopped \cup UNION {RunOf(t) : t \in Tasks}
    /\ running' = [t \in Tasks |-> None]
    /\ UNCHANGED <<status, of, step, runErr, broker, session, crashes, inherited, gateVars>>

\* load, after a crash or a shutdown: the tasks are as stored, every goroutine is gone.
Load ==
    /\ crashes < MaxCrashes /\ crashes' = crashes + 1 /\ closing' = FALSE
    /\ Restart
    /\ running' = [t \in Tasks |-> None]
    /\ inherited' = {t \in Tasks : status[t] = "running"}
    /\ step' = [r \in Runs |-> IF step[r] = "none" THEN "none" ELSE "done"]
    /\ turn' = [r \in Runs |-> IF turn[r] = "none" THEN "none" ELSE "ended"]
    /\ stream' = [r \in Runs |-> "none"] /\ events' = [r \in Runs |-> <<>>]
    /\ UNCHANGED <<status, of, stopped, runErr, lost, silent>>

-----------------------------------------------------------------------------
RunStep(r) ==
    \/ CreateSession(r) \/ Subscribe(r) \/ Submit(r)
    \/ NoticeStop(r) \/ CancelQuestion(r) \/ SeeEvent(r) \/ SeeComplete(r)

TurnStep(r) == TurnStarts(r) \/ TurnEnds(r)

\* What the gateways do with the questions of a run's turn.
AskerStep(q) == Receive(q) \/ Leave(q) \/ GiveUp(q)
GatewayStep ==
    \/ \E q \in Questions : AskerStep(q) \/ EndContext(q)
    \/ \E q \in Questions : ResolveQuestion(q, "answered")
    \/ \E m \in Resolution : Send(m)
    \/ \E r \in Runs : \/ step[r] \notin {"none", "create"} /\ StopSession(r)
                       \/ DeletionStep(r)

Next ==
    \/ \E t \in Tasks : Create(t) \/ Delete(t) \/ \E r \in Runs : Trigger(t, r)
    \/ \E t \in Tasks, enabled \in BOOLEAN : Update(t, enabled)
    \/ \E r \in Runs : RunStep(r) \/ TurnStep(r) \/ CloseStream(r)
    \/ \E q \in Questions, r \in Runs : TurnAsks(q, r)
    \/ \E q \in Questions : PublishQuestion(q)
    \/ \E r \in Runs, e \in {"error", "other"} : TurnReports(r, e)
    \/ GatewayStep /\ UNCHANGED autoVars
    \/ Close \/ Load

Spec == Init /\ [][Next]_vars

\* Fairness: goroutines go on, and a turn that waits for nobody ends.
Fairness ==
    /\ \A r \in Runs : WF_vars(RunStep(r)) /\ WF_vars(TurnStep(r))
    /\ \A q \in Questions : /\ WF_vars(PublishQuestion(q))
                            /\ WF_vars(AskerStep(q) /\ UNCHANGED autoVars)
    /\ \A m \in Resolution : WF_vars(Send(m) /\ UNCHANGED autoVars)

FairSpec == Spec /\ Fairness

-----------------------------------------------------------------------------
(***************************************************************************)
(* Properties.                                                             *)
(***************************************************************************)

Active(r) == step[r] \notin {"none", "done"}

\* A task says it is running exactly while a goroutine watches a run of it, and no two
\* do: a trigger cannot be refused for a run that is over (a status that an unfinished
\* run left in the file before a restart excepted).
RunningIsReal ==
    \A t \in Tasks : There(t) /\ ~closing =>
        /\ {r \in Runs : of[r] = t /\ Active(r)}
               = IF running[t] = None THEN {} ELSE {running[t]}
        /\ status[t] = "running" => running[t] # None \/ t \in inherited
        /\ running[t] # None => status[t] = "running"

\* Every run ends, although nobody answers the questions of its turn, unless the broker
\* dropped an event of it or its turn failed before the first one.
RunsEnd == \A r \in Runs : Active(r) ~> ~Active(r) \/ r \in lost \cup silent

\* The documentation (automation.md): an automation does not run concurrently, and
\* disabling or deleting it cancels the turn of its session.
NeverConcurrent ==
    \A t \in Tasks :
        Cardinality({r \in Runs : of[r] = t /\ turn[r] \in {"starting", "live", "failing"}}) <= 1
=============================================================================
