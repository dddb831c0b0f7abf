------------------------------- MODULE TurnLoop -------------------------------
(***************************************************************************)
(* The turns of one session, from the user's message to turn_complete:     *)
(* internal/agent/turn.go, with the execution of the tool calls of a model *)
(* response (tool_execution.go) and the protection against loops           *)
(* (loopguard.go).  The model, the tools and the hooks answer anything.    *)
(*                                                                         *)
(* The history holds the messages the event log persists.  A write under   *)
(* the context of the turn is lost once that context has ended             *)
(* (conversation/store.go), so the code takes a detached context when it   *)
(* sees the end: the choice and the write are two steps here, because a    *)
(* stop may come between them.  At most one turn runs at a time:           *)
(* TurnScheduler checks that.                                              *)
(***************************************************************************)
EXTENDS Naturals, Sequences, FiniteSets, SequencesExt

CONSTANTS
    Tools,          \* what a call may be: a tool with its arguments (callSig)
    ParallelTools,  \* those that may run side by side
    MaxParallel,    \* maxParallelToolCalls
    MaxSteps,       \* model requests of a turn; 0 is unlimited
    GateThreshold,  \* loopGateThreshold
    RepeatWindow,   \* repeatWindowSize
    RepeatMax,      \* repeatMaxCount
    HookAnswers,    \* what a configured hook may decide: "allow", "deny", "halt"
    StopReasons,    \* causes a context is cancelled with
    MaxCalls,       \* bound: calls of one model response
    MaxTurns,       \* bound: turns of the session
    MaxCrashes      \* bound: crashes of the kernel

ASSUME ToolsAssumption == ParallelTools \subseteq Tools
ASSUME LimitsAssumption ==
    /\ {MaxParallel, GateThreshold, RepeatMax} \subseteq Nat \ {0}
    /\ {MaxSteps, RepeatWindow, MaxCalls, MaxTurns, MaxCrashes} \subseteq Nat
ASSUME ReasonsAssumption == "live" \notin StopReasons

VARIABLES
    pc,          \* where the turn is
    turns,       \* turns submitted so far
    ctx,         \* context of the turn: "live" or the cause it was cancelled with
    step,        \* model requests of the turn, counted when they are limited
    partial,     \* the response has text or reasoning
    calls,       \* the calls of the response, in model order
    finish,      \* its finish reason
    draft,       \* the message about to be written
    detached,    \* whether it is written under a detached context
    overflowRecoveryUsed, stopHookBlocked, terminalAssistantRecorded,
    phase,       \* each call: "waiting", "running" or "ended"
    output,      \* what each call answered
    toolCancelled,   \* calls the user cancelled while they ran
    terminate,   \* a hook halted the turn during these calls
    collected,   \* results written so far
    lastFail, failStreak, window,   \* the loop guard of the turn
    verdict,     \* the status the turn completes with
    history,     \* messages in the log
    completions, \* turn_complete events of each turn
    started,     \* turns with a turn_started event
    crashed      \* turns that a crash of the kernel ended

request == <<step, partial, calls, finish, overflowRecoveryUsed, stopHookBlocked>>
wave    == <<phase, output, toolCancelled, terminate, collected>>
guard   == <<lastFail, failStreak, window>>
write   == <<draft, detached, terminalAssistantRecorded>>
log     == <<history, completions, started, crashed>>
vars    == <<pc, turns, ctx, request, wave, guard, write, verdict, log>>

Message(role, n, call, status, why) ==
    [turn |-> turns, role |-> role, calls |-> n, call |-> call,
     status |-> status, finish |-> why]

\* A final message of the assistant, and one that keeps the calls of the response.
Final(status) == Message("assistant", 0, 0, status, "none")
Asking == Message("assistant", Len(calls), 0, "none", finish)

Init ==
    /\ pc = "idle" /\ turns = 0 /\ ctx = "live" /\ step = 0
    /\ partial = FALSE /\ calls = <<>> /\ finish = "none"
    /\ draft = <<>> /\ detached = FALSE
    /\ overflowRecoveryUsed = FALSE /\ stopHookBlocked = FALSE
    /\ terminalAssistantRecorded = FALSE
    /\ phase = <<>> /\ output = <<>> /\ toolCancelled = {}
    /\ terminate = FALSE /\ collected = 0
    /\ lastFail = "none" /\ failStreak = 0 /\ window = <<>>
    /\ verdict = "none"
    /\ history = <<>> /\ completions = [t \in 1 .. MaxTurns |-> <<>>]
    /\ started = {} /\ crashed = {}

-----------------------------------------------------------------------------
(***************************************************************************)
(* How a turn ends.                                                        *)
(***************************************************************************)

\* The goroutine of the turn returns: its local state is gone, the log stays.
Forget ==
    /\ pc' = "idle" /\ ctx' = "live" /\ verdict' = "none" /\ step' = 0
    /\ partial' = FALSE /\ calls' = <<>> /\ finish' = "none"
    /\ overflowRecoveryUsed' = FALSE /\ stopHookBlocked' = FALSE
    /\ draft' = <<>> /\ detached' = FALSE /\ terminalAssistantRecorded' = FALSE
    /\ phase' = <<>> /\ output' = <<>> /\ toolCancelled' = {}
    /\ terminate' = FALSE /\ collected' = 0
    /\ lastFail' = "none" /\ failStreak' = 0 /\ window' = <<>>

\* The status that the context of the turn implies.
FromContext == IF ctx = "live" THEN "completed" ELSE "cancelled"

CompleteTurn(status) == pc' = "completing" /\ verdict' = status

\* Mutant: the loop returns without completing the turn.
ReturnAfterError ==
    IF ctx = "live" THEN pc' = "idle" /\ verdict' = "none" ELSE CompleteTurn("cancelled")

\* An error completes the turn as failed, unless the turn was cancelled.
CompleteAfterError ==
    CompleteTurn(IF ctx = "live" THEN "failed" ELSE "cancelled")

\* A cancelled turn without a final message gets an empty one that says so.
Complete ==
    /\ pc = "completing"
    /\ history' = IF verdict = "cancelled" /\ ~terminalAssistantRecorded
                  THEN Append(history, Final("cancelled"))
                  ELSE history
    /\ completions' = [completions EXCEPT ![turns] = Append(@, verdict)]
    /\ Forget
    /\ UNCHANGED <<turns, started, crashed>>

\* Stop, deletion of the session, dispatch of a queued message: the first cause stays.
Cancel(reason) ==
    /\ pc # "idle" /\ ctx = "live"
    /\ ctx' = reason
    /\ UNCHANGED <<pc, turns, request, wave, guard, write, verdict, log>>

\* A crash loses the turn and all but the log.  The sessions start idle again.
Crash ==
    /\ pc # "idle" /\ Cardinality(crashed) < MaxCrashes
    /\ crashed' = crashed \cup {turns}
    /\ Forget
    /\ UNCHANGED <<turns, history, completions, started>>

-----------------------------------------------------------------------------
(***************************************************************************)
(* How a turn begins.                                                      *)
(***************************************************************************)

Submit ==
    /\ pc = "idle" /\ turns < MaxTurns
    /\ turns' = turns + 1 /\ pc' = "admit"
    /\ UNCHANGED <<ctx, request, wave, guard, write, verdict, log>>

\* The workspace cannot be resolved: the turn leaves no trace at all.
NoWorkspace ==
    /\ pc = "admit"
    /\ Forget
    /\ UNCHANGED <<turns, log>>

\* An unknown skill, or a hook that denies the message: it is not recorded.
Refuse ==
    /\ pc = "admit"
    /\ CompleteTurn("failed")
    /\ UNCHANGED <<turns, ctx, request, wave, guard, write, log>>

RecordUser ==
    /\ pc = "admit"
    /\ history' = Append(history, Message("user", 0, 0, "none", "none"))
    /\ started' = started \cup {turns}
    /\ pc' = "prepare"
    /\ UNCHANGED <<turns, ctx, request, wave, guard, write, verdict, completions, crashed>>

-----------------------------------------------------------------------------
(***************************************************************************)
(* One model request.                                                      *)
(***************************************************************************)

\* step++: the loop ends once the limit is reached.
NextStep == /\ pc' = "prepare"
            /\ step' = IF MaxSteps = 0 THEN step ELSE step + 1

StepsLeft == MaxSteps = 0 \/ step < MaxSteps

\* prepareModelRequest and materializeProviderMessages read the log and may fail.
Prepare ==
    /\ pc = "prepare"
    /\ \/ ~StepsLeft /\ CompleteTurn("completed")
       \/ StepsLeft /\ pc' = "stream" /\ UNCHANGED verdict
       \/ StepsLeft /\ CompleteAfterError
    /\ UNCHANGED <<turns, ctx, request, wave, guard, write, log>>

OpenStream ==
    /\ pc = "stream"
    /\ partial' = FALSE /\ calls' = <<>> /\ finish' = "none"
    /\ \/ pc' = "receive" /\ UNCHANGED verdict
       \/ ctx = "live" /\ ~overflowRecoveryUsed /\ pc' = "recover" /\ UNCHANGED verdict
       \/ CompleteAfterError
    /\ UNCHANGED <<turns, ctx, step, overflowRecoveryUsed, stopHookBlocked, wave, guard,
                   write, log>>

\* Mutant: that the recovery was used is not remembered.
RecoverAgain ==
    /\ pc = "recover"
    /\ \/ ctx = "live" /\ pc' = "prepare" /\ UNCHANGED verdict
       \/ CompleteTurn("failed")
    /\ UNCHANGED <<turns, ctx, step, partial, calls, finish, overflowRecoveryUsed,
                   stopHookBlocked, wave, guard, write, log>>

\* The provider said the context was too long: compact and repeat the step, once a turn.
\* A compaction that fails ends the turn, also when it failed because of a stop.
Recover ==
    /\ pc = "recover"
    /\ \/ /\ ctx = "live"
          /\ overflowRecoveryUsed' = TRUE /\ pc' = "prepare" /\ UNCHANGED verdict
       \/ CompleteTurn("failed") /\ UNCHANGED overflowRecoveryUsed
    /\ UNCHANGED <<turns, ctx, step, partial, calls, finish, stopHookBlocked, wave, guard,
                   write, log>>

ReceiveText ==
    /\ pc = "receive" /\ ~partial
    /\ partial' = TRUE
    /\ UNCHANGED <<pc, turns, ctx, step, calls, finish, overflowRecoveryUsed,
                   stopHookBlocked, wave, guard, write, verdict, log>>

ReceiveCall(tool) ==
    /\ pc = "receive" /\ Len(calls) < MaxCalls
    /\ calls' = Append(calls, tool)
    /\ UNCHANGED <<pc, turns, ctx, step, partial, finish, overflowRecoveryUsed,
                   stopHookBlocked, wave, guard, write, verdict, log>>

\* A stream that fails because of a stop leaves what it had as a cancelled message.
StreamStopped ==
    /\ pc = "receive" /\ ctx # "live"
    /\ LET kept == partial /\ ~terminalAssistantRecorded IN
       /\ history' = IF kept THEN Append(history, Final("cancelled")) ELSE history
       /\ terminalAssistantRecorded' = (terminalAssistantRecorded \/ kept)
    /\ CompleteTurn("cancelled")
    /\ UNCHANGED <<turns, ctx, request, wave, guard, draft, detached, completions,
                   started, crashed>>

\* Any other failure: an overflow is recovered while nothing was received yet.
StreamFails ==
    /\ pc = "receive" /\ ctx = "live"
    /\ \/ /\ ~overflowRecoveryUsed /\ ~partial /\ calls = <<>>
          /\ pc' = "recover" /\ UNCHANGED verdict
       \/ CompleteTurn("failed")
    /\ UNCHANGED <<turns, ctx, request, wave, guard, write, log>>

\* The stream ends with a finish reason, or at once when the context has ended.
StreamEnds(reason) ==
    /\ pc = "receive"
    /\ reason = "none" => ctx # "live"
    /\ finish' = reason /\ pc' = "record"
    /\ UNCHANGED <<turns, ctx, step, partial, calls, overflowRecoveryUsed,
                   stopHookBlocked, wave, guard, write, verdict, log>>

-----------------------------------------------------------------------------
(***************************************************************************)
(* The response is recorded.                                               *)
(***************************************************************************)

\* The message keeps its calls unless the turn was stopped before the model asked for them.
DraftAssistant ==
    /\ pc = "record"
    /\ LET keepsCalls == calls # <<>> /\ (ctx = "live" \/ finish = "tool_calls") IN
       /\ draft' = IF keepsCalls THEN Asking ELSE Final(FromContext)
       /\ terminalAssistantRecorded' = (terminalAssistantRecorded \/ ~keepsCalls)
    /\ detached' = (ctx # "live")
    /\ pc' = "record_write"
    /\ UNCHANGED <<turns, ctx, request, wave, guard, verdict, log>>

\* A write under the context of the turn is lost when that has ended.
Written(message) ==
    IF detached \/ ctx = "live" THEN Append(history, message) ELSE history

WriteAssistant ==
    /\ pc = "record_write"
    /\ history' = Written(draft)
    /\ \/ ctx # "live" /\ CompleteTurn("cancelled")
       \/ /\ ctx = "live" /\ UNCHANGED verdict
          /\ pc' = IF finish = "tool_calls" /\ calls # <<>> THEN "tools" ELSE "stop_hook"
    /\ UNCHANGED <<turns, ctx, request, wave, guard, write, completions, started, crashed>>

\* The stop hook may deny the end of the turn once: its reason becomes a message.
StopHook ==
    /\ pc = "stop_hook"
    /\ \/ /\ stopHookBlocked \/ HookAnswers \cap {"allow", "halt"} # {}
          /\ CompleteTurn("completed")
          /\ UNCHANGED <<step, stopHookBlocked, history>>
       \/ /\ ~stopHookBlocked /\ "deny" \in HookAnswers
          /\ stopHookBlocked' = TRUE
          /\ history' = IF ctx = "live"
                        THEN Append(history, Message("system", 0, 0, "none", "none"))
                        ELSE history
          /\ NextStep /\ UNCHANGED verdict
    /\ UNCHANGED <<turns, ctx, partial, calls, finish, overflowRecoveryUsed, wave, guard,
                   write, completions, started, crashed>>

-----------------------------------------------------------------------------
(***************************************************************************)
(* The calls of a response.  Parallel tools share a bounded lane, the      *)
(* others run one by one in model order.                                   *)
(***************************************************************************)

Each == DOMAIN calls
Parallel(i) == calls[i] \in ParallelTools

StartTools ==
    /\ pc = "tools"
    /\ phase' = [i \in Each |-> "waiting"]
    /\ output' = [i \in Each |-> "none"]
    /\ pc' = "running"
    /\ UNCHANGED <<turns, ctx, request, toolCancelled, terminate, collected, guard, write,
                   verdict, log>>

\* Mutant: the sequential calls do not wait for each other.
HasLaneAtOnce(i) ==
    Parallel(i) => \/ Cardinality({j \in Each : Parallel(j) /\ phase[j] = "running"}) < MaxParallel
                   \/ ctx # "live"

\* The turn of call i in its lane.  A parallel call does not wait for a slot after a stop.
HasLane(i) ==
    IF Parallel(i)
    THEN \/ Cardinality({j \in Each : Parallel(j) /\ phase[j] = "running"}) < MaxParallel
         \/ ctx # "live"
    ELSE \A j \in 1 .. i - 1 : ~Parallel(j) => phase[j] = "ended"

Gated(i) == calls[i] = lastFail /\ failStreak >= GateThreshold - 1

EndCall(i, answer) ==
    /\ phase' = [phase EXCEPT ![i] = "ended"]
    /\ output' = [output EXCEPT ![i] = answer]

\* Mutant: a stop does not answer the calls that have not begun.
SkipLiveCall(i) ==
    /\ pc = "running" /\ i \in Each /\ phase[i] = "waiting" /\ HasLane(i) /\ ctx = "live"
    /\ \/ Gated(i) /\ EndCall(i, "gate") /\ UNCHANGED terminate
       \/ /\ ~Gated(i) /\ "deny" \in HookAnswers
          /\ EndCall(i, "denied")
          /\ terminate' \in {terminate, TRUE}
    /\ UNCHANGED <<pc, turns, ctx, request, toolCancelled, collected, guard, write, verdict, log>>

\* The call is answered without running: after a stop, by the gate, or by a hook.
SkipCall(i) ==
    /\ pc = "running" /\ i \in Each /\ phase[i] = "waiting" /\ HasLane(i)
    /\ \/ ctx # "live" /\ EndCall(i, "interrupted") /\ UNCHANGED terminate
       \/ ctx = "live" /\ Gated(i) /\ EndCall(i, "gate") /\ UNCHANGED terminate
       \/ /\ ctx = "live" /\ ~Gated(i) /\ "deny" \in HookAnswers
          /\ EndCall(i, "denied")
          /\ terminate' \in {terminate, TRUE}
    /\ UNCHANGED <<pc, turns, ctx, request, toolCancelled, collected, guard, write, verdict, log>>

RunCall(i) ==
    /\ pc = "running" /\ i \in Each /\ phase[i] = "waiting" /\ HasLane(i)
    /\ ctx = "live" /\ ~Gated(i)
    /\ phase' = [phase EXCEPT ![i] = "running"]
    /\ \/ UNCHANGED terminate
       \/ "halt" \in HookAnswers /\ terminate' = TRUE
    /\ UNCHANGED <<pc, turns, ctx, request, output, toolCancelled, collected, guard, write,
                   verdict, log>>

\* CancelTool: the call ends, the turn goes on.
CancelTool(i) ==
    /\ pc = "running" /\ i \in Each /\ phase[i] = "running"
    /\ toolCancelled' = toolCancelled \cup {i}
    /\ UNCHANGED <<pc, turns, ctx, request, phase, output, terminate, collected, guard, write,
                   verdict, log>>

\* The tool returns, the post hook may reject its result, and a stop replaces it.
ReturnCall(i) ==
    /\ pc = "running" /\ i \in Each /\ phase[i] = "running"
    /\ \/ ctx # "live" /\ EndCall(i, "interrupted")
       \/ ctx = "live" /\ i \in toolCancelled /\ EndCall(i, "cancelled")
       \/ ctx = "live" /\ i \notin toolCancelled /\ EndCall(i, "ok")
       \/ ctx = "live" /\ i \notin toolCancelled /\ EndCall(i, "error")
       \/ ctx = "live" /\ "deny" \in HookAnswers /\ EndCall(i, "rejected")
    /\ \/ UNCHANGED terminate
       \/ "halt" \in HookAnswers /\ terminate' = TRUE
    /\ UNCHANGED <<pc, turns, ctx, request, toolCancelled, collected, guard, write, verdict, log>>

IsError(answer) == answer \in {"error", "denied", "rejected", "cancelled", "gate"}

\* recordResult: consecutive failures of one call.
RecordResult(g, i) ==
    IF output[i] = "gate" THEN g
    ELSE IF ~IsError(output[i]) THEN [sig |-> "none", streak |-> 0]
    ELSE IF calls[i] = g.sig THEN [g EXCEPT !.streak = @ + 1]
    ELSE [sig |-> calls[i], streak |-> 1]

WaveEnds ==
    /\ pc = "running" /\ \A i \in Each : phase[i] = "ended"
    /\ LET before == [sig |-> lastFail, streak |-> failStreak]
           after  == IF ctx = "live"
                     THEN FoldLeft(RecordResult, before, [i \in Each |-> i])
                     ELSE before
       IN lastFail' = after.sig /\ failStreak' = after.streak
    /\ pc' = "collect"
    /\ UNCHANGED <<turns, ctx, request, wave, window, write, verdict, log>>

-----------------------------------------------------------------------------
(***************************************************************************)
(* The results go to the history in model order, then the next step or the *)
(* end.                                                                    *)
(***************************************************************************)

\* Mutant: the last result is taken for recorded.
AlmostCollected == collected >= Len(calls) - 1

AllCollected == collected = Len(calls)

\* Mutant: the results are recorded from the last call to the first.
DraftLastResult ==
    /\ pc = "collect" /\ ~AllCollected
    /\ draft' = Message("tool", 0, Len(calls) - collected, "none", "none")
    /\ detached' = (ctx # "live")
    /\ pc' = "collect_write"
    /\ UNCHANGED <<turns, ctx, request, wave, guard, terminalAssistantRecorded, verdict, log>>

DraftResult ==
    /\ pc = "collect" /\ ~AllCollected
    /\ draft' = Message("tool", 0, collected + 1, "none", "none")
    /\ detached' = (ctx # "live")
    /\ pc' = "collect_write"
    /\ UNCHANGED <<turns, ctx, request, wave, guard, terminalAssistantRecorded, verdict, log>>

WriteResult ==
    /\ pc = "collect_write"
    /\ history' = Written(draft)
    /\ collected' = collected + 1
    /\ pc' = "collect"
    /\ UNCHANGED <<turns, ctx, request, phase, output, toolCancelled, terminate, guard, write,
                   verdict, completions, started, crashed>>

\* recordStep: the same calls with the same answers, too often in a sliding window.
StepSig == [i \in Each |-> <<calls[i], output[i]>>]
Recent == LET all == Append(window, StepSig)
          IN SubSeq(all, 1 + IF Len(all) > RepeatWindow THEN Len(all) - RepeatWindow ELSE 0,
                    Len(all))

Repeats == Cardinality({k \in DOMAIN Recent : Recent[k] = StepSig}) > RepeatMax

AfterTools ==
    /\ pc = "collect" /\ AllCollected
    /\ \/ /\ terminate \/ ctx # "live"
          /\ CompleteTurn(FromContext)
          /\ UNCHANGED <<step, window>>
       \/ /\ ~terminate /\ ctx = "live"
          /\ window' = Recent
          /\ \/ Repeats /\ CompleteTurn("failed") /\ UNCHANGED step
             \/ ~Repeats /\ NextStep /\ UNCHANGED verdict
    /\ phase' = <<>> /\ output' = <<>> /\ toolCancelled' = {}
    /\ terminate' = FALSE /\ collected' = 0
    /\ partial' = FALSE /\ calls' = <<>> /\ finish' = "none" /\ draft' = <<>> /\ detached' = FALSE
    /\ UNCHANGED <<turns, ctx, overflowRecoveryUsed, stopHookBlocked, lastFail, failStreak,
                   terminalAssistantRecorded, log>>

-----------------------------------------------------------------------------
\* What the turn does by itself: the model and the tools answer at some time.
Step ==
    \/ NoWorkspace \/ Refuse \/ RecordUser
    \/ Prepare \/ OpenStream \/ Recover
    \/ ReceiveText \/ \E t \in Tools : ReceiveCall(t)
    \/ StreamStopped \/ StreamFails
    \/ \E r \in {"tool_calls", "stop", "length", "none"} : StreamEnds(r)
    \/ DraftAssistant \/ WriteAssistant \/ StopHook
    \/ StartTools \/ \E i \in Each : SkipCall(i) \/ RunCall(i) \/ ReturnCall(i)
    \/ WaveEnds \/ DraftResult \/ WriteResult \/ AfterTools
    \/ Complete

Next ==
    \/ Submit \/ Step \/ Crash
    \/ \E r \in StopReasons : Cancel(r)
    \/ \E i \in Each : CancelTool(i)

Spec == Init /\ [][Next]_vars
\* Fairness: once the context has ended the provider and the tools notice it, and the
\* goroutines of the turn go on.  Before that they may take for ever.
StopFairness == WF_vars(ctx # "live" /\ Step)

-----------------------------------------------------------------------------
(***************************************************************************)
(* Properties.                                                             *)
(***************************************************************************)

\* Every turn that has started and that no crash ended is completed exactly once, on
\* every way out of runTurn.
TurnCompletesOnce ==
    \A t \in started \ crashed :
        Len(completions[t]) = IF t = turns /\ pc # "idle" THEN 0 ELSE 1

\* The assistant message that the tool message at k answers.
AskedAt(k) == LET before == {j \in 1 .. k - 1 : history[j].role # "tool"}
              IN CHOOSE j \in before : \A l \in before : l <= j

\* Results are recorded in the order of the calls, whichever tool ended first: a tool
\* message follows the calls it belongs to, and no other result comes twice or too late.
ResultsInModelOrder ==
    \A k \in DOMAIN history :
        history[k].role = "tool" =>
            /\ history[k].call <= history[AskedAt(k)].calls
            /\ history[k - 1].role = "tool" => history[k - 1].call < history[k].call

\* The results that follow the message at k.
ResultsOf(k) == {j \in k + 1 .. Len(history) :
                    history[j].role = "tool" /\ AskedAt(j) = k}

Answered(k) == Cardinality(ResultsOf(k)) = history[k].calls

\* When the model is asked again within a turn, it sees a result of every call it had
\* asked for, although writes can be lost while a stop arrives.
RequestSeesResults ==
    pc = "stream" /\ ctx = "live" =>
        \A k \in DOMAIN history :
            history[k].turn = turns /\ history[k].finish = "tool_calls" => Answered(k)

\* Sequential calls run one at a time and after the calls before them; the parallel
\* lane keeps its bound.
LanesRespected ==
    pc = "running" =>
        /\ Cardinality({i \in Each : Parallel(i) /\ phase[i] = "running"}) <= MaxParallel
        /\ \A i \in Each : ~Parallel(i) /\ phase[i] # "waiting" =>
               \A j \in 1 .. i - 1 : ~Parallel(j) => phase[j] = "ended"

\* A stop ends the turn: it reaches the tools, the stream and the request, wherever the
\* turn is.
StopEndsTurn == ctx # "live" ~> pc = "idle"

\* If the model and the tools always answer, a turn without a step limit ends too: a model
\* that repeats itself is stopped, and a request that is too long is sent again only once.
TurnEnds == WF_vars(Step) => (pc # "idle" ~> pc = "idle")
=============================================================================
