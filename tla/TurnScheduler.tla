---------------------------- MODULE TurnScheduler ----------------------------
(***************************************************************************)
(* The turn scheduler of one session: internal/kernel/queue.go together    *)
(* with the run registry of the agent engine it drives (Engine.cancels and *)
(* Engine.dones, internal/agent).                                          *)
(*                                                                         *)
(* turnScheduler indexes all its maps by session and takes one mutex, so a *)
(* single session is modelled and every critical section of turns.mu is    *)
(* one action.  What the code does after unlocking is a step of its own:   *)
(* the goroutine of a runner moves through pc, a client call that goes on  *)
(* after the unlock (stop, dispatch, delete, compact) through op.          *)
(*                                                                         *)
(* A runner (the goroutine of runTurnLoop) is named by the message it was  *)
(* created for.                                                            *)
(***************************************************************************)
EXTENDS Naturals, Sequences, SequencesExt

CONSTANTS
    Msgs,        \* user messages; each is submitted at most once
    Clients,     \* threads of the server that call the kernel service
    None,        \* nil
    Compaction   \* the occupant of the engine slot during a compaction

ASSUME MsgsAssumption == None \notin Msgs /\ Compaction \notin Msgs /\ None # Compaction

VARIABLES
    queue,       \* turns.queues[session]
    runner,      \* turns.runners[session]
    stopAfter,   \* runner.stopAfterCurrent
    compacting,  \* turns.compacting[session]
    deleted,     \* session \in turns.deleted
    pc,          \* where the goroutine of each runner is
    cur,         \* the message each runner is executing
    slot,        \* engine.cancels[session]: what runs now
    dones,       \* engine.dones[session]: whose done channel is registered
    cause,       \* context.Cause of each run; the first cancellation wins
    history,     \* active user messages of the event log
    store,       \* persisted state of the session
    op,          \* what each client still has to do after its critical section
    accepted,    \* history variable: messages a call accepted
    removed,     \* history variable: messages a user or a deletion discarded
    served,      \* history variable: messages whose turn ran, in order
    dropped      \* history variable: messages the engine refused to run

sched   == <<queue, runner, stopAfter, compacting, deleted>>
loop    == <<pc, cur>>
engine  == <<slot, dones, cause>>
disk    == <<history, store>>
ghosts  == <<accepted, removed, served, dropped>>
vars    == <<sched, loop, engine, disk, op, ghosts>>

-----------------------------------------------------------------------------
Runs == Msgs \cup {Compaction}

Idle == [kind |-> "none", step |-> "none", run |-> None, ctx |-> None,
         sel |-> None, late |-> FALSE]

\* Faulty variant: the name of the call instead of the documented reason.
RawReason(kind) == kind

\* The reason a kind of call gives when it cancels a run.
Reason(kind) == CASE kind = "stop"     -> "user_stop"
                  [] kind = "dispatch" -> "queue_dispatch"
                  [] kind = "delete"   -> "session_deleted"
                  [] OTHER             -> "none"

\* The turn loop is inside engine.RunInput, or about to enter it.
InRunInput == {"start", "registered", "running", "recorded", "closed"}
\* ... or has not yet left the critical section that follows it.
Live(r) == pc[r] \in InRunInput \cup {"returned"}

\* Faulty variant: forgets the standalone compaction.
BusyWithTurn == runner # None

Busy == runner # None \/ compacting

\* A context is cancelled once: later causes are ignored.
Cancelled(run, why) ==
    IF run = None THEN cause
    ELSE [cause EXCEPT ![run] = IF @ = "none" THEN why ELSE @]

Begin(c, call) == op[c] = Idle /\ op' = [op EXCEPT ![c] = call]
Step(c, from, to) == op[c].step = from /\ op' = [op EXCEPT ![c].step = to]
Return(c, from) == op[c].step = from /\ op' = [op EXCEPT ![c] = Idle]

Init ==
    /\ queue = <<>> /\ runner = None /\ stopAfter = FALSE
    /\ compacting = FALSE /\ deleted = FALSE
    /\ pc = [r \in Msgs |-> "none"] /\ cur = [r \in Msgs |-> None]
    /\ slot = None /\ dones = None /\ cause = [x \in Runs |-> "none"]
    /\ history = <<>> /\ store = "open"
    /\ op = [c \in Clients |-> Idle]
    /\ accepted = {} /\ removed = {} /\ served = <<>> /\ dropped = {}

-----------------------------------------------------------------------------
(* Calls that only need the critical section.                              *)

CreateRunner(m) ==
    /\ runner' = m
    /\ stopAfter' = FALSE
    /\ pc' = [pc EXCEPT ![m] = "start"]
    /\ cur' = [cur EXCEPT ![m] = m]

\* Faulty variant: no second look at turns.deleted under the lock.
AcceptAfterDelete(m) ==
    /\ m \notin accepted
    /\ accepted' = accepted \cup {m}

Accept(m) ==
    /\ ~deleted
    /\ m \notin accepted
    /\ accepted' = accepted \cup {m}

SubmitQueued(m) ==
    /\ Accept(m)
    /\ Busy
    /\ queue' = Append(queue, m)
    /\ UNCHANGED <<runner, stopAfter, compacting, deleted, loop, engine, disk, op,
                   removed, served, dropped>>

\* Faulty variant: starts the new message ahead of the older ones.
ResumeWithNewest(m) ==
    /\ Accept(m)
    /\ ~Busy
    /\ queue # <<>>
    /\ CreateRunner(m)
    /\ UNCHANGED <<queue, compacting, deleted, engine, disk, op, removed, served, dropped>>

\* A queue can be left while idle: append, then resume with the oldest item.
SubmitResume(m) ==
    /\ Accept(m)
    /\ ~Busy
    /\ queue # <<>>
    /\ CreateRunner(Head(queue))
    /\ queue' = Append(Tail(queue), m)
    /\ UNCHANGED <<compacting, deleted, engine, disk, op, removed, served, dropped>>

SubmitStarted(m) ==
    /\ Accept(m)
    /\ ~Busy
    /\ queue = <<>>
    /\ CreateRunner(m)
    /\ UNCHANGED <<queue, compacting, deleted, engine, disk, op, removed, served, dropped>>

EnqueueInput(m) ==
    /\ Accept(m)
    /\ queue' = Append(queue, m)
    /\ UNCHANGED <<runner, stopAfter, compacting, deleted, loop, engine, disk, op,
                   removed, served, dropped>>

\* Moving the item at position i to position j; an edit of its text is no step here.
UpdateQueuedMessage(i, j) ==
    /\ ~deleted
    /\ i # j
    /\ queue' = InsertAt(RemoveAt(queue, i), j, queue[i])
    /\ UNCHANGED <<runner, stopAfter, compacting, deleted, loop, engine, disk, op, ghosts>>

DeleteQueuedMessage(i) ==
    /\ ~deleted
    /\ queue' = RemoveAt(queue, i)
    /\ removed' = removed \cup {queue[i]}
    /\ UNCHANGED <<runner, stopAfter, compacting, deleted, loop, engine, disk, op,
                   accepted, served, dropped>>

\* The whole rewind holds turns.mu; the user message m and all after it leave
\* the active history (the files it restores are the subject of FileRewind).
RewindTurn(m) ==
    /\ ~deleted /\ ~Busy /\ queue = <<>>
    /\ store = "open"
    /\ \E k \in DOMAIN history :
          /\ history[k] = m
          /\ history' = SubSeq(history, 1, k - 1)
    /\ UNCHANGED <<sched, loop, engine, store, op, ghosts>>

-----------------------------------------------------------------------------
(* Calls that go on after the unlock.                                      *)

\* Faulty variant: the promoted item also stays where it was.
PromotedCopy(i) == <<queue[i]>> \o queue

Promoted(i) == <<queue[i]>> \o RemoveAt(queue, i)

DispatchBusy(c, i) ==
    /\ ~deleted /\ Busy
    /\ queue' = Promoted(i)
    /\ stopAfter' = IF runner # None THEN FALSE ELSE stopAfter
    /\ Begin(c, [Idle EXCEPT !.kind = "dispatch", !.step = "cancelRun", !.run = runner,
                             !.ctx = IF runner = None THEN None ELSE cur[runner],
                             !.sel = queue[i]])
    /\ UNCHANGED <<runner, compacting, deleted, loop, engine, disk, ghosts>>

DispatchIdle(c, i) ==
    /\ ~deleted /\ ~Busy
    /\ op[c] = Idle
    /\ CreateRunner(queue[i])
    /\ queue' = RemoveAt(queue, i)
    /\ UNCHANGED <<compacting, deleted, engine, disk, op, ghosts>>

CancelCurrentTurn(c) ==
    /\ Busy
    /\ stopAfter' = IF runner # None THEN TRUE ELSE stopAfter
    /\ Begin(c, [Idle EXCEPT !.kind = "stop", !.step = "cancelRun", !.run = runner,
                             !.ctx = IF runner = None THEN None ELSE cur[runner]])
    /\ UNCHANGED <<queue, runner, compacting, deleted, loop, engine, disk, ghosts>>

\* engine.CancelWithReason: cancels whatever occupies the slot by now.
CancelWithReason(c) ==
    /\ cause' = Cancelled(slot, Reason(op[c].kind))
    /\ IF op[c].run = None THEN Return(c, "cancelRun") ELSE Step(c, "cancelRun", "cancelCtx")
    /\ UNCHANGED <<sched, loop, slot, dones, disk, ghosts>>

\* Faulty variant: relies on engine.CancelWithReason alone.
SkipRunnerContext(c) ==
    /\ IF op[c].kind = "delete" THEN Step(c, "cancelCtx", "waitRunner")
                                ELSE Return(c, "cancelCtx")
    /\ UNCHANGED <<sched, loop, engine, disk, ghosts>>

\* Dispatch calls the cancel function it read under the lock.  Stop and delete
\* read runner.cancel unlocked while the loop may be replacing it: a data race,
\* so the old and the new function are both possible.
CancelRunnerContext(c) ==
    /\ \E m \in {op[c].ctx} \cup (IF op[c].kind = "dispatch" THEN {} ELSE {cur[op[c].run]}) :
          cause' = Cancelled(m, Reason(op[c].kind))
    /\ IF op[c].kind = "delete" THEN Step(c, "cancelCtx", "waitRunner")
                                ELSE Return(c, "cancelCtx")
    /\ UNCHANGED <<sched, loop, slot, dones, disk, ghosts>>

-----------------------------------------------------------------------------
(* DeleteSession.                                                          *)

StopSession(c) ==
    /\ store = "open"
    /\ deleted' = TRUE
    /\ queue' = <<>>
    /\ removed' = removed \cup ToSet(queue)
    /\ stopAfter' = IF runner # None THEN TRUE ELSE stopAfter
    /\ Begin(c, [Idle EXCEPT !.kind = "delete", !.run = runner,
                             !.ctx = IF runner = None THEN None ELSE cur[runner],
                             !.step = IF runner = None THEN "cancelSlot" ELSE "cancelRun"])
    /\ UNCHANGED <<runner, compacting, loop, engine, disk, accepted, served, dropped>>

\* engine.CancelAndWait, first load: nothing registered means nothing to wait for.
CancelAndWait(c) ==
    /\ cause' = Cancelled(slot, "session_deleted")
    /\ IF slot = None THEN Step(c, "cancelSlot", "meta") ELSE Step(c, "cancelSlot", "loadDone")
    /\ UNCHANGED <<sched, loop, slot, dones, disk, ghosts>>

\* ... second load: the done channel, if it is registered.
LoadDone(c) ==
    /\ op[c].step = "loadDone"
    /\ op' = [op EXCEPT ![c] = [@ EXCEPT !.step = IF dones = None THEN "meta" ELSE "waitSlot",
                                         !.ctx = dones]]
    /\ UNCHANGED <<sched, loop, engine, disk, ghosts>>

StopWaited(c) ==
    /\ \/ Step(c, "waitSlot", "meta") /\ dones # op[c].ctx
       \/ Step(c, "waitRunner", "meta") /\ pc[op[c].run] = "done"
    /\ UNCHANGED <<sched, loop, engine, disk, ghosts>>

\* deleteTurnGrace has passed: deletion goes on without the run.
StopTimedOut(c) ==
    /\ op[c].step \in {"waitSlot", "waitRunner"}
    /\ op' = [op EXCEPT ![c] = [@ EXCEPT !.step = "meta", !.late = TRUE]]
    /\ UNCHANGED <<sched, loop, engine, disk, ghosts>>

\* sessions.Delete, which fails when the database does or the row is gone.
DeleteMetadata(c) ==
    /\ \/ /\ store = "open"
          /\ store' = "headless"
          /\ Step(c, "meta", "log")
       \/ /\ store' = store
          /\ Return(c, "meta")
    /\ UNCHANGED <<sched, loop, engine, history, ghosts>>

\* log.Delete: the events go and later ones of this session are refused.
DeleteLog(c) ==
    /\ \/ store' = "deleted" /\ history' = <<>>
       \/ UNCHANGED disk
    /\ Return(c, "log")
    /\ UNCHANGED <<sched, loop, engine, ghosts>>

-----------------------------------------------------------------------------
(* CompactSession, in the calling thread.                                  *)

\* Faulty variant: only looks for another compaction.
CompactBeginBesideTurn(c) ==
    /\ ~deleted /\ ~compacting
    /\ compacting' = TRUE
    /\ Begin(c, [Idle EXCEPT !.kind = "compact", !.step = "begin"])
    /\ UNCHANGED <<queue, runner, stopAfter, deleted, loop, engine, disk, ghosts>>

CompactBegin(c) ==
    /\ ~deleted /\ ~Busy
    /\ compacting' = TRUE
    /\ Begin(c, [Idle EXCEPT !.kind = "compact", !.step = "begin"])
    /\ UNCHANGED <<queue, runner, stopAfter, deleted, loop, engine, disk, ghosts>>

\* The engine refuses when the slot is taken.
CompactRegister(c) ==
    /\ IF slot = None
       THEN /\ slot' = Compaction
            /\ cause' = [cause EXCEPT ![Compaction] = "none"]
            /\ Step(c, "begin", "registered")
       ELSE Step(c, "begin", "settle") /\ UNCHANGED <<slot, cause>>
    /\ UNCHANGED <<sched, loop, dones, disk, ghosts>>

CompactRun(c) ==
    /\ Step(c, "registered", "compacting")
    /\ dones' = Compaction
    /\ UNCHANGED <<sched, loop, slot, cause, disk, ghosts>>

CompactEnd(c) ==
    /\ Step(c, "compacting", "closed")
    /\ dones' = None
    /\ cause' = Cancelled(Compaction, "ended")
    /\ UNCHANGED <<sched, loop, slot, disk, ghosts>>

CompactRelease(c) ==
    /\ Step(c, "closed", "settle")
    /\ slot' = None
    /\ UNCHANGED <<sched, loop, dones, cause, disk, ghosts>>

\* Faulty variants: the queue is not looked at; the flag is not cleared.
SettleWithoutQueue(c) ==
    /\ Return(c, "settle")
    /\ compacting' = FALSE
    /\ UNCHANGED <<queue, runner, stopAfter, deleted, loop, engine, disk, ghosts>>
SettleStillCompacting(c) ==
    /\ Return(c, "settle")
    /\ UNCHANGED <<sched, loop, engine, disk, ghosts>>

CompactSettle(c) ==
    /\ Return(c, "settle")
    /\ compacting' = FALSE
    /\ IF deleted \/ queue = <<>>
       THEN UNCHANGED <<queue, runner, stopAfter, loop>>
       ELSE queue' = Tail(queue) /\ CreateRunner(Head(queue))
    /\ UNCHANGED <<deleted, engine, disk, ghosts>>

-----------------------------------------------------------------------------
(* runTurnLoop, and engine.runTurn as far as the registry is concerned.    *)

At(r, from, to) == pc[r] = from /\ pc' = [pc EXCEPT ![r] = to]

\* cancels.LoadOrStore; a second run of the session is refused, and the loop
\* ignores the error: the message is gone.
TurnRegister(r) ==
    /\ IF slot = None
       THEN At(r, "start", "registered") /\ slot' = cur[r] /\ dropped' = dropped
       ELSE At(r, "start", "returned") /\ slot' = slot /\ dropped' = dropped \cup {cur[r]}
    /\ UNCHANGED <<sched, cur, dones, cause, disk, op, accepted, removed, served>>

TurnRun(r) ==
    /\ At(r, "registered", "running")
    /\ dones' = cur[r]
    /\ UNCHANGED <<sched, cur, slot, cause, disk, op, ghosts>>

\* The user message is recorded, cancelled or not, unless the log is deleted.
TurnRecord(r) ==
    /\ At(r, "running", "recorded")
    /\ history' = IF store = "deleted" THEN history ELSE Append(history, cur[r])
    /\ UNCHANGED <<sched, cur, engine, store, op, ghosts>>

\* The turn completes, fails or obeys its cancellation; it may fail before it
\* has recorded the message (no workspace, a hook denies it).
TurnEnd(r) ==
    /\ At(r, "running", "closed") \/ At(r, "recorded", "closed")
    /\ dones' = None
    /\ cause' = Cancelled(cur[r], "ended")
    /\ UNCHANGED <<sched, cur, slot, disk, op, ghosts>>

TurnRelease(r) ==
    /\ At(r, "closed", "returned")
    /\ slot' = None
    /\ served' = Append(served, cur[r])
    /\ UNCHANGED <<sched, cur, dones, cause, disk, op, accepted, removed, dropped>>

\* The critical section after a turn: leave, or go on with the head of the queue.
LoopExit(r) ==
    /\ At(r, "returned", "exiting")
    /\ runner # r \/ stopAfter \/ store # "open" \/ queue = <<>>
    /\ runner' = IF runner = r THEN None ELSE runner
    /\ UNCHANGED <<queue, stopAfter, compacting, deleted, cur, engine, disk, op, ghosts>>

LoopNext(r) ==
    /\ At(r, "returned", "start")
    /\ runner = r /\ ~stopAfter /\ store = "open" /\ queue # <<>>
    /\ cur' = [cur EXCEPT ![r] = Head(queue)]
    /\ queue' = Tail(queue)
    /\ UNCHANGED <<runner, stopAfter, compacting, deleted, engine, disk, op, ghosts>>

LoopDone(r) ==
    /\ At(r, "exiting", "done")
    /\ UNCHANGED <<sched, cur, engine, disk, op, ghosts>>

-----------------------------------------------------------------------------
UserStep(c) ==
    \/ \E i \in DOMAIN queue : DispatchBusy(c, i) \/ DispatchIdle(c, i)
    \/ CancelCurrentTurn(c)
    \/ StopSession(c)
    \/ CompactBegin(c)

QueueStep ==
    \/ \E m \in Msgs :
          \/ SubmitQueued(m) \/ SubmitResume(m) \/ SubmitStarted(m)
          \/ EnqueueInput(m)
          \/ RewindTurn(m)
    \/ \E i, j \in DOMAIN queue : UpdateQueuedMessage(i, j)
    \/ \E i \in DOMAIN queue : DeleteQueuedMessage(i)

CallStep(c) ==
    \/ op[c].step = "cancelRun" /\ CancelWithReason(c)
    \/ op[c].step = "cancelCtx" /\ CancelRunnerContext(c)
    \/ op[c].step = "cancelSlot" /\ CancelAndWait(c)
    \/ LoadDone(c) \/ StopWaited(c) \/ StopTimedOut(c)
    \/ DeleteMetadata(c) \/ DeleteLog(c)

CompactStep(c) ==
    \/ op[c].step = "begin" /\ CompactRegister(c)
    \/ CompactRun(c) \/ CompactEnd(c) \/ CompactRelease(c) \/ CompactSettle(c)

LoopStep(r) ==
    \/ TurnRegister(r) \/ TurnRun(r) \/ TurnRecord(r) \/ TurnEnd(r) \/ TurnRelease(r)
    \/ LoopExit(r) \/ LoopNext(r) \/ LoopDone(r)

Next ==
    \/ QueueStep
    \/ \E c \in Clients : UserStep(c) \/ CallStep(c) \/ CompactStep(c)
    \/ \E r \in Msgs : LoopStep(r)

Spec == Init /\ [][Next]_vars
-----------------------------------------------------------------------------
(* Fairness.  The runtime runs its goroutines and a cancelled run obeys     *)
(* (runTurn and compactHistory watch their context); users owe nothing, and *)
(* a run that nobody cancels may take for ever, waiting for an approval.    *)

CancelledTurnEnds(r) == TurnEnd(r) /\ cause[cur[r]] # "none"
CancelledCompactEnds(c) == CompactEnd(c) /\ cause[Compaction] # "none"

Goroutine(r) ==
    TurnRegister(r) \/ TurnRun(r) \/ TurnRelease(r) \/ LoopExit(r) \/ LoopNext(r) \/ LoopDone(r)

CompactProgress(c) ==
    \/ op[c].step = "begin" /\ CompactRegister(c)
    \/ CompactRun(c) \/ CompactRelease(c) \/ CompactSettle(c)

Fairness ==
    /\ \A r \in Msgs : WF_vars(Goroutine(r)) /\ WF_vars(CancelledTurnEnds(r))
    /\ \A c \in Clients : /\ WF_vars(CallStep(c))
                          /\ WF_vars(CompactProgress(c))
                          /\ WF_vars(CancelledCompactEnds(c))

FairSpec == Spec /\ Fairness

\* What draining needs beyond that: runs end by themselves.
RunsEnd == \A r \in Msgs, c \in Clients : WF_vars(TurnEnd(r)) /\ WF_vars(CompactEnd(c))

-----------------------------------------------------------------------------
(* Properties.                                                              *)

Causes == {"none", "user_stop", "queue_dispatch", "session_deleted", "ended"}

Kinds == {"none", "stop", "dispatch", "delete", "compact"}
CompactSteps == {"begin", "registered", "compacting", "closed", "settle"}
Steps == CompactSteps \cup {"none", "cancelRun", "cancelCtx", "cancelSlot", "loadDone",
                            "waitSlot", "waitRunner", "meta", "log"}
Calls == [kind : Kinds, step : Steps, run : Msgs \cup {None}, ctx : Runs \cup {None},
          sel : Msgs \cup {None}, late : BOOLEAN]

\* Every variable stays in its domain.
TypeOK ==
    /\ queue \in Seq(Msgs) /\ history \in Seq(Msgs) /\ served \in Seq(Msgs)
    /\ runner \in Msgs \cup {None}
    /\ stopAfter \in BOOLEAN /\ compacting \in BOOLEAN /\ deleted \in BOOLEAN
    /\ pc \in [Msgs -> InRunInput \cup {"none", "returned", "exiting", "done"}]
    /\ cur \in [Msgs -> Msgs \cup {None}]
    /\ slot \in Runs \cup {None} /\ dones \in Runs \cup {None}
    /\ cause \in [Runs -> Causes]
    /\ store \in {"open", "headless", "deleted"}
    /\ op \in [Clients -> Calls]
    /\ accepted \subseteq Msgs /\ removed \subseteq Msgs /\ dropped \subseteq Msgs

InCompaction(c) == op[c].kind = "compact"

\* A session has one goroutine in a turn or one thread in a compaction, never
\* two of either and never both, from before it enters the engine until after
\* it has left it: the scheduler's maps, read under the mutex, always agree with
\* what the goroutines are doing outside it.
OneRunPerSession ==
    /\ \A r \in Msgs : Live(r) <=> runner = r
    /\ \A c, d \in Clients : InCompaction(c) /\ InCompaction(d) => c = d
    /\ compacting <=> \E c \in Clients : InCompaction(c)
    /\ ~(compacting /\ runner # None)

\* The engine never refuses a turn the scheduler starts, so the error that
\* runTurnLoop ignores cannot cost a message its turn.
NoTurnRefused == dropped = {}

\* No accepted message is lost, run twice or queued twice: it waits at one place
\* of the queue, is the message of the one live runner, was served, or was
\* discarded on request.
MessageConservation ==
    LET running == {cur[r] : r \in {x \in Msgs : Live(x) /\ pc[x] # "returned"}}
        kept    == <<ToSet(queue), running, ToSet(served), removed, dropped>>
    IN  /\ accepted = UNION {kept[k] : k \in DOMAIN kept}
        /\ \A k, l \in DOMAIN kept : k # l => kept[k] \cap kept[l] = {}
        /\ IsInjective(queue) /\ IsInjective(served)

\* When DeleteSession goes on to remove the session and the grace period has not
\* run out, no turn of it is running any more, nor can one be started.
DeletionWaitsForTurn ==
    \A c \in Clients :
        op[c].kind = "delete" /\ op[c].step \in {"meta", "log"} /\ ~op[c].late
            => /\ slot \notin Msgs
               /\ \A r \in Msgs : pc[r] \notin InRunInput

\* When it has cancelled a runner, the turn of that runner is cancelled whatever
\* it was doing: not yet registered with the engine, between two turns, in one.
DeletionCancelsTurn ==
    \A c \in Clients :
        LET r == op[c].run
        IN  op[c].kind = "delete" /\ op[c].step \in {"waitRunner", "meta", "log"} /\ r # None
              /\ pc[r] \in InRunInput
                => cause[cur[r]] # "none"

\* History is rewound only while nothing of the session runs: no turn or
\* compaction is in the engine, about to enter it or on its way out.
RewindExclusive ==
    [][Len(history') < Len(history) /\ store' = store
         => /\ slot = None /\ dones = None
            /\ \A r \in Msgs : ~Live(r)
            /\ \A c \in Clients : ~InCompaction(c)]_vars

\* A session that falls idle leaves messages in the queue only if its last turn
\* was told to stop: no wake-up of the queue is lost between a run that ends and
\* a message that arrives.
WakeupKept ==
    [][Busy /\ ~Busy' => queue' = <<>> \/ (runner # None /\ stopAfter)]_vars

\* The message a turn is running for, from the start of its runner to its release.
Active == IF runner = None \/ pc[runner] = "returned" THEN None ELSE cur[runner]

\* The scheduler implements the queue of TurnQueue.
Queue == INSTANCE TurnQueue WITH
    waiting   <- queue,
    active    <- Active,
    discarded <- removed,
    closed    <- deleted

ImplementsQueue == Queue!Spec

\* A stopped turn ends and its runner leaves, at whatever point of the turn the
\* stop arrived, unless a dispatch takes the stop back.
StopSettles ==
    \A r \in Msgs : runner = r /\ stopAfter ~> runner # r \/ ~stopAfter

\* If runs end, a message queued in a busy session leaves the queue or the
\* session falls idle (which WakeupKept allows only after a stop).
QueueDrains ==
    RunsEnd => \A m \in Msgs : Busy /\ Contains(queue, m) ~> ~Contains(queue, m) \/ ~Busy

\* After a deletion has begun, its turns stop for good, and the call returns.
DeletionSettles ==
    /\ deleted ~> [](runner = None /\ slot \notin Msgs)
    /\ \A c \in Clients : op[c].kind = "delete" ~> op[c] = Idle

=============================================================================
