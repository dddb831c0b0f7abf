--------------------------- MODULE TurnQueueProofs ---------------------------
(***************************************************************************)
(* What TurnScheduler promises of its queue, for any set of messages and   *)
(* any number of clients: that deletion, rewind and the wake-up of a       *)
(* queue keep to each other, that no message is lost or handled twice, and *)
(* that the scheduler implements TurnQueue.  For the last two, one lemma   *)
(* says which step of the abstract queue each step of the scheduler is.    *)
(***************************************************************************)
EXTENDS TurnSchedulerProofs


-----------------------------------------------------------------------------
(* The invariant.  Once deleted is set nothing enters the queue, so that no *)
(* runner is created and none takes another message: the runner a deletion  *)
(* read under the lock is the only one there can be, still in the turn it   *)
(* was in.                                                                  *)

WaitSteps == {"cancelSlot", "loadDone", "waitSlot", "waitRunner", "meta", "log"}
Removal == {"meta", "log"}

ClosedQueue == (store # "open" => deleted) /\ (deleted => queue = <<>>)

\* Only the call that removed the metadata removes the log.
LogOwned ==
    \A c, d \in Clients :
        op[c].step = "log" => store = "headless" /\ (op[d].step = "log" => d = c)

SlotNamed == slot \in Msgs => \E r \in Msgs : pc[r] \in InEngine

DeleteShape(call) ==
    /\ call.step \in WaitSteps => call.kind = "delete"
    /\ call.kind = "delete" /\ call.step \in {"cancelSlot", "loadDone", "waitSlot"}
         => call.run = None

\* The runner of a deletion: the only live one, and as the deletion found it.
DeleteRunner(call) ==
    call.kind = "delete" =>
        /\ deleted
        /\ \A r \in Msgs : Live(r) => r = call.run /\ cur[r] = call.ctx
        /\ call.step \in Removal /\ ~call.late /\ call.run # None => pc[call.run] = "done"
        /\ call.step \in {"waitRunner"} \cup Removal
             => \A r \in Msgs : r = call.run /\ pc[r] \in InRunInput => cause[cur[r]] # "none"

DelCalls == \A c \in Clients : DeleteShape(op[c]) /\ DeleteRunner(op[c])

DelInv == ExclInv /\ ClosedQueue /\ LogOwned /\ SlotNamed /\ DelCalls

LEMMA DelInit == Init => DelInv
<1> SUFFICES ASSUME Init PROVE DelInv
  OBVIOUS
<1>1. ExclInv
  BY ExclInit
<1>2. \A c \in Clients : op[c] = Idle
  BY DEF Init
<1>3. LogOwned /\ DelCalls
  BY <1>2 DEF LogOwned, DelCalls, DeleteShape, DeleteRunner, Idle, WaitSteps
<1> QED BY <1>1, <1>3, MsgsAssumption DEF Init, DelInv, ClosedQueue, SlotNamed

-----------------------------------------------------------------------------
(* Which steps can disturb it.                                             *)

\* No step of a deletion is taken.
NoDeletion ==
    \A c \in Clients : op'[c] = op[c] \/ (op'[c].step \notin WaitSteps /\ op'[c].kind # "delete")

\* Before any deletion: every call is of another kind, before and after.
LEMMA DelOpen ==
    ASSUME DelInv, ExclInv', SlotNamed', ~deleted, UNCHANGED <<deleted, store>>, NoDeletion
    PROVE  DelInv'
<1>1. \A c \in Clients : op[c].kind # "delete" /\ op[c].step \notin WaitSteps
  BY DEF DelInv, DelCalls, DeleteShape, DeleteRunner
<1>2. \A c \in Clients : op'[c].kind # "delete" /\ op'[c].step \notin WaitSteps
  BY <1>1 DEF NoDeletion
<1>3. \A c \in Clients : op'[c].step # "log"
  BY <1>2 DEF WaitSteps
<1>4. ClosedQueue'
  BY DEF DelInv, ClosedQueue
<1> QED BY <1>2, <1>3, <1>4 DEF DelInv, LogOwned, DelCalls, DeleteShape, DeleteRunner

\* No runner is created or replaced, none comes to life or moves to another
\* message, cancelled messages stay cancelled and runners done.
Settled ==
    /\ UNCHANGED <<queue, deleted>>
    /\ \A r \in Msgs :
          /\ Live(r)' => Live(r)
          /\ pc'[r] \in InRunInput => pc[r] \in InRunInput
          /\ Live(r)' => cur'[r] = cur[r]
          /\ pc[r] = "done" => pc'[r] = "done"
          /\ cause[r] # "none" => cause'[r] # "none"

LEMMA DelSettled ==
    ASSUME DelInv, ExclInv', SlotNamed', Settled, UNCHANGED <<store, op>>
    PROVE  DelInv'
<1>1. ASSUME NEW c \in Clients PROVE (DeleteShape(op[c]) /\ DeleteRunner(op[c]))'
  <2>1. DeleteShape(op[c]) /\ DeleteRunner(op[c])
    BY DEF DelInv, DelCalls
  <2>2. op[c] \in Calls /\ op'[c] = op[c]
    BY DEF DelInv, ExclInv, TypeInv, TypeOK
  <2>3. \A r \in Msgs : Live(r) => cur[r] \in Msgs
    BY DEF DelInv, ExclInv, TypeInv, LiveCur
  <2>4. op[c].run \in Msgs \cup {None}
    BY <2>2 DEF Calls
  <2>5. \A r \in Msgs : pc'[r] \in InRunInput => Live(r)' /\ Live(r)
    BY DEF Live, Settled
  <2> QED BY <2>1, <2>2, <2>3, <2>4, <2>5 DEF DeleteShape, DeleteRunner, Settled
<1> QED BY <1>1 DEF DelInv, ClosedQueue, LogOwned, DelCalls, Settled

\* A call that goes on, or returns, after its critical section; it may complete
\* what the invariant asks of its next step, told by the last premises.
LEMMA DelCall ==
    ASSUME DelInv, ExclInv', SlotNamed', NEW c \in Clients, NEW call \in Calls,
           op' = [op EXCEPT ![c] = call],
           UNCHANGED <<queue, deleted, pc, cur>>,
           \A m \in Msgs : cause[m] # "none" => cause'[m] # "none",
           DeleteShape(call),
           call.kind = "delete" =>
              /\ op[c].kind = "delete" /\ call.run = op[c].run
              /\ call.run = None \/ call.ctx = op[c].ctx
              /\ call.step \in Removal /\ ~call.late /\ call.run # None => pc[call.run] = "done"
              /\ call.step \in {"waitRunner"} \cup Removal /\ call.run # None
                   => \/ op[c].step \in {"waitRunner"} \cup Removal
                      \/ Live(call.run) /\ call.ctx \in Msgs => cause'[call.ctx] # "none",
           \/ store' = store /\ (call.step = "log" => op[c].step = "log")
           \/ store = "open" /\ store' = "headless" /\ op[c].kind = "delete"
           \/ op[c].step = "log" /\ call.step # "log"
    PROVE  DelInv'
<1>1. op \in [Clients -> Calls] /\ cur \in [Msgs -> Msgs \cup {None}]
  BY DEF DelInv, ExclInv, TypeInv, TypeOK
<1>2. \A d \in Clients : op'[d] = IF d = c THEN call ELSE op[d]
  BY <1>1
<1>3. \A r \in Msgs : Live(r) => cur[r] \in Msgs
  BY DEF DelInv, ExclInv, TypeInv, LiveCur
<1>4. \A r \in Msgs : /\ Live(r)' <=> Live(r)
                      /\ pc[r] \in InRunInput => Live(r)
  BY DEF Live
<1>5. ASSUME NEW d \in Clients, d # c PROVE DeleteShape(op[d])' /\ DeleteRunner(op[d])'
  <2>1. DeleteShape(op[d]) /\ DeleteRunner(op[d]) /\ op'[d] = op[d]
    BY <1>2, <1>5 DEF DelInv, DelCalls
  <2>2. \A r \in Msgs : pc[r] \in InRunInput /\ cause[cur[r]] # "none" => cause'[cur[r]] # "none"
    BY <1>3, <1>4
  <2> QED BY <1>4, <2>1, <2>2 DEF DeleteShape, DeleteRunner
<1>6. DeleteShape(op[c])'
  BY <1>2 DEF DeleteShape
<1>7. DeleteRunner(op[c])'
  <2> SUFFICES ASSUME call.kind = "delete" PROVE DeleteRunner(op[c])'
    BY <1>2 DEF DeleteRunner
  <2>1. DeleteRunner(op[c]) /\ op[c].kind = "delete" /\ op'[c] = call
    BY <1>2 DEF DelInv, DelCalls
  <2>2. deleted /\ \A r \in Msgs : Live(r) => r = call.run /\ cur[r] = op[c].ctx
    BY <2>1 DEF DeleteRunner
  <2>3. \A r \in Msgs : Live(r) => r = call.run /\ cur[r] = call.ctx
    BY <2>2, MsgsAssumption
  <2>4. ASSUME NEW r \in Msgs, r = call.run, pc[r] \in InRunInput,
               call.step \in {"waitRunner"} \cup Removal
        PROVE cause'[cur[r]] # "none"
    <3>1. call.run # None
      BY <2>4, MsgsAssumption
    <3>2. Live(r)
      BY <2>4 DEF Live
    <3>3. cur[r] \in Msgs /\ cur[r] = call.ctx
      BY <1>3, <2>3, <3>2
    <3>4. op[c].step \in {"waitRunner"} \cup Removal => cause[cur[r]] # "none"
      <4>1. r = op[c].run
        BY <2>4
      <4> QED BY <2>1, <2>4, <4>1 DEF DeleteRunner
    <3>5. CASE op[c].step \in {"waitRunner"} \cup Removal
      BY <3>3, <3>4, <3>5
    <3>6. CASE op[c].step \notin {"waitRunner"} \cup Removal
      BY <2>4, <3>1, <3>2, <3>3, <3>6
    <3> QED BY <3>5, <3>6
  <2>5. deleted' /\ pc' = pc /\ cur' = cur
    BY <2>2
  <2>6. \A r \in Msgs : Live(r)' => r = call.run /\ cur'[r] = call.ctx
    BY <1>4, <2>3, <2>5
  <2>7. call.step \in Removal /\ ~call.late /\ call.run # None => pc'[call.run] = "done"
    BY <2>5
  <2>8. call.step \in {"waitRunner"} \cup Removal
          => \A r \in Msgs : r = call.run /\ pc'[r] \in InRunInput => cause'[cur'[r]] # "none"
    BY <2>4, <2>5
  <2> QED BY <2>1, <2>5, <2>6, <2>7, <2>8 DEF DeleteRunner
<1>8. DelCalls'
  BY <1>5, <1>6, <1>7 DEF DelCalls
<1>9. op[c].kind = "delete" => deleted
  BY DEF DelInv, DelCalls, DeleteRunner
<1>10. ClosedQueue'
  <2>1. op[c].step = "log" => deleted
    BY DEF DelInv, LogOwned, ClosedQueue
  <2> QED BY <1>9, <2>1 DEF DelInv, ClosedQueue
<1>11. LogOwned'
  <2>1. LogOwned
    BY DEF DelInv
  <2>2. CASE store' = store /\ (call.step = "log" => op[c].step = "log")
    BY <1>2, <2>1, <2>2 DEF LogOwned
  <2>3. CASE store = "open" /\ store' = "headless"
    <3>1. \A d \in Clients : op[d].step # "log"
      BY <2>1, <2>3 DEF LogOwned
    <3> QED BY <1>2, <2>3, <3>1 DEF LogOwned
  <2>4. CASE op[c].step = "log" /\ call.step # "log"
    <3>1. \A d \in Clients : op'[d].step # "log"
      BY <1>2, <2>1, <2>4 DEF LogOwned
    <3> QED BY <3>1 DEF LogOwned
  <2> QED BY <2>2, <2>3, <2>4
<1> QED BY <1>8, <1>10, <1>11 DEF DelInv

-----------------------------------------------------------------------------
(* Whose message occupies the slot.                                        *)

LEMMA SlotFrame ==
    ASSUME SlotNamed, UNCHANGED <<slot, pc>>
    PROVE  SlotNamed'
BY DEF SlotNamed

LEMMA SlotCreate ==
    ASSUME ExclInv, SlotNamed, ~Busy, slot' = slot
    PROVE  SlotNamed'
<1>1. \A r \in Msgs : ~Live(r)
  BY MsgsAssumption DEF ExclInv, OneRunPerSession, Busy
<1>2. slot \notin Msgs
  BY <1>1 DEF SlotNamed, Live, InEngine, InRunInput
<1> QED BY <1>2 DEF SlotNamed

\* A turn in the engine stays there, or gives the slot back.
LEMMA SlotTurn ==
    ASSUME ExclInv, SlotNamed, NEW r \in Msgs, NEW from, NEW to, At(r, from, to),
           \/ slot' = slot /\ (from \in InEngine => to \in InEngine)
           \/ slot' = None
           \/ slot' = cur[r] /\ to \in InEngine
    PROVE  SlotNamed'
<1>1. pc'[r] = to /\ \A x \in Msgs : x # r => pc'[x] = pc[x]
  BY DEF At, ExclInv, TypeInv, TypeOK
<1> QED BY <1>1, MsgsAssumption DEF SlotNamed, At

LEMMA LoopStepSlot ==
    ASSUME ExclInv, SlotNamed, NEW r \in Msgs, LoopStep(r)
    PROVE  SlotNamed'
<1>1. CASE TurnRegister(r)
  BY <1>1, SlotTurn DEF TurnRegister, InEngine
<1>2. CASE TurnRun(r)
  BY <1>2, SlotTurn DEF TurnRun, InEngine
<1>3. CASE TurnRecord(r)
  BY <1>3, SlotTurn DEF TurnRecord, InEngine, engine
<1>4. CASE TurnEnd(r)
  BY <1>4, SlotTurn DEF TurnEnd, InEngine
<1>5. CASE TurnRelease(r)
  BY <1>5, SlotTurn DEF TurnRelease
<1>6. CASE LoopExit(r)
  BY <1>6, SlotTurn DEF LoopExit, InEngine, engine
<1>7. CASE LoopNext(r)
  BY <1>7, SlotTurn DEF LoopNext, InEngine, engine
<1>8. CASE LoopDone(r)
  BY <1>8, SlotTurn DEF LoopDone, InEngine, engine
<1> QED BY <1>1, <1>2, <1>3, <1>4, <1>5, <1>6, <1>7, <1>8 DEF LoopStep

LEMMA CompactStepSlot ==
    ASSUME ExclInv, SlotNamed, NEW c \in Clients, CompactStep(c)
    PROVE  SlotNamed'
<1>1. op[c].step \in CompactSteps
  BY DEF CompactStep, CompactRegister, CompactRun, CompactEnd, CompactRelease,
         CompactSettle, Step, Return, CompactSteps
<1>2. \A r \in Msgs : ~Live(r)
  BY <1>1, ExclCompacting
<1>3. slot \notin Msgs
  BY <1>2 DEF SlotNamed, Live, InEngine, InRunInput
<1>4. slot' \in {slot, None, Compaction}
  BY DEF CompactStep, CompactRegister, CompactRun, CompactEnd, CompactRelease,
         CompactSettle, engine
<1> QED BY <1>3, <1>4, MsgsAssumption DEF SlotNamed

-----------------------------------------------------------------------------
(* Every step preserves the invariant.                                     *)

LEMMA QueueStepDel ==
    ASSUME DelInv, QueueStep
    PROVE  DelInv'
<1>1. ExclInv' /\ ExclInv /\ SlotNamed
  BY QueueStepExcl DEF DelInv
<1>2. ~deleted /\ UNCHANGED <<deleted, store, op, slot>> /\ (UNCHANGED pc \/ ~Busy)
  BY DEF QueueStep, SubmitQueued, SubmitResume, SubmitStarted, EnqueueInput, RewindTurn,
         UpdateQueuedMessage, DeleteQueuedMessage, Accept, sched, loop, engine, disk
<1>3. SlotNamed'
  BY <1>1, <1>2, SlotFrame, SlotCreate
<1>4. NoDeletion
  BY <1>2 DEF NoDeletion
<1> QED BY <1>1, <1>2, <1>3, <1>4, DelOpen

LEMMA StopSessionDel ==
    ASSUME DelInv, NEW c \in Clients, StopSession(c)
    PROVE  DelInv'
<1> DEFINE call == [Idle EXCEPT !.kind = "delete", !.run = runner,
                                !.ctx = IF runner = None THEN None ELSE cur[runner],
                                !.step = IF runner = None THEN "cancelSlot" ELSE "cancelRun"]
<1>1. ExclInv' /\ ExclInv
  BY UserStepExcl DEF DelInv, UserStep
<1>2. \A d \in Clients : op'[d] = IF d = c THEN call ELSE op[d]
  BY <1>1 DEF StopSession, Begin, ExclInv, TypeInv, TypeOK
<1>3. /\ call.kind = "delete" /\ call.run = runner
      /\ call.ctx = IF runner = None THEN None ELSE cur[runner]
      /\ call.step = IF runner = None THEN "cancelSlot" ELSE "cancelRun"
  BY DEF Idle
<1> HIDE DEF call
<1>4. deleted' /\ queue' = <<>> /\ store = "open" /\ UNCHANGED <<store, pc, cur, cause, slot>>
  BY DEF StopSession, loop, engine, disk
<1>5. \A r \in Msgs : Live(r)' <=> Live(r)
  BY <1>4 DEF Live
<1>6. \A r \in Msgs : Live(r) => r = call.run /\ cur[r] = call.ctx
  BY <1>1, <1>3, MsgsAssumption DEF ExclInv, OneRunPerSession
<1>7. (DeleteShape(op[c]) /\ DeleteRunner(op[c]))'
  <2>1. op'[c] = call /\ call.step \notin {"waitRunner"} \cup Removal
    BY <1>2, <1>3 DEF Removal
  <2>2. DeleteShape(op[c])'
    BY <1>3, <2>1 DEF DeleteShape
  <2>3. \A r \in Msgs : Live(r)' => r = call.run /\ cur'[r] = call.ctx
    BY <1>4, <1>5, <1>6
  <2>4. DeleteRunner(op[c])'
    BY <1>4, <2>1, <2>3 DEF DeleteRunner
  <2> QED BY <2>2, <2>4
<1>8. ASSUME NEW d \in Clients, d # c PROVE (DeleteShape(op[d]) /\ DeleteRunner(op[d]))'
  <2>1. DeleteShape(op[d]) /\ DeleteRunner(op[d]) /\ op'[d] = op[d]
    BY <1>2, <1>8 DEF DelInv, DelCalls
  <2> QED BY <1>4, <1>5, <2>1 DEF DeleteShape, DeleteRunner
<1>9. LogOwned'
  <2>1. \A d \in Clients : op[d].step # "log"
    BY <1>4 DEF DelInv, LogOwned
  <2> QED BY <1>2, <1>3, <2>1 DEF LogOwned
<1>10. SlotNamed'
  BY <1>4, SlotFrame DEF DelInv
<1> QED BY <1>1, <1>4, <1>7, <1>8, <1>9, <1>10 DEF DelInv, ClosedQueue, DelCalls

LEMMA UserStepDel ==
    ASSUME DelInv, NEW c \in Clients, UserStep(c)
    PROVE  DelInv'
<1>1. ExclInv' /\ ExclInv /\ SlotNamed
  BY UserStepExcl DEF DelInv
<1>2. op \in [Clients -> Calls] /\ runner \in Msgs \cup {None} /\ cur \in [Msgs -> Msgs \cup {None}]
  BY <1>1 DEF ExclInv, TypeInv, TypeOK
<1>3. ASSUME NEW i \in DOMAIN queue, DispatchBusy(c, i) PROVE DelInv'
  <2>1. UNCHANGED <<slot, pc, deleted, store>> /\ ~deleted
    BY <1>3 DEF DispatchBusy, loop, engine, disk
  <2>2. op'[c].kind = "dispatch" /\ op'[c].step = "cancelRun"
    BY <1>2, <1>3 DEF DispatchBusy, Begin, Idle
  <2>3. \A d \in Clients : d # c => op'[d] = op[d]
    BY <1>2, <1>3 DEF DispatchBusy, Begin
  <2>4. SlotNamed'
    BY <1>1, <2>1, SlotFrame
  <2>5. NoDeletion
    BY <2>2, <2>3 DEF NoDeletion, WaitSteps
  <2> QED BY <1>1, <2>1, <2>4, <2>5, DelOpen
<1>4. ASSUME NEW i \in DOMAIN queue, DispatchIdle(c, i) PROVE DelInv'
  <2>1. UNCHANGED <<slot, op, deleted, store>> /\ ~deleted /\ ~Busy
    BY <1>4 DEF DispatchIdle, engine, disk
  <2>2. SlotNamed'
    BY <1>1, <2>1, SlotCreate
  <2>3. NoDeletion
    BY <2>1 DEF NoDeletion
  <2> QED BY <1>1, <2>1, <2>2, <2>3, DelOpen
<1>5. CASE CancelCurrentTurn(c)
  <2> DEFINE call == [Idle EXCEPT !.kind = "stop", !.step = "cancelRun", !.run = runner,
                             !.ctx = IF runner = None THEN None ELSE cur[runner]]
  <2>1. UNCHANGED <<queue, deleted, pc, cur, slot, cause, store>>
    BY <1>5 DEF CancelCurrentTurn, loop, engine, disk
  <2>2. call \in Calls /\ call.kind = "stop" /\ call.step = "cancelRun"
    BY <1>2 DEF Idle, Calls, Kinds, Steps, Runs
  <2>3. op' = [op EXCEPT ![c] = call]
    BY <1>5 DEF CancelCurrentTurn, Begin
  <2>4. SlotNamed'
    BY <1>1, <2>1, SlotFrame
  <2>5. DeleteShape(call)
    BY <2>2 DEF DeleteShape, WaitSteps
  <2> HIDE DEF call
  <2> QED BY <1>1, <2>1, <2>2, <2>3, <2>4, <2>5, DelCall
<1>6. CASE StopSession(c)
  BY <1>6, StopSessionDel
<1>7. CASE CompactBegin(c)
  <2>1. UNCHANGED <<slot, pc, deleted, store>> /\ ~deleted
    BY <1>7 DEF CompactBegin, loop, engine, disk
  <2>2. op'[c].kind = "compact" /\ op'[c].step = "begin"
    BY <1>2, <1>7 DEF CompactBegin, Begin, Idle
  <2>3. \A d \in Clients : d # c => op'[d] = op[d]
    BY <1>2, <1>7 DEF CompactBegin, Begin
  <2>4. SlotNamed'
    BY <1>1, <2>1, SlotFrame
  <2>5. NoDeletion
    BY <2>2, <2>3 DEF NoDeletion, WaitSteps
  <2> QED BY <1>1, <2>1, <2>4, <2>5, DelOpen
<1> QED BY <1>3, <1>4, <1>5, <1>6, <1>7 DEF UserStep

LEMMA LoopStepDel ==
    ASSUME DelInv, NEW r \in Msgs, LoopStep(r)
    PROVE  DelInv'
<1>1. ExclInv' /\ ExclInv /\ SlotNamed'
  BY LoopStepExcl, LoopStepSlot DEF DelInv
<1>2. UNCHANGED <<deleted, store, op>>
  BY DEF LoopStep, TurnRegister, TurnRun, TurnRecord, TurnEnd, TurnRelease, LoopExit,
         LoopNext, LoopDone, sched, disk
<1>3. CASE LoopNext(r)
  <2>1. ~deleted
    BY <1>3 DEF LoopNext, DelInv, ClosedQueue
  <2>2. NoDeletion
    BY <1>2 DEF NoDeletion
  <2> QED BY <1>1, <1>2, <2>1, <2>2, DelOpen
<1>4. CASE ~LoopNext(r)
  <2>1. UNCHANGED <<queue, cur>>
    BY <1>4 DEF LoopStep, TurnRegister, TurnRun, TurnRecord, TurnEnd, TurnRelease,
         LoopExit, LoopDone, sched
  <2>2. \A x \in Msgs : x # r => pc'[x] = pc[x]
    BY <1>1, <1>4 DEF LoopStep, TurnRegister, TurnRun, TurnRecord, TurnEnd, TurnRelease,
         LoopExit, LoopDone, At, ExclInv, TypeInv, TypeOK
  <2>3. /\ pc[r] # "done" /\ (Live(r)' => Live(r))
        /\ pc'[r] \in InRunInput => pc[r] \in InRunInput
    BY <1>1, <1>4 DEF LoopStep, TurnRegister, TurnRun, TurnRecord, TurnEnd, TurnRelease,
         LoopExit, LoopDone, At, ExclInv, TypeInv, TypeOK, Live, InRunInput
  <2>4. cause' = cause \/ cause' = Cancelled(cur[r], "ended")
    BY <1>4 DEF LoopStep, TurnRegister, TurnRun, TurnRecord, TurnEnd, TurnRelease,
         LoopExit, LoopDone, engine
  <2>5. \A m \in Msgs : cause[m] # "none" => cause'[m] # "none"
    BY <1>1, <2>4 DEF Cancelled, ExclInv, TypeInv, TypeOK, Runs
  <2>6. Settled
    BY <1>2, <2>1, <2>2, <2>3, <2>5 DEF Settled, Live
  <2> QED BY <1>1, <1>2, <2>6, DelSettled
<1> QED BY <1>3, <1>4

\* A cancelled run stays cancelled, and the run named is cancelled.
LEMMA CancelledKeeps ==
    ASSUME ExclInv, NEW run, NEW why, cause' = Cancelled(run, why)
    PROVE  /\ \A m \in Msgs : cause[m] # "none" => cause'[m] # "none"
           /\ run \in Msgs /\ why # "none" => cause'[run] # "none"
BY MsgsAssumption DEF Cancelled, ExclInv, TypeInv, TypeOK, Runs

\* A call that returns, whatever it did to its run.
LEMMA DelReturn ==
    ASSUME DelInv, ExclInv', SlotNamed', NEW c \in Clients, NEW from, Return(c, from),
           UNCHANGED <<queue, deleted, pc, cur>>,
           \A m \in Msgs : cause[m] # "none" => cause'[m] # "none",
           store' = store \/ from = "log"
    PROVE  DelInv'
<1>1. Idle.step = "none" /\ Idle.kind = "none"
  BY DEF Idle
<1>2. DeleteShape(Idle)
  BY <1>1 DEF DeleteShape, WaitSteps
<1> QED BY <1>1, <1>2, IdleType, DelCall DEF Return

\* A call that goes on to another step.
LEMMA DelStep ==
    ASSUME DelInv, ExclInv', SlotNamed', NEW c \in Clients, NEW from, NEW to \in Steps,
           Step(c, from, to),
           UNCHANGED <<queue, deleted, pc, cur>>,
           \A m \in Msgs : cause[m] # "none" => cause'[m] # "none",
           to \in WaitSteps => op[c].kind = "delete",
           to \in {"cancelSlot", "loadDone", "waitSlot"} => op[c].run = None,
           op[c].kind = "delete" /\ op[c].run # None =>
              /\ to \in Removal /\ ~op[c].late => pc[op[c].run] = "done"
              /\ to \in {"waitRunner"} \cup Removal
                   => \/ from \in {"waitRunner"} \cup Removal
                      \/ Live(op[c].run) /\ op[c].ctx \in Msgs => cause'[op[c].ctx] # "none",
           \/ store' = store /\ to # "log"
           \/ store = "open" /\ store' = "headless" /\ op[c].kind = "delete"
    PROVE  DelInv'
<1> DEFINE call == [op[c] EXCEPT !.step = to]
<1>1. op[c] \in Calls
  BY DEF DelInv, ExclInv, TypeInv, TypeOK
<1>2. /\ call \in Calls /\ call.step = to /\ call.kind = op[c].kind
      /\ call.run = op[c].run /\ call.ctx = op[c].ctx /\ call.late = op[c].late
  BY <1>1 DEF Calls
<1>3. op' = [op EXCEPT ![c] = call] /\ op[c].step = from
  BY DEF Step
<1> HIDE DEF call
<1>4. DeleteShape(call)
  BY <1>2 DEF DeleteShape
<1> QED BY <1>2, <1>3, <1>4, DelCall

LEMMA CallStepDel ==
    ASSUME DelInv, NEW c \in Clients, CallStep(c)
    PROVE  DelInv'
<1>1. ExclInv' /\ ExclInv
  BY CallStepExcl DEF DelInv
<1>2. UNCHANGED <<queue, deleted, pc, cur, slot>>
  BY DEF CallStep, CancelWithReason, CancelRunnerContext, CancelAndWait, LoadDone,
         StopWaited, StopTimedOut, DeleteMetadata, DeleteLog, sched, loop, engine
<1>3. SlotNamed'
  BY <1>2, SlotFrame DEF DelInv
<1>4. DeleteShape(op[c]) /\ DeleteRunner(op[c])
  BY DEF DelInv, DelCalls
<1>5. op[c] \in Calls /\ dones \in Runs \cup {None}
  BY <1>1 DEF ExclInv, TypeInv, TypeOK
<1>6. {"cancelCtx", "waitRunner", "meta", "log", "loadDone", "waitSlot"} \subseteq Steps
  BY DEF Steps
<1>7. CASE op[c].step = "cancelRun" /\ CancelWithReason(c)
  <2>1. \A m \in Msgs : cause[m] # "none" => cause'[m] # "none"
    BY <1>1, <1>7, CancelledKeeps DEF CancelWithReason
  <2>2. store' = store
    BY <1>7 DEF CancelWithReason, disk
  <2>3. CASE Return(c, "cancelRun")
    BY <1>1, <1>2, <1>3, <2>1, <2>2, <2>3, DelReturn
  <2>4. CASE Step(c, "cancelRun", "cancelCtx")
    BY <1>1, <1>2, <1>3, <1>6, <2>1, <2>2, <2>4, DelStep DEF WaitSteps, Removal
  <2> QED BY <1>7, <2>3, <2>4 DEF CancelWithReason
<1>8. CASE op[c].step = "cancelCtx" /\ CancelRunnerContext(c)
  <2>1. PICK m \in {op[c].ctx} \cup (IF op[c].kind = "dispatch" THEN {} ELSE {cur[op[c].run]}) :
          cause' = Cancelled(m, Reason(op[c].kind))
    BY <1>8 DEF CancelRunnerContext
  <2>2. \A x \in Msgs : cause[x] # "none" => cause'[x] # "none"
    BY <1>1, <2>1, CancelledKeeps
  <2>3. store' = store
    BY <1>8 DEF CancelRunnerContext, disk
  <2>4. CASE op[c].kind = "delete"
    <3>1. Step(c, "cancelCtx", "waitRunner")
      BY <1>8, <2>4 DEF CancelRunnerContext
    <3>2. op[c].run # None /\ Live(op[c].run) => m = op[c].ctx
      BY <1>4, <1>5, <2>1, <2>4 DEF DeleteRunner, Calls
    <3>3. Reason(op[c].kind) # "none"
      BY <2>4 DEF Reason
    <3>4. op[c].run # None /\ Live(op[c].run) /\ op[c].ctx \in Msgs => cause'[op[c].ctx] # "none"
      BY <1>1, <2>1, <3>2, <3>3, CancelledKeeps
    <3> QED BY <1>1, <1>2, <1>3, <1>6, <2>2, <2>3, <2>4, <3>1, <3>4, DelStep
            DEF WaitSteps, Removal
  <2>5. CASE op[c].kind # "delete"
    <3>1. Return(c, "cancelCtx")
      BY <1>8, <2>5 DEF CancelRunnerContext
    <3> QED BY <1>1, <1>2, <1>3, <2>2, <2>3, <3>1, DelReturn
  <2> QED BY <2>4, <2>5
<1>9. CASE op[c].step = "cancelSlot" /\ CancelAndWait(c)
  <2>1. \A m \in Msgs : cause[m] # "none" => cause'[m] # "none"
    BY <1>1, <1>9, CancelledKeeps DEF CancelAndWait
  <2>2. store' = store /\ op[c].run = None /\ op[c].kind = "delete"
    BY <1>4, <1>9 DEF CancelAndWait, disk, DeleteShape, WaitSteps
  <2>3. Step(c, "cancelSlot", "meta") \/ Step(c, "cancelSlot", "loadDone")
    BY <1>9 DEF CancelAndWait
  <2> QED BY <1>1, <1>2, <1>3, <1>6, <2>1, <2>2, <2>3, DelStep
<1>10. CASE LoadDone(c)
  <2> DEFINE call == [op[c] EXCEPT !.step = IF dones = None THEN "meta" ELSE "waitSlot",
                                   !.ctx = dones]
  <2>1. /\ call \in Calls /\ call.step \in {"meta", "waitSlot"} /\ call.kind = op[c].kind
        /\ call.run = op[c].run
    BY <1>5 DEF Calls, Steps
  <2>2. op[c].run = None /\ op[c].kind = "delete"
    BY <1>4, <1>10 DEF LoadDone, DeleteShape, WaitSteps
  <2>3. op' = [op EXCEPT ![c] = call] /\ UNCHANGED <<cause, store>>
    BY <1>10 DEF LoadDone, engine, disk
  <2> HIDE DEF call
  <2>4. DeleteShape(call)
    BY <2>1, <2>2 DEF DeleteShape
  <2> QED BY <1>1, <1>2, <1>3, <2>1, <2>2, <2>3, <2>4, DelCall
<1>11. CASE StopWaited(c)
  <2>1. UNCHANGED <<cause, store>>
    BY <1>11 DEF StopWaited, engine, disk
  <2>2. op[c].kind = "delete"
    BY <1>4, <1>11 DEF StopWaited, Step, DeleteShape, WaitSteps
  <2>3. CASE Step(c, "waitSlot", "meta")
    <3>1. op[c].run = None
      BY <1>4, <2>2, <2>3 DEF Step, DeleteShape
    <3> QED BY <1>1, <1>2, <1>3, <1>6, <2>1, <2>2, <2>3, <3>1, DelStep
  <2>4. CASE Step(c, "waitRunner", "meta") /\ pc[op[c].run] = "done"
    BY <1>1, <1>2, <1>3, <1>6, <2>1, <2>2, <2>4, DelStep
  <2> QED BY <1>11, <2>3, <2>4 DEF StopWaited
<1>12. CASE StopTimedOut(c)
  <2> DEFINE call == [op[c] EXCEPT !.step = "meta", !.late = TRUE]
  <2>1. /\ call \in Calls /\ call.step = "meta" /\ call.kind = op[c].kind /\ call.late
        /\ call.run = op[c].run /\ call.ctx = op[c].ctx
    BY <1>5 DEF Calls, Steps
  <2>2. op[c].kind = "delete" /\ (op[c].step = "waitRunner" \/ op[c].run = None)
    BY <1>4, <1>12 DEF StopTimedOut, DeleteShape, WaitSteps
  <2>3. op' = [op EXCEPT ![c] = call] /\ UNCHANGED <<cause, store>>
    BY <1>12 DEF StopTimedOut, engine, disk
  <2> HIDE DEF call
  <2>4. DeleteShape(call)
    BY <2>1, <2>2 DEF DeleteShape
  <2> QED BY <1>1, <1>2, <1>3, <2>1, <2>2, <2>3, <2>4, DelCall
<1>13. CASE DeleteMetadata(c)
  <2>1. cause' = cause /\ op[c].step = "meta" /\ op[c].kind = "delete"
    BY <1>4, <1>13 DEF DeleteMetadata, Step, Return, engine, DeleteShape, WaitSteps
  <2>2. op[c].run # None /\ ~op[c].late => pc[op[c].run] = "done"
    BY <1>4, <2>1 DEF DeleteRunner, Removal
  <2>3. CASE Step(c, "meta", "log") /\ store = "open" /\ store' = "headless"
    BY <1>1, <1>2, <1>3, <1>6, <2>1, <2>2, <2>3, DelStep DEF Removal
  <2>4. CASE Return(c, "meta") /\ store' = store
    BY <1>1, <1>2, <1>3, <2>1, <2>4, DelReturn
  <2> QED BY <1>13, <2>3, <2>4 DEF DeleteMetadata
<1>14. CASE DeleteLog(c)
  <2>1. cause' = cause /\ Return(c, "log")
    BY <1>14 DEF DeleteLog, engine
  <2> QED BY <1>1, <1>2, <1>3, <2>1, DelReturn
<1> QED BY <1>7, <1>8, <1>9, <1>10, <1>11, <1>12, <1>13, <1>14 DEF CallStep

LEMMA CompactStepDel ==
    ASSUME DelInv, NEW c \in Clients, CompactStep(c)
    PROVE  DelInv'
<1>1. ExclInv' /\ ExclInv /\ SlotNamed'
  BY CompactStepExcl, CompactStepSlot DEF DelInv
<1>2. UNCHANGED <<deleted, store>>
  BY DEF CompactStep, CompactRegister, CompactRun, CompactEnd, CompactRelease,
         CompactSettle, sched, disk
<1>3. op[c].step \in CompactSteps
  BY DEF CompactStep, CompactRegister, CompactRun, CompactEnd, CompactRelease,
         CompactSettle, Step, Return, CompactSteps
<1>4. op[c].kind = "compact" /\ CompactSteps \subseteq Steps /\ CompactSteps \cap WaitSteps = {}
  BY <1>1, <1>3 DEF ExclInv, CallShape, InCompaction, Steps, CompactSteps, WaitSteps
<1>5. CASE CompactSettle(c) /\ ~deleted
  <2>1. \A d \in Clients : op'[d] = IF d = c THEN Idle ELSE op[d]
    BY <1>1, <1>5 DEF CompactSettle, Return, ExclInv, TypeInv, TypeOK
  <2>2. NoDeletion
    BY <2>1 DEF NoDeletion, Idle, WaitSteps
  <2> QED BY <1>1, <1>2, <1>5, <2>2, DelOpen
<1>6. CASE CompactSettle(c) /\ deleted
  <2>1. UNCHANGED <<queue, pc, cur, cause>> /\ Return(c, "settle")
    BY <1>6 DEF CompactSettle, loop, engine
  <2> QED BY <1>1, <1>2, <2>1, DelReturn
<1>7. CASE ~CompactSettle(c)
  <2>1. UNCHANGED <<queue, pc, cur>>
    BY <1>7 DEF CompactStep, CompactRegister, CompactRun, CompactEnd, CompactRelease, sched, loop
  <2>2. PICK from \in CompactSteps, to \in CompactSteps : Step(c, from, to)
    BY <1>7 DEF CompactStep, CompactRegister, CompactRun, CompactEnd, CompactRelease, CompactSteps
  <2>3. \A m \in Msgs : cause[m] # "none" => cause'[m] # "none"
    BY <1>1, <1>7, MsgsAssumption
       DEF CompactStep, CompactRegister, CompactRun, CompactEnd, CompactRelease, Cancelled,
           ExclInv, TypeInv, TypeOK, Runs
  <2>4. to \in Steps /\ to \notin WaitSteps /\ to # "log"
    BY <1>4 DEF WaitSteps
  <2> QED BY <1>1, <1>2, <1>4, <2>1, <2>2, <2>3, <2>4, DelStep DEF WaitSteps
<1> QED BY <1>5, <1>6, <1>7

LEMMA DelNext == DelInv /\ [Next]_vars => DelInv'
<1> SUFFICES ASSUME DelInv, [Next]_vars PROVE DelInv'
  OBVIOUS
<1>1. CASE Next
  BY <1>1, QueueStepDel, UserStepDel, CallStepDel, CompactStepDel, LoopStepDel DEF Next
<1>2. CASE UNCHANGED vars
  <2>1. ExclInv'
    BY ExclNext DEF DelInv
  <2>2. UNCHANGED <<queue, deleted, pc, cur, slot, cause, store, op>>
    BY <1>2 DEF vars, sched, loop, engine, disk
  <2>3. SlotNamed'
    BY <2>2, SlotFrame DEF DelInv
  <2>4. Settled
    BY <2>2 DEF Settled, Live
  <2> QED BY <2>1, <2>2, <2>3, <2>4, DelSettled
<1> QED BY <1>1, <1>2

LEMMA DelAlways == Spec => []DelInv
BY DelInit, DelNext, PTL DEF Spec

-----------------------------------------------------------------------------
(* What follows for deletion.                                              *)

\* Unless the grace period runs out, DeleteSession removes a session only after
\* its turn has left the engine (stopSessionAndWait, queue.go:805-825).
THEOREM DeletionWaits == Spec => []DeletionWaitsForTurn
<1>1. DelInv => DeletionWaitsForTurn
  <2> SUFFICES ASSUME DelInv, NEW c \in Clients,
                      op[c].kind = "delete", op[c].step \in Removal, ~op[c].late
               PROVE  slot \notin Msgs /\ \A r \in Msgs : pc[r] \notin InRunInput
    BY DEF DeletionWaitsForTurn, Removal
  <2>1. DeleteRunner(op[c]) /\ SlotNamed
    BY DEF DelInv, DelCalls
  <2>2. \A r \in Msgs : pc[r] \notin InRunInput
    <3> SUFFICES ASSUME NEW r \in Msgs, pc[r] \in InRunInput PROVE FALSE
      OBVIOUS
    <3>1. r = op[c].run /\ r # None
      BY <2>1, MsgsAssumption DEF DeleteRunner, Live
    <3>2. pc[r] = "done"
      BY <2>1, <3>1 DEF DeleteRunner
    <3> QED BY <3>2 DEF InRunInput
  <2> QED BY <2>1, <2>2 DEF SlotNamed, InEngine, InRunInput
<1> QED BY <1>1, DelAlways, PTL

\* A deletion that has cancelled its runner has cancelled the turn that runner is
\* in, although runner.cancel is read without the lock.
THEOREM DeletionCancels == Spec => []DeletionCancelsTurn
<1>1. DelInv => DeletionCancelsTurn
  <2> SUFFICES ASSUME DelInv, NEW c \in Clients,
                      op[c].kind = "delete", op[c].step \in {"waitRunner", "meta", "log"},
                      op[c].run # None, pc[op[c].run] \in InRunInput
               PROVE  cause[cur[op[c].run]] # "none"
    BY DEF DeletionCancelsTurn
  <2>1. op[c].run \in Msgs
    BY DEF DelInv, ExclInv, TypeInv, TypeOK, Calls
  <2>2. DeleteRunner(op[c])
    BY DEF DelInv, DelCalls
  <2> QED BY <2>1, <2>2 DEF DeleteRunner, Removal
<1> QED BY <1>1, DelAlways, PTL

-----------------------------------------------------------------------------
(* What follows for rewinds and for the wake-up of the queue.              *)

LEMMA RewindStep ==
    ASSUME DelInv, [Next]_vars, Len(history') < Len(history), store' = store
    PROVE  /\ slot = None /\ dones = None
           /\ \A r \in Msgs : ~Live(r)
           /\ \A c \in Clients : ~InCompaction(c)
<1>1. ExclInv /\ LogOwned
  BY DEF DelInv
<1>2. Len(history) \in Nat /\ history \in Seq(Msgs) /\ cur \in [Msgs -> Msgs \cup {None}]
  BY <1>1 DEF ExclInv, TypeInv, TypeOK
<1>3. history' # history
  BY <1>2
<1>4. PICK m \in Msgs : RewindTurn(m)
  <2>1. Next
    BY <1>3 DEF vars, disk
  <2>2. CASE QueueStep
    BY <1>3, <2>2 DEF QueueStep, SubmitQueued, SubmitResume, SubmitStarted, EnqueueInput,
       UpdateQueuedMessage, DeleteQueuedMessage, disk
  <2>3. ASSUME NEW c \in Clients, UserStep(c) PROVE FALSE
    BY <1>3, <2>3 DEF UserStep, DispatchBusy, DispatchIdle, CancelCurrentTurn, StopSession,
       CompactBegin, disk
  <2>4. ASSUME NEW c \in Clients, CallStep(c) PROVE FALSE
    <3>1. DeleteLog(c)
      BY <1>3, <2>4 DEF CallStep, CancelWithReason, CancelRunnerContext, CancelAndWait,
         LoadDone, StopWaited, StopTimedOut, DeleteMetadata, disk
    <3>2. store = "headless"
      BY <1>1, <3>1 DEF DeleteLog, Return, LogOwned
    <3> QED BY <1>3, <3>1, <3>2 DEF DeleteLog, disk
  <2>5. ASSUME NEW c \in Clients, CompactStep(c) PROVE FALSE
    BY <1>3, <2>5 DEF CompactStep, CompactRegister, CompactRun, CompactEnd, CompactRelease,
       CompactSettle, disk
  <2>6. ASSUME NEW r \in Msgs, LoopStep(r) PROVE FALSE
    <3>1. TurnRecord(r)
      BY <1>3, <2>6 DEF LoopStep, TurnRegister, TurnRun, TurnEnd, TurnRelease, LoopExit,
         LoopNext, LoopDone, disk
    <3>2. history' = Append(history, cur[r]) /\ cur[r] \in Msgs
      BY <1>1, <1>3, <3>1
         DEF TurnRecord, At, ExclInv, TypeInv, LiveCur, Live, InRunInput
    <3>3. Len(history') = Len(history) + 1
      BY <1>2, <3>2, AppendProperties
    <3> QED BY <1>2, <3>3
  <2> QED BY <2>1, <2>2, <2>3, <2>4, <2>5, <2>6 DEF Next
<1>5. runner = None /\ ~compacting
  BY <1>4 DEF RewindTurn, Busy
<1>6. \A r \in Msgs : ~Live(r)
  BY <1>1, <1>5, MsgsAssumption DEF ExclInv, OneRunPerSession
<1>7. \A c \in Clients : ~InCompaction(c) /\ op[c].step \notin CompactSteps
  BY <1>1, <1>5 DEF ExclInv, OneRunPerSession, CallShape
<1>8. slot = None /\ dones = None
  BY <1>1, <1>6, <1>7
     DEF ExclInv, SlotOwned, DoneOwned, InEngine, CompactInEngine, CompactSteps, Live, InRunInput
<1> QED BY <1>6, <1>7, <1>8

\* RewindTurn meets no run of the session anywhere, not even one on its way in or
\* out of the engine: the checks it makes under turns.mu (queue.go:666-677) suffice.
THEOREM RewindAlone == Spec => RewindExclusive
<1>1. DelInv /\ [Next]_vars
        => [Len(history') < Len(history) /\ store' = store
              => /\ slot = None /\ dones = None
                 /\ \A r \in Msgs : ~Live(r)
                 /\ \A c \in Clients : ~InCompaction(c)]_vars
  BY RewindStep
<1> QED BY <1>1, DelAlways, PTL DEF Spec, RewindExclusive

LEMMA WakeupStep ==
    ASSUME DelInv, [Next]_vars, Busy, ~Busy'
    PROVE  queue' = <<>> \/ (runner # None /\ stopAfter)
<1>1. ExclInv /\ ClosedQueue
  BY DEF DelInv
<1>2. runner' # runner \/ compacting' # compacting
  BY DEF Busy
<1>3. runner' = None /\ ~compacting'
  BY DEF Busy
<1>4. queue \in Seq(Msgs)
  BY <1>1 DEF ExclInv, TypeInv, TypeOK
<1>5. Next
  BY <1>2 DEF vars, sched
<1>6. CASE QueueStep
  BY <1>2, <1>3, <1>4, <1>6, MsgsAssumption
     DEF QueueStep, SubmitQueued, SubmitResume, SubmitStarted, EnqueueInput, RewindTurn,
         UpdateQueuedMessage, DeleteQueuedMessage, CreateRunner, sched
<1>7. ASSUME NEW c \in Clients, UserStep(c) PROVE FALSE
  <2>1. \A i \in DOMAIN queue : queue[i] \in Msgs
    BY <1>4
  <2> QED BY <1>2, <1>3, <1>7, <2>1, MsgsAssumption
          DEF UserStep, DispatchBusy, DispatchIdle, CancelCurrentTurn, StopSession,
              CompactBegin, CreateRunner
<1>8. ASSUME NEW c \in Clients, CallStep(c) PROVE FALSE
  BY <1>2, <1>8 DEF CallStep, CancelWithReason, CancelRunnerContext, CancelAndWait,
     LoadDone, StopWaited, StopTimedOut, DeleteMetadata, DeleteLog, sched
<1>9. ASSUME NEW c \in Clients, CompactStep(c) PROVE queue' = <<>>
  <2>1. CompactSettle(c)
    BY <1>2, <1>9 DEF CompactStep, CompactRegister, CompactRun, CompactEnd, CompactRelease, sched
  <2>2. CASE deleted \/ queue = <<>>
    BY <1>1, <2>1, <2>2 DEF CompactSettle, ClosedQueue
  <2>3. CASE ~(deleted \/ queue = <<>>)
    <3>1. runner' = Head(queue) /\ Head(queue) \in Msgs
      BY <1>4, <2>1, <2>3 DEF CompactSettle, CreateRunner
    <3> QED BY <1>3, <3>1, MsgsAssumption
  <2> QED BY <2>2, <2>3
<1>10. ASSUME NEW r \in Msgs, LoopStep(r) PROVE queue' = <<>> \/ (runner # None /\ stopAfter)
  <2>1. LoopExit(r)
    BY <1>2, <1>10 DEF LoopStep, TurnRegister, TurnRun, TurnRecord, TurnEnd, TurnRelease,
       LoopNext, LoopDone, sched
  <2>2. runner = r
    BY <1>1, <2>1 DEF LoopExit, At, ExclInv, OneRunPerSession, Live
  <2>3. stopAfter \/ queue = <<>>
    BY <1>1, <2>1, <2>2 DEF LoopExit, ClosedQueue
  <2> QED BY <2>1, <2>2, <2>3, MsgsAssumption DEF LoopExit
<1> QED BY <1>5, <1>6, <1>7, <1>8, <1>9, <1>10 DEF Next

\* A session that falls idle with messages waiting was told to: runTurnLoop and
\* CompactSession decide to leave under the lock that submissions take.
THEOREM WakeupAlways == Spec => WakeupKept
<1>1. DelInv /\ [Next]_vars
        => [Busy /\ ~Busy' => queue' = <<>> \/ (runner # None /\ stopAfter)]_vars
  BY WakeupStep
<1> QED BY <1>1, DelAlways, PTL DEF Spec, WakeupKept

-----------------------------------------------------------------------------
(* What the queue operators do to the elements of a sequence.              *)

\* append(items, item): the last place of the queue.
LEMMA AppendElements ==
    ASSUME NEW S, NEW s \in Seq(S), NEW e \in S
    PROVE  /\ ToSet(Append(s, e)) = ToSet(s) \cup {e}
           /\ IsInjective(s) /\ e \notin ToSet(s) => IsInjective(Append(s, e))
<1> DEFINE t == Append(s, e)
<1>1. /\ DOMAIN s = 1..Len(s) /\ Len(s) \in Nat
      /\ DOMAIN t = 1..(Len(s) + 1)
      /\ \A k \in 1..Len(s) : t[k] = s[k]
      /\ t[Len(s) + 1] = e
  OBVIOUS
<1> HIDE DEF t
<1>2. ToSet(t) = ToSet(s) \cup {e}
  <2>1. ToSet(t) \subseteq ToSet(s) \cup {e}
    BY <1>1 DEF ToSet
  <2>2. ToSet(s) \subseteq ToSet(t)
    BY <1>1 DEF ToSet
  <2>3. e \in ToSet(t)
    BY <1>1 DEF ToSet
  <2> QED BY <2>1, <2>2, <2>3
<1>3. ASSUME IsInjective(s), e \notin ToSet(s) PROVE IsInjective(t)
  BY <1>1, <1>3 DEF IsInjective, ToSet
<1> QED BY <1>2, <1>3 DEF t

\* items[0] and items[1:]: the oldest message and the others.
LEMMA HeadElements ==
    ASSUME NEW S, NEW s \in Seq(S), s # <<>>
    PROVE  /\ Head(s) \in S /\ Tail(s) \in Seq(S)
           /\ ToSet(s) = {Head(s)} \cup ToSet(Tail(s))
           /\ IsInjective(s) => Head(s) \notin ToSet(Tail(s)) /\ IsInjective(Tail(s))
<1> DEFINE t == Tail(s)
<1>1. /\ DOMAIN s = 1..Len(s) /\ Len(s) \in Nat /\ Len(s) > 0
      /\ t \in Seq(S) /\ DOMAIN t = 1..(Len(s) - 1)
      /\ \A k \in 1..(Len(s) - 1) : t[k] = s[k + 1]
      /\ Head(s) = s[1] /\ Head(s) \in S
  BY HeadTailProperties
<1> HIDE DEF t
<1>2. ToSet(s) = {Head(s)} \cup ToSet(t)
  <2>1. ASSUME NEW k \in DOMAIN s PROVE s[k] \in {Head(s)} \cup ToSet(t)
    <3>1. CASE k = 1
      BY <1>1, <3>1
    <3>2. CASE k # 1
      <4>1. k - 1 \in DOMAIN t /\ t[k - 1] = s[k]
        BY <1>1, <3>2
      <4> QED BY <4>1 DEF ToSet
    <3> QED BY <3>1, <3>2
  <2>2. {Head(s)} \cup ToSet(t) \subseteq ToSet(s)
    BY <1>1 DEF ToSet
  <2> QED BY <2>1, <2>2 DEF ToSet
<1>3. ASSUME IsInjective(s) PROVE Head(s) \notin ToSet(t) /\ IsInjective(t)
  <2>1. ASSUME NEW k \in DOMAIN t
        PROVE  k + 1 \in DOMAIN s /\ k + 1 # 1 /\ t[k] = s[k + 1]
    BY <1>1
  <2>2. ASSUME NEW k \in DOMAIN t, NEW l \in DOMAIN t, k + 1 = l + 1 PROVE k = l
    BY <1>1, <2>2
  <2>3. 1 \in DOMAIN s
    BY <1>1
  <2>4. Head(s) \notin ToSet(t)
    BY <1>1, <1>3, <2>1, <2>3 DEF IsInjective, ToSet
  <2>5. IsInjective(t)
    BY <1>3, <2>1, <2>2 DEF IsInjective
  <2> QED BY <2>4, <2>5
<1> QED BY <1>1, <1>2, <1>3 DEF t

\* append(items[:i], items[i+1:]...): the item at i and the others.
LEMMA RemoveAtElements ==
    ASSUME NEW S, NEW s \in Seq(S), NEW i \in DOMAIN s
    PROVE  /\ ToSet(s) = {s[i]} \cup ToSet(RemoveAt(s, i))
           /\ IsInjective(s) => s[i] \notin ToSet(RemoveAt(s, i)) /\ IsInjective(RemoveAt(s, i))
<1> DEFINE t == RemoveAt(s, i)
<1>1. /\ DOMAIN s = 1..Len(s) /\ Len(s) \in Nat /\ i \in 1..Len(s)
      /\ \A k \in 1..Len(s) : s[k] \in S
  OBVIOUS
<1>2. t \in Seq(S) /\ Len(t) = Len(s) - 1 /\ DOMAIN t = 1..(Len(s) - 1)
  BY RemoveAtType, RemoveAtLen
<1>3. \A k \in 1..(Len(s) - 1) : t[k] = IF k < i THEN s[k] ELSE s[k + 1]
  <2> DEFINE u == SubSeq(s, 1, i-1)
             v == SubSeq(s, i+1, Len(s))
  <2>1. u \in Seq(S) /\ Len(u) = i - 1 /\ \A k \in 1..(i-1) : u[k] = s[k]
    BY <1>1, SubSeqProperties
  <2>2. v \in Seq(S) /\ Len(v) = Len(s) - i /\ \A k \in 1..(Len(s) - i) : v[k] = s[i + k]
    BY <1>1, SubSeqProperties
  <2>3. t = u \o v
    BY DEF RemoveAt
  <2> HIDE DEF t, u, v
  <2>4. \A k \in 1..(Len(s) - 1) : t[k] = IF k <= i - 1 THEN u[k] ELSE v[k - (i - 1)]
    BY <1>1, <2>1, <2>2, <2>3, ConcatProperties
  <2>5. ASSUME NEW k \in 1..(Len(s) - 1), k < i PROVE t[k] = s[k]
    BY <1>1, <2>1, <2>4, <2>5
  <2>6. ASSUME NEW k \in 1..(Len(s) - 1), ~(k < i) PROVE t[k] = s[k + 1]
    <3>1. k - (i - 1) \in 1..(Len(s) - i) /\ i + (k - (i - 1)) = k + 1
      BY <1>1, <2>6
    <3>2. t[k] = v[k - (i - 1)]
      BY <1>1, <2>4, <2>6
    <3> QED BY <2>2, <3>1, <3>2
  <2> QED BY <2>5, <2>6
<1> HIDE DEF t
<1>4. ToSet(s) = {s[i]} \cup ToSet(t)
  <2>1. ASSUME NEW k \in DOMAIN s PROVE s[k] \in {s[i]} \cup ToSet(t)
    <3>1. CASE k < i
      <4>1. k \in DOMAIN t /\ t[k] = s[k]
        BY <1>1, <1>2, <1>3, <3>1
      <4> QED BY <4>1 DEF ToSet
    <3>2. CASE k > i
      <4>1. k - 1 \in DOMAIN t /\ t[k - 1] = s[k]
        BY <1>1, <1>2, <1>3, <3>2
      <4> QED BY <4>1 DEF ToSet
    <3> QED BY <1>1, <3>1, <3>2
  <2>2. ASSUME NEW k \in DOMAIN t PROVE t[k] \in ToSet(s)
    BY <1>1, <1>2, <1>3 DEF ToSet
  <2> QED BY <2>1, <2>2 DEF ToSet
<1>5. ASSUME IsInjective(s) PROVE s[i] \notin ToSet(t) /\ IsInjective(t)
  <2> DEFINE from(k) == IF k < i THEN k ELSE k + 1
  <2>1. ASSUME NEW k \in DOMAIN t
        PROVE  from(k) \in DOMAIN s /\ from(k) # i /\ t[k] = s[from(k)]
    BY <1>1, <1>2, <1>3
  <2>2. ASSUME NEW k \in DOMAIN t, NEW l \in DOMAIN t, from(k) = from(l) PROVE k = l
    BY <1>1, <1>2, <2>2
  <2> HIDE DEF from
  <2>3. s[i] \notin ToSet(t)
    BY <1>5, <2>1 DEF IsInjective, ToSet
  <2>4. IsInjective(t)
    BY <1>5, <2>1, <2>2 DEF IsInjective
  <2> QED BY <2>3, <2>4
<1> QED BY <1>4, <1>5 DEF t

\* slices.Insert: one item more.
LEMMA InsertAtElements ==
    ASSUME NEW S, NEW s \in Seq(S), NEW e \in S, NEW j \in 1..(Len(s) + 1)
    PROVE  /\ ToSet(InsertAt(s, j, e)) = ToSet(s) \cup {e}
           /\ IsInjective(s) /\ e \notin ToSet(s) => IsInjective(InsertAt(s, j, e))
<1> DEFINE t == InsertAt(s, j, e)
<1>1. /\ DOMAIN s = 1..Len(s) /\ Len(s) \in Nat /\ \A k \in 1..Len(s) : s[k] \in S
  OBVIOUS
<1>2. /\ SubSeq(s, 1, j-1) \in Seq(S) /\ Len(SubSeq(s, 1, j-1)) = j - 1
      /\ \A k \in 1..(j-1) : SubSeq(s, 1, j-1)[k] = s[k]
  BY <1>1, SubSeqProperties
<1>3. /\ SubSeq(s, j, Len(s)) \in Seq(S) /\ Len(SubSeq(s, j, Len(s))) = Len(s) - j + 1
      /\ \A k \in 1..(Len(s) - j + 1) : SubSeq(s, j, Len(s))[k] = s[j + k - 1]
  BY <1>1, SubSeqProperties
<1> DEFINE u == SubSeq(s, 1, j-1) \o <<e>>
<1>4. /\ u \in Seq(S) /\ Len(u) = j
      /\ \A k \in 1..j : u[k] = IF k < j THEN s[k] ELSE e
  <2>1. <<e>> \in Seq(S) /\ Len(<<e>>) = 1 /\ <<e>>[1] = e
    OBVIOUS
  <2> DEFINE front == SubSeq(s, 1, j-1)
             single == <<e>>
  <2>2. front \in Seq(S) /\ single \in Seq(S) /\ u = front \o single
    BY <1>2, <2>1
  <2>3. Len(front) = j - 1 /\ Len(single) = 1 /\ single[1] = e
        /\ \A k \in 1..(j - 1) : front[k] = s[k]
    BY <1>2, <2>1
  <2> HIDE DEF front, single, u
  <2>4. /\ u \in Seq(S) /\ Len(u) = Len(front) + Len(single)
        /\ \A k \in 1..(Len(front) + Len(single)) :
              u[k] = IF k <= Len(front) THEN front[k] ELSE single[k - Len(front)]
    BY <2>2, ConcatProperties
  <2>5. j \in Int /\ j - 1 + 1 = j
    BY <1>1
  <2>6. /\ Len(u) = j
        /\ \A k \in 1..j : u[k] = IF k <= j - 1 THEN front[k] ELSE single[k - (j - 1)]
    BY <2>3, <2>4, <2>5
  <2>7. ASSUME NEW k \in 1..j PROVE u[k] = IF k < j THEN s[k] ELSE e
    <3>1. CASE k < j
      BY <2>3, <2>5, <2>6, <3>1
    <3>2. CASE k = j
      BY <2>3, <2>5, <2>6, <3>2
    <3> QED BY <2>5, <3>1, <3>2
  <2> QED BY <2>4, <2>6, <2>7
<1>5. /\ DOMAIN t = 1..(Len(s) + 1)
      /\ \A k \in 1..(Len(s) + 1) :
            t[k] = IF k < j THEN s[k] ELSE IF k = j THEN e ELSE s[k - 1]
  <2>1. t = u \o SubSeq(s, j, Len(s))
    BY DEF InsertAt
  <2> HIDE DEF t, u
  <2>2. /\ t \in Seq(S) /\ Len(t) = Len(s) + 1
        /\ \A k \in 1..(Len(s) + 1) :
              t[k] = IF k <= j THEN u[k] ELSE SubSeq(s, j, Len(s))[k - j]
    BY <1>1, <1>3, <1>4, <2>1, ConcatProperties
  <2>3. DOMAIN t = 1..(Len(s) + 1)
    BY <2>2
  <2>4. ASSUME NEW k \in 1..(Len(s) + 1), k <= j
        PROVE  t[k] = IF k < j THEN s[k] ELSE IF k = j THEN e ELSE s[k - 1]
    BY <1>1, <1>4, <2>2, <2>4
  <2>5. ASSUME NEW k \in 1..(Len(s) + 1), k > j
        PROVE  t[k] = s[k - 1]
    <3>1. k - j \in 1..(Len(s) - j + 1) /\ j + (k - j) - 1 = k - 1
      BY <1>1, <2>5
    <3>2. t[k] = SubSeq(s, j, Len(s))[k - j]
      BY <1>1, <2>2, <2>5
    <3> QED BY <1>3, <3>1, <3>2
  <2> QED BY <1>1, <2>3, <2>4, <2>5
<1> HIDE DEF t, u
<1>6. ToSet(t) = ToSet(s) \cup {e}
  <2>1. ASSUME NEW k \in DOMAIN t PROVE t[k] \in ToSet(s) \cup {e}
    BY <1>1, <1>5 DEF ToSet
  <2>2. ASSUME NEW k \in DOMAIN s PROVE s[k] \in ToSet(t)
    <3>1. CASE k < j
      <4>1. k \in DOMAIN t /\ t[k] = s[k]
        BY <1>1, <1>5, <3>1
      <4> QED BY <4>1 DEF ToSet
    <3>2. CASE k >= j
      <4>1. k + 1 \in DOMAIN t /\ t[k + 1] = s[k]
        BY <1>1, <1>5, <3>2
      <4> QED BY <4>1 DEF ToSet
    <3> QED BY <1>1, <3>1, <3>2
  <2>3. e \in ToSet(t)
    <3>1. j \in DOMAIN t /\ t[j] = e
      BY <1>1, <1>5
    <3> QED BY <3>1 DEF ToSet
  <2> QED BY <2>1, <2>2, <2>3 DEF ToSet
<1>7. ASSUME IsInjective(s), e \notin ToSet(s) PROVE IsInjective(t)
  <2> DEFINE from(k) == IF k < j THEN k ELSE k - 1
  <2>1. ASSUME NEW k \in DOMAIN t, k # j
        PROVE  from(k) \in DOMAIN s /\ t[k] = s[from(k)] /\ t[k] # e
    <3>1. from(k) \in DOMAIN s /\ t[k] = s[from(k)]
      BY <1>1, <1>5, <2>1
    <3> HIDE DEF from
    <3> QED BY <1>7, <3>1 DEF ToSet
  <2>2. ASSUME NEW k \in DOMAIN t, NEW l \in DOMAIN t, k # j, l # j, from(k) = from(l)
        PROVE  k = l
    BY <1>1, <1>5, <2>2
  <2>3. j \in DOMAIN t /\ t[j] = e
    BY <1>1, <1>5
  <2> HIDE DEF from
  <2> QED BY <1>7, <2>1, <2>2, <2>3 DEF IsInjective
<1> QED BY <1>6, <1>7 DEF t

\* Moving an item keeps the items (UpdateQueuedMessage).
LEMMA MoveElements ==
    ASSUME NEW S, NEW s \in Seq(S), NEW i \in DOMAIN s, NEW j \in DOMAIN s, IsInjective(s)
    PROVE  /\ ToSet(InsertAt(RemoveAt(s, i), j, s[i])) = ToSet(s)
           /\ IsInjective(InsertAt(RemoveAt(s, i), j, s[i]))
<1> DEFINE t == RemoveAt(s, i)
<1>1. t \in Seq(S) /\ s[i] \in S
  BY RemoveAtType
<1>2. j \in 1..(Len(t) + 1)
  BY RemoveAtLen
<1>3. ToSet(s) = {s[i]} \cup ToSet(t) /\ s[i] \notin ToSet(t) /\ IsInjective(t)
  BY RemoveAtElements
<1> HIDE DEF t
<1>4. ToSet(InsertAt(t, j, s[i])) = ToSet(t) \cup {s[i]} /\ IsInjective(InsertAt(t, j, s[i]))
  BY <1>1, <1>2, <1>3, InsertAtElements
<1> QED BY <1>3, <1>4 DEF t

\* Promotion is a move to the front (dispatch).
LEMMA PromotedIsMove ==
    ASSUME queue \in Seq(Msgs), NEW i \in DOMAIN queue
    PROVE  1 \in DOMAIN queue /\ Promoted(i) = InsertAt(RemoveAt(queue, i), 1, queue[i])
<1> DEFINE t == RemoveAt(queue, i)
<1>1. t \in Seq(Msgs) /\ queue[i] \in Msgs
  BY RemoveAtType
<1>2. SubSeq(t, 1, 0) = <<>> /\ SubSeq(t, 1, Len(t)) = t
  BY <1>1, SubSeqEmpty, SubSeqFull
<1>3. <<>> \o <<queue[i]>> = <<queue[i]>>
  BY <1>1
<1>4. InsertAt(t, 1, queue[i]) = <<queue[i]>> \o t
  BY <1>2, <1>3 DEF InsertAt
<1>5. 1 \in DOMAIN queue
  OBVIOUS
<1> QED BY <1>4, <1>5 DEF Promoted

-----------------------------------------------------------------------------
(* Every message has one place.                                            *)

\* MessageConservation in terms of the abstract queue; with the invariant of the
\* deletion proofs it is inductive.
Placed ==
    /\ accepted = ToSet(queue) \cup ToSet(served) \cup removed \cup ({Active} \ {None})
    /\ ToSet(queue) \cap ToSet(served) = {}
    /\ (ToSet(queue) \cup ToSet(served)) \cap removed = {}
    /\ Active \notin ToSet(queue) \cup ToSet(served) \cup removed
    /\ IsInjective(queue) /\ IsInjective(served)

PlacedInv == DelInv /\ Placed

\* A step that takes a new message, and every other step, seen as steps of the
\* abstract queue.
Arrives(m) ==
    /\ m \notin accepted /\ accepted' = accepted \cup {m}
    /\ Queue!Enqueue(m) \/ Queue!Start(m) \/ Queue!Resume(m)

Serves ==
    /\ accepted' = accepted
    /\ \/ Queue!StartNext \/ Queue!Finish \/ Queue!Close
       \/ \E i \in DOMAIN queue : Queue!StartChosen(i) \/ Queue!Discard(i)
       \/ \E i, j \in DOMAIN queue : Queue!Move(i, j)
       \/ UNCHANGED Queue!vars

Simulated == Serves \/ \E m \in Msgs : Arrives(m)

-----------------------------------------------------------------------------
(* Which step of the abstract queue a step of the scheduler is.            *)

\* The typing facts the simulation needs.
LEMMA PlacedTypes ==
    ASSUME PlacedInv
    PROVE  /\ queue \in Seq(Msgs) /\ served \in Seq(Msgs) /\ removed \subseteq Msgs
           /\ Active \in Msgs \cup {None}
           /\ runner \in Msgs \cup {None}
           /\ pc \in [Msgs -> InRunInput \cup {"none", "returned", "exiting", "done"}]
           /\ cur \in [Msgs -> Msgs \cup {None}]
           /\ \A r \in Msgs : Live(r) <=> runner = r
           /\ ToSet(queue) \subseteq Msgs /\ ToSet(served) \subseteq Msgs
           /\ None \notin Msgs
<1>1. TypeOK /\ OneRunPerSession
  BY DEF PlacedInv, DelInv, ExclInv, TypeInv
<1>2. queue \in Seq(Msgs) /\ served \in Seq(Msgs)
  BY <1>1 DEF TypeOK
<1>3. ToSet(queue) \subseteq Msgs /\ ToSet(served) \subseteq Msgs
  BY <1>2 DEF ToSet
<1> QED BY <1>1, <1>2, <1>3, MsgsAssumption DEF TypeOK, OneRunPerSession, Active

\* TurnQueue reads the library for itself: its operators are the same.
LEMMA SameOperators ==
    /\ \A s : Queue!ToSet(s) = ToSet(s)
    /\ \A s, i : Queue!RemoveAt(s, i) = RemoveAt(s, i)
    /\ \A s, i, e : Queue!InsertAt(s, i, e) = InsertAt(s, i, e)
BY DEF Queue!ToSet, ToSet, Queue!RemoveAt, RemoveAt, Queue!InsertAt, InsertAt

\* A message no call has taken is new to the abstract queue.
LEMMA NewIsFresh ==
    ASSUME PlacedInv, NEW m \in Msgs, Accept(m)
    PROVE  Queue!Fresh(m)
BY PlacedTypes, SameOperators DEF PlacedInv, Placed, Accept, Queue!Fresh

\* A new runner is at work on its message.
LEMMA CreateRunnerActive ==
    ASSUME PlacedInv, NEW m \in Msgs, CreateRunner(m)
    PROVE  Active' = m
BY PlacedTypes DEF CreateRunner, Active

LEMMA IdleInactive ==
    ASSUME ~Busy
    PROVE  Active = None
BY DEF Busy, Active

\* While its goroutine is inside the engine, the runner's message is the active one.
LEMMA TurnActive ==
    ASSUME PlacedInv, NEW r \in Msgs, pc[r] \in InRunInput
    PROVE  runner = r /\ Active = cur[r] /\ Active \in Msgs
<1>1. Live(r)
  BY DEF Live
<1>2. runner = r /\ pc[r] # "returned"
  BY <1>1, PlacedTypes DEF InRunInput
<1>3. cur[r] \in Msgs
  BY <1>1 DEF PlacedInv, DelInv, ExclInv, TypeInv, LiveCur
<1> QED BY <1>2, <1>3, PlacedTypes DEF Active

LEMMA QueueStepSimulates ==
    ASSUME PlacedInv, QueueStep
    PROVE  Simulated
<1> USE PlacedTypes
<1>1. ASSUME NEW m \in Msgs, SubmitQueued(m) PROVE Arrives(m)
  <2>1. Queue!Fresh(m) /\ Active' = Active
    BY <1>1, NewIsFresh DEF SubmitQueued, Active, loop
  <2> QED BY <1>1, <2>1 DEF SubmitQueued, Accept, Arrives, Queue!Enqueue
<1>2. ASSUME NEW m \in Msgs, SubmitResume(m) PROVE Arrives(m)
  <2>1. Queue!Fresh(m) /\ Active = None
    BY <1>2, NewIsFresh, IdleInactive DEF SubmitResume
  <2>2. Active' = Head(queue)
    BY <1>2, HeadElements, CreateRunnerActive DEF SubmitResume
  <2> QED BY <1>2, <2>1, <2>2 DEF SubmitResume, Accept, Arrives, Queue!Resume
<1>3. ASSUME NEW m \in Msgs, SubmitStarted(m) PROVE Arrives(m)
  <2>1. Queue!Fresh(m) /\ Active = None
    BY <1>3, NewIsFresh, IdleInactive DEF SubmitStarted
  <2>2. Active' = m
    BY <1>3, CreateRunnerActive DEF SubmitStarted
  <2> QED BY <1>3, <2>1, <2>2 DEF SubmitStarted, Accept, Arrives, Queue!Start
<1>4. ASSUME NEW m \in Msgs, EnqueueInput(m) PROVE Arrives(m)
  <2>1. Queue!Fresh(m) /\ Active' = Active
    BY <1>4, NewIsFresh DEF EnqueueInput, Active, loop
  <2> QED BY <1>4, <2>1 DEF EnqueueInput, Accept, Arrives, Queue!Enqueue
<1>5. ASSUME NEW m \in Msgs, RewindTurn(m) PROVE Serves
  BY <1>5 DEF RewindTurn, Serves, Active, Queue!vars, sched, loop, ghosts
<1>6. ASSUME NEW i \in DOMAIN queue, NEW j \in DOMAIN queue, UpdateQueuedMessage(i, j)
      PROVE  Serves
  <2>1. Active' = Active
    BY <1>6 DEF UpdateQueuedMessage, Active, loop
  <2>2. Queue!Move(i, j) /\ accepted' = accepted
    BY <1>6, <2>1, SameOperators DEF UpdateQueuedMessage, Queue!Move, Queue!Moved, ghosts
  <2> QED BY <2>2 DEF Serves
<1>7. ASSUME NEW i \in DOMAIN queue, DeleteQueuedMessage(i) PROVE Serves
  <2>1. Active' = Active
    BY <1>7 DEF DeleteQueuedMessage, Active, loop
  <2>2. Queue!Discard(i) /\ accepted' = accepted
    BY <1>7, <2>1, SameOperators DEF DeleteQueuedMessage, Queue!Discard
  <2> QED BY <2>2 DEF Serves
<1> QED BY <1>1, <1>2, <1>3, <1>4, <1>5, <1>6, <1>7 DEF QueueStep, Simulated

LEMMA UserStepSimulates ==
    ASSUME PlacedInv, NEW c \in Clients, UserStep(c)
    PROVE  Serves
<1> USE PlacedTypes
<1>1. ASSUME NEW i \in DOMAIN queue, DispatchBusy(c, i) PROVE Serves
  <2>1. 1 \in DOMAIN queue /\ queue' = InsertAt(RemoveAt(queue, i), 1, queue[i])
    BY <1>1, PromotedIsMove DEF DispatchBusy
  <2>2. Active' = Active
    BY <1>1 DEF DispatchBusy, Active, loop
  <2>3. Queue!Move(i, 1) /\ accepted' = accepted
    BY <1>1, <2>1, <2>2, SameOperators DEF DispatchBusy, Queue!Move, Queue!Moved, ghosts
  <2> QED BY <2>1, <2>3 DEF Serves
<1>2. ASSUME NEW i \in DOMAIN queue, DispatchIdle(c, i) PROVE Serves
  <2>1. Active = None /\ queue[i] \in Msgs
    BY <1>2, IdleInactive DEF DispatchIdle
  <2>2. Active' = queue[i]
    BY <1>2, <2>1, CreateRunnerActive DEF DispatchIdle
  <2>3. Queue!StartChosen(i) /\ accepted' = accepted
    BY <1>2, <2>1, <2>2, SameOperators DEF DispatchIdle, Queue!StartChosen, ghosts
  <2> QED BY <2>3 DEF Serves
<1>3. CASE CancelCurrentTurn(c)
  BY <1>3 DEF CancelCurrentTurn, Serves, Active, Queue!vars, loop, ghosts
<1>4. CASE StopSession(c)
  <2>1. Active' = Active
    BY <1>4 DEF StopSession, Active, loop
  <2>2. Queue!Close /\ accepted' = accepted
    BY <1>4, <2>1, SameOperators DEF StopSession, Queue!Close
  <2> QED BY <2>2 DEF Serves
<1>5. CASE CompactBegin(c)
  BY <1>5 DEF CompactBegin, Serves, Active, Queue!vars, loop, ghosts
<1> QED BY <1>1, <1>2, <1>3, <1>4, <1>5 DEF UserStep

\* What a call does after its unlock is invisible to the abstract queue.
LEMMA CallStepSimulates ==
    ASSUME NEW c \in Clients, CallStep(c)
    PROVE  Serves
<1>1. UNCHANGED <<sched, loop, ghosts>>
  BY DEF CallStep, CancelWithReason, CancelRunnerContext, CancelAndWait, LoadDone, StopWaited,
         StopTimedOut, DeleteMetadata, DeleteLog
<1> QED BY <1>1 DEF Serves, Active, Queue!vars, sched, loop, ghosts

\* A compaction starts the next message when it has settled.
LEMMA CompactStepSimulates ==
    ASSUME PlacedInv, NEW c \in Clients, CompactStep(c)
    PROVE  Serves
<1> USE PlacedTypes
<1>1. CASE UNCHANGED <<sched, loop, ghosts>>
  BY <1>1 DEF Serves, Active, Queue!vars, sched, loop, ghosts
<1>2. CASE CompactSettle(c)
  <2>1. CASE deleted \/ queue = <<>>
    BY <1>2, <2>1 DEF CompactSettle, Serves, Active, Queue!vars, loop, ghosts
  <2>2. CASE ~(deleted \/ queue = <<>>)
    <3>1. InCompaction(c)
      BY <1>2 DEF CompactSettle, Return, PlacedInv, DelInv, ExclInv, CallShape, CompactSteps
    <3>2. runner = None
      BY <3>1 DEF PlacedInv, DelInv, ExclInv, OneRunPerSession
    <3>3. queue' = Tail(queue) /\ CreateRunner(Head(queue)) /\ Head(queue) \in Msgs
      BY <1>2, <2>2, HeadElements DEF CompactSettle
    <3>4. Active = None /\ Active' = Head(queue)
      BY <3>2, <3>3, CreateRunnerActive DEF Active
    <3>5. Queue!StartNext /\ accepted' = accepted
      BY <1>2, <2>2, <3>3, <3>4 DEF CompactSettle, Queue!StartNext, ghosts
    <3> QED BY <3>5 DEF Serves
  <2> QED BY <2>1, <2>2
<1> QED BY <1>1, <1>2
        DEF CompactStep, CompactRegister, CompactRun, CompactEnd, CompactRelease

\* The goroutine of a runner: the end of a turn is Finish, the next one StartNext.
LEMMA LoopStepSimulates ==
    ASSUME PlacedInv, NoTurnRefused', NEW r \in Msgs, LoopStep(r)
    PROVE  Serves
<1> USE PlacedTypes
<1>1. ASSUME NEW to \in InRunInput, pc[r] \in InRunInput, pc' = [pc EXCEPT ![r] = to],
             UNCHANGED <<sched, cur, accepted, removed, served>>
      PROVE  Serves
  <2>1. Active' = Active
    BY <1>1, TurnActive DEF Active, InRunInput, sched
  <2> QED BY <1>1, <2>1 DEF Serves, Queue!vars, sched
<1>2. CASE TurnRegister(r)
  <2>1. slot = None
    BY <1>2 DEF TurnRegister, NoTurnRefused
  <2> QED BY <1>1, <1>2, <2>1 DEF TurnRegister, At, InRunInput
<1>3. CASE TurnRun(r)
  BY <1>1, <1>3 DEF TurnRun, At, InRunInput, ghosts
<1>4. CASE TurnRecord(r)
  BY <1>1, <1>4 DEF TurnRecord, At, InRunInput, ghosts
<1>5. CASE TurnEnd(r)
  BY <1>1, <1>5 DEF TurnEnd, At, InRunInput, ghosts
<1>6. CASE TurnRelease(r)
  <2>1. runner = r /\ Active = cur[r] /\ Active # None
    BY <1>6, TurnActive DEF TurnRelease, At, InRunInput
  <2>2. Active' = None
    BY <1>6, <2>1 DEF TurnRelease, At, Active, sched
  <2>3. Queue!Finish /\ accepted' = accepted
    BY <1>6, <2>1, <2>2 DEF TurnRelease, Queue!Finish, sched
  <2> QED BY <2>3 DEF Serves
<1>7. CASE LoopExit(r)
  <2>1. Live(r)
    BY <1>7 DEF LoopExit, At, Live
  <2>2. Active = None /\ Active' = None
    BY <1>7, <2>1 DEF LoopExit, At, Active
  <2> QED BY <1>7, <2>2 DEF LoopExit, Serves, Queue!vars, ghosts
<1>8. CASE LoopNext(r)
  <2>1. ~deleted
    BY <1>8 DEF LoopNext, PlacedInv, DelInv, ClosedQueue
  <2>2. Head(queue) \in Msgs
    BY <1>8, HeadElements DEF LoopNext
  <2>3. Active = None /\ Active' = Head(queue)
    BY <1>8, <2>2 DEF LoopNext, At, Active
  <2>4. Queue!StartNext /\ accepted' = accepted
    BY <1>8, <2>1, <2>3 DEF LoopNext, Queue!StartNext, ghosts
  <2> QED BY <2>4 DEF Serves
<1>9. CASE LoopDone(r)
  <2>1. runner # r
    BY <1>9 DEF LoopDone, At, Live, InRunInput
  <2>2. Active' = Active
    BY <1>9, <2>1 DEF LoopDone, At, Active, sched
  <2> QED BY <1>9, <2>2 DEF LoopDone, Serves, Queue!vars, sched, ghosts
<1> QED BY <1>2, <1>3, <1>4, <1>5, <1>6, <1>7, <1>8, <1>9 DEF LoopStep

LEMMA NextSimulates ==
    ASSUME PlacedInv, DelInv', [Next]_vars
    PROVE  Simulated
<1>1. CASE UNCHANGED vars
  BY <1>1 DEF Simulated, Serves, Active, Queue!vars, vars, sched, loop, ghosts
<1>2. NoTurnRefused'
  BY DEF DelInv, ExclInv
<1>3. CASE QueueStep
  BY <1>3, QueueStepSimulates
<1>4. ASSUME NEW c \in Clients, UserStep(c) \/ CallStep(c) \/ CompactStep(c) PROVE Simulated
  BY <1>4, UserStepSimulates, CallStepSimulates, CompactStepSimulates DEF Simulated
<1>5. ASSUME NEW r \in Msgs, LoopStep(r) PROVE Simulated
  BY <1>2, <1>5, LoopStepSimulates DEF Simulated
<1> QED BY <1>1, <1>3, <1>4, <1>5 DEF Next

-----------------------------------------------------------------------------
(* A step of the abstract queue leaves every message in one place.         *)

\* A message that arrives waits, or starts, or lets the oldest start.
LEMMA ArrivalPlaced ==
    ASSUME PlacedInv, NEW m \in Msgs, Arrives(m)
    PROVE  Placed'
<1> USE PlacedTypes DEF PlacedInv, Placed
<1>1. m # None /\ m \notin ToSet(queue) \cup ToSet(served) \cup removed \cup {Active}
  BY DEF Arrives
<1>2. CASE Queue!Enqueue(m)
  <2>1. queue' = Append(queue, m) /\ Active' = Active /\ served' = served /\ removed' = removed
    BY <1>2 DEF Queue!Enqueue
  <2>2. ToSet(queue') = ToSet(queue) \cup {m} /\ IsInjective(queue')
    BY <1>1, <2>1, AppendElements
  <2> QED BY <1>1, <2>1, <2>2 DEF Arrives
<1>3. CASE Queue!Start(m)
  <2>1. Active = None /\ Active' = m /\ UNCHANGED <<queue, served, removed>>
    BY <1>3 DEF Queue!Start
  <2> QED BY <1>1, <2>1 DEF Arrives
<1>4. CASE Queue!Resume(m)
  <2>1. /\ Active = None /\ queue # <<>> /\ Active' = Head(queue)
        /\ queue' = Append(Tail(queue), m) /\ served' = served /\ removed' = removed
    BY <1>4 DEF Queue!Resume
  <2>2. /\ Head(queue) \in Msgs /\ Tail(queue) \in Seq(Msgs)
        /\ ToSet(queue) = {Head(queue)} \cup ToSet(Tail(queue))
        /\ Head(queue) \notin ToSet(Tail(queue)) /\ IsInjective(Tail(queue))
    BY <2>1, HeadElements
  <2>3. ToSet(queue') = ToSet(Tail(queue)) \cup {m} /\ IsInjective(queue')
    <3>1. m \notin ToSet(Tail(queue))
      BY <1>1, <2>2
    <3> DEFINE t == Tail(queue)
    <3>2. t \in Seq(Msgs) /\ IsInjective(t) /\ m \notin ToSet(t) /\ queue' = Append(t, m)
      BY <2>1, <2>2, <3>1
    <3> HIDE DEF t
    <3>3. ToSet(queue') = ToSet(t) \cup {m} /\ IsInjective(queue')
      BY <3>2, AppendElements
    <3> QED BY <3>3 DEF t
  <2> QED BY <1>1, <2>1, <2>2, <2>3 DEF Arrives
<1> QED BY <1>2, <1>3, <1>4 DEF Arrives

\* No other step loses, duplicates or revives one.
LEMMA ServicePlaced ==
    ASSUME PlacedInv, Serves
    PROVE  Placed'
<1> USE PlacedTypes DEF PlacedInv, Placed
<1>1. accepted' = accepted
  BY DEF Serves
<1>2. CASE Queue!StartNext
  <2>1. /\ Active = None /\ queue # <<>> /\ Active' = Head(queue)
        /\ queue' = Tail(queue) /\ served' = served /\ removed' = removed
    BY <1>2 DEF Queue!StartNext
  <2>2. /\ Head(queue) \in Msgs /\ ToSet(queue) = {Head(queue)} \cup ToSet(Tail(queue))
        /\ Head(queue) \notin ToSet(Tail(queue)) /\ IsInjective(Tail(queue))
    BY <2>1, HeadElements
  <2> QED BY <1>1, <2>1, <2>2
<1>3. CASE Queue!Finish
  <2>1. /\ Active # None /\ Active' = None /\ served' = Append(served, Active)
        /\ queue' = queue /\ removed' = removed
    BY <1>3 DEF Queue!Finish
  <2>2. ToSet(served') = ToSet(served) \cup {Active} /\ IsInjective(served')
    BY <2>1, AppendElements
  <2> QED BY <1>1, <2>1, <2>2
<1>4. CASE Queue!Close
  <2>1. /\ Active' = Active /\ queue' = <<>> /\ removed' = removed \cup ToSet(queue)
        /\ served' = served
    BY <1>4, SameOperators DEF Queue!Close
  <2>2. ToSet(queue') = {} /\ IsInjective(queue')
    BY <2>1 DEF ToSet, IsInjective
  <2> QED BY <1>1, <2>1, <2>2
<1>5. ASSUME NEW i \in DOMAIN queue, Queue!StartChosen(i) \/ Queue!Discard(i) PROVE Placed'
  <2>1. /\ queue[i] \in Msgs /\ ToSet(queue) = {queue[i]} \cup ToSet(RemoveAt(queue, i))
        /\ queue[i] \notin ToSet(RemoveAt(queue, i)) /\ IsInjective(RemoveAt(queue, i))
    BY RemoveAtElements
  <2>2. queue' = RemoveAt(queue, i) /\ served' = served
    BY <1>5, SameOperators DEF Queue!StartChosen, Queue!Discard
  <2>3. CASE Queue!StartChosen(i)
    <3>1. Active = None /\ Active' = queue[i] /\ removed' = removed
      BY <2>3 DEF Queue!StartChosen
    <3> QED BY <1>1, <2>1, <2>2, <3>1
  <2>4. CASE Queue!Discard(i)
    <3>1. Active' = Active /\ removed' = removed \cup {queue[i]}
      BY <2>4 DEF Queue!Discard
    <3> QED BY <1>1, <2>1, <2>2, <3>1
  <2> QED BY <1>5, <2>3, <2>4
<1>6. ASSUME NEW i \in DOMAIN queue, NEW j \in DOMAIN queue, Queue!Move(i, j) PROVE Placed'
  <2>1. /\ queue' = InsertAt(RemoveAt(queue, i), j, queue[i])
        /\ Active' = Active /\ served' = served /\ removed' = removed
    BY <1>6, SameOperators DEF Queue!Move, Queue!Moved
  <2>2. ToSet(queue') = ToSet(queue) /\ IsInjective(queue')
    BY <2>1, MoveElements
  <2> QED BY <1>1, <2>1, <2>2
<1>7. CASE UNCHANGED Queue!vars
  BY <1>1, <1>7 DEF Queue!vars
<1> QED BY <1>2, <1>3, <1>4, <1>5, <1>6, <1>7 DEF Serves

LEMMA PlacedInit == Init => PlacedInv
<1> SUFFICES ASSUME Init PROVE PlacedInv
  OBVIOUS
<1>1. Active = None /\ ToSet(queue) = {} /\ ToSet(served) = {}
  BY DEF Init, Active, ToSet
<1>2. IsInjective(queue) /\ IsInjective(served)
  BY DEF Init, IsInjective
<1> QED BY <1>1, <1>2, DelInit DEF Init, PlacedInv, Placed

LEMMA PlacedNext == PlacedInv /\ [Next]_vars => PlacedInv'
<1> SUFFICES ASSUME PlacedInv, [Next]_vars PROVE PlacedInv'
  OBVIOUS
<1>1. DelInv'
  BY DelNext DEF PlacedInv
<1>2. Simulated
  BY <1>1, NextSimulates
<1> QED BY <1>1, <1>2, ArrivalPlaced, ServicePlaced DEF Simulated, PlacedInv

LEMMA PlacedAlways == Spec => []PlacedInv
BY PlacedInit, PlacedNext, PTL DEF Spec

\* No message is lost, run twice or queued twice, whatever the users, the loop, a
\* compaction and a deletion do to the queue (append, promote, reorder, remove,
\* clear): it has exactly one of its five places.
THEOREM Conserved == Spec => []MessageConservation
<1>1. ASSUME PlacedInv PROVE MessageConservation
  <2> DEFINE running == {cur[r] : r \in {x \in Msgs : Live(x) /\ pc[x] # "returned"}}
             kept    == <<ToSet(queue), running, ToSet(served), removed, dropped>>
  <2>1. running = {Active} \ {None}
    <3>1. \A x \in Msgs : Live(x) /\ pc[x] # "returned" => cur[x] # None /\ runner = x
      BY <1>1, PlacedTypes DEF PlacedInv, DelInv, ExclInv, TypeInv, LiveCur
    <3>2. runner # None => Live(runner)
      BY <1>1, PlacedTypes
    <3> QED BY <1>1, <3>1, <3>2, PlacedTypes DEF Active
  <2>2. dropped = {}
    BY <1>1 DEF PlacedInv, DelInv, ExclInv, NoTurnRefused
  <2> HIDE DEF running
  <2>3. /\ DOMAIN kept = {1, 2, 3, 4, 5}
        /\ kept[1] = ToSet(queue) /\ kept[2] = running /\ kept[3] = ToSet(served)
        /\ kept[4] = removed /\ kept[5] = dropped
    OBVIOUS
  <2> HIDE DEF kept
  <2>4. accepted = UNION {kept[k] : k \in DOMAIN kept}
    <3>1. UNION {kept[k] : k \in DOMAIN kept}
            = kept[1] \cup kept[2] \cup kept[3] \cup kept[4] \cup kept[5]
      BY <2>3
    <3> QED BY <1>1, <2>1, <2>2, <2>3, <3>1 DEF PlacedInv, Placed
  <2>5. \A k, l \in DOMAIN kept : k # l => kept[k] \cap kept[l] = {}
    BY <1>1, <2>1, <2>2, <2>3 DEF PlacedInv, Placed
  <2> QED BY <1>1, <2>4, <2>5 DEF MessageConservation, PlacedInv, Placed, kept, running
<1> QED BY <1>1, PlacedAlways, PTL

\* The scheduler implements the queue it promises: seen from outside, its
\* runners, locks, cancellations and compactions are steps of TurnQueue or none.
THEOREM QueueImplemented == Spec => ImplementsQueue
<1>1. Init => Queue!Init
  BY DEF Init, Queue!Init, Active
<1>2. ASSUME PlacedInv, [Next]_vars PROVE [Queue!Next]_(Queue!vars)
  <2>1. Simulated
    BY <1>2, DelNext, NextSimulates DEF PlacedInv
  <2> QED BY <2>1 DEF Simulated, Serves, Arrives, Queue!Next
<1>3. Init /\ [][Next]_vars => Queue!Init /\ [][Queue!Next]_(Queue!vars)
  BY <1>1, <1>2, PlacedAlways, PTL DEF Spec
<1> QED BY <1>3 DEF Spec, ImplementsQueue, Queue!Spec
=============================================================================
