------------------------- MODULE TurnSchedulerProofs -------------------------
(***************************************************************************)
(* Machine-checked proofs about TurnScheduler, for any set of messages and *)
(* any number of clients.                                                  *)
(***************************************************************************)
EXTENDS TurnScheduler, TLAPS, SequenceTheorems

-----------------------------------------------------------------------------
(* The queue operators stay within sequences of messages.                  *)

\* queueIndex and the append(items[:i], items[i+1:]...) idiom of queue.go.
LEMMA RemoveAtType ==
    ASSUME NEW S, NEW s \in Seq(S), NEW i \in DOMAIN s
    PROVE  RemoveAt(s, i) \in Seq(S) /\ s[i] \in S
<1>1. i \in 1..Len(s)
  OBVIOUS
<1>2. SubSeq(s, 1, i-1) \in Seq(S)
  BY <1>1
<1>3. SubSeq(s, i+1, Len(s)) \in Seq(S)
  BY <1>1
<1> QED BY <1>1, <1>2, <1>3 DEF RemoveAt

LEMMA InsertAtType ==
    ASSUME NEW S, NEW s \in Seq(S), NEW e \in S, NEW j \in 1..(Len(s) + 1)
    PROVE  InsertAt(s, j, e) \in Seq(S)
<1>1. SubSeq(s, 1, j-1) \in Seq(S)
  OBVIOUS
<1>2. SubSeq(s, j, Len(s)) \in Seq(S)
  OBVIOUS
<1> QED BY <1>1, <1>2 DEF InsertAt

LEMMA RemoveAtLen ==
    ASSUME NEW S, NEW s \in Seq(S), NEW i \in DOMAIN s
    PROVE  Len(RemoveAt(s, i)) = Len(s) - 1
<1>1. i \in 1..Len(s)
  OBVIOUS
<1>2. SubSeq(s, 1, i-1) \in Seq(S) /\ Len(SubSeq(s, 1, i-1)) = i - 1
  BY <1>1, SubSeqProperties
<1>3. SubSeq(s, i+1, Len(s)) \in Seq(S) /\ Len(SubSeq(s, i+1, Len(s))) = Len(s) - i
  BY <1>1, SubSeqProperties
<1>4. Len(RemoveAt(s, i)) = Len(SubSeq(s, 1, i-1)) + Len(SubSeq(s, i+1, Len(s)))
  BY <1>2, <1>3, ConcatProperties DEF RemoveAt
<1>5. Len(s) \in Nat
  BY LenProperties
<1>6. i \in Nat
  BY <1>1
<1>7. Len(RemoveAt(s, i)) = (i - 1) + (Len(s) - i)
  BY <1>2, <1>3, <1>4
<1>8. (i - 1) + (Len(s) - i) = Len(s) - 1
  BY <1>5, <1>6
<1> QED BY <1>7, <1>8

LEMMA MoveType ==
    ASSUME NEW S, NEW s \in Seq(S), NEW i \in DOMAIN s, NEW j \in DOMAIN s
    PROVE  InsertAt(RemoveAt(s, i), j, s[i]) \in Seq(S)
<1>1. RemoveAt(s, i) \in Seq(S) /\ s[i] \in S
  BY RemoveAtType
<1>2. j \in 1..(Len(RemoveAt(s, i)) + 1)
  BY RemoveAtLen
<1> QED BY <1>1, <1>2, InsertAtType

LEMMA PromotedType ==
    ASSUME NEW S, queue \in Seq(S), NEW i \in DOMAIN queue
    PROVE  Promoted(i) \in Seq(S)
BY RemoveAtType DEF Promoted

-----------------------------------------------------------------------------
(* Calls in progress.                                                      *)

LEMMA IdleType == Idle \in Calls
BY DEF Idle, Calls, Kinds, Steps, Runs

LEMMA StepType ==
    ASSUME op \in [Clients -> Calls], NEW c \in Clients, NEW from, NEW to \in Steps,
           Step(c, from, to)
    PROVE  op' \in [Clients -> Calls]
BY DEF Step, Calls

LEMMA ReturnType ==
    ASSUME op \in [Clients -> Calls], NEW c \in Clients, NEW from, Return(c, from)
    PROVE  op' \in [Clients -> Calls]
BY IdleType DEF Return

LEMMA BeginType ==
    ASSUME op \in [Clients -> Calls], NEW c \in Clients, NEW call \in Calls, Begin(c, call)
    PROVE  op' \in [Clients -> Calls]
BY DEF Begin

LEMMA CancelledType ==
    ASSUME cause \in [Runs -> Causes], NEW run, NEW why \in Causes
    PROVE  Cancelled(run, why) \in [Runs -> Causes]
BY DEF Cancelled

LEMMA ReasonType ==
    ASSUME NEW k
    PROVE  Reason(k) \in Causes
BY DEF Reason, Causes

-----------------------------------------------------------------------------
(* Type correctness.                                                       *)

\* A live runner has a message; with it TypeOK is inductive.
LiveCur == \A r \in Msgs : Live(r) => cur[r] \in Msgs

TypeInv == TypeOK /\ LiveCur

LEMMA TypeInit == Init => TypeInv
<1> SUFFICES ASSUME Init PROVE TypeInv
  OBVIOUS
<1>1. op \in [Clients -> Calls]
  BY IdleType DEF Init
<1>2. cause \in [Runs -> Causes]
  BY DEF Init, Causes
<1>3. TypeOK
  <2>1. queue \in Seq(Msgs) /\ history \in Seq(Msgs) /\ served \in Seq(Msgs)
    BY EmptySeq DEF Init
  <2>2. pc \in [Msgs -> InRunInput \cup {"none", "returned", "exiting", "done"}]
    BY DEF Init
  <2> QED BY <1>1, <1>2, <2>1, <2>2 DEF Init, TypeOK
<1>4. LiveCur
  BY DEF Init, LiveCur, Live, InRunInput
<1> QED BY <1>3, <1>4 DEF TypeInv

LEMMA CreateRunnerType ==
    ASSUME TypeInv, NEW m \in Msgs, CreateRunner(m)
    PROVE  /\ runner' \in Msgs \cup {None} /\ stopAfter' \in BOOLEAN
           /\ pc' \in [Msgs -> InRunInput \cup {"none", "returned", "exiting", "done"}]
           /\ cur' \in [Msgs -> Msgs \cup {None}]
           /\ LiveCur'
BY DEF CreateRunner, TypeInv, TypeOK, LiveCur, Live, InRunInput

\* The calls that need only the critical section.
LEMMA QueueStepType ==
    ASSUME TypeInv, QueueStep
    PROVE  TypeInv'
<1> USE DEF TypeInv
<1>1. ASSUME NEW m \in Msgs, SubmitQueued(m) PROVE TypeInv'
  BY <1>1 DEF SubmitQueued, Accept, TypeOK, LiveCur, Live, loop, engine, disk
<1>2. ASSUME NEW m \in Msgs, SubmitResume(m) PROVE TypeInv'
  <2>1. Head(queue) \in Msgs /\ Tail(queue) \in Seq(Msgs)
    BY <1>2 DEF SubmitResume, TypeOK
  <2>2. Append(Tail(queue), m) \in Seq(Msgs)
    BY <2>1
  <2>3. CreateRunner(Head(queue))
    BY <1>2 DEF SubmitResume
  <2> QED BY <1>2, <2>1, <2>2, <2>3, CreateRunnerType
          DEF SubmitResume, Accept, TypeOK, engine, disk
<1>3. ASSUME NEW m \in Msgs, SubmitStarted(m) PROVE TypeInv'
  BY <1>3, CreateRunnerType DEF SubmitStarted, Accept, TypeOK, engine, disk
<1>4. ASSUME NEW m \in Msgs, EnqueueInput(m) PROVE TypeInv'
  BY <1>4 DEF EnqueueInput, Accept, TypeOK, LiveCur, Live, loop, engine, disk
<1>5. ASSUME NEW m \in Msgs, RewindTurn(m) PROVE TypeInv'
  <2>1. PICK k \in DOMAIN history : history' = SubSeq(history, 1, k - 1)
    BY <1>5 DEF RewindTurn
  <2>2. history' \in Seq(Msgs)
    BY <2>1 DEF TypeOK
  <2> QED BY <1>5, <2>2 DEF RewindTurn, TypeOK, LiveCur, Live, sched, loop, engine, ghosts
<1>6. ASSUME NEW i \in DOMAIN queue, NEW j \in DOMAIN queue, UpdateQueuedMessage(i, j)
      PROVE TypeInv'
  <2>1. queue' \in Seq(Msgs)
    BY <1>6, MoveType DEF UpdateQueuedMessage, TypeOK
  <2> QED BY <1>6, <2>1
          DEF UpdateQueuedMessage, TypeOK, LiveCur, Live, loop, engine, disk, ghosts
<1>7. ASSUME NEW i \in DOMAIN queue, DeleteQueuedMessage(i) PROVE TypeInv'
  <2>1. queue' \in Seq(Msgs) /\ queue[i] \in Msgs
    BY <1>7, RemoveAtType DEF DeleteQueuedMessage, TypeOK
  <2> QED BY <1>7, <2>1
          DEF DeleteQueuedMessage, TypeOK, LiveCur, Live, loop, engine, disk
<1> QED BY <1>1, <1>2, <1>3, <1>4, <1>5, <1>6, <1>7 DEF QueueStep

\* The calls that go on after the unlock, up to the unlock.
LEMMA UserStepType ==
    ASSUME TypeInv, NEW c \in Clients, UserStep(c)
    PROVE  TypeInv'
<1> USE DEF TypeInv
<1>1. op \in [Clients -> Calls] /\ runner \in Msgs \cup {None}
  BY DEF TypeOK
<1>2. (IF runner = None THEN None ELSE cur[runner]) \in Msgs \cup {None}
  BY DEF TypeOK
<1>3. ASSUME NEW i \in DOMAIN queue, DispatchBusy(c, i) PROVE TypeInv'
  <2>1. queue' \in Seq(Msgs) /\ queue[i] \in Msgs
    BY <1>3, RemoveAtType, PromotedType DEF DispatchBusy, TypeOK
  <2>2. [Idle EXCEPT !.kind = "dispatch", !.step = "cancelRun", !.run = runner,
                     !.ctx = IF runner = None THEN None ELSE cur[runner],
                     !.sel = queue[i]] \in Calls
    BY <1>1, <1>2, <2>1 DEF Idle, Calls, Kinds, Steps, Runs
  <2>3. op' \in [Clients -> Calls]
    BY <1>1, <1>3, <2>2, BeginType DEF DispatchBusy
  <2> QED BY <1>3, <2>1, <2>3
          DEF DispatchBusy, TypeOK, LiveCur, Live, loop, engine, disk, ghosts
<1>4. ASSUME NEW i \in DOMAIN queue, DispatchIdle(c, i) PROVE TypeInv'
  <2>1. RemoveAt(queue, i) \in Seq(Msgs) /\ queue[i] \in Msgs
    BY RemoveAtType DEF TypeOK
  <2>2. CreateRunner(queue[i])
    BY <1>4 DEF DispatchIdle
  <2> QED BY <1>4, <2>1, <2>2, CreateRunnerType DEF DispatchIdle, TypeOK, engine, disk, ghosts
<1>5. CASE CancelCurrentTurn(c)
  <2>1. [Idle EXCEPT !.kind = "stop", !.step = "cancelRun", !.run = runner,
                     !.ctx = IF runner = None THEN None ELSE cur[runner]] \in Calls
    BY <1>1, <1>2 DEF Idle, Calls, Kinds, Steps, Runs
  <2>2. op' \in [Clients -> Calls]
    BY <1>1, <1>5, <2>1, BeginType DEF CancelCurrentTurn
  <2> QED BY <1>5, <2>2
          DEF CancelCurrentTurn, TypeOK, LiveCur, Live, loop, engine, disk, ghosts
<1>6. CASE StopSession(c)
  <2>1. [Idle EXCEPT !.kind = "delete", !.run = runner,
                     !.ctx = IF runner = None THEN None ELSE cur[runner],
                     !.step = IF runner = None THEN "cancelSlot" ELSE "cancelRun"] \in Calls
    BY <1>1, <1>2 DEF Idle, Calls, Kinds, Steps, Runs
  <2>2. op' \in [Clients -> Calls]
    BY <1>1, <1>6, <2>1, BeginType DEF StopSession
  <2>3. removed' \subseteq Msgs /\ queue' \in Seq(Msgs)
    BY <1>6 DEF StopSession, TypeOK, ToSet
  <2> QED BY <1>6, <2>2, <2>3
          DEF StopSession, TypeOK, LiveCur, Live, loop, engine, disk
<1>7. CASE CompactBegin(c)
  <2>1. [Idle EXCEPT !.kind = "compact", !.step = "begin"] \in Calls
    BY DEF Idle, Calls, Kinds, Steps, CompactSteps, Runs
  <2>2. op' \in [Clients -> Calls]
    BY <1>1, <1>7, <2>1, BeginType DEF CompactBegin
  <2> QED BY <1>7, <2>2
          DEF CompactBegin, TypeOK, LiveCur, Live, loop, engine, disk, ghosts
<1> QED BY <1>3, <1>4, <1>5, <1>6, <1>7 DEF UserStep

\* What a call does after its unlock.
LEMMA CallStepType ==
    ASSUME TypeInv, NEW c \in Clients, CallStep(c)
    PROVE  TypeInv'
<1> USE DEF TypeInv
<1>1. op \in [Clients -> Calls] /\ cause \in [Runs -> Causes]
  BY DEF TypeOK
<1>2. {"cancelCtx", "waitRunner", "meta", "log", "loadDone"} \subseteq Steps
  BY DEF Steps
<1>3. CASE CancelWithReason(c)
  <2>1. cause' \in [Runs -> Causes]
    BY <1>1, <1>3, ReasonType, CancelledType DEF CancelWithReason
  <2>2. op' \in [Clients -> Calls]
    BY <1>1, <1>2, <1>3, StepType, ReturnType DEF CancelWithReason
  <2> QED BY <1>3, <2>1, <2>2
          DEF CancelWithReason, TypeOK, LiveCur, Live, sched, loop, disk, ghosts
<1>4. CASE CancelRunnerContext(c)
  <2>1. cause' \in [Runs -> Causes]
    BY <1>1, <1>4, ReasonType, CancelledType DEF CancelRunnerContext
  <2>2. op' \in [Clients -> Calls]
    BY <1>1, <1>2, <1>4, StepType, ReturnType DEF CancelRunnerContext
  <2> QED BY <1>4, <2>1, <2>2
          DEF CancelRunnerContext, TypeOK, LiveCur, Live, sched, loop, disk, ghosts
<1>5. CASE CancelAndWait(c)
  <2>1. cause' \in [Runs -> Causes]
    BY <1>1, <1>5, CancelledType DEF CancelAndWait, Causes
  <2>2. op' \in [Clients -> Calls]
    BY <1>1, <1>2, <1>5, StepType DEF CancelAndWait
  <2> QED BY <1>5, <2>1, <2>2
          DEF CancelAndWait, TypeOK, LiveCur, Live, sched, loop, disk, ghosts
<1>6. CASE LoadDone(c)
  <2>1. op' \in [Clients -> Calls]
    <3>1. [op[c] EXCEPT !.step = IF dones = None THEN "meta" ELSE "waitSlot", !.ctx = dones]
            \in Calls
      <4>1. op[c] \in Calls /\ dones \in Runs \cup {None}
        BY <1>1 DEF TypeOK
      <4>2. "meta" \in Steps /\ "waitSlot" \in Steps
        BY DEF Steps
      <4> QED BY <4>1, <4>2 DEF Calls
    <3> QED BY <1>1, <1>6, <3>1 DEF LoadDone
  <2> QED BY <1>6, <2>1
          DEF LoadDone, TypeOK, LiveCur, Live, sched, loop, engine, disk, ghosts
<1>7. CASE StopWaited(c)
  <2>1. op' \in [Clients -> Calls]
    BY <1>1, <1>2, <1>7, StepType DEF StopWaited
  <2> QED BY <1>7, <2>1
          DEF StopWaited, TypeOK, LiveCur, Live, sched, loop, engine, disk, ghosts
<1>8. CASE StopTimedOut(c)
  <2>1. op' \in [Clients -> Calls]
    <3>1. [op[c] EXCEPT !.step = "meta", !.late = TRUE] \in Calls
      BY <1>1 DEF Calls, Steps
    <3> QED BY <1>1, <1>8, <3>1 DEF StopTimedOut
  <2> QED BY <1>8, <2>1
          DEF StopTimedOut, TypeOK, LiveCur, Live, sched, loop, engine, disk, ghosts
<1>9. CASE DeleteMetadata(c)
  <2>1. op' \in [Clients -> Calls]
    BY <1>1, <1>2, <1>9, StepType, ReturnType DEF DeleteMetadata
  <2> QED BY <1>9, <2>1
          DEF DeleteMetadata, TypeOK, LiveCur, Live, sched, loop, engine, ghosts
<1>10. CASE DeleteLog(c)
  <2>1. op' \in [Clients -> Calls]
    BY <1>1, <1>10, ReturnType DEF DeleteLog
  <2>2. history' \in Seq(Msgs) /\ store' \in {"open", "headless", "deleted"}
    BY <1>10, EmptySeq DEF DeleteLog, TypeOK, disk
  <2> QED BY <1>10, <2>1, <2>2
          DEF DeleteLog, TypeOK, LiveCur, Live, sched, loop, engine, disk, ghosts
<1> QED BY <1>3, <1>4, <1>5, <1>6, <1>7, <1>8, <1>9, <1>10 DEF CallStep

\* A compaction, in the thread that asked for it.
LEMMA CompactStepType ==
    ASSUME TypeInv, NEW c \in Clients, CompactStep(c)
    PROVE  TypeInv'
<1> USE DEF TypeInv
<1>1. op \in [Clients -> Calls] /\ cause \in [Runs -> Causes] /\ queue \in Seq(Msgs)
  BY DEF TypeOK
<1>2. CompactSteps \subseteq Steps
  BY DEF Steps
<1>3. CASE CompactRegister(c)
  <2>1. op' \in [Clients -> Calls]
    BY <1>1, <1>2, <1>3, StepType DEF CompactRegister, CompactSteps
  <2>2. cause' \in [Runs -> Causes] /\ slot' \in Runs \cup {None}
    BY <1>3 DEF CompactRegister, TypeOK, Causes, Runs
  <2> QED BY <1>3, <2>1, <2>2
          DEF CompactRegister, TypeOK, LiveCur, Live, sched, loop, disk, ghosts
<1>4. CASE CompactRun(c)
  <2>1. op' \in [Clients -> Calls]
    BY <1>1, <1>2, <1>4, StepType DEF CompactRun, CompactSteps
  <2> QED BY <1>4, <2>1
          DEF CompactRun, TypeOK, LiveCur, Live, Runs, sched, loop, disk, ghosts
<1>5. CASE CompactEnd(c)
  <2>1. op' \in [Clients -> Calls]
    BY <1>1, <1>2, <1>5, StepType DEF CompactEnd, CompactSteps
  <2>2. cause' \in [Runs -> Causes]
    BY <1>1, <1>5, CancelledType DEF CompactEnd, Causes
  <2> QED BY <1>5, <2>1, <2>2
          DEF CompactEnd, TypeOK, LiveCur, Live, sched, loop, disk, ghosts
<1>6. CASE CompactRelease(c)
  <2>1. op' \in [Clients -> Calls]
    BY <1>1, <1>2, <1>6, StepType DEF CompactRelease, CompactSteps
  <2> QED BY <1>6, <2>1
          DEF CompactRelease, TypeOK, LiveCur, Live, sched, loop, disk, ghosts
<1>7. CASE CompactSettle(c)
  <2>1. op' \in [Clients -> Calls]
    BY <1>1, <1>7, ReturnType DEF CompactSettle
  <2>2. CASE deleted \/ queue = <<>>
    BY <1>7, <2>1, <2>2
       DEF CompactSettle, TypeOK, LiveCur, Live, loop, engine, disk, ghosts
  <2>3. CASE ~(deleted \/ queue = <<>>)
    <3>1. Head(queue) \in Msgs /\ Tail(queue) \in Seq(Msgs)
      BY <1>1, <2>3
    <3>2. queue' = Tail(queue) /\ CreateRunner(Head(queue))
      BY <1>7, <2>3 DEF CompactSettle
    <3> QED BY <1>7, <2>1, <3>1, <3>2, CreateRunnerType
            DEF CompactSettle, TypeOK, engine, disk, ghosts
  <2> QED BY <2>2, <2>3
<1> QED BY <1>3, <1>4, <1>5, <1>6, <1>7 DEF CompactStep

\* The goroutine of a runner.
LEMMA LoopStepType ==
    ASSUME TypeInv, NEW r \in Msgs, LoopStep(r)
    PROVE  TypeInv'
<1> USE DEF TypeInv, At, InRunInput
<1>1. CASE TurnRegister(r)
  <2>1. Live(r) /\ cur[r] \in Msgs
    BY <1>1 DEF TurnRegister, LiveCur, Live
  <2>2. \E to \in {"registered", "returned"} : pc' = [pc EXCEPT ![r] = to]
    BY <1>1 DEF TurnRegister
  <2>3. /\ pc' \in [Msgs -> InRunInput \cup {"none", "returned", "exiting", "done"}]
        /\ \A x \in Msgs : Live(x)' => Live(x)
    BY <2>1, <2>2 DEF TypeOK, Live
  <2>4. slot' \in Runs \cup {None} /\ dropped' \subseteq Msgs
    BY <1>1, <2>1 DEF TurnRegister, TypeOK, Runs
  <2>5. UNCHANGED <<sched, cur, dones, cause, disk, op, accepted, removed, served>>
    BY <1>1 DEF TurnRegister
  <2> QED BY <2>3, <2>4, <2>5 DEF TypeOK, LiveCur, sched, disk
<1>2. CASE TurnRun(r)
  BY <1>2 DEF TurnRun, TypeOK, LiveCur, Live, Runs, sched, disk, ghosts
<1>3. CASE TurnRecord(r)
  BY <1>3 DEF TurnRecord, TypeOK, LiveCur, Live, sched, engine, ghosts
<1>4. CASE TurnEnd(r)
  <2>1. cause' \in [Runs -> Causes]
    BY <1>4, CancelledType DEF TurnEnd, TypeOK, Causes
  <2> QED BY <1>4, <2>1 DEF TurnEnd, TypeOK, LiveCur, Live, sched, disk, ghosts
<1>5. CASE TurnRelease(r)
  BY <1>5 DEF TurnRelease, TypeOK, LiveCur, Live, sched, disk
<1>6. CASE LoopExit(r)
  BY <1>6 DEF LoopExit, TypeOK, LiveCur, Live, engine, disk, ghosts
<1>7. CASE LoopNext(r)
  <2>1. Head(queue) \in Msgs /\ Tail(queue) \in Seq(Msgs)
    BY <1>7 DEF LoopNext, TypeOK
  <2> QED BY <1>7, <2>1 DEF LoopNext, TypeOK, LiveCur, Live, engine, disk, ghosts
<1>8. CASE LoopDone(r)
  BY <1>8 DEF LoopDone, TypeOK, LiveCur, Live, sched, engine, disk, ghosts
<1> QED BY <1>1, <1>2, <1>3, <1>4, <1>5, <1>6, <1>7, <1>8 DEF LoopStep

LEMMA TypeNext == TypeInv /\ [Next]_vars => TypeInv'
<1> SUFFICES ASSUME TypeInv, [Next]_vars PROVE TypeInv'
  OBVIOUS
<1>1. CASE Next
  BY <1>1, QueueStepType, UserStepType, CallStepType, CompactStepType, LoopStepType DEF Next
<1>2. CASE UNCHANGED vars
  BY <1>2 DEF TypeInv, TypeOK, LiveCur, Live, vars, sched, loop, engine, disk, ghosts
<1> QED BY <1>1, <1>2

\* Type correctness: every variable of the scheduler and of the engine's run
\* registry stays in its domain, and a runner that is live (queue.go:834) always
\* has a message to run.
THEOREM TypeCorrect == Spec => []TypeOK
<1>1. Spec => []TypeInv
  BY TypeInit, TypeNext, PTL DEF Spec
<1>2. TypeInv => TypeOK
  BY DEF TypeInv
<1> QED BY <1>1, <1>2, PTL

-----------------------------------------------------------------------------
(* One run at a time.  OneRunPerSession is not inductive: what keeps it is  *)
(* that the steps of a compaction belong to calls of that kind only, and    *)
(* what makes the engine accept every turn is that whoever occupies its     *)
(* slot is a live runner or a compaction.                                   *)

InEngine == {"registered", "running", "recorded", "closed"}
CompactInEngine == {"registered", "compacting", "closed"}

CallShape == \A c \in Clients : InCompaction(c) <=> op[c].step \in CompactSteps

SlotOwned ==
    slot # None => \/ \E r \in Msgs : pc[r] \in InEngine
                   \/ \E c \in Clients : op[c].step \in CompactInEngine

DoneOwned ==
    dones # None => \/ \E r \in Msgs : pc[r] \in {"running", "recorded"}
                    \/ \E c \in Clients : op[c].step = "compacting"

ExclInv ==
    /\ TypeInv
    /\ CallShape /\ OneRunPerSession /\ SlotOwned /\ DoneOwned
    /\ NoTurnRefused

LEMMA ExclInit == Init => ExclInv
<1> SUFFICES ASSUME Init PROVE ExclInv
  OBVIOUS
<1>1. TypeInv
  BY TypeInit
<1>2. \A r \in Msgs : ~Live(r)
  BY DEF Init, Live, InRunInput
<1>3. \A c \in Clients : op[c].kind = "none" /\ op[c].step = "none"
  BY DEF Init, Idle
<1>4. CallShape /\ OneRunPerSession
  BY <1>2, <1>3, MsgsAssumption
     DEF Init, CallShape, OneRunPerSession, InCompaction, CompactSteps
<1>5. SlotOwned /\ DoneOwned /\ NoTurnRefused
  BY DEF Init, SlotOwned, DoneOwned, NoTurnRefused
<1> QED BY <1>1, <1>4, <1>5 DEF ExclInv

\* Steps that touch no runner, no compaction and not the engine.
LEMMA ExclFrame ==
    ASSUME ExclInv, TypeInv', UNCHANGED <<runner, pc, compacting, slot, dones, op, dropped>>
    PROVE  ExclInv'
BY DEF ExclInv, CallShape, OneRunPerSession, SlotOwned, DoneOwned, NoTurnRefused,
       InCompaction, Live

\* ... nor another call than that of c, which is no compaction before or after.
LEMMA ExclCall ==
    ASSUME ExclInv, TypeInv', NEW c \in Clients, NEW call \in Calls,
           op' = [op EXCEPT ![c] = call],
           op[c].step \notin CompactSteps,
           call.step \notin CompactSteps, call.kind # "compact",
           UNCHANGED <<runner, pc, compacting, slot, dones, dropped>>
    PROVE  ExclInv'
<1>1. op \in [Clients -> Calls]
  BY DEF ExclInv, TypeInv, TypeOK
<1>2. \A d \in Clients : op'[d] = IF d = c THEN call ELSE op[d]
  BY <1>1
<1>3. \A d \in Clients : InCompaction(d)' <=> InCompaction(d)
  BY <1>2 DEF ExclInv, CallShape, InCompaction
<1>4. \A d \in Clients : op'[d].step \in CompactSteps <=> op[d].step \in CompactSteps
  BY <1>2
<1>5. CallShape'
  BY <1>3, <1>4 DEF ExclInv, CallShape
<1>6. OneRunPerSession'
  BY <1>3 DEF ExclInv, OneRunPerSession, Live
<1>7. CompactInEngine \subseteq CompactSteps /\ "compacting" \in CompactSteps
  BY DEF CompactInEngine, CompactSteps
<1>8. \A d \in Clients : op[d].step \in CompactSteps => op'[d] = op[d]
  BY <1>2
<1>9. SlotOwned' /\ DoneOwned'
  BY <1>7, <1>8 DEF ExclInv, SlotOwned, DoneOwned
<1> QED BY <1>5, <1>6, <1>9 DEF ExclInv, NoTurnRefused

\* A runner is created only where there is none and no compaction.
LEMMA ExclCreate ==
    ASSUME ExclInv, TypeInv', NEW m \in Msgs, CreateRunner(m), ~Busy,
           UNCHANGED <<compacting, slot, dones, op, dropped>>
    PROVE  ExclInv'
<1>1. \A r \in Msgs : ~Live(r)
  BY MsgsAssumption DEF ExclInv, OneRunPerSession, Busy
<1>2. \A r \in Msgs : pc'[r] = IF r = m THEN "start" ELSE pc[r]
  BY DEF CreateRunner, ExclInv, TypeInv, TypeOK
<1>3. \A r \in Msgs : Live(r)' <=> runner' = r
  BY <1>1, <1>2 DEF CreateRunner, Live, InRunInput
<1>4. ~compacting /\ \A c \in Clients : ~InCompaction(c)
  BY DEF Busy, ExclInv, OneRunPerSession
<1>5. OneRunPerSession' /\ CallShape'
  BY <1>3, <1>4 DEF ExclInv, OneRunPerSession, CallShape, InCompaction
<1>6. \A r \in Msgs : pc[r] \notin InEngine
  BY <1>1 DEF InEngine, Live, InRunInput
<1>7. slot = None /\ dones = None
  BY <1>4, <1>6 DEF ExclInv, SlotOwned, DoneOwned, CallShape, InEngine,
     CompactInEngine, CompactSteps
<1> QED BY <1>5, <1>7 DEF ExclInv, SlotOwned, DoneOwned, NoTurnRefused

LEMMA ExclStep ==
    ASSUME ExclInv, TypeInv', NEW c \in Clients, NEW from, NEW to \in Steps,
           from \notin CompactSteps, to \notin CompactSteps,
           Step(c, from, to),
           UNCHANGED <<runner, pc, compacting, slot, dones, dropped>>
    PROVE  ExclInv'
<1> DEFINE call == [op[c] EXCEPT !.step = to]
<1>1. op \in [Clients -> Calls]
  BY DEF ExclInv, TypeInv, TypeOK
<1>2. call \in Calls /\ call.step = to /\ call.kind = op[c].kind
  BY <1>1 DEF Calls
<1>3. op' = [op EXCEPT ![c] = call] /\ op[c].step \notin CompactSteps
  BY DEF Step
<1>4. op[c].kind # "compact"
  BY <1>3 DEF ExclInv, CallShape, InCompaction
<1> QED BY <1>2, <1>3, <1>4, ExclCall

LEMMA ExclReturn ==
    ASSUME ExclInv, TypeInv', NEW c \in Clients, NEW from, from \notin CompactSteps,
           Return(c, from),
           UNCHANGED <<runner, pc, compacting, slot, dones, dropped>>
    PROVE  ExclInv'
<1>1. Idle.step \notin CompactSteps /\ Idle.kind # "compact"
  BY DEF Idle, CompactSteps
<1> QED BY <1>1, IdleType, ExclCall DEF Return

LEMMA ExclBegin ==
    ASSUME ExclInv, TypeInv', NEW c \in Clients, NEW call \in Calls,
           call.step \notin CompactSteps, call.kind # "compact",
           Begin(c, call),
           UNCHANGED <<runner, pc, compacting, slot, dones, dropped>>
    PROVE  ExclInv'
<1>1. op[c].step \notin CompactSteps
  BY DEF Begin, Idle, CompactSteps
<1> QED BY <1>1, ExclCall DEF Begin

LEMMA QueueStepExcl ==
    ASSUME ExclInv, QueueStep
    PROVE  ExclInv'
<1>1. TypeInv'
  BY QueueStepType DEF ExclInv
<1>2. queue \in Seq(Msgs)
  BY DEF ExclInv, TypeInv, TypeOK
<1>3. ASSUME NEW m \in Msgs, SubmitQueued(m) \/ EnqueueInput(m) PROVE ExclInv'
  BY <1>1, <1>3, ExclFrame DEF SubmitQueued, EnqueueInput, loop, engine
<1>4. ASSUME NEW m \in Msgs, SubmitResume(m) PROVE ExclInv'
  BY <1>1, <1>2, <1>4, ExclCreate DEF SubmitResume, engine
<1>5. ASSUME NEW m \in Msgs, SubmitStarted(m) PROVE ExclInv'
  BY <1>1, <1>5, ExclCreate DEF SubmitStarted, engine
<1>6. ASSUME NEW m \in Msgs, RewindTurn(m) PROVE ExclInv'
  BY <1>1, <1>6, ExclFrame DEF RewindTurn, sched, loop, engine, ghosts
<1>7. ASSUME NEW i \in DOMAIN queue, NEW j \in DOMAIN queue, UpdateQueuedMessage(i, j)
      PROVE ExclInv'
  BY <1>1, <1>7, ExclFrame DEF UpdateQueuedMessage, loop, engine, ghosts
<1>8. ASSUME NEW i \in DOMAIN queue, DeleteQueuedMessage(i) PROVE ExclInv'
  BY <1>1, <1>8, ExclFrame DEF DeleteQueuedMessage, loop, engine
<1> QED BY <1>3, <1>4, <1>5, <1>6, <1>7, <1>8 DEF QueueStep

LEMMA UserStepExcl ==
    ASSUME ExclInv, NEW c \in Clients, UserStep(c)
    PROVE  ExclInv'
<1>1. TypeInv'
  BY UserStepType DEF ExclInv
<1>2. queue \in Seq(Msgs) /\ runner \in Msgs \cup {None}
  BY DEF ExclInv, TypeInv, TypeOK
<1>3. (IF runner = None THEN None ELSE cur[runner]) \in Msgs \cup {None}
  BY DEF ExclInv, TypeInv, TypeOK
<1>4. ASSUME NEW i \in DOMAIN queue, DispatchBusy(c, i) PROVE ExclInv'
  <2> DEFINE call == [Idle EXCEPT !.kind = "dispatch", !.step = "cancelRun", !.run = runner,
                             !.ctx = IF runner = None THEN None ELSE cur[runner],
                             !.sel = queue[i]]
  <2>1. queue[i] \in Msgs
    BY <1>2, RemoveAtType
  <2>2. call \in Calls /\ call.step \notin CompactSteps /\ call.kind # "compact"
    BY <1>2, <1>3, <2>1 DEF Idle, Calls, Kinds, Steps, Runs, CompactSteps
  <2> QED BY <1>1, <1>4, <2>2, ExclBegin DEF DispatchBusy, loop, engine, ghosts
<1>5. ASSUME NEW i \in DOMAIN queue, DispatchIdle(c, i) PROVE ExclInv'
  BY <1>1, <1>2, <1>5, RemoveAtType, ExclCreate DEF DispatchIdle, engine, ghosts
<1>6. CASE CancelCurrentTurn(c)
  <2> DEFINE call == [Idle EXCEPT !.kind = "stop", !.step = "cancelRun", !.run = runner,
                             !.ctx = IF runner = None THEN None ELSE cur[runner]]
  <2>1. call \in Calls /\ call.step \notin CompactSteps /\ call.kind # "compact"
    BY <1>2, <1>3 DEF Idle, Calls, Kinds, Steps, Runs, CompactSteps
  <2> QED BY <1>1, <1>6, <2>1, ExclBegin DEF CancelCurrentTurn, loop, engine, ghosts
<1>7. CASE StopSession(c)
  <2> DEFINE call == [Idle EXCEPT !.kind = "delete", !.run = runner,
                             !.ctx = IF runner = None THEN None ELSE cur[runner],
                             !.step = IF runner = None THEN "cancelSlot" ELSE "cancelRun"]
  <2>1. call \in Calls /\ call.step \notin CompactSteps /\ call.kind # "compact"
    BY <1>2, <1>3 DEF Idle, Calls, Kinds, Steps, Runs, CompactSteps
  <2> QED BY <1>1, <1>7, <2>1, ExclBegin DEF StopSession, loop, engine
<1>8. CASE CompactBegin(c)
  <2> DEFINE call == [Idle EXCEPT !.kind = "compact", !.step = "begin"]
  <2>1. call.kind = "compact" /\ call.step = "begin"
    BY DEF Idle
  <2>2. \A d \in Clients : op'[d] = IF d = c THEN call ELSE op[d]
    BY <1>8 DEF CompactBegin, Begin, ExclInv, TypeInv, TypeOK
  <2>3. runner = None /\ runner' = None /\ compacting' /\ ~compacting
    BY <1>8 DEF CompactBegin, Busy
  <2>4. \A d \in Clients : ~InCompaction(d)
    BY <2>3 DEF ExclInv, OneRunPerSession
  <2>5. \A d \in Clients : InCompaction(d)' <=> d = c
    BY <2>1, <2>2, <2>4 DEF InCompaction
  <2>6. OneRunPerSession'
    BY <1>8, <2>3, <2>5 DEF CompactBegin, ExclInv, OneRunPerSession, Live, loop
  <2>7. CallShape'
    BY <2>1, <2>2, <2>4, <2>5 DEF ExclInv, CallShape, InCompaction, CompactSteps
  <2>8. slot' = slot /\ dones' = dones /\ pc' = pc /\ dropped' = dropped
    BY <1>8 DEF CompactBegin, loop, engine, ghosts
  <2>9. \A d \in Clients : op[d].step \in CompactInEngine => op'[d] = op[d]
    BY <2>2, <2>4 DEF ExclInv, CallShape, CompactInEngine, CompactSteps
  <2>10. \A d \in Clients : op[d].step = "compacting" => op'[d] = op[d]
    BY <2>9 DEF CompactInEngine
  <2>11. SlotOwned' /\ DoneOwned' /\ NoTurnRefused'
    BY <2>8, <2>9, <2>10 DEF ExclInv, SlotOwned, DoneOwned, NoTurnRefused
  <2> QED BY <1>1, <2>6, <2>7, <2>11 DEF ExclInv
<1> QED BY <1>4, <1>5, <1>6, <1>7, <1>8 DEF UserStep

LEMMA CallStepExcl ==
    ASSUME ExclInv, NEW c \in Clients, CallStep(c)
    PROVE  ExclInv'
<1>1. TypeInv'
  BY CallStepType DEF ExclInv
<1>2. {"cancelCtx", "waitRunner", "meta", "log", "loadDone"} \subseteq Steps
  BY DEF Steps
<1>3. {"cancelRun", "cancelCtx", "cancelSlot", "loadDone", "waitSlot", "waitRunner", "meta", "log"}
        \cap CompactSteps = {}
  BY DEF CompactSteps
<1>4. CASE CancelWithReason(c)
  BY <1>1, <1>2, <1>3, <1>4, ExclStep, ExclReturn
     DEF CancelWithReason, sched, loop, ghosts
<1>5. CASE CancelRunnerContext(c)
  BY <1>1, <1>2, <1>3, <1>5, ExclStep, ExclReturn
     DEF CancelRunnerContext, sched, loop, ghosts
<1>6. CASE CancelAndWait(c)
  BY <1>1, <1>2, <1>3, <1>6, ExclStep DEF CancelAndWait, sched, loop, ghosts
<1>7. CASE LoadDone(c)
  <2> DEFINE call == [op[c] EXCEPT !.step = IF dones = None THEN "meta" ELSE "waitSlot",
                                   !.ctx = dones]
  <2>1. op[c] \in Calls /\ dones \in Runs \cup {None}
    BY DEF ExclInv, TypeInv, TypeOK
  <2>2. call \in Calls /\ call.step \in {"meta", "waitSlot"} /\ call.kind = op[c].kind
    BY <2>1 DEF Calls, Steps
  <2>3. op[c].kind # "compact"
    BY <1>3, <1>7 DEF LoadDone, ExclInv, CallShape, InCompaction
  <2> QED BY <1>1, <1>3, <1>7, <2>2, <2>3, ExclCall
          DEF LoadDone, sched, loop, engine, ghosts
<1>8. CASE StopWaited(c)
  BY <1>1, <1>2, <1>3, <1>8, ExclStep DEF StopWaited, sched, loop, engine, ghosts
<1>9. CASE StopTimedOut(c)
  <2> DEFINE call == [op[c] EXCEPT !.step = "meta", !.late = TRUE]
  <2>1. op[c] \in Calls
    BY DEF ExclInv, TypeInv, TypeOK
  <2>2. call \in Calls /\ call.step = "meta" /\ call.kind = op[c].kind
    BY <2>1 DEF Calls, Steps
  <2>3. op[c].kind # "compact"
    BY <1>3, <1>9 DEF StopTimedOut, ExclInv, CallShape, InCompaction
  <2> QED BY <1>1, <1>3, <1>9, <2>2, <2>3, ExclCall
          DEF StopTimedOut, sched, loop, engine, ghosts
<1>10. CASE DeleteMetadata(c)
  BY <1>1, <1>2, <1>3, <1>10, ExclStep, ExclReturn
     DEF DeleteMetadata, sched, loop, engine, ghosts
<1>11. CASE DeleteLog(c)
  BY <1>1, <1>3, <1>11, ExclReturn DEF DeleteLog, sched, loop, engine, ghosts
<1> QED BY <1>4, <1>5, <1>6, <1>7, <1>8, <1>9, <1>10, <1>11 DEF CallStep

\* A compaction keeps the session to itself until it settles.
LEMMA ExclCompacting ==
    ASSUME ExclInv, NEW c \in Clients, op[c].step \in CompactSteps
    PROVE  /\ compacting /\ runner = None
           /\ \A r \in Msgs : ~Live(r)
           /\ \A d \in Clients : op[d].step \in CompactSteps => d = c
<1>1. InCompaction(c)
  BY DEF ExclInv, CallShape
<1>2. compacting /\ runner = None
  BY <1>1 DEF ExclInv, OneRunPerSession
<1>3. \A r \in Msgs : ~Live(r)
  BY <1>2, MsgsAssumption DEF ExclInv, OneRunPerSession
<1> QED BY <1>1, <1>2, <1>3 DEF ExclInv, OneRunPerSession, CallShape

\* A step of a compaction other than its last.
LEMMA ExclCompactStep ==
    ASSUME ExclInv, TypeInv', NEW c \in Clients, NEW from \in CompactSteps,
           NEW to \in CompactSteps, Step(c, from, to),
           UNCHANGED <<runner, pc, compacting, dropped>>,
           slot' # None => to \in CompactInEngine,
           dones' # None => to = "compacting"
    PROVE  ExclInv'
<1>1. \A d \in Clients : op'[d] = IF d = c THEN [op[c] EXCEPT !.step = to] ELSE op[d]
  BY DEF Step, ExclInv, TypeInv, TypeOK
<1>2. op[c] \in Calls /\ op[c].step = from
  BY DEF Step, ExclInv, TypeInv, TypeOK
<1>3. op'[c].step = to /\ op'[c].kind = op[c].kind
  BY <1>1, <1>2 DEF Calls
<1>4. \A d \in Clients : InCompaction(d)' <=> InCompaction(d)
  BY <1>1, <1>3 DEF InCompaction
<1>5. CallShape' /\ OneRunPerSession'
  BY <1>1, <1>2, <1>3, <1>4 DEF ExclInv, CallShape, OneRunPerSession, Live
<1>6. SlotOwned' /\ DoneOwned'
  BY <1>3 DEF SlotOwned, DoneOwned
<1> QED BY <1>5, <1>6 DEF ExclInv, NoTurnRefused

LEMMA CompactStepExcl ==
    ASSUME ExclInv, NEW c \in Clients, CompactStep(c)
    PROVE  ExclInv'
<1>1. TypeInv'
  BY CompactStepType DEF ExclInv
<1>2. queue \in Seq(Msgs) /\ op \in [Clients -> Calls]
  BY DEF ExclInv, TypeInv, TypeOK
<1>3. op[c].step \in CompactSteps
  BY DEF CompactStep, CompactRegister, CompactRun, CompactEnd, CompactRelease,
         CompactSettle, Step, Return, CompactSteps
<1>4. \A r \in Msgs : pc[r] \notin InEngine
  BY <1>3, ExclCompacting DEF InEngine, Live, InRunInput
<1>5. op[c].step \notin CompactInEngine => slot = None
  BY <1>3, <1>4, ExclCompacting DEF ExclInv, SlotOwned, CompactInEngine, CompactSteps
<1>6. op[c].step # "compacting" => dones = None
  BY <1>3, <1>4, ExclCompacting
     DEF ExclInv, DoneOwned, InEngine, CompactSteps
<1>7. CASE op[c].step = "begin" /\ CompactRegister(c)
  <2>1. slot = None
    BY <1>5, <1>7 DEF CompactInEngine
  <2>2. Step(c, "begin", "registered") /\ dones' = None
    BY <1>6, <1>7, <2>1 DEF CompactRegister
  <2> QED BY <1>1, <1>7, <2>2, ExclCompactStep
          DEF CompactRegister, CompactSteps, CompactInEngine, sched, loop, ghosts
<1>8. CASE CompactRun(c)
  BY <1>1, <1>8, ExclCompactStep
     DEF CompactRun, CompactSteps, CompactInEngine, sched, loop, ghosts
<1>9. CASE CompactEnd(c)
  BY <1>1, <1>9, ExclCompactStep
     DEF CompactEnd, CompactSteps, CompactInEngine, sched, loop, ghosts
<1>10. CASE CompactRelease(c)
  <2>1. dones = None
    BY <1>6, <1>10 DEF CompactRelease, Step
  <2> QED BY <1>1, <1>10, <2>1, ExclCompactStep
          DEF CompactRelease, CompactSteps, CompactInEngine, sched, loop, ghosts
<1>11. CASE CompactSettle(c)
  <2>1. slot = None /\ dones = None /\ slot' = None /\ dones' = None
    BY <1>5, <1>6, <1>11 DEF CompactSettle, Return, CompactInEngine, engine
  <2>2. \A d \in Clients : op'[d] = IF d = c THEN Idle ELSE op[d]
    BY <1>2, <1>11 DEF CompactSettle, Return
  <2>3. \A d \in Clients : op'[d].step \notin CompactSteps /\ ~InCompaction(d)'
    BY <1>3, <2>2, ExclCompacting
       DEF ExclInv, CallShape, InCompaction, Idle, CompactSteps
  <2>4. \A r \in Msgs : Live(r)' <=> runner' = r
    <3>1. CASE deleted \/ queue = <<>>
      BY <1>3, <1>11, <3>1, ExclCompacting, MsgsAssumption
         DEF CompactSettle, Live, loop
    <3>2. CASE ~(deleted \/ queue = <<>>)
      <4>1. CreateRunner(Head(queue)) /\ Head(queue) \in Msgs
        BY <1>2, <1>11, <3>2 DEF CompactSettle
      <4>2. \A r \in Msgs : pc'[r] = IF r = Head(queue) THEN "start" ELSE pc[r]
        BY <4>1 DEF CreateRunner, ExclInv, TypeInv, TypeOK
      <4> QED BY <1>3, <4>1, <4>2, ExclCompacting DEF CreateRunner, Live, InRunInput
    <3> QED BY <3>1, <3>2
  <2>5. ~compacting'
    BY <1>11 DEF CompactSettle
  <2>6. OneRunPerSession' /\ CallShape'
    BY <2>3, <2>4, <2>5 DEF OneRunPerSession, CallShape
  <2> QED BY <1>1, <1>11, <2>1, <2>6
          DEF CompactSettle, ExclInv, SlotOwned, DoneOwned, NoTurnRefused, ghosts
<1> QED BY <1>7, <1>8, <1>9, <1>10, <1>11 DEF CompactStep

\* A step of a turn that stays live.
LEMMA ExclTurnStep ==
    ASSUME ExclInv, TypeInv', NEW r \in Msgs, NEW from, NEW to, At(r, from, to),
           from \in InRunInput \cup {"returned"}, to \in InRunInput \cup {"returned"},
           UNCHANGED <<runner, compacting, op, dropped>>,
           slot' # None => to \in InEngine,
           dones' # None => to \in {"running", "recorded"}
    PROVE  ExclInv'
<1>1. \A x \in Msgs : pc'[x] = IF x = r THEN to ELSE pc[x]
  BY DEF At, ExclInv, TypeInv, TypeOK
<1>2. \A x \in Msgs : Live(x)' <=> Live(x)
  BY <1>1 DEF At, Live
<1>3. OneRunPerSession' /\ CallShape'
  BY <1>2 DEF ExclInv, OneRunPerSession, CallShape, InCompaction
<1>4. SlotOwned' /\ DoneOwned'
  BY <1>1 DEF SlotOwned, DoneOwned
<1> QED BY <1>3, <1>4 DEF ExclInv, NoTurnRefused

LEMMA LoopStepExcl ==
    ASSUME ExclInv, NEW r \in Msgs, LoopStep(r)
    PROVE  ExclInv'
<1>1. TypeInv'
  BY LoopStepType DEF ExclInv
<1>2. ASSUME Live(r)
      PROVE  /\ \A x \in Msgs : x # r => ~Live(x)
             /\ \A c \in Clients : op[c].step \notin CompactSteps
             /\ runner = r /\ ~compacting
  BY <1>2, MsgsAssumption DEF ExclInv, OneRunPerSession, CallShape
<1>3. ASSUME Live(r), pc[r] \notin InEngine
      PROVE  slot = None
  BY <1>2, <1>3
     DEF ExclInv, SlotOwned, CompactInEngine, CompactSteps, InEngine, Live, InRunInput
<1>4. ASSUME Live(r), pc[r] \notin {"running", "recorded"}
      PROVE  dones = None
  BY <1>2, <1>4
     DEF ExclInv, DoneOwned, CompactSteps, Live, InRunInput
<1>5. CASE TurnRegister(r)
  <2>1. pc[r] = "start" /\ Live(r)
    BY <1>5 DEF TurnRegister, At, Live, InRunInput
  <2>2. slot = None /\ dones = None
    BY <1>3, <1>4, <2>1 DEF InEngine
  <2> QED BY <1>1, <1>5, <2>2, ExclTurnStep
          DEF TurnRegister, InRunInput, InEngine, sched
<1>6. CASE TurnRun(r)
  BY <1>1, <1>6, ExclTurnStep DEF TurnRun, InRunInput, InEngine, sched, ghosts
<1>7. CASE TurnRecord(r)
  BY <1>1, <1>7, ExclTurnStep DEF TurnRecord, InRunInput, InEngine, sched, engine, ghosts
<1>8. CASE TurnEnd(r)
  BY <1>1, <1>8, ExclTurnStep DEF TurnEnd, InRunInput, InEngine, sched, ghosts
<1>9. CASE TurnRelease(r)
  <2>1. dones = None
    BY <1>4, <1>9 DEF TurnRelease, At, Live, InRunInput
  <2> QED BY <1>1, <1>9, <2>1, ExclTurnStep DEF TurnRelease, InRunInput, InEngine, sched
<1>10. CASE LoopExit(r)
  <2>1. pc[r] = "returned" /\ Live(r)
    BY <1>10 DEF LoopExit, At, Live
  <2>2. runner = r /\ ~compacting /\ slot = None /\ dones = None
    BY <1>2, <1>3, <1>4, <2>1 DEF InEngine
  <2>3. \A x \in Msgs : pc'[x] = IF x = r THEN "exiting" ELSE pc[x]
    BY <1>10 DEF LoopExit, At, ExclInv, TypeInv, TypeOK
  <2>4. \A x \in Msgs : ~Live(x)'
    BY <1>2, <2>1, <2>3 DEF Live, InRunInput
  <2>5. runner' = None
    BY <1>10, <2>2 DEF LoopExit
  <2>6. OneRunPerSession' /\ CallShape'
    BY <1>10, <2>4, <2>5, MsgsAssumption
       DEF LoopExit, ExclInv, OneRunPerSession, CallShape, InCompaction
  <2> QED BY <1>1, <1>10, <2>2, <2>6
          DEF LoopExit, ExclInv, SlotOwned, DoneOwned, NoTurnRefused, engine, ghosts
<1>11. CASE LoopNext(r)
  <2>1. slot = None /\ dones = None
    BY <1>3, <1>4, <1>11 DEF LoopNext, At, Live, InEngine
  <2> QED BY <1>1, <1>11, <2>1, ExclTurnStep DEF LoopNext, InRunInput, engine, ghosts
<1>12. CASE LoopDone(r)
  <2>1. \A x \in Msgs : pc'[x] = IF x = r THEN "done" ELSE pc[x]
    BY <1>12 DEF LoopDone, At, ExclInv, TypeInv, TypeOK
  <2>2. \A x \in Msgs : /\ Live(x)' <=> Live(x)
                        /\ pc[x] \in InEngine => pc'[x] \in InEngine
                        /\ pc[x] \in {"running", "recorded"} => pc'[x] \in {"running", "recorded"}
    BY <1>12, <2>1 DEF LoopDone, At, Live, InRunInput, InEngine
  <2> QED BY <1>1, <1>12, <2>2
          DEF LoopDone, ExclInv, OneRunPerSession, CallShape, InCompaction, SlotOwned,
              DoneOwned, NoTurnRefused, sched, engine, ghosts
<1> QED BY <1>5, <1>6, <1>7, <1>8, <1>9, <1>10, <1>11, <1>12 DEF LoopStep

LEMMA ExclNext == ExclInv /\ [Next]_vars => ExclInv'
<1> SUFFICES ASSUME ExclInv, [Next]_vars PROVE ExclInv'
  OBVIOUS
<1>1. CASE Next
  BY <1>1, QueueStepExcl, UserStepExcl, CallStepExcl, CompactStepExcl, LoopStepExcl DEF Next
<1>2. CASE UNCHANGED vars
  <2>1. TypeInv'
    BY <1>2, TypeNext DEF ExclInv
  <2> QED BY <1>2, <2>1, ExclFrame DEF vars, sched, loop, engine, ghosts
<1> QED BY <1>1, <1>2

LEMMA ExclAlways == Spec => []ExclInv
BY ExclInit, ExclNext, PTL DEF Spec

\* One run at a time: runners, compacting flag and the goroutines behind them
\* agree, so a session never has two turns, two compactions, or one of each
\* (runTurnLoop, CompactSession).
THEOREM OneRunAlways == Spec => []OneRunPerSession
<1>1. ExclInv => OneRunPerSession
  BY DEF ExclInv
<1> QED BY <1>1, ExclAlways, PTL

\* The engine's "already has a running turn" (turn.go:166) is never met by a turn
\* the scheduler starts; its error, ignored at queue.go:849, loses no message.
THEOREM NeverRefused == Spec => []NoTurnRefused
<1>1. ExclInv => NoTurnRefused
  BY DEF ExclInv
<1> QED BY <1>1, ExclAlways, PTL
=============================================================================
