---------------------------- MODULE TurnLoopProofs ----------------------------
(***************************************************************************)
(* Proofs about the turns of a session: what runs at the same time, how    *)
(* often a turn completes, and what its messages say of the calls of a     *)
(* response.  The first two stand on invariants of their own (LaneInv,     *)
(* OnceInv); the other two share the invariants of the log (LogInv,        *)
(* WaveInv, AnswersInv).                                                   *)
(***************************************************************************)
EXTENDS TurnLoop, Integers, TLAPS, FiniteSetTheorems, SequenceTheorems

Places == {"idle", "admit", "prepare", "stream", "receive", "recover", "record",
           "record_write", "stop_hook", "tools", "running", "collect", "collect_write",
           "completing"}

\* The places between the message that asks for calls and the last of their results.
InWave == {"tools", "running", "collect", "collect_write"}

Phases == {"waiting", "running", "ended"}
Verdicts == {"none", "completed", "failed", "cancelled"}

-----------------------------------------------------------------------------
(***************************************************************************)
(* The lanes of the tools.                                                 *)
(***************************************************************************)

InLane == {i \in Each : Parallel(i) /\ phase[i] = "running"}

\* A sequential call that has begun found the sequential calls before it ended.
SequentialCalls ==
    \A i \in Each : ~Parallel(i) /\ phase[i] # "waiting" =>
        \A j \in 1 .. i - 1 : ~Parallel(j) => phase[j] = "ended"

LaneInv ==
    /\ calls \in Seq(Tools)
    /\ pc = "running" =>
           /\ phase \in [Each -> Phases]
           /\ Cardinality(InLane) <= MaxParallel
           /\ SequentialCalls

LEMMA CallsDomain == ASSUME calls \in Seq(Tools)
                     PROVE  Each = 1 .. Len(calls) /\ Len(calls) \in Nat
  BY DEF Each

LEMMA LanesFinite ==
  ASSUME calls \in Seq(Tools)
  PROVE  IsFiniteSet(InLane) /\ Cardinality(InLane) \in Nat
<1>1. IsFiniteSet(1 .. Len(calls))  BY CallsDomain, FS_Interval
<1>2. InLane \subseteq 1 .. Len(calls)  BY CallsDomain DEF InLane
<1> QED  BY <1>1, <1>2, FS_Subset, FS_CardinalityType

LEMMA LaneInit == Init => LaneInv
  BY EmptySeq DEF Init, LaneInv

\* A call that is not over goes on, and one that has not begun has its lane.
LEMMA LaneOfOne ==
  ASSUME LaneInv, pc = "running", UNCHANGED calls, NEW i \in Each, NEW p \in {"running", "ended"},
         phase' = [phase EXCEPT ![i] = p], phase[i] # "ended",
         phase[i] = "waiting" => HasLane(i),
         p = "running" /\ Parallel(i) => Cardinality(InLane) < MaxParallel
  PROVE  LaneInv'
<1>1. Each' = Each /\ \A j \in Each : Parallel(j)' = Parallel(j)  BY DEF Each, Parallel
<1>2. phase' \in [Each -> Phases] /\ phase'[i] = p
      /\ \A j \in Each : j # i => phase'[j] = phase[j]
  BY DEF LaneInv, Phases
<1>3. IsFiniteSet(InLane) /\ Cardinality(InLane) \in Nat  BY LanesFinite DEF LaneInv
<1>4. Cardinality(InLane') <= MaxParallel
  <2>1. CASE p = "running" /\ Parallel(i)
    <3>1. InLane' \subseteq InLane \cup {i}  BY <1>1, <1>2 DEF InLane
    <3>2. /\ IsFiniteSet(InLane \cup {i})
          /\ Cardinality(InLane \cup {i}) \in Nat
          /\ Cardinality(InLane \cup {i}) <= Cardinality(InLane) + 1
      <4>1. /\ IsFiniteSet(InLane \cup {i})
            /\ Cardinality(InLane \cup {i}) =
                  IF i \in InLane THEN Cardinality(InLane) ELSE Cardinality(InLane) + 1
        BY <1>3, FS_AddElement
      <4> HIDE DEF InLane
      <4> QED  BY <1>3, <4>1
    <3>3. Cardinality(InLane') <= Cardinality(InLane \cup {i}) /\ Cardinality(InLane') \in Nat
      BY <3>1, <3>2, FS_Subset, FS_CardinalityType
    <3> QED  BY <2>1, <3>2, <3>3, <1>3, LimitsAssumption
  <2>2. CASE ~(p = "running" /\ Parallel(i))
    <3>1. InLane' \subseteq InLane  BY <2>2, <1>1, <1>2 DEF InLane
    <3>2. Cardinality(InLane') <= Cardinality(InLane) /\ Cardinality(InLane') \in Nat
      BY <3>1, <1>3, FS_Subset, FS_CardinalityType
    <3> QED  BY <1>3, <3>2, LimitsAssumption DEF LaneInv
  <2> QED  BY <2>1, <2>2
<1>5. SequentialCalls'
  <2> SUFFICES ASSUME NEW k \in Each, ~Parallel(k), phase'[k] # "waiting",
                      NEW j \in 1 .. k - 1, ~Parallel(j)
               PROVE  phase'[j] = "ended"
    BY <1>1 DEF SequentialCalls, Parallel
  <2>1. j \in Each /\ k \in Int /\ j \in Int /\ i \in Int  BY CallsDomain DEF LaneInv
  <2>2. CASE k = i
    <3>1. CASE phase[i] = "waiting"
      BY <2>1, <2>2, <3>1, <1>2 DEF HasLane
    <3>2. CASE phase[i] # "waiting"
      BY <2>1, <2>2, <3>2, <1>2 DEF LaneInv, SequentialCalls
    <3> QED  BY <3>1, <3>2
  <2>3. CASE k # i
    \* Call i was over before k began: it is not i that moves.
    <3>1. phase[j] = "ended"  BY <2>1, <2>3, <1>2 DEF LaneInv, SequentialCalls
    <3> QED  BY <2>1, <3>1, <1>2
  <2> QED  BY <2>2, <2>3
<1> QED  BY <1>1, <1>2, <1>4, <1>5 DEF LaneInv

\* A step that neither moves a call nor leaves another place for the wave.
LEMMA LaneFrame ==
  ASSUME LaneInv, calls' \in Seq(Tools),
         pc' # "running" \/ (pc = "running" /\ UNCHANGED <<calls, phase>>)
  PROVE  LaneInv'
  BY DEF LaneInv, Each, InLane, SequentialCalls, Parallel

LEMMA LaneNext == ASSUME LaneInv, [Next]_vars PROVE LaneInv'
<1> USE DEF request, wave, guard, write, log
<1>0. calls \in Seq(Tools) /\ <<>> \in Seq(Tools)  BY EmptySeq DEF LaneInv
<1>1. CASE StartTools
  <2>1. UNCHANGED calls /\ Each' = Each /\ phase' \in [Each -> Phases]
        /\ \A i \in Each : phase'[i] = "waiting"
    BY <1>1 DEF StartTools, Each, Phases
  <2>2. InLane' = {}  BY <2>1 DEF InLane
  <2>3. Cardinality(InLane') <= MaxParallel  BY <2>2, FS_EmptySet, LimitsAssumption
  <2>4. SequentialCalls'  BY <2>1 DEF SequentialCalls
  <2> QED  BY <1>0, <2>1, <2>3, <2>4 DEF LaneInv
<1>2. ASSUME NEW i \in Each, SkipCall(i) PROVE LaneInv'
  <2>1. /\ pc = "running" /\ UNCHANGED calls /\ phase[i] = "waiting" /\ HasLane(i)
        /\ phase' = [phase EXCEPT ![i] = "ended"]
    BY <1>2 DEF SkipCall, EndCall
  <2> QED  BY <2>1, LaneOfOne
<1>3. ASSUME NEW i \in Each, RunCall(i) PROVE LaneInv'
  <2>1. /\ pc = "running" /\ UNCHANGED calls /\ phase[i] = "waiting" /\ HasLane(i)
        /\ ctx = "live" /\ phase' = [phase EXCEPT ![i] = "running"]
    BY <1>3 DEF RunCall
  <2>2. Parallel(i) => Cardinality(InLane) < MaxParallel  BY <2>1 DEF HasLane, InLane
  <2> QED  BY <2>1, <2>2, LaneOfOne
<1>4. ASSUME NEW i \in Each, ReturnCall(i) PROVE LaneInv'
  <2>1. /\ pc = "running" /\ UNCHANGED calls /\ phase[i] = "running"
        /\ phase' = [phase EXCEPT ![i] = "ended"]
    BY <1>4 DEF ReturnCall, EndCall
  <2> QED  BY <2>1, LaneOfOne
<1>5. ASSUME NEW t \in Tools, ReceiveCall(t) PROVE LaneInv'
  <2>1. calls' \in Seq(Tools) /\ pc' = "receive"  BY <1>5, <1>0, AppendProperties DEF ReceiveCall
  <2> QED  BY <2>1, LaneFrame
<1>6. CASE Crash \/ Complete \/ NoWorkspace \/ OpenStream \/ AfterTools
  <2>1. pc' # "running" /\ calls' = <<>>
    BY <1>6 DEF Crash, Complete, NoWorkspace, OpenStream, AfterTools, Forget, CompleteAfterError,
                CompleteTurn, NextStep
  <2> QED  BY <1>0, <2>1, LaneFrame
<1>7. CASE Submit \/ Refuse \/ RecordUser \/ Prepare \/ Recover \/ ReceiveText
           \/ StreamStopped \/ StreamFails
           \/ \E r \in {"tool_calls", "stop", "length", "none"} : StreamEnds(r)
  <2>1. pc' # "running" /\ UNCHANGED calls
    BY <1>7 DEF Submit, Refuse, RecordUser, Prepare, Recover, ReceiveText, StreamStopped,
                StreamFails, StreamEnds, CompleteAfterError, CompleteTurn
  <2> QED  BY <1>0, <2>1, LaneFrame
<1>8. CASE DraftAssistant \/ WriteAssistant \/ StopHook \/ WaveEnds \/ DraftResult
           \/ WriteResult
  <2>1. pc' # "running" /\ UNCHANGED calls
    BY <1>8 DEF DraftAssistant, WriteAssistant, StopHook, WaveEnds, DraftResult, WriteResult,
                NextStep, CompleteTurn
  <2> QED  BY <1>0, <2>1, LaneFrame
<1>9. CASE \/ \E r \in StopReasons : Cancel(r)
           \/ \E i \in Each : CancelTool(i)
           \/ UNCHANGED vars
  <2>1. UNCHANGED <<pc, calls, phase>>  BY <1>9 DEF Cancel, CancelTool, vars
  <2> QED  BY <1>0, <2>1, LaneFrame
<1> QED
  BY <1>1, <1>2, <1>3, <1>4, <1>5, <1>6, <1>7, <1>8, <1>9 DEF Next, Step

(***************************************************************************)
(* Sequential calls run one at a time, in the order of the response, and   *)
(* the parallel lane keeps its bound, for any tools and any width of the   *)
(* lane (tool_execution.go).                                               *)
(***************************************************************************)
THEOREM Lanes == Spec => []LanesRespected
<1>1. LaneInv => LanesRespected  BY DEF LaneInv, LanesRespected, InLane, SequentialCalls
<1> QED  BY LaneInit, LaneNext, <1>1, PTL DEF Spec

-----------------------------------------------------------------------------
(***************************************************************************)
(* How often a turn completes.                                             *)
(***************************************************************************)

\* Only the turn under way, and the turns to come, have no turn_complete yet.
OnceInv ==
    /\ pc \in Places /\ turns \in 0 .. MaxTurns /\ verdict \in Verdicts
    /\ completions \in [1 .. MaxTurns -> Seq(Verdicts)]
    /\ pc # "idle" => turns > 0
    /\ \A t \in 1 .. MaxTurns :
           t > turns \/ (t = turns /\ pc # "idle") => completions[t] = <<>>
    /\ started \subseteq 1 .. turns
    /\ pc = "admit" => turns \notin started
    /\ \A t \in started \ crashed :
           t # turns \/ pc = "idle" => Len(completions[t]) = 1

LEMMA OnceInit == Init => OnceInv
<1> SUFFICES ASSUME Init PROVE OnceInv  OBVIOUS
<1>1. <<>> \in Seq(Verdicts)  BY EmptySeq
<1> QED  BY <1>1, LimitsAssumption DEF Init, OnceInv, Places, Verdicts

\* A step within the turn: the turn goes on, its events stay.
LEMMA OnceFrame ==
  ASSUME OnceInv, pc # "idle", pc' \in Places \ {"idle", "admit"}, verdict' \in Verdicts,
         UNCHANGED <<turns, completions, crashed>>,
         started' \in {started, started \cup {turns}}
  PROVE  OnceInv'
  BY DEF OnceInv

\* The turn returns without an event: it had not started, or a crash ended it.
LEMMA OnceLost ==
  ASSUME OnceInv, pc' = "idle", verdict' \in Verdicts, UNCHANGED <<turns, completions, started>>,
         crashed' \in {crashed, crashed \cup {turns}},
         turns \notin started \/ turns \in crashed'
  PROVE  OnceInv'
  BY DEF OnceInv, Places

LEMMA OnceNext == ASSUME OnceInv, [Next]_vars PROVE OnceInv'
<1> USE DEF request, wave, guard, write, log
<1>0. {"none", "completed", "failed", "cancelled"} \subseteq Verdicts /\ verdict \in Verdicts
  BY DEF OnceInv, Verdicts
<1>1. CASE Submit
  <2>1. /\ pc = "idle" /\ turns < MaxTurns /\ turns' = turns + 1 /\ pc' = "admit"
        /\ UNCHANGED <<verdict, completions, started, crashed>>
    BY <1>1 DEF Submit
  <2> QED  BY <2>1, LimitsAssumption DEF OnceInv, Places
<1>2. CASE Complete
  <2>1. /\ pc = "completing" /\ pc' = "idle" /\ verdict' = "none"
        /\ completions' = [completions EXCEPT ![turns] = Append(@, verdict)]
        /\ UNCHANGED <<turns, started, crashed>>
    BY <1>2 DEF Complete, Forget
  <2>2. turns \in 1 .. MaxTurns /\ completions[turns] = <<>>
    BY <2>1, LimitsAssumption DEF OnceInv
  <2>3. /\ completions'[turns] = Append(<<>>, verdict)
        /\ \A t \in 1 .. MaxTurns : t # turns => completions'[t] = completions[t]
        /\ DOMAIN completions' = 1 .. MaxTurns
    BY <2>1, <2>2 DEF OnceInv
  <2>4. Append(<<>>, verdict) \in Seq(Verdicts) /\ Len(Append(<<>>, verdict)) = 1
    BY <1>0, EmptySeq, AppendProperties
  <2>5. completions' \in [1 .. MaxTurns -> Seq(Verdicts)]
    BY <2>1, <2>3, <2>4 DEF OnceInv
  <2>6. \A t \in started \ crashed : Len(completions'[t]) = 1
    BY <2>1, <2>3, <2>4, LimitsAssumption DEF OnceInv
  <2>7. \A t \in 1 .. MaxTurns : t > turns => completions'[t] = <<>>
    BY <2>3, LimitsAssumption DEF OnceInv
  <2> QED  BY <2>1, <2>2, <2>5, <2>6, <2>7, <1>0 DEF OnceInv, Places
<1>3. CASE NoWorkspace
  <2>1. pc = "admit" /\ pc' = "idle" /\ verdict' = "none"
        /\ UNCHANGED <<turns, completions, started, crashed>>
    BY <1>3 DEF NoWorkspace, Forget
  <2> QED  BY <2>1, <1>0, OnceLost DEF OnceInv
<1>4. CASE Crash
  <2>1. pc' = "idle" /\ verdict' = "none" /\ crashed' = crashed \cup {turns}
        /\ UNCHANGED <<turns, completions, started>>
    BY <1>4 DEF Crash, Forget
  <2> QED  BY <2>1, <1>0, OnceLost
<1>5. CASE RecordUser
  <2>1. /\ pc = "admit" /\ pc' = "prepare" /\ started' = started \cup {turns}
        /\ UNCHANGED <<turns, verdict, completions, crashed>>
    BY <1>5 DEF RecordUser
  <2> QED  BY <2>1, <1>0, OnceFrame DEF Places
<1>6. CASE Refuse \/ Prepare \/ OpenStream \/ Recover \/ ReceiveText
           \/ (\E t \in Tools : ReceiveCall(t)) \/ StreamStopped \/ StreamFails
           \/ \E r \in {"tool_calls", "stop", "length", "none"} : StreamEnds(r)
  <2>1. /\ pc # "idle" /\ pc' \in Places \ {"idle", "admit"}
        /\ verdict' \in {verdict, "none", "completed", "failed", "cancelled"}
        /\ UNCHANGED <<turns, completions, started, crashed>>
    BY <1>6 DEF Refuse, Prepare, OpenStream, Recover, ReceiveText, ReceiveCall, StreamStopped,
                StreamFails, StreamEnds, CompleteAfterError, CompleteTurn, Places
  <2> QED  BY <2>1, <1>0, OnceFrame
<1>7. CASE DraftAssistant \/ WriteAssistant \/ StopHook \/ WaveEnds \/ DraftResult
           \/ WriteResult \/ AfterTools
  <2>1. /\ pc # "idle" /\ pc' \in Places \ {"idle", "admit"}
        /\ verdict' \in {verdict, "none", "completed", "failed", "cancelled"}
        /\ UNCHANGED <<turns, completions, started, crashed>>
    BY <1>7 DEF DraftAssistant, WriteAssistant, StopHook, WaveEnds, DraftResult, WriteResult,
                AfterTools, NextStep, CompleteTurn, FromContext, Places
  <2> QED  BY <2>1, <1>0, OnceFrame
<1>8. CASE StartTools \/ \E i \in Each : SkipCall(i) \/ RunCall(i) \/ ReturnCall(i)
  <2>1. /\ pc # "idle" /\ pc' \in Places \ {"idle", "admit"}
        /\ UNCHANGED <<verdict, turns, completions, started, crashed>>
    BY <1>8 DEF StartTools, SkipCall, RunCall, ReturnCall, Places
  <2> QED  BY <2>1, <1>0, OnceFrame
<1>9. CASE \/ \E r \in StopReasons : Cancel(r)
           \/ \E i \in Each : CancelTool(i)
           \/ UNCHANGED vars
  <2>1. UNCHANGED <<pc, verdict, turns, completions, started, crashed>>
    BY <1>9 DEF Cancel, CancelTool, vars
  <2> QED  BY <2>1 DEF OnceInv
<1> QED
  BY <1>1, <1>2, <1>3, <1>4, <1>5, <1>6, <1>7, <1>8, <1>9 DEF Next, Step

(***************************************************************************)
(* A turn that has started writes exactly one turn_complete, whichever way *)
(* it ends, unless a crash ends it: for any number of turns and crashes    *)
(* (turn.go, runTurn).                                                     *)
(***************************************************************************)
THEOREM CompletesOnce == Spec => []TurnCompletesOnce
<1>1. OnceInv => TurnCompletesOnce
  <2> SUFFICES ASSUME OnceInv, NEW t \in started \ crashed
               PROVE  Len(completions[t]) = IF t = turns /\ pc # "idle" THEN 0 ELSE 1
    BY DEF TurnCompletesOnce
  <2>1. CASE t = turns /\ pc # "idle"
    <3>1. t \in 1 .. MaxTurns  BY LimitsAssumption DEF OnceInv
    <3>2. completions[t] = <<>>  BY <2>1, <3>1 DEF OnceInv
    <3> QED  BY <2>1, <3>2, EmptySeq
  <2>2. CASE ~(t = turns /\ pc # "idle")  BY <2>2 DEF OnceInv
  <2> QED  BY <2>1, <2>2
<1> QED  BY OnceInit, OnceNext, <1>1, PTL DEF Spec

-----------------------------------------------------------------------------
(***************************************************************************)
(* The messages of the log.  The operators take the log as a parameter, so *)
(* that the lemmas hold before and after a step.                           *)
(***************************************************************************)

Roles == {"user", "system", "assistant", "tool"}
Finishes == {"none", "tool_calls", "stop", "length"}
Messages ==
    {m \in [turn : Nat, role : Roles, calls : Nat, call : Nat, status : Verdicts,
            finish : Finishes] : m.finish = "tool_calls" => m.role # "tool"}

\* Message b of log h is the last one before k that is no result.
Opens(h, b, k) ==
    /\ b \in 1 .. k - 1 /\ h[b].role # "tool"
    /\ \A j \in b + 1 .. k - 1 : h[j].role = "tool"

\* AskedAt, ResultsOf and Answered of TurnLoop.
Asked(h, k) == LET before == {j \in 1 .. k - 1 : h[j].role # "tool"}
               IN CHOOSE j \in before : \A l \in before : l <= j

Results(h, k) == {j \in k + 1 .. Len(h) : h[j].role = "tool" /\ Asked(h, j) = k}

AllAnswered(h, k) == Cardinality(Results(h, k)) = h[k].calls

\* The result at k belongs to the calls before it and follows the results before it.
OrderedAt(h, k) ==
    \E b \in 1 .. k - 1 :
        /\ Opens(h, b, k)
        /\ h[k].call <= h[b].calls
        /\ h[k - 1].role = "tool" => h[k - 1].call < h[k].call

Ordered(h) == \A k \in DOMAIN h : h[k].role = "tool" => OrderedAt(h, k)

LogInv ==
    /\ pc \in Places /\ turns \in Nat /\ calls \in Seq(Tools) /\ finish \in Finishes
    /\ verdict \in Verdicts
    /\ history \in Seq(Messages)
    /\ \A k \in DOMAIN history :
           /\ history[k].turn <= turns
           /\ pc = "admit" => history[k].turn < turns
    /\ Ordered(history)

\* The calls of the response are in the log as message b, and only their results follow;
\* while no stop has come, all the results that were collected.
OpenAt(b) ==
    /\ b \in DOMAIN history
    /\ history[b].role = "assistant" /\ history[b].calls = Len(calls)
    /\ \A j \in b + 1 .. Len(history) :
           history[j].role = "tool" /\ history[j].call <= collected
    /\ ctx = "live" => Len(history) = b + collected

\* What the message about to be written is.
WaveInv ==
    /\ collected \in 0 .. Len(calls)
    /\ pc \notin {"collect", "collect_write"} => collected = 0
    /\ pc = "record_write" =>
           /\ draft \in Messages
           /\ draft.role = "assistant" /\ draft.turn = turns
           /\ IF finish = "tool_calls" /\ calls # <<>> THEN draft = Asking
              ELSE draft.finish # "tool_calls"
    /\ pc = "collect_write" =>
           /\ collected < Len(calls)
           /\ draft = Message("tool", 0, collected + 1, "none", "none")
    /\ pc \in InWave => \E b \in DOMAIN history : OpenAt(b)

\* While no stop has come, every earlier request for calls of this turn is answered: only
\* the results of the wave under way are missing.
AnswersInv ==
    pc \notin {"idle", "completing"} /\ ctx = "live" =>
        \A k \in DOMAIN history :
            history[k].turn = turns /\ history[k].finish = "tool_calls" =>
                \/ AllAnswered(history, k)
                \/ pc \in InWave /\ \A j \in k + 1 .. Len(history) : history[j].role = "tool"

-----------------------------------------------------------------------------
(***************************************************************************)
(* Lemmas about any log, and about a message that is added to it.          *)
(***************************************************************************)

\* The last message before k that is no result is the one that asked.
LEMMA OpensIsAsked ==
  ASSUME NEW h, NEW k \in Nat, NEW b, Opens(h, b, k)
  PROVE  Asked(h, k) = b
<1> DEFINE before == {j \in 1 .. k - 1 : h[j].role # "tool"}
           last(x) == x \in before /\ \A l \in before : l <= x
<1>1. last(b)  BY DEF Opens
<1>2. \A x : last(x) => x = b
  <2> SUFFICES ASSUME NEW x, last(x) PROVE x = b  OBVIOUS
  <2>1. x \in 1 .. k - 1 /\ b \in 1 .. k - 1 /\ b <= x /\ x <= b  BY <1>1
  <2> QED  BY <2>1
<1>3. Asked(h, k) = CHOOSE j \in before : \A l \in before : l <= j  BY DEF Asked
<1>4. last(CHOOSE j \in before : \A l \in before : l <= j)  BY <1>1
<1> QED  BY <1>2, <1>3, <1>4

LEMMA AppendKeeps ==
  ASSUME NEW h \in Seq(Messages), NEW m \in Messages, NEW g, g = Append(h, m)
  PROVE  /\ g \in Seq(Messages) /\ Len(g) = Len(h) + 1 /\ Len(h) \in Nat
         /\ DOMAIN h = 1 .. Len(h) /\ DOMAIN g = 1 .. Len(h) + 1
         /\ g[Len(h) + 1] = m
         /\ \A j \in 1 .. Len(h) : g[j] = h[j]
  BY AppendProperties

\* What asked for an earlier message does not change.
LEMMA AskedKept ==
  ASSUME NEW h \in Seq(Messages), NEW m \in Messages, NEW g, g = Append(h, m),
         NEW k \in 1 .. Len(h) + 1
  PROVE  /\ Asked(g, k) = Asked(h, k)
         /\ \A b : Opens(g, b, k) <=> Opens(h, b, k)
         /\ k \in DOMAIN h => (OrderedAt(g, k) <=> OrderedAt(h, k))
<1>1. /\ DOMAIN h = 1 .. Len(h) /\ Len(h) \in Nat
      /\ \A j \in 1 .. Len(h) : g[j] = h[j]
  BY AppendKeeps
<1>2. {j \in 1 .. k - 1 : g[j].role # "tool"} = {j \in 1 .. k - 1 : h[j].role # "tool"}
  BY <1>1
<1>3. Asked(g, k) = Asked(h, k)  BY <1>2 DEF Asked
<1>4. \A b : Opens(g, b, k) <=> Opens(h, b, k)  BY <1>1 DEF Opens
<1>5. ASSUME k \in DOMAIN h, NEW b \in 1 .. k - 1
      PROVE  g[b] = h[b] /\ g[k] = h[k] /\ g[k - 1] = h[k - 1]
  BY <1>1, <1>5
<1>6. k \in DOMAIN h => (OrderedAt(g, k) <=> OrderedAt(h, k))
  BY <1>4, <1>5 DEF OrderedAt
<1> QED  BY <1>3, <1>4, <1>6

\* A message that is no result leaves the order and the results of all others.
LEMMA AppendOther ==
  ASSUME NEW h \in Seq(Messages), NEW m \in Messages, m.role # "tool", Ordered(h),
         NEW g, g = Append(h, m)
  PROVE  /\ Ordered(g)
         /\ \A k \in DOMAIN h : AllAnswered(h, k) => AllAnswered(g, k)
<1>1. /\ g \in Seq(Messages) /\ Len(g) = Len(h) + 1 /\ Len(h) \in Nat
      /\ DOMAIN h = 1 .. Len(h) /\ DOMAIN g = 1 .. Len(h) + 1
      /\ g[Len(h) + 1] = m
      /\ \A j \in 1 .. Len(h) : g[j] = h[j]
  BY AppendKeeps
<1>2. ASSUME NEW k \in DOMAIN g, g[k].role = "tool" PROVE OrderedAt(g, k)
  <2>1. k \in DOMAIN h /\ h[k].role = "tool" /\ k \in 1 .. Len(h) + 1  BY <1>1, <1>2
  <2> QED  BY <2>1, AskedKept DEF Ordered
<1>3. ASSUME NEW k \in DOMAIN h PROVE Results(g, k) = Results(h, k)
  <2>1. ASSUME NEW j \in 1 .. Len(h) PROVE Asked(g, j) = Asked(h, j)
    <3>1. j \in 1 .. Len(h) + 1  BY <1>1
    <3> QED  BY <3>1, AskedKept
  <2> QED  BY <1>1, <2>1 DEF Results
<1> QED  BY <1>1, <1>2, <1>3 DEF Ordered, AllAnswered

\* A result that follows the results before it keeps the order, and the results of all
\* messages but the one that asked for it.
LEMMA AppendResult ==
  ASSUME NEW h \in Seq(Messages), NEW m \in Messages, Ordered(h),
         NEW b \in DOMAIN h, Opens(h, b, Len(h) + 1), m.call <= h[b].calls,
         \A j \in b + 1 .. Len(h) : h[j].call < m.call,
         NEW g, g = Append(h, m)
  PROVE  /\ Ordered(g)
         /\ \A k \in DOMAIN h : k # b /\ AllAnswered(h, k) => AllAnswered(g, k)
<1>1. /\ g \in Seq(Messages) /\ Len(g) = Len(h) + 1 /\ Len(h) \in Nat
      /\ DOMAIN h = 1 .. Len(h) /\ DOMAIN g = 1 .. Len(h) + 1
      /\ g[Len(h) + 1] = m
      /\ \A j \in 1 .. Len(h) : g[j] = h[j]
  BY AppendKeeps
<1>2. Opens(g, b, Len(h) + 1)
  <2>1. Len(h) + 1 \in 1 .. Len(h) + 1  BY <1>1
  <2> QED  BY <2>1, AskedKept
<1>3. Asked(g, Len(h) + 1) = b  BY <1>1, <1>2, OpensIsAsked
<1>4. OrderedAt(g, Len(h) + 1)
  <2>0. Len(h) \in 1 .. Len(h) /\ Len(h) = (Len(h) + 1) - 1
        /\ b \in 1 .. (Len(h) + 1) - 1 /\ g[Len(h)] = h[Len(h)] /\ g[b] = h[b]
    <3>1. b \in 1 .. Len(h) /\ Len(h) \in Nat  BY <1>1
    <3>2. Len(h) \in 1 .. Len(h) /\ Len(h) = (Len(h) + 1) - 1  BY <3>1
    <3> QED  BY <1>1, <3>1, <3>2
  <2>1. g[Len(h)].role = "tool" => g[Len(h)].call < g[Len(h) + 1].call
    <3> SUFFICES ASSUME h[Len(h)].role = "tool" PROVE h[Len(h)].call < m.call
      BY <1>1, <2>0
    <3>1. Len(h) \in b + 1 .. Len(h)  BY <1>1 DEF Opens
    <3> QED  BY <3>1
  <2> QED  BY <1>1, <1>2, <2>0, <2>1 DEF OrderedAt
<1>5. ASSUME NEW k \in DOMAIN g, g[k].role = "tool" PROVE OrderedAt(g, k)
  <2>1. CASE k = Len(h) + 1  BY <2>1, <1>4
  <2>2. CASE k # Len(h) + 1
    <3>1. k \in DOMAIN h /\ h[k].role = "tool" /\ k \in 1 .. Len(h) + 1  BY <2>2, <1>1, <1>5
    <3> QED  BY <3>1, AskedKept DEF Ordered
  <2> QED  BY <2>1, <2>2
<1>6. ASSUME NEW k \in DOMAIN h, k # b PROVE Results(g, k) = Results(h, k)
  <2>1. ASSUME NEW j \in 1 .. Len(h) PROVE Asked(g, j) = Asked(h, j)
    <3>1. j \in 1 .. Len(h) + 1  BY <1>1
    <3> QED  BY <3>1, AskedKept
  <2> QED  BY <1>1, <1>3, <1>6, <2>1 DEF Results
<1> QED  BY <1>1, <1>5, <1>6 DEF Ordered, AllAnswered

\* The results that end the log are the results of the message before them.
LEMMA LastResults ==
  ASSUME NEW h \in Seq(Messages), NEW b \in DOMAIN h, h[b].role # "tool",
         \A j \in b + 1 .. Len(h) : h[j].role = "tool"
  PROVE  Cardinality(Results(h, b)) = Len(h) - b
<1>1. DOMAIN h = 1 .. Len(h) /\ Len(h) \in Nat /\ b \in Nat  OBVIOUS
<1>2. ASSUME NEW j \in b + 1 .. Len(h) PROVE Asked(h, j) = b
  <2>1. Opens(h, b, j) /\ j \in Nat  BY <1>1, <1>2 DEF Opens
  <2> QED  BY <2>1, OpensIsAsked
<1>3. Results(h, b) = b + 1 .. Len(h)  BY <1>2 DEF Results
<1>4. Cardinality(b + 1 .. Len(h)) = Len(h) - b
  <2>1. CASE b + 1 > Len(h)
    <3>1. b + 1 .. Len(h) = {} /\ Len(h) = b  BY <2>1, <1>1
    <3> QED  BY <3>1, <1>1, FS_EmptySet
  <2>2. CASE b + 1 <= Len(h)
    <3>1. Cardinality(b + 1 .. Len(h)) = Len(h) - (b + 1) + 1  BY <2>2, <1>1, FS_Interval
    <3> QED  BY <3>1, <1>1
  <2> QED  BY <2>1, <2>2, <1>1
<1> QED  BY <1>3, <1>4

-----------------------------------------------------------------------------
(***************************************************************************)
(* The log of the session at every step.                                   *)
(***************************************************************************)

LEMMA MessageTypes ==
  ASSUME turns \in Nat, calls \in Seq(Tools), finish \in Finishes
  PROVE  /\ \A status \in Verdicts : /\ Final(status) \in Messages
                                     /\ Final(status).role = "assistant"
                                     /\ Final(status).turn = turns
                                     /\ Final(status).finish = "none"
         /\ Asking \in Messages /\ Asking.role = "assistant" /\ Asking.turn = turns
         /\ Asking.calls = Len(calls) /\ Asking.finish = finish
         /\ \A role \in {"user", "system"} :
               LET m == Message(role, 0, 0, "none", "none")
               IN m \in Messages /\ m.role = role /\ m.turn = turns /\ m.finish = "none"
         /\ \A n \in Nat :
               LET m == Message("tool", 0, n, "none", "none")
               IN m \in Messages /\ m.role = "tool" /\ m.turn = turns /\ m.call = n
                  /\ m.finish = "none"
<1>1. Len(calls) \in Nat  OBVIOUS
<1> QED  BY <1>1 DEF Final, Asking, Message, Messages, Roles, Verdicts, Finishes

LEMMA LogInit == Init => LogInv /\ WaveInv /\ AnswersInv
<1> SUFFICES ASSUME Init PROVE LogInv /\ WaveInv /\ AnswersInv  OBVIOUS
<1>1. history = <<>> /\ calls = <<>> /\ pc = "idle"  BY DEF Init
<1>2. DOMAIN history = {} /\ Len(calls) = 0  BY <1>1
<1>3. history \in Seq(Messages) /\ calls \in Seq(Tools)  BY <1>1, EmptySeq
<1>4. LogInv  BY <1>2, <1>3 DEF Init, LogInv, Places, Finishes, Verdicts, Ordered
<1>5. WaveInv  BY <1>2 DEF Init, WaveInv, InWave
<1> QED  BY <1>1, <1>4, <1>5 DEF AnswersInv

\* What a step may do to the response and the verdict.
Typed(c, f, v) == c \in Seq(Tools) /\ f \in Finishes /\ v \in Verdicts

\* A step that writes nothing, or a message that is no result.
LEMMA LogFrame ==
  ASSUME LogInv, UNCHANGED turns, pc' \in Places \ {"admit"}, Typed(calls', finish', verdict'),
         \/ UNCHANGED history
         \/ \E m \in Messages : /\ m.role # "tool" /\ m.turn = turns
                                /\ history' = Append(history, m)
  PROVE  LogInv'
<1>1. CASE UNCHANGED history  BY <1>1 DEF LogInv, Typed, Ordered
<1>2. ASSUME NEW m \in Messages, m.role # "tool", m.turn = turns,
             history' = Append(history, m)
      PROVE  LogInv'
  <2>1. history \in Seq(Messages) /\ Ordered(history) /\ turns \in Nat  BY DEF LogInv
  <2>2. Ordered(history')  BY <1>2, <2>1, AppendOther
  <2>3. /\ history' \in Seq(Messages) /\ Len(history) \in Nat
        /\ DOMAIN history = 1 .. Len(history) /\ DOMAIN history' = 1 .. Len(history) + 1
        /\ history'[Len(history) + 1] = m
        /\ \A j \in 1 .. Len(history) : history'[j] = history[j]
    BY <1>2, <2>1, AppendKeeps
  <2>4. ASSUME NEW k \in DOMAIN history' PROVE history'[k].turn <= turns
    <3>1. CASE k = Len(history) + 1
      <4>1. history'[k].turn = turns  BY <1>2, <2>3, <3>1
      <4> QED  BY <2>1, <4>1
    <3>2. CASE k # Len(history) + 1
      <4>1. k \in DOMAIN history /\ history'[k] = history[k]  BY <2>3, <3>2
      <4> QED  BY <4>1 DEF LogInv
    <3> QED  BY <3>1, <3>2
  <2> QED  BY <2>2, <2>3, <2>4 DEF LogInv, Typed
<1> QED  BY <1>1, <1>2

\* Outside of a wave there is nothing to say.
LEMMA WaveOut ==
  ASSUME calls' \in Seq(Tools), collected' = 0, pc' \notin InWave \cup {"record_write"}
  PROVE  WaveInv'
<1>1. Len(calls') \in Nat  OBVIOUS
<1> QED  BY <1>1 DEF WaveInv, InWave

\* A step of a wave that writes nothing.
LEMMA WaveFrame ==
  ASSUME WaveInv, UNCHANGED <<turns, calls, finish, collected, history>>, ctx' = "live" => ctx = "live",
         pc \in InWave, pc' \in InWave \ {"collect_write"},
         pc' # "collect" => collected = 0
  PROVE  WaveInv'
<1>1. PICK b \in DOMAIN history : OpenAt(b)  BY DEF WaveInv
<1>2. OpenAt(b)'  BY <1>1 DEF OpenAt
<1> QED  BY <1>1, <1>2 DEF WaveInv, InWave

\* No request for calls is added, and no wave is left with results missing.
LEMMA AnswersFrame ==
  ASSUME LogInv, AnswersInv, UNCHANGED turns,
         \/ pc' \in {"idle", "completing"}
         \/ /\ pc \notin {"idle", "completing"}
            /\ ctx' = "live" => ctx = "live"
            /\ \/ UNCHANGED history /\ (pc \in InWave => pc' \in InWave)
               \/ /\ pc \notin InWave
                  /\ \E m \in Messages : /\ m.role # "tool" /\ m.finish # "tool_calls"
                                         /\ history' = Append(history, m)
  PROVE  AnswersInv'
<1> SUFFICES ASSUME pc' \notin {"idle", "completing"}, ctx' = "live"
             PROVE  \A k \in DOMAIN history' :
                      history'[k].turn = turns /\ history'[k].finish = "tool_calls" =>
                        \/ AllAnswered(history', k)
                        \/ /\ pc' \in InWave
                           /\ \A j \in k + 1 .. Len(history') : history'[j].role = "tool"
  BY DEF AnswersInv
<1>0. pc \notin {"idle", "completing"} /\ ctx = "live"  OBVIOUS
<1>3. \A k \in DOMAIN history :
        history[k].turn = turns /\ history[k].finish = "tool_calls" =>
          \/ AllAnswered(history, k)
          \/ pc \in InWave /\ \A j \in k + 1 .. Len(history) : history[j].role = "tool"
  BY <1>0 DEF AnswersInv
<1>1. CASE UNCHANGED history /\ (pc \in InWave => pc' \in InWave)
  BY <1>1, <1>3
<1>2. ASSUME NEW m \in Messages, m.role # "tool", m.finish # "tool_calls", pc \notin InWave,
             history' = Append(history, m),
             NEW k \in DOMAIN history', history'[k].turn = turns,
             history'[k].finish = "tool_calls"
      PROVE  AllAnswered(history', k)
  <2>1. history \in Seq(Messages) /\ Ordered(history)  BY DEF LogInv
  <2>2. /\ DOMAIN history = 1 .. Len(history) /\ DOMAIN history' = 1 .. Len(history) + 1
        /\ history'[Len(history) + 1] = m /\ Len(history) \in Nat
        /\ \A j \in 1 .. Len(history) : history'[j] = history[j]
    BY <1>2, <2>1, AppendKeeps
  <2>3. k # Len(history) + 1  BY <1>2, <2>2
  <2>4. k \in DOMAIN history /\ history'[k] = history[k]  BY <2>2, <2>3
  <2>5. AllAnswered(history, k)  BY <1>2, <1>3, <2>4
  <2> QED  BY <1>2, <2>1, <2>4, <2>5, AppendOther
<1> QED  BY <1>0, <1>1, <1>2

AllInv == LogInv /\ WaveInv /\ AnswersInv

\* A step that is not in a wave and leads to none.
LEMMA Outside ==
  ASSUME LogInv, AnswersInv, UNCHANGED turns, Typed(calls', finish', verdict'), collected' = 0,
         pc' \in Places \ ({"admit", "record_write"} \cup InWave),
         \/ pc' \in {"idle", "completing"}
         \/ pc \notin {"idle", "completing"} \cup InWave /\ UNCHANGED ctx,
         \/ UNCHANGED history
         \/ \E m \in Messages : /\ m.role # "tool" /\ m.finish # "tool_calls" /\ m.turn = turns
                                /\ history' = Append(history, m)
  PROVE  AllInv'
<1>1. LogInv'  BY LogFrame
<1>2. WaveInv'  BY WaveOut DEF Typed
<1>3. AnswersInv'  BY AnswersFrame
<1> QED  BY <1>1, <1>2, <1>3 DEF AllInv

\* DraftAssistant: the message keeps its calls if they are going to be executed.
LEMMA DraftStep == ASSUME AllInv, DraftAssistant PROVE AllInv'
<1> USE DEF AllInv, request, wave, guard, write, log
<1>1. /\ pc = "record" /\ pc' = "record_write"
      /\ UNCHANGED <<turns, ctx, calls, finish, verdict, collected, history>>
  BY DEF DraftAssistant
<1>2. turns \in Nat /\ calls \in Seq(Tools) /\ finish \in Finishes /\ verdict \in Verdicts
  BY DEF LogInv
<1>3. LogInv'  BY <1>1, <1>2, LogFrame DEF Places, Typed
<1>4. AnswersInv'  BY <1>1, AnswersFrame DEF InWave
<1>5. /\ draft' \in Messages /\ draft'.role = "assistant" /\ draft'.turn = turns
      /\ IF finish = "tool_calls" /\ calls # <<>> THEN draft' = Asking
         ELSE draft'.finish # "tool_calls"
  <2>1. CASE calls # <<>> /\ (ctx = "live" \/ finish = "tool_calls")
    <3>1. draft' = Asking  BY <2>1 DEF DraftAssistant
    <3> QED  BY <1>2, <2>1, <3>1, MessageTypes
  <2>2. CASE ~(calls # <<>> /\ (ctx = "live" \/ finish = "tool_calls"))
    <3>1. draft' = Final(FromContext)  BY <2>2 DEF DraftAssistant
    <3>2. FromContext \in Verdicts  BY DEF FromContext, Verdicts
    <3> QED  BY <1>2, <2>2, <3>1, <3>2, MessageTypes
  <2> QED  BY <2>1, <2>2
<1>6. Asking' = Asking  BY <1>1 DEF Asking, Message
<1>7. WaveInv'  BY <1>1, <1>5, <1>6 DEF WaveInv, InWave
<1> QED  BY <1>3, <1>4, <1>7

\* WriteAssistant: calls are executed only when their message is in the log.
LEMMA WriteStep == ASSUME AllInv, WriteAssistant PROVE AllInv'
<1> USE DEF AllInv, request, wave, guard, write, log
<1>1. /\ pc = "record_write" /\ pc' \in {"completing", "tools", "stop_hook"}
      /\ UNCHANGED <<turns, ctx, calls, finish, collected>>
      /\ verdict' \in {verdict, "cancelled"}
      /\ history' \in {history, Append(history, draft)}
  BY DEF WriteAssistant, CompleteTurn, Written
<1>2. /\ turns \in Nat /\ Typed(calls', finish', verdict') /\ history \in Seq(Messages)
      /\ Ordered(history)
  BY <1>1 DEF LogInv, Typed, Verdicts
<1>3. /\ draft \in Messages /\ draft.role = "assistant" /\ draft.turn = turns
      /\ IF finish = "tool_calls" /\ calls # <<>> THEN draft = Asking
         ELSE draft.finish # "tool_calls"
      /\ collected = 0 /\ Len(calls) \in Nat
  BY <1>1, <1>2 DEF WaveInv, Typed
<1>4. LogInv'  BY <1>1, <1>2, <1>3, LogFrame DEF Places
<1>5. CASE ctx # "live" \/ ~(finish = "tool_calls" /\ calls # <<>>)
  <2>1. /\ pc' \in {"completing", "stop_hook"}
        /\ pc' = "stop_hook" => draft.finish # "tool_calls"
    BY <1>3, <1>5 DEF WriteAssistant, CompleteTurn
  <2>2. WaveInv'  BY <1>1, <1>2, <1>3, <2>1, WaveOut DEF InWave, Typed
  <2>3. AnswersInv'  BY <1>1, <1>3, <2>1, AnswersFrame DEF InWave
  <2> QED  BY <1>4, <2>2, <2>3
<1>6. CASE ctx = "live" /\ finish = "tool_calls" /\ calls # <<>>
  <2>1. pc' = "tools" /\ history' = Append(history, draft) /\ draft = Asking
    BY <1>3, <1>6 DEF WriteAssistant, Written
  <2>2. /\ DOMAIN history = 1 .. Len(history) /\ DOMAIN history' = 1 .. Len(history) + 1
        /\ Len(history') = Len(history) + 1 /\ Len(history) \in Nat
        /\ history'[Len(history) + 1] = draft
        /\ \A j \in 1 .. Len(history) : history'[j] = history[j]
    BY <1>2, <1>3, <2>1, AppendKeeps
  <2>0. PICK n \in Nat : n = Len(history) + 1  BY <2>2
  <2>3. OpenAt(n)'
    <3>1. draft.role = "assistant" /\ draft.calls = Len(calls)
      BY <1>3, <2>1 DEF Asking, Message
    <3>2. n \in DOMAIN history' /\ history'[n] = draft /\ Len(history') = n  BY <2>0, <2>2
    <3>3. n + 1 .. Len(history') = {}  BY <3>2
    <3> QED  BY <1>1, <1>3, <3>1, <3>2, <3>3 DEF OpenAt
  <2>4. WaveInv'
    <3>1. \E b \in DOMAIN history' : OpenAt(b)'  BY <2>0, <2>2, <2>3
    <3> QED  BY <1>1, <1>3, <2>1, <3>1 DEF WaveInv
  <2>5. AnswersInv'
    <3> SUFFICES ASSUME NEW k \in DOMAIN history', history'[k].turn = turns,
                        history'[k].finish = "tool_calls"
                 PROVE  \/ AllAnswered(history', k)
                        \/ \A j \in k + 1 .. Len(history') : history'[j].role = "tool"
      BY <1>1, <2>1 DEF AnswersInv, InWave
    <3>1. CASE k = Len(history) + 1  BY <2>2, <3>1
    <3>2. CASE k # Len(history) + 1
      <4>1. k \in DOMAIN history /\ history'[k] = history[k]  BY <2>2, <3>2
      <4>2. AllAnswered(history, k)  BY <1>1, <1>6, <4>1 DEF AnswersInv, InWave
      <4>3. draft.role # "tool"  BY <1>3
      <4> QED  BY <1>2, <1>3, <2>1, <4>1, <4>2, <4>3, AppendOther
    <3> QED  BY <3>1, <3>2
  <2> QED  BY <1>4, <2>4, <2>5
<1> QED  BY <1>5, <1>6

\* WriteResult: the result of the next call, unless a stop lost it.
LEMMA ResultStep == ASSUME AllInv, WriteResult PROVE AllInv'
<1> USE DEF AllInv, request, wave, guard, write, log
<1>1. /\ pc = "collect_write" /\ pc' = "collect" /\ collected' = collected + 1
      /\ UNCHANGED <<turns, ctx, calls, finish, verdict>>
      /\ history' \in {history, Append(history, draft)}
      /\ ctx = "live" => history' = Append(history, draft)
  BY DEF WriteResult, Written
<1>2. /\ turns \in Nat /\ Typed(calls', finish', verdict') /\ history \in Seq(Messages)
      /\ Ordered(history) /\ \A k \in DOMAIN history : history[k].turn <= turns
      /\ calls \in Seq(Tools)
  BY <1>1 DEF LogInv, Typed
<1>3. /\ collected \in Nat /\ collected < Len(calls) /\ Len(calls) \in Nat
      /\ draft = Message("tool", 0, collected + 1, "none", "none")
  BY <1>1, <1>2 DEF WaveInv
<1>4. /\ draft \in Messages /\ draft.role = "tool" /\ draft.turn = turns
      /\ draft.call = collected + 1 /\ draft.finish = "none"
  BY <1>2, <1>3, MessageTypes DEF Message, Messages, Roles, Verdicts, Finishes
<1>5. PICK b \in DOMAIN history : OpenAt(b)  BY <1>1 DEF WaveInv, InWave
<1>6. /\ DOMAIN history = 1 .. Len(history) /\ Len(history) \in Nat /\ b \in 1 .. Len(history)
      /\ history[b].role = "assistant" /\ history[b].calls = Len(calls)
      /\ \A j \in b + 1 .. Len(history) :
             history[j].role = "tool" /\ history[j].call <= collected
      /\ \A j \in 1 .. Len(history) : history[j].call \in Nat
      /\ ctx = "live" => Len(history) = b + collected
  <2>1. \A j \in 1 .. Len(history) : history[j] \in Messages /\ history[j].call \in Nat
    BY <1>2 DEF Messages
  <2>2. DOMAIN history = 1 .. Len(history) /\ Len(history) \in Nat
    BY <1>2
  <2> QED  BY <1>5, <2>1, <2>2 DEF OpenAt
<1>7. CASE ctx # "live" /\ UNCHANGED history
  <2>1. LogInv'  BY <1>1, <1>2, <1>7, LogFrame DEF Places
  <2>2. OpenAt(b)'
    <3>1. \A j \in b + 1 .. Len(history) : history[j].call <= collected + 1
      BY <1>3, <1>6
    <3> QED  BY <1>1, <1>5, <1>7, <3>1 DEF OpenAt
  <2>3. WaveInv'  BY <1>1, <1>3, <1>7, <2>2 DEF WaveInv
  <2>4. AnswersInv'  BY <1>1, <1>7 DEF AnswersInv
  <2> QED  BY <2>1, <2>3, <2>4
<1>8. CASE history' = Append(history, draft)
  <2>1. /\ DOMAIN history' = 1 .. Len(history) + 1 /\ Len(history') = Len(history) + 1
        /\ history' \in Seq(Messages)
        /\ history'[Len(history) + 1] = draft
        /\ \A j \in 1 .. Len(history) : history'[j] = history[j]
    BY <1>2, <1>4, <1>8, AppendKeeps
  <2>2. Opens(history, b, Len(history) + 1)  BY <1>6 DEF Opens
  <2>3. \A j \in b + 1 .. Len(history) : history[j].call < draft.call
    BY <1>3, <1>4, <1>6
  <2>4. draft.call <= history[b].calls  BY <1>3, <1>4, <1>6
  <2>5. /\ Ordered(history')
        /\ \A k \in DOMAIN history : k # b /\ AllAnswered(history, k) => AllAnswered(history', k)
    BY <1>2, <1>4, <1>8, <2>2, <2>3, <2>4, AppendResult
  <2>6. LogInv'
    <3>1. ASSUME NEW k \in DOMAIN history' PROVE history'[k].turn <= turns
      <4>1. CASE k = Len(history) + 1
        <5>1. history'[k].turn = turns  BY <1>4, <2>1, <4>1
        <5> QED  BY <1>2, <5>1
      <4>2. CASE k # Len(history) + 1
        <5>1. k \in DOMAIN history /\ history'[k] = history[k]  BY <1>6, <2>1, <4>2
        <5> QED  BY <1>2, <5>1
      <4> QED  BY <4>1, <4>2
    <3> QED  BY <1>1, <1>2, <2>1, <2>5, <3>1 DEF LogInv, Typed, Places
  <2>7. OpenAt(b)'
    <3>1. ASSUME NEW j \in b + 1 .. Len(history')
          PROVE  history'[j].role = "tool" /\ history'[j].call <= collected + 1
      <4>1. CASE j = Len(history) + 1
        <5>1. history'[j] = draft  BY <2>1, <4>1
        <5> QED  BY <1>3, <1>4, <5>1
      <4>2. CASE j # Len(history) + 1
        <5>1. j \in b + 1 .. Len(history) /\ history'[j] = history[j] /\ j \in 1 .. Len(history)
          BY <1>6, <2>1, <4>2
        <5> QED  BY <1>3, <1>6, <5>1
      <4> QED  BY <4>1, <4>2
    <3>2. ctx = "live" => Len(history') = b + (collected + 1)
      <4> SUFFICES ASSUME ctx = "live" PROVE Len(history') = b + (collected + 1)
        OBVIOUS
      <4>1. Len(history) = b + collected  BY <1>6
      <4>2. Len(history') = Len(history) + 1  BY <2>1
      <4>3. b \in Nat /\ collected \in Nat  BY <1>3, <1>6
      <4> QED  BY <4>1, <4>2, <4>3
    <3>3. b \in DOMAIN history' /\ history'[b] = history[b]  BY <1>6, <2>1
    <3> QED  BY <1>1, <1>6, <3>1, <3>2, <3>3 DEF OpenAt
  <2>8. WaveInv'
    <3>1. \E c \in DOMAIN history' : OpenAt(c)'  BY <1>6, <2>1, <2>7
    <3>2. collected' \in 0 .. Len(calls')  BY <1>1, <1>3
    <3> QED  BY <1>1, <3>1, <3>2 DEF WaveInv
  <2>9. AnswersInv'
    <3> SUFFICES ASSUME ctx = "live", NEW k \in DOMAIN history', history'[k].turn = turns,
                        history'[k].finish = "tool_calls"
                 PROVE  \/ AllAnswered(history', k)
                        \/ \A j \in k + 1 .. Len(history') : history'[j].role = "tool"
      BY <1>1 DEF AnswersInv, InWave
    <3>1. k # Len(history) + 1  BY <1>4, <2>1
    <3>2. k \in DOMAIN history /\ history'[k] = history[k]  BY <1>6, <2>1, <3>1
    <3>3. CASE k = b
      <4>1. \A j \in b + 1 .. Len(history') : history'[j].role = "tool"  BY <1>1, <2>7 DEF OpenAt
      <4> QED  BY <3>3, <4>1
    <3>4. CASE k # b
      <4>1. history[k].role # "tool"  BY <1>2, <3>2 DEF Messages
      <4>2. ~(\A j \in k + 1 .. Len(history) : history[j].role = "tool")
        <5>1. k < b \/ b < k  BY <1>6, <3>2, <3>4
        <5>2. CASE k < b
          <6>1. b \in k + 1 .. Len(history)  BY <1>6, <3>2, <5>2
          <6> QED  BY <1>6, <6>1
        <5>3. CASE b < k
          <6>1. k \in b + 1 .. Len(history)  BY <1>6, <3>2, <5>3
          <6> QED  BY <1>6, <4>1, <6>1
        <5> QED  BY <5>1, <5>2, <5>3
      <4>3. AllAnswered(history, k)  BY <1>1, <3>2, <4>2 DEF AnswersInv
      <4> QED  BY <2>5, <3>2, <3>4, <4>3
    <3> QED  BY <3>3, <3>4
  <2> QED  BY <2>6, <2>8, <2>9
<1> QED  BY <1>1, <1>7, <1>8

\* AfterTools: all calls of the wave have their result.
LEMMA WaveOver == ASSUME AllInv, AfterTools PROVE AllInv'
<1> USE DEF AllInv, request, wave, guard, write, log
<1>1. /\ pc = "collect" /\ collected = Len(calls) /\ pc' \in {"completing", "prepare"}
      /\ UNCHANGED <<turns, ctx, history>> /\ calls' = <<>> /\ finish' = "none"
      /\ collected' = 0 /\ verdict' \in {verdict, "completed", "failed", "cancelled"}
  BY DEF AfterTools, AllCollected, CompleteTurn, NextStep, FromContext
<1>2. /\ Typed(calls', finish', verdict') /\ history \in Seq(Messages)
      /\ calls \in Seq(Tools) /\ turns \in Nat
  BY <1>1, EmptySeq DEF LogInv, Typed, Verdicts, Finishes
<1>3. LogInv'  BY <1>1, <1>2, LogFrame DEF Places
<1>4. WaveInv'  BY <1>1, <1>2, WaveOut DEF Typed, InWave
<1>5. PICK b \in DOMAIN history : OpenAt(b)  BY <1>1 DEF WaveInv, InWave
<1>6. AnswersInv'
  <2> SUFFICES ASSUME ctx = "live", NEW k \in DOMAIN history, history[k].turn = turns,
                      history[k].finish = "tool_calls"
               PROVE  AllAnswered(history, k)
    BY <1>1 DEF AnswersInv
  <2>1. history[k].role # "tool" /\ k \in 1 .. Len(history) /\ b \in 1 .. Len(history)
        /\ Len(history) \in Nat
    <3>1. history[k] \in Messages  BY <1>2
    <3>2. history[k].role # "tool"  BY <3>1 DEF Messages
    <3>3. DOMAIN history = 1 .. Len(history) /\ Len(history) \in Nat  BY <1>2
    <3> QED  BY <3>2, <3>3
  <2>2. CASE \A j \in k + 1 .. Len(history) : history[j].role = "tool"
    <3>1. k = b
      <4>1. ~(k < b)
        <5> SUFFICES ASSUME k < b PROVE FALSE  BY <2>1
        <5>1. b \in k + 1 .. Len(history)  BY <2>1
        <5> QED  BY <1>5, <2>2, <5>1 DEF OpenAt
      <4>2. ~(b < k)
        <5> SUFFICES ASSUME b < k PROVE FALSE  BY <2>1
        <5>1. k \in b + 1 .. Len(history)  BY <2>1
        <5> QED  BY <1>5, <2>1, <5>1 DEF OpenAt
      <4> QED  BY <2>1, <4>1, <4>2
    <3>2. Cardinality(Results(history, k)) = Len(history) - k
      BY <1>2, <2>1, <2>2, LastResults
    <3>3. Len(history) = b + Len(calls) /\ history[b].calls = Len(calls) /\ Len(calls) \in Nat
      BY <1>1, <1>2, <1>5 DEF OpenAt
    <3> QED  BY <2>1, <3>1, <3>2, <3>3 DEF AllAnswered
  <2>3. CASE ~(\A j \in k + 1 .. Len(history) : history[j].role = "tool")
    BY <1>1, <2>3 DEF AnswersInv
  <2> QED  BY <2>2, <2>3
<1> QED  BY <1>3, <1>4, <1>6

\* The actions within a turn that are not in a wave and write no message.
LEMMA QuietSteps ==
  ASSUME AllInv,
         \/ NoWorkspace \/ Refuse \/ Prepare \/ OpenStream \/ Recover \/ ReceiveText
         \/ (\E t \in Tools : ReceiveCall(t)) \/ StreamFails \/ Crash
         \/ \E r \in {"tool_calls", "stop", "length", "none"} : StreamEnds(r)
  PROVE  AllInv'
<1> USE DEF AllInv, request, wave, guard, write, log
<1>0. calls \in Seq(Tools) /\ finish \in Finishes /\ verdict \in Verdicts /\ <<>> \in Seq(Tools)
      /\ {"tool_calls", "stop", "length", "none"} \subseteq Finishes
      /\ {"none", "completed", "failed", "cancelled"} \subseteq Verdicts
  BY EmptySeq DEF LogInv, Finishes, Verdicts
<1>1. CASE NoWorkspace \/ Crash
  <2>1. /\ pc' = "idle" /\ calls' = <<>> /\ finish' = "none" /\ verdict' = "none"
        /\ collected' = 0 /\ UNCHANGED <<turns, history>>
    BY <1>1 DEF NoWorkspace, Crash, Forget
  <2> QED  BY <1>0, <2>1, Outside DEF Places, InWave, Typed
<1>2. CASE Refuse \/ Prepare \/ Recover \/ ReceiveText \/ StreamFails
  <2>1. /\ pc \notin {"idle", "completing"} \cup InWave
        /\ pc' \in Places \ ({"admit", "record_write"} \cup InWave)
        /\ verdict' \in {verdict, "completed", "failed", "cancelled"}
        /\ UNCHANGED <<turns, ctx, calls, finish, collected, history>>
    BY <1>2 DEF Refuse, Prepare, Recover, ReceiveText, StreamFails, CompleteAfterError,
                CompleteTurn, Places, InWave
  <2>2. collected = 0  BY <2>1 DEF WaveInv, InWave
  <2> QED  BY <1>0, <2>1, <2>2, Outside DEF Typed
<1>3. CASE OpenStream
  <2>1. /\ pc = "stream" /\ pc' \in {"receive", "recover", "completing"}
        /\ calls' = <<>> /\ finish' = "none"
        /\ verdict' \in {verdict, "completed", "failed", "cancelled"}
        /\ UNCHANGED <<turns, ctx, collected, history>>
    BY <1>3 DEF OpenStream, CompleteAfterError, CompleteTurn
  <2>2. collected = 0  BY <2>1 DEF WaveInv
  <2> QED  BY <1>0, <2>1, <2>2, Outside DEF Typed, Places, InWave
<1>4. ASSUME NEW t \in Tools, ReceiveCall(t) PROVE AllInv'
  <2>1. /\ pc = "receive" /\ calls' = Append(calls, t)
        /\ UNCHANGED <<pc, turns, ctx, finish, verdict, collected, history>>
    BY <1>4 DEF ReceiveCall
  <2>2. collected = 0 /\ calls' \in Seq(Tools)  BY <1>0, <2>1, AppendProperties DEF WaveInv
  <2> QED  BY <1>0, <2>1, <2>2, Outside DEF Typed, Places, InWave
<1>5. ASSUME NEW r \in {"tool_calls", "stop", "length", "none"}, StreamEnds(r) PROVE AllInv'
  <2>1. /\ pc = "receive" /\ pc' = "record" /\ finish' = r
        /\ UNCHANGED <<turns, ctx, calls, verdict, collected, history>>
    BY <1>5 DEF StreamEnds
  <2>2. collected = 0  BY <2>1 DEF WaveInv
  <2> QED  BY <1>0, <2>1, <2>2, Outside DEF Typed, Places, InWave
<1> QED  BY <1>1, <1>2, <1>3, <1>4, <1>5

\* The actions that write a message of the user, the system or the assistant, but for the
\* response itself.
LEMMA WritingSteps ==
  ASSUME AllInv, RecordUser \/ StreamStopped \/ StopHook \/ Complete
  PROVE  AllInv'
<1> USE DEF AllInv, request, wave, guard, write, log
<1>0. turns \in Nat /\ calls \in Seq(Tools) /\ finish \in Finishes /\ verdict \in Verdicts
      /\ <<>> \in Seq(Tools) /\ "none" \in Finishes
      /\ {"none", "completed", "failed", "cancelled"} \subseteq Verdicts
  BY EmptySeq DEF LogInv, Finishes, Verdicts
<1> DEFINE Plain(m) == /\ m \in Messages /\ m.role # "tool" /\ m.finish # "tool_calls"
                       /\ m.turn = turns
<1>1. /\ Plain(Final("cancelled")) /\ Plain(Message("user", 0, 0, "none", "none"))
      /\ Plain(Message("system", 0, 0, "none", "none"))
  BY <1>0, MessageTypes
<1> HIDE DEF Plain
<1>2. ASSUME UNCHANGED turns, Typed(calls', finish', verdict'), collected' = 0,
             pc' \in Places \ ({"admit", "record_write"} \cup InWave),
             \/ pc' \in {"idle", "completing"}
             \/ pc \notin {"idle", "completing"} \cup InWave /\ UNCHANGED ctx,
             \/ UNCHANGED history
             \/ \E m : Plain(m) /\ history' = Append(history, m)
      PROVE  AllInv'
  <2>1. \/ UNCHANGED history
        \/ \E m \in Messages : /\ m.role # "tool" /\ m.finish # "tool_calls" /\ m.turn = turns
                               /\ history' = Append(history, m)
    BY <1>2 DEF Plain
  <2> QED  BY <1>2, <2>1, Outside
<1>3. CASE RecordUser
  <2>1. /\ pc = "admit" /\ pc' = "prepare"
        /\ history' = Append(history, Message("user", 0, 0, "none", "none"))
        /\ UNCHANGED <<turns, ctx, calls, finish, verdict, collected>>
    BY <1>3 DEF RecordUser
  <2>2. collected = 0  BY <2>1 DEF WaveInv
  <2> QED  BY <1>0, <1>1, <1>2, <2>1, <2>2 DEF Typed, Places, InWave
<1>4. CASE StreamStopped
  <2>1. /\ pc = "receive" /\ pc' = "completing" /\ verdict' = "cancelled"
        /\ history' \in {history, Append(history, Final("cancelled"))}
        /\ UNCHANGED <<turns, ctx, calls, finish, collected>>
    BY <1>4 DEF StreamStopped, CompleteTurn
  <2>2. collected = 0  BY <2>1 DEF WaveInv
  <2> QED  BY <1>0, <1>1, <1>2, <2>1, <2>2 DEF Typed, Places, InWave
<1>5. CASE StopHook
  <2>1. /\ pc = "stop_hook" /\ pc' \in {"completing", "prepare"}
        /\ verdict' \in {verdict, "completed"}
        /\ history' \in {history, Append(history, Message("system", 0, 0, "none", "none"))}
        /\ UNCHANGED <<turns, ctx, calls, finish, collected>>
    BY <1>5 DEF StopHook, CompleteTurn, NextStep
  <2>2. collected = 0  BY <2>1 DEF WaveInv
  <2> QED  BY <1>0, <1>1, <1>2, <2>1, <2>2 DEF Typed, Places, InWave
<1>6. CASE Complete
  <2>1. /\ pc' = "idle" /\ calls' = <<>> /\ finish' = "none" /\ verdict' = "none"
        /\ collected' = 0 /\ UNCHANGED turns
        /\ history' \in {history, Append(history, Final("cancelled"))}
    BY <1>6 DEF Complete, Forget
  <2> QED  BY <1>0, <1>1, <1>2, <2>1 DEF Typed, Places, InWave
<1> QED  BY <1>3, <1>4, <1>5, <1>6

\* The actions of a wave that write nothing.
LEMMA WaveSteps ==
  ASSUME AllInv, \/ StartTools \/ WaveEnds \/ DraftResult
                 \/ \E i \in Each : SkipCall(i) \/ RunCall(i) \/ ReturnCall(i) \/ CancelTool(i)
  PROVE  AllInv'
<1> USE DEF AllInv, request, wave, guard, write, log
<1>1. /\ pc \in InWave /\ pc' \in InWave
      /\ UNCHANGED <<turns, ctx, calls, finish, verdict, collected, history>>
  BY DEF StartTools, WaveEnds, DraftResult, SkipCall, RunCall, ReturnCall, CancelTool, InWave
<1>2. Typed(calls', finish', verdict')  BY <1>1 DEF LogInv, Typed
<1>3. LogInv'  BY <1>1, <1>2, LogFrame DEF InWave, Places
<1>4. AnswersInv'  BY <1>1, AnswersFrame DEF InWave
<1>5. CASE DraftResult
  <2>1. /\ pc = "collect" /\ pc' = "collect_write" /\ collected # Len(calls)
        /\ draft' = Message("tool", 0, collected + 1, "none", "none")
    BY <1>5 DEF DraftResult, AllCollected
  <2>2. collected \in 0 .. Len(calls) /\ Len(calls) \in Nat  BY DEF LogInv, WaveInv
  <2>3. collected < Len(calls)  BY <2>1, <2>2
  <2>4. draft' = Message("tool", 0, collected + 1, "none", "none")'
    BY <1>1, <2>1 DEF Message
  <2>5. PICK b \in DOMAIN history : OpenAt(b)  BY <1>1 DEF WaveInv
  <2>6. OpenAt(b)'  BY <1>1, <2>5 DEF OpenAt
  <2>7. WaveInv'  BY <1>1, <2>1, <2>2, <2>3, <2>4, <2>6 DEF WaveInv, InWave
  <2> QED  BY <1>3, <1>4, <2>7
<1>6. CASE \/ StartTools \/ WaveEnds
           \/ \E i \in Each : SkipCall(i) \/ RunCall(i) \/ ReturnCall(i) \/ CancelTool(i)
  <2>1. pc' # "collect_write" /\ (pc \in {"tools", "running"})
    BY <1>6 DEF StartTools, WaveEnds, SkipCall, RunCall, ReturnCall, CancelTool
  <2>2. collected = 0  BY <2>1 DEF WaveInv
  <2>3. WaveInv'  BY <1>1, <2>1, <2>2, WaveFrame
  <2> QED  BY <1>3, <1>4, <2>3
<1> QED  BY <1>5, <1>6

\* A stop changes no more than the context.
LEMMA StopStep == ASSUME AllInv, NEW r \in StopReasons, Cancel(r) PROVE AllInv'
<1> USE DEF AllInv, request, wave, guard, write, log
<1>1. /\ ctx = "live" /\ UNCHANGED <<pc, turns, calls, finish, draft, verdict, collected, history>>
  BY DEF Cancel
<1>2. LogInv' /\ AnswersInv'  BY <1>1 DEF LogInv, AnswersInv, Ordered
<1>3. ASSUME NEW b \in DOMAIN history, OpenAt(b) PROVE OpenAt(b)'
  BY <1>1, <1>3 DEF OpenAt
<1>4. WaveInv'
  <2>1. Asking' = Asking  BY <1>1 DEF Asking, Message
  <2>2. Message("tool", 0, collected + 1, "none", "none")'
          = Message("tool", 0, collected + 1, "none", "none")
    BY <1>1 DEF Message
  <2> QED  BY <1>1, <1>3, <2>1, <2>2 DEF WaveInv
<1> QED  BY <1>2, <1>4

LEMMA LogNext == ASSUME AllInv, [Next]_vars PROVE AllInv'
<1>1. CASE Submit
  <2>1. /\ pc = "idle" /\ pc' = "admit" /\ turns' = turns + 1
        /\ UNCHANGED <<ctx, calls, finish, verdict, collected, history>>
    BY <1>1 DEF Submit, request, wave, log
  <2>2. turns \in Nat /\ history \in Seq(Messages) /\ Len(calls) \in Nat
        /\ (\A k \in DOMAIN history : history[k].turn <= turns)
        /\ \A k \in DOMAIN history : history[k] \in Messages
    BY DEF AllInv, LogInv
  <2>3. \A k \in DOMAIN history : history[k].turn < turns + 1
    BY <2>2 DEF Messages
  <2>4. \A k \in DOMAIN history : history[k].turn <= turns + 1 /\ history[k].turn # turns + 1
    BY <2>2, <2>3 DEF Messages
  <2>5. LogInv'
    BY <2>1, <2>2, <2>3, <2>4 DEF AllInv, LogInv, Places, Ordered
  <2>6. collected = 0 /\ calls \in Seq(Tools)  BY <2>1 DEF AllInv, LogInv, WaveInv
  <2>7. WaveInv'  BY <2>1, <2>6, WaveOut DEF InWave
  <2>8. AnswersInv'  BY <2>1, <2>4 DEF AnswersInv
  <2> QED  BY <2>5, <2>7, <2>8 DEF AllInv
<1>2. CASE UNCHANGED vars
  <2>1. UNCHANGED <<pc, turns, ctx, calls, finish, draft, verdict, collected, history>>
    BY <1>2 DEF vars, request, wave, guard, write, log
  <2>2. LogInv' /\ AnswersInv'  BY <2>1 DEF AllInv, LogInv, AnswersInv, Ordered
  <2>3. \A b \in DOMAIN history : OpenAt(b)' <=> OpenAt(b)  BY <2>1 DEF OpenAt
  <2>4. Asking' = Asking  BY <2>1 DEF Asking, Message
  <2>5. Message("tool", 0, collected + 1, "none", "none")'
          = Message("tool", 0, collected + 1, "none", "none")
    BY <2>1 DEF Message
  <2>6. WaveInv'  BY <2>1, <2>3, <2>4, <2>5 DEF AllInv, WaveInv
  <2> QED  BY <2>2, <2>6 DEF AllInv
<1>3. CASE Step \/ \E i \in Each : CancelTool(i)
  <2>1. CASE DraftAssistant \/ WriteAssistant \/ WriteResult \/ AfterTools
    BY <2>1, DraftStep, WriteStep, ResultStep, WaveOver
  <2>2. CASE RecordUser \/ StreamStopped \/ StopHook \/ Complete
    BY <2>2, WritingSteps
  <2>3. CASE \/ StartTools \/ WaveEnds \/ DraftResult
             \/ \E i \in Each : SkipCall(i) \/ RunCall(i) \/ ReturnCall(i) \/ CancelTool(i)
    BY <2>3, WaveSteps
  <2>4. CASE \/ NoWorkspace \/ Refuse \/ Prepare \/ OpenStream \/ Recover \/ ReceiveText
             \/ (\E t \in Tools : ReceiveCall(t)) \/ StreamFails
             \/ \E r \in {"tool_calls", "stop", "length", "none"} : StreamEnds(r)
    BY <2>4, QuietSteps
  <2> QED  BY <1>3, <2>1, <2>2, <2>3, <2>4 DEF Step
<1> QED  BY <1>1, <1>2, <1>3, QuietSteps, StopStep DEF Next

(***************************************************************************)
(* The results of a response follow the calls they belong to, in the order *)
(* of the calls, whichever tool ended first and whatever a stop or a crash *)
(* lost: for any number of calls, steps and turns.                         *)
(***************************************************************************)
THEOREM InModelOrder == Spec => []ResultsInModelOrder
<1>1. AllInv => ResultsInModelOrder
  <2> SUFFICES ASSUME AllInv, NEW k \in DOMAIN history, history[k].role = "tool"
               PROVE  /\ history[k].call <= history[AskedAt(k)].calls
                      /\ history[k - 1].role = "tool" => history[k - 1].call < history[k].call
    BY DEF ResultsInModelOrder
  <2>1. OrderedAt(history, k) /\ k \in Nat  BY DEF AllInv, LogInv, Ordered
  <2>2. PICK b \in 1 .. k - 1 :
               /\ Opens(history, b, k)
               /\ history[k].call <= history[b].calls
               /\ history[k - 1].role = "tool" => history[k - 1].call < history[k].call
    BY <2>1 DEF OrderedAt
  <2>3. AskedAt(k) = Asked(history, k)  BY DEF AskedAt, Asked
  <2>4. AskedAt(k) = b  BY <2>1, <2>2, <2>3, OpensIsAsked
  <2> QED  BY <2>2, <2>4
<1>2. Init => AllInv  BY LogInit DEF AllInv
<1>3. AllInv /\ [Next]_vars => AllInv'  BY LogNext
<1> QED  BY <1>1, <1>2, <1>3, PTL DEF Spec

(***************************************************************************)
(* A model request that no stop has met yet sees as many results as calls  *)
(* it had asked for in this turn, although each write may be lost to a     *)
(* stop that comes between the choice of a context and the write.          *)
(***************************************************************************)
THEOREM SeesResults == Spec => []RequestSeesResults
<1>1. AllInv => RequestSeesResults
  <2> SUFFICES ASSUME AllInv, pc = "stream", ctx = "live", NEW k \in DOMAIN history,
                      history[k].turn = turns, history[k].finish = "tool_calls"
               PROVE  Answered(k)
    BY DEF RequestSeesResults
  <2>1. AllAnswered(history, k)  BY DEF AllInv, AnswersInv, InWave
  <2>2. ResultsOf(k) = Results(history, k)  BY DEF ResultsOf, Results, AskedAt, Asked
  <2> QED  BY <2>1, <2>2 DEF Answered, AllAnswered
<1>2. Init => AllInv  BY LogInit DEF AllInv
<1>3. AllInv /\ [Next]_vars => AllInv'  BY LogNext
<1> QED  BY <1>1, <1>2, <1>3, PTL DEF Spec
=============================================================================
