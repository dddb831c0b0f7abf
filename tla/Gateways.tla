------------------------------ MODULE Gateways ------------------------------
(***************************************************************************)
(* Tool calls that wait for a person: the questions of ask_user            *)
(* (interaction/question.go) and the approvals of manual mode              *)
(* (interaction/approval.go).  The calls run in goroutines of their turns; *)
(* clients answer from other threads; a stop ends the context of a call;   *)
(* and the deletion of a session (kernel/session_service.go) clears what   *)
(* the gateways still hold of it.                                          *)
(***************************************************************************)
EXTENDS Naturals, Sequences, FiniteSets

CONSTANTS
    Questions,  \* batches of questions; each is asked at most once
    Approvals,  \* approval requests; each is made at most once
    Sessions,
    Keys,       \* what a grant is for: tool, action and scope
    Direct,     \* decisions made without a person: by the mode, a hook or the Guardian
    None

ASSUME CallsAssumption == Questions \cap Approvals = {}
ASSUME DirectAssumption == Direct \subseteq {"auto_approve", "denied"}
ASSUME NoneAssumption ==
    None \notin {"answered", "cancelled", "approved", "for_session", "denied"} \cup Sessions

VARIABLES
    callPc,     \* where each call is
    home,       \* the session whose clients see it
    key,        \* the key of an approval
    ended,      \* calls whose context has ended
    pending,    \* both maps of pending calls
    box,        \* the result channel of each call; it holds one value
    result,     \* what each call returned
    sending,    \* resolutions that a thread has taken and not sent yet
    grants,     \* gateway.grants
    deletion,   \* how far the deletion of each session is
    told,       \* history variable: the resolutions accepted for each call, in order
    late        \* history variable: sessions cleared with calls still inside

gateVars == <<callPc, home, key, ended, pending, box, result, sending, grants, deletion,
              told, late>>

Calls == Questions \cup Approvals
Values == {"answered", "cancelled", "approved", "for_session", "denied"}
Resolution == [call : Calls, value : Values]

GateInit ==
    /\ callPc = [c \in Calls |-> "none"]
    /\ home = [c \in Calls |-> None] /\ key = [c \in Calls |-> None]
    /\ ended = {} /\ pending = {}
    /\ box = [c \in Calls |-> None] /\ result = [c \in Calls |-> None]
    /\ sending = {} /\ grants = {}
    /\ deletion = [s \in Sessions |-> "no"]
    /\ told = [c \in Calls |-> <<>>] /\ late = {}

Inside == {c \in Calls : callPc[c] \notin {"none", "left"}}
InsideOf(s) == {c \in Inside : home[c] = s}

-----------------------------------------------------------------------------
(***************************************************************************)
(* The calls.                                                              *)
(***************************************************************************)

Goto(c, place) == callPc' = [callPc EXCEPT ![c] = place]

Return(c, value) == Goto(c, "left") /\ result' = [result EXCEPT ![c] = value]

\* A call of session s begins; a session that is being deleted runs no turn.
Begin(c, s, place) ==
    /\ callPc[c] = "none" /\ deletion[s] = "no"
    /\ home' = [home EXCEPT ![c] = s]
    /\ Goto(c, place)

Ask(q, s) ==
    /\ Begin(q, s, "registered")
    /\ pending' = pending \cup {q}
    /\ UNCHANGED <<key, ended, box, result, sending, grants, deletion, told, late>>

\* Mutant: a grant for anything will do.
HasAnyGrant(s, k) == \E j \in Keys : <<s, j>> \in grants

HasGrant(s, k) == <<s, k>> \in grants

\* The mode decides, then the grants of the session.
Request(a, s, k) ==
    /\ Begin(a, s, "review")
    /\ key' = [key EXCEPT ![a] = k]
    /\ ~HasGrant(s, k)
    /\ UNCHANGED <<ended, pending, box, result, sending, grants, deletion, told, late>>

RequestAllowed(a, s, k) ==
    /\ callPc[a] = "none" /\ deletion[s] = "no"
    /\ home' = [home EXCEPT ![a] = s] /\ key' = [key EXCEPT ![a] = k]
    /\ \/ "auto_approve" \in Direct /\ Return(a, "auto_approve")
       \/ HasGrant(s, k) /\ Return(a, "for_session")
    /\ UNCHANGED <<ended, pending, box, sending, grants, deletion, told, late>>

\* A hook or the Guardian decides, or the request waits for a person.
Review(a) ==
    /\ callPc[a] = "review"
    /\ \/ \E d \in Direct : Return(a, d) /\ UNCHANGED pending
       \/ Goto(a, "registered") /\ pending' = pending \cup {a} /\ UNCHANGED result
    /\ UNCHANGED <<home, key, ended, box, sending, grants, deletion, told, late>>

\* The request is published; clients may have resolved it by then.
Publish(c) ==
    /\ callPc[c] = "registered"
    /\ Goto(c, "waiting")
    /\ UNCHANGED <<home, key, ended, pending, box, result, sending, grants, deletion, told, late>>

\* select: the resolution, or the end of the context.
Receive(c) ==
    /\ callPc[c] = "waiting" /\ box[c] # None
    /\ Return(c, box[c])
    /\ UNCHANGED <<home, key, ended, pending, box, sending, grants, deletion, told, late>>

\* Mutant: a call does not notice that its context has ended.
WaitOn(c) == callPc[c] = "waiting" /\ c \in ended /\ UNCHANGED gateVars

Leave(c) ==
    /\ callPc[c] = "waiting" /\ c \in ended
    /\ Goto(c, "leaving")
    /\ UNCHANGED <<home, key, ended, pending, box, result, sending, grants, deletion, told, late>>

\* Mutant: the call stays registered.
GiveUpQuietly(c) ==
    /\ callPc[c] = "leaving"
    /\ Return(c, "ended")
    /\ UNCHANGED <<home, key, ended, pending, box, sending, grants, deletion, told, late>>

\* The call is not pending any more; a resolution that arrives now is lost.
GiveUp(c) ==
    /\ callPc[c] = "leaving"
    /\ pending' = pending \ {c}
    /\ Return(c, "ended")
    /\ UNCHANGED <<home, key, ended, box, sending, grants, deletion, told, late>>

\* A stop of the turn, or of this call alone.
EndContext(c) ==
    /\ c \in Inside \ ended
    /\ ended' = ended \cup {c}
    /\ UNCHANGED <<callPc, home, key, pending, box, result, sending, grants, deletion, told, late>>

-----------------------------------------------------------------------------
(***************************************************************************)
(* The clients.  A call is taken under the lock and resolved after it.     *)
(***************************************************************************)

\* Mutant: the call is left pending.
TakeACopy(calls, value) ==
    /\ sending' = sending \cup [call : calls, value : {value}]
    /\ told' = [c \in Calls |-> IF c \in calls THEN Append(told[c], value) ELSE told[c]]
    /\ UNCHANGED pending

Take(calls, value) ==
    /\ pending' = pending \ calls
    /\ sending' = sending \cup [call : calls, value : {value}]
    /\ told' = [c \in Calls |-> IF c \in calls THEN Append(told[c], value) ELSE told[c]]

\* Answer and Cancel, by a client of the session; the kernel refuses a deleted session.
ResolveQuestion(q, value) ==
    /\ q \in pending \cap Questions /\ deletion[home[q]] # "gone"
    /\ Take({q}, value)
    /\ UNCHANGED <<callPc, home, key, ended, box, result, grants, deletion, late>>

\* The first decision stands, and for the session it becomes a grant at once.
Resolve(a, d) ==
    /\ a \in pending \cap Approvals
    /\ Take({a}, d)
    /\ grants' = IF d = "for_session" THEN grants \cup {<<home[a], key[a]>>} ELSE grants
    /\ UNCHANGED <<callPc, home, key, ended, box, result, deletion, late>>

\* The channel takes one value without a reader.
Send(r) ==
    /\ r \in sending /\ box[r.call] = None
    /\ sending' = sending \ {r}
    /\ box' = [box EXCEPT ![r.call] = r.value]
    /\ UNCHANGED <<callPc, home, key, ended, pending, result, grants, deletion, told, late>>

-----------------------------------------------------------------------------
(***************************************************************************)
(* The deletion of a session.                                              *)
(***************************************************************************)

\* Mutant: the deletion does not cancel the turn of the session.
StopLater(s) ==
    /\ deletion[s] = "no"
    /\ deletion' = [deletion EXCEPT ![s] = "stopping"]
    /\ UNCHANGED <<callPc, home, key, ended, pending, box, result, sending, grants, told, late>>

\* stopSessionAndWait: the context of every call of the session ends.
StopSession(s) ==
    /\ deletion[s] = "no"
    /\ deletion' = [deletion EXCEPT ![s] = "stopping"]
    /\ ended' = ended \cup InsideOf(s)
    /\ UNCHANGED <<callPc, home, key, pending, box, result, sending, grants, told, late>>

\* Mutant: the grants of another session are cleared.
ClearOthers(s) ==
    /\ deletion[s] = "stopping"
    /\ grants' = {g \in grants : g[1] = s}
    /\ late' = IF InsideOf(s) = {} THEN late ELSE late \cup {s}
    /\ deletion' = [deletion EXCEPT ![s] = "cleared"]
    /\ UNCHANGED <<callPc, home, key, ended, pending, box, result, sending, told>>

\* Its calls have left, or the grace of the deletion is over; the grants go.
ClearApprovals(s) ==
    /\ deletion[s] = "stopping"
    /\ grants' = {g \in grants : g[1] # s}
    /\ late' = IF InsideOf(s) = {} THEN late ELSE late \cup {s}
    /\ deletion' = [deletion EXCEPT ![s] = "cleared"]
    /\ UNCHANGED <<callPc, home, key, ended, pending, box, result, sending, told>>

\* The questions that still wait are cancelled; then the session is removed.
ClearQuestions(s) ==
    /\ deletion[s] = "cleared"
    /\ Take({q \in pending \cap Questions : home[q] = s}, "cancelled")
    /\ deletion' = [deletion EXCEPT ![s] = "gone"]
    /\ UNCHANGED <<callPc, home, key, ended, box, result, grants, late>>

\* The process ends: calls and grants were in memory only, a deletion is forgotten.
Restart ==
    /\ callPc' = [c \in Calls |-> IF c \in Inside THEN "left" ELSE callPc[c]]
    /\ result' = [c \in Calls |-> IF c \in Inside THEN "ended" ELSE result[c]]
    /\ ended' = ended \cup Inside
    /\ pending' = {} /\ sending' = {} /\ grants' = {}
    /\ deletion' = [s \in Sessions |-> IF deletion[s] = "gone" THEN "gone" ELSE "no"]
    /\ UNCHANGED <<home, key, box, told, late>>

-----------------------------------------------------------------------------
\* What a call, a resolution and a deletion do by themselves once begun.
CallStep(c) == Review(c) \/ Publish(c) \/ Receive(c) \/ Leave(c) \/ GiveUp(c)
DeletionStep(s) == ClearApprovals(s) \/ ClearQuestions(s)

GateStep ==
    \/ \E q \in Questions, s \in Sessions : Ask(q, s)
    \/ \E a \in Approvals, s \in Sessions, k \in Keys : Request(a, s, k) \/ RequestAllowed(a, s, k)
    \/ \E c \in Calls : Review(c) \/ Publish(c) \/ Receive(c) \/ Leave(c) \/ GiveUp(c) \/ EndContext(c)
    \/ \E q \in Questions, v \in {"answered", "cancelled"} : ResolveQuestion(q, v)
    \/ \E a \in Approvals, d \in {"approved", "for_session", "denied"} : Resolve(a, d)
    \/ \E r \in Resolution : Send(r)
    \/ \E s \in Sessions : StopSession(s) \/ ClearApprovals(s) \/ ClearQuestions(s)

GateSpec == GateInit /\ [][GateStep \/ Restart]_gateVars

\* Fairness: goroutines and threads go on; people owe no answer.
GateFairness ==
    /\ \A c \in Calls : WF_gateVars(CallStep(c))
    /\ \A r \in Resolution : WF_gateVars(Send(r))
    /\ \A s \in Sessions : WF_gateVars(DeletionStep(s))

-----------------------------------------------------------------------------
(***************************************************************************)
(* Properties.                                                             *)
(***************************************************************************)

\* The types of the gateways' state.
GateTypeOK ==
    /\ callPc \in [Calls -> {"none", "review", "registered", "waiting", "leaving", "left"}]
    /\ home \in [Calls -> Sessions \cup {None}] /\ key \in [Calls -> Keys \cup {None}]
    /\ ended \subseteq Calls /\ pending \subseteq Calls
    /\ box \in [Calls -> Values \cup {None}]
    /\ result \in [Calls -> Values \cup Direct \cup {"ended", None}]
    /\ sending \subseteq Resolution /\ grants \subseteq Sessions \X Keys
    /\ deletion \in [Sessions -> {"no", "stopping", "cleared", "gone"}]
    /\ told \in [Calls -> Seq(Values)] /\ late \subseteq Sessions

\* The first valid answer or decision stands: at most one is accepted, the call returns
\* that one unless its context ended, and without one it was never approved by a person.
FirstDecisionStands ==
    \A c \in Calls :
        /\ Len(told[c]) <= 1
        /\ callPc[c] = "left" =>
               \/ c \in ended /\ result[c] = "ended"
               \/ told[c] # <<>> /\ result[c] = told[c][1]
               \/ result[c] \in Direct
               \/ result[c] = "for_session"
                  /\ \E a \in Approvals : /\ home[a] = home[c] /\ key[a] = key[c]
                                          /\ told[a] = <<"for_session">>

\* A call that waits can still be released, by a client, by a resolution on its way or by
\* the end of its context; nothing stays pending for a call that has gone, and a client
\* that resolves a call is never held up by the channel.
NobodyWaitsInVain ==
    /\ \A c \in Calls : callPc[c] = "waiting" =>
           c \in pending \cup ended \/ box[c] # None \/ \E r \in sending : r.call = c
    /\ \A c \in pending : callPc[c] \in {"registered", "waiting", "leaving"}
    /\ \A r \in sending : box[r.call] = None

\* Grants end with their session (permissions.md: they are cleared when it is deleted),
\* unless a call outlived the grace of the deletion and is decided after it.
GrantsEndWithSession ==
    \A s \in Sessions : deletion[s] \in {"cleared", "gone"} /\ s \notin late =>
        \A k \in Keys : <<s, k>> \notin grants

\* A call that was resolved, or whose context has ended, returns.
CallsLeave ==
    \A c \in Calls : (c \in ended \/ told[c] # <<>>) ~> callPc[c] = "left"
=============================================================================
