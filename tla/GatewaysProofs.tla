--------------------------- MODULE GatewaysProofs ---------------------------
(***************************************************************************)
(* Machine-checked proofs about Gateways, for any number of calls,         *)
(* sessions and grants, with restarts of the kernel; and about the         *)
(* automation manager, which is composed with them: what a task says of    *)
(* its runs, for any number of tasks, runs, restarts and questions.        *)
(***************************************************************************)
EXTENDS Automation, TLAPS

-----------------------------------------------------------------------------
(***************************************************************************)
(* The invariant.  A call passes through one of a few situations; each     *)
(* conjunct says what two of the variables have to do with each other in   *)
(* one of them.                                                            *)
(***************************************************************************)

\* Nobody has been told anything of a call that is pending or has not come that far.
PendingUntold == \A c \in pending : told[c] = <<>> /\ callPc[c] \in {"registered", "waiting", "leaving"}
NewUntold == \A c \in Calls : callPc[c] \in {"none", "review"} => told[c] = <<>>

\* What was told is one value, the one on its way and the one in the channel.
ToldOnce == \A c \in Calls : told[c] = <<>> \/ \E v \in Values : told[c] = <<v>>
SentIsTold == \A r \in sending : told[r.call] = <<r.value>> /\ box[r.call] = None
BoxIsTold == \A c \in Calls : box[c] # None => told[c] = <<box[c]>>

\* A call begins in a session, an approval for something.
AtHome == \A c \in Calls : callPc[c] # "none" =>
              home[c] \in Sessions /\ (c \in Approvals => key[c] \in Keys)

LeavingEnded == \A c \in Calls : callPc[c] = "leaving" => c \in ended

\* A call that waits, or is about to, can be released.
WaitingHeld == \A c \in Calls : callPc[c] \in {"registered", "waiting"} =>
                   c \in pending \cup ended \/ box[c] # None \/ \E r \in sending : r.call = c

\* A grant comes from a decision for the session.
Granted(s, k) == \E a \in Approvals : home[a] = s /\ key[a] = k /\ told[a] = <<"for_session">>
GrantsDecided == \A s \in Sessions, k \in Keys : <<s, k>> \in grants => Granted(s, k)

\* Why a call returned what it did.
LeftFor(c) == \/ c \in ended /\ result[c] = "ended"
              \/ told[c] # <<>> /\ result[c] = told[c][1]
              \/ result[c] \in Direct
              \/ result[c] = "for_session" /\ Granted(home[c], key[c])
LeftReason == \A c \in Calls : callPc[c] = "left" => LeftFor(c)

\* A session that was cleared on time has neither calls nor grants.
ClearedEmpty == \A s \in Sessions : deletion[s] \in {"cleared", "gone"} /\ s \notin late =>
                    /\ \A c \in Calls : home[c] = s => callPc[c] \in {"none", "left"}
                    /\ \A k \in Keys : <<s, k>> \notin grants

GateInv ==
    /\ GateTypeOK
    /\ PendingUntold /\ NewUntold /\ ToldOnce /\ SentIsTold /\ BoxIsTold
    /\ AtHome /\ LeavingEnded /\ WaitingHeld
    /\ GrantsDecided /\ LeftReason /\ ClearedEmpty

\* The three properties follow.
LEMMA InvImplies == GateInv => FirstDecisionStands /\ NobodyWaitsInVain /\ GrantsEndWithSession
<1> SUFFICES ASSUME GateInv PROVE FirstDecisionStands /\ NobodyWaitsInVain /\ GrantsEndWithSession
  OBVIOUS
<1>1. FirstDecisionStands
  <2> SUFFICES ASSUME NEW c \in Calls
               PROVE  Len(told[c]) <= 1 /\ (callPc[c] = "left" => LeftFor(c))
    BY DEF FirstDecisionStands, LeftFor, Granted
  <2>1. CASE told[c] = <<>>
    BY <2>1 DEF GateInv, LeftReason
  <2>2. CASE \E v \in Values : told[c] = <<v>>
    BY <2>2 DEF GateInv, LeftReason
  <2> QED BY <2>1, <2>2 DEF GateInv, ToldOnce
<1>2. NobodyWaitsInVain
  BY DEF GateInv, NobodyWaitsInVain, WaitingHeld, PendingUntold, SentIsTold
<1>3. GrantsEndWithSession
  BY DEF GateInv, GrantsEndWithSession, ClearedEmpty
<1> QED BY <1>1, <1>2, <1>3

LEMMA InvInit == GateInit => GateInv
<1> SUFFICES ASSUME GateInit PROVE GateInv
  OBVIOUS
<1>1. GateTypeOK
  BY DEF GateInit, GateTypeOK
<1> QED BY <1>1 DEF GateInit, GateInv, PendingUntold, NewUntold, ToldOnce, SentIsTold, BoxIsTold,
                   AtHome, LeavingEnded, WaitingHeld, GrantsDecided, LeftReason, ClearedEmpty
-----------------------------------------------------------------------------
(***************************************************************************)
(* What every step leaves as it is.                                        *)
(***************************************************************************)

\* What was told, where a call belongs and why it left do not change any more.
Stays ==
    /\ \A c \in Calls : told[c] # <<>> => told'[c] = told[c]
    /\ \A c \in Calls : callPc[c] # "none" => home'[c] = home[c] /\ key'[c] = key[c]
    /\ \A c \in Calls : callPc[c] = "left" => callPc'[c] = "left" /\ result'[c] = result[c]
    /\ ended \subseteq ended'

\* A decision that made a grant still stands.
LEMMA GrantedStays ==
    ASSUME GateInv, Stays, NEW s, NEW k, Granted(s, k)
    PROVE  Granted(s, k)'
<1>1. PICK a \in Approvals : home[a] = s /\ key[a] = k /\ told[a] = <<"for_session">>
  BY DEF Granted
<1>2. a \in Calls /\ told[a] # <<>>
  BY <1>1 DEF Calls
<1>3. callPc[a] # "none"
  BY <1>2 DEF GateInv, NewUntold
<1>4. told'[a] = told[a] /\ home'[a] = home[a] /\ key'[a] = key[a]
  BY <1>2, <1>3 DEF Stays
<1> QED BY <1>1, <1>4 DEF Granted

\* Steps that record no grant.
LEMMA NoNewGrant ==
    ASSUME GateInv, Stays, grants' \subseteq grants
    PROVE  GrantsDecided'
<1> SUFFICES ASSUME NEW s \in Sessions, NEW k \in Keys, <<s, k>> \in grants'
             PROVE  Granted(s, k)'
  BY DEF GrantsDecided
<1>1. Granted(s, k)
  BY DEF GateInv, GrantsDecided
<1> QED BY <1>1, GrantedStays

\* What a call that has left was told, or why it was not.
LEMMA LeftStays ==
    ASSUME GateInv, Stays, \A c \in Calls : callPc'[c] = "left" => callPc[c] = "left" \/ LeftFor(c)'
    PROVE  LeftReason'
<1> SUFFICES ASSUME NEW c \in Calls, callPc[c] = "left"
             PROVE  LeftFor(c)'
  BY DEF LeftReason
<1>1. LeftFor(c)
  BY DEF GateInv, LeftReason
<1>2. result'[c] = result[c] /\ home'[c] = home[c] /\ key'[c] = key[c]
  BY DEF Stays
<1>3. CASE c \in ended /\ result[c] = "ended"
  BY <1>2, <1>3 DEF Stays, LeftFor
<1>4. CASE told[c] # <<>> /\ result[c] = told[c][1]
  BY <1>2, <1>4 DEF Stays, LeftFor
<1>5. CASE result[c] \in Direct
  BY <1>2, <1>5 DEF LeftFor
<1>6. CASE result[c] = "for_session" /\ Granted(home[c], key[c])
  <2>1. Granted(home[c], key[c])'
    BY <1>2, <1>6, GrantedStays
  <2> QED BY <1>2, <1>6, <2>1 DEF LeftFor
<1> QED BY <1>1, <1>3, <1>4, <1>5, <1>6 DEF LeftFor

\* What taking some of the pending calls does.
LEMMA TakeFacts ==
    ASSUME GateInv, NEW calls \in SUBSET pending, NEW v \in Values, Take(calls, v)
    PROVE  /\ told' \in [Calls -> Seq(Values)] /\ sending' \subseteq Resolution
           /\ \A c \in Calls : told'[c] = IF c \in calls THEN <<v>> ELSE told[c]
           /\ \A r \in sending' : r \in sending \/ (r.call \in calls /\ r.value = v)
           /\ \A c \in calls : \E r \in sending' : r.call = c
           /\ sending \subseteq sending' /\ pending' = pending \ calls
<1>1. calls \subseteq Calls /\ \A c \in calls : told[c] = <<>>
  BY DEF GateInv, GateTypeOK, PendingUntold
<1>2. \A c \in Calls : told'[c] = IF c \in calls THEN <<v>> ELSE told[c]
  <2>1. Append(<<>>, v) = <<v>>
    OBVIOUS
  <2>2. \A c \in Calls : told'[c] = IF c \in calls THEN Append(told[c], v) ELSE told[c]
    BY DEF Take
  <2> QED BY <1>1, <2>1, <2>2
<1>3. told' \in [Calls -> Seq(Values)]
  BY <1>2 DEF Take, GateInv, GateTypeOK
<1>4. [call : calls, value : {v}] \subseteq Resolution
  BY <1>1 DEF Resolution
<1>5. \A c \in calls : [call |-> c, value |-> v] \in sending'
  BY DEF Take
<1>6. \A c \in calls : \E r \in sending' : r.call = c
  BY <1>5
<1> QED BY <1>2, <1>3, <1>4, <1>6 DEF Take, GateInv, GateTypeOK

\* Taking calls, while everything else stays, keeps what holds of the calls.
LEMMA TakeKeeps ==
    ASSUME GateInv, NEW calls \in SUBSET pending, NEW v \in Values, Take(calls, v),
           callPc' = callPc, box' = box, ended' = ended
    PROVE  PendingUntold' /\ NewUntold' /\ ToldOnce' /\ SentIsTold' /\ BoxIsTold' /\ WaitingHeld'
<1>1. /\ \A c \in Calls : told'[c] = IF c \in calls THEN <<v>> ELSE told[c]
      /\ \A r \in sending' : r \in sending \/ (r.call \in calls /\ r.value = v)
      /\ \A c \in calls : \E r \in sending' : r.call = c
      /\ sending \subseteq sending' /\ pending' = pending \ calls
  BY TakeFacts
<1>2. pending \subseteq Calls /\ \A r \in sending : r.call \in Calls
  BY DEF GateInv, GateTypeOK, Resolution
<1>3. \A c \in calls : told[c] = <<>> /\ callPc[c] \in {"registered", "waiting", "leaving"} /\ box[c] = None
  BY <1>2 DEF GateInv, PendingUntold, BoxIsTold
<1>4. \A r \in sending : r.call \notin calls
  <2>1. \A r \in sending : told[r.call] = <<r.value>>
    BY DEF GateInv, SentIsTold
  <2>2. \A r \in sending : <<r.value>> # <<>>
    OBVIOUS
  <2> QED BY <1>3, <2>1, <2>2
<1>5. PendingUntold' /\ NewUntold'
  BY <1>1, <1>2, <1>3 DEF GateInv, PendingUntold, NewUntold
<1>6. ToldOnce'
  BY <1>1 DEF GateInv, ToldOnce
<1>7. SentIsTold'
  <2> SUFFICES ASSUME NEW r \in sending'
               PROVE  told'[r.call] = <<r.value>> /\ box[r.call] = None
    BY DEF SentIsTold
  <2>1. CASE r \in sending
    BY <1>1, <1>2, <1>4, <2>1 DEF GateInv, SentIsTold
  <2>2. CASE r.call \in calls /\ r.value = v
    BY <1>1, <1>2, <1>3, <2>2
  <2> QED BY <1>1, <2>1, <2>2
<1>8. BoxIsTold'
  BY <1>1, <1>3 DEF GateInv, BoxIsTold
<1>9. WaitingHeld'
  BY <1>1 DEF GateInv, WaitingHeld
<1> QED BY <1>5, <1>6, <1>7, <1>8, <1>9


\* A question is asked.
LEMMA AskInv ==
    ASSUME GateInv, NEW q \in Questions, NEW s \in Sessions, Ask(q, s)
    PROVE  GateInv'
<1> USE CallsAssumption, DirectAssumption, NoneAssumption DEF GateInv, Ask, Begin, Goto, Calls
<1>1. GateTypeOK'
  BY DEF GateTypeOK, Resolution, Values, Inside, InsideOf, PendingUntold, AtHome
<1>2. Stays
  BY DEF GateTypeOK, Stays, NewUntold, PendingUntold, Inside
<1>3. PendingUntold' /\ NewUntold'
  BY DEF GateTypeOK, PendingUntold, NewUntold, SentIsTold, BoxIsTold, Resolution, Values, Inside
<1>4. ToldOnce'
  BY DEF GateTypeOK, ToldOnce, Values
<1>5. SentIsTold'
  BY DEF GateTypeOK, PendingUntold, SentIsTold, BoxIsTold, Resolution, Values
<1>6. BoxIsTold'
  BY DEF GateTypeOK, PendingUntold, SentIsTold, BoxIsTold, Resolution, Values
<1>7. AtHome' /\ LeavingEnded'
  BY DEF GateTypeOK, AtHome, LeavingEnded, Inside
<1>8. WaitingHeld'
  BY DEF GateTypeOK, WaitingHeld, PendingUntold, SentIsTold, BoxIsTold, Resolution, Values, Inside
<1>9. GrantsDecided'
  BY <1>2, NoNewGrant
<1>10. LeftReason'
  <2>1. \A c \in Calls : callPc'[c] = "left" => callPc[c] = "left" \/ LeftFor(c)'
    BY DEF GateTypeOK, LeftFor, BoxIsTold, LeavingEnded, Values, Inside
  <2> QED BY <1>2, <2>1, LeftStays
<1>11. ClearedEmpty'
  BY DEF GateTypeOK, ClearedEmpty, Inside, InsideOf, PendingUntold, NewUntold, AtHome
<1> QED BY <1>1, <1>3, <1>4, <1>5, <1>6, <1>7, <1>8, <1>9, <1>10, <1>11

\* An approval is requested.
LEMMA RequestInv ==
    ASSUME GateInv, NEW a \in Approvals, NEW s \in Sessions, NEW k \in Keys, Request(a, s, k)
    PROVE  GateInv'
<1> USE CallsAssumption, DirectAssumption, NoneAssumption DEF GateInv, Request, Begin, Goto, Calls
<1>1. GateTypeOK'
  BY DEF GateTypeOK, Resolution, Values, Inside, InsideOf, PendingUntold, AtHome
<1>2. Stays
  BY DEF GateTypeOK, Stays, NewUntold, PendingUntold, Inside
<1>3. PendingUntold' /\ NewUntold'
  BY DEF GateTypeOK, PendingUntold, NewUntold, SentIsTold, BoxIsTold, Resolution, Values, Inside
<1>4. ToldOnce'
  BY DEF GateTypeOK, ToldOnce, Values
<1>5. SentIsTold'
  BY DEF GateTypeOK, PendingUntold, SentIsTold, BoxIsTold, Resolution, Values
<1>6. BoxIsTold'
  BY DEF GateTypeOK, PendingUntold, SentIsTold, BoxIsTold, Resolution, Values
<1>7. AtHome' /\ LeavingEnded'
  BY DEF GateTypeOK, AtHome, LeavingEnded, Inside
<1>8. WaitingHeld'
  BY DEF GateTypeOK, WaitingHeld, PendingUntold, SentIsTold, BoxIsTold, Resolution, Values, Inside
<1>9. GrantsDecided'
  BY <1>2, NoNewGrant
<1>10. LeftReason'
  <2>1. \A c \in Calls : callPc'[c] = "left" => callPc[c] = "left" \/ LeftFor(c)'
    BY DEF GateTypeOK, LeftFor, BoxIsTold, LeavingEnded, Values, Inside
  <2> QED BY <1>2, <2>1, LeftStays
<1>11. ClearedEmpty'
  BY DEF GateTypeOK, ClearedEmpty, Inside, InsideOf, PendingUntold, NewUntold, AtHome
<1> QED BY <1>1, <1>3, <1>4, <1>5, <1>6, <1>7, <1>8, <1>9, <1>10, <1>11

\* An approval that needs no review.
LEMMA RequestAllowedInv ==
    ASSUME GateInv, NEW a \in Approvals, NEW s \in Sessions, NEW k \in Keys, RequestAllowed(a, s, k)
    PROVE  GateInv'
<1> USE CallsAssumption, DirectAssumption, NoneAssumption DEF GateInv, RequestAllowed, Return, Goto, Calls
<1>1. GateTypeOK'
  <2>1. result' \in [Calls -> Values \cup Direct \cup {"ended", None}]
    BY DEF GateTypeOK, Values
  <2>2. pending' \subseteq Calls /\ callPc' \in [Calls -> {"none", "review", "registered", "waiting", "leaving", "left"}]
    BY DEF GateTypeOK
  <2> QED BY <2>1, <2>2 DEF GateTypeOK
<1>2. Stays
  BY DEF GateTypeOK, Stays, NewUntold, PendingUntold, Inside
<1>3. PendingUntold' /\ NewUntold'
  BY DEF GateTypeOK, PendingUntold, NewUntold, SentIsTold, BoxIsTold, Resolution, Values, Inside
<1>4. ToldOnce'
  BY DEF GateTypeOK, ToldOnce, Values
<1>5. SentIsTold'
  BY DEF GateTypeOK, PendingUntold, SentIsTold, BoxIsTold, Resolution, Values
<1>6. BoxIsTold'
  BY DEF GateTypeOK, PendingUntold, SentIsTold, BoxIsTold, Resolution, Values
<1>7. AtHome' /\ LeavingEnded'
  BY DEF GateTypeOK, AtHome, LeavingEnded, Inside
<1>8. WaitingHeld'
  <2>1. \A c \in Calls : callPc'[c] \in {"registered", "waiting"} => callPc[c] \in {"registered", "waiting"}
    BY DEF GateTypeOK
  <2>2. UNCHANGED <<pending, ended, box, sending>>
    OBVIOUS
  <2>3. WaitingHeld
    OBVIOUS
  <2> QED BY ONLY <2>1, <2>2, <2>3 DEF WaitingHeld
<1>9. GrantsDecided'
  BY <1>2, NoNewGrant
<1>10. LeftReason'
  <2>1. ASSUME NEW c \in Calls, callPc'[c] = "left"
        PROVE  callPc[c] = "left" \/ LeftFor(c)'
    <3>1. c # a => callPc[c] = "left"
      BY <2>1 DEF GateTypeOK
    <3>2. CASE c = a /\ HasGrant(s, k)
      <4>1. Granted(s, k)'
        BY <1>2, <3>2, GrantedStays DEF HasGrant, GrantsDecided
      <4>2. result'[a] \in Direct \cup {"for_session"} /\ home'[a] = s /\ key'[a] = k
        BY DEF GateTypeOK
      <4> QED BY <3>2, <4>1, <4>2 DEF LeftFor
    <3>3. CASE c = a /\ ~HasGrant(s, k)
      BY <3>3 DEF GateTypeOK, LeftFor
    <3> QED BY <3>1, <3>2, <3>3
  <2> QED BY <1>2, <2>1, LeftStays
<1>11. ClearedEmpty'
  BY DEF GateTypeOK, ClearedEmpty, Inside, InsideOf, PendingUntold, NewUntold, AtHome
<1> QED BY <1>1, <1>3, <1>4, <1>5, <1>6, <1>7, <1>8, <1>9, <1>10, <1>11

\* A hook or the Guardian decides, or a person has to.
LEMMA ReviewInv ==
    ASSUME GateInv, NEW a \in Calls, Review(a)
    PROVE  GateInv'
<1> USE CallsAssumption, DirectAssumption, NoneAssumption DEF GateInv, Review, Return, Goto, Calls
<1>1. GateTypeOK'
  <2>1. CASE \E d \in Direct : Return(a, d) /\ UNCHANGED pending
    BY <2>1 DEF GateTypeOK
  <2>2. CASE Goto(a, "registered") /\ pending' = pending \cup {a} /\ UNCHANGED result
    BY <2>2 DEF GateTypeOK
  <2> QED BY <2>1, <2>2
<1>2. Stays
  BY DEF GateTypeOK, Stays, NewUntold, PendingUntold, Inside
<1>3. PendingUntold' /\ NewUntold'
  BY DEF GateTypeOK, PendingUntold, NewUntold, SentIsTold, BoxIsTold, Resolution, Values, Inside
<1>4. ToldOnce'
  BY DEF GateTypeOK, ToldOnce, Values
<1>5. SentIsTold'
  BY DEF GateTypeOK, PendingUntold, SentIsTold, BoxIsTold, Resolution, Values
<1>6. BoxIsTold'
  BY DEF GateTypeOK, PendingUntold, SentIsTold, BoxIsTold, Resolution, Values
<1>7. AtHome' /\ LeavingEnded'
  BY DEF GateTypeOK, AtHome, LeavingEnded, Inside
<1>8. WaitingHeld'
  BY DEF GateTypeOK, WaitingHeld, PendingUntold, SentIsTold, BoxIsTold, Resolution, Values, Inside
<1>9. GrantsDecided'
  BY <1>2, NoNewGrant
<1>10. LeftReason'
  <2>1. \A c \in Calls : callPc'[c] = "left" => callPc[c] = "left" \/ LeftFor(c)'
    BY DEF GateTypeOK, LeftFor, BoxIsTold, LeavingEnded, Values, Inside
  <2> QED BY <1>2, <2>1, LeftStays
<1>11. ClearedEmpty'
  BY DEF GateTypeOK, ClearedEmpty, Inside, InsideOf, PendingUntold, NewUntold, AtHome
<1> QED BY <1>1, <1>3, <1>4, <1>5, <1>6, <1>7, <1>8, <1>9, <1>10, <1>11

\* A request becomes visible.
LEMMA PublishInv ==
    ASSUME GateInv, NEW a \in Calls, Publish(a)
    PROVE  GateInv'
<1> USE CallsAssumption, DirectAssumption, NoneAssumption DEF GateInv, Publish, Goto, Calls
<1>1. GateTypeOK'
  BY DEF GateTypeOK, Resolution, Values, Inside, InsideOf, PendingUntold, AtHome
<1>2. Stays
  BY DEF GateTypeOK, Stays, NewUntold, PendingUntold, Inside
<1>3. PendingUntold' /\ NewUntold'
  BY DEF GateTypeOK, PendingUntold, NewUntold, SentIsTold, BoxIsTold, Resolution, Values, Inside
<1>4. ToldOnce'
  BY DEF GateTypeOK, ToldOnce, Values
<1>5. SentIsTold'
  BY DEF GateTypeOK, PendingUntold, SentIsTold, BoxIsTold, Resolution, Values
<1>6. BoxIsTold'
  BY DEF GateTypeOK, PendingUntold, SentIsTold, BoxIsTold, Resolution, Values
<1>7. AtHome' /\ LeavingEnded'
  BY DEF GateTypeOK, AtHome, LeavingEnded, Inside
<1>8. WaitingHeld'
  BY DEF GateTypeOK, WaitingHeld, PendingUntold, SentIsTold, BoxIsTold, Resolution, Values, Inside
<1>9. GrantsDecided'
  BY <1>2, NoNewGrant
<1>10. LeftReason'
  <2>1. \A c \in Calls : callPc'[c] = "left" => callPc[c] = "left" \/ LeftFor(c)'
    BY DEF GateTypeOK, LeftFor, BoxIsTold, LeavingEnded, Values, Inside
  <2> QED BY <1>2, <2>1, LeftStays
<1>11. ClearedEmpty'
  BY DEF GateTypeOK, ClearedEmpty, Inside, InsideOf, PendingUntold, NewUntold, AtHome
<1> QED BY <1>1, <1>3, <1>4, <1>5, <1>6, <1>7, <1>8, <1>9, <1>10, <1>11

\* The resolution arrives.
LEMMA ReceiveInv ==
    ASSUME GateInv, NEW a \in Calls, Receive(a)
    PROVE  GateInv'
<1> USE CallsAssumption, DirectAssumption, NoneAssumption DEF GateInv, Receive, Return, Goto, Calls
<1>1. GateTypeOK'
  BY DEF GateTypeOK, Resolution, Values, Inside, InsideOf, PendingUntold, AtHome
<1>2. Stays
  BY DEF GateTypeOK, Stays, NewUntold, PendingUntold, Inside
<1>3. PendingUntold' /\ NewUntold'
  <2>1. a \notin pending
    <3>1. told[a] = <<box[a]>> /\ <<box[a]>> # <<>>
      BY DEF BoxIsTold
    <3> QED BY <3>1 DEF PendingUntold
  <2> QED BY <2>1 DEF GateTypeOK, PendingUntold, NewUntold
<1>4. ToldOnce'
  BY DEF GateTypeOK, ToldOnce, Values
<1>5. SentIsTold'
  BY DEF GateTypeOK, PendingUntold, SentIsTold, BoxIsTold, Resolution, Values
<1>6. BoxIsTold'
  BY DEF GateTypeOK, PendingUntold, SentIsTold, BoxIsTold, Resolution, Values
<1>7. AtHome' /\ LeavingEnded'
  BY DEF GateTypeOK, AtHome, LeavingEnded, Inside
<1>8. WaitingHeld'
  BY DEF GateTypeOK, WaitingHeld, PendingUntold, SentIsTold, BoxIsTold, Resolution, Values, Inside
<1>9. GrantsDecided'
  BY <1>2, NoNewGrant
<1>10. LeftReason'
  <2>1. \A c \in Calls : callPc'[c] = "left" => callPc[c] = "left" \/ LeftFor(c)'
    BY DEF GateTypeOK, LeftFor, BoxIsTold, LeavingEnded, Values, Inside
  <2> QED BY <1>2, <2>1, LeftStays
<1>11. ClearedEmpty'
  BY DEF GateTypeOK, ClearedEmpty, Inside, InsideOf, PendingUntold, NewUntold, AtHome
<1> QED BY <1>1, <1>3, <1>4, <1>5, <1>6, <1>7, <1>8, <1>9, <1>10, <1>11

\* The context of a call has ended.
LEMMA LeaveInv ==
    ASSUME GateInv, NEW a \in Calls, Leave(a)
    PROVE  GateInv'
<1> USE CallsAssumption, DirectAssumption, NoneAssumption DEF GateInv, Leave, Goto, Calls
<1>1. GateTypeOK'
  BY DEF GateTypeOK, Resolution, Values, Inside, InsideOf, PendingUntold, AtHome
<1>2. Stays
  BY DEF GateTypeOK, Stays, NewUntold, PendingUntold, Inside
<1>3. PendingUntold' /\ NewUntold'
  BY DEF GateTypeOK, PendingUntold, NewUntold, SentIsTold, BoxIsTold, Resolution, Values, Inside
<1>4. ToldOnce'
  BY DEF GateTypeOK, ToldOnce, Values
<1>5. SentIsTold'
  BY DEF GateTypeOK, PendingUntold, SentIsTold, BoxIsTold, Resolution, Values
<1>6. BoxIsTold'
  BY DEF GateTypeOK, PendingUntold, SentIsTold, BoxIsTold, Resolution, Values
<1>7. AtHome' /\ LeavingEnded'
  BY DEF GateTypeOK, AtHome, LeavingEnded, Inside
<1>8. WaitingHeld'
  BY DEF GateTypeOK, WaitingHeld, PendingUntold, SentIsTold, BoxIsTold, Resolution, Values, Inside
<1>9. GrantsDecided'
  BY <1>2, NoNewGrant
<1>10. LeftReason'
  <2>1. \A c \in Calls : callPc'[c] = "left" => callPc[c] = "left" \/ LeftFor(c)'
    BY DEF GateTypeOK, LeftFor, BoxIsTold, LeavingEnded, Values, Inside
  <2> QED BY <1>2, <2>1, LeftStays
<1>11. ClearedEmpty'
  BY DEF GateTypeOK, ClearedEmpty, Inside, InsideOf, PendingUntold, NewUntold, AtHome
<1> QED BY <1>1, <1>3, <1>4, <1>5, <1>6, <1>7, <1>8, <1>9, <1>10, <1>11

\* A call gives up.
LEMMA GiveUpInv ==
    ASSUME GateInv, NEW a \in Calls, GiveUp(a)
    PROVE  GateInv'
<1> USE CallsAssumption, DirectAssumption, NoneAssumption DEF GateInv, GiveUp, Return, Goto, Calls
<1>1. GateTypeOK'
  BY DEF GateTypeOK, Resolution, Values, Inside, InsideOf, PendingUntold, AtHome
<1>2. Stays
  BY DEF GateTypeOK, Stays, NewUntold, PendingUntold, Inside
<1>3. PendingUntold' /\ NewUntold'
  BY DEF GateTypeOK, PendingUntold, NewUntold, SentIsTold, BoxIsTold, Resolution, Values, Inside
<1>4. ToldOnce'
  BY DEF GateTypeOK, ToldOnce, Values
<1>5. SentIsTold'
  BY DEF GateTypeOK, PendingUntold, SentIsTold, BoxIsTold, Resolution, Values
<1>6. BoxIsTold'
  BY DEF GateTypeOK, PendingUntold, SentIsTold, BoxIsTold, Resolution, Values
<1>7. AtHome' /\ LeavingEnded'
  BY DEF GateTypeOK, AtHome, LeavingEnded, Inside
<1>8. WaitingHeld'
  BY DEF GateTypeOK, WaitingHeld, PendingUntold, SentIsTold, BoxIsTold, Resolution, Values, Inside
<1>9. GrantsDecided'
  BY <1>2, NoNewGrant
<1>10. LeftReason'
  <2>1. \A c \in Calls : callPc'[c] = "left" => callPc[c] = "left" \/ LeftFor(c)'
    BY DEF GateTypeOK, LeftFor, BoxIsTold, LeavingEnded, Values, Inside
  <2> QED BY <1>2, <2>1, LeftStays
<1>11. ClearedEmpty'
  BY DEF GateTypeOK, ClearedEmpty, Inside, InsideOf, PendingUntold, NewUntold, AtHome
<1> QED BY <1>1, <1>3, <1>4, <1>5, <1>6, <1>7, <1>8, <1>9, <1>10, <1>11

\* A stop ends the context of a call.
LEMMA EndContextInv ==
    ASSUME GateInv, NEW a \in Calls, EndContext(a)
    PROVE  GateInv'
<1> USE CallsAssumption, DirectAssumption, NoneAssumption DEF GateInv, EndContext, Calls
<1>1. GateTypeOK'
  BY DEF GateTypeOK, Resolution, Values, Inside, InsideOf, PendingUntold, AtHome
<1>2. Stays
  BY DEF GateTypeOK, Stays, NewUntold, PendingUntold, Inside
<1>3. PendingUntold' /\ NewUntold'
  BY DEF GateTypeOK, PendingUntold, NewUntold, SentIsTold, BoxIsTold, Resolution, Values, Inside
<1>4. ToldOnce'
  BY DEF GateTypeOK, ToldOnce, Values
<1>5. SentIsTold'
  BY DEF GateTypeOK, PendingUntold, SentIsTold, BoxIsTold, Resolution, Values
<1>6. BoxIsTold'
  BY DEF GateTypeOK, PendingUntold, SentIsTold, BoxIsTold, Resolution, Values
<1>7. AtHome' /\ LeavingEnded'
  BY DEF GateTypeOK, AtHome, LeavingEnded, Inside
<1>8. WaitingHeld'
  BY DEF GateTypeOK, WaitingHeld, PendingUntold, SentIsTold, BoxIsTold, Resolution, Values, Inside
<1>9. GrantsDecided'
  BY <1>2, NoNewGrant
<1>10. LeftReason'
  <2>1. \A c \in Calls : callPc'[c] = "left" => callPc[c] = "left" \/ LeftFor(c)'
    BY DEF GateTypeOK, LeftFor, BoxIsTold, LeavingEnded, Values, Inside
  <2> QED BY <1>2, <2>1, LeftStays
<1>11. ClearedEmpty'
  BY DEF GateTypeOK, ClearedEmpty, Inside, InsideOf, PendingUntold, NewUntold, AtHome
<1> QED BY <1>1, <1>3, <1>4, <1>5, <1>6, <1>7, <1>8, <1>9, <1>10, <1>11

\* A client answers or cancels a question.
LEMMA QuestionInv ==
    ASSUME GateInv, NEW q \in Questions, NEW v \in {"answered", "cancelled"}, ResolveQuestion(q, v)
    PROVE  GateInv'
<1> USE CallsAssumption, DirectAssumption, NoneAssumption DEF GateInv, ResolveQuestion, Calls
<1> DEFINE calls == {q}
<1>a. calls \in SUBSET pending /\ v \in Values /\ Take(calls, v)
  BY DEF Values
<1>b. callPc' = callPc /\ box' = box /\ ended' = ended
  OBVIOUS
<1>0. /\ told' \in [Calls -> Seq(Values)] /\ sending' \subseteq Resolution
      /\ \A c \in Calls : told'[c] = IF c \in calls THEN <<v>> ELSE told[c]
      /\ pending' = pending \ calls /\ calls \subseteq pending
  <2> HIDE DEF calls, GateInv, ResolveQuestion, Calls
  <2> QED BY <1>a, TakeFacts
<1>c. PendingUntold' /\ NewUntold' /\ ToldOnce' /\ SentIsTold' /\ BoxIsTold' /\ WaitingHeld'
  <2> HIDE DEF calls, GateInv, ResolveQuestion, Calls
  <2> QED BY <1>a, <1>b, TakeKeeps
<1>1. GateTypeOK'
  <2>1. pending' \subseteq Calls /\ grants' \subseteq Sessions \X Keys
    BY <1>0 DEF GateTypeOK, PendingUntold, AtHome
  <2>2. deletion' \in [Sessions -> {"no", "stopping", "cleared", "gone"}]
    BY DEF GateTypeOK
  <2> QED BY <1>0, <2>1, <2>2 DEF GateTypeOK
<1>2. Stays
  BY <1>0 DEF GateTypeOK, Stays, NewUntold, PendingUntold, Inside
<1>7. AtHome' /\ LeavingEnded'
  BY <1>0 DEF GateTypeOK, AtHome, LeavingEnded, Inside
<1>9. GrantsDecided'
  BY <1>2, NoNewGrant
<1>10. LeftReason'
  <2>1. \A c \in Calls : callPc'[c] = "left" => callPc[c] = "left" \/ LeftFor(c)'
    BY <1>0 DEF GateTypeOK, LeftFor, BoxIsTold, LeavingEnded, Values, Inside
  <2> QED BY <1>2, <2>1, LeftStays
<1>11. ClearedEmpty'
  BY <1>0 DEF GateTypeOK, ClearedEmpty, Inside, InsideOf, PendingUntold, NewUntold, AtHome
<1> QED BY <1>1, <1>c, <1>7, <1>9, <1>10, <1>11

\* A client decides an approval.
LEMMA ResolveInv ==
    ASSUME GateInv, NEW a \in Approvals, NEW d \in {"approved", "for_session", "denied"}, Resolve(a, d)
    PROVE  GateInv'
<1> USE CallsAssumption, DirectAssumption, NoneAssumption DEF GateInv, Resolve, Calls
<1> DEFINE calls == {a}
<1>a. calls \in SUBSET pending /\ d \in Values /\ Take(calls, d)
  BY DEF Values
<1>b. callPc' = callPc /\ box' = box /\ ended' = ended
  OBVIOUS
<1>0. /\ told' \in [Calls -> Seq(Values)] /\ sending' \subseteq Resolution
      /\ \A c \in Calls : told'[c] = IF c \in calls THEN <<d>> ELSE told[c]
      /\ pending' = pending \ calls /\ calls \subseteq pending
  <2> HIDE DEF calls, GateInv, Resolve, Calls
  <2> QED BY <1>a, TakeFacts
<1>c. PendingUntold' /\ NewUntold' /\ ToldOnce' /\ SentIsTold' /\ BoxIsTold' /\ WaitingHeld'
  <2> HIDE DEF calls, GateInv, Resolve, Calls
  <2> QED BY <1>a, <1>b, TakeKeeps
<1>1. GateTypeOK'
  <2>0. pending' \subseteq Calls
    BY <1>0 DEF GateTypeOK
  <2>1. grants' \subseteq Sessions \X Keys
    <3>1. a \in Calls /\ grants \subseteq Sessions \X Keys
      BY DEF GateTypeOK
    <3>2. home[a] \in Sessions /\ key[a] \in Keys
      BY <3>1 DEF GateTypeOK, PendingUntold, AtHome
    <3>3. CASE d = "for_session"
      BY <3>1, <3>2, <3>3
    <3>4. CASE d # "for_session"
      BY <3>1, <3>4
    <3> QED BY <3>3, <3>4
  <2>2. deletion' \in [Sessions -> {"no", "stopping", "cleared", "gone"}]
    BY DEF GateTypeOK
  <2> QED BY <1>0, <2>1, <2>2 DEF GateTypeOK
<1>2. Stays
  BY <1>0 DEF GateTypeOK, Stays, NewUntold, PendingUntold, Inside
<1>7. AtHome' /\ LeavingEnded'
  BY <1>0 DEF GateTypeOK, AtHome, LeavingEnded, Inside
<1>9. GrantsDecided'
  <2> SUFFICES ASSUME NEW s \in Sessions, NEW k \in Keys, <<s, k>> \in grants'
               PROVE  Granted(s, k)'
    BY DEF GrantsDecided
  <2>1. CASE <<s, k>> \in grants
    BY <1>2, <2>1, GrantedStays DEF GrantsDecided
  <2>2. CASE <<s, k>> = <<home[a], key[a]>> /\ d = "for_session"
    BY <1>0, <2>2 DEF Granted
  <2> QED BY <2>1, <2>2
<1>10. LeftReason'
  <2>1. \A c \in Calls : callPc'[c] = "left" => callPc[c] = "left" \/ LeftFor(c)'
    BY <1>0 DEF GateTypeOK, LeftFor, BoxIsTold, LeavingEnded, Values, Inside
  <2> QED BY <1>2, <2>1, LeftStays
<1>11. ClearedEmpty'
  BY <1>0 DEF GateTypeOK, ClearedEmpty, Inside, InsideOf, PendingUntold, NewUntold, AtHome
<1> QED BY <1>1, <1>c, <1>7, <1>9, <1>10, <1>11

\* A resolution enters the channel.
LEMMA SendInv ==
    ASSUME GateInv, NEW m \in Resolution, Send(m)
    PROVE  GateInv'
<1> USE CallsAssumption, DirectAssumption, NoneAssumption DEF GateInv, Send, Calls
<1>1. GateTypeOK'
  BY DEF GateTypeOK, Resolution, Values, Inside, InsideOf, PendingUntold, AtHome
<1>2. Stays
  BY DEF GateTypeOK, Stays, NewUntold, PendingUntold, Inside
<1>3. PendingUntold' /\ NewUntold'
  BY DEF GateTypeOK, PendingUntold, NewUntold, SentIsTold, BoxIsTold, Resolution, Values, Inside
<1>4. ToldOnce'
  BY DEF GateTypeOK, ToldOnce, Values
<1>5. SentIsTold'
  BY DEF GateTypeOK, PendingUntold, SentIsTold, BoxIsTold, Resolution, Values
<1>6. BoxIsTold'
  BY DEF GateTypeOK, PendingUntold, SentIsTold, BoxIsTold, Resolution, Values
<1>7. AtHome' /\ LeavingEnded'
  BY DEF GateTypeOK, AtHome, LeavingEnded, Inside
<1>8. WaitingHeld'
  BY DEF GateTypeOK, WaitingHeld, PendingUntold, SentIsTold, BoxIsTold, Resolution, Values, Inside
<1>9. GrantsDecided'
  BY <1>2, NoNewGrant
<1>10. LeftReason'
  <2>1. \A c \in Calls : callPc'[c] = "left" => callPc[c] = "left" \/ LeftFor(c)'
    BY DEF GateTypeOK, LeftFor, BoxIsTold, LeavingEnded, Values, Inside
  <2> QED BY <1>2, <2>1, LeftStays
<1>11. ClearedEmpty'
  BY DEF GateTypeOK, ClearedEmpty, Inside, InsideOf, PendingUntold, NewUntold, AtHome
<1> QED BY <1>1, <1>3, <1>4, <1>5, <1>6, <1>7, <1>8, <1>9, <1>10, <1>11

\* A deletion begins.
LEMMA StopSessionInv ==
    ASSUME GateInv, NEW s \in Sessions, StopSession(s)
    PROVE  GateInv'
<1> USE CallsAssumption, DirectAssumption, NoneAssumption DEF GateInv, StopSession, Calls
<1>1. GateTypeOK'
  BY DEF GateTypeOK, Resolution, Values, Inside, InsideOf, PendingUntold, AtHome
<1>2. Stays
  BY DEF GateTypeOK, Stays, NewUntold, PendingUntold, Inside
<1>3. PendingUntold' /\ NewUntold'
  BY DEF GateTypeOK, PendingUntold, NewUntold, SentIsTold, BoxIsTold, Resolution, Values, Inside
<1>4. ToldOnce'
  BY DEF GateTypeOK, ToldOnce, Values
<1>5. SentIsTold'
  BY DEF GateTypeOK, PendingUntold, SentIsTold, BoxIsTold, Resolution, Values
<1>6. BoxIsTold'
  BY DEF GateTypeOK, PendingUntold, SentIsTold, BoxIsTold, Resolution, Values
<1>7. AtHome' /\ LeavingEnded'
  BY DEF GateTypeOK, AtHome, LeavingEnded, Inside
<1>8. WaitingHeld'
  BY DEF GateTypeOK, WaitingHeld, PendingUntold, SentIsTold, BoxIsTold, Resolution, Values, Inside
<1>9. GrantsDecided'
  BY <1>2, NoNewGrant
<1>10. LeftReason'
  <2>1. \A c \in Calls : callPc'[c] = "left" => callPc[c] = "left" \/ LeftFor(c)'
    BY DEF GateTypeOK, LeftFor, BoxIsTold, LeavingEnded, Values, Inside
  <2> QED BY <1>2, <2>1, LeftStays
<1>11. ClearedEmpty'
  BY DEF GateTypeOK, ClearedEmpty, Inside, InsideOf, PendingUntold, NewUntold, AtHome
<1> QED BY <1>1, <1>3, <1>4, <1>5, <1>6, <1>7, <1>8, <1>9, <1>10, <1>11

\* A deletion clears the grants.
LEMMA ClearApprovalsInv ==
    ASSUME GateInv, NEW s \in Sessions, ClearApprovals(s)
    PROVE  GateInv'
<1> USE CallsAssumption, DirectAssumption, NoneAssumption DEF GateInv, ClearApprovals, Calls
<1>1. GateTypeOK'
  BY DEF GateTypeOK, Resolution, Values, Inside, InsideOf, PendingUntold, AtHome
<1>2. Stays
  BY DEF GateTypeOK, Stays, NewUntold, PendingUntold, Inside
<1>3. PendingUntold' /\ NewUntold'
  BY DEF GateTypeOK, PendingUntold, NewUntold, SentIsTold, BoxIsTold, Resolution, Values, Inside
<1>4. ToldOnce'
  BY DEF GateTypeOK, ToldOnce, Values
<1>5. SentIsTold'
  BY DEF GateTypeOK, PendingUntold, SentIsTold, BoxIsTold, Resolution, Values
<1>6. BoxIsTold'
  BY DEF GateTypeOK, PendingUntold, SentIsTold, BoxIsTold, Resolution, Values
<1>7. AtHome' /\ LeavingEnded'
  BY DEF GateTypeOK, AtHome, LeavingEnded, Inside
<1>8. WaitingHeld'
  BY DEF GateTypeOK, WaitingHeld, PendingUntold, SentIsTold, BoxIsTold, Resolution, Values, Inside
<1>9. GrantsDecided'
  BY <1>2, NoNewGrant
<1>10. LeftReason'
  <2>1. \A c \in Calls : callPc'[c] = "left" => callPc[c] = "left" \/ LeftFor(c)'
    BY DEF GateTypeOK, LeftFor, BoxIsTold, LeavingEnded, Values, Inside
  <2> QED BY <1>2, <2>1, LeftStays
<1>11. ClearedEmpty'
  BY DEF GateTypeOK, ClearedEmpty, Inside, InsideOf, PendingUntold, NewUntold, AtHome
<1> QED BY <1>1, <1>3, <1>4, <1>5, <1>6, <1>7, <1>8, <1>9, <1>10, <1>11

\* A deletion cancels the questions.
LEMMA ClearQuestionsInv ==
    ASSUME GateInv, NEW s \in Sessions, ClearQuestions(s)
    PROVE  GateInv'
<1> USE CallsAssumption, DirectAssumption, NoneAssumption DEF GateInv, ClearQuestions, Calls
<1> DEFINE calls == {q \in pending \cap Questions : home[q] = s}
<1>a. calls \in SUBSET pending /\ "cancelled" \in Values /\ Take(calls, "cancelled")
  BY DEF Values
<1>b. callPc' = callPc /\ box' = box /\ ended' = ended
  OBVIOUS
<1>0. /\ told' \in [Calls -> Seq(Values)] /\ sending' \subseteq Resolution
      /\ \A c \in Calls : told'[c] = IF c \in calls THEN <<"cancelled">> ELSE told[c]
      /\ pending' = pending \ calls /\ calls \subseteq pending
  <2> HIDE DEF calls, GateInv, ClearQuestions, Calls
  <2> QED BY <1>a, TakeFacts
<1>c. PendingUntold' /\ NewUntold' /\ ToldOnce' /\ SentIsTold' /\ BoxIsTold' /\ WaitingHeld'
  <2> HIDE DEF calls, GateInv, ClearQuestions, Calls
  <2> QED BY <1>a, <1>b, TakeKeeps
<1>1. GateTypeOK'
  <2>1. pending' \subseteq Calls /\ grants' \subseteq Sessions \X Keys
    BY <1>0 DEF GateTypeOK, PendingUntold, AtHome
  <2>2. deletion' \in [Sessions -> {"no", "stopping", "cleared", "gone"}]
    BY DEF GateTypeOK
  <2> QED BY <1>0, <2>1, <2>2 DEF GateTypeOK
<1>2. Stays
  BY <1>0 DEF GateTypeOK, Stays, NewUntold, PendingUntold, Inside
<1>7. AtHome' /\ LeavingEnded'
  BY <1>0 DEF GateTypeOK, AtHome, LeavingEnded, Inside
<1>9. GrantsDecided'
  BY <1>2, NoNewGrant
<1>10. LeftReason'
  <2>1. \A c \in Calls : callPc'[c] = "left" => callPc[c] = "left" \/ LeftFor(c)'
    BY <1>0 DEF GateTypeOK, LeftFor, BoxIsTold, LeavingEnded, Values, Inside
  <2> QED BY <1>2, <2>1, LeftStays
<1>11. ClearedEmpty'
  BY <1>0 DEF GateTypeOK, ClearedEmpty, Inside, InsideOf, PendingUntold, NewUntold, AtHome
<1> QED BY <1>1, <1>c, <1>7, <1>9, <1>10, <1>11

\* The kernel restarts.
LEMMA RestartInv ==
    ASSUME GateInv, Restart
    PROVE  GateInv'
<1> USE CallsAssumption, DirectAssumption, NoneAssumption DEF GateInv, Restart, Calls
<1>1. GateTypeOK'
  BY DEF GateTypeOK, Resolution, Values, Inside, InsideOf, PendingUntold, AtHome
<1>2. Stays
  BY DEF GateTypeOK, Stays, NewUntold, PendingUntold, Inside
<1>3. PendingUntold' /\ NewUntold'
  BY DEF GateTypeOK, PendingUntold, NewUntold, SentIsTold, BoxIsTold, Resolution, Values, Inside
<1>4. ToldOnce'
  BY DEF GateTypeOK, ToldOnce, Values
<1>5. SentIsTold'
  BY DEF GateTypeOK, PendingUntold, SentIsTold, BoxIsTold, Resolution, Values
<1>6. BoxIsTold'
  BY DEF GateTypeOK, PendingUntold, SentIsTold, BoxIsTold, Resolution, Values
<1>7. AtHome' /\ LeavingEnded'
  BY DEF GateTypeOK, AtHome, LeavingEnded, Inside
<1>8. WaitingHeld'
  BY DEF GateTypeOK, WaitingHeld, PendingUntold, SentIsTold, BoxIsTold, Resolution, Values, Inside
<1>9. GrantsDecided'
  BY <1>2, NoNewGrant
<1>10. LeftReason'
  <2>1. \A c \in Calls : callPc'[c] = "left" => callPc[c] = "left" \/ LeftFor(c)'
    BY DEF GateTypeOK, LeftFor, BoxIsTold, LeavingEnded, Values, Inside
  <2> QED BY <1>2, <2>1, LeftStays
<1>11. ClearedEmpty'
  BY DEF GateTypeOK, ClearedEmpty, Inside, InsideOf, PendingUntold, NewUntold, AtHome
<1> QED BY <1>1, <1>3, <1>4, <1>5, <1>6, <1>7, <1>8, <1>9, <1>10, <1>11

-----------------------------------------------------------------------------
(***************************************************************************)
(* The theorems.                                                           *)
(***************************************************************************)

\* Every behaviour keeps the invariant.
LEMMA InvAlways == GateSpec => []GateInv
<1>1. GateInv /\ [GateStep \/ Restart]_gateVars => GateInv'
  <2> SUFFICES ASSUME GateInv, [GateStep \/ Restart]_gateVars PROVE GateInv'
    OBVIOUS
  <2>1. ASSUME NEW q \in Questions, NEW s \in Sessions, Ask(q, s) PROVE GateInv'
    BY <2>1, AskInv
  <2>2. ASSUME NEW a \in Approvals, NEW s \in Sessions, NEW k \in Keys,
               Request(a, s, k) \/ RequestAllowed(a, s, k)
        PROVE  GateInv'
    BY <2>2, RequestInv, RequestAllowedInv
  <2>3. ASSUME NEW c \in Calls,
               Review(c) \/ Publish(c) \/ Receive(c) \/ Leave(c) \/ GiveUp(c) \/ EndContext(c)
        PROVE  GateInv'
    BY <2>3, ReviewInv, PublishInv, ReceiveInv, LeaveInv, GiveUpInv, EndContextInv
  <2>4. ASSUME NEW q \in Questions, NEW v \in {"answered", "cancelled"}, ResolveQuestion(q, v)
        PROVE  GateInv'
    BY <2>4, QuestionInv
  <2>5. ASSUME NEW a \in Approvals, NEW d \in {"approved", "for_session", "denied"}, Resolve(a, d)
        PROVE  GateInv'
    BY <2>5, ResolveInv
  <2>6. ASSUME NEW r \in Resolution, Send(r) PROVE GateInv'
    BY <2>6, SendInv
  <2>7. ASSUME NEW s \in Sessions, StopSession(s) \/ ClearApprovals(s) \/ ClearQuestions(s)
        PROVE  GateInv'
    BY <2>7, StopSessionInv, ClearApprovalsInv, ClearQuestionsInv
  <2>8. CASE Restart
    BY <2>8, RestartInv
  <2>9. CASE UNCHANGED gateVars
    <3>1. /\ callPc' = callPc /\ home' = home /\ key' = key /\ ended' = ended /\ pending' = pending
          /\ box' = box /\ result' = result /\ sending' = sending /\ grants' = grants
          /\ deletion' = deletion /\ told' = told /\ late' = late
      BY <2>9 DEF gateVars
    <3>2. GateTypeOK'
      BY <3>1 DEF GateInv, GateTypeOK
    <3>3. PendingUntold' /\ NewUntold' /\ ToldOnce' /\ SentIsTold' /\ BoxIsTold' /\ AtHome'
      BY <3>1 DEF GateInv, PendingUntold, NewUntold, ToldOnce, SentIsTold, BoxIsTold, AtHome
    <3>4. LeavingEnded' /\ WaitingHeld' /\ ClearedEmpty'
      BY <3>1 DEF GateInv, LeavingEnded, WaitingHeld, ClearedEmpty
    <3>5. Stays
      BY <3>1 DEF Stays
    <3>6. GrantsDecided'
      BY <3>1, <3>5, NoNewGrant
    <3>7. LeftReason'
      BY <3>1, <3>5, LeftStays
    <3> QED BY <3>2, <3>3, <3>4, <3>6, <3>7 DEF GateInv
  <2> QED BY <2>1, <2>2, <2>3, <2>4, <2>5, <2>6, <2>7, <2>8, <2>9 DEF GateStep
<1> QED BY <1>1, InvInit, PTL DEF GateSpec

\* question.go:106 and approval.go:293: of all answers, decisions, stops and deletions that
\* race for a call at most one counts, and the call returns that one.
THEOREM FirstDecisionAlways == GateSpec => []FirstDecisionStands
BY InvAlways, InvImplies, PTL

\* A call that waits can be released at any time, and releasing it never blocks.
THEOREM NobodyWaitsAlways == GateSpec => []NobodyWaitsInVain
BY InvAlways, InvImplies, PTL

\* approval.go:313: no grant outlives its session, unless a call outlived the grace of the deletion.
THEOREM GrantsEndAlways == GateSpec => []GrantsEndWithSession
BY InvAlways, InvImplies, PTL

-----------------------------------------------------------------------------
(***************************************************************************)
(* The automation manager.                                                 *)
(***************************************************************************)

Marks == {"none", "gone", "idle", "running", "failed", "completed", "cancelled"}
Places == {"none", "create", "subscribe", "submit", "watch", "done"}

ActiveRuns(t) == {r \in Runs : of[r] = t /\ Active(r)}

\* RunningIsReal for one task.
Real(t) ==
    /\ ActiveRuns(t) = RunOf(t)
    /\ status[t] = "running" => running[t] # None \/ t \in inherited
    /\ running[t] # None => status[t] = "running"

\* A task that was never created has no run, so that Create may say it is idle.
TaskInv ==
    /\ status \in [Tasks -> Marks] /\ running \in [Tasks -> Runs \cup {None}]
    /\ of \in [Runs -> Tasks \cup {None}] /\ step \in [Runs -> Places]
    /\ closing \in BOOLEAN
    /\ \A r \in Runs : step[r] # "none" => of[r] \in Tasks
    /\ \A t \in Tasks : status[t] = "none" => running[t] = None /\ ActiveRuns(t) = {}
    /\ \A t \in Tasks : There(t) /\ ~closing => Real(t)

LEMMA TaskInit == Init => TaskInv
  BY DEF Init, TaskInv, Marks, Places, ActiveRuns, Active, There

\* A step that neither ends nor begins a run.
LEMMA TaskFrame ==
  ASSUME TaskInv, UNCHANGED <<manager, of, closing, inherited>>,
         step' \in [Runs -> Places],
         \A r \in Runs : (step'[r] = "none" <=> step[r] = "none") /\ (Active(r)' <=> Active(r))
  PROVE  TaskInv'
<1>1. \A t \in Tasks : ActiveRuns(t)' = ActiveRuns(t)  BY DEF ActiveRuns
<1>2. \A t \in Tasks : (There(t)' <=> There(t)) /\ RunOf(t)' = RunOf(t)
  BY DEF manager, There, RunOf
<1> QED  BY <1>1, <1>2 DEF manager, TaskInv, Real

LEMMA TaskUnchanged ==
  ASSUME TaskInv, UNCHANGED <<manager, of, step, closing, inherited>>
  PROVE  TaskInv'
  BY TaskFrame DEF TaskInv, Active

LEMMA TaskFinish ==
  ASSUME TaskInv, NEW r \in Runs, Active(r), NEW verdict \in {"failed", "cancelled", "completed"},
         Finish(r, verdict), UNCHANGED <<of, closing, inherited>>
  PROVE  TaskInv'
<1> DEFINE k == of[r]
<1>1. k \in Tasks /\ step' \in [Runs -> Places] /\ step'[r] = "done"
      /\ (\A p \in Runs : p # r => step'[p] = step[p]) /\ status[k] # "none"
  BY DEF TaskInv, Active, Finish, Places, ActiveRuns
<1>2. ~Active(r)' /\ \A p \in Runs : p # r => (Active(p)' <=> Active(p))
  BY <1>1 DEF Active
<1>3. /\ ActiveRuns(k)' = ActiveRuns(k) \ {r}
      /\ \A t \in Tasks : t # k => ActiveRuns(t)' = ActiveRuns(t)
  BY <1>2 DEF ActiveRuns
<1>4. CASE There(k)
  <2>1. /\ running' = [running EXCEPT ![k] = None] /\ status' = [status EXCEPT ![k] = verdict]
    BY <1>4 DEF Finish
  <2>2. /\ running' \in [Tasks -> Runs \cup {None}] /\ status' \in [Tasks -> Marks]
        /\ running'[k] = None /\ status'[k] = verdict
        /\ \A t \in Tasks : t # k => running'[t] = running[t] /\ status'[t] = status[t]
    BY <1>1, <2>1 DEF TaskInv, Marks
  <2>3. ASSUME NEW t \in Tasks, There(t)', ~closing' PROVE Real(t)'
    <3>1. CASE t = k
      <4>1. ActiveRuns(k) = RunOf(k) /\ r \in ActiveRuns(k)
        BY <1>1, <1>4, <2>3 DEF TaskInv, Real, ActiveRuns
      <4>2. ActiveRuns(k)' = {}  BY <1>3, <4>1 DEF RunOf
      <4> QED  BY <2>2, <3>1, <4>2 DEF Real, RunOf
    <3>2. CASE t # k
      <4>1. There(t) /\ Real(t)  BY <2>2, <2>3, <3>2 DEF TaskInv, There
      <4> QED  BY <1>3, <2>2, <3>2, <4>1 DEF Real, RunOf
    <3> QED  BY <3>1, <3>2
  <2>4. ASSUME NEW t \in Tasks, status'[t] = "none"
        PROVE  running'[t] = None /\ ActiveRuns(t)' = {}
    BY <1>3, <2>2, <2>4 DEF TaskInv
  <2> QED  BY <1>1, <2>2, <2>3, <2>4 DEF TaskInv
<1>5. CASE ~There(k)
  <2>1. UNCHANGED <<running, status>>  BY <1>5 DEF Finish, manager
  <2>2. ASSUME NEW t \in Tasks, There(t)', ~closing' PROVE Real(t)'
    <3>1. t # k /\ There(t)  BY <1>5, <2>1, <2>2 DEF There
    <3> QED  BY <1>3, <2>1, <2>2, <3>1 DEF TaskInv, Real, RunOf
  <2>3. ASSUME NEW t \in Tasks, status'[t] = "none"
        PROVE  running'[t] = None /\ ActiveRuns(t)' = {}
    BY <1>1, <1>3, <2>1, <2>3 DEF TaskInv
  <2> QED  BY <1>1, <2>1, <2>2, <2>3 DEF TaskInv
<1> QED  BY <1>4, <1>5

LEMMA TaskTrigger ==
  ASSUME TaskInv, NEW t \in Tasks, NEW r \in Runs, Trigger(t, r)
  PROVE  TaskInv'
<1>1. /\ ~closing /\ There(t) /\ running[t] = None /\ step[r] = "none"
      /\ running' = [running EXCEPT ![t] = r] /\ status' = [status EXCEPT ![t] = "running"]
      /\ of' = [of EXCEPT ![r] = t] /\ step' = [step EXCEPT ![r] = "create"]
      /\ inherited' = inherited \ {t} /\ UNCHANGED closing
  BY DEF Trigger
<1>2. /\ running' \in [Tasks -> Runs \cup {None}] /\ status' \in [Tasks -> Marks]
      /\ of' \in [Runs -> Tasks \cup {None}] /\ step' \in [Runs -> Places]
      /\ running'[t] = r /\ status'[t] = "running" /\ of'[r] = t /\ step'[r] = "create"
      /\ \A k \in Tasks : k # t => running'[k] = running[k] /\ status'[k] = status[k]
      /\ \A p \in Runs : p # r => of'[p] = of[p] /\ step'[p] = step[p]
  BY <1>1 DEF TaskInv, Marks, Places
<1>3. Active(r)' /\ ~Active(r) /\ \A p \in Runs : p # r => (Active(p)' <=> Active(p))
  BY <1>1, <1>2 DEF Active
<1>4. /\ ActiveRuns(t)' = ActiveRuns(t) \cup {r}
      /\ \A k \in Tasks : k # t => ActiveRuns(k)' = ActiveRuns(k)
  BY <1>2, <1>3 DEF ActiveRuns
<1>5. ASSUME NEW k \in Tasks, There(k)' PROVE Real(k)'
  <2>1. CASE k = t
    <3>1. ActiveRuns(t) = {}  BY <1>1 DEF TaskInv, Real, RunOf
    <3>2. r # None  BY NoneAssumption DEF Runs
    <3> QED  BY <1>2, <1>4, <2>1, <3>1, <3>2 DEF Real, RunOf
  <2>2. CASE k # t
    <3>1. There(k) /\ Real(k)  BY <1>1, <1>2, <1>5, <2>2 DEF TaskInv, There
    <3> QED  BY <1>1, <1>2, <1>4, <2>2, <3>1 DEF Real, RunOf
  <2> QED  BY <2>1, <2>2
<1>6. ASSUME NEW k \in Tasks, status'[k] = "none"
      PROVE  running'[k] = None /\ ActiveRuns(k)' = {}
  BY <1>2, <1>4, <1>6 DEF TaskInv
<1>7. \A p \in Runs : step'[p] # "none" => of'[p] \in Tasks  BY <1>2 DEF TaskInv
<1> QED  BY <1>1, <1>2, <1>5, <1>6, <1>7 DEF TaskInv

\* The steps of a run: each ends it, or leads to its next place.
LEMMA TaskRun == ASSUME TaskInv, NEW r \in Runs, RunStep(r) PROVE TaskInv'
<1> USE DEF watcher, broker, session, kernel
<1>1. /\ Active(r) /\ UNCHANGED <<of, closing, inherited>>
      /\ \/ \E verdict \in {"failed", "cancelled", "completed"} : Finish(r, verdict)
         \/ \E place \in {"subscribe", "submit", "watch"} : NextTo(r, place)
         \/ UNCHANGED <<manager, step>>
  <2>1. CASE CreateSession(r) \/ Subscribe(r) \/ Submit(r)
    BY <2>1 DEF CreateSession, Subscribe, Submit, Active
  <2>2. CASE NoticeStop(r)  BY <2>2 DEF NoticeStop, Active
  <2>3. CASE CancelQuestion(r)  BY <2>3 DEF CancelQuestion, Sees, Active
  <2>4. CASE SeeEvent(r)  BY <2>4 DEF SeeEvent, Sees, Active
  <2>5. CASE SeeComplete(r)  BY <2>5 DEF SeeComplete, Sees, Active
  <2> QED  BY <2>1, <2>2, <2>3, <2>4, <2>5 DEF RunStep
<1>2. CASE \E verdict \in {"failed", "cancelled", "completed"} : Finish(r, verdict)
  BY <1>1, <1>2, TaskFinish
<1>3. ASSUME NEW place \in {"subscribe", "submit", "watch"}, NextTo(r, place) PROVE TaskInv'
  <2>1. /\ step' \in [Runs -> Places] /\ step'[r] = place /\ UNCHANGED manager
        /\ \A p \in Runs : p # r => step'[p] = step[p]
    BY <1>3 DEF NextTo, TaskInv, Places
  <2>2. \A p \in Runs : (step'[p] = "none" <=> step[p] = "none") /\ (Active(p)' <=> Active(p))
    BY <1>1, <2>1 DEF Active
  <2> QED  BY <1>1, <2>1, <2>2, TaskFrame
<1>4. CASE UNCHANGED <<manager, step>>  BY <1>1, <1>4, TaskUnchanged
<1> QED  BY <1>1, <1>2, <1>3, <1>4

LEMMA TaskNext == ASSUME TaskInv, [Next]_vars PROVE TaskInv'
<1> USE DEF watcher, broker, session, kernel
<1>1. ASSUME NEW t \in Tasks, Create(t) PROVE TaskInv'
  <2>1. /\ status[t] = "none" /\ status' = [status EXCEPT ![t] = "idle"]
        /\ UNCHANGED <<running, of, step, closing, inherited>>
    BY <1>1 DEF Create
  <2>2. \A k \in Tasks : ActiveRuns(k)' = ActiveRuns(k)  BY <2>1 DEF ActiveRuns, Active
  <2>3. /\ status' \in [Tasks -> Marks] /\ status'[t] = "idle"
        /\ \A k \in Tasks : k # t => status'[k] = status[k]
    BY <2>1 DEF TaskInv, Marks
  <2> QED  BY <2>1, <2>2, <2>3 DEF TaskInv, There, Real, RunOf
<1>2. ASSUME NEW t \in Tasks, Delete(t) PROVE TaskInv'
  <2>1. /\ status' = [status EXCEPT ![t] = "gone"] /\ running' = [running EXCEPT ![t] = None]
        /\ UNCHANGED <<of, step, closing, inherited>>
    BY <1>2 DEF Delete
  <2>2. \A k \in Tasks : ActiveRuns(k)' = ActiveRuns(k)  BY <2>1 DEF ActiveRuns, Active
  <2>3. /\ status' \in [Tasks -> Marks] /\ status'[t] = "gone"
        /\ running' \in [Tasks -> Runs \cup {None}]
        /\ \A k \in Tasks : k # t => status'[k] = status[k] /\ running'[k] = running[k]
    BY <2>1 DEF TaskInv, Marks
  <2> QED  BY <2>1, <2>2, <2>3 DEF TaskInv, There, Real, RunOf
<1>3. ASSUME NEW t \in Tasks, NEW enabled \in BOOLEAN, Update(t, enabled) PROVE TaskInv'
  <2>1. UNCHANGED <<manager, of, step, closing, inherited>>  BY <1>3 DEF Update
  <2> QED  BY <2>1, TaskUnchanged
<1>4. ASSUME NEW r \in Runs, TurnStep(r) \/ CloseStream(r) PROVE TaskInv'
  <2>1. UNCHANGED <<manager, of, step, closing, inherited>>
    BY <1>4 DEF TurnStep, TurnStarts, TurnEnds, CloseStream
  <2> QED  BY <2>1, TaskUnchanged
<1>5. ASSUME \/ \E q \in Questions, r \in Runs : TurnAsks(q, r)
             \/ \E q \in Questions : PublishQuestion(q)
             \/ \E r \in Runs, e \in {"error", "other"} : TurnReports(r, e)
             \/ GatewayStep /\ UNCHANGED autoVars
      PROVE  TaskInv'
  <2>1. UNCHANGED <<manager, of, step, closing, inherited>>
    BY <1>5 DEF TurnAsks, PublishQuestion, TurnReports, autoVars
  <2> QED  BY <2>1, TaskUnchanged
<1>6. CASE Close
  <2>1. /\ closing' = TRUE /\ running' = [t \in Tasks |-> None]
        /\ UNCHANGED <<status, of, step>>
    BY <1>6 DEF Close
  <2>2. \A k \in Tasks : ActiveRuns(k)' = ActiveRuns(k)  BY <2>1 DEF ActiveRuns, Active
  <2> QED  BY <2>1, <2>2 DEF TaskInv
<1>7. CASE Load
  <2>1. /\ closing' = FALSE /\ running' = [t \in Tasks |-> None]
        /\ inherited' = {t \in Tasks : status[t] = "running"}
        /\ step' = [r \in Runs |-> IF step[r] = "none" THEN "none" ELSE "done"]
        /\ UNCHANGED <<status, of>>
    BY <1>7 DEF Load
  <2>2. \A r \in Runs : ~Active(r)'  BY <2>1 DEF Active
  <2>3. \A k \in Tasks : ActiveRuns(k)' = {}  BY <2>2 DEF ActiveRuns
  <2>4. step' \in [Runs -> Places]  BY <2>1 DEF Places
  <2> QED  BY <2>1, <2>3, <2>4 DEF TaskInv, Real, RunOf
<1>8. CASE UNCHANGED vars
  <2>1. UNCHANGED <<manager, of, step, closing, inherited>>  BY <1>8 DEF vars, autoVars
  <2> QED  BY <2>1, TaskUnchanged
<1> QED
  BY <1>1, <1>2, <1>3, <1>4, <1>5, <1>6, <1>7, <1>8, TaskRun, TaskTrigger DEF Next

(***************************************************************************)
(* A task says that it is running exactly while a goroutine watches a run  *)
(* of it, and no two do, however triggers, ends of runs, deletions and     *)
(* restarts follow each other (automation/manager.go).                     *)
(***************************************************************************)
THEOREM AlwaysReal == Spec => []RunningIsReal
<1>1. TaskInv => RunningIsReal
  BY DEF TaskInv, Real, RunOf, ActiveRuns, RunningIsReal
<1> QED  BY TaskInit, TaskNext, <1>1, PTL DEF Spec
=============================================================================
