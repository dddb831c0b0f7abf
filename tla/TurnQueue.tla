------------------------------ MODULE TurnQueue ------------------------------
(***************************************************************************)
(* What the scheduler promises a session, without runners, contexts, locks *)
(* or compaction: one turn at a time, messages start in the order of a     *)
(* queue that only its users reorder, each message is served once, is      *)
(* discarded, or waits, and nothing starts after the session is closed.    *)
(* TurnScheduler implements it (TurnScheduler!Queue).                      *)
(***************************************************************************)
EXTENDS Naturals, Sequences, SequencesExt

CONSTANTS Msgs, None

VARIABLES
    waiting,    \* messages not started, the next one first
    active,     \* the message being served
    served,     \* messages served, in order
    discarded,  \* messages removed by a user or by closing the session
    closed

vars == <<waiting, active, served, discarded, closed>>

Init ==
    waiting = <<>> /\ active = None /\ served = <<>> /\ discarded = {} /\ closed = FALSE

Fresh(m) ==
    /\ ~closed
    /\ m \notin ToSet(waiting) \cup ToSet(served) \cup discarded \cup {active}

\* The queue with the item at position i moved to position j.
Moved(i, j) == InsertAt(RemoveAt(waiting, i), j, waiting[i])

Enqueue(m) ==
    /\ Fresh(m)
    /\ waiting' = Append(waiting, m)
    /\ UNCHANGED <<active, served, discarded, closed>>

Start(m) ==
    /\ Fresh(m)
    /\ active = None /\ waiting = <<>>
    /\ active' = m
    /\ UNCHANGED <<waiting, served, discarded, closed>>

\* A new message wakes an idle session: the oldest one starts, the new one waits.
Resume(m) ==
    /\ Fresh(m)
    /\ active = None /\ waiting # <<>>
    /\ active' = Head(waiting)
    /\ waiting' = Append(Tail(waiting), m)
    /\ UNCHANGED <<served, discarded, closed>>

StartNext ==
    /\ ~closed
    /\ active = None /\ waiting # <<>>
    /\ active' = Head(waiting)
    /\ waiting' = Tail(waiting)
    /\ UNCHANGED <<served, discarded, closed>>

\* The user picks the item to start while nothing runs.
StartChosen(i) ==
    /\ ~closed
    /\ active = None
    /\ active' = waiting[i]
    /\ waiting' = RemoveAt(waiting, i)
    /\ UNCHANGED <<served, discarded, closed>>

Finish ==
    /\ active # None
    /\ served' = Append(served, active)
    /\ active' = None
    /\ UNCHANGED <<waiting, discarded, closed>>

Move(i, j) ==
    /\ ~closed
    /\ waiting' = Moved(i, j)
    /\ UNCHANGED <<active, served, discarded, closed>>

Discard(i) ==
    /\ ~closed
    /\ discarded' = discarded \cup {waiting[i]}
    /\ waiting' = RemoveAt(waiting, i)
    /\ UNCHANGED <<active, served, closed>>

Close ==
    /\ closed' = TRUE
    /\ discarded' = discarded \cup ToSet(waiting)
    /\ waiting' = <<>>
    /\ UNCHANGED <<active, served>>

Next ==
    \/ \E m \in Msgs : Enqueue(m) \/ Start(m) \/ Resume(m)
    \/ StartNext \/ Finish \/ Close
    \/ \E i \in DOMAIN waiting : StartChosen(i) \/ Discard(i)
    \/ \E i, j \in DOMAIN waiting : Move(i, j)

Spec == Init /\ [][Next]_vars
=============================================================================
