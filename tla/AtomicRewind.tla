----------------------------- MODULE AtomicRewind -----------------------------
(***************************************************************************)
(* What rewinds promise a session whose files only its turns change:       *)
(* files, and the history of their changes, move together in one step,     *)
(* without previews, journals, crashes or recovery.  A rewind takes the    *)
(* files back to what the changes it cuts off began with; the review of    *)
(* the changes that are pending undoes or keeps them all.  FileRewind      *)
(* implements it (FileRewindProofs!ImplementsAtomic).                      *)
(***************************************************************************)
EXTENDS Naturals, Sequences, SequencesExt

CONSTANTS Files, Contents

VARIABLES
    files,
    history,   \* changes that were not rewound, oldest first
    seq        \* the number of the last change

vars == <<files, history, seq>>

Init == files \in [Files -> Contents] /\ history = <<>> /\ seq = 0

Change(f, c) ==
    /\ seq' = seq + 1
    /\ history' = Append(history, [seq |-> seq + 1, file |-> f, before |-> files[f], after |-> c,
                                   review |-> "pending"])
    /\ files' = [files EXCEPT ![f] = c]

\* The files before the changes at these positions.
Before(items) ==
    [f \in Files |->
        LET changes == {i \in items : history[i].file = f}
        IN  IF changes = {} THEN files[f] ELSE history[Min(changes)].before]

Rewind(m) ==
    /\ files' = Before({i \in DOMAIN history : m < i})
    /\ history' = SubSeq(history, 1, m)
    /\ UNCHANGED seq

Reviewed(verdict) ==
    [i \in DOMAIN history |->
        [history[i] EXCEPT !.review = IF @ = "pending" THEN verdict ELSE @]]

Undo ==
    /\ files' = Before({i \in DOMAIN history : history[i].review = "pending"})
    /\ history' = Reviewed("undone")
    /\ UNCHANGED seq

Keep == history' = Reviewed("kept") /\ UNCHANGED <<files, seq>>

Next ==
    \/ \E f \in Files, c \in Contents : Change(f, c)
    \/ \E m \in 0..Len(history) : Rewind(m)
    \/ Undo \/ Keep

Spec == Init /\ [][Next]_vars
===============================================================================
