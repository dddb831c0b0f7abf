------------------------------ MODULE FileRewind ------------------------------
(***************************************************************************)
(* Rewinding a session's files together with its history: RewindTurn and   *)
(* UndoFileChanges (internal/kernel), the journal of conversation, and     *)
(* RecoverFileRewinds at the next start.                                   *)
(*                                                                         *)
(* Files are outside the database: a journal is committed first, then each *)
(* file is verified and replaced, then one transaction trims the history   *)
(* and marks the journal, then the journal goes.  Other programs edit the  *)
(* files at any time, writes and transactions fail, the process crashes    *)
(* anywhere, also while it recovers.  Both calls hold turns.mu throughout, *)
(* so there is one at a time, and none beside a turn (TurnScheduler).      *)
(*                                                                         *)
(* A content is a fixed set of lines that are edited in place, and texts   *)
(* of different lines never match: the longest common subsequence that a   *)
(* merge starts from is then the set of lines that are equal, and an edit  *)
(* is a run of lines that differ.  File modes are left out.                *)
(***************************************************************************)
EXTENDS Naturals, Sequences, FiniteSets, SequencesExt

CONSTANTS
    Files,
    Lines,        \* line numbers of a content: 1..n
    Texts,        \* what a line can hold
    Absent,       \* the snapshot of a file that does not exist
    None,         \* no preview, no merge
    MaxSeq,       \* bound on the turns that change a file
    MaxEdits,     \* bound on the edits of other programs
    MaxJournals   \* bound on the journals that exist at once

ASSUME FilesAssumption == IsFiniteSet(Files)
ASSUME LinesAssumption == Lines \subseteq Nat
ASSUME AbsentAssumption == Absent \notin [Lines -> Texts]
ASSUME NoContentAssumption == None \notin [Lines -> Texts] \cup {Absent}

VARIABLES
    disk,         \* the files
    history,      \* file changes of the active history, oldest first
    seq,          \* the last event sequence number
    preview,      \* what the client was shown and will confirm
    journals,     \* file_rewind_journals, oldest first
    rw,           \* the call that holds turns.mu
    proc,         \* "up", "down" (or refusing to start), "recovering"
    todo,         \* files of the oldest journal that recovery has still to look at
    edits,        \* how many edits others have made, for the bound
    expect,       \* history variable: the files, if rewinds were atomic
    disturbed     \* history variable: files others changed during a rewind, or that
                  \* a failed write or a journal left behind put out of step

vars == <<disk, history, seq, preview, journals, rw, proc, todo, edits, expect, disturbed>>

-----------------------------------------------------------------------------
Snapshots == [Lines -> Texts] \cup {Absent}

NoCall == [step |-> "idle", kind |-> "none", target |-> 0, plans |-> <<>>, done |-> 0]

Init ==
    /\ disk \in [Files -> Snapshots]
    /\ expect = disk
    /\ history = <<>> /\ seq = 0
    /\ preview = None /\ journals = <<>>
    /\ rw = NoCall
    /\ proc = "up" /\ todo = {} /\ edits = 0
    /\ disturbed = {}

-----------------------------------------------------------------------------
(* Inspection: what undoing changes would do to each file.  The items are  *)
(* positions in the history.                                               *)

Differs(base, c) == {l \in Lines : base[l] # c[l]}

\* The edit that changes line l: the run of changed lines around it.
EditAt(base, c, l) ==
    LET D == Differs(base, c)
    IN  {k \in D : \A j \in Lines : (k <= j /\ j <= l) \/ (l <= j /\ j <= k) => j \in D}

\* Two edits that overlap must be the same edit.
EditsConflict(base, c, d) ==
    \E l \in Differs(base, c) \cap Differs(base, d) :
        \/ EditAt(base, c, l) # EditAt(base, d, l)
        \/ \E k \in EditAt(base, c, l) : c[k] # d[k]

\* Faulty variant: the rewind's edit wins where both changed the same lines.
RewindWins(after, current, before) ==
    IF Absent \in {after, current, before} THEN None
    ELSE [l \in Lines |-> IF before[l] # after[l] THEN before[l] ELSE current[l]]

threeWayRestore(after, current, before) ==
    IF Absent \in {after, current, before} \/ EditsConflict(after, current, before)
    THEN None
    ELSE [l \in Lines |-> IF before[l] # after[l] THEN before[l] ELSE current[l]]

\* One change undone in a version of the file; None if that cannot be done safely.
Undone(change, version) ==
    IF version = None THEN None
    ELSE IF version = change.after THEN change.before
    ELSE threeWayRestore(change.after, version, change.before)

ChangesOf(items, f) == {i \in items : history[i].file = f}
FirstChange(items, f) == Min(ChangesOf(items, f))

\* The snapshot that restores a file without losing other edits, newest change first.
SafeTarget(items, f) ==
    MapThenFoldSet(Undone, disk[f], LAMBDA i : history[i], Min, ChangesOf(items, f))
ForceTarget(items, f) == history[FirstChange(items, f)].before

Inspected(items) ==
    [f \in {history[i].file : i \in items} |->
        [current |-> disk[f], safe |-> SafeTarget(items, f) # None]]

\* Files in the order of their first change: there is exactly one.
FileOrders(items, chosen) ==
    {order \in Bijection(1..Cardinality(chosen), chosen) :
        \A i, j \in 1..Cardinality(chosen) :
            i < j => FirstChange(items, order[i]) < FirstChange(items, order[j])}

\* Safe files are planned, others only when the user forces them.
ChosenFiles(items, force) ==
    {f \in Files : /\ ChangesOf(items, f) # {}
                   /\ SafeTarget(items, f) # None \/ f \in force}

PlanFor(items, f) ==
    LET safe == SafeTarget(items, f) # None
    IN  [file |-> f, before |-> disk[f], forced |-> ~safe,
         after |-> IF safe THEN SafeTarget(items, f) ELSE ForceTarget(items, f)]

Plans(items, force) ==
    LET chosen == ChosenFiles(items, force)
    IN  {[i \in 1..Cardinality(chosen) |-> PlanFor(items, order[i])] :
            order \in FileOrders(items, chosen)}

-----------------------------------------------------------------------------
(* Turns and other programs.                                               *)

\* Files that a rewind may still write: of the call, or of a journal left prepared.
Planned(plans) == {plans[i].file : i \in DOMAIN plans}
Pending == UNION {Planned(journals[j].plans) :
                    j \in {j \in DOMAIN journals : journals[j].state = "prepared"}}

Edited(f, c) ==
    /\ c # disk[f]
    /\ disk' = [disk EXCEPT ![f] = c]
    /\ expect' = [expect EXCEPT ![f] = c]
    /\ disturbed' = IF f \in Pending THEN disturbed \cup {f} ELSE disturbed \ {f}

\* The write or edit tool in a turn, recorded with what was there before.
TurnChanges(f, c) ==
    /\ proc = "up" /\ rw.step = "idle"
    /\ seq < MaxSeq
    /\ c # Absent
    /\ Edited(f, c)
    /\ seq' = seq + 1
    /\ history' = Append(history, [seq |-> seq + 1, file |-> f, before |-> disk[f], after |-> c,
                                   review |-> "pending"])
    /\ UNCHANGED <<preview, journals, rw, proc, todo, edits>>

OthersEdit(f, c) ==
    /\ edits < MaxEdits
    /\ edits' = edits + 1
    /\ Edited(f, c)
    /\ UNCHANGED <<history, seq, preview, journals, rw, proc, todo>>

-----------------------------------------------------------------------------
(* Preview and confirmation.                                               *)

HeadSeq(items) == IF items = {} THEN 0 ELSE history[Max(items)].seq

\* The changes a call is about: all since the target message, or all not reviewed.
Affected(kind, target) ==
    {i \in DOMAIN history : IF kind = "rewind" THEN history[i].seq >= target
                                              ELSE history[i].review = "pending"}

\* The boundary a preview is bound to: the head of the history, or of the review.
Boundary(kind) == IF kind = "rewind" THEN HeadSeq(DOMAIN history) ELSE HeadSeq(Affected("undo", 0))

Preview(kind, target) ==
    /\ proc = "up"
    /\ kind = "rewind" => rw.step = "idle"
    /\ Affected(kind, target) # {}
    /\ preview' = [kind |-> kind, target |-> target, boundary |-> Boundary(kind),
                   token |-> Inspected(Affected(kind, target))]
    /\ UNCHANGED <<disk, history, seq, journals, rw, proc, todo, edits, expect, disturbed>>

\* The request is checked against a new inspection; then the journal is committed.
Confirm(force) ==
    LET items == Affected(preview.kind, preview.target)
    IN  /\ proc = "up" /\ rw.step = "idle"
        /\ items # {}
        /\ preview.boundary = Boundary(preview.kind)
        /\ preview.token = Inspected(items)
        /\ force \subseteq {f \in DOMAIN preview.token : ~preview.token[f].safe}
        /\ \E plans \in Plans(items, force) :
              /\ rw' = [step |-> IF plans = <<>> THEN "commit" ELSE "verify", kind |-> preview.kind,
                        target |-> preview.target, plans |-> plans, done |-> 0]
              /\ IF plans = <<>> THEN journals' = journals
                 ELSE /\ Len(journals) < MaxJournals
                      /\ journals' = Append(journals, [plans |-> plans, state |-> "prepared"])
        /\ preview' = None
        /\ UNCHANGED <<disk, history, seq, proc, todo, edits, expect, disturbed>>

\* KeepFileChanges looks at the boundary only.
KeepChanges ==
    /\ proc = "up" /\ rw.step = "idle"
    /\ preview # None /\ preview.kind = "undo"
    /\ preview.boundary = Boundary("undo")
    /\ history' = [i \in DOMAIN history |->
                     [history[i] EXCEPT !.review = IF @ = "pending" THEN "kept" ELSE @]]
    /\ preview' = None
    /\ UNCHANGED <<disk, seq, journals, rw, proc, todo, edits, expect, disturbed>>

-----------------------------------------------------------------------------
(* Applying the plans.                                                     *)

NextPlan == rw.plans[rw.done + 1]

\* verifyFileSnapshot, and a step later the rename: in between others may edit.
VerifyFile ==
    /\ rw.step = "verify"
    /\ rw' = [rw EXCEPT !.step = IF disk[NextPlan.file] = NextPlan.before THEN "write"
                                                                          ELSE "restore"]
    /\ UNCHANGED <<disk, history, seq, preview, journals, proc, todo, edits, expect, disturbed>>

WriteFile ==
    /\ rw.step = "write"
    /\ disk' = [disk EXCEPT ![NextPlan.file] = NextPlan.after]
    /\ rw' = [rw EXCEPT !.done = @ + 1,
                        !.step = IF rw.done + 1 = Len(rw.plans) THEN "commit" ELSE "verify"]
    /\ UNCHANGED <<history, seq, preview, journals, proc, todo, edits, expect, disturbed>>

WriteFails ==
    /\ rw.step = "write"
    /\ rw' = [rw EXCEPT !.step = "restore"]
    /\ UNCHANGED <<disk, history, seq, preview, journals, proc, todo, edits, expect, disturbed>>

\* The files as an atomic rewind leaves them.
Rewound(files, plans) ==
    [f \in Files |-> IF \E i \in DOMAIN plans : plans[i].file = f
                     THEN plans[CHOOSE i \in DOMAIN plans : plans[i].file = f].after
                     ELSE files[f]]

\* Faulty variant: the journal is not marked in the transaction of the history.
MarkNothing == journals

MarkCommitted ==
    IF rw.plans = <<>> THEN journals
    ELSE [journals EXCEPT ![Len(journals)].state = "committed"]

\* store.Rewind or store.ResolveFileReview: one transaction.
Commit ==
    /\ rw.step = "commit"
    /\ history' = IF rw.kind = "rewind"
                  THEN SubSeq(history, 1, SelectLastInSeq(history, LAMBDA x : x.seq < rw.target))
                  ELSE [i \in DOMAIN history |->
                          [history[i] EXCEPT !.review = IF @ = "pending" THEN "undone" ELSE @]]
    /\ journals' = MarkCommitted
    /\ expect' = Rewound(expect, rw.plans)
    /\ rw' = [rw EXCEPT !.step = "finish"]
    /\ UNCHANGED <<disk, seq, preview, proc, todo, edits, disturbed>>

CommitFails ==
    /\ rw.step = "commit"
    /\ rw' = [rw EXCEPT !.step = "restore"]
    /\ UNCHANGED <<disk, history, seq, preview, journals, proc, todo, edits, expect, disturbed>>

\* restoreFilePlans: the applied files, the last one first, unverified; it goes on
\* when a file cannot be written.
RestoreFile ==
    /\ rw.step = "restore" /\ rw.done > 0
    /\ LET plan == rw.plans[rw.done]
       IN  \/ /\ disk' = [disk EXCEPT ![plan.file] = plan.before]
              /\ disturbed' = disturbed
           \/ /\ disk' = disk
              /\ disturbed' = disturbed \cup {plan.file}
    /\ rw' = [rw EXCEPT !.done = @ - 1]
    /\ UNCHANGED <<history, seq, preview, journals, proc, todo, edits, expect>>

Restored ==
    /\ rw.step = "restore" /\ rw.done = 0
    /\ rw' = [rw EXCEPT !.step = "finish"]
    /\ UNCHANGED <<disk, history, seq, preview, journals, proc, todo, edits, expect, disturbed>>

\* FinishFileRewind, whose error the calls ignore: the journal may stay behind.
Finish ==
    /\ rw.step = "finish"
    /\ rw' = NoCall
    /\ \/ /\ journals' = IF rw.plans = <<>> THEN journals ELSE Front(journals)
          /\ disturbed' = disturbed
       \/ /\ rw.plans # <<>>
          /\ journals' = journals
          /\ disturbed' = IF Last(journals).state = "prepared"
                          THEN disturbed \cup Planned(rw.plans) ELSE disturbed
    /\ UNCHANGED <<disk, history, seq, preview, proc, todo, edits, expect>>

-----------------------------------------------------------------------------
(* Crash and RecoverFileRewinds.                                           *)

Crash ==
    /\ proc # "down"
    /\ proc' = "down"
    /\ rw' = NoCall /\ preview' = None /\ todo' = {}
    /\ UNCHANGED <<disk, history, seq, journals, edits, expect, disturbed>>

\* Faulty variant: committed journals are recovered as well.
FilesOfAny(js) == IF js = <<>> THEN {} ELSE {js[1].plans[i] : i \in DOMAIN js[1].plans}

\* What recovery has to look at first: the files of the oldest journal, if prepared.
FilesOf(js) ==
    IF js = <<>> \/ js[1].state # "prepared" THEN {}
    ELSE {js[1].plans[i] : i \in DOMAIN js[1].plans}

Start ==
    /\ proc = "down"
    /\ proc' = "recovering"
    /\ todo' = FilesOf(journals)
    /\ UNCHANGED <<disk, history, seq, preview, journals, rw, edits, expect, disturbed>>

\* Faulty variant: refuses a file that has its rewound content.
RecoverOnlyBefore(plan) ==
    /\ plan \in todo
    /\ disk[plan.file] = plan.before
    /\ disk' = disk
    /\ todo' = todo \ {plan}
    /\ UNCHANGED <<history, seq, preview, journals, rw, proc, edits, expect, disturbed>>

RecoverFile(plan) ==
    /\ plan \in todo
    /\ disk[plan.file] \in {plan.before, plan.after}
    /\ disk' = [disk EXCEPT ![plan.file] = plan.before]
    /\ todo' = todo \ {plan}
    /\ UNCHANGED <<history, seq, preview, journals, rw, proc, edits, expect, disturbed>>

RecoverJournal ==
    /\ proc = "recovering" /\ todo = {} /\ journals # <<>>
    /\ journals' = Tail(journals)
    /\ todo' = FilesOf(Tail(journals))
    /\ UNCHANGED <<disk, history, seq, preview, rw, proc, edits, expect, disturbed>>

\* The file has neither content: the kernel does not start.
Conflicts(plan) == plan \in todo /\ disk[plan.file] \notin {plan.before, plan.after}

RefuseStart ==
    /\ \E plan \in todo : Conflicts(plan)
    /\ proc' = "down" /\ todo' = {}
    /\ UNCHANGED <<disk, history, seq, preview, journals, rw, edits, expect, disturbed>>

Recovered ==
    /\ proc = "recovering" /\ journals = <<>>
    /\ proc' = "up"
    /\ UNCHANGED <<disk, history, seq, preview, journals, rw, todo, edits, expect, disturbed>>

-----------------------------------------------------------------------------
Call ==
    \/ VerifyFile \/ WriteFile \/ WriteFails \/ Commit \/ CommitFails
    \/ RestoreFile \/ Restored \/ Finish

Recovery == Start \/ (\E plan \in todo : RecoverFile(plan)) \/ RecoverJournal \/ RefuseStart \/ Recovered

Others == \E f \in Files, c \in Snapshots : TurnChanges(f, c) \/ OthersEdit(f, c)

Client ==
    \/ \E i \in DOMAIN history : Preview("rewind", history[i].seq)
    \/ Preview("undo", 0)
    \/ preview # None /\ \E force \in SUBSET Files : Confirm(force)
    \/ KeepChanges

Next == Others \/ Client \/ Call \/ Crash \/ Recovery

Spec == Init /\ [][Next]_vars

\* The user starts the application again, and recovery goes on while files and database can be written.
Fairness ==
    /\ WF_vars(Start) /\ WF_vars(RecoverJournal) /\ WF_vars(Recovered)
    /\ WF_vars(\E plan \in todo : RecoverFile(plan))

FairSpec == Spec /\ Fairness

-----------------------------------------------------------------------------
(* Properties.                                                              *)

\* When no rewind is under way and the kernel has recovered, files and history
\* agree: each file holds what the rewinds in the history made of it, whole or not at
\* all, whatever failed or crashed in between, unless others changed that file
\* meanwhile, or writing back failed, or a journal was left behind.
FilesFollowHistory ==
    proc = "up" /\ rw.step = "idle"
        => \A f \in Files \ disturbed : disk[f] = expect[f]

\* Recovery refuses to start the kernel only for a file that others changed, not
\* for anything a crash leaves, of a rewind or of an earlier recovery.
RefusesOnlyForOthers ==
    \A plan \in todo : Conflicts(plan) => plan.file \in disturbed

\* The versions of files that the history records.
Versions == {history[i].before : i \in DOMAIN history} \cup {history[i].after : i \in DOMAIN history}

\* A rewind that is not forced keeps every line that no recorded version of the
\* file has: merges, one after the other, never drop a line of the user.
UserLinesKept ==
    \A i \in DOMAIN rw.plans :
        LET plan == rw.plans[i]
        IN  rw.step \in {"verify", "write"} /\ ~plan.forced /\ plan.before # Absent
              => \A l \in Lines :
                   \/ \E v \in Versions \ {Absent} : v[l] = plan.before[l]
                   \/ plan.after # Absent /\ plan.after[l] = plan.before[l]

\* If crashes and edits by others stop, the kernel starts, unless others had
\* changed a file of a pending rewind.
KernelStarts ==
    <>[][~(Crash \/ \E f \in Files, c \in Snapshots : OthersEdit(f, c))]_vars
        => (proc = "down" ~> proc = "up" \/ disturbed # {})

=============================================================================
