------------------------------ MODULE Compaction ------------------------------
(***************************************************************************)
(* What the model sees of a long session: conversation/compaction.go,      *)
(* hierarchy.go and checkpoint_store.go, driven by compactHistory of       *)
(* agent/model_context.go.  A checkpoint stands for a prefix of the active *)
(* messages; the rest follows verbatim.                                    *)
(*                                                                         *)
(* A message is a role, the number of its tool calls and its sequence      *)
(* number, which is never used again.  A digest is the prefix it is        *)
(* computed from, and a summary is the set of messages it was made of.     *)
(* Compaction runs while its session does nothing else (TurnScheduler), so *)
(* the lineage check of the store never fails and is left out.             *)
(***************************************************************************)
EXTENDS Integers, Sequences, FiniteSets, FiniteSetsExt

CONSTANTS
    Routes,         \* connection, provider and model (modelRouteKey)
    NativeRoutes,   \* those whose provider compacts by itself
    MaxSegments,    \* MaxCheckpointSegments
    MaxCalls,       \* bound: tool calls of a message
    MaxSeq          \* bound: messages of the session, with those rewound

ASSUME RoutesAssumption == Routes # {} /\ NativeRoutes \subseteq Routes
ASSUME BoundsAssumption == {MaxSegments, MaxCalls, MaxSeq} \subseteq Nat \ {0}

VARIABLES
    content,    \* the active messages
    nextSeq,    \* sequence number of the next message
    inTurn,     \* a turn is at the point where it asks the model
    route,      \* what the session is set to
    checkpoint, \* compaction_checkpoints: <<>> or the current checkpoint
    accepted,   \* per route, how far the provider has accepted the history
    failures,   \* fingerprints of the compactions that failed for good
    work        \* <<>> or the compaction that waits for its generator

session == <<content, nextSeq, inTurn, route, accepted>>
vars    == <<session, checkpoint, failures, work>>

Init ==
    /\ content = <<>> /\ nextSeq = 1 /\ inTurn = FALSE
    /\ route \in Routes
    /\ checkpoint = <<>> /\ accepted = [r \in Routes |-> 0]
    /\ failures = {} /\ work = <<>>

Largest(S) == IF S = {} THEN 0 ELSE Max(S)
Seqs(from, to) == {content[i].seq : i \in from .. to}
LastSeq == IF content = <<>> THEN 0 ELSE content[Len(content)].seq

-----------------------------------------------------------------------------
(***************************************************************************)
(* The plan: the largest prefix that may be folded.                        *)
(***************************************************************************)

\* A message and the results that follow it form a group, named by its first message.
Groups == {i \in DOMAIN content : content[i].role # "tool"}
GroupEnd(g) == Min({Len(content) + 1} \cup {h \in Groups : h > g}) - 1
CompleteGroup(g) == GroupEnd(g) - g = content[g].calls

\* Mutant: a call without its results is folded too.
PrefixCutAnyGroup(desired) ==
    Largest({GroupEnd(g) : g \in Groups} \cap 1 .. desired)

safePrefixCut(desired) ==
    Largest({GroupEnd(g) : g \in {h \in Groups :
                \A k \in Groups : k <= h => CompleteGroup(k)}} \cap 1 .. desired)

LastUser == Largest({i \in DOMAIN content : content[i].role = "user"})

\* During a turn all but the last group is folded, and the message of the user comes again.
MidTurnCut ==
    LET last == Largest(Groups) IN
    IF /\ LastUser # 0
       /\ Cardinality({g \in Groups : g > LastUser}) >= 2
       /\ \A g \in Groups \ {last} : CompleteGroup(g)
    THEN last - 1
    ELSE 0

planBoundary(phase) ==
    CASE phase = "standalone" -> safePrefixCut(Len(content))
      [] phase = "pre_turn"   -> safePrefixCut(LastUser - 1)
      [] phase = "mid_turn"   -> MidTurnCut

\* No plan covers more than limit when the provider accepted only that much.
Retreated(cut, phase, limit) ==
    IF limit = 0 \/ cut = 0 \/ content[cut].seq <= limit THEN cut
    ELSE LET less == safePrefixCut(Cardinality({i \in 1 .. cut : content[i].seq <= limit}))
         IN IF phase = "mid_turn" /\ less <= LastUser THEN 0 ELSE less

\* What a checkpoint knows: the messages its summaries were made of, or its native state.
Absorbed(cp) == (UNION {cp.segments[k].absorbed : k \in DOMAIN cp.segments}) \cup cp.state

\* Mutant: the message of the user is not put back.
NoAnchor(phase) == 0

HeadAnchor(phase) == IF phase = "mid_turn" THEN content[LastUser].seq ELSE 0

\* The plan against a previous checkpoint, or <<>>: the messages after it are its source.
PlanForPhase(previous, phase, limit) ==
    LET cut    == Retreated(planBoundary(phase), phase, limit)
        anchor == HeadAnchor(phase)
        done   == IF previous = <<>> THEN 0 ELSE previous.through
        start  == Cardinality({i \in DOMAIN content : content[i].seq <= done}) + 1
    IN IF cut = 0 \/ start > cut THEN <<>>
       ELSE [phase   |-> phase,
             anchor  |-> anchor,
             through |-> content[cut].seq,
             from    |-> content[1].seq,
             newFrom |-> content[start].seq,
             source  |-> Seqs(start, cut)
                         \cup (IF previous # <<>> /\ previous.anchor \notin {0, anchor}
                               THEN {previous.anchor} ELSE {}),
             summary |-> IF previous = <<>> \/ previous.kind = "native" THEN {}
                         ELSE Absorbed(previous)]

\* An automatic compaction takes the boundary that covers more.
BuildPlan(previous, phase, limit) ==
    IF phase = "standalone" THEN PlanForPhase(previous, phase, limit)
    ELSE LET pre == PlanForPhase(previous, "pre_turn", limit)
             mid == PlanForPhase(previous, "mid_turn", limit)
         IN IF pre = <<>> THEN mid
            ELSE IF mid = <<>> THEN pre
            ELSE IF mid.through > pre.through THEN mid ELSE pre

-----------------------------------------------------------------------------
(***************************************************************************)
(* The checkpoint that a generator makes of a plan.                        *)
(***************************************************************************)

CanAppendSegment(previous, plan) ==
    /\ previous # <<>> /\ previous.through < plan.through
    /\ previous.anchor = plan.anchor
    /\ Len(previous.segments) < MaxSegments

\* Mutant: the one segment is said to begin where the new source does.
SegmentsFromNew(previous, plan) ==
    IF CanAppendSegment(previous, plan)
    THEN Append(previous.segments,
                [from |-> plan.newFrom, through |-> plan.through, absorbed |-> plan.source])
    ELSE <<[from |-> plan.newFrom, through |-> plan.through,
            absorbed |-> plan.source \cup plan.summary]>>

\* The new source is summarised alone, or with the previous summary into one segment.
Segments(previous, plan) ==
    IF CanAppendSegment(previous, plan)
    THEN Append(previous.segments,
                [from |-> plan.newFrom, through |-> plan.through, absorbed |-> plan.source])
    ELSE <<[from |-> plan.from, through |-> plan.through,
            absorbed |-> plan.source \cup plan.summary]>>

\* Native state continues that of the same route.
NativeState(previous, plan) ==
    plan.source \cup plan.summary
        \cup (IF previous # <<>> /\ previous.kind = "native" /\ previous.route = route
              THEN previous.state ELSE {})

Projection(previous, plan, generator) ==
    [through  |-> plan.through,
     anchor   |-> plan.anchor,
     digest   |-> SelectSeq([i \in DOMAIN content |-> content[i].seq],
                            LAMBDA s : s <= plan.through),
     kind     |-> generator,
     route    |-> IF generator = "native" THEN route ELSE "any",
     segments |-> IF generator = "native" THEN <<>> ELSE Segments(previous, plan),
     state    |-> IF generator = "native" THEN NativeState(previous, plan) ELSE {}]

ValidCheckpoint(cp) ==
    cp.digest = SelectSeq([i \in DOMAIN content |-> content[i].seq],
                          LAMBDA s : s <= cp.through)

Fingerprint(plan) == <<route, plan.through, plan.anchor>>

\* A native checkpoint is of use to its own route only.
PlanningPrevious(generator) ==
    IF checkpoint # <<>> /\ checkpoint.kind = "native"
       /\ (checkpoint.route # route \/ generator # "native")
    THEN <<>> ELSE checkpoint

-----------------------------------------------------------------------------
(***************************************************************************)
(* compactHistory.                                                         *)
(***************************************************************************)

\* Nothing to compact, or a failure that is known: no generator is asked.
StartCompaction(phase) ==
    /\ work = <<>> /\ (phase = "auto") = inTurn
    /\ LET generator == IF route \in NativeRoutes THEN "native" ELSE "text"
           previous  == PlanningPrevious(generator)
           plan      == BuildPlan(previous, phase, 0)
       IN /\ plan # <<>> /\ Fingerprint(plan) \notin failures
          /\ work' = [phase |-> phase, previous |-> previous, plan |-> plan,
                      generator |-> generator, try |-> "first"]
    /\ UNCHANGED <<session, checkpoint, failures>>

\* Mutant: the plan made for the native generator is kept.
FallBackOnSamePlan ==
    /\ work # <<>> /\ work.generator = "native" /\ work.try = "first"
    /\ work' = [work EXCEPT !.generator = "text", !.try = "fallback"]
    /\ UNCHANGED <<session, checkpoint, failures>>

\* A native generator gives no usable state: the text generator takes its place, with a
\* plan of its own when the previous checkpoint cannot be read by it.
FallBack ==
    /\ work # <<>> /\ work.generator = "native" /\ work.try = "first"
    /\ LET unreadable == checkpoint # <<>> /\ checkpoint.kind = "native"
           full == BuildPlan(<<>>, work.phase, 0)
       IN work' = [work EXCEPT !.generator = "text", !.try = "fallback",
                               !.plan = IF unreadable THEN full ELSE @,
                               !.previous = IF unreadable THEN <<>> ELSE @]
    /\ UNCHANGED <<session, checkpoint, failures>>

\* The source is too long for the generator: a shorter prefix that the provider is known
\* to accept is tried once, unless that has failed before.
Overflow ==
    /\ work # <<>>
    /\ failures' = failures \cup {Fingerprint(work.plan)}
    /\ LET less == BuildPlan(work.previous, work.phase, accepted[route])
           retreats == /\ work.try # "retreat"
                       /\ accepted[route] \in 1 .. work.plan.through - 1
                       /\ less # <<>> /\ less.through < work.plan.through
                       /\ Fingerprint(less) \notin failures'
       IN work' = IF retreats THEN [work EXCEPT !.plan = less, !.try = "retreat"] ELSE <<>>
    /\ UNCHANGED <<session, checkpoint>>

\* An invalid summary, or one that saves nothing, fails for good.
Useless ==
    /\ work # <<>> /\ (work.generator = "text" \/ work.try # "first")
    /\ failures' = failures \cup {Fingerprint(work.plan)}
    /\ work' = <<>>
    /\ UNCHANGED <<session, checkpoint>>

\* Any other error, a stop, a crash.
GiveUp ==
    /\ work # <<>> /\ work' = <<>>
    /\ UNCHANGED <<session, checkpoint, failures>>

\* RecordCheckpoint: event and row in one transaction, unless coverage would move back.
Record ==
    /\ work # <<>>
    /\ LET new == Projection(work.previous, work.plan, work.generator)
           ok  == /\ ValidCheckpoint(new)
                  /\ checkpoint # <<>> => new.through >= checkpoint.through
       IN /\ checkpoint' = IF ok THEN new ELSE checkpoint
          /\ failures' = IF ok THEN {} ELSE failures
    /\ work' = <<>>
    /\ UNCHANGED session

-----------------------------------------------------------------------------
(***************************************************************************)
(* What the session does around it.                                        *)
(***************************************************************************)

Quiet == work = <<>>
Room(n) == nextSeq + n - 1 <= MaxSeq
Message(k, role, calls) == [seq |-> nextSeq + k - 1, role |-> role, calls |-> calls]
AppendAll(messages) ==
    content' = content \o messages /\ nextSeq' = nextSeq + Len(messages)

UserMessage ==
    /\ Quiet /\ ~inTurn /\ Room(1)
    /\ AppendAll(<<Message(1, "user", 0)>>)
    /\ inTurn' = TRUE
    /\ UNCHANGED <<route, accepted, checkpoint, failures, work>>

\* The provider accepts the request; its answer and the results that follow are recorded.
\* A turn that is stopped may leave calls without results (TurnLoop).
Answer(calls, results, goesOn) ==
    /\ Quiet /\ inTurn /\ Room(1 + results)
    /\ results <= calls /\ (goesOn => calls > 0 /\ results = calls)
    /\ AppendAll([k \in 1 .. 1 + results |->
                     IF k = 1 THEN Message(k, "assistant", calls) ELSE Message(k, "tool", 0)])
    /\ accepted' = [accepted EXCEPT ![route] = LastSeq]
    /\ inTurn' = goesOn
    /\ UNCHANGED <<route, checkpoint, failures, work>>

\* A stop hook denies the end of the turn: its reason follows the answer.
DeniedEnd ==
    /\ Quiet /\ inTurn /\ Room(2)
    /\ AppendAll(<<Message(1, "assistant", 0), Message(2, "system", 0)>>)
    /\ accepted' = [accepted EXCEPT ![route] = LastSeq]
    /\ UNCHANGED <<inTurn, route, checkpoint, failures, work>>

TurnFails ==
    /\ Quiet /\ inTurn /\ inTurn' = FALSE
    /\ UNCHANGED <<content, nextSeq, route, accepted, checkpoint, failures, work>>

SwitchRoute ==
    /\ Quiet /\ ~inTurn
    /\ route' \in Routes \ {route}
    /\ UNCHANGED <<content, nextSeq, inTurn, accepted, checkpoint, failures, work>>

\* history_rewound hides the messages from one of the user on and drops the checkpoint and
\* the accepted boundaries; InvalidateHistoryEstimate forgets the failures.
Rewind ==
    /\ Quiet /\ ~inTurn
    /\ \E i \in DOMAIN content :
          content[i].role = "user" /\ content' = SubSeq(content, 1, i - 1)
    /\ checkpoint' = <<>> /\ accepted' = [r \in Routes |-> 0] /\ failures' = {}
    /\ UNCHANGED <<nextSeq, inTurn, route, work>>

\* A restart forgets what only memory holds.
Restart ==
    /\ failures' = {} /\ work' = <<>> /\ inTurn' = FALSE
    /\ UNCHANGED <<content, nextSeq, route, accepted, checkpoint>>

Compact == \/ \E phase \in {"auto", "standalone"} : StartCompaction(phase)
           \/ FallBack \/ Overflow \/ Useless \/ GiveUp \/ Record

Next ==
    \/ UserMessage \/ DeniedEnd \/ TurnFails \/ SwitchRoute \/ Rewind \/ Restart
    \/ \E calls \in 0 .. MaxCalls, results \in 0 .. MaxCalls, goesOn \in BOOLEAN :
          Answer(calls, results, goesOn)
    \/ Compact

Spec == Init /\ [][Next]_vars

-----------------------------------------------------------------------------
(***************************************************************************)
(* Properties.                                                             *)
(***************************************************************************)

\* What the next request contains, on a route: the checkpoint and the messages after it,
\* or all messages when the checkpoint is of no use there (ProjectForRoute).
Usable(r) ==
    /\ checkpoint # <<>> /\ ValidCheckpoint(checkpoint)
    /\ checkpoint.kind = "native" => checkpoint.route = r

Verbatim(r) ==
    IF Usable(r)
    THEN {s \in Seqs(1, Len(content)) : s > checkpoint.through \/ s = checkpoint.anchor}
    ELSE Seqs(1, Len(content))

Known(r) == IF Usable(r) THEN Absorbed(checkpoint) ELSE {}

\* However often a session is compacted, retreats, falls back to text, changes its route
\* or is rewound: every active message reaches the model, verbatim or through a summary.
NothingLost ==
    \A r \in Routes : Verbatim(r) \cup Known(r) = Seqs(1, Len(content))

\* A call and its results are folded together or not at all, and only when all results
\* are there (compaction.md, "Tool Call ...").
GroupsWhole ==
    checkpoint # <<>> =>
        \A g \in Groups :
            \/ content[g].seq > checkpoint.through
            \/ CompleteGroup(g) /\ content[GroupEnd(g)].seq <= checkpoint.through

\* While a turn runs the model sees the message it answers in the user's own words.
RequestSeesUser ==
    inTurn => \A r \in Routes : content[LastUser].seq \in Verbatim(r)

\* The segments of a checkpoint follow each other without a gap, from the first message to
\* the last one covered.
SegmentsCover ==
    checkpoint # <<>> /\ checkpoint.kind = "text" =>
        /\ checkpoint.segments[1].from = content[1].seq
        /\ checkpoint.segments[Len(checkpoint.segments)].through = checkpoint.through
        /\ \A k \in 2 .. Len(checkpoint.segments) :
              {s \in Seqs(1, Len(content)) : s > checkpoint.segments[k - 1].through
                                             /\ s < checkpoint.segments[k].from} = {}
=============================================================================
