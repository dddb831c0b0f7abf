------------------------------- MODULE SubAgents -------------------------------
(***************************************************************************)
(* The manager of sub-agents: internal/subagent (manager.go, execution.go, *)
(* persistence.go, tools.go), with the tool calls that start them          *)
(* (agent/tool_execution.go) and the deletion of their parent session      *)
(* (kernel/session_service.go).                                            *)
(*                                                                         *)
(* A job is one child agent.  "async" jobs come from spawn_agent           *)
(* (Manager.Start): they have a persisted snapshot and a goroutine of      *)
(* their own.  "sync" jobs come from the agent tool (Manager.Spawn): they  *)
(* run inside the tool call and have no snapshot.  A parent session runs   *)
(* one turn, so a session and its root run share a name.                   *)
(***************************************************************************)
EXTENDS Naturals, Sequences, FiniteSets

CONSTANTS
    Jobs,         \* child agents, each started at most once
    Roots,        \* parent sessions, each with one turn
    None,
    Limits,       \* limits a user may set: records [global, perRoot]
    MaxChildren,  \* MaxChildrenPerRoot
    MaxTokens,    \* MaxTreeTokens
    TokenBound,   \* bound: tokens a tree uses in all
    MaxCrashes    \* bound: crashes of the kernel

ASSUME LimitsAssumption ==
    /\ Limits \subseteq [global : Nat \ {0}, perRoot : Nat \ {0}]
    /\ Limits # {}
ASSUME BoundsAssumption ==
    {MaxChildren, MaxTokens, TokenBound, MaxCrashes} \subseteq Nat

VARIABLES
    pc,           \* where the goroutine of a job is
    kind,         \* which call started it
    root,         \* its root run and parent session
    holding,      \* jobs with a deferred releaseSlot
    cancelled,    \* async jobs whose context was cancelled
    limits, globalActive, rootActive,
    asleep,       \* jobs that wait on the current scheduleChanged channel
    status,       \* snapshot.Status
    tokens,       \* treeTokens
    sweep,        \* jobs a goroutine over budget still has to cancel
    disk,         \* agent-runs.json: status of each job
    kids,         \* child sessions that exist, named by their job
    turn,         \* the turn of each parent session
    parent,       \* sessions that exist
    deleting,     \* what a deletion still has to do: child sessions listed, or None
    crashes,
    asked,        \* history variable: jobs that somebody asked to stop
    ended,        \* history variable: terminal events of each job
    fresh,        \* history variable: jobs started since their tree was last swept
    writeFailed   \* history variable: a write of agent-runs.json failed

job   == <<pc, kind, root, holding, cancelled>>
slots == <<limits, globalActive, rootActive, asleep>>
snaps == <<status, tokens, sweep>>
store == <<disk, kids>>
world == <<turn, parent, deleting, crashes>>
ghost == <<asked, ended, fresh, writeFailed>>
vars  == <<job, slots, snaps, store, world, ghost>>

-----------------------------------------------------------------------------
Final == {"completed", "failed", "cancelled", "interrupted"}
Open  == {"queued", "running"}

Async(j) == kind[j] = "async"
Tree(r)  == {j \in Jobs : root[j] = r}

\* The context a job runs under.  That of a sync job is the one of its tool call.
ContextDone(j) == IF Async(j) THEN cancelled[j] ELSE turn[root[j]] = "cancelled"

\* persist writes every snapshot, or fails without a word.
Persist(snapshots) ==
    \/ disk' = snapshots /\ writeFailed' = writeFailed
    \/ disk' = disk /\ writeFailed' = TRUE

At(j, from, to) == pc[j] = from /\ pc' = [pc EXCEPT ![j] = to]

Init ==
    /\ pc = [j \in Jobs |-> "none"] /\ kind = [j \in Jobs |-> "async"]
    /\ root = [j \in Jobs |-> None] /\ holding = {}
    /\ cancelled = [j \in Jobs |-> FALSE]
    /\ limits \in Limits /\ globalActive = 0 /\ rootActive = [r \in Roots |-> 0]
    /\ asleep = {}
    /\ status = [j \in Jobs |-> "none"] /\ tokens = [r \in Roots |-> 0]
    /\ sweep = [j \in Jobs |-> {}]
    /\ disk = [j \in Jobs |-> "none"] /\ kids = {}
    /\ turn = [r \in Roots |-> "running"] /\ parent = Roots
    /\ deleting = [r \in Roots |-> None] /\ crashes = 0
    /\ asked = {} /\ ended = [j \in Jobs |-> <<>>] /\ fresh = {} /\ writeFailed = FALSE

-----------------------------------------------------------------------------
(* Starting.                                                               *)

Start(j, r) ==
    /\ turn[r] \in {"running", "cancelled"} /\ r \in parent
    /\ Cardinality({k \in Tree(r) : status[k] # "none"}) < MaxChildren
    /\ At(j, "none", "new")
    /\ root' = [root EXCEPT ![j] = r]
    /\ status' = [status EXCEPT ![j] = "queued"]
    /\ fresh' = fresh \cup {j}
    /\ UNCHANGED <<kind, holding, cancelled, slots, tokens, sweep, store, world,
                   asked, ended, writeFailed>>

\* The rest of Start: the snapshot is written, then the goroutine is launched.
Launch(j) ==
    /\ At(j, "new", "acquire")
    /\ Persist(status)
    /\ UNCHANGED <<kind, root, holding, cancelled, slots, snaps, kids, world,
                   asked, ended, fresh>>

Spawn(j, r) ==
    /\ turn[r] \in {"running", "cancelled"} /\ r \in parent
    /\ At(j, "none", "acquire")
    /\ kind' = [kind EXCEPT ![j] = "sync"]
    /\ root' = [root EXCEPT ![j] = r]
    /\ UNCHANGED <<holding, cancelled, slots, snaps, store, world, ghost>>

\* The goroutine of CancelWithParent watches the context Start was called with: the
\* one of the tool call, which executeTool cancels as soon as the call has returned.
ParentEnds(j) ==
    /\ Async(j) /\ ~cancelled[j]
    /\ pc[j] \notin {"none", "new", "done", "gone", "interrupted"}
    /\ cancelled' = [cancelled EXCEPT ![j] = TRUE]
    /\ UNCHANGED <<pc, kind, root, holding, slots, snaps, store, world, ghost>>

-----------------------------------------------------------------------------
(* Slots.                                                                  *)

HasSlot(r) == globalActive < limits.global /\ rootActive[r] < limits.perRoot

\* Taking a slot does not look at the context; waiting for one does.  An async job
\* is then marked as running.
AcquireSlot(j) ==
    /\ pc[j] = "acquire"
    /\ HasSlot(root[j])
    /\ At(j, "acquire", "spawning")
    /\ globalActive' = globalActive + 1
    /\ rootActive' = [rootActive EXCEPT ![root[j]] = @ + 1]
    /\ holding' = holding \cup {j}
    /\ IF Async(j)
       THEN status' = [status EXCEPT ![j] = "running"] /\ Persist(status')
       ELSE UNCHANGED <<status, disk, writeFailed>>
    /\ UNCHANGED <<kind, root, cancelled, limits, asleep, tokens, sweep, kids, world,
                   asked, ended, fresh>>

\* No slot: the channel to wait on is read under the same lock.
WaitForSlot(j) ==
    /\ pc[j] = "acquire"
    /\ ~HasSlot(root[j])
    /\ At(j, "acquire", "wait")
    /\ asleep' = asleep \cup {j}
    /\ UNCHANGED <<kind, root, holding, cancelled, limits, globalActive, rootActive,
                   snaps, store, world, ghost>>

Wake(j) ==
    /\ At(j, "wait", "acquire")
    /\ j \notin asleep
    /\ UNCHANGED <<kind, root, holding, cancelled, slots, snaps, store, world, ghost>>

GiveUp(j) ==
    /\ pc[j] = "wait" /\ ContextDone(j)
    /\ At(j, "wait", IF Async(j) THEN "record" ELSE "done")
    /\ asleep' = asleep \ {j}
    /\ status' = IF Async(j) THEN [status EXCEPT ![j] = "cancelled"] ELSE status
    /\ UNCHANGED <<kind, root, holding, cancelled, limits, globalActive, rootActive,
                   tokens, sweep, store, world, ghost>>

\* Faulty variant: those who wait are not told.
ReleaseQuietly(j) ==
    /\ At(j, "release", "done")
    /\ globalActive' = globalActive - 1
    /\ rootActive' = [rootActive EXCEPT ![root[j]] = @ - 1]
    /\ holding' = holding \ {j}
    /\ UNCHANGED asleep
    /\ UNCHANGED <<kind, root, cancelled, limits, snaps, store, world, ghost>>

\* Closing scheduleChanged wakes everyone who waits on it; then done is closed.
ReleaseSlot(j) ==
    /\ At(j, "release", "done")
    /\ globalActive' = globalActive - 1
    /\ rootActive' = [rootActive EXCEPT ![root[j]] = @ - 1]
    /\ holding' = holding \ {j}
    /\ asleep' = {}
    /\ UNCHANGED <<kind, root, cancelled, limits, snaps, store, world, ghost>>

\* Faulty variant: new limits are stored and nobody is told.
SetLimitsQuietly(l) ==
    /\ l # limits
    /\ limits' = l
    /\ UNCHANGED <<job, globalActive, rootActive, asleep, snaps, store, world, ghost>>

UpdateLimits(l) ==
    /\ l # limits
    /\ limits' = l
    /\ asleep' = {}
    /\ UNCHANGED <<job, globalActive, rootActive, snaps, store, world, ghost>>

-----------------------------------------------------------------------------
(* The child.                                                              *)

\* finishState, for a job with a snapshot.
Finish(j, result) ==
    /\ pc' = [pc EXCEPT ![j] = IF Async(j) THEN "record" ELSE "release"]
    /\ status' = IF Async(j) THEN [status EXCEPT ![j] = result] ELSE status
    /\ UNCHANGED <<kind, root, holding, cancelled, slots, tokens, sweep, store, world, ghost>>

\* spawnNow looks for the parent ...
FindParent(j) ==
    /\ pc[j] = "spawning"
    /\ \/ /\ root[j] \in parent
          /\ At(j, "spawning", "creating")
          /\ UNCHANGED <<kind, root, holding, cancelled, slots, snaps, store, world, ghost>>
       \/ Finish(j, "failed")   \* no parent, or no such definition

\* ... and creates the child session, whether or not the parent is still there.
CreateChild(j) ==
    /\ At(j, "creating", "inTurn")
    /\ kids' = kids \cup {j}
    /\ IF Async(j) THEN Persist(status) ELSE UNCHANGED <<disk, writeFailed>>
    /\ UNCHANGED <<kind, root, holding, cancelled, slots, status, tokens, sweep, world,
                   asked, ended, fresh>>

CreateFails(j) == pc[j] = "creating" /\ Finish(j, "failed")

\* The task is packed (which may fail) and RunTurn returns: with an answer, with an error
\* (a timeout at the latest), because the context ended or because the child session was
\* stopped; the stop hook may turn any of these into a failure.
TurnEnds(j) ==
    /\ pc[j] = "inTurn"
    /\ \/ ~ContextDone(j) /\ j \in kids /\ Finish(j, "completed")
       \/ \E result \in {"failed", "cancelled"} : Finish(j, result)

\* Faulty variant: the event goes out before the snapshot is written.
RecordLate(j) ==
    /\ At(j, "record", "announce")
    /\ UNCHANGED <<kind, root, holding, cancelled, slots, snaps, store, world, ghost>>

Record(j) ==
    /\ At(j, "record", "announce")
    /\ Persist(status)
    /\ UNCHANGED <<kind, root, holding, cancelled, slots, snaps, kids, world,
                   asked, ended, fresh>>

Announce(j) ==
    /\ At(j, "announce", IF j \in holding THEN "release" ELSE "done")
    /\ ended' = [ended EXCEPT ![j] = Append(@, status[j])]
    /\ UNCHANGED <<kind, root, holding, cancelled, slots, snaps, store, world,
                   asked, fresh, writeFailed>>

-----------------------------------------------------------------------------
(* The token budget, charged by the engine in the goroutine of a child.    *)

ObserveUsage(j) ==
    /\ pc[j] = "inTurn" /\ tokens[root[j]] < TokenBound
    /\ tokens' = [tokens EXCEPT ![root[j]] = @ + 1]
    /\ At(j, "inTurn", IF tokens'[root[j]] >= MaxTokens THEN "list" ELSE "inTurn")
    /\ Persist(status)
    /\ UNCHANGED <<kind, root, holding, cancelled, slots, status, sweep, kids,
                   world, asked, ended, fresh>>

\* Faulty variant: only what runs is cancelled, not what is queued.
ListRunning(j) ==
    /\ At(j, "list", "sweep")
    /\ sweep' = [sweep EXCEPT ![j] = {k \in Tree(root[j]) : status[k] = "running"}]
    /\ fresh' = fresh \ Tree(root[j])
    /\ UNCHANGED <<kind, root, holding, cancelled, slots, status, tokens, store,
                   world, asked, ended, writeFailed>>

ListTree(j) ==
    /\ At(j, "list", "sweep")
    /\ sweep' = [sweep EXCEPT ![j] = {k \in Tree(root[j]) : status[k] \in Open}]
    /\ fresh' = fresh \ Tree(root[j])
    /\ UNCHANGED <<kind, root, holding, cancelled, slots, status, tokens, store,
                   world, asked, ended, writeFailed>>

CancelNext(j) ==
    /\ pc[j] = "sweep"
    /\ IF sweep[j] = {}
       THEN At(j, "sweep", "inTurn") /\ UNCHANGED <<cancelled, sweep, asked>>
       ELSE \E k \in sweep[j] :
                /\ cancelled' = [cancelled EXCEPT ![k] = TRUE]
                /\ sweep' = [sweep EXCEPT ![j] = @ \ {k}]
                /\ asked' = asked \cup {k}
                /\ pc' = pc
    /\ UNCHANGED <<kind, root, holding, slots, status, tokens, store, world,
                   ended, fresh, writeFailed>>

-----------------------------------------------------------------------------
(* Users, the parent's turn, deletion.                                     *)

Cancel(j) ==
    /\ status[j] \in Open
    /\ ~cancelled[j]
    /\ cancelled' = [cancelled EXCEPT ![j] = TRUE]
    /\ asked' = asked \cup {j}
    /\ UNCHANGED <<pc, kind, root, holding, slots, snaps, store, world,
                   ended, fresh, writeFailed>>

\* The tool call that started a job has not returned.
InToolCall(j) == IF Async(j) THEN pc[j] = "new" ELSE pc[j] \notin {"done", "gone"}

\* The turn of a parent ends by itself, once its tool calls have returned.
ParentTurnEnds(r) ==
    /\ turn[r] \in {"running", "cancelled"}
    /\ \A j \in Tree(r) : ~InToolCall(j)
    /\ turn' = [turn EXCEPT ![r] = "ended"]
    /\ UNCHANGED <<job, slots, snaps, store, parent, deleting, crashes, ghost>>

\* CancelTurn: the context of the turn, then (CancelTree) every job listed then.
CancelTurn(r) ==
    /\ turn[r] = "running"
    /\ turn' = [turn EXCEPT ![r] = "cancelled"]
    /\ UNCHANGED <<job, slots, snaps, store, parent, deleting, crashes, ghost>>

CancelTree(r) ==
    /\ turn[r] # "running"
    /\ LET open == {j \in Tree(r) : status[j] \in Open /\ ~cancelled[j]}
       IN  /\ open # {}
           /\ cancelled' = [j \in Jobs |-> cancelled[j] \/ j \in open]
           /\ asked' = asked \cup open
    /\ UNCHANGED <<pc, kind, root, holding, slots, snaps, store, world,
                   ended, fresh, writeFailed>>

\* DeleteSession lists the children once, ...
DeleteList(r) ==
    /\ r \in parent /\ deleting[r] = None
    /\ deleting' = [deleting EXCEPT ![r] = kids \cap Tree(r)]
    /\ UNCHANGED <<job, slots, snaps, store, turn, parent, crashes, ghost>>

\* ... stops each, waits for it within the grace period, and removes it, ...
DeleteChild(r, j) ==
    /\ deleting[r] # None /\ j \in deleting[r]
    /\ deleting' = [deleting EXCEPT ![r] = @ \ {j}]
    /\ kids' = kids \ {j}
    /\ UNCHANGED <<job, slots, snaps, disk, turn, parent, crashes, ghost>>

\* ... and then stops and removes the parent.
DeleteParent(r) ==
    /\ deleting[r] = {} /\ r \in parent
    /\ parent' = parent \ {r}
    /\ turn' = [turn EXCEPT ![r] = IF @ = "running" THEN "cancelled" ELSE @]
    /\ UNCHANGED <<job, slots, snaps, store, deleting, crashes, ghost>>

-----------------------------------------------------------------------------
(* Crash and restart.                                                      *)

Recovered(s) == IF s \in Open THEN "interrupted" ELSE s

\* EnablePersistence: unfinished runs are interrupted, and nothing is replayed.
Restart ==
    /\ crashes < MaxCrashes
    /\ crashes' = crashes + 1
    /\ status' = [j \in Jobs |-> Recovered(disk[j])]
    /\ Persist(status')
    /\ pc' = [j \in Jobs |-> IF pc[j] = "none" THEN "none"
                             ELSE IF disk[j] \in Open THEN "interrupted" ELSE "gone"]
    /\ holding' = {} /\ asleep' = {} /\ globalActive' = 0
    /\ rootActive' = [r \in Roots |-> 0]
    /\ sweep' = [j \in Jobs |-> {}]
    /\ turn' = [r \in Roots |-> "ended"]
    /\ deleting' = [r \in Roots |-> None]
    /\ tokens' \in [Roots -> 0 .. TokenBound]
    /\ \A r \in Roots :   \* the count of a tree survives in the snapshots it was written to
          tokens'[r] \in IF \E j \in Tree(r) : disk[j] # "none" THEN {0, tokens[r]} ELSE {0}
    /\ UNCHANGED <<kind, root, cancelled, limits, kids, parent, asked, ended, fresh>>

AnnounceInterrupted(j) ==
    /\ At(j, "interrupted", "gone")
    /\ ended' = [ended EXCEPT ![j] = Append(@, "interrupted")]
    /\ UNCHANGED <<kind, root, holding, cancelled, slots, snaps, store, world,
                   asked, fresh, writeFailed>>

-----------------------------------------------------------------------------
JobStep(j) ==
    \/ Launch(j) \/ AcquireSlot(j) \/ WaitForSlot(j) \/ Wake(j) \/ GiveUp(j)
    \/ FindParent(j) \/ CreateChild(j) \/ CreateFails(j) \/ TurnEnds(j)
    \/ Record(j) \/ Announce(j) \/ ReleaseSlot(j) \/ ListTree(j) \/ CancelNext(j)
    \/ AnnounceInterrupted(j)

Next ==
    \/ \E j \in Jobs : \/ JobStep(j) \/ ObserveUsage(j) \/ Cancel(j)
                       \/ ParentEnds(j)
    \/ \E j \in Jobs, r \in Roots : Start(j, r) \/ Spawn(j, r) \/ DeleteChild(r, j)
    \/ \E r \in Roots : \/ ParentTurnEnds(r) \/ CancelTurn(r) \/ CancelTree(r)
                        \/ DeleteList(r) \/ DeleteParent(r)
    \/ \E l \in Limits : UpdateLimits(l)
    \/ Restart

Spec == Init /\ [][Next]_vars

\* Goroutines go on, and a child's turn ends at its timeout at the latest.
Fairness ==
    \A j \in Jobs : WF_vars(JobStep(j)) /\ WF_vars(ParentEnds(j)) /\ WF_vars(TurnEnds(j))

FairSpec == Spec /\ Fairness

-----------------------------------------------------------------------------
\* The two counters are the goroutines that have a slot, per tree and in all, and
\* nobody sleeps on the one channel of both limits beside a slot it could take: no
\* wake-up is lost between a release, new limits, and a job that looks and waits.
SleepersHaveNoSlot ==
    /\ globalActive = Cardinality(holding)
    /\ \A r \in Roots : rootActive[r] = Cardinality(holding \cap Tree(r))
    /\ \A j \in asleep : pc[j] = "wait" /\ ~HasSlot(root[j])

\* As long as agent-runs.json can be written, the end of a job is announced at most
\* once and stands, in memory and on disk, across a crash at any moment; and a job that
\* reads as unfinished, also after a restart, has a goroutine that ends it.
EndStands ==
    /\ ~writeFailed =>
           \A j \in Jobs :
               ended[j] # <<>> =>
                   Len(ended[j]) = 1 /\ status[j] = ended[j][1] /\ disk[j] = ended[j][1]
    /\ \A j \in Jobs :
           status[j] \in Open => pc[j] \notin {"none", "interrupted", "done", "gone"}

\* Once a tree is over its budget and the sweep for it is through, every job that
\* was queued or running when the sweep began is cancelled.
BudgetStopsJobs ==
    \A j \in Jobs :
        /\ status[j] \in Open /\ tokens[root[j]] >= MaxTokens /\ j \notin fresh
        /\ \A k \in Tree(root[j]) : pc[k] \notin {"list", "sweep"}
        => cancelled[j]

\* A job that was started ends: no limit, cancellation, deletion or loss of its
\* parent leaves it waiting for ever.
JobsSettle ==
    \A j \in Jobs : pc[j] # "none" ~> pc[j] \in {"done", "gone"}

-----------------------------------------------------------------------------
(* A promise the code does not keep; a run finds the counterexample.        *)

\* tools.go:79: spawn_agent starts a child asynchronously and returns at once; so
\* while its parent's turn goes on, only somebody's request cancels the child.
SpawnOutlivesCall ==
    \A j \in Jobs : cancelled[j] => j \in asked \/ turn[root[j]] # "running"
=============================================================================
