---------------------------- MODULE SubAgentsProofs ----------------------------
(***************************************************************************)
(* Machine-checked proofs about SubAgents: slots and their waiters, the    *)
(* end of a job across crashes, and the budget of a tree, for any number   *)
(* of jobs, parents, limits, crashes and failed writes.                    *)
(***************************************************************************)
EXTENDS SubAgents, Integers, TLAPS, FiniteSetTheorems, SequenceTheorems

-----------------------------------------------------------------------------
(* The invariant.                                                          *)

Waiting == {"new", "acquire", "wait"}
Working == {"spawning", "creating", "inTurn", "list", "sweep"}
Closing == {"record", "announce"}
Places  == Waiting \cup Working \cup Closing
             \cup {"none", "release", "done", "interrupted", "gone"}
Statuses == Open \cup Final \cup {"none"}

Types ==
    /\ pc \in [Jobs -> Places] /\ kind \in [Jobs -> {"async", "sync"}]
    /\ root \in [Jobs -> Roots \cup {None}] /\ cancelled \in [Jobs -> BOOLEAN]
    /\ holding \subseteq Jobs /\ asleep \subseteq Jobs
    /\ limits \in [global : Nat, perRoot : Nat]
    /\ globalActive \in Int /\ rootActive \in [Roots -> Int]
    /\ status \in [Jobs -> Statuses] /\ disk \in [Jobs -> Statuses]
    /\ tokens \in [Roots -> Nat] /\ sweep \in [Jobs -> SUBSET Jobs]
    /\ ended \in [Jobs -> Seq(Statuses)] /\ writeFailed \in BOOLEAN

\* The snapshot of a job says where its goroutine is; sync jobs have none.
Shape(j) ==
    /\ pc[j] = "none" => Async(j) /\ status[j] = "none" /\ disk[j] = "none"
    /\ pc[j] # "none" => root[j] \in Roots
    /\ ~Async(j) => /\ status[j] = "none" /\ disk[j] = "none"
                    /\ pc[j] \notin {"new", "interrupted"} \cup Closing
    /\ Async(j) /\ pc[j] \in Waiting => status[j] = "queued"
    /\ Async(j) /\ pc[j] \in Working => status[j] = "running"
    /\ Async(j) /\ pc[j] \in Closing \cup {"release", "done"} => status[j] \in Final
    /\ pc[j] = "interrupted" => status[j] = "interrupted"
    /\ pc[j] = "gone" => status[j] \notin Open

\* The deferred releaseSlot is pending exactly while a job works, and until it has
\* ended if it had a slot.
SlotShape ==
    /\ IsFiniteSet(holding)
    /\ \A j \in Jobs : /\ j \in holding => pc[j] \in Working \cup Closing \cup {"release"}
                       /\ pc[j] \in Working \cup {"release"} => j \in holding

\* While writes succeed, what is about to be announced is on disk and was never
\* announced before, and what was announced is on disk.
Announced(j) ==
    /\ pc[j] \notin {"release", "done", "gone"} => ended[j] = <<>>
    /\ pc[j] \in {"announce", "interrupted"} => disk[j] = status[j]
    /\ ended[j] # <<>> => Len(ended[j]) = 1 /\ status[j] = ended[j][1] /\ disk[j] = ended[j][1]

\* A job that survives in a tree over budget is cancelled, new, or still in somebody's
\* list of jobs to cancel.
Swept(j) ==
    /\ status[j] \in Open /\ tokens[root[j]] >= MaxTokens /\ j \notin fresh
    => \/ cancelled[j]
       \/ \E k \in Tree(root[j]) : pc[k] = "list" \/ (pc[k] = "sweep" /\ j \in sweep[k])

ShapeInv  == Types /\ \A j \in Jobs : Shape(j)
SlotInv   == SlotShape /\ SleepersHaveNoSlot
EndInv    == ~writeFailed => \A j \in Jobs : Announced(j)
BudgetInv == \A j \in Jobs : Swept(j)

-----------------------------------------------------------------------------
(* Types and shapes.                                                       *)

LEMMA ShapeInit == Init => ShapeInv
<1> SUFFICES ASSUME Init PROVE ShapeInv
  OBVIOUS
<1>1. limits \in [global : Nat, perRoot : Nat]
  BY LimitsAssumption DEF Init
<1>2. ended \in [Jobs -> Seq(Statuses)]
  BY EmptySeq DEF Init
<1>4. Types
  <2>1. /\ pc \in [Jobs -> Places] /\ kind \in [Jobs -> {"async", "sync"}]
        /\ root \in [Jobs -> Roots \cup {None}] /\ cancelled \in [Jobs -> BOOLEAN]
        /\ holding \subseteq Jobs /\ asleep \subseteq Jobs
    BY DEF Init, Places
  <2>2. /\ globalActive \in Int /\ rootActive \in [Roots -> Int] /\ tokens \in [Roots -> Nat]
    BY DEF Init
  <2>3. /\ status \in [Jobs -> Statuses] /\ disk \in [Jobs -> Statuses]
        /\ sweep \in [Jobs -> SUBSET Jobs] /\ writeFailed \in BOOLEAN
    BY DEF Init, Statuses
  <2> QED BY <1>1, <1>2, <2>1, <2>2, <2>3 DEF Types
<1>3. ASSUME NEW j \in Jobs PROVE Shape(j)
  BY DEF Init, Shape, Async, Waiting, Working, Closing, Open
<1> QED BY <1>3, <1>4 DEF ShapeInv

\* persist writes what the manager holds, whatever it writes.
LEMMA PersistTypes ==
    ASSUME NEW f \in [Jobs -> Statuses], Persist(f), Types
    PROVE  /\ disk' \in [Jobs -> Statuses] /\ writeFailed' \in BOOLEAN
           /\ \A k \in Jobs : disk'[k] \in {disk[k], f[k]}
           /\ writeFailed => writeFailed'
           /\ ~writeFailed' => disk' = f
BY DEF Persist, Types

\* A step that moves one job: the others keep their shape.
LEMMA ShapeOfOne ==
    ASSUME ShapeInv, Types', NEW j \in Jobs, Shape(j)',
           \A k \in Jobs \ {j} : /\ pc'[k] = pc[k] /\ status'[k] = status[k]
                                 /\ kind'[k] = kind[k] /\ root'[k] = root[k],
           \A k \in Jobs : disk'[k] \in {disk[k], status'[k]}
    PROVE  ShapeInv'
<1>1. ASSUME NEW k \in Jobs, k # j PROVE Shape(k)'
  BY <1>1 DEF ShapeInv, Shape, Async
<1> QED BY <1>1 DEF ShapeInv

LEMMA JobStepShape ==
    ASSUME ShapeInv, NEW j \in Jobs, JobStep(j)
    PROVE  ShapeInv'
<1> USE DEF Places, Statuses, Waiting, Working, Closing, Final, Open
<1>1. Types /\ Shape(j)
  BY DEF ShapeInv
<1>2. CASE Launch(j)
  <2>1. Types'
    BY <1>1, <1>2, PersistTypes DEF Launch, At, Types, slots, snaps, world
  <2>2. Shape(j)' /\ \A k \in Jobs : disk'[k] \in {disk[k], status'[k]}
    BY <1>1, <1>2, PersistTypes DEF Launch, At, Types, Shape, Async, snaps
  <2> QED BY <1>2, <2>1, <2>2, ShapeOfOne DEF Launch, At, Types, snaps
<1>3. CASE AcquireSlot(j)
  <2>1. status' \in [Jobs -> Statuses]
    BY <1>1, <1>3 DEF AcquireSlot, Types
  <2>2. /\ disk' \in [Jobs -> Statuses] /\ writeFailed' \in BOOLEAN
        /\ \A k \in Jobs : disk'[k] \in {disk[k], status'[k]}
    BY <1>1, <1>3, <2>1, PersistTypes DEF AcquireSlot, Types
  <2>3. globalActive' \in Int /\ rootActive' \in [Roots -> Int]
    BY <1>1, <1>3 DEF AcquireSlot, Types, Shape
  <2>4. Types'
    BY <1>1, <1>3, <2>1, <2>2, <2>3 DEF AcquireSlot, At, Types, world
  <2>5. Shape(j)'
    BY <1>1, <1>3, <2>2 DEF AcquireSlot, At, Types, Shape, Async
  <2> QED BY <1>3, <2>2, <2>4, <2>5, ShapeOfOne DEF AcquireSlot, At, Types
<1>4. CASE WaitForSlot(j)
  <2>1. Types' /\ Shape(j)'
    BY <1>1, <1>4 DEF WaitForSlot, At, Types, Shape, Async, snaps, store, ghost
  <2> QED BY <1>4, <2>1, ShapeOfOne DEF WaitForSlot, At, Types, snaps, store
<1>5. CASE Wake(j)
  <2>1. Types' /\ Shape(j)'
    BY <1>1, <1>5 DEF Wake, At, Types, Shape, Async, slots, snaps, store, ghost
  <2> QED BY <1>5, <2>1, ShapeOfOne DEF Wake, At, Types, snaps, store
<1>6. CASE GiveUp(j)
  <2>1. Types'
    BY <1>1, <1>6 DEF GiveUp, At, Types, store, ghost
  <2>2. Shape(j)'
    BY <1>1, <1>6 DEF GiveUp, At, Types, Shape, Async, store
  <2> QED BY <1>6, <2>1, <2>2, ShapeOfOne DEF GiveUp, At, Types, store
<1>7. ASSUME pc[j] \in {"spawning", "creating", "inTurn"}, NEW result \in Final, Finish(j, result)
      PROVE  ShapeInv'
  <2>1. Types'
    BY <1>1, <1>7 DEF Finish, Types, slots, store, ghost
  <2>2. Shape(j)'
    BY <1>1, <1>7 DEF Finish, Types, Shape, Async, store
  <2> QED BY <1>7, <2>1, <2>2, ShapeOfOne DEF Finish, Types, store
<1>8. CASE FindParent(j)
  <2>1. CASE At(j, "spawning", "creating")
    <3>1. UNCHANGED <<kind, root, holding, cancelled, slots, snaps, store, world, ghost>>
      BY <1>1, <1>8, <2>1 DEF FindParent, At, Finish, Types
    <3>2. Types' /\ Shape(j)'
      BY <1>1, <2>1, <3>1 DEF At, Types, Shape, Async, slots, snaps, store, ghost
    <3> QED BY <2>1, <3>1, <3>2, ShapeOfOne DEF At, Types, snaps, store
  <2> QED BY <1>7, <1>8, <2>1 DEF FindParent
<1>9. CASE CreateChild(j)
  <2>1. /\ disk' \in [Jobs -> Statuses] /\ writeFailed' \in BOOLEAN
        /\ \A k \in Jobs : disk'[k] \in {disk[k], status'[k]}
    BY <1>1, <1>9, PersistTypes DEF CreateChild, Types
  <2>2. Types' /\ Shape(j)'
    BY <1>1, <1>9, <2>1 DEF CreateChild, At, Types, Shape, Async, slots, world
  <2> QED BY <1>9, <2>1, <2>2, ShapeOfOne DEF CreateChild, At, Types
<1>10. CASE CreateFails(j)
  BY <1>7, <1>10 DEF CreateFails
<1>11. CASE TurnEnds(j)
  BY <1>7, <1>11 DEF TurnEnds
<1>12. CASE Record(j)
  <2>1. /\ disk' \in [Jobs -> Statuses] /\ writeFailed' \in BOOLEAN
        /\ \A k \in Jobs : disk'[k] \in {disk[k], status'[k]}
    BY <1>1, <1>12, PersistTypes DEF Record, Types, snaps
  <2>2. Types' /\ Shape(j)'
    BY <1>1, <1>12, <2>1 DEF Record, At, Types, Shape, Async, slots, snaps, world
  <2> QED BY <1>12, <2>1, <2>2, ShapeOfOne DEF Record, At, Types, snaps
<1>13. CASE Announce(j)
  <2>1. ended' \in [Jobs -> Seq(Statuses)]
    BY <1>1, <1>13 DEF Announce, Types
  <2>2. Types'
    BY <1>1, <1>13, <2>1 DEF Announce, At, Types, slots, snaps, store
  <2>3. Shape(j)'
    BY <1>1, <1>13 DEF Announce, At, Types, Shape, Async, snaps, store
  <2> QED BY <1>13, <2>2, <2>3, ShapeOfOne DEF Announce, At, Types, snaps, store
<1>14. CASE ReleaseSlot(j)
  <2>1. globalActive' \in Int /\ rootActive' \in [Roots -> Int]
    BY <1>1, <1>14 DEF ReleaseSlot, At, Types, Shape
  <2>2. Types'
    BY <1>1, <1>14, <2>1 DEF ReleaseSlot, At, Types, snaps, store, ghost
  <2>3. Shape(j)'
    BY <1>1, <1>14 DEF ReleaseSlot, At, Types, Shape, Async, snaps, store
  <2> QED BY <1>14, <2>2, <2>3, ShapeOfOne DEF ReleaseSlot, At, Types, snaps, store
<1>15. CASE ListTree(j)
  <2>1. sweep' \in [Jobs -> SUBSET Jobs]
    BY <1>1, <1>15 DEF ListTree, Types, Tree
  <2>2. Types' /\ Shape(j)'
    BY <1>1, <1>15, <2>1 DEF ListTree, At, Types, Shape, Async, slots, store
  <2> QED BY <1>15, <2>2, ShapeOfOne DEF ListTree, At, Types, store
<1>16. CASE CancelNext(j)
  <2>1. /\ cancelled' \in [Jobs -> BOOLEAN] /\ sweep' \in [Jobs -> SUBSET Jobs]
        /\ pc' \in [Jobs -> Places] /\ \A k \in Jobs \ {j} : pc'[k] = pc[k]
        /\ pc[j] = "sweep" /\ pc'[j] \in {"sweep", "inTurn"}
    <3>1. CASE sweep[j] = {}
      BY <1>1, <1>16, <3>1 DEF CancelNext, At, Types
    <3>2. CASE sweep[j] # {}
      <4>1. PICK k \in sweep[j] :
               /\ cancelled' = [cancelled EXCEPT ![k] = TRUE]
               /\ sweep' = [sweep EXCEPT ![j] = @ \ {k}]
               /\ pc' = pc
        BY <1>16, <3>2 DEF CancelNext
      <4>2. sweep[j] \ {k} \in SUBSET Jobs /\ pc[j] = "sweep"
        BY <1>1, <1>16 DEF Types, CancelNext
      <4>3. sweep' \in [Jobs -> SUBSET Jobs] /\ cancelled' \in [Jobs -> BOOLEAN]
        BY <1>1, <4>1, <4>2 DEF Types
      <4> QED BY <1>1, <4>1, <4>2, <4>3 DEF Types
    <3> QED BY <3>1, <3>2
  <2>2. Types' /\ Shape(j)'
    BY <1>1, <1>16, <2>1 DEF CancelNext, Types, Shape, Async, slots, store
  <2> QED BY <1>16, <2>1, <2>2, ShapeOfOne DEF CancelNext, Types, store
<1>17. CASE AnnounceInterrupted(j)
  <2>1. ended' \in [Jobs -> Seq(Statuses)]
    BY <1>1, <1>17 DEF AnnounceInterrupted, Types
  <2>2. Types' /\ Shape(j)'
    BY <1>1, <1>17, <2>1 DEF AnnounceInterrupted, At, Types, Shape, Async, slots, snaps, store
  <2> QED BY <1>17, <2>2, ShapeOfOne DEF AnnounceInterrupted, At, Types, snaps, store
<1> QED BY <1>2, <1>3, <1>4, <1>5, <1>6, <1>8, <1>9, <1>10, <1>11, <1>12, <1>13, <1>14,
           <1>15, <1>16, <1>17 DEF JobStep

\* Starting a job gives it its root and, to an async job, its snapshot.
LEMMA StartShape ==
    ASSUME ShapeInv, NEW j \in Jobs, NEW r \in Roots, Start(j, r) \/ Spawn(j, r)
    PROVE  ShapeInv'
<1> USE DEF Places, Statuses, Waiting, Working, Closing, Final, Open
<1>1. Types /\ Shape(j)
  BY DEF ShapeInv
<1>2. CASE Start(j, r)
  <2>1. Types' /\ Shape(j)'
    BY <1>1, <1>2 DEF Start, At, Types, Shape, Async, slots, store
  <2> QED BY <1>2, <2>1, ShapeOfOne DEF Start, At, Types, store
<1>3. CASE Spawn(j, r)
  <2>1. Types' /\ Shape(j)'
    BY <1>1, <1>3 DEF Spawn, At, Types, Shape, Async, slots, snaps, store, ghost
  <2> QED BY <1>3, <2>1, ShapeOfOne DEF Spawn, At, Types, snaps, store
<1> QED BY <1>2, <1>3

\* What runs beside the jobs moves none of them.
Beside ==
    \/ \E j \in Jobs : Cancel(j) \/ ParentEnds(j)
    \/ \E r \in Roots, j \in Jobs : DeleteChild(r, j)
    \/ \E r \in Roots : \/ ParentTurnEnds(r) \/ CancelTurn(r) \/ CancelTree(r)
                        \/ DeleteList(r) \/ DeleteParent(r)

LEMMA BesideStep ==
    ASSUME Types, Beside
    PROVE  /\ UNCHANGED <<pc, kind, root, holding, slots, snaps, disk, ended, fresh, writeFailed>>
           /\ cancelled' \in [Jobs -> BOOLEAN]
           /\ \A j \in Jobs : cancelled[j] => cancelled'[j]
<1>1. ASSUME NEW j \in Jobs, Cancel(j) \/ ParentEnds(j)
      PROVE  /\ UNCHANGED <<pc, kind, root, holding, slots, snaps, disk, ended, fresh, writeFailed>>
             /\ cancelled' = [cancelled EXCEPT ![j] = TRUE]
  BY <1>1 DEF Cancel, ParentEnds, store, ghost
<1>2. ASSUME NEW r \in Roots, CancelTree(r)
      PROVE  /\ UNCHANGED <<pc, kind, root, holding, slots, snaps, disk, ended, fresh, writeFailed>>
             /\ \E open : cancelled' = [j \in Jobs |-> cancelled[j] \/ j \in open]
  BY <1>2 DEF CancelTree, store
<1>3. ASSUME NEW r \in Roots,
             \/ \E j \in Jobs : DeleteChild(r, j)
             \/ ParentTurnEnds(r) \/ CancelTurn(r) \/ DeleteList(r) \/ DeleteParent(r)
      PROVE  /\ UNCHANGED <<pc, kind, root, holding, slots, snaps, disk, ended, fresh, writeFailed>>
             /\ cancelled' = cancelled
  BY <1>3 DEF DeleteChild, ParentTurnEnds, CancelTurn, DeleteList, DeleteParent, job, store, ghost
<1>4. CASE \E j \in Jobs : Cancel(j) \/ ParentEnds(j)
  BY <1>1, <1>4 DEF Types
<1>5. CASE \E r \in Roots : CancelTree(r)
  <2>1. PICK open : cancelled' = [j \in Jobs |-> cancelled[j] \/ j \in open]
    BY <1>2, <1>5
  <2>2. cancelled' \in [Jobs -> BOOLEAN] /\ \A j \in Jobs : cancelled[j] => cancelled'[j]
    BY <2>1, Zenon DEF Types
  <2> QED BY <1>2, <1>5, <2>2
<1> QED BY <1>3, <1>4, <1>5 DEF Beside, Types

LEMMA ObserveShape ==
    ASSUME ShapeInv, NEW j \in Jobs, ObserveUsage(j)
    PROVE  ShapeInv'
<1> USE DEF Places, Statuses, Waiting, Working, Closing, Final, Open
<1>1. Types /\ Shape(j)
  BY DEF ShapeInv
<1>2. /\ disk' \in [Jobs -> Statuses] /\ writeFailed' \in BOOLEAN
      /\ \A k \in Jobs : disk'[k] \in {disk[k], status'[k]}
  BY <1>1, PersistTypes DEF ObserveUsage, Types
<1>3. /\ pc' \in [Jobs -> Places] /\ \A k \in Jobs \ {j} : pc'[k] = pc[k]
      /\ pc[j] = "inTurn" /\ pc'[j] \in {"list", "inTurn"} /\ tokens' \in [Roots -> Nat]
  <2>1. tokens[root[j]] \in Nat /\ pc[j] = "inTurn"
    BY <1>1 DEF ObserveUsage, Types, Shape
  <2>2. tokens' \in [Roots -> Nat]
    <3>1. tokens' = [tokens EXCEPT ![root[j]] = tokens[root[j]] + 1]
      BY DEF ObserveUsage
    <3>2. tokens[root[j]] + 1 \in Nat
      BY <2>1
    <3> QED BY <1>1, <3>1, <3>2 DEF Types
  <2>3. PICK to \in {"list", "inTurn"} : pc' = [pc EXCEPT ![j] = to]
    BY DEF ObserveUsage, At
  <2> QED BY <1>1, <2>1, <2>2, <2>3 DEF Types
<1>4. Types' /\ Shape(j)'
  BY <1>1, <1>2, <1>3 DEF ObserveUsage, Types, Shape, Async, slots, world
<1> QED BY <1>2, <1>3, <1>4, ShapeOfOne DEF ObserveUsage, Types

\* After a restart a job is as its file says, and none is open.
LEMMA RestartShape ==
    ASSUME ShapeInv, Restart
    PROVE  ShapeInv'
<1> USE DEF Places, Statuses, Waiting, Working, Closing, Final, Open
<1>1. Types
  BY DEF ShapeInv
<1>2. status' \in [Jobs -> Statuses] /\ \A j \in Jobs : status'[j] = Recovered(disk[j])
  BY <1>1 DEF Restart, Types, Recovered
<1>3. /\ disk' \in [Jobs -> Statuses] /\ writeFailed' \in BOOLEAN
      /\ \A k \in Jobs : disk'[k] \in {disk[k], status'[k]}
  BY <1>1, <1>2, PersistTypes DEF Restart
<1>4. tokens' \in [Roots -> Nat]
  BY BoundsAssumption DEF Restart
<1>5. Types'
  BY <1>1, <1>2, <1>3, <1>4 DEF Restart, Types
<1>6. ASSUME NEW j \in Jobs PROVE Shape(j)'
  <2>1. pc'[j] = IF pc[j] = "none" THEN "none"
                 ELSE IF disk[j] \in Open THEN "interrupted" ELSE "gone"
    BY DEF Restart
  <2>2. kind' = kind /\ root' = root
    BY DEF Restart
  <2> QED BY <1>2, <1>3, <2>1, <2>2 DEF ShapeInv, Shape, Async, Recovered, Types
<1> QED BY <1>5, <1>6 DEF ShapeInv

\* The steps of the system, sorted by what they do to jobs.
LEMMA NextSorted ==
    ASSUME [Next]_vars
    PROVE  \/ \E j \in Jobs : JobStep(j) \/ ObserveUsage(j)
           \/ \E j \in Jobs, r \in Roots : Start(j, r) \/ Spawn(j, r)
           \/ Beside \/ Restart \/ UNCHANGED vars
           \/ \E l \in Limits : UpdateLimits(l)
BY DEF Next, Beside

LEMMA ShapeFrame ==
    ASSUME ShapeInv, UNCHANGED <<pc, kind, root, holding, snaps, disk, ended, writeFailed>>,
           asleep' \subseteq Jobs, cancelled' \in [Jobs -> BOOLEAN],
           limits' \in [global : Nat, perRoot : Nat],
           UNCHANGED <<globalActive, rootActive>>
    PROVE  ShapeInv'
BY DEF ShapeInv, Types, Shape, Async, snaps

LEMMA ShapeNext == ShapeInv /\ [Next]_vars => ShapeInv'
<1> SUFFICES ASSUME ShapeInv, [Next]_vars PROVE ShapeInv'
  OBVIOUS
<1>1. Types
  BY DEF ShapeInv
<1>2. CASE Beside
  BY <1>1, <1>2, BesideStep, ShapeFrame DEF Types, slots
<1>3. ASSUME NEW l \in Limits, UpdateLimits(l) PROVE ShapeInv'
  <2>1. limits' \in [global : Nat, perRoot : Nat] /\ asleep' = {}
    BY <1>3, LimitsAssumption DEF UpdateLimits
  <2> QED BY <1>1, <1>3, <2>1, ShapeFrame DEF UpdateLimits, Types, job, store, ghost
<1>4. CASE UNCHANGED vars
  BY <1>1, <1>4, ShapeFrame DEF Types, vars, job, slots, snaps, store, ghost
<1> QED BY <1>2, <1>3, <1>4, NextSorted, JobStepShape, ObserveShape, StartShape, RestartShape

LEMMA ShapeAlways == Spec => []ShapeInv
BY ShapeInit, ShapeNext, PTL DEF Spec

-----------------------------------------------------------------------------
(* Slots and those who wait for one.                                       *)

LEMMA SlotInit == Init => SlotInv
<1> SUFFICES ASSUME Init PROVE SlotInv
  OBVIOUS
<1>1. IsFiniteSet(holding) /\ Cardinality(holding) = 0
  BY FS_EmptySet DEF Init
<1>2. \A r \in Roots : holding \cap Tree(r) = {}
  BY DEF Init
<1> QED BY <1>1, <1>2, FS_EmptySet
        DEF Init, SlotInv, SlotShape, SleepersHaveNoSlot, Working, Closing

\* Steps that leave the slots alone.
LEMMA SlotFrame ==
    ASSUME SlotInv, UNCHANGED <<root, holding, limits, globalActive, rootActive>>,
           \A j \in asleep' : pc'[j] = "wait" /\ (j \in asleep \/ ~HasSlot(root[j])),
           \A j \in Jobs : /\ j \in holding => pc'[j] \in Working \cup Closing \cup {"release"}
                           /\ pc'[j] \in Working \cup {"release"} => j \in holding
    PROVE  SlotInv'
BY DEF SlotInv, SlotShape, SleepersHaveNoSlot, Tree, HasSlot

\* One more goroutine has a slot, of its tree and of the kernel.
LEMMA SlotTaken ==
    ASSUME ShapeInv, SlotInv, NEW j \in Jobs, AcquireSlot(j)
    PROVE  SlotInv'
<1> DEFINE t == root[j]
<1>1. Types /\ t \in Roots /\ root' = root /\ limits' = limits
  BY DEF ShapeInv, Shape, AcquireSlot
<1>2. j \notin holding /\ IsFiniteSet(holding)
  BY DEF SlotInv, SlotShape, AcquireSlot, Working, Closing
<1>3. /\ globalActive' = globalActive + 1
      /\ \A r \in Roots : rootActive'[r] = IF r = t THEN rootActive[r] + 1 ELSE rootActive[r]
      /\ holding' = holding \cup {j}
  BY <1>1 DEF AcquireSlot, Types
<1>4. \A k \in Jobs : pc'[k] = IF k = j THEN "spawning" ELSE pc[k]
  BY <1>1 DEF AcquireSlot, At, Types
<1>5. IsFiniteSet(holding') /\ globalActive' = Cardinality(holding')
  BY <1>2, <1>3, FS_AddElement DEF SlotInv, SleepersHaveNoSlot
<1>6. ASSUME NEW r \in Roots PROVE rootActive'[r] = Cardinality(holding' \cap Tree(r)')
  <2>1. Tree(r)' = Tree(r)
    BY <1>1 DEF Tree
  <2>2. rootActive[r] = Cardinality(holding \cap Tree(r)) /\ IsFiniteSet(holding \cap Tree(r))
    BY <1>2, FS_Subset DEF SlotInv, SleepersHaveNoSlot
  <2>3. CASE r = t
    <3>1. holding' \cap Tree(r) = (holding \cap Tree(r)) \cup {j}
      BY <1>3, <2>3 DEF Tree
    <3>2. Cardinality((holding \cap Tree(r)) \cup {j}) = Cardinality(holding \cap Tree(r)) + 1
      BY <1>2, <2>2, FS_AddElement
    <3> QED BY <1>3, <2>1, <2>2, <2>3, <3>1, <3>2
  <2>4. CASE r # t
    <3>1. holding' \cap Tree(r) = holding \cap Tree(r)
      BY <1>3, <2>4 DEF Tree
    <3> QED BY <1>3, <2>1, <2>2, <2>4, <3>1
  <2> QED BY <2>3, <2>4
<1>7. ASSUME NEW k \in asleep' PROVE pc'[k] = "wait" /\ ~HasSlot(root[k])'
  <2>1. k \in asleep /\ k \in Jobs
    BY <1>1 DEF AcquireSlot, Types
  <2>2. pc[k] = "wait" /\ ~HasSlot(root[k]) /\ pc[j] = "acquire"
    BY <2>1 DEF SlotInv, SleepersHaveNoSlot, AcquireSlot
  <2>3. root[k] \in Roots /\ root'[k] = root[k]
    BY <1>1, <2>1, <2>2 DEF ShapeInv, Shape
  <2>4. globalActive \in Int /\ rootActive[root[k]] \in Int
        /\ limits.global \in Nat /\ limits.perRoot \in Nat
    BY <1>1, <2>3 DEF Types
  <2>5. ~HasSlot(root[k])'
    BY <1>1, <1>3, <2>2, <2>3, <2>4 DEF HasSlot
  <2> QED BY <1>4, <2>1, <2>2, <2>5
<1>8. SlotShape'
  BY <1>3, <1>4, <1>5 DEF SlotInv, SlotShape, Working
<1> QED BY <1>5, <1>6, <1>7, <1>8 DEF SlotInv, SleepersHaveNoSlot

\* One less, and whoever waited looks again.
LEMMA SlotReleased ==
    ASSUME ShapeInv, SlotInv, NEW j \in Jobs, ReleaseSlot(j)
    PROVE  SlotInv'
<1> DEFINE t == root[j]
<1>1. Types /\ t \in Roots /\ root' = root /\ asleep' = {} /\ pc[j] = "release"
  BY DEF ShapeInv, Shape, ReleaseSlot, At
<1>2. j \in holding /\ IsFiniteSet(holding)
  BY <1>1 DEF SlotInv, SlotShape
<1>3. /\ globalActive' = globalActive - 1
      /\ \A r \in Roots : rootActive'[r] = IF r = t THEN rootActive[r] - 1 ELSE rootActive[r]
      /\ holding' = holding \ {j}
  BY <1>1 DEF ReleaseSlot, Types
<1>4. \A k \in Jobs : pc'[k] = IF k = j THEN "done" ELSE pc[k]
  BY <1>1 DEF ReleaseSlot, At, Types
<1>5. IsFiniteSet(holding') /\ globalActive' = Cardinality(holding')
  BY <1>2, <1>3, FS_RemoveElement DEF SlotInv, SleepersHaveNoSlot
<1>6. ASSUME NEW r \in Roots PROVE rootActive'[r] = Cardinality(holding' \cap Tree(r)')
  <2>1. Tree(r)' = Tree(r)
    BY <1>1 DEF Tree
  <2>2. rootActive[r] = Cardinality(holding \cap Tree(r)) /\ IsFiniteSet(holding \cap Tree(r))
    BY <1>2, FS_Subset DEF SlotInv, SleepersHaveNoSlot
  <2>3. CASE r = t
    <3>1. holding' \cap Tree(r) = (holding \cap Tree(r)) \ {j} /\ j \in holding \cap Tree(r)
      BY <1>2, <1>3, <2>3 DEF Tree
    <3> QED BY <1>3, <2>1, <2>2, <2>3, <3>1, FS_RemoveElement
  <2>4. CASE r # t
    <3>1. holding' \cap Tree(r) = holding \cap Tree(r)
      BY <1>3, <2>4 DEF Tree
    <3> QED BY <1>3, <2>1, <2>2, <2>4, <3>1
  <2> QED BY <2>3, <2>4
<1>7. SlotShape'
  BY <1>3, <1>4, <1>5 DEF SlotInv, SlotShape, Working
<1> QED BY <1>1, <1>5, <1>6, <1>7 DEF SlotInv, SleepersHaveNoSlot

LEMMA JobStepSlot ==
    ASSUME ShapeInv, SlotInv, NEW j \in Jobs, JobStep(j) \/ ObserveUsage(j)
    PROVE  SlotInv'
<1> USE DEF Working, Closing
<1>1. Types /\ asleep \subseteq Jobs /\ \A k \in asleep : pc[k] = "wait"
  BY DEF ShapeInv, Types, SlotInv, SleepersHaveNoSlot
<1>2. \A k \in Jobs : /\ k \in holding => pc[k] \in Working \cup Closing \cup {"release"}
                      /\ pc[k] \in Working \cup {"release"} => k \in holding
  BY DEF SlotInv, SlotShape
<1>3. ASSUME UNCHANGED <<root, holding, limits, globalActive, rootActive>>, asleep' \subseteq asleep,
             pc[j] # "wait" \/ j \notin asleep',
             \A k \in Jobs \ {j} : pc'[k] = pc[k],
             j \in holding => pc'[j] \in Working \cup Closing \cup {"release"},
             pc'[j] \in Working \cup {"release"} => j \in holding
      PROVE  SlotInv'
  <2>1. \A k \in asleep' : pc'[k] = "wait" /\ k \in asleep
    BY <1>1, <1>3
  <2> QED BY <1>2, <1>3, <2>1, SlotFrame
<1>4. CASE Launch(j)
  BY <1>1, <1>2, <1>3, <1>4 DEF Launch, At, Types, slots
<1>5. CASE WaitForSlot(j)
  <2>1. \A k \in Jobs : pc'[k] = IF k = j THEN "wait" ELSE pc[k]
    BY <1>1, <1>5 DEF WaitForSlot, At, Types
  <2>2. pc[j] = "acquire" /\ asleep' = asleep \cup {j} /\ ~HasSlot(root[j])
    BY <1>5 DEF WaitForSlot
  <2>3. \A k \in asleep' : pc'[k] = "wait" /\ (k \in asleep \/ ~HasSlot(root[k]))
    BY <1>1, <2>1, <2>2
  <2> QED BY <1>2, <1>5, <2>1, <2>2, <2>3, SlotFrame DEF WaitForSlot
<1>6. CASE Wake(j)
  BY <1>1, <1>2, <1>3, <1>6 DEF Wake, At, Types, slots
<1>7. CASE GiveUp(j)
  BY <1>1, <1>2, <1>3, <1>7 DEF GiveUp, At, Types
<1>8. ASSUME pc[j] \in {"spawning", "creating", "inTurn"}, NEW result, Finish(j, result)
      PROVE  SlotInv'
  BY <1>1, <1>2, <1>3, <1>8 DEF Finish, Types, slots
<1>9. CASE FindParent(j)
  <2>1. CASE ~(\E result : Finish(j, result))
    BY <1>1, <1>2, <1>3, <1>9, <2>1 DEF FindParent, At, Types, slots
  <2> QED BY <1>8, <1>9, <2>1 DEF FindParent
<1>10. CASE CreateChild(j)
  BY <1>1, <1>2, <1>3, <1>10 DEF CreateChild, At, Types, slots
<1>11. CASE CreateFails(j)
  BY <1>8, <1>11 DEF CreateFails
<1>12. CASE TurnEnds(j)
  BY <1>8, <1>12 DEF TurnEnds
<1>13. CASE Record(j)
  BY <1>1, <1>2, <1>3, <1>13 DEF Record, At, Types, slots
<1>14. CASE Announce(j)
  BY <1>1, <1>2, <1>3, <1>14 DEF Announce, At, Types, slots
<1>15. CASE ListTree(j)
  BY <1>1, <1>2, <1>3, <1>15 DEF ListTree, At, Types, slots
<1>16. CASE CancelNext(j)
  <2>1. \A k \in Jobs : pc'[k] = pc[k] \/ (k = j /\ pc'[k] = "inTurn")
    BY <1>1, <1>16 DEF CancelNext, At, Types
  <2>2. pc[j] = "sweep"
    BY <1>16 DEF CancelNext
  <2> QED BY <1>1, <1>2, <1>3, <1>16, <2>1, <2>2 DEF CancelNext, slots
<1>17. CASE AnnounceInterrupted(j)
  BY <1>1, <1>2, <1>3, <1>17 DEF AnnounceInterrupted, At, Types, slots
<1>18. CASE ObserveUsage(j)
  <2>1. \A k \in Jobs : pc'[k] = pc[k] \/ (k = j /\ pc'[k] = "list")
    BY <1>1, <1>18 DEF ObserveUsage, At, Types
  <2>2. pc[j] = "inTurn"
    BY <1>18 DEF ObserveUsage
  <2> QED BY <1>1, <1>2, <1>3, <1>18, <2>1, <2>2 DEF ObserveUsage, slots
<1> QED BY <1>4, <1>5, <1>6, <1>7, <1>9, <1>10, <1>11, <1>12, <1>13, <1>14, <1>15, <1>16, <1>17,
           <1>18, SlotTaken, SlotReleased DEF JobStep

LEMMA StartSlot ==
    ASSUME ShapeInv, SlotInv, NEW j \in Jobs, NEW r \in Roots, Start(j, r) \/ Spawn(j, r)
    PROVE  SlotInv'
<1> USE DEF Working, Closing
<1>1. Types
  BY DEF ShapeInv
<1>2. /\ pc[j] = "none" /\ UNCHANGED <<holding, limits, globalActive, rootActive, asleep>>
      /\ \A k \in Jobs \ {j} : root'[k] = root[k] /\ pc'[k] = pc[k]
      /\ pc'[j] \in {"new", "acquire"}
  BY <1>1 DEF Start, Spawn, At, Types, slots
<1>3. j \notin holding /\ j \notin asleep /\ holding \subseteq Jobs /\ asleep \subseteq Jobs
  BY <1>1, <1>2 DEF SlotInv, SlotShape, SleepersHaveNoSlot, Types
<1>4. \A t \in Roots : (holding \cap Tree(t))' = holding \cap Tree(t)
  BY <1>2, <1>3 DEF Tree
<1>5. \A k \in asleep' : pc'[k] = "wait" /\ ~HasSlot(root[k])'
  BY <1>2, <1>3 DEF SlotInv, SleepersHaveNoSlot, HasSlot
<1>6. SlotShape'
  BY <1>2, <1>3 DEF SlotInv, SlotShape
<1> QED BY <1>2, <1>4, <1>5, <1>6 DEF SlotInv, SleepersHaveNoSlot

LEMMA SlotNext == ShapeInv /\ SlotInv /\ [Next]_vars => SlotInv'
<1> SUFFICES ASSUME ShapeInv, SlotInv, [Next]_vars PROVE SlotInv'
  OBVIOUS
<1>1. Types /\ \A k \in asleep : pc[k] = "wait"
  BY DEF ShapeInv, SlotInv, SleepersHaveNoSlot
<1>2. ASSUME UNCHANGED <<pc, root, holding, slots>> PROVE SlotInv'
  BY <1>1, <1>2, SlotFrame DEF SlotInv, SlotShape, slots
<1>3. CASE Beside \/ UNCHANGED vars
  BY <1>1, <1>2, <1>3, BesideStep DEF vars, job
<1>4. ASSUME NEW l \in Limits, UpdateLimits(l) PROVE SlotInv'
  BY <1>4 DEF UpdateLimits, SlotInv, SlotShape, SleepersHaveNoSlot, Tree, job
<1>5. CASE Restart
  <2>1. /\ holding' = {} /\ asleep' = {} /\ globalActive' = 0
        /\ \A r \in Roots : rootActive'[r] = 0
        /\ \A j \in Jobs : pc'[j] \in {"none", "interrupted", "gone"}
    BY <1>5 DEF Restart
  <2>2. \A r \in Roots : (holding \cap Tree(r))' = {}
    BY <2>1
  <2> QED BY <2>1, <2>2, FS_EmptySet
          DEF SlotInv, SlotShape, SleepersHaveNoSlot, Working, Closing
<1> QED BY <1>3, <1>4, <1>5, NextSorted, JobStepSlot, StartSlot

\* The two slot counters count the goroutines that hold a slot, and nobody sleeps
\* beside a slot it could take, whatever the limits are and however often they change
\* (acquireSlot, releaseSlot, UpdateLimits).
THEOREM SlotsCounted == Spec => []SleepersHaveNoSlot
<1>1. Spec => []SlotInv
  BY SlotInit, SlotNext, ShapeAlways, PTL DEF Spec
<1>2. SlotInv => SleepersHaveNoSlot
  BY DEF SlotInv
<1> QED BY <1>1, <1>2, PTL

-----------------------------------------------------------------------------
(* The end of a job.                                                       *)

LEMMA EndInit == Init => EndInv
BY DEF Init, EndInv, Announced

\* A step that moves one job and writes the snapshots or does not.
LEMMA EndOfOne ==
    ASSUME EndInv, NEW j \in Jobs, writeFailed => writeFailed',
           ~writeFailed' => Announced(j)',
           \A k \in Jobs \ {j} : /\ pc'[k] = pc[k] /\ status'[k] = status[k]
                                 /\ ended'[k] = ended[k]
                                 /\ ~writeFailed' => disk'[k] \in {disk[k], status'[k]}
    PROVE  EndInv'
BY DEF EndInv, Announced

LEMMA JobStepEnd ==
    ASSUME ShapeInv, EndInv, NEW j \in Jobs, JobStep(j) \/ ObserveUsage(j)
    PROVE  EndInv'
<1> USE DEF Waiting, Working, Closing, Final, Open
<1>1. Types /\ Shape(j)
  BY DEF ShapeInv
<1>2. ~writeFailed => Announced(j)
  BY DEF EndInv
<1>3. ASSUME UNCHANGED <<status, ended>>, Persist(status),
             \A k \in Jobs \ {j} : pc'[k] = pc[k],
             pc[j] \notin {"announce", "interrupted", "release", "done", "gone"},
             pc'[j] \notin {"interrupted"}
      PROVE  EndInv'
  <2>1. /\ writeFailed => writeFailed'
        /\ ~writeFailed' => ~writeFailed /\ disk' = status'
    BY <1>1, <1>3, PersistTypes DEF Types
  <2>2. ~writeFailed' => Announced(j)'
    BY <1>2, <1>3, <2>1 DEF Announced
  <2> QED BY <1>3, <2>1, <2>2, EndOfOne
<1>4. ASSUME UNCHANGED <<status, ended, disk, writeFailed>>,
             \A k \in Jobs \ {j} : pc'[k] = pc[k],
             pc[j] \in {"release", "done", "gone"} => pc'[j] \in {"release", "done", "gone"},
             pc'[j] \notin {"announce", "interrupted"}
      PROVE  EndInv'
  <2>1. ~writeFailed' => Announced(j)'
    BY <1>2, <1>4 DEF Announced
  <2> QED BY <1>4, <2>1, EndOfOne
<1>5. CASE Launch(j)
  BY <1>1, <1>3, <1>5 DEF Launch, At, Types, snaps
<1>6. CASE AcquireSlot(j)
  <2>1. /\ pc[j] = "acquire" /\ pc'[j] = "spawning" /\ ended' = ended
        /\ \A k \in Jobs \ {j} : pc'[k] = pc[k] /\ status'[k] = status[k]
    BY <1>1, <1>6 DEF AcquireSlot, At, Types
  <2>2. status' \in [Jobs -> Statuses]
    BY <1>1, <1>6 DEF AcquireSlot, Types, Statuses
  <2>3. /\ writeFailed => writeFailed'
        /\ \A k \in Jobs : disk'[k] \in {disk[k], status'[k]}
    BY <1>1, <1>6, <2>2, PersistTypes DEF AcquireSlot
  <2>4. ~writeFailed' => Announced(j)'
    BY <1>2, <2>1, <2>3 DEF Announced
  <2> QED BY <2>1, <2>3, <2>4, EndOfOne
<1>7. CASE WaitForSlot(j)
  BY <1>1, <1>4, <1>7 DEF WaitForSlot, At, Types, snaps, store, ghost
<1>8. CASE Wake(j)
  BY <1>1, <1>4, <1>8 DEF Wake, At, Types, snaps, store, ghost
<1>9. ASSUME UNCHANGED <<ended, disk, writeFailed>>,
             \A k \in Jobs \ {j} : pc'[k] = pc[k] /\ status'[k] = status[k],
             pc[j] \in {"wait", "spawning", "creating", "inTurn"},
             pc'[j] \in {"record", "release", "done"}
      PROVE  EndInv'
  <2>1. ~writeFailed' => Announced(j)'
    BY <1>2, <1>9 DEF Announced
  <2> QED BY <1>9, <2>1, EndOfOne
<1>10. CASE GiveUp(j)
  BY <1>1, <1>9, <1>10 DEF GiveUp, At, Types, store, ghost
<1>11. ASSUME pc[j] \in {"spawning", "creating", "inTurn"}, NEW result, Finish(j, result)
       PROVE  EndInv'
  BY <1>1, <1>9, <1>11 DEF Finish, Types, store, ghost
<1>12. CASE FindParent(j)
  <2>1. CASE ~(\E result : Finish(j, result))
    BY <1>1, <1>4, <1>12, <2>1 DEF FindParent, At, Types, snaps, store, ghost
  <2> QED BY <1>11, <1>12, <2>1 DEF FindParent
<1>13. CASE CreateChild(j)
  <2>1. CASE Async(j)
    BY <1>1, <1>3, <1>13, <2>1 DEF CreateChild, At, Types
  <2>2. CASE ~Async(j)
    BY <1>1, <1>4, <1>13, <2>2 DEF CreateChild, At, Types
  <2> QED BY <2>1, <2>2
<1>14. CASE CreateFails(j)
  BY <1>11, <1>14 DEF CreateFails
<1>15. CASE TurnEnds(j)
  BY <1>11, <1>15 DEF TurnEnds
<1>16. CASE Record(j)
  BY <1>1, <1>3, <1>16 DEF Record, At, Types, snaps
<1>17. CASE Announce(j)
  <2>1. /\ pc[j] = "announce" /\ pc'[j] \in {"release", "done"}
        /\ UNCHANGED <<status, disk, writeFailed>>
        /\ ended' = [ended EXCEPT ![j] = Append(ended[j], status[j])]
        /\ \A k \in Jobs \ {j} : pc'[k] = pc[k]
    BY <1>1, <1>17 DEF Announce, At, Types, snaps, store
  <2>2. ~writeFailed => ended[j] = <<>> /\ ended'[j] = <<status[j]>> /\ disk[j] = status[j]
    BY <1>1, <1>2, <2>1 DEF Announced, Types
  <2>3. ~writeFailed' => Announced(j)'
    BY <2>1, <2>2 DEF Announced
  <2>4. \A k \in Jobs \ {j} : ended'[k] = ended[k]
    BY <1>1, <2>1 DEF Types
  <2> QED BY <2>1, <2>3, <2>4, EndOfOne
<1>18. CASE ReleaseSlot(j)
  BY <1>1, <1>4, <1>18 DEF ReleaseSlot, At, Types, snaps, store, ghost
<1>19. CASE ListTree(j)
  BY <1>1, <1>4, <1>19 DEF ListTree, At, Types, store
<1>20. CASE CancelNext(j)
  <2>1. \A k \in Jobs : pc'[k] = pc[k] \/ (k = j /\ pc'[k] = "inTurn")
    BY <1>1, <1>20 DEF CancelNext, At, Types
  <2>2. pc[j] = "sweep"
    BY <1>20 DEF CancelNext
  <2> QED BY <1>4, <1>20, <2>1, <2>2 DEF CancelNext, store
<1>21. CASE AnnounceInterrupted(j)
  <2>1. /\ pc[j] = "interrupted" /\ pc'[j] = "gone" /\ status[j] = "interrupted"
        /\ UNCHANGED <<status, disk, writeFailed>>
        /\ ended' = [ended EXCEPT ![j] = Append(ended[j], "interrupted")]
        /\ \A k \in Jobs \ {j} : pc'[k] = pc[k]
    BY <1>1, <1>21 DEF AnnounceInterrupted, At, Types, Shape, snaps, store
  <2>2. ~writeFailed => ended[j] = <<>> /\ ended'[j] = <<status[j]>> /\ disk[j] = status[j]
    BY <1>1, <1>2, <2>1 DEF Announced, Types
  <2>3. ~writeFailed' => Announced(j)'
    BY <2>1, <2>2 DEF Announced
  <2>4. \A k \in Jobs \ {j} : ended'[k] = ended[k]
    BY <1>1, <2>1 DEF Types
  <2> QED BY <2>1, <2>3, <2>4, EndOfOne
<1>22. CASE ObserveUsage(j)
  <2>1. \A k \in Jobs : pc'[k] = pc[k] \/ (k = j /\ pc'[k] = "list")
    BY <1>1, <1>22 DEF ObserveUsage, At, Types
  <2>2. pc[j] = "inTurn" /\ pc'[j] # "interrupted"
    BY <1>22, <2>1 DEF ObserveUsage
  <2> QED BY <1>3, <1>22, <2>1, <2>2 DEF ObserveUsage
<1> QED BY <1>5, <1>6, <1>7, <1>8, <1>10, <1>12, <1>13, <1>14, <1>15, <1>16, <1>17, <1>18, <1>19,
           <1>20, <1>21, <1>22 DEF JobStep

\* A restart interrupts only what the file shows unfinished, which was not announced.
LEMMA RestartEnd ==
    ASSUME ShapeInv, EndInv, Restart
    PROVE  EndInv'
<1>1. Types
  BY DEF ShapeInv
<1>2. status' \in [Jobs -> Statuses] /\ \A j \in Jobs : status'[j] = Recovered(disk[j])
  BY <1>1 DEF Restart, Types, Recovered, Statuses, Open, Final
<1>3. (writeFailed => writeFailed') /\ (~writeFailed' => disk' = status')
  BY <1>1, <1>2, PersistTypes DEF Restart
<1>4. ASSUME ~writeFailed', NEW j \in Jobs PROVE Announced(j)'
  <2>1. Announced(j) /\ Shape(j) /\ ended' = ended
    BY <1>3, <1>4 DEF EndInv, ShapeInv, Restart
  <2>2. /\ pc'[j] = IF pc[j] = "none" THEN "none"
                    ELSE IF disk[j] \in Open THEN "interrupted" ELSE "gone"
        /\ disk'[j] = status'[j] /\ status'[j] = IF disk[j] \in Open THEN "interrupted" ELSE disk[j]
    BY <1>2, <1>3, <1>4 DEF Restart, Recovered
  <2>3. ended[j] # <<>> => disk[j] = status[j] /\ disk[j] \notin Open /\ pc[j] # "none"
    BY <2>1 DEF Announced, Shape, Open, Final
  <2> QED BY <2>1, <2>2, <2>3 DEF Announced
<1> QED BY <1>4 DEF EndInv

LEMMA EndNext == ShapeInv /\ EndInv /\ [Next]_vars => EndInv'
<1> SUFFICES ASSUME ShapeInv, EndInv, [Next]_vars PROVE EndInv'
  OBVIOUS
<1>1. Types
  BY DEF ShapeInv
<1>2. ASSUME UNCHANGED <<pc, status, disk, ended, writeFailed>> PROVE EndInv'
  BY <1>2 DEF EndInv, Announced
<1>3. CASE Beside \/ UNCHANGED vars
  BY <1>1, <1>2, <1>3, BesideStep DEF vars, job, snaps, store, ghost
<1>4. ASSUME NEW l \in Limits, UpdateLimits(l) PROVE EndInv'
  BY <1>2, <1>4 DEF UpdateLimits, job, snaps, store, ghost
<1>5. ASSUME NEW j \in Jobs, NEW r \in Roots, Start(j, r) \/ Spawn(j, r) PROVE EndInv'
  <2>1. /\ pc[j] = "none" /\ pc'[j] \in {"new", "acquire"}
        /\ UNCHANGED <<disk, ended, writeFailed>>
        /\ \A k \in Jobs \ {j} : pc'[k] = pc[k] /\ status'[k] = status[k]
    BY <1>1, <1>5 DEF Start, Spawn, At, Types, snaps, store, ghost
  <2>2. ~writeFailed' => Announced(j)'
    BY <2>1 DEF EndInv, Announced
  <2> QED BY <2>1, <2>2, EndOfOne
<1> QED BY <1>3, <1>4, <1>5, NextSorted, JobStepEnd, RestartEnd

\* The end of a job is announced once and stands, however often the kernel crashes, as
\* long as agent-runs.json can be written; and an open snapshot always has a goroutine
\* (finishState, persist, EnablePersistence).
THEOREM EndsStand == Spec => []EndStands
<1>1. Spec => [](ShapeInv /\ EndInv)
  BY EndInit, EndNext, ShapeAlways, PTL DEF Spec
<1>2. ShapeInv /\ EndInv => EndStands
  <2> SUFFICES ASSUME ShapeInv, EndInv PROVE EndStands
    OBVIOUS
  <2>1. ASSUME NEW j \in Jobs, status[j] \in Open
        PROVE  pc[j] \notin {"none", "interrupted", "done", "gone"}
    BY <2>1 DEF ShapeInv, Shape, Open, Final
  <2> QED BY <2>1 DEF EndInv, Announced, EndStands
<1> QED BY <1>1, <1>2, PTL

-----------------------------------------------------------------------------
(* The budget.                                                             *)

\* Steps that start no job, charge no tokens and touch no list of jobs to cancel.
LEMMA BudgetFrame ==
    ASSUME BudgetInv, UNCHANGED <<root, tokens, fresh>>,
           \A j \in Jobs : /\ status'[j] \in Open => status[j] \in Open
                           /\ cancelled[j] => cancelled'[j]
                           /\ pc[j] \in {"list", "sweep"} => pc'[j] = pc[j] /\ sweep'[j] = sweep[j]
    PROVE  BudgetInv'
<1> SUFFICES ASSUME NEW j \in Jobs,
                    status'[j] \in Open, tokens[root[j]] >= MaxTokens, j \notin fresh, ~cancelled'[j]
             PROVE  \E k \in Tree(root[j])' : pc'[k] = "list" \/ (pc'[k] = "sweep" /\ j \in sweep'[k])
  BY DEF BudgetInv, Swept
<1>1. PICK k \in Tree(root[j]) : pc[k] = "list" \/ (pc[k] = "sweep" /\ j \in sweep[k])
  BY DEF BudgetInv, Swept
<1> QED BY <1>1 DEF Tree

LEMMA JobStepBudget ==
    ASSUME ShapeInv, BudgetInv, NEW j \in Jobs, JobStep(j)
    PROVE  BudgetInv'
<1> USE DEF Waiting, Working, Closing, Final, Open
<1>1. Types /\ Shape(j)
  BY DEF ShapeInv
<1>2. ASSUME UNCHANGED <<root, tokens, fresh, cancelled, sweep>>, pc[j] \notin {"list", "sweep"},
             \A k \in Jobs \ {j} : pc'[k] = pc[k] /\ status'[k] = status[k],
             status'[j] \in Open => status[j] \in Open
      PROVE  BudgetInv'
  BY <1>2, BudgetFrame
<1>3. CASE Launch(j)
  BY <1>1, <1>2, <1>3 DEF Launch, At, Types, snaps
<1>4. CASE AcquireSlot(j)
  <2>1. \A k \in Jobs \ {j} : pc'[k] = pc[k] /\ status'[k] = status[k]
    BY <1>1, <1>4 DEF AcquireSlot, At, Types
  <2>2. status'[j] \in Open => status[j] \in Open
    BY <1>1, <1>4 DEF AcquireSlot, Types, Shape
  <2> QED BY <1>2, <1>4, <2>1, <2>2 DEF AcquireSlot
<1>5. CASE WaitForSlot(j)
  BY <1>1, <1>2, <1>5 DEF WaitForSlot, At, Types, snaps, ghost
<1>6. CASE Wake(j)
  BY <1>1, <1>2, <1>6 DEF Wake, At, Types, snaps, ghost
<1>7. CASE GiveUp(j)
  BY <1>1, <1>2, <1>7 DEF GiveUp, At, Types, ghost
<1>8. ASSUME pc[j] \in {"spawning", "creating", "inTurn"}, NEW result \in Final, Finish(j, result)
      PROVE  BudgetInv'
  BY <1>1, <1>2, <1>8 DEF Finish, Types, ghost
<1>9. CASE FindParent(j)
  <2>1. CASE ~(\E result \in Final : Finish(j, result))
    BY <1>1, <1>2, <1>9, <2>1 DEF FindParent, At, Types, snaps, ghost
  <2> QED BY <1>8, <1>9, <2>1 DEF FindParent
<1>10. CASE CreateChild(j)
  BY <1>1, <1>2, <1>10 DEF CreateChild, At, Types
<1>11. CASE CreateFails(j)
  BY <1>8, <1>11 DEF CreateFails
<1>12. CASE TurnEnds(j)
  BY <1>8, <1>12 DEF TurnEnds
<1>13. CASE Record(j)
  BY <1>1, <1>2, <1>13 DEF Record, At, Types, snaps
<1>14. CASE Announce(j)
  BY <1>1, <1>2, <1>14 DEF Announce, At, Types, snaps
<1>15. CASE ReleaseSlot(j)
  BY <1>1, <1>2, <1>15 DEF ReleaseSlot, At, Types, snaps, ghost
<1>16. CASE AnnounceInterrupted(j)
  BY <1>1, <1>2, <1>16 DEF AnnounceInterrupted, At, Types, snaps
<1>17. CASE ListTree(j)
  <2>1. /\ \A k \in Jobs : pc'[k] = IF k = j THEN "sweep" ELSE pc[k]
        /\ \A k \in Jobs \ {j} : sweep'[k] = sweep[k]
        /\ sweep'[j] = {k \in Tree(root[j]) : status[k] \in {"queued", "running"}}
        /\ fresh' = fresh \ Tree(root[j])
        /\ UNCHANGED <<root, cancelled, status, tokens>>
    BY <1>1, <1>17 DEF ListTree, At, Types
  <2> SUFFICES ASSUME NEW k \in Jobs, status[k] \in Open, tokens[root[k]] >= MaxTokens,
                      k \notin fresh', ~cancelled[k]
               PROVE  \E w \in Tree(root[k])' : pc'[w] = "list" \/ (pc'[w] = "sweep" /\ k \in sweep'[w])
    BY <2>1 DEF BudgetInv, Swept
  <2>2. CASE root[k] = root[j]
    <3>1. k \in sweep'[j] /\ pc'[j] = "sweep" /\ j \in Tree(root[k])'
      BY <2>1, <2>2 DEF Tree
    <3> QED BY <3>1
  <2>3. CASE root[k] # root[j]
    <3>1. k \notin fresh
      BY <2>1, <2>3 DEF Tree
    <3>2. PICK w \in Tree(root[k]) : pc[w] = "list" \/ (pc[w] = "sweep" /\ k \in sweep[w])
      BY <3>1 DEF BudgetInv, Swept
    <3>3. w # j /\ w \in Tree(root[k])'
      BY <2>1, <2>3, <3>2 DEF Tree
    <3> QED BY <2>1, <3>2, <3>3 DEF Tree
  <2> QED BY <2>2, <2>3
<1>18. CASE CancelNext(j)
  <2>1. pc[j] = "sweep" /\ UNCHANGED <<root, status, tokens, fresh>>
    BY <1>18 DEF CancelNext
  <2> SUFFICES ASSUME NEW k \in Jobs, status[k] \in Open, tokens[root[k]] >= MaxTokens,
                      k \notin fresh, ~cancelled'[k]
               PROVE  \E w \in Tree(root[k])' : pc'[w] = "list" \/ (pc'[w] = "sweep" /\ k \in sweep'[w])
    BY <2>1 DEF BudgetInv, Swept
  <2>2. ASSUME ~cancelled[k]
        PROVE  \E w \in Tree(root[k]) : pc[w] = "list" \/ (pc[w] = "sweep" /\ k \in sweep[w])
    BY <2>2 DEF BudgetInv, Swept
  <2>3. CASE sweep[j] = {}
    <3>1. /\ cancelled' = cancelled /\ sweep' = sweep
          /\ \A w \in Jobs \ {j} : pc'[w] = pc[w]
      BY <1>1, <1>18, <2>3 DEF CancelNext, At, Types
    <3>2. PICK w \in Tree(root[k]) : pc[w] = "list" \/ (pc[w] = "sweep" /\ k \in sweep[w])
      BY <2>2, <3>1
    <3>3. w # j
      BY <2>1, <2>3, <3>2
    <3> QED BY <2>1, <3>1, <3>2, <3>3 DEF Tree
  <2>4. CASE sweep[j] # {}
    <3>1. PICK x \in sweep[j] : /\ cancelled' = [cancelled EXCEPT ![x] = TRUE]
                                /\ sweep' = [sweep EXCEPT ![j] = sweep[j] \ {x}]
                                /\ pc' = pc
      BY <1>18, <2>4 DEF CancelNext
    <3>2. k # x /\ ~cancelled[k]
      BY <1>1, <3>1 DEF Types
    <3>3. PICK w \in Tree(root[k]) : pc[w] = "list" \/ (pc[w] = "sweep" /\ k \in sweep[w])
      BY <2>2, <3>2
    <3>4. pc[w] = "sweep" => k \in sweep'[w]
      BY <1>1, <3>1, <3>2, <3>3 DEF Types, Tree
    <3> QED BY <2>1, <3>1, <3>3, <3>4 DEF Tree
  <2> QED BY <2>3, <2>4
<1> QED BY <1>3, <1>4, <1>5, <1>6, <1>7, <1>9, <1>10, <1>11, <1>12, <1>13, <1>14, <1>15, <1>16,
           <1>17, <1>18 DEF JobStep

\* The goroutine that takes a tree over its budget goes on to list its jobs.
LEMMA ObserveBudget ==
    ASSUME ShapeInv, BudgetInv, NEW j \in Jobs, ObserveUsage(j)
    PROVE  BudgetInv'
<1>1. Types /\ root[j] \in Roots /\ pc[j] = "inTurn"
  BY DEF ShapeInv, Shape, ObserveUsage
<1>2. /\ UNCHANGED <<root, cancelled, status, sweep, fresh>>
      /\ tokens' = [tokens EXCEPT ![root[j]] = tokens[root[j]] + 1]
      /\ pc' = [pc EXCEPT ![j] = IF tokens'[root[j]] >= MaxTokens THEN "list" ELSE "inTurn"]
  BY DEF ObserveUsage, At
<1> SUFFICES ASSUME NEW k \in Jobs, status[k] \in Open, tokens'[root[k]] >= MaxTokens,
                    k \notin fresh, ~cancelled[k]
             PROVE  \E w \in Tree(root[k])' : pc'[w] = "list" \/ (pc'[w] = "sweep" /\ k \in sweep'[w])
  BY <1>2 DEF BudgetInv, Swept
<1>3. CASE root[k] = root[j]
  <2>1. pc'[j] = "list" /\ j \in Tree(root[k])'
    BY <1>1, <1>2, <1>3 DEF Types, Tree
  <2> QED BY <2>1
<1>4. CASE root[k] # root[j]
  <2>1. tokens[root[k]] >= MaxTokens
    BY <1>1, <1>2, <1>4 DEF Types
  <2>2. PICK w \in Tree(root[k]) : pc[w] = "list" \/ (pc[w] = "sweep" /\ k \in sweep[w])
    BY <2>1 DEF BudgetInv, Swept
  <2>3. pc'[w] = pc[w] /\ w \in Tree(root[k])'
    BY <1>1, <1>2, <2>2 DEF Types, Tree
  <2> QED BY <1>2, <2>2, <2>3
<1> QED BY <1>3, <1>4

\* A job that is started is new to the sweeps under way.
LEMMA StartBudget ==
    ASSUME ShapeInv, BudgetInv, NEW j \in Jobs, NEW r \in Roots, Start(j, r) \/ Spawn(j, r)
    PROVE  BudgetInv'
<1>1. Types /\ pc[j] = "none" /\ status[j] = "none"
  BY DEF ShapeInv, Shape, Start, Spawn, At
<1>2. /\ UNCHANGED <<tokens, sweep, cancelled>>
      /\ \A k \in Jobs \ {j} : pc'[k] = pc[k] /\ root'[k] = root[k] /\ status'[k] = status[k]
      /\ fresh \subseteq fresh' /\ (status'[j] \in Open => j \in fresh')
  BY <1>1 DEF Start, Spawn, At, Types, snaps, ghost, Open
<1> SUFFICES ASSUME NEW k \in Jobs, k # j, status[k] \in Open, tokens[root[k]] >= MaxTokens,
                    k \notin fresh, ~cancelled[k]
             PROVE  \E w \in Tree(root[k])' : pc'[w] = "list" \/ (pc'[w] = "sweep" /\ k \in sweep'[w])
  BY <1>2 DEF BudgetInv, Swept
<1>3. PICK w \in Tree(root[k]) : pc[w] = "list" \/ (pc[w] = "sweep" /\ k \in sweep[w])
  BY DEF BudgetInv, Swept
<1>4. w # j
  BY <1>1, <1>3
<1> QED BY <1>2, <1>3, <1>4 DEF Tree

LEMMA BudgetNext == ShapeInv /\ BudgetInv /\ [Next]_vars => BudgetInv'
<1> SUFFICES ASSUME ShapeInv, BudgetInv, [Next]_vars PROVE BudgetInv'
  OBVIOUS
<1>1. Types
  BY DEF ShapeInv
<1>2. ASSUME UNCHANGED <<pc, root, snaps, fresh>>, \A j \in Jobs : cancelled[j] => cancelled'[j]
      PROVE  BudgetInv'
  BY <1>2, BudgetFrame DEF snaps
<1>3. CASE Beside \/ UNCHANGED vars
  BY <1>1, <1>2, <1>3, BesideStep DEF vars, job, ghost
<1>4. ASSUME NEW l \in Limits, UpdateLimits(l) PROVE BudgetInv'
  BY <1>2, <1>4 DEF UpdateLimits, job, ghost
<1>5. CASE Restart
  <2>1. \A j \in Jobs : status'[j] \notin Open
    BY <1>5 DEF Restart, Recovered, Open
  <2> QED BY <2>1 DEF BudgetInv, Swept
<1> QED BY <1>3, <1>4, <1>5, NextSorted, JobStepBudget, ObserveBudget, StartBudget

LEMMA BudgetInit == Init => BudgetInv
BY DEF Init, BudgetInv, Swept, Open

\* In a tree over its budget every job that was open when the sweep began is cancelled
\* once no sweep is under way, whatever is started, finished or cancelled meanwhile
\* (observeUsage, CancelTree).
THEOREM BudgetStops == Spec => []BudgetStopsJobs
<1>1. Spec => []BudgetInv
  BY BudgetInit, BudgetNext, ShapeAlways, PTL DEF Spec
<1>2. BudgetInv => BudgetStopsJobs
  BY DEF BudgetInv, Swept, BudgetStopsJobs
<1> QED BY <1>1, <1>2, PTL
=============================================================================
