---------------------------- MODULE CompactionProofs ----------------------------
(***************************************************************************)
(* Proofs about context compaction: nothing of the history is lost to the  *)
(* model, groups stay whole, the user is heard in the own words and the    *)
(* segments of a checkpoint leave no gap, for sessions and messages of any *)
(* length, any number of routes and however often a session is compacted.  *)
(***************************************************************************)
EXTENDS Compaction, TLAPS, WellFoundedInduction, FiniteSetTheorems, SequenceTheorems

-----------------------------------------------------------------------------
(***************************************************************************)
(* Largest and smallest elements.                                          *)
(***************************************************************************)

LEMMA Smallest ==
  ASSUME NEW S \in SUBSET Nat, S # {}
  PROVE  \E x \in S : \A y \in S : x <= y
<1>1. PICK x \in S : \A y \in S : ~(<<y, x>> \in OpToRel(<, Nat))
  BY NatLessThanWellFounded, WFMin, Zenon
<1>2. \A y \in S : ~(y < x)
  BY <1>1 DEF OpToRel
<1> QED  BY <1>2

LEMMA MinFacts ==
  ASSUME NEW S \in SUBSET Nat, S # {}
  PROVE  Min(S) \in S /\ \A y \in S : Min(S) <= y
<1>1. \E x \in S : \A y \in S : x <= y
  BY Smallest
<1> QED  BY <1>1 DEF Min

LEMMA LargestFacts ==
  ASSUME NEW n \in Nat, NEW S \in SUBSET (1..n)
  PROVE  /\ Largest(S) \in 0..n
         /\ S = {} => Largest(S) = 0
         /\ S # {} => Largest(S) \in S /\ Largest(S) # 0
         /\ \A y \in S : y <= Largest(S)
<1>1. CASE S = {}
  BY <1>1 DEF Largest
<1>2. CASE S # {}
  <2> DEFINE T == {n - x : x \in S}
  <2>1. T \in SUBSET Nat /\ T # {}
    BY <1>2
  <2>2. PICK t \in T : \A u \in T : t <= u
    BY <2>1, Smallest
  <2>3. PICK x \in S : t = n - x  BY <2>2
  <2>4. \A y \in S : x >= y
    <3>1. SUFFICES ASSUME NEW y \in S PROVE x >= y
      OBVIOUS
    <3>2. n - y \in T  OBVIOUS
    <3>3. n - x <= n - y  BY <2>2, <2>3, <3>2
    <3>4. x \in Nat /\ y \in Nat  OBVIOUS
    <3> QED  BY <3>3, <3>4
  <2>5. Max(S) \in S /\ \A y \in S : Max(S) >= y
    BY <2>4 DEF Max
  <2>6. Largest(S) = Max(S)  BY <1>2 DEF Largest
  <2>7. Max(S) \in 1..n  BY <2>5
  <2> HIDE DEF T
  <2> QED  BY <1>2, <2>5, <2>6, <2>7
<1> QED  BY <1>1, <1>2

-----------------------------------------------------------------------------
(***************************************************************************)
(* The invariant.                                                          *)
(***************************************************************************)

Roles == {"user", "assistant", "tool", "system"}
Messages == [seq : Nat \ {0}, role : Roles, calls : Nat]
Segment == [from : Nat, through : Nat, absorbed : SUBSET Nat]
Active == Seqs(1, Len(content))

\* Messages are numbered in their order, and a turn answers one of the user.
ContentInv ==
    /\ content \in Seq(Messages) /\ nextSeq \in Nat \ {0} /\ route \in Routes
    /\ \A i \in DOMAIN content : content[i].seq < nextSeq
    /\ \A i, j \in DOMAIN content : i < j => content[i].seq < content[j].seq
    /\ inTurn \in BOOLEAN /\ (inTurn => LastUser # 0)

KnownTo(cp) == Absorbed(cp) \cup ({cp.anchor} \ {0})

\* A checkpoint knows the active messages it covers, or asks for the one of the user.
Sound(cp) ==
    /\ content # <<>> /\ cp.through \in 1 .. nextSeq - 1
    /\ KnownTo(cp) \subseteq Active
    /\ \A s \in Active : s <= cp.through => s \in KnownTo(cp)
    /\ cp.anchor \in Nat
    /\ cp.kind \in {"text", "native"}
    /\ cp.segments \in Seq(Segment)
    /\ IF cp.kind = "native" THEN cp.segments = <<>> ELSE cp.segments # <<>> /\ cp.state = {}
    /\ \A k \in DOMAIN cp.segments : cp.segments[k].from < nextSeq
    /\ inTurn => content[LastUser].seq > cp.through \/ content[LastUser].seq = cp.anchor

CheckpointInv == checkpoint # <<>> => Sound(checkpoint)

\* Cutting the messages there leaves no group in two.
CutsGroups(cut) ==
    \A g \in Groups : g > cut \/ (CompleteGroup(g) /\ GroupEnd(g) <= cut)

\* A plan folds what follows the previous checkpoint, whole groups only, and during a turn
\* not the message of the user without putting it back.
PlanInv(previous, plan) ==
    \E cut \in DOMAIN content, start \in DOMAIN content :
        /\ start <= cut /\ CutsGroups(cut)
        /\ plan.through = content[cut].seq
        /\ plan.from = content[1].seq /\ plan.newFrom = content[start].seq
        /\ \A i \in 1 .. start - 1 : previous # <<>> /\ content[i].seq <= previous.through
        /\ previous # <<>> => \A i \in start .. Len(content) : content[i].seq > previous.through
        /\ plan.source = Seqs(start, cut)
                         \cup (IF previous # <<>> /\ previous.anchor \notin {0, plan.anchor}
                               THEN {previous.anchor} ELSE {})
        /\ plan.summary = IF previous = <<>> \/ previous.kind = "native" THEN {} ELSE Absorbed(previous)
        /\ plan.anchor \in {0} \cup Active
        /\ inTurn => LastUser > cut \/ plan.anchor = content[LastUser].seq

\* A compaction plans against what its generator can read, and the text generator can
\* always plan again without it.
WorkInv ==
    work # <<>> =>
        /\ work = [phase |-> work.phase, previous |-> work.previous, plan |-> work.plan,
                   generator |-> work.generator, try |-> work.try]
        /\ work.phase \in {"auto", "standalone"} /\ (work.phase = "auto" <=> inTurn)
        /\ work.generator \in {"text", "native"} /\ work.previous \in {<<>>, checkpoint}
        /\ work.previous # <<>> /\ work.previous.kind = "native" =>
               work.generator = "native" /\ work.previous.route = route
        /\ work.plan # <<>> /\ PlanInv(work.previous, work.plan)
        /\ work.try = "first" => BuildPlan(<<>>, work.phase, 0) # <<>>

CompactionInv == ContentInv /\ CheckpointInv /\ WorkInv /\ GroupsWhole /\ SegmentsCover

-----------------------------------------------------------------------------
(***************************************************************************)
(* Where the messages may be cut.                                          *)
(***************************************************************************)

\* The messages from one of a group to the next group are the group.
LEMMA GroupEndFacts ==
  ASSUME ContentInv, NEW g \in Groups
  PROVE  /\ GroupEnd(g) \in g .. Len(content) /\ g \in 1 .. Len(content)
         /\ \A h \in Groups : ~(g < h /\ h <= GroupEnd(g))
         /\ GroupEnd(g) = Len(content) \/ GroupEnd(g) + 1 \in Groups
<1> DEFINE S == {Len(content) + 1} \cup {h \in Groups : h > g}
<1>1. Len(content) \in Nat /\ DOMAIN content = 1 .. Len(content) /\ Groups \subseteq DOMAIN content
  BY DEF ContentInv, Groups
<1>2. S \in SUBSET Nat /\ S # {}
  BY <1>1
<1>3. Min(S) \in S /\ \A y \in S : Min(S) <= y
  BY <1>2, MinFacts
<1>4. GroupEnd(g) = Min(S) - 1
  BY DEF GroupEnd
<1>5. Min(S) \in Nat /\ g \in Nat /\ g < Min(S) /\ Min(S) <= Len(content) + 1 /\ g <= Len(content)
  BY <1>1, <1>3
<1>6. \A h \in Groups : h > g => Min(S) <= h
  BY <1>3
<1>7. Min(S) = Len(content) + 1 \/ Min(S) \in Groups
  BY <1>3
<1> HIDE DEF S
<1> QED  BY <1>1, <1>4, <1>5, <1>6, <1>7

\* safePrefixCut: the end of a group, and every group up to there is complete.
LEMMA PrefixCutFacts ==
  ASSUME ContentInv, NEW desired \in Int
  PROVE  /\ safePrefixCut(desired) \in 0 .. Len(content)
         /\ safePrefixCut(desired) # 0 => /\ safePrefixCut(desired) <= desired
                                          /\ CutsGroups(safePrefixCut(desired))
<1> DEFINE Ends == {GroupEnd(g) : g \in {h \in Groups :
                        \A k \in Groups : k <= h => CompleteGroup(k)}}
           S == Ends \cap 1 .. desired
           cut == safePrefixCut(desired)
<1>1. Len(content) \in Nat /\ Groups \subseteq 1 .. Len(content)
  BY DEF ContentInv, Groups
<1>2. S \in SUBSET (1 .. Len(content))
  BY <1>1, GroupEndFacts
<1>3. cut = Largest(S)  BY DEF safePrefixCut
<1> HIDE DEF S
<1>4. cut \in 0 .. Len(content) /\ (cut # 0 => cut \in S)
  BY <1>1, <1>2, <1>3, LargestFacts
<1>5. ASSUME cut # 0 PROVE cut <= desired /\ CutsGroups(cut)
  <2>1. cut \in Ends /\ cut <= desired  BY <1>4, <1>5 DEF S
  <2>2. PICK h \in Groups : cut = GroupEnd(h) /\ \A k \in Groups : k <= h => CompleteGroup(k)
    BY <2>1
  <2> HIDE DEF cut, Ends
  <2>3. ASSUME NEW g \in Groups PROVE g > cut \/ (CompleteGroup(g) /\ GroupEnd(g) <= cut)
    <3>0. g \in Nat /\ h \in Nat  BY <1>1
    <3>1. CASE g > h
      BY <2>2, <3>0, <3>1, GroupEndFacts
    <3>2. CASE g = h
      BY <2>2, <3>0, <3>2, GroupEndFacts
    <3>3. CASE g < h
      <4>1. CompleteGroup(g)  BY <2>2, <3>0, <3>3
      <4>2. GroupEnd(g) \in Int /\ GroupEnd(h) \in Int /\ ~(h <= GroupEnd(g)) /\ h <= GroupEnd(h)
        BY <3>0, <3>3, GroupEndFacts
      <4> QED  BY <2>2, <3>0, <4>1, <4>2
    <3> QED  BY <3>0, <3>1, <3>2, <3>3
  <2> QED  BY <2>1, <2>3 DEF CutsGroups
<1> QED  BY <1>4, <1>5

LEMMA LastUserFacts ==
  ASSUME ContentInv
  PROVE  /\ LastUser \in 0 .. Len(content)
         /\ LastUser # 0 => LastUser \in DOMAIN content /\ content[LastUser].role = "user"
         /\ \A i \in DOMAIN content : content[i].role = "user" => i <= LastUser
<1> DEFINE S == {i \in DOMAIN content : content[i].role = "user"}
<1>1. Len(content) \in Nat /\ DOMAIN content = 1 .. Len(content)
  BY DEF ContentInv
<1>2. S \in SUBSET (1 .. Len(content))  BY <1>1
<1>3. /\ Largest(S) \in 0 .. Len(content)
      /\ S = {} => Largest(S) = 0
      /\ S # {} => Largest(S) \in S
      /\ \A y \in S : y <= Largest(S)
  BY <1>1, <1>2, LargestFacts
<1> QED  BY <1>3 DEF LastUser

\* MidTurnCut: everything but the last group is complete.
LEMMA MidTurnFacts ==
  ASSUME ContentInv
  PROVE  /\ MidTurnCut \in 0 .. Len(content)
         /\ MidTurnCut # 0 => LastUser # 0 /\ LastUser <= MidTurnCut /\ CutsGroups(MidTurnCut)
<1> DEFINE last == Largest(Groups)  After == {g \in Groups : g > LastUser}
<1>1. Len(content) \in Nat /\ Groups \in SUBSET (1 .. Len(content))
  BY DEF ContentInv, Groups
<1>2. last \in 0 .. Len(content) /\ \A g \in Groups : g <= last
  BY <1>1, LargestFacts
<1>3. LastUser \in 0 .. Len(content)  BY LastUserFacts
<1>4. CASE MidTurnCut = 0
  BY <1>1, <1>4
<1>5. CASE MidTurnCut # 0
  <2>1. /\ LastUser # 0 /\ Cardinality(After) >= 2 /\ MidTurnCut = last - 1
        /\ \A g \in Groups \ {last} : CompleteGroup(g)
    BY <1>5 DEF MidTurnCut
  <2>2. After # {}
    BY <2>1, FS_EmptySet
  <2>3. PICK h \in Groups : h > LastUser  BY <2>2
  <2>4. LastUser < last
    BY <1>1, <1>2, <1>3, <2>3
  <2> HIDE DEF last, After
  <2>5. ASSUME NEW g \in Groups PROVE g > last - 1 \/ (CompleteGroup(g) /\ GroupEnd(g) <= last - 1)
    <3>1. g \in Nat /\ g <= last  BY <1>1, <1>2
    <3>2. CASE g = last
      BY <1>2, <3>1, <3>2
    <3>3. CASE g # last
      <4>1. CompleteGroup(g)  BY <2>1, <3>3
      <4>2. last \in Groups
        BY <1>1, <2>3, LargestFacts DEF last
      <4>3. GroupEnd(g) \in Int /\ ~(last <= GroupEnd(g))
        BY <1>2, <3>1, <3>3, <4>2, GroupEndFacts
      <4> QED  BY <1>2, <4>1, <4>3
    <3> QED  BY <3>2, <3>3
  <2> QED  BY <1>1, <1>2, <1>3, <2>1, <2>4, <2>5 DEF CutsGroups
<1> QED  BY <1>4, <1>5

\* A set that holds with each position the ones before it is an initial segment.
LEMMA InitialSegment ==
  ASSUME NEW n \in Nat, NEW D \in SUBSET (1 .. n),
         \A i \in D, j \in 1 .. n : j <= i => j \in D
  PROVE  Cardinality(D) \in 0 .. n /\ D = 1 .. Cardinality(D)
<1>1. CASE D = 1 .. n
  <2>1. Cardinality(1 .. n) = n
    BY FS_Interval
  <2> QED  BY <1>1, <2>1
<1>2. CASE D # 1 .. n
  <2> DEFINE Rest == (1 .. n) \ D
  <2>1. Rest \in SUBSET Nat /\ Rest # {}
    <3>1. \E i \in 1 .. n : i \notin D
      BY <1>2, Zenon
    <3> QED  BY <3>1
  <2>2. PICK m \in Rest : \A y \in Rest : m <= y
    BY <2>1, Smallest
  <2>3. m \in 1 .. n /\ m \notin D
    BY <2>2
  <2>4. \A j \in 1 .. n : j < m => j \in D
    <3>1. SUFFICES ASSUME NEW j \in 1 .. n, j < m, j \notin D PROVE FALSE
      OBVIOUS
    <3>2. m <= j  BY <2>2, <3>1
    <3> QED  BY <2>3, <3>1, <3>2
  <2>5. \A j \in D : j < m
    <3>1. SUFFICES ASSUME NEW j \in D, m <= j PROVE FALSE
      BY <2>3
    <3> QED  BY <2>3, <3>1
  <2>6. D = 1 .. (m - 1)
    <3>1. \A j : j \in D => j \in 1 .. (m - 1)
      BY <2>3, <2>5
    <3>2. \A j : j \in 1 .. (m - 1) => j \in D
      BY <2>3, <2>4
    <3> QED  BY <3>1, <3>2, Zenon
  <2>7. Cardinality(1 .. (m - 1)) = m - 1
    BY <2>3, FS_Interval
  <2> QED  BY <2>3, <2>6, <2>7
<1> QED  BY <1>1, <1>2

-----------------------------------------------------------------------------
(***************************************************************************)
(* What a plan is.                                                         *)
(***************************************************************************)

Phases == {"standalone", "pre_turn", "mid_turn"}

\* Where a phase may cut, retreated or not.
LEMMA CutFacts ==
  ASSUME ContentInv, NEW phase \in Phases, NEW limit
  PROVE  LET cut == Retreated(planBoundary(phase), phase, limit) IN
         /\ cut \in 0 .. Len(content)
         /\ cut # 0 => /\ CutsGroups(cut)
                       /\ phase = "pre_turn" => cut < LastUser
                       /\ phase = "mid_turn" => LastUser # 0 /\ LastUser <= cut
<1> DEFINE b == planBoundary(phase)
           D == {i \in 1 .. b : content[i].seq <= limit}
           less == safePrefixCut(Cardinality(D))
           cut == Retreated(b, phase, limit)
<1>1. Len(content) \in Nat /\ LastUser \in 0 .. Len(content)
  BY LastUserFacts DEF ContentInv
<1>2. /\ b \in 0 .. Len(content)
      /\ b # 0 => /\ CutsGroups(b)
                  /\ phase = "pre_turn" => b < LastUser
                  /\ phase = "mid_turn" => LastUser # 0 /\ LastUser <= b
  <2>1. CASE phase = "standalone"
    BY <1>1, <2>1, PrefixCutFacts DEF planBoundary
  <2>2. CASE phase = "pre_turn"
    <3>1. b = safePrefixCut(LastUser - 1)
      BY <2>2 DEF planBoundary
    <3>2. LastUser - 1 \in Int  BY <1>1
    <3> HIDE DEF b
    <3> QED  BY <1>1, <2>2, <3>1, <3>2, PrefixCutFacts
  <2>3. CASE phase = "mid_turn"
    BY <1>1, <2>3, MidTurnFacts DEF planBoundary
  <2> QED  BY <2>1, <2>2, <2>3 DEF Phases
<1> HIDE DEF b
<1>3. cut = b \/ cut = 0 \/ (cut = less /\ (phase = "mid_turn" => ~(less <= LastUser) /\ b # 0))
  BY DEF Retreated
<1>4. Cardinality(D) \in Nat /\ Cardinality(D) <= b
  <2>1. D \in SUBSET (1 .. b)  OBVIOUS
  <2>2. IsFiniteSet(1 .. b) /\ Cardinality(1 .. b) = b
    BY <1>1, <1>2, FS_Interval
  <2> HIDE DEF D
  <2> QED  BY <2>1, <2>2, FS_Subset, FS_CardinalityType
<1> HIDE DEF D
<1>5. less \in 0 .. Len(content) /\ (less # 0 => less <= Cardinality(D) /\ CutsGroups(less))
  BY <1>4, PrefixCutFacts
<1> HIDE DEF less, cut
<1>6. CASE cut = b
  BY <1>2, <1>6 DEF cut, b
<1>7. CASE cut = 0
  BY <1>1, <1>7 DEF cut, b
<1>8. CASE cut = less /\ (phase = "mid_turn" => ~(less <= LastUser) /\ b # 0)
  <2>1. cut # 0 => b # 0
    BY <1>1, <1>2, <1>4, <1>5, <1>8
  <2> QED  BY <1>1, <1>2, <1>4, <1>5, <1>8, <2>1 DEF cut, b
<1> QED  BY <1>3, <1>6, <1>7, <1>8

LEMMA ContentFacts ==
  ASSUME ContentInv
  PROVE  /\ Len(content) \in Nat /\ DOMAIN content = 1 .. Len(content)
         /\ nextSeq \in Nat /\ nextSeq >= 1
         /\ \A i \in DOMAIN content : /\ content[i] \in Messages
                                      /\ content[i].seq \in Nat /\ content[i].seq >= 1
                                      /\ content[i].seq < nextSeq
         /\ \A i, j \in DOMAIN content : i < j => content[i].seq < content[j].seq
<1>1. Len(content) \in Nat /\ DOMAIN content = 1 .. Len(content)
  BY DEF ContentInv
<1>2. \A i \in DOMAIN content : content[i] \in Messages
  BY <1>1, ElementOfSeq DEF ContentInv
<1>3. \A m \in Messages : m.seq \in Nat /\ m.seq >= 1
  BY DEF Messages
<1> QED  BY <1>1, <1>2, <1>3 DEF ContentInv

\* The messages that a checkpoint covers come before the others.
LEMMA CoveredFirst ==
  ASSUME ContentInv, NEW done \in Int
  PROVE  LET covered == Cardinality({i \in DOMAIN content : content[i].seq <= done}) IN
         /\ covered \in 0 .. Len(content)
         /\ \A i \in 1 .. covered : content[i].seq <= done
         /\ \A i \in covered + 1 .. Len(content) : content[i].seq > done
<1> DEFINE D == {i \in DOMAIN content : content[i].seq <= done}
<1>1. Len(content) \in Nat /\ DOMAIN content = 1 .. Len(content)
  BY DEF ContentInv
<1>2. \A i \in 1 .. Len(content) : content[i].seq \in Nat
  BY <1>1, ContentFacts
<1>3. D \in SUBSET (1 .. Len(content))
  BY <1>1
<1>4. \A i \in D, j \in 1 .. Len(content) : j <= i => j \in D
  <2>1. SUFFICES ASSUME NEW i \in D, NEW j \in 1 .. Len(content), j <= i PROVE j \in D
    OBVIOUS
  <2>2. i \in DOMAIN content /\ j \in DOMAIN content /\ content[i].seq <= done
    BY <1>1
  <2>3. j = i \/ content[j].seq < content[i].seq
    BY <1>1, <2>1, <2>2 DEF ContentInv
  <2>4. content[j].seq \in Nat /\ content[i].seq \in Nat
    BY <1>1, <1>2, <2>2
  <2> QED  BY <2>2, <2>3, <2>4
<1>5. Cardinality(D) \in 0 .. Len(content) /\ D = 1 .. Cardinality(D)
  <2> HIDE DEF D
  <2> QED  BY <1>1, <1>3, <1>4, InitialSegment
<1>6. \A i \in 1 .. Cardinality(D) : content[i].seq <= done
  BY <1>5
<1>7. \A i \in Cardinality(D) + 1 .. Len(content) : i \notin D
  <2> HIDE DEF D
  <2> QED  BY <1>1, <1>5
<1>8. \A i \in Cardinality(D) + 1 .. Len(content) : content[i].seq > done
  BY <1>1, <1>2, <1>5, <1>7
<1> QED  BY <1>5, <1>6, <1>8

\* What PlanForPhase returns.
LEMMA PlanFacts ==
  ASSUME ContentInv, NEW phase \in Phases, NEW limit, NEW previous,
         previous # <<>> => previous.through \in Nat,
         inTurn => phase # "standalone",
         PlanForPhase(previous, phase, limit) # <<>>
  PROVE  PlanInv(previous, PlanForPhase(previous, phase, limit))
<1> DEFINE cut    == Retreated(planBoundary(phase), phase, limit)
           anchor == HeadAnchor(phase)
           done   == IF previous = <<>> THEN 0 ELSE previous.through
           covered == Cardinality({i \in DOMAIN content : content[i].seq <= done})
           start  == covered + 1
           plan   == PlanForPhase(previous, phase, limit)
<1>1. Len(content) \in Nat /\ DOMAIN content = 1 .. Len(content)
  BY DEF ContentInv
<1>2. /\ cut \in 0 .. Len(content)
      /\ cut # 0 => /\ CutsGroups(cut)
                    /\ phase = "pre_turn" => cut < LastUser
                    /\ phase = "mid_turn" => LastUser # 0 /\ LastUser <= cut
  BY CutFacts
<1>3. done \in Int
  OBVIOUS
<1>4. /\ covered \in 0 .. Len(content)
      /\ \A i \in 1 .. covered : content[i].seq <= done
      /\ \A i \in covered + 1 .. Len(content) : content[i].seq > done
  <2> HIDE DEF done
  <2> QED  BY <1>3, CoveredFirst
<1>5. cut # 0 /\ ~(start > cut)
  BY DEF PlanForPhase
<1>6. plan = [phase   |-> phase,
              anchor  |-> anchor,
              through |-> content[cut].seq,
              from    |-> content[1].seq,
              newFrom |-> content[start].seq,
              source  |-> Seqs(start, cut)
                          \cup (IF previous # <<>> /\ previous.anchor \notin {0, anchor}
                                THEN {previous.anchor} ELSE {}),
              summary |-> IF previous = <<>> \/ previous.kind = "native" THEN {}
                          ELSE Absorbed(previous)]
  BY <1>5 DEF PlanForPhase
<1>7. anchor = IF phase = "mid_turn" THEN content[LastUser].seq ELSE 0
  BY DEF HeadAnchor
<1> HIDE DEF cut, anchor, covered, plan
<1>8. cut \in DOMAIN content /\ start \in DOMAIN content /\ start <= cut
  BY <1>1, <1>2, <1>4, <1>5
<1>9. CutsGroups(cut)
  BY <1>2, <1>5
<1>10. \A i \in 1 .. start - 1 : previous # <<>> /\ content[i].seq <= previous.through
  <2>1. SUFFICES ASSUME NEW i \in 1 .. start - 1
                 PROVE previous # <<>> /\ content[i].seq <= previous.through
    OBVIOUS
  <2>2. i \in 1 .. covered /\ i \in DOMAIN content
    BY <1>1, <1>4
  <2>3. content[i].seq <= done /\ content[i].seq \in Nat \ {0}
    BY <1>4, <2>2, ContentFacts
  <2> QED  BY <2>3
<1>11. previous # <<>> => \A i \in start .. Len(content) : content[i].seq > previous.through
  BY <1>4
<1>12. phase = "mid_turn" => LastUser \in 1 .. Len(content)
  BY <1>2, <1>5, LastUserFacts, <1>1
<1>13. plan.anchor \in {0} \cup Active
  BY <1>1, <1>6, <1>7, <1>12 DEF Active, Seqs
<1>14. inTurn => LastUser > cut \/ plan.anchor = content[LastUser].seq
  BY <1>2, <1>5, <1>6, <1>7, LastUserFacts, <1>1 DEF Phases
<1>15. plan.source = Seqs(start, cut)
                     \cup (IF previous # <<>> /\ previous.anchor \notin {0, plan.anchor}
                           THEN {previous.anchor} ELSE {})
  BY <1>6
<1>16. /\ plan.through = content[cut].seq
       /\ plan.from = content[1].seq /\ plan.newFrom = content[start].seq
       /\ plan.summary = IF previous = <<>> \/ previous.kind = "native" THEN {} ELSE Absorbed(previous)
  BY <1>6
<1> HIDE DEF start
<1>17. PlanInv(previous, plan)
  BY <1>8, <1>9, <1>10, <1>11, <1>13, <1>14, <1>15, <1>16 DEF PlanInv
<1> QED  BY <1>17 DEF plan

\* A plan may start anew: a prefix that can be folded after a checkpoint can be without.
LEMMA PlanAnew ==
  ASSUME ContentInv, NEW phase \in Phases, NEW limit, NEW previous,
         PlanForPhase(previous, phase, limit) # <<>>
  PROVE  PlanForPhase(<<>>, phase, limit) # <<>>
<1> DEFINE cut == Retreated(planBoundary(phase), phase, limit)
           first == Cardinality({i \in DOMAIN content : content[i].seq <= 0})
<1>1. cut # 0 /\ cut \in 0 .. Len(content) /\ Len(content) \in Nat
  BY CutFacts DEF PlanForPhase, ContentInv
<1>2. first \in 0 .. Len(content) /\ \A i \in 1 .. first : content[i].seq <= 0
  BY CoveredFirst
<1> HIDE DEF cut, first
<1>3. first = 0
  <2>1. SUFFICES ASSUME first # 0 PROVE FALSE
    OBVIOUS
  <2>2. 1 \in 1 .. first /\ 1 \in DOMAIN content
    BY <1>1, <1>2, <2>1 DEF ContentInv
  <2>3. content[1].seq \in Nat \ {0}
    BY <2>2, ContentFacts
  <2> QED  BY <1>2, <2>2, <2>3
<1>4. ~(first + 1 > cut)
  BY <1>1, <1>3
<1> QED  BY <1>1, <1>4 DEF PlanForPhase, cut, first

LEMMA BuildPlanFacts ==
  ASSUME ContentInv, NEW phase \in {"auto", "standalone"}, phase = "auto" <=> inTurn,
         NEW limit, NEW previous, previous # <<>> => previous.through \in Nat,
         BuildPlan(previous, phase, limit) # <<>>
  PROVE  /\ PlanInv(previous, BuildPlan(previous, phase, limit))
         /\ BuildPlan(<<>>, phase, limit) # <<>>
<1> DEFINE For(cp, ph) == PlanForPhase(cp, ph, limit)
           plan == BuildPlan(previous, phase, limit)
<1>1. /\ phase = "standalone" => plan = For(previous, "standalone")
      /\ phase = "auto" => plan = For(previous, "pre_turn") \/ plan = For(previous, "mid_turn")
  BY DEF BuildPlan
<1>2. /\ phase = "standalone" => BuildPlan(<<>>, phase, limit) = For(<<>>, "standalone")
      /\ phase = "auto" /\ For(<<>>, "pre_turn") # <<>> => BuildPlan(<<>>, phase, limit) # <<>>
      /\ phase = "auto" /\ For(<<>>, "mid_turn") # <<>> => BuildPlan(<<>>, phase, limit) # <<>>
  BY DEF BuildPlan
<1>3. \A ph \in Phases : For(previous, ph) # <<>> => For(<<>>, ph) # <<>>
  BY PlanAnew
<1>4. \A ph \in Phases : /\ For(previous, ph) # <<>>
                         /\ inTurn => ph # "standalone"
                         => PlanInv(previous, For(previous, ph))
  BY PlanFacts
<1>5. plan # <<>>
  OBVIOUS
<1> HIDE DEF For, plan
<1>6. PlanInv(previous, plan)
  BY <1>1, <1>4, <1>5 DEF Phases
<1>7. BuildPlan(<<>>, phase, limit) # <<>>
  BY <1>1, <1>2, <1>3, <1>5 DEF Phases
<1> QED  BY <1>6, <1>7 DEF plan

-----------------------------------------------------------------------------
(***************************************************************************)
(* What a new checkpoint knows.                                            *)
(***************************************************************************)

AbsorbedIn(segments) == UNION {segments[k].absorbed : k \in DOMAIN segments}

LEMMA AbsorbedParts ==
  ASSUME NEW cp
  PROVE  Absorbed(cp) = AbsorbedIn(cp.segments) \cup cp.state
BY DEF Absorbed, AbsorbedIn

LEMMA AbsorbedNone == AbsorbedIn(<<>>) = {}
BY DEF AbsorbedIn

LEMMA AbsorbedOne ==
  ASSUME NEW segment
  PROVE  AbsorbedIn(<<segment>>) = segment.absorbed
<1>1. DOMAIN <<segment>> = {1} /\ <<segment>>[1] = segment
  OBVIOUS
<1>2. {<<segment>>[k].absorbed : k \in DOMAIN <<segment>>} = {segment.absorbed}
  BY <1>1
<1> QED  BY <1>2, Zenon DEF AbsorbedIn

LEMMA AbsorbedAppend ==
  ASSUME NEW segments \in Seq(Segment), NEW segment \in Segment
  PROVE  AbsorbedIn(Append(segments, segment)) = AbsorbedIn(segments) \cup segment.absorbed
<1> DEFINE longer == Append(segments, segment)  n == Len(segments)
           Old == AbsorbedIn(segments)
           New == AbsorbedIn(longer)
<1>1. /\ n \in Nat /\ DOMAIN segments = 1 .. n
      /\ DOMAIN longer = 1 .. n + 1 /\ longer[n + 1] = segment
      /\ \A k \in 1 .. n : longer[k] = segments[k]
  <2>1. n \in Nat /\ DOMAIN segments = 1 .. n
    BY LenProperties
  <2>2. longer \in Seq(Segment) /\ Len(longer) = n + 1 /\ longer[n + 1] = segment
    BY AppendProperties
  <2>3. \A k \in 1 .. n : longer[k] = segments[k]
    BY AppendProperties
  <2> QED  BY <2>1, <2>2, <2>3, LenProperties
<1> HIDE DEF longer, n
<1>2. ASSUME NEW s \in New PROVE s \in Old \cup segment.absorbed
  <2>1. PICK k \in 1 .. n + 1 : s \in longer[k].absorbed
    BY <1>1 DEF AbsorbedIn
  <2>2. CASE k = n + 1
    BY <1>1, <2>1, <2>2
  <2>3. CASE k # n + 1
    <3>1. k \in 1 .. n  BY <1>1, <2>1, <2>3
    <3>2. longer[k] = segments[k] /\ k \in DOMAIN segments  BY <1>1, <3>1
    <3> QED  BY <2>1, <3>2 DEF AbsorbedIn
  <2> QED  BY <2>2, <2>3
<1>3. ASSUME NEW s \in Old PROVE s \in New
  <2>1. PICK k \in 1 .. n : s \in segments[k].absorbed
    BY <1>1 DEF AbsorbedIn
  <2>2. k \in DOMAIN longer /\ longer[k] = segments[k]
    BY <1>1
  <2> QED  BY <2>1, <2>2 DEF AbsorbedIn
<1>4. ASSUME NEW s \in segment.absorbed PROVE s \in New
  <2>1. n + 1 \in DOMAIN longer
    BY <1>1
  <2> QED  BY <1>1, <1>4, <2>1 DEF AbsorbedIn
<1>5. New = Old \cup segment.absorbed
  <2> HIDE DEF New, Old
  <2> QED  BY <1>2, <1>3, <1>4
<1> QED  BY <1>5 DEF longer

\* What a checkpoint knew before is in its successor, with the source of the plan.
LEMMA ProjectionKnows ==
  ASSUME ContentInv, NEW previous, previous # <<>> => Sound(previous),
         NEW plan, PlanInv(previous, plan), NEW generator \in {"text", "native"},
         previous # <<>> /\ previous.kind = "native" =>
             generator = "native" /\ previous.route = route
  PROVE  /\ Absorbed(Projection(previous, plan, generator))
                = plan.source \cup (IF previous = <<>> THEN {} ELSE Absorbed(previous))
         /\ plan.source \subseteq Active
<1> DEFINE new == Projection(previous, plan, generator)
           before == IF previous = <<>> THEN {} ELSE Absorbed(previous)
<1>1. PICK cut \in DOMAIN content, start \in DOMAIN content :
        /\ start <= cut
        /\ plan.through = content[cut].seq
        /\ plan.from = content[1].seq /\ plan.newFrom = content[start].seq
        /\ plan.source = Seqs(start, cut)
                         \cup (IF previous # <<>> /\ previous.anchor \notin {0, plan.anchor}
                               THEN {previous.anchor} ELSE {})
        /\ plan.summary = IF previous = <<>> \/ previous.kind = "native" THEN {}
                          ELSE Absorbed(previous)
  BY Zenon DEF PlanInv
<1>2. Seqs(start, cut) \subseteq Active /\ Active \subseteq Nat
  <2>1. \A i \in start .. cut : i \in 1 .. Len(content)
    BY <1>1, ContentFacts
  <2>2. \A i \in 1 .. Len(content) : content[i].seq \in Nat
    BY ContentFacts
  <2> QED  BY <2>1, <2>2 DEF Seqs, Active
<1>3. previous # <<>> /\ previous.anchor # 0 => previous.anchor \in Active
  BY DEF Sound, KnownTo
<1>4. plan.source \subseteq Active
  BY <1>1, <1>2, <1>3
<1>5. /\ new.segments = IF generator = "native" THEN <<>> ELSE Segments(previous, plan)
      /\ new.state = IF generator = "native" THEN NativeState(previous, plan) ELSE {}
  BY DEF Projection
<1>6. Absorbed(new) = AbsorbedIn(new.segments) \cup new.state
  BY AbsorbedParts
<1>7. AbsorbedIn(<<>>) = {}
  BY AbsorbedNone
<1>8. previous # <<>> /\ previous.kind = "text" => before = AbsorbedIn(previous.segments)
  BY AbsorbedParts DEF Sound
<1>9. previous # <<>> /\ previous.kind = "native" => before = previous.state
  BY <1>7, AbsorbedParts DEF Sound
<1>10. previous # <<>> => previous.kind \in {"text", "native"} /\ before \subseteq Nat
  BY <1>2 DEF Sound, KnownTo
<1>11. plan.summary = IF previous = <<>> \/ previous.kind = "native" THEN {} ELSE before
  BY <1>1
<1>12. {plan.through, plan.from, plan.newFrom} \subseteq Nat
  BY <1>1, ContentFacts
<1> HIDE DEF new, before
<1>13. CASE generator = "native"
  <2>1. Absorbed(new) = NativeState(previous, plan)
    BY <1>5, <1>6, <1>7, <1>13
  <2>2. NativeState(previous, plan) = plan.source \cup before
    BY <1>8, <1>9, <1>10, <1>11 DEF NativeState, before
  <2> QED  BY <1>4, <2>1, <2>2 DEF new, before
<1>14. CASE generator = "text" /\ CanAppendSegment(previous, plan)
  <2> DEFINE segment == [from |-> plan.newFrom, through |-> plan.through, absorbed |-> plan.source]
  <2>1. previous # <<>> /\ previous.kind = "text" /\ previous.segments \in Seq(Segment)
    BY <1>10, <1>14 DEF CanAppendSegment, Sound
  <2>2. segment \in Segment /\ segment.absorbed = plan.source
    BY <1>2, <1>4, <1>12 DEF Segment
  <2>3. new.segments = Append(previous.segments, segment) /\ new.state = {}
    BY <1>5, <1>14 DEF Segments
  <2> HIDE DEF segment
  <2>4. AbsorbedIn(new.segments) = AbsorbedIn(previous.segments) \cup plan.source
    BY <2>1, <2>2, <2>3, AbsorbedAppend
  <2> QED  BY <1>4, <1>6, <1>8, <2>1, <2>3, <2>4 DEF new, before
<1>15. CASE generator = "text" /\ ~CanAppendSegment(previous, plan)
  <2> DEFINE segment == [from |-> plan.from, through |-> plan.through,
                         absorbed |-> plan.source \cup plan.summary]
  <2>1. new.segments = <<segment>> /\ new.state = {}
    BY <1>5, <1>15 DEF Segments
  <2>2. segment.absorbed = plan.source \cup plan.summary
    OBVIOUS
  <2> HIDE DEF segment
  <2>3. AbsorbedIn(new.segments) = plan.source \cup plan.summary
    BY <2>1, <2>2, AbsorbedOne
  <2>4. plan.summary = before
    BY <1>10, <1>11, <1>15 DEF before
  <2> QED  BY <1>4, <1>6, <2>1, <2>3, <2>4 DEF new, before
<1> QED  BY <1>13, <1>14, <1>15

LEMMA ProjectionSound ==
  ASSUME ContentInv, NEW previous, previous # <<>> => Sound(previous),
         NEW plan, PlanInv(previous, plan), NEW generator \in {"text", "native"},
         previous # <<>> /\ previous.kind = "native" =>
             generator = "native" /\ previous.route = route
  PROVE  Sound(Projection(previous, plan, generator))
<1> DEFINE new == Projection(previous, plan, generator)
           before == IF previous = <<>> THEN {} ELSE Absorbed(previous)
<1>1. PICK cut \in DOMAIN content, start \in DOMAIN content :
        /\ start <= cut
        /\ plan.through = content[cut].seq
        /\ plan.from = content[1].seq /\ plan.newFrom = content[start].seq
        /\ \A i \in 1 .. start - 1 : previous # <<>> /\ content[i].seq <= previous.through
        /\ plan.source = Seqs(start, cut)
                         \cup (IF previous # <<>> /\ previous.anchor \notin {0, plan.anchor}
                               THEN {previous.anchor} ELSE {})
        /\ plan.summary = IF previous = <<>> \/ previous.kind = "native" THEN {}
                          ELSE Absorbed(previous)
        /\ plan.anchor \in {0} \cup Active
        /\ inTurn => LastUser > cut \/ plan.anchor = content[LastUser].seq
  BY Zenon DEF PlanInv
<1>2. Absorbed(new) = plan.source \cup before /\ plan.source \subseteq Active
  BY ProjectionKnows
<1>3. /\ new.through = plan.through /\ new.anchor = plan.anchor /\ new.kind = generator
      /\ new.segments = IF generator = "native" THEN <<>> ELSE Segments(previous, plan)
      /\ generator = "text" => new.state = {}
  BY DEF Projection
<1>4. previous # <<>> => /\ KnownTo(previous) \subseteq Active
                         /\ \A s \in Active : s <= previous.through => s \in KnownTo(previous)
                         /\ previous.segments \in Seq(Segment)
                         /\ \A k \in DOMAIN previous.segments : previous.segments[k].from < nextSeq
  BY DEF Sound
<1>5. Active \subseteq Nat \ {0}
  BY ContentFacts DEF Active, Seqs
<1> HIDE DEF new, before
<1>6. content # <<>> /\ new.through \in 1 .. nextSeq - 1
  BY <1>1, <1>3, ContentFacts
<1>7. KnownTo(new) \subseteq Active
  <2>1. before \subseteq Active
    BY <1>4 DEF before, KnownTo
  <2> QED  BY <1>1, <1>2, <1>3, <2>1 DEF KnownTo
<1>8. ASSUME NEW s \in Active, s <= new.through PROVE s \in KnownTo(new)
  <2>1. PICK i \in 1 .. Len(content) : s = content[i].seq
    BY DEF Active, Seqs
  <2>2. i <= cut
    <3>1. SUFFICES ASSUME cut < i PROVE FALSE
      BY <1>1, ContentFacts
    <3>2. content[cut].seq < content[i].seq
      BY <1>1, <3>1, ContentFacts
    <3> QED  BY <1>1, <1>3, <1>8, <2>1, <3>2, ContentFacts
  <2>3. CASE i >= start
    <3>1. i \in start .. cut
      BY <1>1, <2>2, <2>3, ContentFacts
    <3>2. s \in plan.source
      BY <1>1, <2>1, <3>1 DEF Seqs
    <3> QED  BY <1>2, <3>2 DEF KnownTo
  <2>4. CASE i < start
    <3>1. i \in 1 .. start - 1
      BY <1>1, <2>4, ContentFacts
    <3>2. previous # <<>> /\ s \in KnownTo(previous)
      BY <1>1, <1>4, <2>1, <3>1
    <3>3. s \in before \/ (s = previous.anchor /\ previous.anchor # 0)
      BY <3>2 DEF KnownTo, before
    <3>4. s = previous.anchor /\ previous.anchor # 0 => s \in plan.source \/ s = plan.anchor
      BY <1>1, <3>2
    <3> QED  BY <1>2, <1>3, <1>5, <1>8, <3>3, <3>4 DEF KnownTo
  <2> QED  BY <1>1, <2>3, <2>4, ContentFacts
<1>9. new.anchor \in Nat
  BY <1>1, <1>3, <1>5
<1>10. /\ new.segments \in Seq(Segment)
       /\ \A k \in DOMAIN new.segments : new.segments[k].from < nextSeq
       /\ IF new.kind = "native" THEN new.segments = <<>>
          ELSE new.segments # <<>> /\ new.state = {}
  <2>1. /\ plan.from \in Nat /\ plan.from < nextSeq /\ plan.newFrom \in Nat /\ plan.newFrom < nextSeq
        /\ plan.through \in Nat /\ plan.source \subseteq Nat
    <3>1. 1 \in DOMAIN content
      BY <1>1, ContentFacts
    <3> QED  BY <1>1, <1>2, <1>5, <3>1, ContentFacts
  <2>2. CASE generator = "native"
    BY <1>3, <2>2, EmptySeq
  <2>3. CASE generator = "text" /\ CanAppendSegment(previous, plan)
    <3> DEFINE segment == [from |-> plan.newFrom, through |-> plan.through,
                           absorbed |-> plan.source]
               old == previous.segments
    <3>1. new.segments = Append(old, segment)
      BY <1>3, <2>3 DEF Segments
    <3>2. segment \in Segment /\ segment.from = plan.newFrom
      BY <2>1 DEF Segment
    <3>3. old \in Seq(Segment) /\ \A k \in DOMAIN old : old[k].from < nextSeq
      BY <1>4, <2>3 DEF CanAppendSegment
    <3> HIDE DEF segment, old
    <3>4. /\ new.segments \in Seq(Segment) /\ Len(new.segments) = Len(old) + 1 /\ Len(old) \in Nat
          /\ DOMAIN new.segments = 1 .. Len(old) + 1
          /\ new.segments[Len(old) + 1] = segment
          /\ \A k \in 1 .. Len(old) : new.segments[k] = old[k]
      BY <3>1, <3>2, <3>3, AppendProperties, LenProperties
    <3>5. \A k \in 1 .. Len(old) + 1 : k \in DOMAIN old \/ k = Len(old) + 1
      BY <3>3, <3>4
    <3>6. \A k \in DOMAIN old : new.segments[k] = old[k]
      BY <3>3, <3>4
    <3>7. \A k \in DOMAIN new.segments : new.segments[k].from < nextSeq
      BY <2>1, <3>2, <3>3, <3>4, <3>5, <3>6
    <3> QED  BY <1>3, <2>3, <3>4, <3>7
  <2>4. CASE generator = "text" /\ ~CanAppendSegment(previous, plan)
    <3> DEFINE segment == [from |-> plan.from, through |-> plan.through,
                           absorbed |-> plan.source \cup plan.summary]
    <3>1. new.segments = <<segment>>
      BY <1>3, <2>4 DEF Segments
    <3>2. plan.summary \subseteq Nat
      <4>1. before \subseteq Nat
        BY <1>4, <1>5 DEF before, KnownTo
      <4> QED  BY <1>1, <4>1 DEF before
    <3>3. segment \in Segment /\ segment.from = plan.from
      BY <2>1, <3>2 DEF Segment
    <3> HIDE DEF segment
    <3>4. DOMAIN new.segments = {1} /\ new.segments[1] = segment /\ new.segments \in Seq(Segment)
      BY <3>1, <3>3
    <3>5. new.segments # <<>>
      <4>1. DOMAIN <<>> = {}
        OBVIOUS
      <4> QED  BY <3>4, <4>1
    <3>6. \A k \in DOMAIN new.segments : new.segments[k].from < nextSeq
      BY <2>1, <3>3, <3>4
    <3>7. new.kind = "text" /\ new.state = {} /\ "text" # "native"
      BY <1>3, <2>4
    <3> QED  BY <3>4, <3>5, <3>6, <3>7
  <2> QED  BY <2>2, <2>3, <2>4
<1>11. inTurn => content[LastUser].seq > new.through \/ content[LastUser].seq = new.anchor
  <2>1. inTurn => LastUser \in DOMAIN content
    BY LastUserFacts DEF ContentInv
  <2>2. inTurn /\ LastUser > cut => content[cut].seq < content[LastUser].seq
    BY <1>1, <2>1, ContentFacts
  <2>3. \A i \in DOMAIN content : content[i].seq \in Nat
    BY ContentFacts
  <2> QED  BY <1>1, <1>3, <2>1, <2>2, <2>3
<1>12. new.kind \in {"text", "native"}
  BY <1>3
<1>13. Sound(new)
  BY <1>6, <1>7, <1>8, <1>9, <1>10, <1>11, <1>12 DEF Sound
<1> QED  BY <1>13 DEF new

\* A cut that leaves no group in two is a checkpoint that folds whole groups.
WholeUpTo(through) ==
    \A g \in Groups :
        \/ content[g].seq > through
        \/ CompleteGroup(g) /\ content[GroupEnd(g)].seq <= through

LEMMA CutWhole ==
  ASSUME ContentInv, NEW cut \in DOMAIN content, CutsGroups(cut)
  PROVE  WholeUpTo(content[cut].seq)
<1>1. SUFFICES ASSUME NEW g \in Groups
               PROVE  \/ content[g].seq > content[cut].seq
                      \/ CompleteGroup(g) /\ content[GroupEnd(g)].seq <= content[cut].seq
  BY DEF WholeUpTo
<1>2. g \in DOMAIN content /\ g \in Int
  BY ContentFacts DEF Groups
<1>3. CASE g > cut
  BY <1>2, <1>3, ContentFacts
<1>4. CASE CompleteGroup(g) /\ GroupEnd(g) <= cut
  <2>1. GroupEnd(g) \in DOMAIN content
    BY <1>2, GroupEndFacts, ContentFacts
  <2>2. GroupEnd(g) = cut \/ content[GroupEnd(g)].seq < content[cut].seq
    BY <1>4, <2>1, ContentFacts
  <2>3. content[GroupEnd(g)].seq \in Nat /\ content[cut].seq \in Nat
    BY <2>1, ContentFacts
  <2> QED  BY <1>4, <2>2, <2>3
<1> QED  BY <1>3, <1>4 DEF CutsGroups

\* The segments of a text checkpoint leave no active message out.
Gapless(cp) ==
    cp.kind = "text" =>
        /\ cp.segments[1].from = content[1].seq
        /\ cp.segments[Len(cp.segments)].through = cp.through
        /\ \A k \in 2 .. Len(cp.segments) :
              {s \in Active : s > cp.segments[k - 1].through /\ s < cp.segments[k].from} = {}

LEMMA ProjectionGapless ==
  ASSUME ContentInv, NEW previous, previous # <<>> => Sound(previous) /\ Gapless(previous),
         NEW plan, PlanInv(previous, plan), NEW generator \in {"text", "native"},
         previous # <<>> /\ previous.kind = "native" => generator = "native"
  PROVE  Gapless(Projection(previous, plan, generator))
<1> DEFINE new == Projection(previous, plan, generator)
<1>1. PICK cut \in DOMAIN content, start \in DOMAIN content :
        /\ start <= cut
        /\ plan.through = content[cut].seq
        /\ plan.from = content[1].seq /\ plan.newFrom = content[start].seq
        /\ \A i \in 1 .. start - 1 : previous # <<>> /\ content[i].seq <= previous.through
  BY Zenon DEF PlanInv
<1>2. /\ new.through = plan.through /\ new.kind = generator
      /\ new.segments = IF generator = "native" THEN <<>> ELSE Segments(previous, plan)
  BY DEF Projection
<1> HIDE DEF new
<1>3. CASE generator = "native"
  BY <1>2, <1>3 DEF Gapless, new
<1>4. CASE generator = "text" /\ ~CanAppendSegment(previous, plan)
  <2> DEFINE segment == [from |-> plan.from, through |-> plan.through,
                         absorbed |-> plan.source \cup plan.summary]
  <2>1. new.segments = <<segment>> /\ segment.from = plan.from /\ segment.through = plan.through
    BY <1>2, <1>4 DEF Segments
  <2> HIDE DEF segment
  <2>2. Len(new.segments) = 1 /\ new.segments[1] = segment
    BY <2>1
  <2>3. \A k \in 2 .. Len(new.segments) : FALSE
    BY <2>2
  <2> QED  BY <1>1, <1>2, <2>1, <2>2, <2>3 DEF Gapless, new
<1>5. CASE generator = "text" /\ CanAppendSegment(previous, plan)
  <2> DEFINE segment == [from |-> plan.newFrom, through |-> plan.through,
                         absorbed |-> plan.source]
             old == previous.segments  n == Len(old)
  <2>1. new.segments = Append(old, segment) /\ segment.from = plan.newFrom
        /\ segment.through = plan.through
    BY <1>2, <1>5 DEF Segments
  <2>2. /\ old \in Seq(Segment) /\ old # <<>> /\ Gapless(previous)
        /\ previous.kind = "text" /\ previous.through \in Nat
    BY <1>5, ContentFacts DEF CanAppendSegment, Sound
  <2>3. n \in Nat /\ n >= 1
    BY <2>2, EmptySeq
  <2>4. segment \in Segment
    <3>1. plan.source \subseteq Active
      BY <1>5, ProjectionKnows, <2>2
    <3>2. 1 \in DOMAIN content
      BY <1>1, ContentFacts
    <3> QED  BY <1>1, <3>1, <3>2, ContentFacts DEF Segment, Active, Seqs
  <2> HIDE DEF segment, old, n
  <2>5. /\ Len(new.segments) = n + 1 /\ new.segments[n + 1] = segment
        /\ \A k \in 1 .. n : new.segments[k] = old[k]
    BY <2>1, <2>2, <2>3, <2>4, AppendProperties DEF n
  <2>6. /\ old[1].from = content[1].seq /\ old[n].through = previous.through
        /\ \A k \in 2 .. n :
              {s \in Active : s > old[k - 1].through /\ s < old[k].from} = {}
    BY <2>2 DEF Gapless, old, n
  <2>7. new.segments[1].from = content[1].seq
    BY <2>3, <2>5, <2>6
  <2>8. new.segments[Len(new.segments)].through = new.through
    BY <1>2, <2>1, <2>3, <2>5
  <2>9. ASSUME NEW k \in 2 .. Len(new.segments)
        PROVE  {s \in Active : s > new.segments[k - 1].through /\ s < new.segments[k].from} = {}
    <3>1. CASE k <= n
      <4>1. k \in 2 .. n /\ k \in 1 .. n /\ k - 1 \in 1 .. n
        BY <2>3, <2>5, <3>1
      <4>2. new.segments[k] = old[k] /\ new.segments[k - 1] = old[k - 1]
        BY <2>5, <4>1
      <4> QED  BY <2>6, <4>1, <4>2
    <3>2. CASE k = n + 1
      <4>1. new.segments[k].from = content[start].seq
        BY <1>1, <2>1, <2>5, <3>2
      <4>2. new.segments[k - 1].through = previous.through
        <5>1. k - 1 = n /\ n \in 1 .. n
          BY <2>3, <3>2
        <5> QED  BY <2>5, <2>6, <5>1
      <4>3. SUFFICES ASSUME NEW s \in Active, s > previous.through, s < content[start].seq
                     PROVE FALSE
        BY <4>1, <4>2
      <4>4. PICK i \in DOMAIN content : s = content[i].seq
        BY ContentFacts DEF Active, Seqs
      <4>5. i < start
        <5>1. SUFFICES ASSUME start <= i PROVE FALSE
          BY <1>1, ContentFacts
        <5>2. start = i \/ content[start].seq < content[i].seq
          <6>1. start \in 1 .. Len(content) /\ i \in 1 .. Len(content) /\ Len(content) \in Nat
            BY <1>1, ContentFacts
          <6>2. start = i \/ start < i
            BY <5>1, <6>1
          <6> QED  BY <6>1, <6>2, ContentFacts
        <5> QED  BY <1>1, <4>3, <4>4, <5>2, ContentFacts
      <4>6. i \in 1 .. start - 1
        BY <1>1, <4>5, ContentFacts
      <4>7. content[i].seq <= previous.through /\ content[i].seq \in Nat
        BY <1>1, <4>6, ContentFacts
      <4> QED  BY <2>2, <4>3, <4>4, <4>7
    <3> QED  BY <2>3, <2>5, <3>1, <3>2
  <2> QED  BY <2>7, <2>8, <2>9 DEF Gapless, new
<1> QED  BY <1>3, <1>4, <1>5

-----------------------------------------------------------------------------
(***************************************************************************)
(* Steps that leave the messages alone.                                    *)
(***************************************************************************)

\* What a checkpoint, recorded or not, has to be.
Correct(cp) == Sound(cp) /\ WholeUpTo(cp.through) /\ Gapless(cp)

LEMMA CorrectCheckpoint ==
  (checkpoint # <<>> => Correct(checkpoint)) <=> (CheckpointInv /\ GroupsWhole /\ SegmentsCover)
<1>1. GroupsWhole <=> (checkpoint # <<>> => WholeUpTo(checkpoint.through))
  BY DEF GroupsWhole, WholeUpTo
<1>2. SegmentsCover <=> (checkpoint # <<>> => Gapless(checkpoint))
  BY DEF SegmentsCover, Gapless, Active
<1> QED  BY <1>1, <1>2 DEF CheckpointInv, Correct

Base == ContentInv /\ (checkpoint # <<>> => Correct(checkpoint))

LEMMA SameContent ==
  ASSUME content' = content
  PROVE  /\ Groups' = Groups /\ LastUser' = LastUser /\ Active' = Active
         /\ \A g : GroupEnd(g)' = GroupEnd(g)
         /\ \A g : CompleteGroup(g)' = CompleteGroup(g)
         /\ \A i, j : Seqs(i, j)' = Seqs(i, j)
<1>1. Groups' = Groups /\ LastUser' = LastUser
  BY DEF Groups, LastUser
<1>2. \A g : GroupEnd(g)' = GroupEnd(g)
  BY <1>1 DEF GroupEnd
<1>3. \A i, j : Seqs(i, j)' = Seqs(i, j)
  BY DEF Seqs
<1>4. Active' = Active
  BY DEF Active, Seqs
<1> QED  BY <1>1, <1>2, <1>3, <1>4 DEF CompleteGroup

LEMMA SameCorrect ==
  ASSUME content' = content, nextSeq' = nextSeq, inTurn' => inTurn,
         NEW cp, Correct(cp)
  PROVE  Correct(cp)'
<1>1. Sound(cp)'
  <2>1. Sound(cp)
    BY DEF Correct
  <2>2. KnownTo(cp)' = KnownTo(cp)
    BY DEF KnownTo, Absorbed
  <2> QED  BY <2>1, <2>2, SameContent DEF Sound
<1>2. WholeUpTo(cp.through)'
  BY SameContent DEF WholeUpTo, Correct
<1>3. Gapless(cp)'
  BY SameContent DEF Gapless, Correct
<1> QED  BY <1>1, <1>2, <1>3 DEF Correct

LEMMA SameBase ==
  ASSUME Base, content' = content, nextSeq' = nextSeq, checkpoint' = checkpoint,
         inTurn' \in BOOLEAN, inTurn' => inTurn, route' \in Routes
  PROVE  Base'
<1>1. ContentInv'
  BY SameContent DEF Base, ContentInv
<1>2. CASE checkpoint = <<>>
  BY <1>1, <1>2 DEF Base
<1>3. CASE checkpoint # <<>>
  <2>1. Correct(checkpoint)
    BY <1>3 DEF Base
  <2>2. \A cp : Correct(cp) => Correct(cp)'
    BY SameCorrect
  <2>3. Correct(checkpoint)'
    BY <2>1, <2>2
  <2> QED  BY <1>1, <2>3 DEF Base
<1> QED  BY <1>2, <1>3

-----------------------------------------------------------------------------
(***************************************************************************)
(* Compacting.                                                             *)
(***************************************************************************)

\* Work may go on when the new plan is sound.
LEMMA SamePlan ==
  ASSUME content' = content, inTurn' = inTurn, NEW previous, NEW plan, PlanInv(previous, plan)
  PROVE  PlanInv(previous, plan)'
<1>1. \A cut : CutsGroups(cut)' = CutsGroups(cut)
  BY SameContent DEF CutsGroups
<1>2. Absorbed(previous)' = Absorbed(previous)
  BY DEF Absorbed
<1> QED  BY <1>1, <1>2, SameContent DEF PlanInv

LEMMA SameBuildPlan ==
  ASSUME content' = content
  PROVE  \A previous, phase, limit :
             BuildPlan(previous, phase, limit)' = BuildPlan(previous, phase, limit)
<1>1. \A d : safePrefixCut(d)' = safePrefixCut(d)
  BY SameContent DEF safePrefixCut
<1>2. MidTurnCut' = MidTurnCut
  BY SameContent DEF MidTurnCut
<1>3. \A phase : planBoundary(phase)' = planBoundary(phase)
  BY <1>1, <1>2, SameContent DEF planBoundary
<1>4. \A cut, phase, limit : Retreated(cut, phase, limit)' = Retreated(cut, phase, limit)
  BY <1>1, SameContent DEF Retreated
<1>5. \A phase : HeadAnchor(phase)' = HeadAnchor(phase)
  BY SameContent DEF HeadAnchor
<1>6. \A cp : Absorbed(cp)' = Absorbed(cp)
  BY DEF Absorbed
<1>7. \A previous, phase, limit :
          PlanForPhase(previous, phase, limit)' = PlanForPhase(previous, phase, limit)
  <2> SUFFICES ASSUME NEW previous, NEW phase, NEW limit
               PROVE  PlanForPhase(previous, phase, limit)' = PlanForPhase(previous, phase, limit)
    OBVIOUS
  <2> DEFINE cut  == Retreated(planBoundary(phase), phase, limit)
             done == IF previous = <<>> THEN 0 ELSE previous.through
             covered == Cardinality({i \in DOMAIN content : content[i].seq <= done})
  <2>1. cut' = cut
    BY <1>3, <1>4
  <2>2. covered' = covered
    OBVIOUS
  <2>3. Seqs(covered + 1, cut)' = Seqs(covered + 1, cut)
    BY <2>1, <2>2, SameContent
  <2>4. HeadAnchor(phase)' = HeadAnchor(phase) /\ Absorbed(previous)' = Absorbed(previous)
    BY <1>5, <1>6
  <2> HIDE DEF cut, covered
  <2> QED  BY <2>1, <2>2, <2>3, <2>4 DEF PlanForPhase, cut, covered
<1> QED  BY <1>7 DEF BuildPlan

\* What a compaction in progress has to be.
LEMMA WorkNext ==
  ASSUME UNCHANGED session, checkpoint' = checkpoint,
         NEW phase \in {"auto", "standalone"}, phase = "auto" <=> inTurn,
         NEW generator \in {"text", "native"}, NEW previous \in {<<>>, checkpoint},
         previous # <<>> /\ previous.kind = "native" =>
             generator = "native" /\ previous.route = route,
         NEW plan, plan # <<>>, PlanInv(previous, plan),
         NEW try, try = "first" => BuildPlan(<<>>, phase, 0) # <<>>,
         work' = [phase |-> phase, previous |-> previous, plan |-> plan,
                  generator |-> generator, try |-> try]
  PROVE  WorkInv'
<1>1. content' = content /\ inTurn' = inTurn /\ route' = route
  BY DEF session
<1>2. /\ work'.phase = phase /\ work'.previous = previous /\ work'.plan = plan
      /\ work'.generator = generator /\ work'.try = try
  OBVIOUS
<1>3. work' = [phase |-> work'.phase, previous |-> work'.previous, plan |-> work'.plan,
               generator |-> work'.generator, try |-> work'.try]
  BY <1>2
<1>4. PlanInv(previous, plan)'
  BY <1>1, SamePlan
<1>5. BuildPlan(<<>>, phase, 0)' = BuildPlan(<<>>, phase, 0)
  BY <1>1, SameBuildPlan
<1>6. PlanInv(work.previous, work.plan)'
  BY <1>2, <1>4
<1>7. (work.try = "first" => BuildPlan(<<>>, work.phase, 0) # <<>>)'
  BY <1>2, <1>5
<1> QED  BY <1>1, <1>2, <1>3, <1>6, <1>7 DEF WorkInv

LEMMA NoWork ==
  ASSUME work' = <<>> PROVE WorkInv'
BY DEF WorkInv

\* What the work says of itself.
LEMMA WorkFacts ==
  ASSUME Base, WorkInv, work # <<>>
  PROVE  /\ work.previous # <<>> => Correct(work.previous) /\ work.previous.through \in Nat
         /\ PlanInv(work.previous, work.plan)
<1>1. work.previous # <<>> => work.previous = checkpoint /\ checkpoint # <<>>
  BY DEF WorkInv
<1>2. checkpoint # <<>> => Correct(checkpoint)
  BY DEF Base
<1>3. checkpoint # <<>> => checkpoint.through \in Nat
  BY <1>2, ContentFacts DEF Correct, Sound, Base
<1> QED  BY <1>1, <1>2, <1>3 DEF WorkInv

LEMMA StartKeeps ==
  ASSUME Base, NEW phase \in {"auto", "standalone"}, StartCompaction(phase)
  PROVE  WorkInv'
<1> DEFINE generator == IF route \in NativeRoutes THEN "native" ELSE "text"
           previous  == PlanningPrevious(generator)
           plan      == BuildPlan(previous, phase, 0)
<1>1. /\ plan # <<>> /\ UNCHANGED session /\ checkpoint' = checkpoint
      /\ work' = [phase |-> phase, previous |-> previous, plan |-> plan,
                  generator |-> generator, try |-> "first"]
  BY DEF StartCompaction
<1>2. phase = "auto" <=> inTurn
  BY DEF StartCompaction, Base, ContentInv
<1>3. /\ previous \in {<<>>, checkpoint}
      /\ previous # <<>> /\ previous.kind = "native" =>
             generator = "native" /\ previous.route = route
  BY DEF PlanningPrevious
<1>4. checkpoint # <<>> => checkpoint.through \in Nat
  BY ContentFacts DEF Base, Correct, Sound
<1>5. previous # <<>> => previous.through \in Nat
  BY <1>3, <1>4
<1>6. generator \in {"text", "native"}
  OBVIOUS
<1> HIDE DEF previous, generator
<1>7. PlanInv(previous, plan) /\ BuildPlan(<<>>, phase, 0) # <<>>
  BY <1>1, <1>2, <1>5, BuildPlanFacts DEF Base
<1> HIDE DEF plan
<1> QED  BY <1>1, <1>2, <1>3, <1>6, <1>7, WorkNext

LEMMA FallBackKeeps ==
  ASSUME Base, WorkInv, FallBack
  PROVE  WorkInv'
<1> DEFINE unreadable == checkpoint # <<>> /\ checkpoint.kind = "native"
           full == BuildPlan(<<>>, work.phase, 0)
           plan == IF unreadable THEN full ELSE work.plan
           previous == IF unreadable THEN <<>> ELSE work.previous
<1>1. /\ work # <<>> /\ work.try = "first" /\ UNCHANGED session /\ checkpoint' = checkpoint
      /\ work' = [work EXCEPT !.generator = "text", !.try = "fallback",
                              !.plan = plan, !.previous = previous]
  BY DEF FallBack
<1>2. /\ work.phase \in {"auto", "standalone"} /\ (work.phase = "auto" <=> inTurn)
      /\ work = [phase |-> work.phase, previous |-> work.previous, plan |-> work.plan,
                 generator |-> work.generator, try |-> work.try]
      /\ work.previous \in {<<>>, checkpoint} /\ work.plan # <<>> /\ full # <<>>
  BY <1>1 DEF WorkInv
<1> HIDE DEF full, unreadable
<1>3. work' = [phase |-> work.phase, previous |-> previous, plan |-> plan,
               generator |-> "text", try |-> "fallback"]
  <2> HIDE DEF plan, previous
  <2> QED  BY <1>1, <1>2
<1>4. previous \in {<<>>, checkpoint} /\ plan # <<>>
  BY <1>2
<1>5. ~(previous # <<>> /\ previous.kind = "native")
  BY <1>2 DEF unreadable
<1>6. PlanInv(previous, plan)
  <2>1. CASE unreadable
    <3>1. PlanInv(<<>>, full)
      BY <1>2, BuildPlanFacts DEF full, Base
    <3> QED  BY <2>1, <3>1
  <2>2. CASE ~unreadable
    BY <1>1, <2>2, WorkFacts
  <2> QED  BY <2>1, <2>2
<1> HIDE DEF plan, previous
<1> DEFINE phase == work.phase  generator == "text"  try == "fallback"
<1>7. /\ UNCHANGED session /\ checkpoint' = checkpoint
      /\ phase \in {"auto", "standalone"} /\ (phase = "auto" <=> inTurn)
      /\ generator \in {"text", "native"}
      /\ try = "first" => BuildPlan(<<>>, phase, 0) # <<>>
      /\ work' = [phase |-> phase, previous |-> previous, plan |-> plan,
                  generator |-> generator, try |-> try]
  BY <1>1, <1>2, <1>3
<1> HIDE DEF phase, generator, try
<1> QED  BY <1>4, <1>5, <1>6, <1>7, WorkNext

LEMMA OverflowKeeps ==
  ASSUME Base, WorkInv, Overflow
  PROVE  WorkInv'
<1> DEFINE less == BuildPlan(work.previous, work.phase, accepted[route])
<1>1. /\ work # <<>> /\ UNCHANGED session /\ checkpoint' = checkpoint
      /\ \/ work' = <<>>
         \/ less # <<>> /\ work' = [work EXCEPT !.plan = less, !.try = "retreat"]
  BY DEF Overflow
<1>2. /\ work.phase \in {"auto", "standalone"} /\ (work.phase = "auto" <=> inTurn)
      /\ work = [phase |-> work.phase, previous |-> work.previous, plan |-> work.plan,
                 generator |-> work.generator, try |-> work.try]
      /\ work.previous \in {<<>>, checkpoint} /\ work.generator \in {"text", "native"}
      /\ work.previous # <<>> /\ work.previous.kind = "native" =>
             work.generator = "native" /\ work.previous.route = route
  BY <1>1 DEF WorkInv
<1>3. CASE work' = <<>>
  BY <1>3, NoWork
<1>4. CASE less # <<>> /\ work' = [work EXCEPT !.plan = less, !.try = "retreat"]
  <2>1. PlanInv(work.previous, less)
    BY <1>1, <1>2, <1>4, WorkFacts, BuildPlanFacts DEF Base
  <2> HIDE DEF less
  <2>2. work' = [phase |-> work.phase, previous |-> work.previous, plan |-> less,
                 generator |-> work.generator, try |-> "retreat"]
    BY <1>2, <1>4
  <2> DEFINE phase == work.phase  previous == work.previous  generator == work.generator
             try == "retreat"
  <2>3. /\ UNCHANGED session /\ checkpoint' = checkpoint
        /\ phase \in {"auto", "standalone"} /\ (phase = "auto" <=> inTurn)
        /\ generator \in {"text", "native"} /\ previous \in {<<>>, checkpoint}
        /\ previous # <<>> /\ previous.kind = "native" =>
               generator = "native" /\ previous.route = route
        /\ less # <<>> /\ PlanInv(previous, less)
        /\ try = "first" => BuildPlan(<<>>, phase, 0) # <<>>
        /\ work' = [phase |-> phase, previous |-> previous, plan |-> less,
                    generator |-> generator, try |-> try]
    BY <1>1, <1>2, <1>4, <2>1, <2>2
  <2> HIDE DEF phase, previous, generator, try
  <2> QED  BY <2>3, WorkNext
<1> QED  BY <1>1, <1>3, <1>4

\* The new checkpoint is as sound as the plan it was made of.
LEMMA RecordKeeps ==
  ASSUME Base, WorkInv, Record
  PROVE  Base'
<1> DEFINE new == Projection(work.previous, work.plan, work.generator)
<1>1. /\ work # <<>> /\ checkpoint' \in {new, checkpoint}
      /\ content' = content /\ nextSeq' = nextSeq /\ inTurn' = inTurn /\ route' = route
  BY DEF Record, session
<1>2. PICK cut \in DOMAIN content :
        CutsGroups(cut) /\ work.plan.through = content[cut].seq
  BY <1>1, WorkFacts, Zenon DEF PlanInv
<1>3. /\ work.previous # <<>> => Sound(work.previous) /\ Gapless(work.previous)
      /\ PlanInv(work.previous, work.plan)
  BY <1>1, WorkFacts DEF Correct
<1>4. /\ work.generator \in {"text", "native"}
      /\ work.previous # <<>> /\ work.previous.kind = "native" =>
             work.generator = "native" /\ work.previous.route = route
  BY <1>1 DEF WorkInv
<1>5. ContentInv
  BY DEF Base
<1>6. Sound(new)
  BY <1>3, <1>4, <1>5, ProjectionSound
<1>7. Gapless(new)
  BY <1>3, <1>4, <1>5, ProjectionGapless
<1>8. WholeUpTo(new.through)
  <2>1. new.through = content[cut].seq
    BY <1>2 DEF Projection
  <2> QED  BY <1>2, <1>5, <2>1, CutWhole
<1> HIDE DEF new
<1>9. checkpoint' # <<>> => Correct(checkpoint')
  BY <1>1, <1>6, <1>7, <1>8 DEF Correct, Base
<1>10. \A cp : Correct(cp) => Correct(cp)'
  BY <1>1, SameCorrect
<1>11. checkpoint' # <<>> => Correct(checkpoint)'
  BY <1>9, <1>10
<1>12. ContentInv'
  BY <1>1, <1>5, SameContent DEF ContentInv
<1> QED  BY <1>11, <1>12 DEF Base

-----------------------------------------------------------------------------
(***************************************************************************)
(* New messages come after what a checkpoint folds.                        *)
(***************************************************************************)

LEMMA GroupsAll ==
  ContentInv => \A g \in Groups :
            /\ GroupEnd(g) \in g .. Len(content) /\ g \in 1 .. Len(content)
            /\ \A h \in Groups : ~(g < h /\ h <= GroupEnd(g))
            /\ GroupEnd(g) = Len(content) \/ GroupEnd(g) + 1 \in Groups
BY GroupEndFacts

LEMMA GroupsNext ==
  ASSUME ContentInv'
  PROVE  \A g \in Groups' :
            /\ GroupEnd(g)' \in g .. Len(content') /\ g \in 1 .. Len(content')
            /\ \A h \in Groups' : ~(g < h /\ h <= GroupEnd(g)')
            /\ GroupEnd(g)' = Len(content') \/ GroupEnd(g)' + 1 \in Groups'
<1>1. (ContentInv => \A g \in Groups :
            /\ GroupEnd(g) \in g .. Len(content) /\ g \in 1 .. Len(content)
            /\ \A h \in Groups : ~(g < h /\ h <= GroupEnd(g))
            /\ GroupEnd(g) = Len(content) \/ GroupEnd(g) + 1 \in Groups)'
  BY GroupsAll, PTL
<1> QED  BY <1>1

\* The messages are those before, with new ones that begin a group.
LEMMA Appended ==
  ASSUME ContentInv, NEW messages \in Seq(Messages), messages # <<>>, AppendAll(messages),
         \A k \in DOMAIN messages : messages[k].seq = nextSeq + k - 1,
         messages[1].role # "tool"
  PROVE  /\ content' \in Seq(Messages) /\ nextSeq' \in Nat \ {0} /\ nextSeq < nextSeq'
         /\ DOMAIN content' = 1 .. Len(content') /\ Len(content') \in Nat
         /\ Len(content) < Len(content') /\ content'[Len(content) + 1] = messages[1]
         /\ \A i \in DOMAIN content : i \in DOMAIN content' /\ content'[i] = content[i]
         /\ \A i \in DOMAIN content' \ DOMAIN content :
                nextSeq <= content'[i].seq /\ content'[i].seq < nextSeq'
         /\ \A i, j \in DOMAIN content' : i < j => content'[i].seq < content'[j].seq
         /\ Len(content) + 1 \in Groups' /\ Len(content) + 1 \in DOMAIN content'
         /\ \A i \in DOMAIN content' : content'[i].seq \in Nat
<1> DEFINE n == Len(content)  m == Len(messages)
<1>1. /\ n \in Nat /\ DOMAIN content = 1 .. n /\ content \in Seq(Messages)
      /\ m \in Nat /\ m >= 1 /\ DOMAIN messages = 1 .. m /\ nextSeq \in Nat /\ nextSeq >= 1
  BY ContentFacts, EmptySeq DEF ContentInv
<1>2. /\ content' = content \o messages /\ nextSeq' = nextSeq + m
  BY DEF AppendAll
<1>3. /\ content' \in Seq(Messages) /\ Len(content') = n + m
      /\ \A i \in 1 .. n + m : content'[i] = IF i <= n THEN content[i] ELSE messages[i - n]
  <2>1. content \in Seq(Messages) /\ messages \in Seq(Messages)
    BY <1>1
  <2>2. /\ content \o messages \in Seq(Messages) /\ Len(content \o messages) = n + m
        /\ \A i \in 1 .. n + m :
              (content \o messages)[i] = IF i <= n THEN content[i] ELSE messages[i - n]
    BY ONLY <2>1, ConcatProperties
  <2> QED  BY <1>2, <2>2
<1>4. DOMAIN content' = 1 .. n + m
  BY <1>3
<1> HIDE DEF n, m
<1>5. \A i \in 1 .. n : i \in DOMAIN content' /\ content'[i] = content[i]
  BY <1>1, <1>3, <1>4
<1>6. ASSUME NEW i \in DOMAIN content', i \notin DOMAIN content
      PROVE  content'[i].seq = nextSeq + (i - n) - 1 /\ i > n /\ i \in Nat /\ i <= n + m
  <2>1. i \in 1 .. n + m /\ ~(i <= n) /\ i - n \in 1 .. m
    BY <1>1, <1>4, <1>6
  <2> QED  BY <1>1, <1>3, <2>1
<1>7. \A i \in DOMAIN content' \ DOMAIN content :
          nextSeq <= content'[i].seq /\ content'[i].seq < nextSeq'
  <2> SUFFICES ASSUME NEW i \in DOMAIN content', i \notin DOMAIN content
               PROVE  nextSeq <= content'[i].seq /\ content'[i].seq < nextSeq'
    OBVIOUS
  <2>1. content'[i].seq = nextSeq + (i - n) - 1 /\ i > n /\ i \in Nat /\ i <= n + m
    BY <1>6
  <2> QED  BY <1>1, <1>2, <2>1
<1>8. ASSUME NEW i \in DOMAIN content', NEW j \in DOMAIN content', i < j
      PROVE  content'[i].seq < content'[j].seq
  <2>1. CASE j \in DOMAIN content
    <3>1. i \in DOMAIN content
      BY <1>1, <1>4, <1>8, <2>1
    <3> QED  BY <1>1, <1>5, <1>8, <2>1, <3>1, ContentFacts
  <2>2. CASE j \notin DOMAIN content /\ i \in DOMAIN content
    <3>1. content'[i].seq < nextSeq /\ content'[i].seq \in Nat
      BY <1>1, <1>5, <2>2, ContentFacts
    <3>2. nextSeq <= content'[j].seq /\ content'[j].seq \in Int
      BY <1>1, <1>6, <2>2
    <3> QED  BY <1>1, <3>1, <3>2
  <2>3. CASE j \notin DOMAIN content /\ i \notin DOMAIN content
    BY <1>1, <1>6, <1>8, <2>3
  <2> QED  BY <2>1, <2>2, <2>3
<1>9. n + 1 \in DOMAIN content' /\ content'[n + 1] = messages[1]
  <2>1. n + 1 \in 1 .. n + m /\ ~(n + 1 <= n) /\ (n + 1) - n = 1
    BY <1>1
  <2> QED  BY <1>3, <1>4, <2>1
<1>10. n + 1 \in Groups'
  BY <1>9 DEF Groups
<1>11. nextSeq' \in Nat \ {0} /\ nextSeq < nextSeq'
  BY <1>1, <1>2
<1>12. n + m \in Nat /\ n < n + m
  BY <1>1
<1>13. \A i \in DOMAIN content' : content'[i].seq \in Nat
  <2>1. \A i \in DOMAIN content' : content'[i] \in Messages
    BY <1>3, ElementOfSeq, LenProperties
  <2> QED  BY <2>1 DEF Messages
<1> QED  BY <1>1, <1>3, <1>4, <1>5, <1>7, <1>8, <1>9, <1>10, <1>11, <1>12, <1>13 DEF n, m

LEMMA AppendKeeps ==
  ASSUME Base, NEW messages \in Seq(Messages), messages # <<>>, AppendAll(messages),
         \A k \in DOMAIN messages : messages[k].seq = nextSeq + k - 1,
         messages[1].role # "tool",
         inTurn' \in BOOLEAN, inTurn' => inTurn \/ messages[1].role = "user",
         route' = route, checkpoint' = checkpoint
  PROVE  Base'
<1> DEFINE n == Len(content)  n2 == Len(content')
<1>1. /\ n \in Nat /\ DOMAIN content = 1 .. n /\ nextSeq \in Nat
      /\ \A i \in DOMAIN content : content[i].seq \in Nat /\ content[i].seq < nextSeq
  BY ContentFacts DEF Base
<1>2. /\ content' \in Seq(Messages) /\ nextSeq' \in Nat \ {0} /\ nextSeq < nextSeq'
      /\ DOMAIN content' = 1 .. n2 /\ n2 \in Nat
      /\ n < n2 /\ content'[n + 1] = messages[1]
      /\ \A i \in DOMAIN content : i \in DOMAIN content' /\ content'[i] = content[i]
      /\ \A i \in DOMAIN content' \ DOMAIN content :
             nextSeq <= content'[i].seq /\ content'[i].seq < nextSeq'
      /\ \A i, j \in DOMAIN content' : i < j => content'[i].seq < content'[j].seq
      /\ n + 1 \in Groups' /\ n + 1 \in DOMAIN content'
      /\ \A i \in DOMAIN content' : content'[i].seq \in Nat
  BY Appended DEF Base
<1> HIDE DEF n, n2
<1>3. \A i \in DOMAIN content' : content'[i].seq < nextSeq'
  BY <1>1, <1>2
<1>4. /\ LastUser \in 0 .. n
      /\ LastUser # 0 => LastUser \in DOMAIN content /\ content[LastUser].role = "user"
      /\ \A i \in DOMAIN content : content[i].role = "user" => i <= LastUser
  BY LastUserFacts DEF Base, n
<1>5. /\ LastUser' \in 0 .. n2
      /\ LastUser' # 0 => LastUser' \in DOMAIN content' /\ content'[LastUser'].role = "user"
      /\ \A i \in DOMAIN content' : content'[i].role = "user" => i <= LastUser'
  <2> DEFINE S == {i \in DOMAIN content' : content'[i].role = "user"}
  <2>1. S \in SUBSET (1 .. n2)
    BY <1>2
  <2>2. LastUser' = Largest(S)
    BY DEF LastUser
  <2>3. /\ Largest(S) \in 0 .. n2
        /\ S = {} => Largest(S) = 0
        /\ S # {} => Largest(S) \in S
        /\ \A y \in S : y <= Largest(S)
    <3> HIDE DEF S
    <3> QED  BY <1>2, <2>1, LargestFacts
  <2> QED  BY <2>2, <2>3
<1>6. inTurn' => LastUser' # 0
  <2>1. CASE inTurn
    <3>1. LastUser \in DOMAIN content /\ content[LastUser].role = "user" /\ LastUser # 0
      BY <1>4, <2>1 DEF Base, ContentInv
    <3>2. LastUser <= LastUser'
      BY <1>2, <1>5, <3>1
    <3> QED  BY <1>1, <1>2, <1>4, <1>5, <3>1, <3>2
  <2>2. CASE messages[1].role = "user"
    <3>1. content'[n + 1].role = "user" /\ n + 1 \in DOMAIN content'
      BY <1>2, <2>2
    <3>2. n + 1 <= LastUser'
      BY <1>5, <3>1
    <3> QED  BY <1>1, <3>2
  <2> QED  BY <2>1, <2>2
<1>7. ContentInv'
  BY <1>2, <1>3, <1>6 DEF ContentInv, Base
<1>8. Groups = Groups' \cap DOMAIN content
  BY <1>2 DEF Groups
<1>9. ASSUME NEW g \in Groups
      PROVE  GroupEnd(g)' = GroupEnd(g) /\ CompleteGroup(g)' = CompleteGroup(g)
  <2>1. /\ GroupEnd(g) \in g .. n /\ g \in 1 .. n
        /\ \A h \in Groups : ~(g < h /\ h <= GroupEnd(g))
        /\ GroupEnd(g) = n \/ GroupEnd(g) + 1 \in Groups
    BY <1>9, GroupEndFacts DEF Base, n
  <2>2. g \in Groups'
    BY <1>8
  <2>3. /\ GroupEnd(g)' \in g .. n2
        /\ \A h \in Groups' : ~(g < h /\ h <= GroupEnd(g)')
        /\ GroupEnd(g)' = n2 \/ GroupEnd(g)' + 1 \in Groups'
    BY <1>7, <2>2, GroupsNext DEF n2
  <2>4. GroupEnd(g) + 1 \in Groups'
    BY <1>2, <1>8, <2>1
  <2>5. ~(GroupEnd(g) + 1 <= GroupEnd(g)')
    BY <1>1, <2>1, <2>3, <2>4
  <2>6. ~(GroupEnd(g)' + 1 <= GroupEnd(g))
    <3>1. SUFFICES ASSUME GroupEnd(g)' + 1 <= GroupEnd(g) PROVE FALSE
      OBVIOUS
    <3>2. GroupEnd(g)' + 1 \in Groups' /\ GroupEnd(g)' + 1 \in 1 .. n
      <4>1. GroupEnd(g)' \in Nat /\ GroupEnd(g) \in Nat /\ GroupEnd(g) <= n
        BY <1>1, <1>2, <2>1, <2>3
      <4>2. GroupEnd(g)' + 1 \in 1 .. n
        BY <1>1, <3>1, <4>1
      <4>3. GroupEnd(g)' # n2
        BY <1>1, <1>2, <4>1, <4>2
      <4> QED  BY <2>3, <4>2, <4>3
    <3>3. GroupEnd(g)' + 1 \in Groups /\ g < GroupEnd(g)' + 1
      BY <1>1, <1>8, <2>1, <2>3, <3>2
    <3> QED  BY <2>1, <3>1, <3>3
  <2>7. GroupEnd(g)' = GroupEnd(g)
    BY <1>1, <1>2, <2>1, <2>3, <2>5, <2>6
  <2>8. content'[g] = content[g]
    BY <1>1, <1>2, <2>1
  <2> QED  BY <2>7, <2>8 DEF CompleteGroup
<1>10. ASSUME NEW cp, Correct(cp) PROVE Correct(cp)'
  <2>1. cp.through \in 1 .. nextSeq - 1 /\ Sound(cp) /\ WholeUpTo(cp.through) /\ Gapless(cp)
    BY <1>10 DEF Correct, Sound
  <2>2. Active \subseteq Active' /\ \A s \in Active' : s \in Active \/ s >= nextSeq
    <3>1. Active = {content[i].seq : i \in 1 .. n} /\ Active' = {content'[i].seq : i \in 1 .. n2}
      BY DEF Active, Seqs, n, n2
    <3>2. \A i \in 1 .. n : i \in 1 .. n2 /\ content'[i] = content[i]
      BY <1>1, <1>2
    <3>3. \A i \in 1 .. n2 : i \in 1 .. n \/ content'[i].seq >= nextSeq
      BY <1>1, <1>2
    <3> QED  BY <3>1, <3>2, <3>3
  <2>3. \A s \in Active' : s <= cp.through \/ s < nextSeq => s \in Active
    <3>1. \A s \in Active' : s \in Nat
      BY <1>2 DEF Active, Seqs, n2
    <3> QED  BY <1>1, <2>1, <2>2, <3>1
  <2>4. Sound(cp)'
    <3>1. KnownTo(cp)' = KnownTo(cp)
      BY DEF KnownTo, Absorbed
    <3>2. content' # <<>> /\ cp.through \in 1 .. nextSeq' - 1
      BY <1>1, <1>2, <2>1 DEF n
    <3>3. \A k \in DOMAIN cp.segments : cp.segments[k].from < nextSeq'
      <4>1. \A k \in DOMAIN cp.segments : cp.segments[k] \in Segment /\ cp.segments[k].from < nextSeq
        BY <2>1, ElementOfSeq, LenProperties DEF Sound
      <4>2. \A s \in Segment : s.from \in Nat
        BY DEF Segment
      <4> QED  BY <1>1, <1>2, <4>1, <4>2
    <3>4. inTurn' => content'[LastUser'].seq > cp.through \/ content'[LastUser'].seq = cp.anchor
      <4>1. SUFFICES ASSUME inTurn'
                     PROVE  content'[LastUser'].seq > cp.through \/ content'[LastUser'].seq = cp.anchor
        OBVIOUS
      <4>2. LastUser' \in DOMAIN content' /\ content'[LastUser'].role = "user"
        BY <1>5, <1>6, <4>1
      <4>3. CASE LastUser' \notin DOMAIN content
        <5>1. content'[LastUser'].seq >= nextSeq /\ content'[LastUser'].seq \in Int
          BY <1>2, <4>2, <4>3
        <5> QED  BY <1>1, <2>1, <5>1
      <4>4. CASE LastUser' \in DOMAIN content
        <5>1. content'[LastUser'] = content[LastUser'] /\ LastUser' <= LastUser
          BY <1>2, <1>4, <4>2, <4>4
        <5>2. LastUser # 0 /\ LastUser \in DOMAIN content /\ content'[LastUser].role = "user"
          <6>1. LastUser # 0
            BY <1>1, <1>4, <4>4, <5>1
          <6>2. LastUser \in DOMAIN content /\ content[LastUser].role = "user"
            BY <1>4, <6>1
          <6> QED  BY <1>2, <6>1, <6>2
        <5>3. LastUser <= LastUser'
          BY <1>2, <1>5, <5>2
        <5>4. LastUser = LastUser'
          BY <1>1, <1>4, <4>4, <5>1, <5>3
        <5>5. inTurn
          <6>1. messages[1].role # "user"
            <7>1. SUFFICES ASSUME messages[1].role = "user" PROVE FALSE
              OBVIOUS
            <7>2. content'[n + 1].role = "user" /\ n + 1 \in DOMAIN content'
              BY <1>2, <7>1
            <7>3. n + 1 <= LastUser'
              BY <1>5, <7>2
            <7> QED  BY <1>1, <4>4, <7>3
          <6> QED  BY <4>1, <6>1
        <5> QED  BY <2>1, <5>1, <5>4, <5>5 DEF Sound
      <4> QED  BY <4>3, <4>4
    <3> QED  BY <2>1, <2>2, <2>3, <3>1, <3>2, <3>3, <3>4 DEF Sound
  <2>5. WholeUpTo(cp.through)'
    <3>1. SUFFICES ASSUME NEW g \in Groups'
                   PROVE  \/ content'[g].seq > cp.through
                          \/ CompleteGroup(g)' /\ content'[GroupEnd(g)'].seq <= cp.through
      BY DEF WholeUpTo
    <3>2. g \in DOMAIN content'
      BY DEF Groups
    <3>3. CASE g \notin DOMAIN content
      <4>1. content'[g].seq >= nextSeq /\ content'[g].seq \in Int
        BY <1>2, <3>2, <3>3
      <4> QED  BY <1>1, <2>1, <4>1
    <3>4. CASE g \in DOMAIN content
      <4>1. g \in Groups
        BY <1>8, <3>4
      <4>2. GroupEnd(g) \in DOMAIN content /\ GroupEnd(g)' = GroupEnd(g)
            /\ CompleteGroup(g)' = CompleteGroup(g)
        BY <1>1, <1>9, <4>1, GroupEndFacts DEF Base, n
      <4>3. content'[g] = content[g] /\ content'[GroupEnd(g)] = content[GroupEnd(g)]
        BY <1>2, <3>4, <4>2
      <4> QED  BY <2>1, <4>1, <4>2, <4>3 DEF WholeUpTo
    <3> QED  BY <3>3, <3>4
  <2>6. Gapless(cp)'
    <3>1. content'[1] = content[1]
      <4>1. content # <<>>  BY <2>1 DEF Sound
      <4>2. 1 \in DOMAIN content
        BY <4>1, EmptySeq, <1>1 DEF Base, ContentInv, n
      <4> QED  BY <1>2, <4>2
    <3>2. ASSUME cp.kind = "text", NEW k \in 2 .. Len(cp.segments)
          PROVE  {s \in Active' : s > cp.segments[k - 1].through /\ s < cp.segments[k].from} = {}
      <4>1. cp.segments[k].from < nextSeq /\ cp.segments[k].from \in Nat
        <5>1. cp.segments \in Seq(Segment) /\ k \in 1 .. Len(cp.segments)
          BY <2>1, <3>2 DEF Sound
        <5>2. cp.segments[k] \in Segment /\ k \in DOMAIN cp.segments
          BY <5>1, ElementOfSeq, LenProperties
        <5> QED  BY <2>1, <5>2 DEF Sound, Segment
      <4>2. \A s \in Active' : s < cp.segments[k].from => s \in Active
        <5>1. \A s \in Active' : s \in Nat
          BY <1>2 DEF Active, Seqs, n2
        <5> QED  BY <1>1, <2>3, <4>1, <5>1
      <4>3. {s \in Active : s > cp.segments[k - 1].through /\ s < cp.segments[k].from} = {}
        BY <2>1, <3>2 DEF Gapless
      <4> QED  BY <4>2, <4>3
    <3> QED  BY <2>1, <3>1, <3>2 DEF Gapless
  <2> QED  BY <2>4, <2>5, <2>6 DEF Correct
<1>11. checkpoint # <<>> => Correct(checkpoint)'
  BY <1>10 DEF Base
<1> QED  BY <1>7, <1>11 DEF Base

-----------------------------------------------------------------------------
(***************************************************************************)
(* What the session does around it.                                        *)
(***************************************************************************)

LEMMA MessageFacts ==
  ASSUME ContentInv, NEW k \in Nat, k >= 1, NEW role \in Roles, NEW calls \in Nat
  PROVE  /\ Message(k, role, calls) \in Messages
         /\ Message(k, role, calls).seq = nextSeq + k - 1 /\ Message(k, role, calls).role = role
<1>1. nextSeq + k - 1 \in Nat \ {0}
  BY ContentFacts
<1> QED  BY <1>1 DEF Message, Messages

LEMMA UserMessageKeeps ==
  ASSUME Base, UserMessage
  PROVE  Base'
<1> DEFINE first == Message(1, "user", 0)  messages == <<first>>
<1>1. /\ AppendAll(messages) /\ inTurn' = TRUE /\ route' = route /\ checkpoint' = checkpoint
  BY DEF UserMessage
<1>2. first \in Messages /\ first.seq = nextSeq + 1 - 1 /\ first.role = "user"
  BY MessageFacts DEF Roles, Base
<1> HIDE DEF first
<1>3. /\ messages \in Seq(Messages) /\ messages # <<>> /\ DOMAIN messages = {1}
      /\ messages[1] = first
  BY <1>2
<1> HIDE DEF messages
<1>4. \A k \in DOMAIN messages : messages[k].seq = nextSeq + k - 1
  BY <1>2, <1>3
<1>5. messages[1].role # "tool" /\ messages[1].role = "user"
  BY <1>2, <1>3
<1> QED  BY <1>1, <1>3, <1>4, <1>5, AppendKeeps

LEMMA AnswerKeeps ==
  ASSUME Base, NEW calls \in 0 .. MaxCalls, NEW results \in 0 .. MaxCalls,
         NEW goesOn \in BOOLEAN, Answer(calls, results, goesOn)
  PROVE  Base'
<1> DEFINE messages == [k \in 1 .. 1 + results |->
                           IF k = 1 THEN Message(k, "assistant", calls) ELSE Message(k, "tool", 0)]
<1>1. /\ AppendAll(messages) /\ inTurn /\ inTurn' = goesOn /\ route' = route
      /\ checkpoint' = checkpoint
  BY DEF Answer
<1>2. calls \in Nat /\ results \in Nat
  BY BoundsAssumption
<1>3. \A k \in 1 .. 1 + results :
          /\ messages[k] \in Messages /\ messages[k].seq = nextSeq + k - 1
          /\ k = 1 => messages[k].role = "assistant"
  <2>1. SUFFICES ASSUME NEW k \in 1 .. 1 + results
                 PROVE  /\ messages[k] \in Messages /\ messages[k].seq = nextSeq + k - 1
                        /\ k = 1 => messages[k].role = "assistant"
    OBVIOUS
  <2>2. messages[k] = IF k = 1 THEN Message(k, "assistant", calls) ELSE Message(k, "tool", 0)
    OBVIOUS
  <2>3. k \in Nat /\ k >= 1 /\ "assistant" \in Roles /\ "tool" \in Roles /\ 0 \in Nat
    BY <1>2 DEF Roles
  <2> HIDE DEF messages
  <2>4. CASE k = 1
    BY <1>2, <2>2, <2>3, <2>4, MessageFacts DEF Base
  <2>5. CASE k # 1
    BY <1>2, <2>2, <2>3, <2>5, MessageFacts DEF Base
  <2> QED  BY <2>4, <2>5
<1>4. DOMAIN messages = 1 .. 1 + results /\ messages = [k \in 1 .. 1 + results |-> messages[k]]
  OBVIOUS
<1> HIDE DEF messages
<1>5. messages \in [1 .. 1 + results -> Messages] /\ 1 + results \in Nat
  BY <1>2, <1>3, <1>4
<1>6. messages \in Seq(Messages)
  BY <1>5
<1>7. 1 \in DOMAIN messages
  BY <1>2, <1>4
<1>8. messages # <<>>
  <2>1. DOMAIN <<>> = {}
    OBVIOUS
  <2> QED  BY <1>7, <2>1
<1>9. messages[1].role # "tool"
  BY <1>3, <1>4, <1>7
<1>10. \A k \in DOMAIN messages : messages[k].seq = nextSeq + k - 1
  BY <1>3, <1>4
<1> QED  BY <1>1, <1>6, <1>8, <1>9, <1>10, AppendKeeps

LEMMA DeniedEndKeeps ==
  ASSUME Base, DeniedEnd
  PROVE  Base'
<1> DEFINE first == Message(1, "assistant", 0)  second == Message(2, "system", 0)
           messages == <<first, second>>
<1>1. /\ AppendAll(messages) /\ inTurn' = inTurn /\ inTurn /\ route' = route
      /\ checkpoint' = checkpoint
  BY DEF DeniedEnd
<1>2. /\ first \in Messages /\ first.seq = nextSeq + 1 - 1 /\ first.role = "assistant"
      /\ second \in Messages /\ second.seq = nextSeq + 2 - 1
  BY MessageFacts DEF Roles, Base
<1> HIDE DEF first, second
<1>3. /\ messages \in Seq(Messages) /\ messages # <<>> /\ DOMAIN messages = {1, 2}
      /\ messages[1] = first /\ messages[2] = second
  BY <1>2
<1> HIDE DEF messages
<1>4. \A k \in DOMAIN messages : messages[k].seq = nextSeq + k - 1
  BY <1>2, <1>3
<1>5. messages[1].role # "tool" /\ inTurn \in BOOLEAN
  BY <1>1, <1>2, <1>3
<1> QED  BY <1>1, <1>3, <1>4, <1>5, AppendKeeps

LEMMA RewindKeeps ==
  ASSUME Base, Rewind
  PROVE  Base'
<1>1. /\ ~inTurn /\ inTurn' = inTurn /\ nextSeq' = nextSeq /\ route' = route
      /\ checkpoint' = <<>>
  BY DEF Rewind
<1>2. PICK i \in DOMAIN content : content' = SubSeq(content, 1, i - 1)
  BY DEF Rewind
<1>3. /\ Len(content) \in Nat /\ i \in 1 .. Len(content)
      /\ \A j \in 1 .. i - 1 : j \in DOMAIN content /\ content[j] \in Messages
  BY <1>2, ContentFacts DEF Base
<1>4. /\ content' \in Seq(Messages) /\ Len(content') = i - 1
      /\ \A j \in 1 .. i - 1 : content'[j] = content[j]
  BY <1>2, <1>3, SubSeqProperties
<1>5. DOMAIN content' = 1 .. i - 1
  BY <1>4, LenProperties
<1>6. \A j \in DOMAIN content' : j \in DOMAIN content /\ content'[j] = content[j]
  BY <1>3, <1>4, <1>5
<1>7. \A j \in DOMAIN content' : content'[j].seq < nextSeq'
  BY <1>1, <1>6, ContentFacts DEF Base
<1>8. \A j, k \in DOMAIN content' : j < k => content'[j].seq < content'[k].seq
  BY <1>6, ContentFacts DEF Base
<1>9. ContentInv'
  BY <1>1, <1>4, <1>7, <1>8 DEF ContentInv, Base
<1> QED  BY <1>1, <1>9 DEF Base

LEMMA InvParts ==
  ASSUME CompactionInv
  PROVE  Base /\ WorkInv
BY CorrectCheckpoint DEF CompactionInv, Base

LEMMA InvFromParts ==
  Base /\ WorkInv => CompactionInv
BY CorrectCheckpoint DEF CompactionInv, Base

LEMMA InvNext ==
  ASSUME Base', WorkInv'
  PROVE  CompactionInv'
<1>1. (Base /\ WorkInv => CompactionInv)'
  BY InvFromParts, PTL
<1> QED  BY <1>1

LEMMA InitInv ==
  ASSUME Init
  PROVE  CompactionInv
<1>1. content = <<>> /\ nextSeq = 1 /\ ~inTurn /\ inTurn \in BOOLEAN /\ route \in Routes
      /\ checkpoint = <<>> /\ work = <<>>
  BY DEF Init
<1>2. content \in Seq(Messages) /\ DOMAIN content = {}
  BY <1>1
<1>3. ContentInv
  BY <1>1, <1>2 DEF ContentInv
<1>4. Base /\ WorkInv
  BY <1>1, <1>3 DEF Base, WorkInv
<1> QED  BY <1>4, InvFromParts

\* A step of the compaction.
LEMMA CompactKeeps ==
  ASSUME Base, WorkInv, Compact
  PROVE  Base' /\ WorkInv'
<1>1. ASSUME UNCHANGED session, checkpoint' = checkpoint PROVE Base'
  <2>1. /\ content' = content /\ nextSeq' = nextSeq /\ inTurn' = inTurn /\ route' = route
    BY <1>1 DEF session
  <2>2. inTurn' \in BOOLEAN /\ route' \in Routes
    BY <2>1 DEF Base, ContentInv
  <2> QED  BY <1>1, <2>1, <2>2, SameBase
<1>2. ASSUME NEW phase \in {"auto", "standalone"}, StartCompaction(phase)
      PROVE  Base' /\ WorkInv'
  <2>1. UNCHANGED session /\ checkpoint' = checkpoint
    BY <1>2 DEF StartCompaction
  <2> QED  BY <1>1, <1>2, <2>1, StartKeeps
<1>3. CASE FallBack
  <2>1. UNCHANGED session /\ checkpoint' = checkpoint
    BY <1>3 DEF FallBack
  <2> QED  BY <1>1, <1>3, <2>1, FallBackKeeps
<1>4. CASE Overflow
  <2>1. UNCHANGED session /\ checkpoint' = checkpoint
    BY <1>4 DEF Overflow
  <2> QED  BY <1>1, <1>4, <2>1, OverflowKeeps
<1>5. CASE Useless
  <2>1. UNCHANGED session /\ checkpoint' = checkpoint /\ work' = <<>>
    BY <1>5 DEF Useless
  <2> QED  BY <1>1, <2>1, NoWork
<1>6. CASE GiveUp
  <2>1. UNCHANGED session /\ checkpoint' = checkpoint /\ work' = <<>>
    BY <1>6 DEF GiveUp
  <2> QED  BY <1>1, <2>1, NoWork
<1>7. CASE Record
  <2>1. work' = <<>>
    BY <1>7 DEF Record
  <2> QED  BY <1>7, <2>1, RecordKeeps, NoWork
<1> QED  BY <1>2, <1>3, <1>4, <1>5, <1>6, <1>7 DEF Compact

LEMMA NextInv ==
  ASSUME CompactionInv, [Next]_vars
  PROVE  CompactionInv'
<1>1. Base /\ WorkInv
  BY InvParts
<1>2. inTurn \in BOOLEAN /\ route \in Routes
  BY <1>1 DEF Base, ContentInv
<1>3. CASE UserMessage
  <2>1. work' = <<>>
    BY <1>3 DEF UserMessage, Quiet
  <2> QED  BY <1>1, <1>3, <2>1, UserMessageKeeps, NoWork, InvNext
<1>4. CASE DeniedEnd
  <2>1. work' = <<>>
    BY <1>4 DEF DeniedEnd, Quiet
  <2> QED  BY <1>1, <1>4, <2>1, DeniedEndKeeps, NoWork, InvNext
<1>5. CASE TurnFails
  <2>1. /\ work' = <<>> /\ content' = content /\ nextSeq' = nextSeq /\ route' = route
        /\ checkpoint' = checkpoint /\ inTurn' = FALSE
    BY <1>5 DEF TurnFails, Quiet
  <2> QED  BY <1>1, <1>2, <2>1, SameBase, NoWork, InvNext
<1>6. CASE SwitchRoute
  <2>1. /\ work' = <<>> /\ content' = content /\ nextSeq' = nextSeq /\ route' \in Routes
        /\ checkpoint' = checkpoint /\ inTurn' = inTurn
    BY <1>6 DEF SwitchRoute, Quiet
  <2> QED  BY <1>1, <1>2, <2>1, SameBase, NoWork, InvNext
<1>7. CASE Rewind
  <2>1. work' = <<>>
    BY <1>7 DEF Rewind, Quiet
  <2> QED  BY <1>1, <1>7, <2>1, RewindKeeps, NoWork, InvNext
<1>8. CASE Restart
  <2>1. /\ work' = <<>> /\ content' = content /\ nextSeq' = nextSeq /\ route' = route
        /\ checkpoint' = checkpoint /\ inTurn' = FALSE
    BY <1>8 DEF Restart
  <2> QED  BY <1>1, <1>2, <2>1, SameBase, NoWork, InvNext
<1>9. ASSUME NEW calls \in 0 .. MaxCalls, NEW results \in 0 .. MaxCalls, NEW goesOn \in BOOLEAN,
             Answer(calls, results, goesOn)
      PROVE  CompactionInv'
  <2>1. work' = <<>>
    BY <1>9 DEF Answer, Quiet
  <2> QED  BY <1>1, <1>9, <2>1, AnswerKeeps, NoWork, InvNext
<1>10. CASE Compact
  BY <1>1, <1>10, CompactKeeps, InvNext
<1>11. CASE UNCHANGED vars
  <2>1. /\ content' = content /\ nextSeq' = nextSeq /\ inTurn' = inTurn /\ route' = route
        /\ checkpoint' = checkpoint /\ work' = work
    BY <1>11 DEF vars, session
  <2>2. Base'
    BY <1>1, <1>2, <2>1, SameBase
  <2>3. WorkInv'
    <3>1. CASE work = <<>>
      BY <2>1, <3>1, NoWork
    <3>2. CASE work # <<>>
      <4>1. PlanInv(work.previous, work.plan)'
        <5>1. \A previous, plan : PlanInv(previous, plan) => PlanInv(previous, plan)'
          BY <2>1, SamePlan
        <5> QED  BY <1>1, <2>1, <3>2, <5>1 DEF WorkInv
      <4>2. \A phase : BuildPlan(<<>>, phase, 0)' = BuildPlan(<<>>, phase, 0)
        BY <2>1, SameBuildPlan
      <4> QED  BY <1>1, <2>1, <3>2, <4>1, <4>2 DEF WorkInv
    <3> QED  BY <3>1, <3>2
  <2> QED  BY <2>2, <2>3, InvNext
<1> QED
  BY <1>3, <1>4, <1>5, <1>6, <1>7, <1>8, <1>9, <1>10, <1>11 DEF Next

\* Before a checkpoint is believed it is checked, and one that is believed is correct.
LEMMA InvSees ==
  ASSUME CompactionInv
  PROVE  NothingLost /\ RequestSeesUser
<1>1. CheckpointInv /\ ContentInv
  BY DEF CompactionInv
<1>2. ASSUME NEW r \in Routes, Usable(r)
      PROVE  Sound(checkpoint) /\ Known(r) = Absorbed(checkpoint)
             /\ Verbatim(r) = {s \in Active : s > checkpoint.through \/ s = checkpoint.anchor}
  BY <1>1, <1>2 DEF Usable, CheckpointInv, Known, Verbatim, Active
<1>3. ASSUME NEW r \in Routes, ~Usable(r)
      PROVE  Known(r) = {} /\ Verbatim(r) = Active
  BY <1>3 DEF Known, Verbatim, Active
<1>4. \A s \in Active : s \in Nat
  BY <1>1, ContentFacts DEF Active, Seqs
<1>5. ASSUME NEW r \in Routes PROVE Verbatim(r) \cup Known(r) = Active
  <2>1. CASE ~Usable(r)
    BY <1>3, <2>1
  <2>2. CASE Usable(r)
    <3>1. /\ Absorbed(checkpoint) \subseteq Active /\ checkpoint.through \in Int
          /\ \A s \in Active : s <= checkpoint.through =>
                 s \in Absorbed(checkpoint) \/ s = checkpoint.anchor
      BY <1>1, <1>2, <2>2, ContentFacts DEF Sound, KnownTo
    <3>2. \A s \in Active : s > checkpoint.through \/ s <= checkpoint.through
      BY <1>4, <3>1
    <3> QED  BY <1>2, <2>2, <3>1, <3>2
  <2> QED  BY <2>1, <2>2
<1>6. ASSUME NEW r \in Routes, inTurn PROVE content[LastUser].seq \in Verbatim(r)
  <2>1. content[LastUser].seq \in Active
    BY <1>1, <1>6, LastUserFacts, ContentFacts DEF ContentInv, Active, Seqs
  <2>2. Usable(r) => \/ content[LastUser].seq > checkpoint.through
                     \/ content[LastUser].seq = checkpoint.anchor
    BY <1>2, <1>6 DEF Sound
  <2> QED  BY <1>2, <1>3, <2>1, <2>2
<1> QED  BY <1>5, <1>6 DEF NothingLost, RequestSeesUser, Active

LEMMA AlwaysInv == Spec => []CompactionInv
<1>1. Init => CompactionInv
  BY InitInv
<1>2. CompactionInv /\ [Next]_vars => CompactionInv'
  BY NextInv
<1> QED  BY <1>1, <1>2, PTL DEF Spec

\* Every active message reaches the model, verbatim or through a summary, on every route,
\* however often the session was compacted, retreated, fell back or was rewound.
THEOREM LosesNothing == Spec => []NothingLost
<1>1. CompactionInv => NothingLost
  BY InvSees
<1> QED  BY <1>1, AlwaysInv, PTL

\* A checkpoint never parts a call from its results.
THEOREM KeepsGroups == Spec => []GroupsWhole
<1>1. CompactionInv => GroupsWhole
  BY DEF CompactionInv
<1> QED  BY <1>1, AlwaysInv, PTL

\* While a turn runs, its request holds the message of the user as it was written.
THEOREM HearsUser == Spec => []RequestSeesUser
<1>1. CompactionInv => RequestSeesUser
  BY InvSees
<1> QED  BY <1>1, AlwaysInv, PTL

\* The segments of a text checkpoint leave no active message between them.
THEOREM LeavesNoGap == Spec => []SegmentsCover
<1>1. CompactionInv => SegmentsCover
  BY DEF CompactionInv
<1> QED  BY <1>1, AlwaysInv, PTL
=============================================================================
