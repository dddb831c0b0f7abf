--------------------------- MODULE FileRewindProofs ---------------------------
(***************************************************************************)
(* Proofs about file rewind: files and history agree again after every     *)
(* failure and crash, and recovery only refuses what others changed, for   *)
(* any number of files, contents, turns, journals and edits.               *)
(***************************************************************************)
EXTENDS FileRewind, TLAPS, FiniteSetTheorems, SequenceTheorems, WellFoundedInduction

-----------------------------------------------------------------------------
(***************************************************************************)
(* Sequences of anything: those of their own elements.                     *)
(***************************************************************************)

IsSeq(s) == s \in Seq(Range(s))

LEMMA SeqOfAny == ASSUME NEW S, NEW s \in Seq(S) PROVE IsSeq(s)
<1>1. \A i \in 1..Len(s) : s[i] \in Range(s)  BY DEF Range
<1>2. s = [i \in 1..Len(s) |-> s[i]] /\ Len(s) \in Nat  OBVIOUS
<1> QED  BY <1>1, <1>2 DEF IsSeq

LEMMA AppendSeq ==
  ASSUME NEW s, IsSeq(s), NEW e
  PROVE  /\ IsSeq(Append(s, e)) /\ Len(Append(s, e)) = Len(s) + 1
         /\ DOMAIN Append(s, e) = 1..(Len(s) + 1)
         /\ Append(s, e)[Len(s) + 1] = e
         /\ \A i \in 1..Len(s) : Append(s, e)[i] = s[i]
<1> DEFINE S == Range(s) \cup {e}
<1>1. s \in Seq(S) /\ e \in S  BY DEF IsSeq
<1> HIDE DEF S
<1>2. Append(s, e) \in Seq(S) /\ Len(s) \in Nat  BY <1>1
<1>3. IsSeq(Append(s, e))  BY <1>2, SeqOfAny
<1>4. /\ Len(Append(s, e)) = Len(s) + 1 /\ Append(s, e)[Len(s) + 1] = e
      /\ \A i \in 1..Len(s) : Append(s, e)[i] = s[i]
  BY <1>1, AppendProperties
<1> QED  BY <1>2, <1>3, <1>4

LEMMA FrontSeq ==
  ASSUME NEW s, IsSeq(s), s # <<>>
  PROVE  /\ IsSeq(Front(s)) /\ Len(Front(s)) = Len(s) - 1 /\ DOMAIN Front(s) = 1..(Len(s) - 1)
         /\ \A i \in 1..(Len(s) - 1) : Front(s)[i] = s[i]
<1>1. Len(s) \in Nat \ {0}  BY DEF IsSeq
<1>2. Front(s) = SubSeq(s, 1, Len(s) - 1) /\ \A i \in 1..(Len(s) - 1) : s[i] \in Range(s)
  BY <1>1 DEF IsSeq, Front
<1>3. Front(s) \in Seq(Range(s)) /\ Len(Front(s)) = Len(s) - 1
      /\ \A i \in 1..(Len(s) - 1) : Front(s)[i] = s[i]
  <2> DEFINE n == Len(s) - 1  t == SubSeq(s, 1, n)
  <2>1. n \in Nat /\ Front(s) = t /\ \A i \in 1..n : s[i] \in Range(s)
    BY <1>1, <1>2
  <2> HIDE DEF n
  <2>2. /\ t \in Seq(Range(s)) /\ Len(t) = IF 1 <= n THEN n - 1 + 1 ELSE 0
        /\ \A i \in 1..(n - 1 + 1) : t[i] = s[1 + i - 1]
    BY <2>1, SubSeqProperties
  <2>3. Len(t) = n /\ \A i \in 1..n : t[i] = s[i]
    BY <2>1, <2>2
  <2> QED  BY <2>1, <2>2, <2>3 DEF n
<1>4. IsSeq(Front(s))  BY <1>3, SeqOfAny
<1> QED  BY <1>1, <1>3, <1>4

LEMMA TailSeq ==
  ASSUME NEW s, IsSeq(s), s # <<>>
  PROVE  /\ IsSeq(Tail(s)) /\ Len(Tail(s)) = Len(s) - 1 /\ DOMAIN Tail(s) = 1..(Len(s) - 1)
         /\ \A i \in 1..(Len(s) - 1) : Tail(s)[i] = s[i + 1]
<1>1. Tail(s) \in Seq(Range(s)) /\ Len(Tail(s)) = Len(s) - 1
      /\ \A i \in 1..(Len(s) - 1) : Tail(s)[i] = s[i + 1]
  BY HeadTailProperties DEF IsSeq
<1>2. IsSeq(Tail(s))  BY <1>1, SeqOfAny
<1>3. Len(s) \in Nat /\ Len(Tail(s)) \in Nat  BY <1>1 DEF IsSeq
<1>4. DOMAIN Tail(s) = 1..Len(Tail(s))  BY <1>1
<1> QED  BY <1>1, <1>2, <1>3, <1>4

LEMMA ReplaceSeq ==
  ASSUME NEW s, IsSeq(s), NEW n \in DOMAIN s, NEW e
  PROVE  LET t == [s EXCEPT ![n] = e]
         IN  /\ IsSeq(t) /\ Len(t) = Len(s) /\ DOMAIN t = DOMAIN s
             /\ t[n] = e /\ \A i \in DOMAIN s \ {n} : t[i] = s[i]
<1> DEFINE t == [s EXCEPT ![n] = e]  S == Range(s) \cup {e}
<1>1. s \in Seq(S) /\ e \in S /\ n \in 1..Len(s)  BY DEF IsSeq
<1> HIDE DEF S
<1>2. t \in Seq(S) /\ Len(t) = Len(s) /\ DOMAIN t = DOMAIN s
      /\ t[n] = e /\ \A i \in DOMAIN s \ {n} : t[i] = s[i]
  BY <1>1
<1>3. IsSeq(t)  BY <1>2, SeqOfAny
<1> QED  BY <1>2, <1>3

-----------------------------------------------------------------------------
(***************************************************************************)
(* The invariant.                                                          *)
(***************************************************************************)

\* The plans of a call or a journal: each file once.
IsPlans(plans) ==
    /\ IsSeq(plans)
    /\ \A i \in DOMAIN plans : plans[i].file \in Files
    /\ \A i, k \in DOMAIN plans : plans[i].file = plans[k].file => i = k

IsJournal(j) == /\ j = [plans |-> j.plans, state |-> j.state]
                /\ j.state \in {"prepared", "committed"} /\ IsPlans(j.plans)

OfFiles(d) == d = [f \in Files |-> d[f]]

\* The call has a journal that is not committed.
InCall == rw.step \in {"verify", "write", "commit", "restore"}

RewindTypes ==
    /\ OfFiles(disk) /\ OfFiles(expect)
    /\ IsSeq(journals) /\ \A j \in DOMAIN journals : IsJournal(journals[j])
    /\ rw = [step |-> rw.step, kind |-> rw.kind, target |-> rw.target, plans |-> rw.plans, done |-> rw.done]
    /\ IsPlans(rw.plans) /\ rw.done \in 0..Len(rw.plans)
    /\ InCall \/ rw.step = "finish" \/ rw = NoCall
    /\ proc \in {"up", "down", "recovering"}

\* Only the kernel that is up rewinds, only the recovering one has files to look at; the
\* call is at its plans, and the youngest journal is its own.
CallInv ==
    /\ proc # "up" => rw = NoCall
    /\ todo # {} => proc = "recovering" /\ todo \subseteq FilesOf(journals)
    /\ rw.step \in {"verify", "write"} => rw.done < Len(rw.plans)
    /\ rw.step = "commit" => rw.done = Len(rw.plans)
    /\ rw.plans # <<>> => /\ journals # <<>> /\ journals[Len(journals)].plans = rw.plans
                          /\ InCall => journals[Len(journals)].state = "prepared"

\* Of the journals that are prepared only the youngest may be of a rewind that was cut
\* short; the others were left behind, and their files are known to be disturbed.
LeftBehind ==
    \A j \in DOMAIN journals :
        journals[j].state = "prepared" /\ (j < Len(journals) \/ (proc = "up" /\ rw.plans = <<>>))
            => Planned(journals[j].plans) \subseteq disturbed

\* The plans that were cut short, or are being applied.
Cut == IF journals = <<>> \/ journals[Len(journals)].state # "prepared" THEN <<>>
       ELSE journals[Len(journals)].plans

\* A file is as before or as after its plan, and the call and the recovery know which.
FileInv(f) ==
    /\ f \notin Planned(Cut) => disk[f] = expect[f]
    /\ proc = "up" /\ ~InCall => disk[f] = expect[f]
    /\ \A i \in DOMAIN Cut : Cut[i].file = f =>
           /\ Cut[i].before = expect[f] /\ disk[f] \in {expect[f], Cut[i].after}
           /\ proc = "recovering" /\ Len(journals) = 1 /\ Cut[i] \notin todo => disk[f] = expect[f]
           /\ InCall => disk[f] = IF i <= rw.done THEN Cut[i].after ELSE expect[f]

RewindInv == /\ RewindTypes /\ CallInv /\ LeftBehind
             /\ \A f \in Files \ disturbed : FileInv(f)

LEMMA RewindInit == Init => RewindInv
<1> SUFFICES ASSUME Init PROVE RewindInv
  OBVIOUS
<1> USE DEF Init, NoCall
<1>1. IsSeq(<<>>) /\ IsPlans(<<>>)  BY DEF IsSeq, IsPlans
<1>2. RewindTypes
  BY <1>1 DEF RewindTypes, OfFiles, InCall
<1>3. CallInv /\ LeftBehind
  BY DEF CallInv, LeftBehind, InCall
<1>4. ASSUME NEW f \in Files PROVE FileInv(f)
  BY DEF FileInv, Cut, Planned
<1> QED  BY <1>2, <1>3, <1>4 DEF RewindInv

\* What is planned: each file once, as it is.
LEMMA PlansFacts ==
  ASSUME NEW items, NEW force, NEW plans \in Plans(items, force)
  PROVE  IsPlans(plans) /\ \A i \in DOMAIN plans : plans[i].before = disk[plans[i].file]
<1> DEFINE chosen == ChosenFiles(items, force)
           n == Cardinality(chosen)
<1>1. chosen \subseteq Files /\ n \in Nat
  <2>1. chosen \subseteq Files  BY DEF ChosenFiles
  <2>2. IsFiniteSet(chosen)  BY <2>1, FilesAssumption, FS_Subset
  <2> QED  BY <2>1, <2>2, FS_CardinalityType
<1>2. PICK order \in FileOrders(items, chosen) : plans = [i \in 1..n |-> PlanFor(items, order[i])]
  BY DEF Plans
<1> HIDE DEF n, chosen
<1>6. /\ DOMAIN plans = 1..n /\ plans = [i \in 1..n |-> plans[i]]
      /\ \A i \in 1..n : plans[i].file = order[i] /\ plans[i].before = disk[order[i]]
  BY <1>2 DEF PlanFor
<1>3. order \in [1..n -> chosen] /\ \A i, k \in 1..n : order[i] = order[k] => i = k
  BY DEF FileOrders, Bijection, Injection, IsInjective, n
<1>4. IsSeq(plans)
  <2>1. plans \in Seq(Range(plans))
    BY <1>1, <1>6 DEF Range
  <2> QED  BY <2>1 DEF IsSeq
<1>5. \A i \in 1..n : order[i] \in Files  BY <1>1, <1>3
<1> QED  BY <1>3, <1>4, <1>5, <1>6 DEF IsPlans

\* The plans that were cut short: those of the call, if it has any.
LEMMA CutFacts ==
  ASSUME RewindInv
  PROVE  /\ IsPlans(Cut) /\ Planned(Cut) \subseteq Pending
         /\ InCall /\ rw.plans # <<>> => Cut = rw.plans
         /\ proc = "up" /\ rw.plans = <<>> => Planned(Cut) \subseteq disturbed
<1> USE DEF RewindInv, RewindTypes, CallInv
<1>1. journals # <<>> => Len(journals) \in DOMAIN journals
  BY DEF IsSeq
<1>2. IsPlans(<<>>)
  BY DEF IsPlans, IsSeq
<1>3. IsPlans(Cut)
  BY <1>1, <1>2 DEF Cut, IsJournal
<1>4. Planned(Cut) \subseteq Pending
  BY <1>1 DEF Cut, Pending, Planned
<1>5. InCall /\ rw.plans # <<>> => Cut = rw.plans
  BY DEF Cut
<1>6. proc = "up" /\ rw.plans = <<>> => Planned(Cut) \subseteq disturbed
  BY <1>1 DEF Cut, LeftBehind, Planned
<1> QED  BY <1>3, <1>4, <1>5, <1>6

-----------------------------------------------------------------------------
(***************************************************************************)
(* The steps.                                                              *)
(***************************************************************************)

LEMMA NothingMoves ==
  ASSUME RewindInv, UNCHANGED <<disk, expect, journals, rw, proc, todo, disturbed>>
  PROVE  RewindInv'
<1>1. RewindTypes' /\ CallInv' /\ LeftBehind'
  BY DEF RewindInv, RewindTypes, CallInv, LeftBehind, OfFiles, InCall
<1>2. ASSUME NEW f \in Files \ disturbed' PROVE FileInv(f)'
  BY <1>2 DEF RewindInv, FileInv, Cut, InCall
<1> QED  BY <1>1, <1>2 DEF RewindInv

\* Somebody edits a file: it is disturbed if a rewind may still write it.
LEMMA EditedKeeps ==
  ASSUME RewindInv, NEW f \in Files, NEW c, Edited(f, c), UNCHANGED <<journals, rw, proc, todo>>
  PROVE  RewindInv'
<1> USE DEF Edited
<1>1. /\ disk'[f] = c /\ expect'[f] = c
      /\ \A g \in Files : g # f => disk'[g] = disk[g] /\ expect'[g] = expect[g]
      /\ OfFiles(disk)' /\ OfFiles(expect)'
  BY DEF RewindInv, RewindTypes, OfFiles
<1>2. RewindTypes' /\ CallInv'
  BY <1>1 DEF RewindInv, RewindTypes, CallInv, InCall
<1>3. LeftBehind'
  <2>1. SUFFICES ASSUME NEW j \in DOMAIN journals, journals[j].state = "prepared",
                        Planned(journals[j].plans) \subseteq disturbed
                 PROVE  Planned(journals[j].plans) \subseteq disturbed'
    BY DEF RewindInv, LeftBehind
  <2>2. Planned(journals[j].plans) \subseteq Pending
    BY <2>1 DEF Pending
  <2> QED  BY <2>1, <2>2
<1>4. ASSUME NEW g \in Files \ disturbed' PROVE FileInv(g)'
  <2>1. CASE g # f
    <3>1. FileInv(g)
      BY <1>4, <2>1 DEF RewindInv
    <3> QED  BY <1>1, <2>1, <3>1 DEF FileInv, Cut, InCall
  <2>2. CASE g = f
    <3>1. f \notin Planned(Cut)
      BY <1>4, <2>2, CutFacts
    <3>2. \A i \in DOMAIN Cut : Cut[i].file # f
      BY <3>1 DEF Planned
    <3> QED  BY <1>1, <2>2, <3>2 DEF FileInv, Cut
  <2> QED  BY <2>1, <2>2
<1> QED  BY <1>2, <1>3, <1>4 DEF RewindInv

\* The call goes on and writes nothing.
LEMMA StepMoves ==
  ASSUME RewindInv, UNCHANGED <<disk, expect, journals, proc, todo, disturbed>>,
         NEW to \in {"write", "restore", "finish"}, rw' = [rw EXCEPT !.step = to],
         InCall,
         to = "write" => rw.step = "verify",
         to = "finish" => rw.done = 0
  PROVE  RewindInv'
<1>1. /\ rw'.step = to /\ rw'.plans = rw.plans /\ rw'.done = rw.done
      /\ rw' = [step |-> rw'.step, kind |-> rw'.kind, target |-> rw'.target, plans |-> rw'.plans,
                done |-> rw'.done]
  BY DEF RewindInv, RewindTypes
<1>2. RewindTypes'
  BY <1>1 DEF RewindInv, RewindTypes, OfFiles, InCall
<1>3. proc = "up"
  BY DEF RewindInv, CallInv, InCall, NoCall
<1>4. CallInv'
  BY <1>1, <1>3 DEF RewindInv, CallInv, InCall
<1>5. LeftBehind'
  BY <1>1 DEF RewindInv, LeftBehind
<1>6. ASSUME NEW f \in Files \ disturbed' PROVE FileInv(f)'
  <2>1. FileInv(f)  BY <1>6 DEF RewindInv
  <2>2. CASE to # "finish"
    <3>1. InCall'  BY <1>1, <2>2 DEF InCall
    <3> QED  BY <1>1, <1>3, <2>1, <3>1 DEF FileInv, Cut
  <2>3. CASE to = "finish"
    <3>1. ~InCall' /\ rw.done = 0  BY <1>1, <2>3 DEF InCall
    <3>2. disk[f] = expect[f]
      <4>1. CASE f \notin Planned(Cut)
        BY <2>1, <4>1 DEF FileInv
      <4>2. CASE f \in Planned(Cut)
        <5>1. PICK i \in DOMAIN Cut : Cut[i].file = f  BY <4>2 DEF Planned
        <5>2. ~(i <= 0)
          BY CutFacts DEF IsPlans, IsSeq
        <5> QED  BY <2>1, <3>1, <5>1, <5>2 DEF FileInv
      <4> QED  BY <4>1, <4>2
    <3> QED  BY <1>1, <1>3, <2>1, <3>1, <3>2 DEF FileInv, Cut
  <2> QED  BY <2>2, <2>3
<1> QED  BY <1>2, <1>4, <1>5, <1>6 DEF RewindInv

\* Confirm: what is planned is what the files hold.
LEMMA ConfirmKeeps == ASSUME RewindInv, NEW force, Confirm(force) PROVE RewindInv'
<1> DEFINE items == Affected(preview.kind, preview.target)
<1>1. PICK plans \in Plans(items, force) :
         /\ rw' = [step |-> IF plans = <<>> THEN "commit" ELSE "verify", kind |-> preview.kind,
                   target |-> preview.target, plans |-> plans, done |-> 0]
         /\ plans = <<>> => journals' = journals
         /\ plans # <<>> => journals' = Append(journals, [plans |-> plans, state |-> "prepared"])
  BY DEF Confirm
<1>2. /\ proc = "up" /\ rw = NoCall /\ rw.plans = <<>> /\ ~InCall
      /\ UNCHANGED <<disk, proc, todo, expect, disturbed>>
  BY DEF Confirm, RewindInv, RewindTypes, NoCall, InCall
<1>3. IsPlans(plans) /\ \A i \in DOMAIN plans : plans[i].before = disk[plans[i].file]
  BY PlansFacts
<1> DEFINE journal == [plans |-> plans, state |-> "prepared"]  n == Len(journals)
<1>4. n \in Nat /\ IsSeq(journals) /\ DOMAIN journals = 1..n /\ (plans # <<>> => Len(plans) \in Nat \ {0})
      /\ DOMAIN plans = 1..Len(plans) /\ Len(plans) \in Nat
  BY <1>3 DEF RewindInv, RewindTypes, IsPlans, IsSeq
<1>5. /\ rw'.plans = plans /\ rw'.done = 0 /\ rw'.step = (IF plans = <<>> THEN "commit" ELSE "verify")
      /\ rw' = [step |-> rw'.step, kind |-> rw'.kind, target |-> rw'.target, plans |-> rw'.plans,
                done |-> rw'.done]
      /\ InCall'
  BY <1>1 DEF InCall
<1>6. plans # <<>> => /\ IsSeq(journals') /\ Len(journals') = n + 1 /\ DOMAIN journals' = 1..(n + 1)
                      /\ journals'[n + 1] = journal
                      /\ \A j \in 1..n : journals'[j] = journals[j]
  <2>1. plans # <<>> => journals' = Append(journals, journal)  BY <1>1
  <2> HIDE DEF journal
  <2>2. IsSeq(journals) => /\ IsSeq(Append(journals, journal)) /\ Len(Append(journals, journal)) = Len(journals) + 1
                           /\ DOMAIN Append(journals, journal) = 1..(Len(journals) + 1)
                           /\ Append(journals, journal)[Len(journals) + 1] = journal
                           /\ \A j \in 1..Len(journals) : Append(journals, journal)[j] = journals[j]
    BY AppendSeq
  <2> QED  BY <1>4, <2>1, <2>2
<1> HIDE DEF n
<1>7. RewindTypes'
  <2>1. \A j \in DOMAIN journals' : IsJournal(journals'[j])
    <3>1. IsJournal(journal)  BY <1>3 DEF IsJournal
    <3>2. \A j \in 1..n : IsJournal(journals[j])  BY <1>4 DEF RewindInv, RewindTypes
    <3> HIDE DEF journal
    <3> QED  BY <1>1, <1>4, <1>6, <3>1, <3>2
  <2>2. IsSeq(journals')  BY <1>1, <1>4, <1>6
  <2>3. rw'.done \in 0..Len(rw'.plans)  BY <1>4, <1>5
  <2> QED  BY <1>2, <1>3, <1>5, <2>1, <2>2, <2>3 DEF RewindInv, RewindTypes, OfFiles
<1>8. CallInv'
  <2>1. todo = {}  BY <1>2 DEF RewindInv, CallInv
  <2>2. plans = <<>> => Len(plans) = 0  OBVIOUS
  <2>3. plans # <<>> => /\ journals' # <<>> /\ journals'[Len(journals')].plans = plans
                        /\ journals'[Len(journals')].state = "prepared"
    BY <1>4, <1>6
  <2> QED  BY <1>2, <1>4, <1>5, <2>1, <2>2, <2>3 DEF CallInv
<1>9. LeftBehind'
  <2>1. \A j \in 1..n : journals[j].state = "prepared" => Planned(journals[j].plans) \subseteq disturbed
    BY <1>2, <1>4 DEF RewindInv, LeftBehind
  <2> HIDE DEF journal
  <2> QED  BY <1>1, <1>2, <1>4, <1>5, <1>6, <2>1 DEF LeftBehind
<1>10. ASSUME NEW f \in Files \ disturbed' PROVE FileInv(f)'
  <2>1. disk[f] = expect[f]
    BY <1>2, <1>10 DEF RewindInv, FileInv
  <2>2. CASE plans = <<>>
    <3>1. Cut' = Cut /\ f \notin Planned(Cut)
      BY <1>1, <1>2, <1>10, <2>2, CutFacts DEF Cut
    <3>2. \A i \in DOMAIN Cut : Cut[i].file # f  BY <3>1 DEF Planned
    <3> QED  BY <1>2, <2>1, <3>1, <3>2 DEF FileInv
  <2>3. CASE plans # <<>>
    <3>1. Cut' = plans
      BY <1>4, <1>6, <2>3 DEF Cut
    <3>2. \A i \in DOMAIN plans : ~(i <= 0)
      BY <1>4
    <3> QED  BY <1>2, <1>3, <1>5, <2>1, <3>1, <3>2 DEF FileInv
  <2> QED  BY <2>2, <2>3
<1> QED  BY <1>7, <1>8, <1>9, <1>10 DEF RewindInv

\* A step of the call at one of its plans: one file is written, or given up as disturbed.
LEMMA PlanStep ==
  ASSUME RewindInv, InCall, rw.plans # <<>>, NEW k \in DOMAIN rw.plans,
         UNCHANGED <<expect, journals, proc, todo>>,
         NEW d \in {rw.plans[k].before, rw.plans[k].after},
         \/ disk' = [disk EXCEPT ![rw.plans[k].file] = d] /\ disturbed' = disturbed
         \/ disk' = disk /\ disturbed' = disturbed \cup {rw.plans[k].file},
         NEW to \in {"verify", "commit", "restore"}, NEW n \in 0..Len(rw.plans),
         rw' = [rw EXCEPT !.step = to, !.done = n],
         to = "verify" => n < Len(rw.plans),
         to = "commit" => n = Len(rw.plans),
         \/ n = k - 1 /\ rw.done = k /\ d = rw.plans[k].before
         \/ n = k /\ rw.done = k - 1 /\ d = rw.plans[k].after
  PROVE  RewindInv'
<1> DEFINE g == rw.plans[k].file
<1>0. /\ g \in Files /\ k \in Nat /\ proc = "up" /\ Cut = rw.plans /\ DOMAIN rw.plans \subseteq Nat
      /\ \A i \in DOMAIN rw.plans : rw.plans[i].file = g => i = k
  BY CutFacts DEF RewindInv, RewindTypes, CallInv, IsPlans, IsSeq, InCall, NoCall
<1>1. /\ rw'.step = to /\ rw'.plans = rw.plans /\ rw'.done = n
      /\ rw' = [step |-> rw'.step, kind |-> rw'.kind, target |-> rw'.target, plans |-> rw'.plans,
                done |-> rw'.done]
      /\ InCall'
  BY DEF RewindInv, RewindTypes, InCall
<1>2. /\ g \notin disturbed' => disk'[g] = d
      /\ \A f \in Files : f # g => disk'[f] = disk[f]
      /\ OfFiles(disk)' /\ disturbed \subseteq disturbed' /\ disturbed' \subseteq disturbed \cup {g}
  BY <1>0 DEF RewindInv, RewindTypes, OfFiles
<1> HIDE DEF g
<1>3. RewindTypes'
  BY <1>0, <1>1, <1>2 DEF RewindInv, RewindTypes, OfFiles
<1>4. CallInv'
  BY <1>0, <1>1 DEF RewindInv, CallInv, InCall
<1>5. LeftBehind'
  BY <1>1, <1>2 DEF RewindInv, LeftBehind
<1>6. ASSUME NEW f \in Files \ disturbed' PROVE FileInv(f)'
  <2>1. FileInv(f)  BY <1>2, <1>6 DEF RewindInv
  <2>2. Cut' = Cut  BY DEF Cut
  <2>3. CASE f # g
    <3>1. \A i \in DOMAIN rw.plans : rw.plans[i].file = f => (i <= n <=> i <= rw.done)
      <4>1. SUFFICES ASSUME NEW i \in DOMAIN rw.plans, rw.plans[i].file = f
                     PROVE  i <= n <=> i <= rw.done
        OBVIOUS
      <4>2. i # k  BY <2>3, <4>1 DEF g
      <4> QED  BY <1>0, <4>2
    <3>2. disk'[f] = disk[f]  BY <1>2, <1>6, <2>3
    <3> QED  BY <1>0, <1>1, <2>1, <2>2, <3>1, <3>2 DEF FileInv
  <2>4. CASE f = g
    <3>1. disk'[f] = d /\ f \in Planned(Cut) /\ rw.plans[k].before = expect[f]
      BY <1>0, <1>2, <1>6, <2>1, <2>4 DEF FileInv, Planned, g
    <3>2. (n = k - 1 => ~(k <= n)) /\ (n = k => k <= n)
      BY <1>0
    <3>3. d = IF k <= n THEN rw.plans[k].after ELSE expect[f]
      BY <3>1, <3>2
    <3> QED  BY <1>0, <1>1, <2>1, <2>2, <2>4, <3>1, <3>3 DEF FileInv
  <2> QED  BY <2>3, <2>4
<1> QED  BY <1>3, <1>4, <1>5, <1>6 DEF RewindInv

\* The transaction: the files are what an atomic rewind makes of them.
LEMMA CommitKeeps == ASSUME RewindInv, Commit PROVE RewindInv'
<1> DEFINE n == Len(journals)
<1>1. /\ rw.step = "commit" /\ InCall /\ proc = "up" /\ rw.done = Len(rw.plans)
      /\ UNCHANGED <<disk, proc, todo, disturbed>>
      /\ rw'.step = "finish" /\ rw'.plans = rw.plans /\ rw'.done = rw.done
      /\ rw' = [step |-> rw'.step, kind |-> rw'.kind, target |-> rw'.target, plans |-> rw'.plans,
                done |-> rw'.done]
      /\ ~InCall'
  BY DEF Commit, RewindInv, RewindTypes, CallInv, InCall, NoCall
<1>2. /\ n \in Nat /\ IsSeq(journals) /\ DOMAIN journals = 1..n /\ (journals # <<>> => n \in 1..n)
      /\ IsPlans(rw.plans) /\ DOMAIN rw.plans = 1..Len(rw.plans)
  BY DEF RewindInv, RewindTypes, IsSeq, IsPlans
<1>3. rw.plans = <<>> => journals' = journals
  BY DEF Commit, MarkCommitted
<1>4. rw.plans # <<>> =>
         /\ IsSeq(journals') /\ Len(journals') = n /\ DOMAIN journals' = 1..n /\ n \in 1..n
         /\ journals'[n].plans = rw.plans /\ journals'[n].state = "committed" /\ IsJournal(journals'[n])
         /\ \A j \in 1..n : j # n => journals'[j] = journals[j]
         /\ journals' # <<>>
  <2> SUFFICES ASSUME rw.plans # <<>> PROVE /\ IsSeq(journals') /\ Len(journals') = n
         /\ DOMAIN journals' = 1..n /\ n \in 1..n
         /\ journals'[n].plans = rw.plans /\ journals'[n].state = "committed" /\ IsJournal(journals'[n])
         /\ \A j \in 1..n : j # n => journals'[j] = journals[j]
         /\ journals' # <<>>
    OBVIOUS
  <2> DEFINE e == [journals[n] EXCEPT !.state = "committed"]
  <2>1. journals # <<>> /\ journals[n].plans = rw.plans /\ n \in 1..n
    BY <1>2 DEF RewindInv, CallInv
  <2>2. journals' = [journals EXCEPT ![n] = e]
    BY DEF Commit, MarkCommitted
  <2>3. e.plans = rw.plans /\ e.state = "committed" /\ IsJournal(e)
    <3>1. IsJournal(journals[n])  BY <1>2, <2>1 DEF RewindInv, RewindTypes
    <3> QED  BY <2>1, <3>1 DEF IsJournal
  <2> HIDE DEF e, n
  <2>4. /\ IsSeq(journals') /\ Len(journals') = Len(journals) /\ DOMAIN journals' = DOMAIN journals
        /\ journals'[n] = e /\ \A j \in DOMAIN journals \ {n} : journals'[j] = journals[j]
    <3>1. IsSeq(journals) /\ n \in DOMAIN journals
      BY <1>2, <2>1
    <3>2. LET t == [journals EXCEPT ![n] = e]
          IN  /\ IsSeq(t) /\ Len(t) = Len(journals) /\ DOMAIN t = DOMAIN journals
              /\ t[n] = e /\ \A i \in DOMAIN journals \ {n} : t[i] = journals[i]
      BY <3>1, ReplaceSeq, Zenon
    <3> QED  BY <2>2, <3>2, Zenon
  <2>5. journals' # <<>>  BY <1>2, <2>1, <2>4
  <2> QED  BY <1>2, <2>1, <2>3, <2>4, <2>5 DEF n
<1> HIDE DEF n
<1>5. /\ OfFiles(expect)'
      /\ \A f \in Files : f \notin Planned(rw.plans) => expect'[f] = expect[f]
      /\ \A i \in DOMAIN rw.plans : expect'[rw.plans[i].file] = rw.plans[i].after
  <2>1. expect' = Rewound(expect, rw.plans)  BY DEF Commit
  <2>2. OfFiles(expect)'
    BY <2>1 DEF Rewound, OfFiles
  <2>3. \A f \in Files : f \notin Planned(rw.plans) => expect'[f] = expect[f]
    BY <2>1 DEF Rewound, Planned
  <2>4. ASSUME NEW i \in DOMAIN rw.plans
        PROVE  expect'[rw.plans[i].file] = rw.plans[i].after
    <3> DEFINE f == rw.plans[i].file
    <3>1. f \in Files /\ \A j \in DOMAIN rw.plans : rw.plans[j].file = f <=> j = i
      BY <1>2 DEF IsPlans
    <3>2. (CHOOSE j \in DOMAIN rw.plans : rw.plans[j].file = f) = i
      BY <3>1
    <3> QED  BY <2>1, <3>1, <3>2 DEF Rewound
  <2> QED  BY <2>2, <2>3, <2>4
<1>6. RewindTypes'
  BY <1>1, <1>2, <1>3, <1>4, <1>5 DEF RewindInv, RewindTypes, OfFiles
<1>7. CallInv'
  BY <1>1, <1>3, <1>4 DEF RewindInv, CallInv, InCall, NoCall
<1>8. LeftBehind'
  BY <1>1, <1>2, <1>3, <1>4 DEF RewindInv, LeftBehind
<1>9. ASSUME NEW f \in Files \ disturbed' PROVE FileInv(f)'
  <2>1. FileInv(f) /\ f \notin disturbed  BY <1>1, <1>9 DEF RewindInv
  <2>2. CASE rw.plans = <<>>
    <3>1. f \notin Planned(Cut) /\ f \notin Planned(rw.plans)
      BY <1>1, <2>1, <2>2, CutFacts DEF Planned
    <3>2. disk'[f] = expect'[f]
      BY <1>1, <1>5, <1>9, <2>1, <3>1 DEF FileInv
    <3>3. Cut' = Cut /\ \A i \in DOMAIN Cut : Cut[i].file # f
      BY <1>3, <2>2, <3>1 DEF Cut, Planned
    <3> QED  BY <3>2, <3>3 DEF FileInv
  <2>3. CASE rw.plans # <<>>
    <3>1. Cut = rw.plans  BY <1>1, <2>3, CutFacts
    <3>2. Cut' = <<>>  BY <1>4, <2>3 DEF Cut
    <3>3. disk'[f] = expect'[f]
      <4>1. CASE f \notin Planned(rw.plans)
        BY <1>1, <1>5, <1>9, <2>1, <3>1, <4>1 DEF FileInv
      <4>2. CASE f \in Planned(rw.plans)
        <5>1. PICK i \in DOMAIN rw.plans : rw.plans[i].file = f  BY <4>2 DEF Planned
        <5>2. i <= rw.done  BY <1>1, <1>2
        <5> QED  BY <1>1, <1>5, <2>1, <3>1, <5>1, <5>2 DEF FileInv
      <4> QED  BY <4>1, <4>2
    <3> QED  BY <3>2, <3>3 DEF FileInv
  <2> QED  BY <2>2, <2>3
<1> QED  BY <1>6, <1>7, <1>8, <1>9 DEF RewindInv

\* The end of a call: its journal goes, or it stays and its files are disturbed.
LEMMA FinishKeeps == ASSUME RewindInv, Finish PROVE RewindInv'
<1> DEFINE n == Len(journals)
<1>1. /\ rw.step = "finish" /\ ~InCall /\ proc = "up" /\ rw' = NoCall /\ ~InCall'
      /\ UNCHANGED <<disk, expect, proc, todo>> /\ todo = {}
  BY DEF Finish, RewindInv, RewindTypes, CallInv, InCall, NoCall
<1>2. /\ n \in Nat /\ IsSeq(journals) /\ DOMAIN journals = 1..n
      /\ (rw.plans # <<>> => n \in 1..n /\ journals # <<>> /\ journals[n].plans = rw.plans)
  BY DEF RewindInv, RewindTypes, CallInv, IsSeq
<1>3. \/ rw.plans = <<>> /\ journals' = journals /\ disturbed' = disturbed
      \/ rw.plans # <<>> /\ journals' = Front(journals) /\ disturbed' = disturbed
      \/ /\ rw.plans # <<>> /\ journals' = journals
         /\ disturbed' = IF journals[n].state = "prepared" THEN disturbed \cup Planned(rw.plans)
                                                           ELSE disturbed
  BY DEF Finish, Last
<1>4. rw.plans # <<>> /\ journals' = Front(journals) =>
         /\ IsSeq(journals') /\ Len(journals') = n - 1 /\ DOMAIN journals' = 1..(n - 1)
         /\ \A j \in 1..(n - 1) : journals'[j] = journals[j]
  BY <1>2, FrontSeq
<1> HIDE DEF n
<1>5. /\ IsSeq(journals') /\ disturbed \subseteq disturbed'
      /\ \A j \in DOMAIN journals' : /\ j \in DOMAIN journals /\ journals'[j] = journals[j]
      /\ \A j \in DOMAIN journals' : j \in 1..n /\ (j < n \/ (j = n /\ journals' = journals))
  BY <1>2, <1>3, <1>4
<1>6. RewindTypes'
  <2>1. IsPlans(<<>>) /\ 0 \in 0..Len(<<>>)  BY DEF IsPlans, IsSeq
  <2> QED  BY <1>1, <1>5, <2>1 DEF RewindInv, RewindTypes, OfFiles, NoCall
<1>7. CallInv'
  BY <1>1 DEF CallInv, NoCall, InCall
<1>8. LeftBehind'
  <2>1. SUFFICES ASSUME NEW j \in DOMAIN journals', journals[j].state = "prepared"
                 PROVE  Planned(journals[j].plans) \subseteq disturbed'
    BY <1>5 DEF LeftBehind
  <2>2. CASE j < n \/ rw.plans = <<>>
    BY <1>1, <1>5, <2>1, <2>2 DEF RewindInv, LeftBehind, n
  <2>3. CASE j = n /\ rw.plans # <<>> /\ journals' = journals
    <3>1. disturbed' = disturbed \cup Planned(rw.plans) \/ journals' = Front(journals)
      BY <1>3, <2>1, <2>3
    <3>2. journals' # Front(journals)
      BY <1>2, <1>4, <2>3
    <3> QED  BY <1>2, <2>3, <3>1, <3>2
  <2> QED  BY <1>5, <2>1, <2>2, <2>3
<1>9. ASSUME NEW f \in Files \ disturbed' PROVE FileInv(f)'
  <2>1. disk'[f] = expect'[f]
    BY <1>1, <1>5, <1>9 DEF RewindInv, FileInv
  <2>2. \A i \in DOMAIN Cut' : Cut'[i].file # f
    <3>1. SUFFICES ASSUME journals' # <<>>, journals'[Len(journals')].state = "prepared"
                   PROVE  f \notin Planned(journals'[Len(journals')].plans)
      BY DEF Cut, Planned
    <3>2. Len(journals') \in DOMAIN journals'
      BY <1>5, <3>1 DEF IsSeq
    <3> QED  BY <1>1, <1>8, <1>9, <3>1, <3>2 DEF LeftBehind, NoCall
  <2> QED  BY <1>1, <2>1, <2>2 DEF FileInv
<1> QED  BY <1>6, <1>7, <1>8, <1>9 DEF RewindInv

\* A crash: where the call was is forgotten, and the files are as they were.
LEMMA CrashKeeps == ASSUME RewindInv, Crash PROVE RewindInv'
<1>1. /\ rw' = NoCall /\ proc' = "down" /\ todo' = {} /\ ~InCall' /\ proc # "down"
      /\ UNCHANGED <<disk, expect, journals, disturbed>>
  BY DEF Crash, InCall, NoCall
<1>2. RewindTypes'
  <2>1. IsPlans(<<>>) /\ 0 \in 0..Len(<<>>)  BY DEF IsPlans, IsSeq
  <2> QED  BY <1>1, <2>1 DEF RewindInv, RewindTypes, OfFiles, NoCall
<1>3. CallInv'
  BY <1>1 DEF CallInv, NoCall, InCall
<1>4. LeftBehind'
  BY <1>1 DEF RewindInv, LeftBehind
<1>5. ASSUME NEW f \in Files \ disturbed' PROVE FileInv(f)'
  <2>1. FileInv(f)  BY <1>1, <1>5 DEF RewindInv
  <2> QED  BY <1>1, <2>1 DEF FileInv, Cut
<1> QED  BY <1>2, <1>3, <1>4, <1>5 DEF RewindInv

\* While the kernel does not run, the oldest journal may only hold clean files if it is the youngest.
LEMMA OldestJournal ==
  ASSUME RewindInv, proc # "up", NEW plan \in FilesOf(journals), plan.file \notin disturbed
  PROVE  /\ Len(journals) = 1 /\ plan.file \in Files
         /\ \E i \in DOMAIN Cut : Cut[i] = plan
<1>1. /\ journals # <<>> /\ journals[1].state = "prepared" /\ Len(journals) \in Nat \ {0}
      /\ DOMAIN journals = 1..Len(journals)
      /\ \E i \in DOMAIN journals[1].plans : journals[1].plans[i] = plan
  BY DEF RewindInv, RewindTypes, FilesOf, IsSeq
<1>2. plan.file \in Planned(journals[1].plans)
  BY <1>1 DEF Planned
<1>3. Len(journals) = 1
  BY <1>1, <1>2 DEF RewindInv, LeftBehind
<1>4. IsPlans(journals[1].plans) /\ Cut = journals[1].plans
  BY <1>1, <1>3 DEF RewindInv, RewindTypes, IsJournal, Cut
<1> QED  BY <1>1, <1>3, <1>4 DEF IsPlans

LEMMA StartKeeps == ASSUME RewindInv, Start PROVE RewindInv'
<1>1. /\ rw = NoCall /\ proc = "down" /\ proc' = "recovering" /\ todo' = FilesOf(journals)
      /\ ~InCall /\ ~InCall'
      /\ UNCHANGED <<disk, expect, journals, rw, disturbed>>
  BY DEF Start, RewindInv, CallInv, InCall, NoCall
<1>2. RewindTypes' /\ CallInv' /\ LeftBehind'
  BY <1>1 DEF RewindInv, RewindTypes, CallInv, LeftBehind, OfFiles, InCall, NoCall, FilesOf
<1>3. ASSUME NEW f \in Files \ disturbed' PROVE FileInv(f)'
  <2>1. FileInv(f)  BY <1>1, <1>3 DEF RewindInv
  <2>2. Len(journals) = 1 => \A i \in DOMAIN Cut : Cut[i] \in FilesOf(journals)
    BY DEF Cut, FilesOf
  <2> QED  BY <1>1, <2>1, <2>2 DEF FileInv, Cut
<1> QED  BY <1>2, <1>3 DEF RewindInv

LEMMA RecoverFileKeeps == ASSUME RewindInv, NEW plan, RecoverFile(plan) PROVE RewindInv'
<1> DEFINE g == plan.file
<1>1. /\ rw = NoCall /\ proc = "recovering" /\ plan \in FilesOf(journals) /\ ~InCall /\ ~InCall'
      /\ disk' = [disk EXCEPT ![g] = plan.before] /\ todo' = todo \ {plan}
      /\ UNCHANGED <<expect, journals, rw, proc, disturbed>>
  BY DEF RecoverFile, RewindInv, CallInv, InCall, NoCall
<1>2. OfFiles(disk') /\ \A f \in Files : disk'[f] = IF f = g THEN plan.before ELSE disk[f]
  BY <1>1 DEF RewindInv, RewindTypes, OfFiles
<1>3. RewindTypes' /\ CallInv' /\ LeftBehind'
  BY <1>1, <1>2 DEF RewindInv, RewindTypes, CallInv, LeftBehind, OfFiles, InCall
<1> HIDE DEF g
<1>4. ASSUME NEW f \in Files \ disturbed' PROVE FileInv(f)'
  <2>1. FileInv(f) /\ f \notin disturbed  BY <1>1, <1>4 DEF RewindInv
  <2>2. CASE f = g
    <3>1. PICK i \in DOMAIN Cut : Cut[i] = plan
      BY <1>1, <2>1, <2>2, OldestJournal DEF g
    <3>2. disk'[f] = expect[f]
      BY <1>2, <1>4, <2>1, <2>2, <3>1 DEF FileInv, g
    <3> QED  BY <1>1, <2>1, <3>2 DEF FileInv, Cut
  <2>3. CASE f # g
    <3>1. disk'[f] = disk[f]  BY <1>2, <1>4, <2>3
    <3>2. \A i \in DOMAIN Cut : Cut[i].file = f /\ Cut[i] \notin todo' => Cut[i] \notin todo
      BY <1>1, <2>3 DEF g
    <3> QED  BY <1>1, <2>1, <3>1, <3>2 DEF FileInv, Cut
  <2> QED  BY <2>2, <2>3
<1> QED  BY <1>3, <1>4 DEF RewindInv

LEMMA RecoverJournalKeeps == ASSUME RewindInv, RecoverJournal PROVE RewindInv'
<1> DEFINE n == Len(journals)
<1>1. /\ rw = NoCall /\ proc = "recovering" /\ journals # <<>> /\ todo = {} /\ ~InCall /\ ~InCall'
      /\ journals' = Tail(journals) /\ todo' = FilesOf(journals')
      /\ UNCHANGED <<disk, expect, rw, proc, disturbed>>
  BY DEF RecoverJournal, RewindInv, CallInv, InCall, NoCall
<1>2. n \in Nat \ {0} /\ DOMAIN journals = 1..n /\ IsSeq(journals)
  BY <1>1 DEF RewindInv, RewindTypes, IsSeq
<1>3. /\ IsSeq(journals') /\ Len(journals') = n - 1 /\ DOMAIN journals' = 1..(n - 1)
      /\ \A j \in 1..(n - 1) : journals'[j] = journals[j + 1] /\ j + 1 \in 1..n
  BY <1>1, <1>2, TailSeq
<1> HIDE DEF n
<1>4. RewindTypes'
  BY <1>1, <1>2, <1>3 DEF RewindInv, RewindTypes, OfFiles
<1>5. CallInv'
  BY <1>1 DEF CallInv, NoCall, InCall
<1>6. LeftBehind'
  <2>1. SUFFICES ASSUME NEW j \in 1..(n - 1), journals'[j].state = "prepared", j < n - 1
                 PROVE  Planned(journals'[j].plans) \subseteq disturbed
    BY <1>1, <1>3 DEF LeftBehind
  <2>2. j + 1 < n /\ j + 1 \in DOMAIN journals
    BY <1>2, <2>1
  <2> QED  BY <1>3, <2>1, <2>2 DEF RewindInv, LeftBehind, n
<1>7. ASSUME NEW f \in Files \ disturbed' PROVE FileInv(f)'
  <2>1. FileInv(f)  BY <1>1, <1>7 DEF RewindInv
  <2>2. CASE n = 1
    <3>1. Cut' = <<>>
      <4>1. journals' = <<>>  BY <1>3, <2>2 DEF IsSeq
      <4> QED  BY <4>1 DEF Cut
    <3>2. disk[f] = expect[f]
      <4>1. CASE f \notin Planned(Cut)
        BY <2>1, <4>1 DEF FileInv
      <4>2. CASE f \in Planned(Cut)
        <5>1. PICK i \in DOMAIN Cut : Cut[i].file = f  BY <4>2 DEF Planned
        <5> QED  BY <1>1, <2>1, <2>2, <5>1 DEF FileInv, n
      <4> QED  BY <4>1, <4>2
    <3> QED  BY <1>1, <3>1, <3>2 DEF FileInv
  <2>3. CASE n # 1
    <3>1. journals' # <<>> /\ journals'[Len(journals')] = journals[n] /\ Len(journals') = n - 1
      <4>1. n - 1 \in 1..(n - 1) /\ n - 1 + 1 = n  BY <1>2, <2>3
      <4> QED  BY <1>3, <4>1
    <3>2. Cut' = Cut  BY <1>1, <3>1 DEF Cut, n
    <3>3. Len(journals') = 1 => \A i \in DOMAIN Cut : Cut[i] \in todo'
      <4>1. SUFFICES ASSUME Len(journals') = 1, NEW i \in DOMAIN Cut' PROVE Cut'[i] \in todo'
        BY <3>2
      <4>2. journals'[1].state = "prepared" /\ Cut' = journals'[1].plans
        BY <4>1 DEF Cut
      <4> QED  BY <1>1, <3>1, <4>1, <4>2 DEF FilesOf
    <3> QED  BY <1>1, <2>1, <3>2, <3>3 DEF FileInv
  <2> QED  BY <2>2, <2>3
<1> QED  BY <1>4, <1>5, <1>6, <1>7 DEF RewindInv

LEMMA RefuseKeeps == ASSUME RewindInv, RefuseStart PROVE RewindInv'
<1>1. /\ rw = NoCall /\ proc' = "down" /\ todo' = {} /\ ~InCall /\ proc # "up"
      /\ UNCHANGED <<disk, expect, journals, rw, disturbed>>
  BY DEF RefuseStart, RewindInv, CallInv, InCall, NoCall
<1>2. RewindTypes' /\ CallInv' /\ LeftBehind'
  BY <1>1 DEF RewindInv, RewindTypes, CallInv, LeftBehind, OfFiles, InCall
<1>3. ASSUME NEW f \in Files \ disturbed' PROVE FileInv(f)'
  BY <1>1, <1>3 DEF RewindInv, FileInv, Cut, InCall
<1> QED  BY <1>2, <1>3 DEF RewindInv

LEMMA RecoveredKeeps == ASSUME RewindInv, Recovered PROVE RewindInv'
<1>1. /\ rw = NoCall /\ proc = "recovering" /\ proc' = "up" /\ journals = <<>> /\ todo = {} /\ ~InCall
      /\ UNCHANGED <<disk, expect, journals, rw, todo, disturbed>>
  BY DEF Recovered, RewindInv, CallInv, InCall, NoCall, FilesOf
<1>2. RewindTypes' /\ CallInv' /\ LeftBehind'
  BY <1>1 DEF RewindInv, RewindTypes, CallInv, LeftBehind, OfFiles, InCall, NoCall
<1>3. ASSUME NEW f \in Files \ disturbed' PROVE FileInv(f)'
  <2>1. FileInv(f) /\ Cut = <<>>  BY <1>1, <1>3 DEF RewindInv, Cut
  <2> QED  BY <1>1, <2>1 DEF FileInv, Cut, Planned
<1> QED  BY <1>2, <1>3 DEF RewindInv

LEMMA RewindStep == ASSUME RewindInv, [Next]_vars PROVE RewindInv'
<1>1. CASE UNCHANGED vars
  BY <1>1, NothingMoves DEF vars
<1>2. CASE Others
  BY <1>2, EditedKeeps DEF Others, TurnChanges, OthersEdit
<1>3. CASE Client
  <2>1. CASE \/ \E i \in DOMAIN history : Preview("rewind", history[i].seq)
             \/ Preview("undo", 0) \/ KeepChanges
    BY <2>1, NothingMoves DEF Preview, KeepChanges
  <2> QED  BY <1>3, <2>1, ConfirmKeeps DEF Client
<1>4. CASE VerifyFile \/ WriteFails \/ CommitFails \/ Restored
  BY <1>4, StepMoves DEF VerifyFile, WriteFails, CommitFails, Restored, InCall
<1>5. CASE WriteFile
  <2>1. rw.done + 1 \in DOMAIN rw.plans /\ rw.done + 1 \in 0..Len(rw.plans) /\ rw.done \in Nat
        /\ (rw.done + 1 # Len(rw.plans) => rw.done + 1 < Len(rw.plans)) /\ rw.plans # <<>>
    BY <1>5 DEF WriteFile, RewindInv, RewindTypes, CallInv, IsPlans, IsSeq
  <2> DEFINE k == rw.done + 1
             to == IF k = Len(rw.plans) THEN "commit" ELSE "verify"
  <2>2. /\ rw' = [rw EXCEPT !.step = to, !.done = k] /\ InCall
        /\ disk' = [disk EXCEPT ![rw.plans[k].file] = rw.plans[k].after]
        /\ UNCHANGED <<expect, journals, proc, todo, disturbed>>
    BY <1>5 DEF WriteFile, NextPlan, RewindInv, RewindTypes, InCall
  <2>3. /\ to \in {"verify", "commit"} /\ (to = "verify" => k < Len(rw.plans))
        /\ (to = "commit" => k = Len(rw.plans))
    BY <2>1
  <2>4. k \in DOMAIN rw.plans /\ k \in 0..Len(rw.plans) /\ rw.done = k - 1 /\ rw.plans # <<>>
    BY <2>1
  <2> HIDE DEF to, k
  <2>5. to \in {"verify", "commit", "restore"}
    BY <2>3
  <2>6. rw.plans[k].after \in {rw.plans[k].before, rw.plans[k].after}
    OBVIOUS
  <2> QED  BY <2>2, <2>3, <2>4, <2>5, <2>6, PlanStep
<1>6. CASE RestoreFile
  <2>1. rw.done \in DOMAIN rw.plans /\ rw.done - 1 \in 0..Len(rw.plans) /\ rw.plans # <<>>
    BY <1>6 DEF RestoreFile, RewindInv, RewindTypes, IsPlans, IsSeq
  <2>2. rw' = [rw EXCEPT !.step = "restore", !.done = rw.done - 1]
    BY <1>6 DEF RestoreFile, RewindInv, RewindTypes
  <2> QED  BY <1>6, <2>1, <2>2, PlanStep DEF RestoreFile, InCall
<1>7. CASE Crash \/ Recovery
  BY <1>7, CrashKeeps, StartKeeps, RecoverFileKeeps, RecoverJournalKeeps, RefuseKeeps, RecoveredKeeps
  DEF Recovery
<1> QED
  BY <1>1, <1>2, <1>3, <1>4, <1>5, <1>6, <1>7, CommitKeeps, FinishKeeps DEF Next, Call

LEMMA RewindInvHolds == Spec => []RewindInv
  BY RewindInit, RewindStep, PTL DEF Spec

-----------------------------------------------------------------------------
(***************************************************************************)
(* When no rewind is under way and the kernel has recovered, every file    *)
(* that others left alone holds what the rewinds of the history made of    *)
(* it, however often a write, the transaction or the process failed, for   *)
(* any number of files (file_rewind.go, file_rewind_journal.go).           *)
(***************************************************************************)
THEOREM AlwaysFollow == Spec => []FilesFollowHistory
<1>1. RewindInv => FilesFollowHistory
  BY DEF RewindInv, FilesFollowHistory, FileInv, InCall
<1> QED  BY RewindInvHolds, <1>1, PTL

(***************************************************************************)
(* Recovery finds each file that others left alone as before or as after   *)
(* its plan: it never refuses to start for what a crash left, be it of a   *)
(* rewind or of a recovery, for any number of files and journals           *)
(* (RecoverFileRewinds).                                                   *)
(***************************************************************************)
THEOREM NeverRefuses == Spec => []RefusesOnlyForOthers
<1>1. RewindInv => RefusesOnlyForOthers
  <2> SUFFICES ASSUME RewindInv, NEW plan \in todo, Conflicts(plan), plan.file \notin disturbed
               PROVE  FALSE
    BY DEF RefusesOnlyForOthers
  <2>1. proc = "recovering" /\ plan \in FilesOf(journals)
    BY DEF RewindInv, CallInv
  <2>2. PICK i \in DOMAIN Cut : Cut[i] = plan /\ plan.file \in Files
    BY <2>1, OldestJournal
  <2>3. FileInv(plan.file)  BY <2>2 DEF RewindInv
  <2> QED  BY <2>2, <2>3 DEF FileInv, Conflicts
<1> QED  BY RewindInvHolds, <1>1, PTL

-----------------------------------------------------------------------------
(***************************************************************************)
(* Undoing changes, newest first: what holds of the file and is kept by    *)
(* each change undone holds of the result.  The fold is defined by         *)
(* recursion over sets of positions; both that it is defined and what it   *)
(* keeps follow from there being no least counterexample.                  *)
(***************************************************************************)

LEMMA Smallest ==
  ASSUME NEW S \in SUBSET Nat, S # {}
  PROVE  \E x \in S : \A y \in S : x <= y
<1>1. PICK x \in S : \A y \in S : ~(<<y, x>> \in OpToRel(<, Nat))
  BY NatLessThanWellFounded, WFMin, Zenon
<1>2. \A y \in S : ~(y < x)
  BY <1>1 DEF OpToRel
<1> QED  BY <1>2

LEMMA MinFacts ==
  ASSUME NEW S \in SUBSET Nat, S # {}
  PROVE  Min(S) \in S /\ \A y \in S : Min(S) <= y
<1>1. \E x \in S : \A y \in S : x <= y
  BY Smallest
<1> QED  BY <1>1 DEF Min

LEMMA MaxFacts ==
  ASSUME NEW n \in Nat, NEW S \in SUBSET (1..n), S # {}
  PROVE  Max(S) \in S /\ \A y \in S : Max(S) >= y
<1> DEFINE T == {n - x : x \in S}
<1>1. T \in SUBSET Nat /\ T # {}
  <2>1. \A x \in S : n - x \in Nat
    OBVIOUS
  <2> QED  BY <2>1
<1>2. PICK t \in T : \A u \in T : t <= u
  BY <1>1, Smallest
<1>3. PICK x \in S : t = n - x  BY <1>2
<1>4. \A y \in S : x >= y
  <2>1. SUFFICES ASSUME NEW y \in S PROVE x >= y
    OBVIOUS
  <2>2. n - y \in T  OBVIOUS
  <2>3. n - x <= n - y  BY <1>2, <1>3, <2>2
  <2>4. x \in Nat /\ y \in Nat  OBVIOUS
  <2> QED  BY <2>3, <2>4
<1> QED  BY <1>4 DEF Max

\* The sets of positions that lie within the last n of 1..N.
Within(D, N, n) == {T \in SUBSET D : \A i \in T : i + n > N}

LEMMA WithinFacts ==
  ASSUME NEW N \in Nat, NEW D \in SUBSET (1..N)
  PROVE  /\ Within(D, N, 0) = {{}}
         /\ Within(D, N, N) = SUBSET D
         /\ \A n \in Nat \ {0} : \A T \in Within(D, N, n) :
               T # {} => Min(T) \in T /\ T \ {Min(T)} \in Within(D, N, n - 1)
<1>1. Within(D, N, 0) = {{}}
  <2>1. \A i \in D : ~(i + 0 > N)
    OBVIOUS
  <2> QED  BY <2>1 DEF Within
<1>2. Within(D, N, N) = SUBSET D
  BY DEF Within
<1>3. ASSUME NEW n \in Nat \ {0}, NEW T \in Within(D, N, n), T # {}
      PROVE  Min(T) \in T /\ T \ {Min(T)} \in Within(D, N, n - 1)
  <2>1. T \in SUBSET Nat /\ T \subseteq D /\ \A i \in T : i + n > N
    BY DEF Within
  <2>2. Min(T) \in T /\ \A i \in T : Min(T) <= i
    BY <1>3, <2>1, MinFacts
  <2>3. ASSUME NEW i \in T \ {Min(T)} PROVE i + (n - 1) > N
    <3>1. i \in Nat /\ Min(T) \in Nat /\ Min(T) <= i /\ i # Min(T) /\ Min(T) + n > N
      BY <2>1, <2>2
    <3> QED  BY <3>1
  <2> QED  BY <2>1, <2>2, <2>3 DEF Within
<1> QED  BY <1>1, <1>2, <1>3

\* One step of the recursion, and the function it defines.
UndoStep(b, T, g) == IF T = {} THEN b ELSE Undone(history[Min(T)], g[T \ {Min(T)}])
Undoes(b, D, g) == g = [T \in SUBSET D |-> UndoStep(b, T, g)]

LEMMA UndoDefined ==
  ASSUME NEW N \in Nat, NEW D \in SUBSET (1..N), NEW b
  PROVE  \E g : Undoes(b, D, g)
<1> DEFINE W(n) == Within(D, N, n)
           Has(n) == \E g : \A T \in W(n) : g[T] = UndoStep(b, T, g)
           Bad == {n \in 0..N : ~Has(n)}
<1>1. Bad = {}
  <2>1. SUFFICES ASSUME Bad # {} PROVE FALSE
    OBVIOUS
  <2>2. PICK m \in Bad : \A n \in Bad : m <= n
    <3>1. Bad \in SUBSET Nat  OBVIOUS
    <3> HIDE DEF Bad
    <3> QED  BY <2>1, <3>1, Smallest
  <2>3. m \in 0..N /\ ~Has(m)
    BY <2>2
  <2>4. Has(0)
    <3> DEFINE g == [T \in SUBSET D |-> b]
    <3>1. g[{}] = UndoStep(b, {}, g)
      BY DEF UndoStep
    <3> HIDE DEF g
    <3>2. W(0) = {{}}  BY WithinFacts
    <3> QED  BY <3>1, <3>2
  <2>5. m # 0  BY <2>3, <2>4
  <2>6. m - 1 \in 0..N /\ m - 1 < m
    BY <2>3, <2>5
  <2>7. Has(m - 1)
    BY <2>2, <2>3, <2>6
  <2>8. PICK g : \A T \in W(m - 1) : g[T] = UndoStep(b, T, g)
    BY <2>7
  <2> DEFINE h == [T \in SUBSET D |-> IF T \in W(m - 1) THEN g[T] ELSE UndoStep(b, T, g)]
  <2>9. \A T \in W(m) : T # {} => Min(T) \in T /\ T \ {Min(T)} \in W(m - 1)
    <3>1. m \in Nat \ {0}  BY <2>3, <2>5
    <3> QED  BY <3>1, WithinFacts
  <2>10. W(m) \subseteq SUBSET D /\ W(m - 1) \subseteq SUBSET D
    BY DEF Within
  <2>11. \A T \in W(m) : h[T] = UndoStep(b, T, g)
    BY <2>8, <2>10
  <2>12. \A T \in W(m - 1) : h[T] = g[T]
    BY <2>10
  <2> HIDE DEF h, W
  <2>13. ASSUME NEW T \in W(m) PROVE h[T] = UndoStep(b, T, h)
    <3>1. T # {} => h[T \ {Min(T)}] = g[T \ {Min(T)}]
      BY <2>9, <2>12
    <3> QED  BY <2>11, <3>1 DEF UndoStep
  <2>14. Has(m)  BY <2>13
  <2> QED  BY <2>3, <2>14
<1>2. Has(N)  BY <1>1
<1>3. PICK g : \A T \in SUBSET D : g[T] = UndoStep(b, T, g)
  BY <1>2, WithinFacts
<1> DEFINE h == [T \in SUBSET D |-> g[T]]
<1>4. ASSUME NEW T \in SUBSET D PROVE g[T] = UndoStep(b, T, h)
  <2>1. h[T \ {Min(T)}] = g[T \ {Min(T)}]
    OBVIOUS
  <2> HIDE DEF h
  <2> QED  BY <1>3, <2>1 DEF UndoStep
<1>5. Undoes(b, D, h)
  BY <1>4 DEF Undoes
<1> QED  BY <1>5

\* What each set of positions yields, for the sets W that the recursion comes to.
LEMMA UndoYields ==
  ASSUME NEW N \in Nat, NEW D \in SUBSET (1..N), NEW b,
         NEW W \in SUBSET (SUBSET D), D \in W, NEW V, b \in V[{}],
         \A T \in W : T # {} =>
            /\ T \ {Min(T)} \in W
            /\ \A v \in V[T \ {Min(T)}] : Undone(history[Min(T)], v) \in V[T]
  PROVE  MapThenFoldSet(Undone, b, LAMBDA i : history[i], Min, D) \in V[D]
<1> DEFINE f == CHOOSE g : Undoes(b, D, g)
<1>1. MapThenFoldSet(Undone, b, LAMBDA i : history[i], Min, D) = f[D]
  BY DEF MapThenFoldSet, UndoStep, Undoes
<1>2. Undoes(b, D, f)
  BY UndoDefined, Zenon
<1> HIDE DEF f
<1>3. \A T \in SUBSET D : f[T] = UndoStep(b, T, f)
  BY <1>2 DEF Undoes
<1> DEFINE Parts(n) == Within(D, N, n) \cap W
           Bad == {n \in 0..N : \E T \in Parts(n) : f[T] \notin V[T]}
<1>4. Bad = {}
  <2>1. SUFFICES ASSUME Bad # {} PROVE FALSE
    OBVIOUS
  <2>2. PICK m \in Bad : \A n \in Bad : m <= n
    <3>1. Bad \in SUBSET Nat  OBVIOUS
    <3> HIDE DEF Bad
    <3> QED  BY <2>1, <3>1, Smallest
  <2>3. PICK T \in Parts(m) : f[T] \notin V[T]
    BY <2>2
  <2>4. T \in SUBSET D /\ T \in W /\ m \in 0..N
    BY <2>2
  <2>5. f[T] = UndoStep(b, T, f)  BY <1>3, <2>4
  <2>6. T # {}
    BY <2>3, <2>5 DEF UndoStep
  <2>7. m # 0
    BY <2>6, WithinFacts
  <2> DEFINE R == T \ {Min(T)}
  <2>8. R \in Parts(m - 1)
    <3>1. m \in Nat \ {0}  BY <2>4, <2>7
    <3>2. R \in Within(D, N, m - 1)  BY <2>3, <2>6, <3>1, WithinFacts
    <3>3. R \in W  BY <2>4, <2>6
    <3> QED  BY <3>2, <3>3
  <2>9. m - 1 \in 0..N /\ ~(m <= m - 1)
    BY <2>4, <2>7
  <2>10. m - 1 \notin Bad  BY <2>2, <2>9
  <2> HIDE DEF R
  <2>11. f[R] \in V[R]
    BY <2>8, <2>9, <2>10
  <2>12. f[T] = Undone(history[Min(T)], f[R])
    BY <2>5, <2>6 DEF UndoStep, R
  <2> QED  BY <2>3, <2>4, <2>6, <2>11, <2>12 DEF R
<1>5. D \in Parts(N)
  BY WithinFacts
<1> QED  BY <1>1, <1>4, <1>5

LEMMA UndoKeeps ==
  ASSUME NEW N \in Nat, NEW D \in SUBSET (1..N), NEW b, NEW V, b \in V,
         \A i \in D, v \in V : Undone(history[i], v) \in V
  PROVE  MapThenFoldSet(Undone, b, LAMBDA i : history[i], Min, D) \in V
<1> DEFINE W == SUBSET D
           Vs == [T \in W |-> V]
<1>1. \A T \in W : T # {} => Min(T) \in D /\ T \ {Min(T)} \in W
  <2>1. \A T \in W : T # {} => T \in SUBSET Nat
    OBVIOUS
  <2> QED  BY <2>1, MinFacts
<1>2. \A T \in W : Vs[T] = V
  OBVIOUS
<1>3. W \in SUBSET (SUBSET D) /\ D \in W /\ {} \in W
  OBVIOUS
<1> HIDE DEF W, Vs
<1>4. b \in Vs[{}]
  BY <1>2, <1>3
<1>5. ASSUME NEW T \in W, T # {}
      PROVE  /\ T \ {Min(T)} \in W
             /\ \A v \in Vs[T \ {Min(T)}] : Undone(history[Min(T)], v) \in Vs[T]
  <2>1. Min(T) \in D /\ T \ {Min(T)} \in W
    BY <1>1, <1>5
  <2>2. Vs[T] = V /\ Vs[T \ {Min(T)}] = V
    BY <1>2, <2>1
  <2> QED  BY <2>1, <2>2
<1>6. MapThenFoldSet(Undone, b, LAMBDA i : history[i], Min, D) \in Vs[D]
  BY <1>3, <1>4, <1>5, UndoYields
<1> QED  BY <1>2, <1>3, <1>6

-----------------------------------------------------------------------------
(***************************************************************************)
(* The contents that the history and the plans know, and what a merge      *)
(* keeps of the file it starts from.                                       *)
(***************************************************************************)

IsChange(x) ==
    /\ x = [seq |-> x.seq, file |-> x.file, before |-> x.before, after |-> x.after, review |-> x.review]
    /\ x.before \in Snapshots /\ x.after \in Snapshots

HasSnapshots(plans) == \A i \in DOMAIN plans : plans[i].before \in Snapshots /\ plans[i].after \in Snapshots

\* What is on disk, recorded or planned is a content or the absence of one.
ContentTypes ==
    /\ \A f \in Files : disk[f] \in Snapshots
    /\ IsSeq(history) /\ \A i \in DOMAIN history : IsChange(history[i])
    /\ HasSnapshots(rw.plans)
    /\ \A j \in DOMAIN journals : HasSnapshots(journals[j].plans)

Positions(items) == items \subseteq DOMAIN history

LEMMA HistoryFacts ==
  ASSUME ContentTypes
  PROVE  /\ Len(history) \in Nat /\ DOMAIN history = 1..Len(history)
         /\ \A i \in DOMAIN history : history[i].before \in Snapshots /\ history[i].after \in Snapshots
BY DEF ContentTypes, IsSeq, IsChange

LEMMA RestoreType ==
  ASSUME NEW after \in Snapshots, NEW current \in Snapshots, NEW before \in Snapshots
  PROVE  threeWayRestore(after, current, before) \in Snapshots \cup {None}
<1>1. CASE Absent \in {after, current, before} \/ EditsConflict(after, current, before)
  BY <1>1 DEF threeWayRestore
<1>2. CASE ~(Absent \in {after, current, before} \/ EditsConflict(after, current, before))
  <2>1. after \in [Lines -> Texts] /\ current \in [Lines -> Texts] /\ before \in [Lines -> Texts]
    BY <1>2 DEF Snapshots
  <2>2. [l \in Lines |-> IF before[l] # after[l] THEN before[l] ELSE current[l]] \in [Lines -> Texts]
    BY <2>1
  <2> QED  BY <1>2, <2>2 DEF threeWayRestore, Snapshots
<1> QED  BY <1>1, <1>2

LEMMA UndoneType ==
  ASSUME NEW change, change.before \in Snapshots, change.after \in Snapshots,
         NEW v \in Snapshots \cup {None}
  PROVE  Undone(change, v) \in Snapshots \cup {None}
BY RestoreType DEF Undone

LEMMA TargetType ==
  ASSUME ContentTypes, NEW items, Positions(items), NEW f \in Files
  PROVE  /\ SafeTarget(items, f) \in Snapshots \cup {None}
         /\ ChangesOf(items, f) # {} => ForceTarget(items, f) \in Snapshots
<1> DEFINE D == ChangesOf(items, f)  V == Snapshots \cup {None}
<1>1. D \in SUBSET (1..Len(history)) /\ Len(history) \in Nat
  BY HistoryFacts DEF ChangesOf, Positions
<1>2. \A i \in D, v \in V : Undone(history[i], v) \in V
  BY <1>1, HistoryFacts, UndoneType
<1>3. disk[f] \in V
  BY DEF ContentTypes
<1>4. SafeTarget(items, f) \in V
  <2> HIDE DEF V
  <2>1. MapThenFoldSet(Undone, disk[f], LAMBDA i : history[i], Min, D) \in V
    BY <1>1, <1>2, <1>3, UndoKeeps
  <2> QED  BY <2>1 DEF SafeTarget
<1>5. D # {} => ForceTarget(items, f) \in Snapshots
  <2>1. D \in SUBSET Nat  BY <1>1
  <2>2. D # {} => Min(D) \in D  BY <2>1, MinFacts
  <2> QED  BY <1>1, <2>2, HistoryFacts DEF ForceTarget, FirstChange
<1> QED  BY <1>4, <1>5

\* A line of the user: one that no recorded version has.
OwnLine(d, l) == \A v \in Versions \ {Absent} : v[l] # d[l]

\* A merge either fails or keeps the line: undoing a change would edit it only where
\* the change and the user edited the same line, and that is a conflict.
LEMMA UndoneKeepsLine ==
  ASSUME NEW d, NEW l \in Lines, NEW change, change.before \in Snapshots, change.after \in Snapshots,
         \A v \in {change.before, change.after} \ {Absent} : v[l] # d[l],
         NEW c \in {None} \cup {v \in [Lines -> Texts] : v[l] = d[l]}
  PROVE  Undone(change, c) \in {None} \cup {v \in [Lines -> Texts] : v[l] = d[l]}
<1> DEFINE V == {None} \cup {v \in [Lines -> Texts] : v[l] = d[l]}
           after == change.after  before == change.before
           merge == [k \in Lines |-> IF before[k] # after[k] THEN before[k] ELSE c[k]]
<1>1. CASE c = None
  BY <1>1 DEF Undone
<1>2. CASE c # None
  <2>1. c \in [Lines -> Texts] /\ c[l] = d[l] /\ c # Absent
    BY <1>2, AbsentAssumption
  <2>2. c # after
    BY <2>1
  <2>3. Undone(change, c) = threeWayRestore(after, c, before)
    BY <1>2, <2>2 DEF Undone
  <2>4. CASE Absent \in {after, c, before} \/ EditsConflict(after, c, before)
    BY <2>3, <2>4 DEF threeWayRestore
  <2>5. CASE ~(Absent \in {after, c, before} \/ EditsConflict(after, c, before))
    <3>1. /\ after \in [Lines -> Texts] /\ before \in [Lines -> Texts]
          /\ after[l] # c[l] /\ before[l] # c[l]
      BY <2>1, <2>5 DEF Snapshots
    <3>2. before[l] = after[l]
      <4>1. SUFFICES ASSUME before[l] # after[l] PROVE EditsConflict(after, c, before)
        BY <2>5
      <4>2. l \in Differs(after, c) /\ l \in Differs(after, before)
        BY <3>1, <4>1 DEF Differs
      <4>3. l \in EditAt(after, c, l)
        <5>1. \A j \in Lines : (l <= j /\ j <= l) \/ (l <= j /\ j <= l) => j = l
          BY LinesAssumption
        <5> QED  BY <4>2, <5>1 DEF EditAt
      <4> QED  BY <3>1, <4>2, <4>3 DEF EditsConflict
    <3>3. merge \in [Lines -> Texts] /\ merge[l] = c[l]
      BY <2>1, <3>1, <3>2
    <3>4. threeWayRestore(after, c, before) = merge
      BY <2>5 DEF threeWayRestore
    <3> QED  BY <2>1, <2>3, <3>3, <3>4
  <2> QED  BY <2>4, <2>5
<1> QED  BY <1>1, <1>2

LEMMA TargetKeepsLine ==
  ASSUME ContentTypes, NEW items, Positions(items), NEW f \in Files, disk[f] # Absent,
         SafeTarget(items, f) # None, NEW l \in Lines, OwnLine(disk[f], l)
  PROVE  SafeTarget(items, f) # Absent /\ SafeTarget(items, f)[l] = disk[f][l]
<1> DEFINE D == ChangesOf(items, f)
           V == {None} \cup {v \in [Lines -> Texts] : v[l] = disk[f][l]}
<1>1. D \in SUBSET (1..Len(history)) /\ Len(history) \in Nat /\ D \subseteq DOMAIN history
  BY HistoryFacts DEF ChangesOf, Positions
<1>2. \A i \in D, v \in V : Undone(history[i], v) \in V
  <2>1. SUFFICES ASSUME NEW i \in D, NEW v \in V PROVE Undone(history[i], v) \in V
    OBVIOUS
  <2>2. /\ history[i].before \in Snapshots /\ history[i].after \in Snapshots
        /\ history[i].before \in Versions /\ history[i].after \in Versions
    BY <1>1, HistoryFacts DEF Versions
  <2>3. \A w \in {history[i].before, history[i].after} \ {Absent} : w[l] # disk[f][l]
    BY <2>2 DEF OwnLine
  <2> QED  BY <2>2, <2>3, UndoneKeepsLine
<1>3. disk[f] \in V
  BY DEF ContentTypes, Snapshots
<1>4. SafeTarget(items, f) \in V
  <2> HIDE DEF V
  <2>1. MapThenFoldSet(Undone, disk[f], LAMBDA i : history[i], Min, D) \in V
    BY <1>1, <1>2, <1>3, UndoKeeps
  <2> QED  BY <2>1 DEF SafeTarget
<1> QED  BY <1>4, AbsentAssumption

-----------------------------------------------------------------------------
(***************************************************************************)
(* The contents, step by step.                                             *)
(***************************************************************************)

LEMMA ContentInit == Init => ContentTypes /\ UserLinesKept
<1> SUFFICES ASSUME Init PROVE ContentTypes /\ UserLinesKept
  OBVIOUS
<1>1. IsSeq(<<>>)  BY DEF IsSeq
<1>2. ContentTypes
  BY <1>1 DEF Init, NoCall, ContentTypes, HasSnapshots
<1>3. UserLinesKept
  BY DEF Init, NoCall, UserLinesKept
<1> QED  BY <1>2, <1>3

\* One file is written with a content that is known.
LEMMA DiskTypes ==
  ASSUME RewindInv, ContentTypes, NEW g, NEW d \in Snapshots,
         disk' = [disk EXCEPT ![g] = d] \/ disk' = disk
  PROVE  \A f \in Files : disk'[f] \in Snapshots
BY DEF ContentTypes, RewindInv, RewindTypes, OfFiles

\* The plans of a preview that is confirmed.
LEMMA PlansTypes ==
  ASSUME ContentTypes, NEW items, Positions(items), NEW force, NEW plans \in Plans(items, force)
  PROVE  /\ HasSnapshots(plans)
         /\ \A i \in DOMAIN plans : ~plans[i].forced /\ plans[i].before # Absent =>
               \A l \in Lines : OwnLine(plans[i].before, l) =>
                  plans[i].after # Absent /\ plans[i].after[l] = plans[i].before[l]
<1> DEFINE chosen == ChosenFiles(items, force)
           n == Cardinality(chosen)
<1>1. PICK order \in FileOrders(items, chosen) : plans = [i \in 1..n |-> PlanFor(items, order[i])]
  BY DEF Plans
<1>2. order \in [1..n -> chosen]
  BY DEF FileOrders, Bijection, Injection
<1> HIDE DEF n
<1>3. ASSUME NEW i \in DOMAIN plans
      PROVE  /\ plans[i].before \in Snapshots /\ plans[i].after \in Snapshots
             /\ ~plans[i].forced /\ plans[i].before # Absent =>
                  \A l \in Lines : OwnLine(plans[i].before, l) =>
                     plans[i].after # Absent /\ plans[i].after[l] = plans[i].before[l]
  <2> DEFINE f == order[i]
  <2>1. f \in Files /\ ChangesOf(items, f) # {}
    BY <1>1, <1>2 DEF ChosenFiles
  <2>2. plans[i] = PlanFor(items, f)
    BY <1>1
  <2> HIDE DEF f
  <2>3. /\ plans[i].before = disk[f]
        /\ SafeTarget(items, f) # None => plans[i].after = SafeTarget(items, f)
        /\ SafeTarget(items, f) = None => plans[i].forced /\ plans[i].after = ForceTarget(items, f)
    <3>1. /\ plans[i].before = disk[f]
          /\ plans[i].after = IF SafeTarget(items, f) # None THEN SafeTarget(items, f)
                                                            ELSE ForceTarget(items, f)
      BY <2>2 DEF PlanFor
    <3>2. ASSUME SafeTarget(items, f) = None PROVE plans[i].forced
      <4>1. (~(SafeTarget(items, f) # None)) = TRUE
        BY <3>2, Zenon
      <4>2. plans[i] = [file |-> f, before |-> disk[f], forced |-> TRUE,
                        after |-> IF SafeTarget(items, f) # None THEN SafeTarget(items, f)
                                                                 ELSE ForceTarget(items, f)]
        BY <2>2, <4>1, Zenon DEF PlanFor
      <4> QED  BY <4>2
    <3> QED  BY <3>1, <3>2
  <2>4. plans[i].before \in Snapshots /\ plans[i].after \in Snapshots
    BY <2>1, <2>3, TargetType DEF ContentTypes
  <2>5. ASSUME ~plans[i].forced, plans[i].before # Absent, NEW l \in Lines, OwnLine(plans[i].before, l)
        PROVE  plans[i].after # Absent /\ plans[i].after[l] = plans[i].before[l]
    BY <2>1, <2>3, <2>5, TargetKeepsLine
  <2> QED  BY <2>4, <2>5
<1> QED  BY <1>3 DEF HasSnapshots

\* Who leaves the call and the history alone leaves its lines alone.
LEMMA LinesStay ==
  ASSUME UserLinesKept, rw'.step \in {"verify", "write"} => /\ rw.step \in {"verify", "write"}
                                                            /\ rw'.plans = rw.plans /\ history' = history
  PROVE  UserLinesKept'
BY DEF UserLinesKept, Versions

LEMMA ConfirmContents ==
  ASSUME RewindInv, ContentTypes, NEW force, Confirm(force)
  PROVE  ContentTypes' /\ UserLinesKept'
<1> DEFINE items == Affected(preview.kind, preview.target)
<1>1. PICK plans \in Plans(items, force) :
         /\ rw' = [step |-> IF plans = <<>> THEN "commit" ELSE "verify", kind |-> preview.kind,
                   target |-> preview.target, plans |-> plans, done |-> 0]
         /\ plans = <<>> => journals' = journals
         /\ plans # <<>> => journals' = Append(journals, [plans |-> plans, state |-> "prepared"])
  BY DEF Confirm
<1>2. Positions(items)
  BY DEF Positions, Affected
<1>3. HasSnapshots(plans) /\ rw'.plans = plans /\ UNCHANGED <<disk, history>>
  BY <1>1, <1>2, PlansTypes DEF Confirm
<1> HIDE DEF items
<1>4. \A j \in DOMAIN journals' : HasSnapshots(journals'[j].plans)
  <2> DEFINE journal == [plans |-> plans, state |-> "prepared"]
  <2>1. IsSeq(journals) /\ \A j \in DOMAIN journals : HasSnapshots(journals[j].plans)
    BY DEF RewindInv, RewindTypes, ContentTypes
  <2>2. HasSnapshots(journal.plans)  BY <1>3
  <2>3. plans # <<>> => journals' = Append(journals, journal)  BY <1>1
  <2> HIDE DEF journal
  <2>4. /\ DOMAIN Append(journals, journal) = 1..(Len(journals) + 1)
        /\ Append(journals, journal)[Len(journals) + 1] = journal
        /\ \A j \in 1..Len(journals) : Append(journals, journal)[j] = journals[j]
    BY <2>1, AppendSeq
  <2>5. Len(journals) \in Nat /\ DOMAIN journals = 1..Len(journals)
    BY <2>1 DEF IsSeq
  <2>6. \A j \in 1..(Len(journals) + 1) : j \in 1..Len(journals) \/ j = Len(journals) + 1
    BY <2>5
  <2> QED  BY <1>1, <2>1, <2>2, <2>3, <2>4, <2>5, <2>6
<1>5. ContentTypes'
  BY <1>3, <1>4 DEF ContentTypes
<1>6. UserLinesKept'
  <2>1. ASSUME NEW i \in DOMAIN plans, ~plans[i].forced, plans[i].before # Absent, NEW l \in Lines
        PROVE  \/ \E v \in Versions \ {Absent} : v[l] = plans[i].before[l]
               \/ plans[i].after # Absent /\ plans[i].after[l] = plans[i].before[l]
    <3>1. CASE OwnLine(plans[i].before, l)
      BY <1>2, <2>1, <3>1, PlansTypes
    <3>2. CASE ~OwnLine(plans[i].before, l)
      BY <3>2 DEF OwnLine
    <3> QED  BY <3>1, <3>2
  <2>2. Versions' = Versions
    BY <1>3 DEF Versions
  <2> QED  BY <1>3, <2>1, <2>2 DEF UserLinesKept
<1> QED  BY <1>5, <1>6

\* A change is recorded.
LEMMA TurnContents ==
  ASSUME RewindInv, ContentTypes, UserLinesKept, NEW f \in Files, NEW c \in Snapshots, TurnChanges(f, c)
  PROVE  ContentTypes' /\ UserLinesKept'
<1> DEFINE x == [seq |-> seq + 1, file |-> f, before |-> disk[f], after |-> c, review |-> "pending"]
           n == Len(history)
<1>1. history' = Append(history, x) /\ UNCHANGED <<journals, rw>> /\ disk' = [disk EXCEPT ![f] = c]
  BY DEF TurnChanges, Edited
<1>2. IsChange(x)
  BY DEF IsChange, ContentTypes
<1> HIDE DEF x
<1>3. /\ IsSeq(history') /\ DOMAIN history' = 1..(n + 1) /\ history'[n + 1] = x
      /\ \A i \in 1..n : history'[i] = history[i]
  BY <1>1, AppendSeq DEF ContentTypes
<1>4. \A i \in 1..(n + 1) : IsChange(history'[i])
  BY <1>2, <1>3, HistoryFacts DEF ContentTypes
<1>5. ContentTypes'
  BY <1>1, <1>3, <1>4, DiskTypes DEF ContentTypes
<1>6. UserLinesKept'
  <2>1. rw'.step = "idle"  BY <1>1 DEF TurnChanges
  <2> QED  BY <2>1, LinesStay
<1> QED  BY <1>5, <1>6

\* The history of the session is reviewed.
LEMMA ReviewTypes ==
  ASSUME ContentTypes, NEW to,
         history' = [i \in DOMAIN history |->
                       [history[i] EXCEPT !.review = IF @ = "pending" THEN to ELSE @]]
  PROVE  IsSeq(history') /\ \A i \in DOMAIN history' : IsChange(history'[i])
<1>1. DOMAIN history' = 1..Len(history) /\ Len(history) \in Nat
  BY HistoryFacts
<1>2. ASSUME NEW i \in DOMAIN history PROVE IsChange(history'[i])
  <2>1. IsChange(history[i])  BY DEF ContentTypes
  <2>2. history'[i] = [history[i] EXCEPT !.review = IF @ = "pending" THEN to ELSE @]
    OBVIOUS
  <2> QED  BY <2>1, <2>2 DEF IsChange
<1>3. history' \in Seq(Range(history'))
  BY <1>1 DEF Range
<1> QED  BY <1>2, <1>3 DEF IsSeq

\* The history is cut at the target.
LEMMA SubSeqFacts ==
  ASSUME ContentTypes, NEW m \in 0..Len(history)
  PROVE  LET t == SubSeq(history, 1, m)
         IN  IsSeq(t) /\ DOMAIN t = 1..m /\ Len(t) = m /\ \A i \in 1..m : i \in DOMAIN history /\ t[i] = history[i]
<1> DEFINE n == Len(history)  t == SubSeq(history, 1, m)
<1>1. n \in Nat /\ DOMAIN history = 1..n /\ history \in Seq(Range(history)) /\ m \in Nat /\ m <= n
  BY HistoryFacts DEF ContentTypes, IsSeq
<1>2. \A i \in 1..m : i \in 1..n /\ history[i] \in Range(history)
  BY <1>1 DEF Range
<1> HIDE DEF n
<1>3. /\ t \in Seq(Range(history)) /\ Len(t) = IF 1 <= m THEN m - 1 + 1 ELSE 0
      /\ \A i \in 1..(m - 1 + 1) : t[i] = history[1 + i - 1]
  BY <1>1, <1>2, SubSeqProperties
<1>4. Len(t) = m
  BY <1>1, <1>3
<1>5. \A i \in 1..m : i \in 1..(m - 1 + 1) /\ 1 + i - 1 = i
  BY <1>1
<1>6. t \in Seq(Range(history)) /\ DOMAIN t = 1..m /\ Len(t) = m /\ \A i \in 1..m : t[i] = history[i]
  BY <1>3, <1>4, <1>5
<1>7. IsSeq(t)
  BY <1>6, SeqOfAny
<1> QED  BY <1>1, <1>2, <1>6, <1>7

\* It is cut after the last change before the target.
LEMMA CutPoint ==
  ASSUME ContentTypes, Commit, rw.kind = "rewind"
  PROVE  \E m \in 0..Len(history) :
            /\ history' = SubSeq(history, 1, m)
            /\ m # 0 => history[m].seq < rw.target
            /\ \A i \in DOMAIN history : history[i].seq < rw.target => i <= m
<1> DEFINE n == Len(history)
           D == {i \in 1..n : history[i].seq < rw.target}
           m == IF D # {} THEN Max(D) ELSE 0
<1>1. history' = SubSeq(history, 1, m)
  BY DEF Commit, SelectLastInSeq
<1>2. n \in Nat /\ DOMAIN history = 1..n
  BY HistoryFacts
<1>3. D \in SUBSET (1..n) /\ \A i \in 1..n : i \in D <=> history[i].seq < rw.target
  OBVIOUS
<1> HIDE DEF D, n
<1>4. D # {} => Max(D) \in D /\ \A i \in D : Max(D) >= i
  BY <1>2, <1>3, MaxFacts
<1>5. D # {} => Max(D) \in 0..n
  <2>1. D # {} => Max(D) \in 1..n  BY <1>3, <1>4
  <2> QED  BY <1>2, <2>1
<1>6. m \in 0..n
  BY <1>2, <1>5
<1>7. m # 0 => m \in D
  BY <1>4
<1>8. \A i \in D : i <= m
  <2>1. ASSUME NEW i \in D PROVE i <= m
    <3>1. m = Max(D) /\ Max(D) >= i /\ Max(D) \in 0..n /\ i \in 1..n
      BY <1>3, <1>4, <1>5
    <3> QED  BY <1>2, <3>1
  <2> QED  BY <2>1
<1> HIDE DEF m
<1>9. /\ m # 0 => history[m].seq < rw.target
      /\ \A i \in DOMAIN history : history[i].seq < rw.target => i <= m
  BY <1>2, <1>3, <1>7, <1>8
<1> QED  BY <1>1, <1>6, <1>9 DEF n

LEMMA CutHistoryTypes ==
  ASSUME ContentTypes, NEW m \in 0..Len(history), history' = SubSeq(history, 1, m)
  PROVE  IsSeq(history') /\ \A i \in DOMAIN history' : IsChange(history'[i])
BY SubSeqFacts DEF ContentTypes

LEMMA CommitContents ==
  ASSUME RewindInv, ContentTypes, UserLinesKept, Commit
  PROVE  ContentTypes' /\ UserLinesKept'
<1>1. IsSeq(history') /\ \A i \in DOMAIN history' : IsChange(history'[i])
  <2>1. CASE rw.kind = "rewind"
    BY <2>1, CutPoint, CutHistoryTypes
  <2>2. CASE rw.kind # "rewind"
    BY <2>2, ReviewTypes DEF Commit
  <2> QED  BY <2>1, <2>2
<1>2. disk' = disk /\ rw'.plans = rw.plans /\ rw'.step = "finish"
  BY DEF Commit, RewindInv, RewindTypes
<1>3. \A j \in DOMAIN journals' : j \in DOMAIN journals /\ journals'[j].plans = journals[j].plans
  BY DEF Commit, MarkCommitted, RewindInv, RewindTypes, IsJournal
<1>4. ContentTypes'
  BY <1>1, <1>2, <1>3 DEF ContentTypes
<1> QED  BY <1>2, <1>4, LinesStay

LEMMA KeepContents ==
  ASSUME RewindInv, ContentTypes, UserLinesKept, KeepChanges
  PROVE  ContentTypes' /\ UserLinesKept'
<1>1. IsSeq(history') /\ \A i \in DOMAIN history' : IsChange(history'[i])
  BY ReviewTypes DEF KeepChanges
<1>2. UNCHANGED <<disk, journals, rw>> /\ rw'.step = "idle"
  BY DEF KeepChanges
<1> QED  BY <1>1, <1>2, LinesStay DEF ContentTypes

\* Plans of journals are applied and undone; journals only go.
LEMMA PlanContents ==
  ASSUME RewindInv, ContentTypes, UserLinesKept, history' = history,
         NEW g, NEW d \in Snapshots, disk' = [disk EXCEPT ![g] = d] \/ disk' = disk,
         \/ rw' = NoCall
         \/ rw'.plans = rw.plans /\ (rw'.step \in {"verify", "write"} => rw.step \in {"verify", "write"}),
         \A j \in DOMAIN journals' : \E k \in DOMAIN journals : journals'[j].plans = journals[k].plans
  PROVE  ContentTypes' /\ UserLinesKept'
<1>1. HasSnapshots(rw'.plans)
  BY DEF ContentTypes, HasSnapshots, NoCall
<1>2. ContentTypes'
  BY <1>1, DiskTypes DEF ContentTypes
<1>3. UserLinesKept'
  BY LinesStay DEF NoCall
<1> QED  BY <1>2, <1>3

LEMMA CallContents ==
  ASSUME RewindInv, ContentTypes, UserLinesKept, Call
  PROVE  ContentTypes' /\ UserLinesKept'
<1>1. rw.done + 1 = Len(rw.plans) \/ rw.done < Len(rw.plans) => rw.done + 1 \in DOMAIN rw.plans
  BY DEF RewindInv, RewindTypes, IsPlans, IsSeq
<1>2. rw.done > 0 => rw.done \in DOMAIN rw.plans
  BY DEF RewindInv, RewindTypes, IsPlans, IsSeq
<1>3. \A i \in DOMAIN rw.plans : rw.plans[i].before \in Snapshots /\ rw.plans[i].after \in Snapshots
  BY DEF ContentTypes, HasSnapshots
<1>4. Absent \in Snapshots  BY DEF Snapshots
<1>5. CASE VerifyFile \/ WriteFails \/ CommitFails \/ Restored
  <2>1. /\ disk' = disk /\ history' = history /\ journals' = journals /\ rw'.plans = rw.plans
        /\ rw'.step \in {"verify", "write"} => rw.step \in {"verify", "write"}
    BY <1>5 DEF VerifyFile, WriteFails, CommitFails, Restored, RewindInv, RewindTypes
  <2> QED  BY <1>4, <2>1, PlanContents
<1>6. CASE WriteFile
  <2>1. NextPlan.after \in Snapshots
    BY <1>1, <1>3, <1>6 DEF WriteFile, NextPlan, RewindInv, CallInv
  <2>2. /\ disk' = [disk EXCEPT ![NextPlan.file] = NextPlan.after]
        /\ history' = history /\ journals' = journals /\ rw'.plans = rw.plans
        /\ rw.step \in {"verify", "write"}
    BY <1>6 DEF WriteFile, RewindInv, RewindTypes
  <2> QED  BY <2>1, <2>2, PlanContents
<1>7. CASE RestoreFile
  <2> DEFINE plan == rw.plans[rw.done]
  <2>1. plan.before \in Snapshots
    BY <1>2, <1>3, <1>7 DEF RestoreFile
  <2>2. /\ disk' = [disk EXCEPT ![plan.file] = plan.before] \/ disk' = disk
        /\ history' = history /\ journals' = journals /\ rw'.plans = rw.plans
        /\ rw'.step = "restore"
    BY <1>7 DEF RestoreFile, RewindInv, RewindTypes
  <2> HIDE DEF plan
  <2> QED  BY <2>1, <2>2, PlanContents
<1>8. CASE Finish
  <2>1. disk' = disk /\ history' = history /\ rw' = NoCall
    BY <1>8 DEF Finish
  <2>2. \A j \in DOMAIN journals' : \E k \in DOMAIN journals : journals'[j].plans = journals[k].plans
    <3>1. CASE journals' = journals  BY <3>1
    <3>2. CASE rw.plans # <<>> /\ journals' = Front(journals)
      <4>1. IsSeq(journals) /\ journals # <<>>
        BY <3>2 DEF RewindInv, RewindTypes, CallInv
      <4>2. /\ DOMAIN journals' = 1..(Len(journals) - 1) /\ Len(journals) \in Nat
            /\ DOMAIN journals = 1..Len(journals)
            /\ \A i \in 1..(Len(journals) - 1) : journals'[i] = journals[i]
        BY <3>2, <4>1, FrontSeq DEF IsSeq
      <4>3. \A i \in 1..(Len(journals) - 1) : i \in 1..Len(journals)
        BY <4>2
      <4> QED  BY <4>2, <4>3
    <3> QED  BY <1>8, <3>1, <3>2 DEF Finish
  <2> QED  BY <1>4, <2>1, <2>2, PlanContents
<1> QED  BY <1>5, <1>6, <1>7, <1>8, CommitContents DEF Call

LEMMA RecoveryContents ==
  ASSUME RewindInv, ContentTypes, UserLinesKept, Crash \/ Recovery
  PROVE  ContentTypes' /\ UserLinesKept'
<1>1. Absent \in Snapshots  BY DEF Snapshots
<1>2. CASE Crash \/ Start \/ RefuseStart \/ Recovered
  <2>1. /\ disk' = disk /\ history' = history /\ journals' = journals
        /\ rw' = NoCall \/ rw' = rw
    BY <1>2 DEF Crash, Start, RefuseStart, Recovered
  <2> QED  BY <1>1, <2>1, PlanContents
<1>3. ASSUME NEW plan \in todo, RecoverFile(plan) PROVE ContentTypes' /\ UserLinesKept'
  <2>1. plan.before \in Snapshots
    <3>1. plan \in FilesOf(journals)
      BY DEF RewindInv, CallInv
    <3>2. PICK i \in DOMAIN journals[1].plans : plan = journals[1].plans[i] /\ journals # <<>>
      BY <3>1 DEF FilesOf
    <3>3. 1 \in DOMAIN journals
      BY <3>2 DEF RewindInv, RewindTypes, IsSeq
    <3> QED  BY <3>2, <3>3 DEF ContentTypes, HasSnapshots
  <2>2. /\ disk' = [disk EXCEPT ![plan.file] = plan.before]
        /\ history' = history /\ journals' = journals /\ rw' = rw
    BY <1>3 DEF RecoverFile
  <2> QED  BY <2>1, <2>2, PlanContents
<1>4. CASE RecoverJournal
  <2>1. disk' = disk /\ history' = history /\ rw' = rw /\ journals' = Tail(journals)
        /\ IsSeq(journals) /\ journals # <<>>
    BY <1>4 DEF RecoverJournal, RewindInv, RewindTypes
  <2>2. /\ DOMAIN journals' = 1..(Len(journals) - 1) /\ Len(journals) \in Nat
        /\ DOMAIN journals = 1..Len(journals)
        /\ \A i \in 1..(Len(journals) - 1) : journals'[i] = journals[i + 1]
    BY <2>1, TailSeq DEF IsSeq
  <2>3. \A i \in 1..(Len(journals) - 1) : i + 1 \in 1..Len(journals)
    BY <2>2
  <2>4. \A j \in DOMAIN journals' : \E k \in DOMAIN journals : journals'[j].plans = journals[k].plans
    BY <2>2, <2>3
  <2> QED  BY <1>1, <2>1, <2>4, PlanContents
<1> QED  BY <1>2, <1>3, <1>4 DEF Recovery

LEMMA ContentStep ==
  ASSUME RewindInv, ContentTypes, UserLinesKept, [Next]_vars
  PROVE  ContentTypes' /\ UserLinesKept'
<1>1. CASE UNCHANGED <<disk, history, journals, rw>>
  BY <1>1, LinesStay DEF ContentTypes
<1>2. CASE Others
  <2>1. ASSUME NEW f \in Files, NEW c \in Snapshots, OthersEdit(f, c)
        PROVE  ContentTypes' /\ UserLinesKept'
    <3>1. /\ disk' = [disk EXCEPT ![f] = c] /\ history' = history /\ journals' = journals /\ rw' = rw
      BY <2>1 DEF OthersEdit, Edited
    <3> QED  BY <3>1, PlanContents
  <2> QED  BY <1>2, <2>1, TurnContents DEF Others
<1>3. CASE Client
  BY <1>1, <1>3, KeepContents, ConfirmContents DEF Client, Preview
<1> QED
  BY <1>1, <1>2, <1>3, CallContents, RecoveryContents DEF Next, vars

LEMMA ContentsHold == Spec => [](ContentTypes /\ UserLinesKept)
<1>1. Init => RewindInv /\ ContentTypes /\ UserLinesKept
  BY RewindInit, ContentInit
<1>2. RewindInv /\ ContentTypes /\ UserLinesKept /\ [Next]_vars
        => RewindInv' /\ ContentTypes' /\ UserLinesKept'
  BY RewindStep, ContentStep
<1> QED  BY <1>1, <1>2, PTL DEF Spec

(***************************************************************************)
(* A rewind that is not forced keeps every line that no recorded version   *)
(* of the file has, however many changes are undone, each by a merge of    *)
(* its own, and however long the contents are (threeWayRestore,            *)
(* file_rewind.go).                                                        *)
(***************************************************************************)
THEOREM KeepsUserLines == Spec => []UserLinesKept
  BY ContentsHold, PTL

-----------------------------------------------------------------------------
(***************************************************************************)
(* A rewind takes the files back.  Where only turns and rewinds write the  *)
(* files, a rewind that fails can write back what it wrote, and none goes  *)
(* back past changes that the user has undone already, every file holds    *)
(* what was recorded last, and goes back to what was recorded before the   *)
(* first change that is undone.                                            *)
(***************************************************************************)

Stands(i) == history[i].review # "undone"
NoneBetween(i, n) == \A k \in DOMAIN history : i < k /\ k < n => history[k].file # history[i].file
End == Len(history) + 1

\* Nobody but turns and rewinds has written the files, and no file is out of step.
Undisturbed ==
    /\ edits = 0 /\ disturbed = {}
    /\ rw.step # "idle" /\ rw.kind = "rewind" => \A i \in Affected(rw.kind, rw.target) : Stands(i)

\* The plans of a call take each file that it is about to what was recorded before the
\* first change that the call undoes.
TakesBack ==
    rw.step \in {"verify", "write", "commit"} =>
        LET items == Affected(rw.kind, rw.target)
        IN  /\ \A f \in Files : ChangesOf(items, f) # {} => f \in Planned(rw.plans)
            /\ \A i \in DOMAIN rw.plans :
                 LET plan == rw.plans[i]
                 IN  /\ ChangesOf(items, plan.file) # {} /\ ~plan.forced
                     /\ plan.after = history[FirstChange(items, plan.file)].before

\* What the last change of a file recorded is in the file, unless it was undone.
FilesAsRecorded ==
    proc = "up" /\ rw.step = "idle" =>
        \A i \in DOMAIN history :
            Stands(i) /\ NoneBetween(i, End) => disk[history[i].file] = history[i].after

\* The history is in the order of its numbers, and what is not reviewed is at its end.
InOrder ==
    /\ seq \in Nat /\ rw.target \in Nat /\ (preview # None => preview.target \in Nat)
    /\ \A i \in DOMAIN history : history[i].file \in Files /\ history[i].seq \in 0..seq
    /\ \A i, j \in DOMAIN history : i < j =>
          history[i].seq < history[j].seq /\ (history[i].review = "pending" => history[j].review = "pending")

\* Each change began with what the one before it left, unless that was undone.
Chained ==
    \A i \in DOMAIN history : Stands(i) =>
        /\ NoneBetween(i, End) => expect[history[i].file] = history[i].after
        /\ \A j \in DOMAIN history :
              i < j /\ history[j].file = history[i].file /\ NoneBetween(i, j)
                 => history[j].before = history[i].after

Recorded == InOrder /\ Chained /\ TakesBack

\* What a call undoes is the end of the history.
Suffix(items) ==
    /\ Positions(items)
    /\ \A i \in items, j \in DOMAIN history : i < j => j \in items

LEMMA AffectedSuffix ==
  ASSUME ContentTypes, InOrder, NEW kind, NEW target \in Nat
  PROVE  Suffix(Affected(kind, target))
<1>1. DOMAIN history = 1..Len(history) /\ Len(history) \in Nat
  BY HistoryFacts
<1>2. ASSUME NEW i \in Affected(kind, target), NEW j \in DOMAIN history, i < j
      PROVE  j \in Affected(kind, target)
  <2>1. /\ i \in DOMAIN history /\ history[i].seq \in Nat /\ history[j].seq \in Nat
        /\ history[i].seq < history[j].seq
        /\ history[i].review = "pending" => history[j].review = "pending"
    BY <1>2 DEF InOrder, Affected
  <2> QED  BY <1>2, <2>1 DEF Affected
<1> QED  BY <1>2 DEF Suffix, Positions, Affected

\* Changes that stand, and began each with what the one before it left, are undone one
\* after the other: no merge, and the result is what there was before the first.
LEMMA UndoneExactly ==
  ASSUME ContentTypes, Chained, NEW items, Suffix(items), \A i \in items : Stands(i),
         NEW f \in Files, ChangesOf(items, f) # {}, disk[f] = expect[f]
  PROVE  /\ FirstChange(items, f) \in ChangesOf(items, f)
         /\ SafeTarget(items, f) = history[FirstChange(items, f)].before
<1> DEFINE D == ChangesOf(items, f)
           W == {T \in SUBSET D : \A i \in T, j \in D : i < j => j \in T}
           V == [T \in SUBSET D |-> IF T = {} THEN {disk[f]} ELSE {history[Min(T)].before}]
           n == Len(history)
<1>1. /\ n \in Nat /\ DOMAIN history = 1..n /\ D \in SUBSET (1..n) /\ D # {} /\ D \subseteq items
      /\ \A i \in D : history[i].file = f /\ Stands(i)
  BY HistoryFacts DEF ChangesOf, Suffix, Positions
<1>2. \A i \in D : \A k \in 1..n : i < k /\ history[k].file = f => k \in D
  BY <1>1 DEF ChangesOf, Suffix
<1>3. Min(D) \in D
  <2>1. D \in SUBSET Nat  BY <1>1
  <2> HIDE DEF D
  <2> QED  BY <1>1, <2>1, MinFacts
<1>4. /\ W \in SUBSET (SUBSET D) /\ D \in W
      /\ \A T \in W : T \subseteq D /\ \A i \in T, j \in D : i < j => j \in T
  OBVIOUS
<1>5. /\ disk[f] \in V[{}]
      /\ \A T \in SUBSET D : T = {} => V[T] = {disk[f]}
      /\ \A T \in SUBSET D : T # {} => V[T] = {history[Min(T)].before}
  OBVIOUS
<1> HIDE DEF D, V
<1>6. ASSUME NEW T \in W, T # {}
      PROVE  /\ T \ {Min(T)} \in W
             /\ \A v \in V[T \ {Min(T)}] : Undone(history[Min(T)], v) \in V[T]
  <2> DEFINE i == Min(T)  R == T \ {i}
  <2>1. T \subseteq D /\ T \in SUBSET Nat
    BY <1>1, <1>4
  <2>2. i \in T /\ \A k \in T : i <= k
    BY <1>6, <2>1, MinFacts
  <2> HIDE DEF i
  <2>3. i \in D /\ i \in 1..n /\ history[i].file = f /\ Stands(i)
    BY <1>1, <2>1, <2>2
  <2>4. \A k \in R : k \in Nat /\ i < k
    BY <2>1, <2>2
  <2>5. \A j \in D : i < j <=> j \in R
    <3>1. \A j \in D : i < j => j \in T /\ j # i  BY <1>1, <1>4, <2>2, <2>3
    <3> QED  BY <2>4, <3>1
  <2>6. R \in W
    <3>1. ASSUME NEW k \in R, NEW j \in D, k < j PROVE j \in R
      <4>1. k \in Nat /\ i < k /\ j \in Nat /\ i \in Nat  BY <1>1, <2>3, <2>4
      <4> QED  BY <2>5, <3>1, <4>1
    <3>2. R \subseteq D  BY <2>1
    <3> QED  BY <3>1, <3>2
  <2>7. ASSUME NEW v \in V[R] PROVE Undone(history[i], v) = history[i].before
    <3>1. v = history[i].after
      <4>1. CASE R = {}
        <5>1. NoneBetween(i, End)
          BY <1>1, <1>2, <2>3, <2>5, <4>1 DEF NoneBetween
        <5>2. expect[f] = history[i].after
          BY <1>1, <2>3, <5>1 DEF Chained
        <5>3. v = disk[f]
          BY <1>5, <2>7, <4>1
        <5> QED  BY <5>2, <5>3
      <4>2. CASE R # {}
        <5> DEFINE j == Min(R)
        <5>1. R \in SUBSET D /\ R \in SUBSET Nat  BY <2>1
        <5>2. j \in R /\ \A k \in R : j <= k
          <6> HIDE DEF R
          <6> QED  BY <4>2, <5>1, MinFacts
        <5>3. v = history[j].before
          BY <1>5, <2>7, <4>2, <5>1
        <5> HIDE DEF j
        <5>4. j \in D /\ i < j /\ history[j].file = f /\ j \in 1..n
          BY <1>1, <2>5, <5>1, <5>2
        <5>5. NoneBetween(i, j)
          <6>1. SUFFICES ASSUME NEW k \in 1..n, i < k, k < j, history[k].file = f PROVE FALSE
            BY <1>1, <2>3 DEF NoneBetween
          <6>2. k \in R  BY <1>2, <2>3, <2>5, <6>1
          <6> QED  BY <5>2, <5>4, <6>1, <6>2
        <5>6. history[j].before = history[i].after
          BY <1>1, <2>3, <5>4, <5>5 DEF Chained
        <5> QED  BY <5>3, <5>6
      <4> QED  BY <4>1, <4>2
    <3>2. v # None
      <4>1. v \in Snapshots  BY <1>1, <2>3, <3>1, HistoryFacts
      <4> QED  BY <4>1, NoContentAssumption DEF Snapshots
    <3> QED  BY <3>1, <3>2 DEF Undone
  <2>8. V[T] = {history[i].before}
    BY <1>5, <1>6, <2>1 DEF i
  <2> QED  BY <2>6, <2>7, <2>8 DEF i
<1> HIDE DEF W
<1>7. MapThenFoldSet(Undone, disk[f], LAMBDA i : history[i], Min, D) \in V[D]
  <2>1. n \in Nat /\ D \in SUBSET (1..n) /\ W \in SUBSET (SUBSET D) /\ D \in W
    BY <1>1, <1>4
  <2> HIDE DEF n
  <2> QED  BY <1>5, <1>6, <2>1, UndoYields
<1>8. SafeTarget(items, f) = history[Min(D)].before
  <2>1. SafeTarget(items, f) \in V[D]  BY <1>7 DEF SafeTarget, D
  <2>2. V[D] = {history[Min(D)].before}  BY <1>1, <1>5
  <2> QED  BY <2>1, <2>2
<1> QED  BY <1>3, <1>8 DEF FirstChange, D

\* What is confirmed is planned for every file of the items, and takes it back.
LEMMA PlansTakeBack ==
  ASSUME ContentTypes, InOrder, Chained, NEW items, Suffix(items), \A i \in items : Stands(i),
         \A f \in Files : disk[f] = expect[f],
         NEW force, NEW plans \in Plans(items, force)
  PROVE  /\ \A f \in Files : ChangesOf(items, f) # {} => f \in Planned(plans)
         /\ \A i \in DOMAIN plans :
               /\ ChangesOf(items, plans[i].file) # {} /\ ~plans[i].forced
               /\ plans[i].after = history[FirstChange(items, plans[i].file)].before
<1> DEFINE chosen == ChosenFiles(items, force)
           n == Cardinality(chosen)
<1>1. PICK order \in FileOrders(items, chosen) : plans = [i \in 1..n |-> PlanFor(items, order[i])]
  BY DEF Plans
<1>2. order \in [1..n -> chosen] /\ \A f \in chosen : \E i \in 1..n : order[i] = f
  BY DEF FileOrders, Bijection, Injection, Surjection
<1>3. ASSUME NEW f \in Files, ChangesOf(items, f) # {}
      PROVE  /\ SafeTarget(items, f) = history[FirstChange(items, f)].before
             /\ SafeTarget(items, f) # None
  <2>1. /\ FirstChange(items, f) \in ChangesOf(items, f)
        /\ SafeTarget(items, f) = history[FirstChange(items, f)].before
    BY <1>3, UndoneExactly
  <2>2. FirstChange(items, f) \in DOMAIN history
    BY <2>1 DEF ChangesOf, Suffix, Positions
  <2>3. SafeTarget(items, f) \in Snapshots
    BY <2>1, <2>2, HistoryFacts
  <2> QED  BY <2>1, <2>3, NoContentAssumption DEF Snapshots
<1>4. \A f \in Files : ChangesOf(items, f) # {} <=> f \in chosen
  BY <1>3 DEF ChosenFiles
<1> HIDE DEF n
<1>5. ASSUME NEW i \in DOMAIN plans
      PROVE  /\ plans[i].file = order[i] /\ order[i] \in chosen
             /\ ChangesOf(items, plans[i].file) # {} /\ ~plans[i].forced
             /\ plans[i].after = history[FirstChange(items, plans[i].file)].before
  <2> DEFINE f == order[i]
  <2>1. i \in 1..n /\ f \in chosen /\ f \in Files /\ ChangesOf(items, f) # {}
    BY <1>1, <1>2 DEF ChosenFiles
  <2>2. plans[i] = PlanFor(items, f)
    BY <1>1
  <2> HIDE DEF f
  <2>3. (~(SafeTarget(items, f) # None)) = FALSE
    BY <1>3, <2>1, Zenon
  <2>4. plans[i] = [file |-> f, before |-> disk[f], forced |-> FALSE,
                    after |-> IF SafeTarget(items, f) # None THEN SafeTarget(items, f)
                                                             ELSE ForceTarget(items, f)]
    BY <2>2, <2>3, Zenon DEF PlanFor
  <2>5. plans[i].file = f /\ ~plans[i].forced /\ plans[i].after = SafeTarget(items, f)
    BY <1>3, <2>1, <2>4
  <2> QED  BY <1>3, <2>1, <2>5 DEF f
<1>6. DOMAIN plans = 1..n
  BY <1>1
<1> HIDE DEF chosen
<1>7. ASSUME NEW f \in Files, ChangesOf(items, f) # {} PROVE f \in Planned(plans)
  <2>1. PICK i \in 1..n : order[i] = f
    BY <1>2, <1>4, <1>7
  <2> QED  BY <1>5, <1>6, <2>1 DEF Planned
<1> QED  BY <1>5, <1>7

LEMMA RecordedInit == Init => Recorded
<1> SUFFICES ASSUME Init PROVE Recorded
  OBVIOUS
<1>1. InOrder
  BY DEF Init, NoCall, InOrder
<1>2. Chained /\ TakesBack
  BY DEF Init, NoCall, Chained, TakesBack
<1> QED  BY <1>1, <1>2 DEF Recorded

\* Who leaves the history, and what is expected of the files, alone.
LEMMA RecordsStay ==
  ASSUME Recorded, UNCHANGED <<history, expect, seq>>,
         \/ rw' = NoCall
         \/ /\ rw'.target = rw.target /\ rw'.kind = rw.kind /\ rw'.plans = rw.plans
            /\ rw'.step \in {"verify", "write", "commit"} => rw.step \in {"verify", "write", "commit"},
         preview' # None => preview'.target \in Nat
  PROVE  Recorded'
<1>1. InOrder'
  BY DEF Recorded, InOrder, NoCall
<1>2. Chained'
  BY DEF Recorded, Chained, Stands, NoneBetween, End
<1>3. TakesBack'
  <2>1. CASE rw' = NoCall
    BY <2>1 DEF NoCall, TakesBack
  <2>2. CASE rw' # NoCall
    BY <2>2 DEF Recorded, TakesBack, Affected, ChangesOf, FirstChange, Planned
  <2> QED  BY <2>1, <2>2
<1> QED  BY <1>1, <1>2, <1>3 DEF Recorded

\* A file is as expected when the kernel is up and no rewind is under way.
LEMMA AsExpected ==
  ASSUME RewindInv, disturbed = {}, proc = "up", rw.step = "idle"
  PROVE  \A f \in Files : disk[f] = expect[f]
BY DEF RewindInv, FileInv, InCall

LEMMA TurnRecords ==
  ASSUME RewindInv, ContentTypes, Recorded, disturbed = {},
         NEW f \in Files, NEW c, TurnChanges(f, c)
  PROVE  Recorded'
<1> DEFINE x == [seq |-> seq + 1, file |-> f, before |-> disk[f], after |-> c, review |-> "pending"]
           n == Len(history)
<1>1. /\ history' = Append(history, x) /\ seq' = seq + 1 /\ UNCHANGED <<preview, rw>>
      /\ expect' = [expect EXCEPT ![f] = c]
      /\ rw.step = "idle" /\ disk[f] = expect[f]
  BY AsExpected DEF TurnChanges, Edited
<1>2. x.seq = seq + 1 /\ x.file = f /\ x.before = disk[f] /\ x.after = c /\ x.review = "pending"
  OBVIOUS
<1> HIDE DEF x
<1>3. n \in Nat /\ DOMAIN history = 1..n
  BY HistoryFacts
<1>4. /\ DOMAIN history' = 1..(n + 1) /\ history'[n + 1] = x /\ Len(history') = n + 1
      /\ \A i \in 1..n : history'[i] = history[i]
  BY <1>1, AppendSeq DEF ContentTypes
<1>5. \A g \in Files : expect'[g] = IF g = f THEN c ELSE expect[g]
  BY <1>1 DEF RewindInv, RewindTypes, OfFiles
<1>6. \A i \in 1..(n + 1) : i \in 1..n \/ i = n + 1
  BY <1>3
<1>7. \A i \in 1..n : i < n + 1 /\ ~(n + 1 < i) /\ ~(n + 1 < n + 1)
  BY <1>3
<1> HIDE DEF n
<1>8. InOrder'
  <2>1. \A i \in 1..n : history[i].seq \in 0..(seq + 1) /\ history[i].seq < seq + 1
    BY <1>3 DEF Recorded, InOrder
  <2>2. seq + 1 \in 0..(seq + 1) /\ seq + 1 \in Nat
    BY DEF Recorded, InOrder
  <2>3. /\ \A i \in 1..(n + 1) : history'[i].file \in Files /\ history'[i].seq \in 0..seq'
        /\ seq' \in Nat /\ rw'.target \in Nat /\ (preview' # None => preview'.target \in Nat)
    BY <1>1, <1>2, <1>3, <1>4, <1>6, <2>1, <2>2 DEF Recorded, InOrder
  <2>4. ASSUME NEW i \in 1..(n + 1), NEW j \in 1..(n + 1), i < j
        PROVE  /\ history'[i].seq < history'[j].seq
               /\ history'[i].review = "pending" => history'[j].review = "pending"
    <3>1. CASE j = n + 1
      BY <1>2, <1>4, <1>6, <1>7, <2>1, <2>4, <3>1
    <3>2. CASE j # n + 1
      <4>1. i \in 1..n /\ j \in 1..n  BY <1>6, <1>7, <2>4, <3>2
      <4> QED  BY <1>3, <1>4, <2>4, <4>1 DEF Recorded, InOrder
    <3> QED  BY <3>1, <3>2
  <2> QED  BY <1>4, <2>3, <2>4 DEF InOrder
<1>9. Chained'
  <2>1. ASSUME NEW i \in 1..n, NEW j \in 1..(n + 1), NoneBetween(i, j)' PROVE NoneBetween(i, j)
    BY <1>3, <1>4, <1>6, <2>1 DEF NoneBetween
  <2>2. ASSUME NEW i \in 1..n, NoneBetween(i, n + 1), Stands(i) PROVE expect[history[i].file] = history[i].after
    BY <1>3, <2>2 DEF Recorded, Chained, End, n
  <2>3. ASSUME NEW i \in 1..n, Stands(i)', NoneBetween(i, End)'
        PROVE  expect'[history'[i].file] = history'[i].after
    <3>1. (n + 1) + 1 > n + 1 /\ End' = (n + 1) + 1
      BY <1>3, <1>4 DEF End
    <3>2. history[i].file # f
      BY <1>2, <1>3, <1>4, <1>7, <2>3, <3>1 DEF NoneBetween
    <3>3. NoneBetween(i, n + 1)
      <4>1. \A k \in 1..n : k < (n + 1) + 1
        BY <1>3
      <4> QED  BY <1>3, <1>4, <2>3, <3>1, <4>1 DEF NoneBetween
    <3>4. Stands(i) /\ history[i].file \in Files
      BY <1>3, <1>4, <2>3 DEF Stands, Recorded, InOrder
    <3> QED  BY <1>4, <1>5, <2>2, <3>2, <3>3, <3>4
  <2>4. ASSUME NEW i \in 1..n, Stands(i)', NEW j \in 1..(n + 1), i < j,
               history'[j].file = history'[i].file, NoneBetween(i, j)'
        PROVE  history'[j].before = history'[i].after
    <3>1. NoneBetween(i, j) /\ Stands(i)
      BY <1>4, <2>1, <2>4 DEF Stands
    <3>2. CASE j = n + 1
      BY <1>1, <1>2, <1>4, <2>2, <2>4, <3>1, <3>2
    <3>3. CASE j # n + 1
      <4>1. j \in 1..n  BY <1>6, <3>3
      <4> QED  BY <1>3, <1>4, <2>4, <3>1, <4>1 DEF Recorded, Chained
    <3> QED  BY <3>2, <3>3
  <2>5. /\ expect'[history'[n + 1].file] = history'[n + 1].after
        /\ \A j \in 1..(n + 1) : ~(n + 1 < j)
    BY <1>2, <1>4, <1>5, <1>6, <1>7
  <2> QED  BY <1>4, <1>6, <2>3, <2>4, <2>5 DEF Chained
<1>10. TakesBack'
  BY <1>1 DEF TakesBack
<1> QED  BY <1>8, <1>9, <1>10 DEF Recorded

\* The pending changes are reviewed: those of a file either stand, or it is taken back.
LEMMA ReviewRecords ==
  ASSUME ContentTypes, Recorded, NEW to \in {"kept", "undone"},
         history' = [i \in DOMAIN history |->
                       [history[i] EXCEPT !.review = IF @ = "pending" THEN to ELSE @]],
         seq' = seq, rw'.target \in Nat, preview' # None => preview'.target \in Nat,
         to = "kept" => expect' = expect,
         \A f \in Files : (\A i \in DOMAIN history : history[i].file = f => history[i].review # "pending")
                            => expect'[f] = expect[f]
  PROVE  InOrder' /\ Chained'
<1> DEFINE n == Len(history)
<1>1. DOMAIN history = 1..n /\ DOMAIN history' = 1..n /\ Len(history') = n /\ n \in Nat
  BY HistoryFacts
<1>2. ASSUME NEW i \in 1..n
      PROVE  /\ history'[i].seq = history[i].seq /\ history'[i].file = history[i].file
             /\ history'[i].before = history[i].before /\ history'[i].after = history[i].after
             /\ history'[i].review = IF history[i].review = "pending" THEN to ELSE history[i].review
  <2>1. IsChange(history[i])  BY <1>1 DEF ContentTypes
  <2>2. history'[i] = [history[i] EXCEPT !.review = IF @ = "pending" THEN to ELSE @]
    BY <1>1
  <2> QED  BY <2>1, <2>2 DEF IsChange
<1> HIDE DEF n
<1>3. \A i \in 1..n : history'[i].review # "pending"
  BY <1>2
<1>4. InOrder'
  <2>1. \A i \in 1..n : history'[i].file \in Files /\ history'[i].seq \in 0..seq
    BY <1>1, <1>2 DEF Recorded, InOrder
  <2>2. ASSUME NEW i \in 1..n, NEW j \in 1..n, i < j PROVE history'[i].seq < history'[j].seq
    <3>1. history[i].seq < history[j].seq  BY <1>1, <2>2 DEF Recorded, InOrder
    <3>2. history'[i].seq = history[i].seq /\ history'[j].seq = history[j].seq  BY <1>2
    <3> QED  BY <3>1, <3>2
  <2> QED  BY <1>1, <1>3, <2>1, <2>2 DEF Recorded, InOrder
<1>5. ASSUME NEW i \in 1..n, Stands(i)'
      PROVE  Stands(i) /\ (to = "undone" => history[i].review # "pending")
  BY <1>2, <1>5 DEF Stands
<1>6. ASSUME NEW i \in 1..n, NEW m, NoneBetween(i, m)' PROVE NoneBetween(i, m)
  <2>1. SUFFICES ASSUME NEW k \in 1..n, i < k, k < m PROVE history[k].file # history[i].file
    BY <1>1 DEF NoneBetween
  <2>2. history'[k].file # history'[i].file
    BY <1>1, <1>6, <2>1 DEF NoneBetween
  <2>3. history'[k].file = history[k].file /\ history'[i].file = history[i].file
    BY <1>2
  <2> QED  BY <2>2, <2>3
<1>7. End' = End
  BY <1>1 DEF End, n
<1>8. ASSUME NEW i \in 1..n, Stands(i)', NoneBetween(i, End)'
      PROVE  expect'[history'[i].file] = history'[i].after
  <2>1. expect[history[i].file] = history[i].after /\ history[i].file \in Files
    BY <1>1, <1>5, <1>6, <1>7, <1>8 DEF Recorded, Chained, InOrder
  <2>2. CASE to = "kept"
    BY <1>2, <2>1, <2>2
  <2>3. CASE to = "undone"
    <3>1. ASSUME NEW k \in 1..n, history[k].file = history[i].file PROVE history[k].review # "pending"
      <4>1. history[i].review # "pending"  BY <1>5, <1>8, <2>3
      <4>2. CASE k < i
        BY <1>1, <4>1, <4>2 DEF Recorded, InOrder
      <4>3. CASE k = i
        BY <4>1, <4>3
      <4>4. CASE i < k
        <5>1. k < End  BY <1>1 DEF End, n
        <5>2. NoneBetween(i, End)
          BY <1>6, <1>7, <1>8
        <5> QED  BY <1>1, <3>1, <4>4, <5>1, <5>2 DEF NoneBetween
      <4> QED  BY <1>1, <4>2, <4>3, <4>4
    <3>2. expect'[history[i].file] = expect[history[i].file]
      BY <1>1, <2>1, <3>1
    <3> QED  BY <1>2, <2>1, <3>2
  <2> QED  BY <2>2, <2>3
<1>9. ASSUME NEW i \in 1..n, Stands(i)', NEW j \in 1..n, i < j,
             history'[j].file = history'[i].file, NoneBetween(i, j)'
      PROVE  history'[j].before = history'[i].after
  <2>1. NoneBetween(i, j) /\ Stands(i)
    BY <1>5, <1>6, <1>9
  <2>2. /\ history'[i].file = history[i].file /\ history'[i].after = history[i].after
        /\ history'[j].file = history[j].file /\ history'[j].before = history[j].before
    BY <1>2
  <2>3. history[j].before = history[i].after
    BY <1>1, <1>9, <2>1, <2>2 DEF Recorded, Chained
  <2> QED  BY <2>2, <2>3
<1>10. Chained'
  BY <1>1, <1>8, <1>9 DEF Chained
<1> QED  BY <1>4, <1>10

LEMMA KeepRecords ==
  ASSUME ContentTypes, Recorded, KeepChanges
  PROVE  Recorded'
<1>1. /\ UNCHANGED <<seq, rw, expect>> /\ preview' = None /\ rw.step = "idle"
      /\ history' = [i \in DOMAIN history |->
                       [history[i] EXCEPT !.review = IF @ = "pending" THEN "kept" ELSE @]]
      /\ rw'.target \in Nat
  BY DEF KeepChanges, Recorded, InOrder
<1>2. InOrder' /\ Chained'
  BY <1>1, ReviewRecords
<1> QED  BY <1>1, <1>2 DEF Recorded, TakesBack

\* What the plans of the call take back.
LEMMA RewoundFacts ==
  ASSUME RewindInv, TakesBack, rw.step = "commit", expect' = Rewound(expect, rw.plans),
         NEW f \in Files
  PROVE  LET items == Affected(rw.kind, rw.target)
         IN  expect'[f] = IF ChangesOf(items, f) = {} THEN expect[f]
                          ELSE history[FirstChange(items, f)].before
<1> DEFINE items == Affected(rw.kind, rw.target)
<1>1. /\ ChangesOf(items, f) # {} => f \in Planned(rw.plans)
      /\ \A i \in DOMAIN rw.plans : rw.plans[i].file = f =>
            /\ ChangesOf(items, f) # {}
            /\ rw.plans[i].after = history[FirstChange(items, f)].before
  BY DEF TakesBack
<1> HIDE DEF items
<1>2. CASE \E i \in DOMAIN rw.plans : rw.plans[i].file = f
  <2> DEFINE i == CHOOSE i \in DOMAIN rw.plans : rw.plans[i].file = f
  <2>1. i \in DOMAIN rw.plans /\ rw.plans[i].file = f
    BY <1>2
  <2>2. expect'[f] = rw.plans[i].after
    BY <1>2 DEF Rewound
  <2> HIDE DEF i
  <2> QED  BY <1>1, <2>1, <2>2 DEF items
<1>3. CASE ~\E i \in DOMAIN rw.plans : rw.plans[i].file = f
  <2>1. ChangesOf(items, f) = {}
    BY <1>1, <1>3 DEF Planned
  <2>2. expect'[f] = expect[f]
    BY <1>3 DEF Rewound
  <2> QED  BY <2>1, <2>2 DEF items
<1> QED  BY <1>2, <1>3

\* The history is cut before the items: what is last of a file then is what the first
\* of its changes that went had begun with.
LEMMA CutRecords ==
  ASSUME RewindInv, ContentTypes, Recorded, rw.step = "commit", rw.kind = "rewind",
         expect' = Rewound(expect, rw.plans), seq' = seq, rw'.target \in Nat,
         preview' # None => preview'.target \in Nat,
         NEW m \in 0..Len(history), history' = SubSeq(history, 1, m),
         \A i \in DOMAIN history : i <= m <=> history[i].seq < rw.target
  PROVE  InOrder' /\ Chained'
<1> DEFINE n == Len(history)  items == Affected(rw.kind, rw.target)
<1>1. DOMAIN history = 1..n /\ n \in Nat /\ m \in Nat /\ m <= n
  BY HistoryFacts
<1>2. DOMAIN history' = 1..m /\ Len(history') = m /\ \A i \in 1..m : i \in 1..n /\ history'[i] = history[i]
  BY <1>1, SubSeqFacts
<1>3. \A i \in 1..n : i \in items <=> m < i
  <2>1. \A i \in 1..n : history[i].seq \in Nat /\ rw.target \in Nat
    BY <1>1 DEF Recorded, InOrder
  <2> QED  BY <1>1, <2>1 DEF Affected
<1>4. items \subseteq 1..n
  BY <1>1 DEF Affected
<1>5. \A f \in Files : expect'[f] = IF ChangesOf(items, f) = {} THEN expect[f]
                                     ELSE history[FirstChange(items, f)].before
  BY RewoundFacts DEF Recorded
<1> HIDE DEF n, items
<1>6. InOrder'
  <2>1. \A i \in 1..m : history'[i].file \in Files /\ history'[i].seq \in 0..seq'
    BY <1>1, <1>2 DEF Recorded, InOrder
  <2>2. ASSUME NEW i \in 1..m, NEW j \in 1..m, i < j
        PROVE  /\ history'[i].seq < history'[j].seq
               /\ history'[i].review = "pending" => history'[j].review = "pending"
    <3>1. /\ i \in DOMAIN history /\ j \in DOMAIN history
          /\ history'[i] = history[i] /\ history'[j] = history[j]
      BY <1>1, <1>2
    <3> QED  BY <2>2, <3>1 DEF Recorded, InOrder
  <2>3. seq' \in Nat
    BY DEF Recorded, InOrder
  <2> QED  BY <1>2, <2>1, <2>2, <2>3 DEF InOrder
<1>7. \A i, j \in 1..m : NoneBetween(i, j)' => NoneBetween(i, j)
  <2>1. \A j \in 1..m, k \in 1..n : k < j => k \in 1..m
    BY <1>1
  <2> QED  BY <1>1, <1>2, <2>1 DEF NoneBetween
<1>8. ASSUME NEW i \in 1..m, Stands(i)', NoneBetween(i, End)'
      PROVE  expect'[history'[i].file] = history'[i].after
  <2> DEFINE f == history[i].file  D == ChangesOf(items, f)
  <2>1. /\ i \in 1..n /\ history'[i] = history[i] /\ Stands(i) /\ f \in Files
        /\ \A k \in 1..m : i < k => history[k].file # f
    <3>1. \A k \in 1..m : k < m + 1
      BY <1>1
    <3> QED  BY <1>1, <1>2, <1>8, <3>1 DEF Stands, NoneBetween, End, Recorded, InOrder
  <2> HIDE DEF f
  <2>2. D \subseteq 1..n /\ \A k \in 1..n : k \in D <=> m < k /\ history[k].file = f
    BY <1>3, <1>4 DEF ChangesOf
  <2>3. \A k \in 1..n : i < k /\ history[k].file = f => k \in D
    BY <1>1, <2>1, <2>2
  <2>4. CASE D = {}
    <3>1. NoneBetween(i, End)
      BY <1>1, <2>1, <2>3, <2>4 DEF NoneBetween, f
    <3>2. expect[f] = history[i].after
      BY <1>1, <2>1, <3>1 DEF Recorded, Chained, f
    <3> QED  BY <1>5, <2>1, <2>4, <3>2 DEF f
  <2>5. CASE D # {}
    <3> DEFINE s == Min(D)
    <3>1. s \in D /\ \A k \in D : s <= k
      <4>1. D \in SUBSET Nat  BY <1>1, <2>2
      <4> HIDE DEF D
      <4> QED  BY <2>5, <4>1, MinFacts
    <3>2. expect'[f] = history[s].before
      BY <1>5, <2>1, <2>5 DEF FirstChange
    <3> HIDE DEF s, D
    <3>3. s \in 1..n /\ i < s /\ history[s].file = f
      <4>1. s \in 1..n /\ m < s /\ history[s].file = f
        BY <2>2, <3>1
      <4>2. i \in Nat /\ i <= m /\ s \in Nat
        BY <1>1, <4>1
      <4> QED  BY <1>1, <4>1, <4>2
    <3>4. NoneBetween(i, s)
      <4>1. SUFFICES ASSUME NEW k \in 1..n, i < k, k < s, history[k].file = f PROVE FALSE
        BY <1>1, <2>1 DEF NoneBetween, f
      <4>2. s <= k  BY <2>3, <3>1, <4>1
      <4> QED  BY <3>3, <4>1, <4>2
    <3>5. history[s].before = history[i].after
      BY <1>1, <2>1, <3>3, <3>4 DEF Recorded, Chained, f
    <3> QED  BY <2>1, <3>2, <3>5 DEF f
  <2> QED  BY <2>4, <2>5
<1>9. ASSUME NEW i \in 1..m, Stands(i)', NEW j \in 1..m, i < j,
             history'[j].file = history'[i].file, NoneBetween(i, j)'
      PROVE  history'[j].before = history'[i].after
  <2>1. NoneBetween(i, j) /\ Stands(i) /\ i \in 1..n /\ j \in 1..n
    BY <1>2, <1>7, <1>9 DEF Stands
  <2> QED  BY <1>1, <1>2, <1>9, <2>1 DEF Recorded, Chained
<1>10. Chained'
  BY <1>2, <1>8, <1>9 DEF Chained
<1> QED  BY <1>6, <1>10

\* The commit of a rewind keeps exactly the changes before its target.
LEMMA CommitCuts ==
  ASSUME RewindInv, ContentTypes, InOrder, Commit, rw.kind = "rewind"
  PROVE  \E m \in 0..Len(history) :
            /\ history' = SubSeq(history, 1, m)
            /\ \A i \in DOMAIN history : i <= m <=> history[i].seq < rw.target
<1>1. PICK m \in 0..Len(history) :
         /\ history' = SubSeq(history, 1, m)
         /\ m # 0 => history[m].seq < rw.target
         /\ \A i \in DOMAIN history : history[i].seq < rw.target => i <= m
  BY CutPoint
<1>2. ASSUME NEW i \in DOMAIN history, i <= m PROVE history[i].seq < rw.target
  <2>1. m # 0 /\ m \in DOMAIN history /\ i \in Nat
    BY <1>2, HistoryFacts
  <2>2. i = m \/ history[i].seq < history[m].seq
    BY <1>2, <2>1 DEF InOrder
  <2>3. history[i].seq \in Nat /\ history[m].seq \in Nat /\ rw.target \in Nat
    BY <2>1 DEF InOrder
  <2> QED  BY <1>1, <2>1, <2>2, <2>3
<1> QED  BY <1>1, <1>2

LEMMA CommitRecords ==
  ASSUME RewindInv, ContentTypes, Recorded, Commit
  PROVE  Recorded'
<1>1. /\ rw.step = "commit" /\ rw'.step = "finish" /\ rw'.target = rw.target
      /\ expect' = Rewound(expect, rw.plans) /\ UNCHANGED <<seq, preview>>
  BY DEF Commit, RewindInv, RewindTypes
<1>2. TakesBack'
  BY <1>1 DEF TakesBack
<1>3. rw'.target \in Nat /\ (preview' # None => preview'.target \in Nat)
  BY <1>1 DEF Recorded, InOrder
<1>4. CASE rw.kind = "rewind"
  <2>1. PICK m \in 0..Len(history) :
           /\ history' = SubSeq(history, 1, m)
           /\ \A i \in DOMAIN history : i <= m <=> history[i].seq < rw.target
    BY <1>4, CommitCuts DEF Recorded
  <2>3. InOrder' /\ Chained'
    BY <1>1, <1>3, <1>4, <2>1, CutRecords
  <2> QED  BY <1>2, <2>3 DEF Recorded
<1>5. CASE rw.kind # "rewind"
  <2>1. history' = [i \in DOMAIN history |->
                      [history[i] EXCEPT !.review = IF @ = "pending" THEN "undone" ELSE @]]
    BY <1>5 DEF Commit
  <2>2. ASSUME NEW f \in Files,
               \A i \in DOMAIN history : history[i].file = f => history[i].review # "pending"
        PROVE  expect'[f] = expect[f]
    <3>1. ChangesOf(Affected(rw.kind, rw.target), f) = {}
      BY <1>5, <2>2 DEF ChangesOf, Affected
    <3> QED  BY <1>1, <3>1, RewoundFacts DEF Recorded
  <2>3. InOrder' /\ Chained'
    BY <1>1, <1>3, <2>1, <2>2, ReviewRecords
  <2> QED  BY <1>2, <2>3 DEF Recorded
<1> QED  BY <1>4, <1>5

LEMMA ConfirmRecords ==
  ASSUME RewindInv, ContentTypes, Recorded, Undisturbed, Undisturbed',
         preview # None, NEW force, Confirm(force)
  PROVE  Recorded'
<1> DEFINE items == Affected(preview.kind, preview.target)
<1>1. PICK plans \in Plans(items, force) :
         rw' = [step |-> IF plans = <<>> THEN "commit" ELSE "verify", kind |-> preview.kind,
                target |-> preview.target, plans |-> plans, done |-> 0]
  BY DEF Confirm
<1>2. /\ rw'.kind = preview.kind /\ rw'.target = preview.target /\ rw'.plans = plans
      /\ rw'.step # "idle" /\ UNCHANGED <<history, seq, expect>> /\ preview' = None
      /\ preview.target \in Nat
  BY <1>1 DEF Confirm, Recorded, InOrder
<1>3. Suffix(items)
  BY <1>2, AffectedSuffix DEF Recorded
<1>4. \A i \in items : Stands(i)
  <2>1. CASE preview.kind = "rewind"
    BY <1>2, <2>1 DEF Undisturbed, Affected, Stands
  <2>2. CASE preview.kind # "rewind"
    BY <2>2 DEF Affected, Stands
  <2> QED  BY <2>1, <2>2
<1>5. \A f \in Files : disk[f] = expect[f]
  BY AsExpected DEF Confirm, Undisturbed
<1> HIDE DEF items
<1>6. /\ \A f \in Files : ChangesOf(items, f) # {} => f \in Planned(plans)
      /\ \A i \in DOMAIN plans :
            /\ ChangesOf(items, plans[i].file) # {} /\ ~plans[i].forced
            /\ plans[i].after = history[FirstChange(items, plans[i].file)].before
  BY <1>1, <1>3, <1>4, <1>5, PlansTakeBack DEF Recorded
<1>7. Affected(rw.kind, rw.target)' = items
  BY <1>2 DEF Affected, items
<1>8. TakesBack'
  <2>1. \A f : ChangesOf(Affected(rw.kind, rw.target), f)' = ChangesOf(items, f)
    BY <1>2, <1>7 DEF ChangesOf
  <2>2. \A f : FirstChange(Affected(rw.kind, rw.target), f)' = FirstChange(items, f)
    BY <2>1 DEF FirstChange
  <2>3. \A f \in Files : ChangesOf(Affected(rw.kind, rw.target), f)' # {} => f \in Planned(rw.plans)'
    BY <1>2, <1>6, <2>1 DEF Planned
  <2>4. \A i \in DOMAIN rw'.plans :
          /\ ChangesOf(Affected(rw.kind, rw.target), rw.plans[i].file)' # {} /\ ~rw'.plans[i].forced
          /\ rw'.plans[i].after = history'[FirstChange(Affected(rw.kind, rw.target), rw.plans[i].file)'].before
    BY <1>2, <1>6, <2>1, <2>2
  <2> QED  BY <2>3, <2>4 DEF TakesBack
<1>9. InOrder'
  BY <1>2 DEF Recorded, InOrder
<1>10. Chained'
  BY <1>2 DEF Recorded, Chained, Stands, NoneBetween, End
<1> QED  BY <1>8, <1>9, <1>10 DEF Recorded

LEMMA RecordedStep ==
  ASSUME RewindInv, ContentTypes, Recorded, Undisturbed, Undisturbed', [Next]_vars
  PROVE  Recorded'
<1>0. preview # None => preview.target \in Nat
  BY DEF Recorded, InOrder
<1>1. CASE UNCHANGED vars
  BY <1>0, <1>1, RecordsStay DEF vars
<1>2. CASE Others
  <2>1. ASSUME NEW f \in Files, NEW c \in Snapshots, OthersEdit(f, c) PROVE FALSE
    BY <2>1 DEF OthersEdit, Undisturbed
  <2> QED  BY <1>2, <2>1, TurnRecords DEF Others, Undisturbed
<1>3. CASE Client
  <2>1. ASSUME NEW kind, NEW target \in Nat, Preview(kind, target) PROVE Recorded'
    <3>1. preview'.target = target /\ UNCHANGED <<history, expect, seq, rw>>
      BY <2>1 DEF Preview
    <3> QED  BY <3>1, RecordsStay
  <2>2. \A i \in DOMAIN history : history[i].seq \in Nat
    BY DEF Recorded, InOrder
  <2> QED  BY <1>3, <2>1, <2>2, KeepRecords, ConfirmRecords DEF Client
<1>4. CASE Call
  <2>1. CASE Commit
    BY <2>1, CommitRecords
  <2>2. CASE Finish
    BY <1>0, <2>2, RecordsStay DEF Finish
  <2>3. CASE VerifyFile \/ WriteFile \/ WriteFails \/ CommitFails \/ RestoreFile \/ Restored
    <3>1. /\ UNCHANGED <<history, expect, seq, preview>>
          /\ rw'.target = rw.target /\ rw'.kind = rw.kind /\ rw'.plans = rw.plans
          /\ rw'.step \in {"verify", "write", "commit"} => rw.step \in {"verify", "write", "commit"}
      BY <2>3 DEF VerifyFile, WriteFile, WriteFails, CommitFails, RestoreFile, Restored,
                  RewindInv, RewindTypes
    <3> QED  BY <1>0, <3>1, RecordsStay
  <2> QED  BY <1>4, <2>1, <2>2, <2>3 DEF Call
<1>5. CASE Crash \/ Recovery
  <2>1. /\ UNCHANGED <<history, expect, seq>>
        /\ rw' = NoCall \/ rw' = rw
        /\ preview' = None \/ preview' = preview
    BY <1>5 DEF Crash, Recovery, Start, RecoverFile, RecoverJournal, RefuseStart, Recovered
  <2>2. preview' # None => preview'.target \in Nat
    BY <1>0, <2>1
  <2>3. CASE rw' = NoCall
    BY <2>1, <2>2, <2>3, RecordsStay
  <2>4. CASE rw' = rw
    BY <2>1, <2>2, <2>4, RecordsStay
  <2> QED  BY <2>1, <2>3, <2>4
<1> QED  BY <1>1, <1>2, <1>3, <1>4, <1>5 DEF Next

LEMMA RecordedHolds == Spec /\ []Undisturbed => []Recorded
<1>1. RewindInv /\ ContentTypes /\ Recorded /\ Undisturbed /\ Undisturbed' /\ [Next]_vars => Recorded'
  BY RecordedStep
<1> QED  BY RewindInvHolds, ContentsHold, RecordedInit, <1>1, PTL DEF Spec

(***************************************************************************)
(* Undisturbed, every file that a call undoes changes of is planned, needs *)
(* no force, and goes back to exactly what was recorded before the first   *)
(* of those changes, after any number of crashes, recoveries, and writes   *)
(* and transactions that failed (inspectFileRewind and                     *)
(* selectFileRewindPlans).                                                 *)
(***************************************************************************)
THEOREM RewindTakesBack == Spec /\ []Undisturbed => []TakesBack
<1>1. Recorded => TakesBack
  BY DEF Recorded
<1> QED  BY RecordedHolds, <1>1, PTL

(***************************************************************************)
(* Undisturbed, when no rewind is under way, every file holds what the     *)
(* last change of the active history recorded, unless that was undone:     *)
(* rewinds trim the history and the files to the same point, crash or not  *)
(* (RewindTurn, store.Rewind and RecoverFileRewinds).                      *)
(***************************************************************************)
THEOREM HistoryDescribesFiles == Spec /\ []Undisturbed => []FilesAsRecorded
<1>1. RewindInv /\ Recorded /\ Undisturbed => FilesAsRecorded
  <2> SUFFICES ASSUME RewindInv, Recorded, Undisturbed, proc = "up", rw.step = "idle",
                      NEW i \in DOMAIN history, Stands(i), NoneBetween(i, End)
               PROVE  disk[history[i].file] = history[i].after
    BY DEF FilesAsRecorded
  <2>1. history[i].file \in Files /\ expect[history[i].file] = history[i].after
    BY DEF Recorded, InOrder, Chained
  <2> QED  BY <2>1, AsExpected DEF Undisturbed
<1> QED  BY RewindInvHolds, RecordedHolds, <1>1, PTL
-----------------------------------------------------------------------------
(***************************************************************************)
(* The refinement: undisturbed rewinds are atomic.                         *)
(***************************************************************************)

Atomic == INSTANCE AtomicRewind WITH files <- expect, Contents <- Snapshots

ImplementsAtomic == Atomic!Spec

\* The files that a commit leaves are those before the changes it undoes.
LEMMA CommitRestores ==
  ASSUME RewindInv, TakesBack, rw.step = "commit",
         expect' = Rewound(expect, rw.plans)
  PROVE  expect' = Atomic!Before(Affected(rw.kind, rw.target))
<1> DEFINE items == Affected(rw.kind, rw.target)
<1>1. \A f \in Files : expect'[f] = IF ChangesOf(items, f) = {} THEN expect[f]
                                     ELSE history[FirstChange(items, f)].before
  BY RewoundFacts
<1>2. expect' = [f \in Files |-> expect'[f]]
  BY DEF Rewound
<1> HIDE DEF items
<1>3. Atomic!Before(items) = [f \in Files |-> IF ChangesOf(items, f) = {} THEN expect[f]
                                              ELSE history[FirstChange(items, f)].before]
  BY DEF Atomic!Before, Atomic!Min, Min, ChangesOf, FirstChange
<1> QED  BY <1>1, <1>2, <1>3 DEF items

LEMMA CommitIsAtomic ==
  ASSUME RewindInv, ContentTypes, Recorded, Commit
  PROVE  Atomic!Next
<1>1. /\ rw.step = "commit" /\ UNCHANGED seq
      /\ expect' = Atomic!Before(Affected(rw.kind, rw.target))
  BY CommitRestores DEF Commit, Recorded
<1>2. CASE rw.kind = "rewind"
  <2>1. PICK m \in 0..Len(history) :
           /\ history' = SubSeq(history, 1, m)
           /\ \A i \in DOMAIN history : i <= m <=> history[i].seq < rw.target
    BY <1>2, CommitCuts DEF Recorded
  <2>2. Affected(rw.kind, rw.target) = {i \in DOMAIN history : m < i}
    <3>1. ASSUME NEW i \in DOMAIN history PROVE history[i].seq >= rw.target <=> m < i
      <4>1. i \in Nat /\ m \in Nat /\ history[i].seq \in Nat /\ rw.target \in Nat
        BY HistoryFacts DEF Recorded, InOrder
      <4> QED  BY <2>1, <4>1
    <3> QED  BY <1>2, <3>1 DEF Affected
  <2>3. Atomic!Rewind(m)
    BY <1>1, <2>1, <2>2 DEF Atomic!Rewind
  <2> QED  BY <2>3 DEF Atomic!Next
<1>3. CASE rw.kind # "rewind"
  <2>1. Affected(rw.kind, rw.target) = {i \in DOMAIN history : history[i].review = "pending"}
    BY <1>3 DEF Affected
  <2>2. history' = Atomic!Reviewed("undone")
    BY <1>3 DEF Commit, Atomic!Reviewed
  <2>3. Atomic!Undo
    BY <1>1, <2>1, <2>2 DEF Atomic!Undo
  <2> QED  BY <2>3 DEF Atomic!Next
<1> QED  BY <1>2, <1>3

LEMMA AtomicStep ==
  ASSUME RewindInv, ContentTypes, Recorded, Undisturbed, Undisturbed', [Next]_vars
  PROVE  Atomic!Next \/ UNCHANGED <<expect, history, seq>>
<1>1. CASE UNCHANGED vars
  BY <1>1 DEF vars
<1>2. CASE Others
  <2>1. PICK f \in Files, c \in Snapshots : TurnChanges(f, c) \/ OthersEdit(f, c)
    BY <1>2 DEF Others
  <2>2. TurnChanges(f, c)
    BY <2>1 DEF OthersEdit, Undisturbed
  <2>3. disk[f] = expect[f]
    BY <2>2, AsExpected DEF TurnChanges, Undisturbed
  <2>4. Atomic!Change(f, c)
    BY <2>2, <2>3 DEF TurnChanges, Edited, Atomic!Change
  <2> QED  BY <2>4 DEF Atomic!Next
<1>3. CASE Client
  <2>1. CASE KeepChanges
    <3>1. /\ UNCHANGED <<expect, seq>> /\ history' = Atomic!Reviewed("kept")
      BY <2>1 DEF KeepChanges, Atomic!Reviewed
    <3> QED  BY <3>1 DEF Atomic!Keep, Atomic!Next
  <2>2. ASSUME NEW kind, NEW target, Preview(kind, target) PROVE UNCHANGED <<expect, history, seq>>
    BY <2>2 DEF Preview
  <2>3. ASSUME NEW force, Confirm(force) PROVE UNCHANGED <<expect, history, seq>>
    BY <2>3 DEF Confirm
  <2> QED  BY <1>3, <2>1, <2>2, <2>3 DEF Client
<1>4. CASE Call
  <2>1. CASE Commit
    BY <2>1, CommitIsAtomic
  <2>2. CASE VerifyFile \/ WriteFile \/ WriteFails \/ CommitFails \/ RestoreFile \/ Restored \/ Finish
    BY <2>2 DEF VerifyFile, WriteFile, WriteFails, CommitFails, RestoreFile, Restored, Finish
  <2> QED  BY <1>4, <2>1, <2>2 DEF Call
<1>5. CASE Crash \/ Recovery
  BY <1>5 DEF Crash, Recovery, Start, RecoverFile, RecoverJournal, RefuseStart, Recovered
<1> QED  BY <1>1, <1>2, <1>3, <1>4, <1>5 DEF Next

(***************************************************************************)
(* Undisturbed, rewinds are atomic: with their previews, journals, crashes *)
(* and recoveries, RewindTurn, UndoFileChanges and KeepFileChanges         *)
(* implement AtomicRewind, where files and history move in one step.  The  *)
(* disk is what that leaves whenever no rewind is under way                *)
(* (FilesFollowHistory).                                                   *)
(***************************************************************************)
THEOREM RewindsAreAtomic == Spec /\ []Undisturbed => ImplementsAtomic
<1>1. Init => Atomic!Init
  BY DEF Init, Atomic!Init
<1>2. RewindInv /\ ContentTypes /\ Recorded /\ Undisturbed /\ Undisturbed' /\ [Next]_vars
        => [Atomic!Next]_(Atomic!vars)
  BY AtomicStep DEF Atomic!vars
<1> QED  BY RewindInvHolds, ContentsHold, RecordedHolds, <1>1, <1>2, PTL
         DEF Spec, ImplementsAtomic, Atomic!Spec
=============================================================================
