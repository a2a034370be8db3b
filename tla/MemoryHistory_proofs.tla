------------------------ MODULE MemoryHistory_proofs ------------------------
(***************************************************************************)
(* Proofs about MemoryHistory, for every number of Dream runs, every size  *)
(* of the file and of a batch, and crashes anywhere but between an entry   *)
(* and its number: no entry is passed over by Dream.                       *)
(***************************************************************************)
EXTENDS MemoryHistory, SequenceTheorems, FiniteSetTheorems, NaturalsInduction,
        WellFoundedInduction, TLAPS

(***************************************************************************)
(* The inductive invariant. While an entry and its number are written      *)
(* together, the number of an entry is the count of the entries up to it:  *)
(* the file holds the last entries, in order, and .cursor is either lost   *)
(* or right. What was dreamt is a prefix of all entries: a batch starts no *)
(* later than right after that prefix, also when the other run has made    *)
(* the prefix longer since, and compaction drops nothing after it.         *)
(***************************************************************************)

\* The number of entries that are no longer in the file.
Dropped == entries - Len(history)

HistoryInv ==
  /\ Len(history) <= entries
  /\ \A k \in DOMAIN history :
       history[k].cursor = Dropped + k /\ history[k].id = Dropped + k
  /\ entries > 0 => history # <<>>
  /\ counter \in {Empty, entries}
  /\ legacy => Legacy > 0

\* A batch of the first n entries in order, without a gap after the first d.
Continues(batch, d, n) ==
  /\ batch # <<>> /\ batch[1].id <= d + 1 /\ batch[Len(batch)].id <= n
  /\ \A k \in DOMAIN batch :
       batch[k].cursor = batch[k].id /\ batch[k].id = batch[1].id + k - 1

DreamtUpTo(d) ==
  /\ dreamt = 1..d /\ LastDreamt <= d
  /\ Dropped <= d /\ entries - d <= Backlog
  /\ \A r \in Runs : run[r].phase # "idle" => Continues(run[r].batch, d, entries)

ReadInv == \E d \in 0..entries : DreamtUpTo(d)

MemInv == TypeOK /\ HistoryInv /\ ReadInv

-----------------------------------------------------------------------------
(***************************************************************************)
(* What is not processed yet                                               *)
(***************************************************************************)

\* Induction for a set, from the order of the natural numbers.
LEMMA SetInduction ==
  ASSUME NEW S, 0 \in S, \A n \in Nat : n \in S => n + 1 \in S
  PROVE  Nat \subseteq S
<1> DEFINE R == OpToRel(<, Nat)
           T == Nat \ S
<1> SUFFICES ASSUME T # {} PROVE FALSE
  OBVIOUS
<1>1. IsWellFoundedOn(R, Nat)
  BY NatLessThanWellFounded
<1>2. \A x, y \in Nat : y < x => <<y, x>> \in R
  BY DEF OpToRel
<1>3. PICK x \in T : \A y \in T : ~(<<y, x>> \in R)
  <2>1. T \subseteq Nat
    OBVIOUS
  <2> HIDE DEF R, T
  <2> QED
    BY <1>1, <2>1, WFMin
<1>4. x \in Nat /\ x \notin S
  OBVIOUS
<1>5. x # 0
  BY <1>4
<1>6. x - 1 \in Nat /\ x - 1 < x /\ (x - 1) + 1 = x
  BY <1>4, <1>5
<1>7. x - 1 \in S
  BY <1>2, <1>3, <1>4, <1>6
<1> QED
  BY <1>4, <1>6, <1>7

\* The entries of s after the first cut ones, up to the k-th.
After(s, cut, k) == [i \in 1..(IF k <= cut THEN 0 ELSE k - cut) |-> s[cut + i]]

LEMMA AfterIsSequence ==
  ASSUME NEW T, NEW s \in Seq(T), NEW cut \in 0..Len(s), NEW k \in 0..Len(s)
  PROVE  /\ After(s, cut, k) \in Seq(T)
         /\ k <= cut => Len(After(s, cut, k)) = 0
         /\ k >= cut => Len(After(s, cut, k)) = k - cut
         /\ \A i \in 1..Len(After(s, cut, k)) : After(s, cut, k)[i] = s[cut + i]
<1> DEFINE n == IF k <= cut THEN 0 ELSE k - cut
<1>1. n \in Nat /\ cut \in Nat /\ \A i \in 1..n : cut + i \in 1..Len(s)
  OBVIOUS
<1>2. \A i \in 1..Len(s) : s[i] \in T
  OBVIOUS
<1>3. \A i \in 1..n : s[cut + i] \in T
  BY <1>1, <1>2
<1> HIDE DEF n
<1>4. [i \in 1..n |-> s[cut + i]] \in Seq(T)
  BY <1>1, <1>3
<1>5. /\ Len([i \in 1..n |-> s[cut + i]]) = n
      /\ \A i \in 1..n : [j \in 1..n |-> s[cut + j]][i] = s[cut + i]
  BY <1>1, <1>4
<1>6. (k <= cut => n = 0) /\ (k >= cut => n = k - cut)
  BY DEF n
<1> QED
  BY <1>4, <1>5, <1>6 DEF After, n

\* One entry more: dropped before cut, appended after it.
LEMMA AfterStep ==
  ASSUME NEW T, NEW s \in Seq(T), NEW cut \in 0..Len(s), NEW k \in 1..Len(s)
  PROVE  After(s, cut, k) = IF k > cut THEN Append(After(s, cut, k - 1), s[k])
                            ELSE After(s, cut, k - 1)
<1>1. k - 1 \in 0..Len(s) /\ k \in 0..Len(s) /\ s[k] \in T
  OBVIOUS
<1>2. CASE k > cut
  <2>1. PICK a : a = After(s, cut, k - 1)
    OBVIOUS
  <2>2. PICK b : b = After(s, cut, k)
    OBVIOUS
  <2>3. a \in Seq(T) /\ Len(a) = k - 1 - cut /\ \A i \in 1..Len(a) : a[i] = s[cut + i]
    <3>1. /\ After(s, cut, k - 1) \in Seq(T)
          /\ k - 1 >= cut => Len(After(s, cut, k - 1)) = k - 1 - cut
          /\ \A i \in 1..Len(After(s, cut, k - 1)) : After(s, cut, k - 1)[i] = s[cut + i]
      BY <1>1, AfterIsSequence
    <3>2. cut \in Nat /\ k \in Nat /\ k > cut
      BY <1>2
    <3>3. k - 1 >= cut
      BY <3>2
    <3> QED
      BY <2>1, <3>1, <3>3
  <2>4. b \in Seq(T) /\ Len(b) = k - cut /\ \A i \in 1..Len(b) : b[i] = s[cut + i]
    <3>1. /\ After(s, cut, k) \in Seq(T)
          /\ k >= cut => Len(After(s, cut, k)) = k - cut
          /\ \A i \in 1..Len(After(s, cut, k)) : After(s, cut, k)[i] = s[cut + i]
      BY <1>1, AfterIsSequence
    <3> QED
      BY <1>1, <1>2, <2>2, <3>1
  <2>5. /\ Append(a, s[k]) \in Seq(T) /\ Len(Append(a, s[k])) = Len(a) + 1
        /\ \A i \in 1..Len(a) : Append(a, s[k])[i] = a[i]
        /\ Append(a, s[k])[Len(a) + 1] = s[k]
    BY <1>1, <2>3, AppendProperties
  <2>6. \A i \in 1..(k - cut) : b[i] = Append(a, s[k])[i]
    BY <1>2, <2>3, <2>4, <2>5
  <2>7. b = Append(a, s[k])
    BY <2>3, <2>4, <2>5, <2>6, SeqEqual
  <2> QED
    BY <1>2, <2>1, <2>2, <2>7
<1>3. CASE k <= cut
  BY <1>3 DEF After
<1> QED
  BY <1>2, <1>3

\* The numbers grow by one, so what is not processed is the end of the file.
LEMMA UnprocessedIs ==
  ASSUME history \in Seq(Entry), NEW cut \in 0..Len(history),
         \A k \in 1..Len(history) : history[k].cursor > LastDreamt <=> k > cut
  PROVE  Unprocessed = After(history, cut, Len(history))
<1> DEFINE n == Len(history)
           Rest(k) == After(history, cut, k)
           Solves(f) == f = [k \in 0..n |->
             IF k = 0 THEN <<>>
             ELSE IF history[k].cursor > LastDreamt THEN Append(f[k - 1], history[k])
             ELSE f[k - 1]]
           F == [k \in 0..n |-> Rest(k)]
<1>1. n \in Nat /\ cut \in Nat /\ \A k \in 1..n : history[k].cursor > LastDreamt <=> k > cut
  OBVIOUS
<1>2. Rest(0) = <<>>
  <2>1. After(history, cut, 0) \in Seq(Entry) /\ Len(After(history, cut, 0)) = 0
    BY <1>1, AfterIsSequence
  <2> QED
    BY <2>1, EmptySeq
<1>3. \A k \in 1..n : Rest(k) = IF k > cut THEN Append(Rest(k - 1), history[k]) ELSE Rest(k - 1)
  BY AfterStep
<1> HIDE DEF n, Rest
<1>4. Solves(F)
  <2>1. \A k \in 0..n : F[k] = IF k = 0 THEN <<>>
             ELSE IF history[k].cursor > LastDreamt THEN Append(F[k - 1], history[k])
             ELSE F[k - 1]
    BY <1>1, <1>2, <1>3
  <2> QED
    BY <2>1
<1>5. Solves(UnprocessedOf)
  <2>1. \E f : Solves(f)
    BY <1>4
  <2> QED
    BY <2>1, Zenon DEF UnprocessedOf, n
<1>6. Nat \subseteq {k \in Nat : k <= n => UnprocessedOf[k] = Rest(k)}
  <2> DEFINE Same == {k \in Nat : k <= n => UnprocessedOf[k] = Rest(k)}
  <2> HIDE DEF F
  <2>0. PICK f : f = UnprocessedOf
    OBVIOUS
  <2>1. 0 \in Same
    BY <1>1, <1>2, <1>5, <2>0
  <2>2. ASSUME NEW k \in Nat, k \in Same PROVE k + 1 \in Same
    <3>1. CASE k + 1 <= n
      <4>1. k + 1 \in 1..n /\ k + 1 \in 0..n /\ (k + 1) - 1 = k /\ k <= n
        BY <1>1, <3>1
      <4>2. f[k] = Rest(k)
        BY <2>0, <2>2, <4>1
      <4>3. f[k + 1] = IF history[k + 1].cursor > LastDreamt THEN Append(f[k], history[k + 1])
                       ELSE f[k]
        <5>1. \A j \in 0..n : f[j] = IF j = 0 THEN <<>>
                 ELSE IF history[j].cursor > LastDreamt THEN Append(f[j - 1], history[j])
                 ELSE f[j - 1]
          BY <1>5, <2>0
        <5> QED
          BY <4>1, <5>1
      <4>4. f[k + 1] = Rest(k + 1)
        BY <1>1, <1>3, <4>1, <4>2, <4>3
      <4> QED
        BY <2>0, <4>4
    <3> QED
      BY <1>1, <3>1
  <2> HIDE DEF Same
  <2>3. Nat \subseteq Same
    BY <2>1, <2>2, SetInduction
  <2> QED
    BY <2>3 DEF Same
<1> QED
  BY <1>1, <1>6 DEF Unprocessed, n, Rest

-----------------------------------------------------------------------------
(***************************************************************************)
(* A batch, compaction, and an entry more                                  *)
(***************************************************************************)

\* The parameters and the types of the state, as the steps use them.
LEMMA Numbers ==
  ASSUME TypeOK
  PROVE  /\ BatchSize \in Nat /\ BatchSize >= 1 /\ MaxHistory \in Nat
         /\ Backlog \in Nat /\ Backlog >= 1 /\ Backlog <= MaxHistory
         /\ Legacy \in Nat /\ Legacy <= MaxEntries /\ MaxEntries \in Nat
         /\ MaxCrashes \in Nat /\ Empty \notin Nat
         /\ entries \in Nat /\ LastDreamt \in Nat
         /\ history \in Seq(Entry) /\ Len(history) \in Nat
         /\ DOMAIN history = 1..Len(history)
         /\ \A k \in 1..Len(history) : history[k] \in Entry
         /\ Dropped = entries - Len(history) /\ Dropped \in Int
<1>1. /\ BatchSize \in Nat /\ BatchSize >= 1 /\ MaxHistory \in Nat
      /\ Backlog \in Nat /\ Backlog >= 1 /\ Backlog <= MaxHistory
      /\ Legacy \in Nat /\ Legacy <= MaxEntries /\ MaxEntries \in Nat
      /\ MaxCrashes \in Nat /\ Empty \notin Nat
  BY ConstantsAssumption
<1>2. entries \in Nat /\ LastDreamt \in Nat
  BY <1>1 DEF TypeOK, LastDreamt
<1>3. /\ history \in Seq(Entry) /\ Len(history) \in Nat
      /\ DOMAIN history = 1..Len(history)
      /\ \A k \in 1..Len(history) : history[k] \in Entry
  BY DEF TypeOK
<1> QED
  BY <1>1, <1>2, <1>3 DEF Dropped

\* A batch begins right after what the position says was read, or with the
\* first entry of the file, and goes on in order.
LEMMA BatchContinues ==
  ASSUME TypeOK, HistoryInv, NEW d \in 0..entries, DreamtUpTo(d), Batch # <<>>
  PROVE  Batch \in Seq(Entry) /\ Continues(Batch, d, entries)
<1>1. /\ BatchSize \in Nat /\ BatchSize >= 1 /\ entries \in Nat /\ LastDreamt \in Nat
      /\ history \in Seq(Entry) /\ Len(history) \in Nat
      /\ DOMAIN history = 1..Len(history) /\ Dropped = entries - Len(history) /\ Dropped \in Int
  BY Numbers
<1>2. /\ d \in Nat /\ d <= entries /\ LastDreamt <= d /\ Dropped <= d
  BY <1>1 DEF DreamtUpTo
<1>3. /\ Len(history) <= entries
      /\ \A k \in 1..Len(history) :
           history[k].cursor = Dropped + k /\ history[k].id = Dropped + k
  BY <1>1 DEF HistoryInv
<1>4. PICK cut \in Nat :
        /\ cut <= Len(history) /\ Dropped + cut <= d
        /\ \A k \in 1..Len(history) : history[k].cursor > LastDreamt <=> k > cut
  <2>1. CASE LastDreamt <= Dropped
    BY <1>1, <1>2, <1>3, <2>1
  <2>2. CASE LastDreamt > Dropped
    <3>1. /\ LastDreamt - Dropped \in Nat /\ LastDreamt - Dropped <= Len(history)
          /\ Dropped + (LastDreamt - Dropped) <= d
          /\ \A k \in 1..Len(history) :
               history[k].cursor > LastDreamt <=> k > LastDreamt - Dropped
      BY <1>1, <1>2, <1>3, <2>2
    <3> QED
      BY <3>1
  <2> QED
    BY <1>1, <2>1, <2>2
<1>5. PICK u : u = Unprocessed
  OBVIOUS
<1>6. u = After(history, cut, Len(history))
  <2>1. cut \in 0..Len(history)
    BY SMTT(30), <1>1, <1>4
  <2> QED
    BY <1>1, <1>4, <1>5, <2>1, UnprocessedIs
<1>7. u \in Seq(Entry) /\ Len(u) = Len(history) - cut /\ \A i \in 1..Len(u) : u[i] = history[cut + i]
  <2>1. /\ Len(history) \in 0..Len(history) /\ cut \in 0..Len(history)
        /\ Len(history) >= cut
    BY <1>1, <1>4
  <2> QED
    BY <1>1, <1>6, <2>1, AfterIsSequence
<1>8. PICK m : m = IF Len(u) < BatchSize THEN Len(u) ELSE BatchSize
  OBVIOUS
<1>9. m \in Nat /\ m <= Len(u) /\ Batch = SubSeq(u, 1, m)
  BY <1>1, <1>5, <1>7, <1>8 DEF Batch
<1>10. PICK b : b = Batch
  OBVIOUS
<1>11. b \in Seq(Entry) /\ Len(b) = m /\ \A i \in 1..m : b[i] = u[i]
  <2>1. \A i \in 1..m : u[i] \in Entry
    BY <1>7, <1>9
  <2>2. SubSeq(u, 1, m) \in Seq(Entry)
    BY <1>7, <1>9, <2>1, SubSeqProperties
  <2>3. Len(SubSeq(u, 1, m)) = m /\ \A i \in 1..m : SubSeq(u, 1, m)[i] = u[i]
    BY <1>7, <1>9
  <2> QED
    BY <1>9, <1>10, <2>2, <2>3
<1>12. \A i \in 1..m : b[i].cursor = Dropped + cut + i /\ b[i].id = Dropped + cut + i
  <2> TAKE i \in 1..m
  <2>1. i \in 1..Len(u) /\ cut + i \in 1..Len(history)
    BY <1>1, <1>4, <1>7, <1>9
  <2>2. b[i] = history[cut + i]
    BY <1>7, <1>11, <2>1
  <2> QED
    BY <1>1, <1>3, <1>4, <2>1, <2>2
<1>13. m >= 1
  BY <1>9, <1>10, <1>11, EmptySeq
<1>14. Dropped + cut + m <= entries
  BY <1>1, <1>4, <1>7, <1>9
<1> QED
  <2>1. 1 \in 1..m /\ m \in 1..m /\ DOMAIN b = 1..m /\ cut \in Nat
    BY <1>4, <1>9, <1>11, <1>13
  <2>2. b[1].id <= d + 1 /\ b[Len(b)].id <= entries
    BY <1>1, <1>2, <1>4, <1>11, <1>12, <1>14, <2>1
  <2>3. \A k \in DOMAIN b : b[k].cursor = b[k].id /\ b[k].id = b[1].id + k - 1
    BY <1>1, <1>12, <2>1
  <2> QED
    BY <1>10, <1>11, <2>2, <2>3 DEF Continues

\* The next entry gets the next number, whether or not .cursor was lost.
LEMMA NextCursorIs ==
  ASSUME TypeOK, HistoryInv
  PROVE  NextCursor = entries + 1
<1>1. /\ entries \in Nat /\ Empty \notin Nat /\ Len(history) \in Nat
      /\ DOMAIN history = 1..Len(history) /\ history \in Seq(Entry)
      /\ Dropped = entries - Len(history) /\ Dropped \in Int
  BY Numbers
<1>2. CASE counter # Empty
  BY <1>1, <1>2 DEF NextCursor, HistoryInv
<1>3. CASE counter = Empty /\ history # <<>>
  <2>1. Len(history) \in 1..Len(history)
    BY <1>1, <1>3, EmptySeq
  <2>2. history[Len(history)].cursor = Dropped + Len(history)
    BY <1>1, <2>1 DEF HistoryInv
  <2> QED
    BY <1>1, <1>3, <2>2 DEF NextCursor, Last
<1>4. CASE counter = Empty /\ history = <<>>
  BY <1>1, <1>4 DEF NextCursor, HistoryInv
<1> QED
  BY <1>2, <1>3, <1>4

\* An entry more, with .cursor written or lost.
LEMMA EntryMore ==
  ASSUME TypeOK, HistoryInv, MayAppend, NEW d \in 0..entries, DreamtUpTo(d),
         history' = Append(history, NewEntry), entries' = entries + 1,
         counter' \in {Empty, NewEntry.cursor}, UNCHANGED <<legacy, dreamCursor, dreamt>>,
         \A r \in Runs : run'[r].phase # "idle" => run'[r] = run[r]
  PROVE  history' \in Seq(Entry) /\ HistoryInv' /\ ReadInv'
<1>1. /\ entries \in Nat /\ Len(history) \in Nat /\ history \in Seq(Entry)
      /\ DOMAIN history = 1..Len(history) /\ LastDreamt \in Nat
      /\ Dropped = entries - Len(history) /\ Dropped \in Int
      /\ Backlog \in Nat
  BY Numbers
<1>2. PICK e : e = NewEntry
  OBVIOUS
<1>3. e.cursor = entries + 1 /\ e.id = entries + 1 /\ e \in Entry
  BY <1>1, <1>2, NextCursorIs DEF NewEntry, Entry
<1>4. /\ history' \in Seq(Entry) /\ Len(history') = Len(history) + 1
      /\ \A k \in 1..Len(history) : history'[k] = history[k]
      /\ history'[Len(history) + 1] = e
      /\ DOMAIN history' = 1..(Len(history) + 1)
  BY <1>1, <1>2, <1>3, AppendProperties
<1>5. Dropped' = Dropped
  BY <1>1, <1>4 DEF Dropped
<1>6. HistoryInv'
  <2>1. Len(history') <= entries'
    BY <1>1, <1>4 DEF HistoryInv
  <2>2. ASSUME NEW k \in DOMAIN history'
        PROVE  history'[k].cursor = Dropped' + k /\ history'[k].id = Dropped' + k
    <3>1. CASE k = Len(history) + 1
      BY <1>1, <1>3, <1>4, <1>5, <3>1
    <3>2. CASE k \in 1..Len(history)
      BY <1>1, <1>4, <1>5, <3>2 DEF HistoryInv
    <3> QED
      BY <1>1, <1>4, <2>2, <3>1, <3>2
  <2>3. history' # <<>>
    BY <1>1, <1>4
  <2>4. counter' \in {Empty, entries'}
    BY <1>2, <1>3
  <2>5. legacy' => Legacy > 0
    BY DEF HistoryInv
  <2> QED
    BY <2>1, <2>2, <2>3, <2>4, <2>5 DEF HistoryInv
<1>7. entries - d < Backlog
  <2>1. d \in Nat /\ d <= entries /\ dreamt = 1..d
    BY <1>1 DEF DreamtUpTo
  <2>2. (1..entries) \ dreamt = (d + 1)..entries
    BY <1>1, <2>1
  <2>3. Cardinality((d + 1)..entries) = IF d + 1 > entries THEN 0 ELSE entries - (d + 1) + 1
    BY <1>1, <2>1, FS_Interval
  <2>4. Cardinality((1..entries) \ dreamt) < Backlog
    BY DEF MayAppend
  <2>5. (IF d + 1 > entries THEN 0 ELSE entries - (d + 1) + 1) = entries - d
    BY <1>1, <2>1
  <2>6. Cardinality((1..entries) \ dreamt) = entries - d
    BY <2>2, <2>3, <2>5
  <2> QED
    BY <2>4, <2>6
<1>8. LastDreamt' = LastDreamt
  BY DEF LastDreamt
<1>9. \A r \in Runs : run'[r].phase # "idle" => Continues(run'[r].batch, d, entries')
  <2> SUFFICES ASSUME NEW r \in Runs, run'[r].phase # "idle"
               PROVE  Continues(run'[r].batch, d, entries')
    OBVIOUS
  <2>1. PICK b : b = run[r].batch
    OBVIOUS
  <2>2. run'[r] = run[r] /\ Continues(b, d, entries)
    BY <2>1 DEF DreamtUpTo
  <2>3. b \in Seq(Entry)
    BY <2>1 DEF TypeOK, DreamRun
  <2>4. b[Len(b)].id <= entries'
    <3>1. b # <<>> /\ b[Len(b)].id <= entries
      BY <2>2 DEF Continues
    <3>2. Len(b) \in 1..Len(b)
      BY <2>3, <3>1, EmptySeq
    <3>3. b[Len(b)] \in Entry
      BY <2>3, <3>2
    <3>4. b[Len(b)].id \in Nat
      BY <3>3 DEF Entry
    <3> QED
      BY <1>1, <3>1, <3>4
  <2> QED
    BY <2>1, <2>2, <2>4 DEF Continues
<1>10. DreamtUpTo(d)'
  BY <1>1, <1>5, <1>7, <1>8, <1>9 DEF DreamtUpTo
<1>11. d \in 0..entries'
  BY <1>1
<1> QED
  BY <1>4, <1>6, <1>10, <1>11 DEF ReadInv

\* Only Dream's own state changes.
LEMMA RunChanges ==
  ASSUME TypeOK, HistoryInv, NEW d \in 0..entries, DreamtUpTo(d),
         UNCHANGED <<files, entries, dreamt>>,
         \A r \in Runs : run'[r].phase # "idle" => Continues(run'[r].batch, d, entries)
  PROVE  HistoryInv' /\ ReadInv'
<1>1. /\ UNCHANGED <<legacy, history, counter, dreamCursor>>
      /\ Dropped' = Dropped /\ LastDreamt' = LastDreamt
  BY DEF files, Dropped, LastDreamt
<1>2. HistoryInv'
  BY <1>1 DEF HistoryInv
<1>3. \A r \in Runs : run'[r].phase # "idle" => Continues(run'[r].batch, d, entries')
  OBVIOUS
<1>4. DreamtUpTo(d)'
  BY <1>1, <1>3 DEF DreamtUpTo
<1> QED
  BY <1>2, <1>4 DEF ReadInv

\* Compaction keeps the newest entries.
LEMMA CompactedIs ==
  ASSUME TypeOK, NEW h, h = Compacted(history)
  PROVE  /\ h \in Seq(Entry)
         /\ Len(h) = IF Len(history) <= MaxHistory THEN Len(history) ELSE MaxHistory
         /\ \A k \in 1..Len(h) : h[k] = history[Len(history) - Len(h) + k]
<1>1. /\ MaxHistory \in Nat /\ Len(history) \in Nat /\ history \in Seq(Entry)
      /\ \A k \in 1..Len(history) : history[k] \in Entry
  BY Numbers
<1>2. CASE Len(history) <= MaxHistory
  BY <1>1, <1>2 DEF Compacted
<1>3. CASE ~(Len(history) <= MaxHistory)
  <2> DEFINE from == Len(history) - MaxHistory + 1
  <2>1. from \in 1..(Len(history) + 1) /\ Len(history) - from + 1 = MaxHistory
    BY <1>1, <1>3
  <2>2. h = SubSeq(history, from, Len(history))
    BY <1>3 DEF Compacted
  <2>3. SubSeq(history, from, Len(history)) \in Seq(Entry)
    BY <1>1, <2>1, SubSeqProperties
  <2>4. Len(h) = MaxHistory /\ \A k \in 1..Len(h) : h[k] = history[Len(history) - MaxHistory + k]
    <3> HIDE DEF from
    <3>1. /\ Len(SubSeq(history, from, Len(history))) = Len(history) - from + 1
          /\ \A k \in 1..(Len(history) - from + 1) :
               SubSeq(history, from, Len(history))[k] = history[from + k - 1]
      BY <1>1, <1>3, <2>1, SubSeqProperties
    <3> QED
      BY <1>1, <1>3, <2>1, <2>2, <3>1 DEF from
  <2> QED
    BY <1>1, <1>3, <2>2, <2>3, <2>4
<1> QED
  BY <1>2, <1>3

\* A batch is over: what was dreamt reaches its end, compaction drops nothing
\* after that, and the position is at its end, also when that is a step back.
LEMMA BatchDone ==
  ASSUME TypeOK, HistoryInv, NEW d \in 0..entries, DreamtUpTo(d),
         NEW r \in Runs, run[r].phase = "edit",
         history' \in {history, Compacted(history)},
         dreamCursor' \in {Empty, Last(run[r].batch).cursor},
         dreamt' = dreamt \cup {e.id : e \in Range(run[r].batch)},
         UNCHANGED <<legacy, counter, entries>>,
         \A q \in Runs : run'[q].phase # "idle" => run'[q] = run[q]
  PROVE  /\ history' \in Seq(Entry) /\ HistoryInv' /\ ReadInv'
         /\ dreamCursor' \in Nat \cup {Empty}
<1>1. /\ entries \in Nat /\ Len(history) \in Nat /\ history \in Seq(Entry)
      /\ DOMAIN history = 1..Len(history) /\ LastDreamt \in Nat
      /\ Dropped = entries - Len(history) /\ Dropped \in Int
      /\ Backlog \in Nat /\ MaxHistory \in Nat /\ Backlog <= MaxHistory /\ Backlog >= 1
      /\ Empty \notin Nat
  BY Numbers
<1>2. d \in Nat /\ d <= entries /\ dreamt = 1..d /\ Dropped <= d /\ entries - d <= Backlog
  BY <1>1 DEF DreamtUpTo
<1>3. /\ Len(history) <= entries
      /\ legacy => Legacy > 0
      /\ entries > 0 => history # <<>>
      /\ counter \in {Empty, entries}
  BY DEF HistoryInv
<1>4. \A k \in 1..Len(history) : history[k].cursor = Dropped + k /\ history[k].id = Dropped + k
  BY <1>1 DEF HistoryInv
<1>5. PICK b : b = run[r].batch
  OBVIOUS
<1>6. b \in Seq(Entry) /\ Continues(b, d, entries)
  BY <1>5 DEF DreamtUpTo, TypeOK, DreamRun
<1>7. /\ Len(b) \in Nat /\ Len(b) >= 1 /\ DOMAIN b = 1..Len(b)
      /\ b[1].id \in Nat /\ b[1].id >= 1 /\ b[1].id <= d + 1
      /\ \A k \in 1..Len(b) : b[k].cursor = b[k].id /\ b[k].id = b[1].id + k - 1
  <2>1. Len(b) \in Nat /\ Len(b) >= 1 /\ DOMAIN b = 1..Len(b)
    BY <1>6, EmptySeq DEF Continues
  <2>2. b[1] \in Entry
    BY <1>6, <2>1
  <2> QED
    BY <1>6, <2>1, <2>2 DEF Continues, Entry
<1>8. PICK last : last = b[Len(b)].id
  OBVIOUS
<1>9. /\ last \in Nat /\ last <= entries /\ last = b[1].id + Len(b) - 1
      /\ Last(b).cursor = last
  <2>1. Len(b) \in 1..Len(b)
    BY <1>7
  <2>2. last <= entries
    BY <1>6, <1>8 DEF Continues
  <2> QED
    BY <1>7, <1>8, <2>1, <2>2 DEF Last
<1>10. PICK e \in Nat : e = IF d <= last THEN last ELSE d
  BY <1>2, <1>9
<1>11. e \in 0..entries /\ d <= e /\ last <= e
  BY <1>1, <1>2, <1>9, <1>10
<1>12. dreamt' = 1..e
  <2>1. {x.id : x \in Range(b)} = (b[1].id)..last
    <3>1. ASSUME NEW i \in (b[1].id)..last PROVE i \in {x.id : x \in Range(b)}
      <4>1. i - b[1].id + 1 \in 1..Len(b)
        BY <1>7, <1>9
      <4>2. b[i - b[1].id + 1].id = i
        BY <1>7, <4>1
      <4> QED
        BY <1>7, <4>1, <4>2 DEF Range
    <3>2. ASSUME NEW x \in Range(b) PROVE x.id \in (b[1].id)..last
      <4>1. PICK k \in 1..Len(b) : x = b[k]
        BY <1>7 DEF Range
      <4>2. x.id = b[1].id + k - 1
        BY <1>7, <4>1
      <4> QED
        BY <1>7, <1>9, <4>1, <4>2
    <3> QED
      BY <3>1, <3>2
  <2>2. dreamt' = (1..d) \cup ((b[1].id)..last)
    BY <1>2, <1>5, <2>1
  <2> QED
    BY SMTT(30), <1>2, <1>7, <1>9, <1>10, <2>2
<1>13. LastDreamt' <= e /\ dreamCursor' \in Nat \cup {Empty}
  <2>1. CASE dreamCursor' = Empty
    BY <1>11, <2>1 DEF LastDreamt
  <2>2. CASE dreamCursor' = last
    BY <1>1, <1>9, <1>11, <2>2 DEF LastDreamt
  <2> QED
    BY <1>5, <1>9, <2>1, <2>2
<1>14. /\ history' \in Seq(Entry)
       /\ Len(history') = Len(history) \/ (Len(history') = MaxHistory /\ MaxHistory < Len(history))
       /\ \A k \in 1..Len(history') : history'[k] = history[Len(history) - Len(history') + k]
  <2>1. CASE history' = history
    BY <1>1, <2>1
  <2>2. CASE history' = Compacted(history)
    <3>1. /\ history' \in Seq(Entry)
          /\ Len(history') = IF Len(history) <= MaxHistory THEN Len(history) ELSE MaxHistory
          /\ \A k \in 1..Len(history') : history'[k] = history[Len(history) - Len(history') + k]
      BY <2>2, CompactedIs
    <3>2. CASE Len(history) <= MaxHistory
      BY SMTT(30), <3>1, <3>2
    <3>3. CASE MaxHistory < Len(history)
      BY <1>1, <3>1, <3>3
    <3> QED
      BY <1>1, <3>2, <3>3
  <2> QED
    BY <2>1, <2>2
<1>15. PICK n : n = Len(history')
  OBVIOUS
<1>16. n \in Nat /\ n <= Len(history) /\ DOMAIN history' = 1..n
  BY <1>1, <1>14, <1>15
<1>17. n = Len(history) \/ n >= Backlog
  BY <1>1, <1>14, <1>15
<1>18. Dropped' = entries - n
  BY <1>15 DEF Dropped
<1>19. HistoryInv'
  <2>1. n <= entries
    BY <1>1, <1>3, <1>16
  <2>2. ASSUME NEW k \in DOMAIN history'
        PROVE  history'[k].cursor = Dropped' + k /\ history'[k].id = Dropped' + k
    <3>1. PICK j : j = Len(history) - n + k
      OBVIOUS
    <3>2. k \in 1..n /\ j \in 1..Len(history)
      BY <1>1, <1>16, <2>2, <3>1
    <3>3. history'[k] = history[j]
      BY <1>14, <1>15, <3>1, <3>2
    <3>4. history'[k].cursor = Dropped + j /\ history'[k].id = Dropped + j
      BY <1>4, <3>2, <3>3
    <3>5. Dropped + j = Dropped' + k
      BY SMTT(30), <1>1, <1>16, <1>18, <3>1, <3>2
    <3> QED
      BY <3>4, <3>5
  <2>3. entries > 0 => history' # <<>>
    <3>1. entries > 0 => Len(history) >= 1
      BY <1>1, <1>3, EmptySeq
    <3>2. entries > 0 => n >= 1
      BY <1>1, <1>16, <1>17, <3>1
    <3>3. history' = <<>> => n = 0
      BY <1>15
    <3> QED
      BY <3>2, <3>3
  <2> QED
    BY <1>3, <1>15, <2>1, <2>2, <2>3 DEF HistoryInv
<1>20. Dropped' <= e /\ entries - e <= Backlog
  <2>1. entries - e <= Backlog
    BY <1>1, <1>2, <1>11
  <2>2. CASE n = Len(history)
    BY <1>1, <1>2, <1>11, <1>18, <2>1, <2>2
  <2>3. CASE n >= Backlog
    BY <1>1, <1>2, <1>11, <1>16, <1>18, <2>1, <2>3
  <2> QED
    BY <1>17, <2>2, <2>3
<1>21. ASSUME NEW q \in Runs, run'[q].phase # "idle"
       PROVE  Continues(run'[q].batch, e, entries)
  <2>1. run'[q] = run[q] /\ Continues(run[q].batch, d, entries)
    BY <1>21 DEF DreamtUpTo
  <2>2. PICK c : c = run[q].batch
    OBVIOUS
  <2>3. c \in Seq(Entry) /\ Continues(c, d, entries)
    BY <2>1, <2>2 DEF TypeOK, DreamRun
  <2>4. c[1].id <= e + 1
    <3>1. 1 \in 1..Len(c)
      BY <2>3, EmptySeq DEF Continues
    <3>2. c[1] \in Entry
      BY <2>3, <3>1
    <3>3. c[1].id \in Nat
      BY <3>2 DEF Entry
    <3> QED
      BY <1>2, <1>11, <2>3, <3>3 DEF Continues
  <2> QED
    BY <2>1, <2>2, <2>3, <2>4 DEF Continues
<1>22. DreamtUpTo(e)'
  BY <1>12, <1>13, <1>20, <1>21 DEF DreamtUpTo
<1> QED
  BY <1>11, <1>13, <1>14, <1>19, <1>22 DEF ReadInv

\* The migration writes the old entries, which count as dreamt.
LEMMA Migrated ==
  ASSUME TypeOK, HistoryInv, Migrates,
         history' = LegacyEntries, entries' = Legacy, dreamt' = 1..Legacy,
         counter' \in {Empty, Legacy}, legacy' \in {legacy, FALSE},
         dreamCursor' \in {dreamCursor, Legacy},
         NEW d \in 0..entries, DreamtUpTo(d),
         \A r \in Runs : run'[r].phase # "idle" => run'[r] = run[r]
  PROVE  /\ history' \in Seq(Entry) /\ HistoryInv' /\ ReadInv'
         /\ counter' \in Nat \cup {Empty} /\ dreamCursor' \in Nat \cup {Empty}
<1>1. /\ Legacy \in Nat /\ Backlog \in Nat /\ Empty \notin Nat
      /\ history \in Seq(Entry) /\ entries \in Nat /\ LastDreamt \in Nat
  BY Numbers
<1>2. history = <<>> /\ Legacy > 0 /\ entries = 0
  BY <1>1 DEF Migrates, HistoryInv
<1>3. d = 0 /\ LastDreamt = 0
  BY <1>1, <1>2 DEF DreamtUpTo
<1>4. /\ LegacyEntries \in Seq(Entry) /\ Len(LegacyEntries) = Legacy
      /\ \A i \in 1..Legacy : LegacyEntries[i].cursor = i /\ LegacyEntries[i].id = i
  <2>1. \A i \in 1..Legacy : [cursor |-> i, id |-> i] \in Entry
    BY <1>1 DEF Entry
  <2> QED
    BY <1>1, <2>1 DEF LegacyEntries
<1>5. Dropped' = 0
  BY <1>1, <1>4 DEF Dropped
<1>6. HistoryInv'
  <2>1. history' # <<>>
    BY <1>1, <1>2, <1>4
  <2>2. DOMAIN history' = 1..Legacy
    BY <1>1, <1>4
  <2>3. \A k \in DOMAIN history' :
          history'[k].cursor = Dropped' + k /\ history'[k].id = Dropped' + k
    BY <1>1, <1>4, <1>5, <2>2
  <2>4. Len(history') <= entries'
    BY <1>1, <1>4
  <2> QED
    BY <1>2, <2>1, <2>3, <2>4 DEF HistoryInv
<1>7. LastDreamt' <= Legacy
  <2>1. CASE dreamCursor' = dreamCursor
    <3>1. LastDreamt' = LastDreamt
      BY <2>1 DEF LastDreamt
    <3> QED
      BY <1>1, <1>3, <3>1
  <2>2. CASE dreamCursor' = Legacy
    BY <1>1, <2>2 DEF LastDreamt
  <2> QED
    BY <2>1, <2>2
<1>8. ASSUME NEW r \in Runs PROVE run'[r].phase = "idle"
  <2> SUFFICES ASSUME run'[r].phase # "idle" PROVE FALSE
    OBVIOUS
  <2>1. PICK c : c = run[r].batch
    OBVIOUS
  <2>2. c \in Seq(Entry) /\ Continues(c, d, entries)
    BY <2>1 DEF TypeOK, DreamRun, DreamtUpTo
  <2>3. Len(c) \in 1..Len(c)
    BY <2>2, EmptySeq DEF Continues
  <2>4. c[Len(c)] \in Entry /\ c[Len(c)].id <= 0
    BY <1>2, <2>2, <2>3 DEF Continues
  <2> QED
    BY <2>4 DEF Entry
<1>9. DreamtUpTo(Legacy)'
  BY <1>1, <1>5, <1>7, <1>8 DEF DreamtUpTo
<1>10. counter' \in Nat \cup {Empty} /\ dreamCursor' \in Nat \cup {Empty}
  BY <1>1 DEF TypeOK
<1>11. Legacy \in 0..entries'
  BY <1>1
<1> QED
  BY <1>4, <1>6, <1>9, <1>10, <1>11 DEF ReadInv

-----------------------------------------------------------------------------
(***************************************************************************)
(* The steps                                                               *)
(***************************************************************************)

LEMMA MemInvInit ==
  ASSUME Init
  PROVE  MemInv
<1>1. Legacy \in Nat /\ MaxEntries \in Nat /\ MaxCrashes \in Nat /\ Backlog \in Nat
  BY ConstantsAssumption
<1>2. Idle \in DreamRun
  BY DEF Idle, DreamRun
<1>3. legacy \in BOOLEAN /\ (legacy => Legacy > 0)
  BY DEF Init
<1>4. TypeOK
  <2>1. history \in Seq(Entry) /\ {counter, dreamCursor} \subseteq Nat \cup {Empty}
    BY DEF Init
  <2>2. run \in [Runs -> DreamRun] /\ \A r \in Runs : run[r].phase = "idle" <=> run[r].batch = <<>>
    BY <1>2 DEF Init, Idle
  <2>3. /\ entries \in 0..MaxEntries /\ dreamt \subseteq 1..entries
        /\ crashes \in 0..MaxCrashes /\ up \in BOOLEAN
    <3>1. entries = 0 /\ dreamt = {} /\ crashes = 0 /\ up = FALSE
      BY DEF Init
    <3>2. entries \in 0..MaxEntries /\ crashes \in 0..MaxCrashes
      BY <1>1, <3>1
    <3>3. dreamt \subseteq 1..entries /\ up \in BOOLEAN
      BY <3>1
    <3> QED
      BY <3>2, <3>3
  <2> QED
    BY <1>3, <2>1, <2>2, <2>3 DEF TypeOK
<1>5. HistoryInv
  BY <1>3 DEF Init, HistoryInv
<1>6. DreamtUpTo(0)
  <2>1. LastDreamt = 0 /\ Dropped = 0 /\ dreamt = 1..0
    <3>1. entries = 0 /\ dreamt = {} /\ history = <<>> /\ dreamCursor = Empty
      BY DEF Init
    <3>2. 1..0 = {} /\ Len(history) = 0
      BY <3>1
    <3>3. LastDreamt = 0
      BY <3>1 DEF LastDreamt
    <3>4. Dropped = 0
      <4>1. entries = 0 /\ Len(history) = 0
        BY <3>1, <3>2
      <4>2. Dropped = 0 - 0
        BY <4>1, Zenon DEF Dropped
      <4> QED
        BY <4>2
    <3> QED
      BY <3>1, <3>2, <3>3, <3>4
  <2>2. \A r \in Runs : run[r].phase = "idle"
    BY DEF Init, Idle
  <2>3. entries - 0 <= Backlog
    BY <1>1 DEF Init
  <2> QED
    BY <2>1, <2>2, <2>3 DEF DreamtUpTo
<1> QED
  BY <1>4, <1>5, <1>6 DEF MemInv, ReadInv, Init

\* A run that is dead leaves nothing behind.
LEMMA DeadRuns ==
  ASSUME TypeOK, Dies
  PROVE  /\ run' \in [Runs -> DreamRun] /\ crashes' \in 0..MaxCrashes /\ up' \in BOOLEAN
         /\ \A r \in Runs : run'[r].phase = "idle" <=> run'[r].batch = <<>>
         /\ \A r \in Runs : run'[r].phase = "idle"
<1>1. run' = [r \in Runs |-> Idle] /\ Idle \in DreamRun
  BY DEF Dies, Idle, DreamRun
<1>2. crashes' \in 0..MaxCrashes /\ up' \in BOOLEAN
  <2>1. crashes \in 0..MaxCrashes /\ MaxCrashes \in Nat
    BY ConstantsAssumption DEF TypeOK
  <2>2. crashes < MaxCrashes /\ crashes' = crashes + 1 /\ up' = FALSE
    BY DEF Dies
  <2>3. crashes' \in 0..MaxCrashes
    BY <2>1, <2>2
  <2> QED
    BY <2>2, <2>3
<1> QED
  BY <1>1, <1>2 DEF Idle

\* One step of one run.
LEMMA RunStep ==
  ASSUME TypeOK, NEW r \in Runs, NEW x \in DreamRun, x.phase = "idle" <=> x.batch = <<>>,
         run' = [run EXCEPT ![r] = x]
  PROVE  /\ run' \in [Runs -> DreamRun] /\ run'[r] = x
         /\ \A q \in Runs : run'[q].phase = "idle" <=> run'[q].batch = <<>>
         /\ \A q \in Runs \ {r} : run'[q] = run[q]
<1>1. run \in [Runs -> DreamRun] /\ \A q \in Runs : run[q].phase = "idle" <=> run[q].batch = <<>>
  BY DEF TypeOK
<1>2. /\ run' \in [Runs -> DreamRun] /\ run'[r] = x
      /\ \A q \in Runs \ {r} : run'[q] = run[q]
  BY <1>1
<1> QED
  BY <1>1, <1>2

LEMMA MemInvNext ==
  ASSUME MemInv, [Next]_vars, "append" \notin Faults
  PROVE  MemInv'
<1>1. TypeOK /\ HistoryInv
  BY DEF MemInv
<1>2. PICK d \in 0..entries : DreamtUpTo(d)
  BY DEF MemInv, ReadInv
<1>3. /\ up \in BOOLEAN /\ legacy \in BOOLEAN /\ history \in Seq(Entry)
      /\ counter \in Nat \cup {Empty} /\ dreamCursor \in Nat \cup {Empty}
      /\ run \in [Runs -> DreamRun]
      /\ \A r \in Runs : run[r].phase = "idle" <=> run[r].batch = <<>>
      /\ entries \in 0..MaxEntries /\ dreamt \subseteq 1..entries
      /\ crashes \in 0..MaxCrashes
  BY <1>1 DEF TypeOK
<1>4. \A r \in Runs : run[r].phase # "idle" => Continues(run[r].batch, d, entries)
  BY <1>2 DEF DreamtUpTo
<1>5. /\ MaxEntries \in Nat /\ Legacy \in Nat /\ Legacy <= MaxEntries /\ entries \in Nat
  BY <1>1, Numbers
\* The type of dreamt follows from the rest.
<1>6. ReadInv' /\ entries' \in 0..MaxEntries => dreamt' \subseteq 1..entries'
  <2> SUFFICES ASSUME ReadInv', entries' \in 0..MaxEntries
               PROVE  dreamt' \subseteq 1..entries'
    OBVIOUS
  <2>1. PICK e \in 0..entries' : dreamt' = 1..e
    BY DEF ReadInv, DreamtUpTo
  <2>2. entries' \in Nat /\ e \in Nat /\ e <= entries'
    BY <1>5
  <2> QED
    BY <2>1, <2>2
<1>7. CASE Boot /\ Migrates
  <2>1. /\ history' = LegacyEntries /\ entries' = Legacy /\ dreamt' = 1..Legacy
        /\ counter' = Legacy /\ dreamCursor' = Legacy /\ legacy' = FALSE
        /\ up' = TRUE /\ run' = run /\ crashes' = crashes
    BY <1>7 DEF Boot
  <2>2. /\ history' \in Seq(Entry) /\ HistoryInv' /\ ReadInv'
        /\ counter' \in Nat \cup {Empty} /\ dreamCursor' \in Nat \cup {Empty}
    BY <1>1, <1>2, <1>7, <2>1, Migrated
  <2>3. entries' \in 0..MaxEntries
    BY <1>5, <2>1
  <2> QED
    BY <1>3, <1>6, <2>1, <2>2, <2>3 DEF MemInv, TypeOK
<1>8. CASE Boot /\ ~Migrates
  <2>1. /\ UNCHANGED <<files, entries, dreamt, run, crashes>> /\ up' = TRUE
    BY <1>8 DEF Boot
  <2>2. HistoryInv' /\ ReadInv'
    BY <1>1, <1>2, <1>4, <2>1, RunChanges
  <2> QED
    BY <1>3, <2>1, <2>2 DEF MemInv, TypeOK, files
<1>9. CASE AppendHistory
  <2>1. /\ MayAppend /\ history' = Append(history, NewEntry) /\ counter' = NewEntry.cursor
        /\ entries' = entries + 1
        /\ UNCHANGED <<up, legacy, dreamCursor, run, dreamt, crashes>>
    BY <1>9 DEF AppendHistory
  <2>2. history' \in Seq(Entry) /\ HistoryInv' /\ ReadInv'
    BY <1>1, <1>2, <2>1, EntryMore
  <2>3. entries' \in 0..MaxEntries
    BY <1>5, <2>1 DEF MayAppend
  <2>4. counter' \in Nat \cup {Empty}
    BY <2>2, <2>3 DEF HistoryInv
  <2> QED
    BY <1>3, <1>6, <2>1, <2>2, <2>3, <2>4 DEF MemInv, TypeOK
<1>10. CASE Crash
  <2>1. Dies /\ UNCHANGED <<files, entries, dreamt>>
    BY <1>10 DEF Crash
  <2>2. /\ run' \in [Runs -> DreamRun] /\ crashes' \in 0..MaxCrashes /\ up' \in BOOLEAN
        /\ \A r \in Runs : run'[r].phase = "idle" <=> run'[r].batch = <<>>
        /\ \A r \in Runs : run'[r].phase = "idle"
    BY <1>1, <2>1, DeadRuns
  <2>3. HistoryInv' /\ ReadInv'
    BY <1>1, <1>2, <2>1, <2>2, RunChanges
  <2> QED
    BY <1>3, <2>1, <2>2, <2>3 DEF MemInv, TypeOK, files
<1>11. CASE CrashInAppend
  <2>1. /\ MayAppend /\ Dies /\ history' = Append(history, NewEntry)
        /\ counter' = Empty /\ entries' = entries + 1
        /\ UNCHANGED <<legacy, dreamCursor, dreamt>>
    BY <1>11 DEF CrashInAppend
  <2>2. /\ run' \in [Runs -> DreamRun] /\ crashes' \in 0..MaxCrashes /\ up' \in BOOLEAN
        /\ \A r \in Runs : run'[r].phase = "idle" <=> run'[r].batch = <<>>
        /\ \A r \in Runs : run'[r].phase = "idle"
    BY <1>1, <2>1, DeadRuns
  <2>3. history' \in Seq(Entry) /\ HistoryInv' /\ ReadInv'
    BY <1>1, <1>2, <2>1, <2>2, EntryMore
  <2>4. entries' \in 0..MaxEntries
    BY <1>5, <2>1 DEF MayAppend
  <2> QED
    BY <1>3, <1>6, <2>1, <2>2, <2>3, <2>4 DEF MemInv, TypeOK
<1>12. CASE CrashInMigration
  <2>1. /\ Migrates /\ Dies /\ history' = LegacyEntries /\ counter' \in {Empty, Legacy}
        /\ entries' = Legacy /\ dreamt' = 1..Legacy /\ UNCHANGED <<legacy, dreamCursor>>
    BY <1>12 DEF CrashInMigration
  <2>2. /\ run' \in [Runs -> DreamRun] /\ crashes' \in 0..MaxCrashes /\ up' \in BOOLEAN
        /\ \A r \in Runs : run'[r].phase = "idle" <=> run'[r].batch = <<>>
        /\ \A r \in Runs : run'[r].phase = "idle"
    BY <1>1, <2>1, DeadRuns
  <2>3. /\ history' \in Seq(Entry) /\ HistoryInv' /\ ReadInv'
        /\ counter' \in Nat \cup {Empty} /\ dreamCursor' \in Nat \cup {Empty}
    BY <1>1, <1>2, <2>1, <2>2, Migrated
  <2>4. entries' \in 0..MaxEntries
    BY <1>5, <2>1
  <2> QED
    BY <1>3, <1>6, <2>1, <2>2, <2>3, <2>4 DEF MemInv, TypeOK
<1>13. ASSUME NEW r \in Runs, StartDream(r) PROVE MemInv'
  <2>1. /\ Batch # <<>> /\ run' = [run EXCEPT ![r] = [phase |-> "analyze", batch |-> Batch]]
        /\ UNCHANGED <<up, files, entries, dreamt, crashes>>
    BY <1>13 DEF StartDream
  <2>2. PICK x : x = [phase |-> "analyze", batch |-> Batch]
    OBVIOUS
  <2>3. Batch \in Seq(Entry) /\ Continues(Batch, d, entries)
    BY <1>1, <1>2, <2>1, BatchContinues
  <2>4. x \in DreamRun /\ (x.phase = "idle" <=> x.batch = <<>>) /\ x.batch = Batch
    BY <2>1, <2>2, <2>3 DEF DreamRun
  <2>5. /\ run' \in [Runs -> DreamRun] /\ run'[r] = x
        /\ \A q \in Runs : run'[q].phase = "idle" <=> run'[q].batch = <<>>
        /\ \A q \in Runs \ {r} : run'[q] = run[q]
    BY <1>1, <2>1, <2>2, <2>4, RunStep
  <2>6. HistoryInv' /\ ReadInv'
    BY <1>1, <1>2, <1>4, <2>1, <2>3, <2>4, <2>5, RunChanges
  <2> QED
    BY <1>3, <2>1, <2>5, <2>6 DEF MemInv, TypeOK, files
<1>14. ASSUME NEW r \in Runs, Analyzed(r) PROVE MemInv'
  <2>1. /\ run[r].phase = "analyze" /\ run' = [run EXCEPT ![r].phase = "edit"]
        /\ UNCHANGED <<up, files, entries, dreamt, crashes>>
    BY <1>14 DEF Analyzed
  <2>2. PICK x : x = [run[r] EXCEPT !.phase = "edit"]
    OBVIOUS
  <2>3. x \in DreamRun /\ x.phase = "edit" /\ x.batch = run[r].batch /\ run[r].batch # <<>>
    BY <1>3, <2>1, <2>2 DEF DreamRun
  <2>4. run' = [run EXCEPT ![r] = x]
    BY <1>3, <2>1, <2>2
  <2>5. /\ run' \in [Runs -> DreamRun] /\ run'[r] = x
        /\ \A q \in Runs : run'[q].phase = "idle" <=> run'[q].batch = <<>>
        /\ \A q \in Runs \ {r} : run'[q] = run[q]
    BY <1>1, <2>3, <2>4, RunStep
  <2>6. Continues(x.batch, d, entries)
    BY <1>4, <2>1, <2>3
  <2>7. HistoryInv' /\ ReadInv'
    BY <1>1, <1>2, <1>4, <2>1, <2>5, <2>6, RunChanges
  <2> QED
    BY <1>3, <2>1, <2>5, <2>7 DEF MemInv, TypeOK, files
<1>15. Idle \in DreamRun /\ Idle.phase = "idle" /\ Idle.batch = <<>>
  BY DEF Idle, DreamRun
<1>16. ASSUME NEW r \in Runs, AnalysisFails(r) PROVE MemInv'
  <2>1. /\ run' = [run EXCEPT ![r] = Idle]
        /\ UNCHANGED <<up, files, entries, dreamt, crashes>>
    BY <1>16 DEF AnalysisFails
  <2>2. /\ run' \in [Runs -> DreamRun] /\ run'[r] = Idle
        /\ \A q \in Runs : run'[q].phase = "idle" <=> run'[q].batch = <<>>
        /\ \A q \in Runs \ {r} : run'[q] = run[q]
    BY <1>1, <1>15, <2>1, RunStep
  <2>3. HistoryInv' /\ ReadInv'
    BY <1>1, <1>2, <1>4, <1>15, <2>1, <2>2, RunChanges
  <2> QED
    BY <1>3, <2>1, <2>2, <2>3 DEF MemInv, TypeOK, files
<1>17. ASSUME NEW r \in Runs, FinishDream(r) PROVE MemInv'
  <2>1. /\ run[r].phase = "edit" /\ dreamCursor' = Last(run[r].batch).cursor
        /\ history' = Compacted(history)
        /\ dreamt' = dreamt \cup {e.id : e \in Range(run[r].batch)}
        /\ run' = [run EXCEPT ![r] = Idle]
        /\ UNCHANGED <<up, legacy, counter, entries, crashes>>
    BY <1>17 DEF FinishDream
  <2>2. /\ run' \in [Runs -> DreamRun] /\ run'[r] = Idle
        /\ \A q \in Runs : run'[q].phase = "idle" <=> run'[q].batch = <<>>
        /\ \A q \in Runs \ {r} : run'[q] = run[q]
    BY <1>1, <1>15, <2>1, RunStep
  <2>3. \A q \in Runs : run'[q].phase # "idle" => run'[q] = run[q]
    BY <1>15, <2>2
  <2>4. /\ history' \in Seq(Entry) /\ HistoryInv' /\ ReadInv'
        /\ dreamCursor' \in Nat \cup {Empty}
    BY <1>1, <1>2, <2>1, <2>3, BatchDone
  <2> QED
    BY <1>3, <1>6, <2>1, <2>2, <2>4 DEF MemInv, TypeOK
<1>18. ASSUME NEW r \in Runs, CrashInFinish(r) PROVE MemInv'
  <2>1. /\ run[r].phase = "edit" /\ Dies /\ dreamCursor' = Empty
        /\ dreamt' = dreamt \cup {e.id : e \in Range(run[r].batch)}
        /\ UNCHANGED <<legacy, history, counter, entries>>
    BY <1>18 DEF CrashInFinish
  <2>2. /\ run' \in [Runs -> DreamRun] /\ crashes' \in 0..MaxCrashes /\ up' \in BOOLEAN
        /\ \A q \in Runs : run'[q].phase = "idle" <=> run'[q].batch = <<>>
        /\ \A q \in Runs : run'[q].phase = "idle"
    BY <1>1, <2>1, DeadRuns
  <2>3. /\ history' \in Seq(Entry) /\ HistoryInv' /\ ReadInv'
        /\ dreamCursor' \in Nat \cup {Empty}
    BY <1>1, <1>2, <2>1, <2>2, BatchDone
  <2> QED
    BY <1>3, <1>6, <2>1, <2>2, <2>3 DEF MemInv, TypeOK
<1>19. CASE UNCHANGED vars
  <2>1. UNCHANGED <<files, entries, dreamt>> /\ UNCHANGED <<up, run, crashes>>
    BY <1>19 DEF vars
  <2>2. HistoryInv' /\ ReadInv'
    BY <1>1, <1>2, <1>4, <2>1, RunChanges
  <2> QED
    BY <1>3, <2>1, <2>2 DEF MemInv, TypeOK, files
<1> QED
  BY <1>7, <1>8, <1>9, <1>10, <1>11, <1>12, <1>13, <1>14, <1>16, <1>17, <1>18, <1>19
  DEF Next, Quiescent

-----------------------------------------------------------------------------
(***************************************************************************)
(* The theorems                                                            *)
(***************************************************************************)

LEMMA MemInvAlways ==
  ASSUME "append" \notin Faults
  PROVE  Spec => []MemInv
<1>1. Init => MemInv
  BY MemInvInit
<1>2. MemInv /\ [Next]_vars => MemInv'
  BY MemInvNext
<1> QED
  BY <1>1, <1>2, PTL DEF Spec

\* Every variable keeps its type, the two runs' batches and the two cursor
\* files included.
THEOREM TypeCorrect ==
  ASSUME "append" \notin Faults
  PROVE  Spec => []TypeOK
<1>1. MemInv => TypeOK
  BY DEF MemInv
<1> QED
  BY <1>1, MemInvAlways, PTL

\* No entry is passed over by Dream, for every number of overlapping runs, all
\* sizes of the file and of a batch, and any number of crashes that do not come
\* between an entry and its number: an entry that was in no completed batch is
\* in the file, above the position.
THEOREM EveryEntryWaits ==
  ASSUME "append" \notin Faults
  PROVE  Spec => []NothingPassedOver
<1>1. MemInv => NothingPassedOver
  <2> SUFFICES ASSUME MemInv, NEW i \in (1..entries) \ dreamt
               PROVE  \E k \in DOMAIN history :
                        history[k].id = i /\ history[k].cursor > LastDreamt
    BY DEF NothingPassedOver
  <2>1. TypeOK /\ HistoryInv
    BY DEF MemInv
  <2>2. /\ entries \in Nat /\ Len(history) \in Nat /\ LastDreamt \in Nat
        /\ DOMAIN history = 1..Len(history)
        /\ Dropped = entries - Len(history) /\ Dropped \in Int
    BY <2>1, Numbers
  <2>3. PICK d \in 0..entries : dreamt = 1..d /\ LastDreamt <= d /\ Dropped <= d
    BY DEF MemInv, ReadInv, DreamtUpTo
  <2>4. i \in Nat /\ i > d /\ i <= entries
    BY <2>2, <2>3
  <2>5. PICK k : k = i - Dropped
    OBVIOUS
  <2>6. k \in 1..Len(history) /\ Dropped + k = i
    BY <2>2, <2>3, <2>4, <2>5
  <2>7. history[k].cursor = i /\ history[k].id = i
    BY <2>1, <2>2, <2>6 DEF HistoryInv
  <2> QED
    BY <2>2, <2>3, <2>4, <2>6, <2>7
<1> QED
  BY <1>1, MemInvAlways, PTL

=============================================================================
