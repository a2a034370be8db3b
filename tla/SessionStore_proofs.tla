------------------------- MODULE SessionStore_proofs -------------------------
(***************************************************************************)
(* Proofs about SessionStore, for all numbers of tasks, rows and uses: in  *)
(* the steady plans no row is lost, archived twice, hidden before it is    *)
(* archived or brought back, and a deletion beside a turn lasts.           *)
(***************************************************************************)
EXTENDS SessionStore, SequenceTheorems, FiniteSetTheorems,
        WellFoundedInduction, TLAPS

-----------------------------------------------------------------------------
(***************************************************************************)
(* Extreme elements                                                        *)
(***************************************************************************)

\* A non-empty set of numbers up to n has a greatest element.
LEMMA GreatestExists ==
  ASSUME NEW n \in Nat, NEW T, T \subseteq 0..n, T # {}
  PROVE  \E x \in T : \A y \in T : x >= y
<1> DEFINE above == {x..n : x \in T}
<1>1. IsWellFoundedOn(StrictSubsetOrdering(0..n), SUBSET (0..n))
  <2>1. IsFiniteSet(0..n)
    BY FS_Interval
  <2>2. FiniteSubsetsOf(0..n) = SUBSET (0..n)
    BY <2>1, FS_FiniteSubsetsOfFinite
  <2> QED
    BY <2>2, FS_StrictSubsetOrderingWellFounded
<1>2. above \subseteq SUBSET (0..n) /\ above # {}
  <2>1. PICK x \in T : TRUE
    OBVIOUS
  <2>2. (x..n) \in above
    OBVIOUS
  <2>3. ASSUME NEW y \in T PROVE y..n \in SUBSET (0..n)
    OBVIOUS
  <2> QED
    BY <2>2, <2>3
<1>3. PICK A \in above : \A B \in above : <<B, A>> \notin StrictSubsetOrdering(0..n)
  <2> HIDE DEF above
  <2> QED
    BY <1>1, <1>2, WFMin
<1>4. PICK x \in T : A = x..n
  OBVIOUS
<1>5. ASSUME NEW y \in T, ~ (x >= y) PROVE FALSE
  <2>1. (y..n) \in above /\ (y..n) \subseteq A /\ y..n # A
    BY <1>4, <1>5
  <2> QED
    BY <1>1, <1>2, <1>3, <2>1 DEF StrictSubsetOrdering
<1> QED
  BY <1>5

LEMMA MaxIsGreatest ==
  ASSUME NEW n \in Nat, NEW T, T \subseteq 0..n, T # {}
  PROVE  Max(T) \in T /\ \A y \in T : Max(T) >= y
BY GreatestExists DEF Max

LEMMA MinIsMember ==
  ASSUME NEW n \in Nat, NEW T, T \subseteq 0..n, T # {}
  PROVE  Min(T) \in T
<1> DEFINE U == {n - x : x \in T}
<1>1. U \subseteq 0..n /\ U # {}
  <2>1. ASSUME NEW x \in T PROVE n - x \in 0..n
    OBVIOUS
  <2>2. PICK x \in T : TRUE
    OBVIOUS
  <2>3. n - x \in U
    OBVIOUS
  <2> QED
    BY <2>1, <2>3
<1>2. PICK u \in U : \A y \in U : u >= y
  BY <1>1, GreatestExists
<1>3. PICK x \in T : u = n - x
  BY <1>2
<1>4. ASSUME NEW y \in T PROVE x <= y
  <2>1. n - y \in U
    OBVIOUS
  <2>2. n - x >= n - y
    BY <1>2, <1>3, <2>1
  <2>3. x \in Nat /\ y \in Nat
    OBVIOUS
  <2> QED
    BY <2>2, <2>3
<1>5. \E z \in T : \A y \in T : z <= y
  BY <1>4
<1> QED
  BY <1>5 DEF Min

-----------------------------------------------------------------------------
(***************************************************************************)
(* The lock                                                                *)
(***************************************************************************)

LEMMA RemoveAtProperties ==
  ASSUME NEW S, NEW s \in Seq(S), NEW k \in 1..Len(s)
  PROVE  /\ RemoveAt(s, k) \in Seq(S)
         /\ Len(RemoveAt(s, k)) = Len(s) - 1
         /\ \A i \in 1..(k - 1) : RemoveAt(s, k)[i] = s[i]
         /\ \A i \in k..(Len(s) - 1) : RemoveAt(s, k)[i] = s[i + 1]
<1> DEFINE left == SubSeq(s, 1, k - 1)
           right == SubSeq(s, k + 1, Len(s))
<1>1. k \in Nat /\ k > 0 /\ Len(s) \in Nat /\ k <= Len(s)
  BY LenProperties
<1>2. left \in Seq(S) /\ Len(left) = k - 1 /\ \A i \in 1..(k - 1) : left[i] = s[i]
  <2>1. \A i \in 1..(k - 1) : s[i] \in S
    BY <1>1, ElementOfSeq
  <2> QED
    BY <1>1, <2>1, SubSeqProperties
<1>3. /\ right \in Seq(S) /\ Len(right) = Len(s) - k
      /\ \A i \in 1..(Len(s) - k) : right[i] = s[k + i]
  <2>1. \A i \in (k + 1)..Len(s) : s[i] \in S
    BY <1>1, ElementOfSeq
  <2> QED
    BY <1>1, <2>1, SubSeqProperties
<1> HIDE DEF left, right
<1>4. /\ left \o right \in Seq(S) /\ Len(left \o right) = Len(left) + Len(right)
      /\ \A i \in 1..(Len(left) + Len(right)) :
           (left \o right)[i] = IF i <= Len(left) THEN left[i] ELSE right[i - Len(left)]
  BY <1>2, <1>3, ConcatProperties
<1>5. Len(left) = k - 1 /\ Len(left) + Len(right) = Len(s) - 1
  BY <1>1, <1>2, <1>3
<1>6. \A i \in 1..(k - 1) : (left \o right)[i] = s[i]
  BY <1>1, <1>2, <1>4, <1>5
<1>7. ASSUME NEW i \in k..(Len(s) - 1) PROVE (left \o right)[i] = s[i + 1]
  <2>1. (left \o right)[i] = right[i - (k - 1)] /\ i - (k - 1) \in 1..(Len(s) - k)
    BY <1>1, <1>4, <1>5
  <2>2. k + (i - (k - 1)) = i + 1
    BY <1>1
  <2> QED
    BY <1>3, <2>1, <2>2
<1>8. RemoveAt(s, k) = left \o right
  BY DEF RemoveAt, left, right
<1> QED
  BY <1>4, <1>5, <1>6, <1>7, <1>8

\* The lock when p gives it up, or its place before it.
Without(s, p) ==
  IF Contains(s, p) THEN RemoveAt(s, CHOOSE i \in DOMAIN s : s[i] = p) ELSE s

\* The others keep their places, the first and the last of them too.
LEMMA WithoutProperties ==
  ASSUME NEW S, NEW s \in Seq(S), NEW p, IsInjective(s)
  PROVE  /\ Without(s, p) \in Seq(S)
         /\ IsInjective(Without(s, p))
         /\ \A q : Contains(Without(s, p), q) <=> Contains(s, q) /\ q # p
         /\ \A q : s # <<>> /\ Head(s) = q /\ q # p =>
                     Without(s, p) # <<>> /\ Head(Without(s, p)) = q
         /\ \A q : s # <<>> /\ Last(s) = q /\ q # p =>
                     Without(s, p) # <<>> /\ Last(Without(s, p)) = q
<1>1. CASE ~Contains(s, p)
  BY <1>1 DEF Without
<1>2. CASE Contains(s, p)
  <2> DEFINE k == CHOOSE i \in DOMAIN s : s[i] = p
             r == RemoveAt(s, k)
  <2>1. DOMAIN s = 1..Len(s) /\ Len(s) \in Nat
    BY LenProperties
  <2>2. k \in 1..Len(s) /\ s[k] = p
    BY <1>2, <2>1 DEF Contains
  <2> HIDE DEF k
  <2>3. /\ r \in Seq(S) /\ Len(r) = Len(s) - 1
        /\ \A i \in 1..(k - 1) : r[i] = s[i]
        /\ \A i \in k..(Len(s) - 1) : r[i] = s[i + 1]
    BY <2>2, RemoveAtProperties
  <2>4. Without(s, p) = r
    BY <1>2 DEF Without, k
  <2> HIDE DEF r
  <2>5. DOMAIN r = 1..(Len(s) - 1)
    BY <2>3, LenProperties
  <2>6. \A i, j \in 1..Len(s) : s[i] = s[j] => i = j
    BY <2>1 DEF IsInjective
  <2>7. \A i \in 1..(Len(s) - 1) : /\ i < k => r[i] = s[i]
                                   /\ i >= k => r[i] = s[i + 1]
    BY <2>1, <2>2, <2>3
  <2>8. IsInjective(r)
    <3>1. SUFFICES ASSUME NEW a \in 1..(Len(s) - 1), NEW b \in 1..(Len(s) - 1), r[a] = r[b]
                   PROVE  a = b
      BY <2>5 DEF IsInjective
    <3>2. a \in Nat /\ b \in Nat /\ k \in Nat /\ a + 1 <= Len(s) /\ b + 1 <= Len(s)
      BY <2>1, <2>2
    <3>3. CASE a < k /\ b < k
      BY <2>6, <2>7, <2>1, <3>1, <3>2, <3>3
    <3>4. CASE a >= k /\ b >= k
      BY <2>6, <2>7, <2>1, <3>1, <3>2, <3>4
    <3>5. CASE a < k /\ b >= k
      <4>1. s[a] = s[b + 1]
        BY <2>7, <3>1, <3>5
      <4>2. a = b + 1
        BY <2>1, <2>6, <3>2, <4>1
      <4> QED
        BY <3>2, <3>5, <4>2
    <3>6. CASE a >= k /\ b < k
      <4>1. s[a + 1] = s[b]
        BY <2>7, <3>1, <3>6
      <4>2. b = a + 1
        BY <2>1, <2>6, <3>2, <4>1
      <4> QED
        BY <3>2, <3>6, <4>2
    <3> QED
      BY <3>2, <3>3, <3>4, <3>5, <3>6
  <2>9. ASSUME NEW q PROVE Contains(r, q) <=> Contains(s, q) /\ q # p
    <3>1. ASSUME NEW i \in 1..(Len(s) - 1), r[i] = q PROVE Contains(s, q) /\ q # p
      <4>1. CASE i < k
        BY <2>1, <2>2, <2>6, <2>7, <3>1, <4>1 DEF Contains
      <4>2. CASE i >= k
        <5>1. s[i + 1] = q /\ i + 1 \in 1..Len(s) /\ i + 1 # k
          BY <2>1, <2>2, <2>7, <3>1, <4>2
        <5> QED
          BY <2>2, <2>6, <5>1 DEF Contains
      <4> QED
        BY <2>1, <2>2, <4>1, <4>2
    <3>2. ASSUME NEW i \in 1..Len(s), s[i] = q, q # p PROVE Contains(r, q)
      <4>1. CASE i < k
        <5>1. i \in 1..(Len(s) - 1) /\ r[i] = q
          BY <2>1, <2>2, <2>7, <3>2, <4>1
        <5> QED
          BY <2>3, <5>1 DEF Contains
      <4>2. CASE i > k
        <5>1. i - 1 \in 1..(Len(s) - 1) /\ i - 1 >= k /\ (i - 1) + 1 = i
          BY <2>1, <2>2, <4>2
        <5>2. r[i - 1] = q
          BY <2>7, <3>2, <5>1
        <5> QED
          BY <2>3, <5>1, <5>2 DEF Contains
      <4> QED
        BY <2>1, <2>2, <3>2, <4>1, <4>2
    <3> QED
      BY <2>3, <3>1, <3>2 DEF Contains
  <2>10. ASSUME NEW q, Head(s) = q, q # p, s # <<>> PROVE r # <<>> /\ Head(r) = q
    <3>1. s[1] = q /\ k # 1
      BY <2>2, <2>10
    <3>2. 1 < k /\ 1 \in 1..(Len(s) - 1)
      BY <2>1, <2>2, <3>1
    <3>3. r[1] = q /\ 1 \in DOMAIN r
      BY <2>5, <2>7, <3>1, <3>2
    <3>4. r # <<>>
      BY <3>3
    <3> QED
      BY <3>3, <3>4, <2>3
  <2>11. ASSUME NEW q, Last(s) = q, q # p, s # <<>> PROVE r # <<>> /\ Last(r) = q
    <3>1. s[Len(s)] = q /\ k # Len(s)
      BY <2>2, <2>11 DEF Last
    <3>2. Len(s) - 1 \in 1..(Len(s) - 1) /\ Len(s) - 1 >= k /\ (Len(s) - 1) + 1 = Len(s)
      <4>1. Len(s) \in Nat /\ k \in 1..Len(s)
        BY <2>2, LenProperties
      <4>2. k # Len(s)
        BY <3>1
      <4> QED
        BY <4>1, <4>2
    <3>3. r[Len(s) - 1] = q /\ (Len(s) - 1) \in DOMAIN r
      BY <2>5, <2>7, <3>1, <3>2
    <3>4. r # <<>>
      BY <3>3
    <3> QED
      BY <2>3, <3>3, <3>4 DEF Last
  <2> QED
    BY <2>3, <2>4, <2>8, <2>9, <2>10, <2>11
<1> QED
  BY <1>1, <1>2

-----------------------------------------------------------------------------
(***************************************************************************)
(* Rows                                                                    *)
(***************************************************************************)

LEMMA ConcatSet ==
  ASSUME NEW S, NEW s \in Seq(S), NEW t \in Seq(S)
  PROVE  s \o t \in Seq(S) /\ ToSet(s \o t) = ToSet(s) \cup ToSet(t)
<1>1. /\ s \o t \in Seq(S) /\ Len(s \o t) = Len(s) + Len(t)
      /\ \A i \in 1..(Len(s) + Len(t)) : (s \o t)[i] = IF i <= Len(s) THEN s[i] ELSE t[i - Len(s)]
  BY ConcatProperties
<1>2. Len(s) \in Nat /\ Len(t) \in Nat
  BY LenProperties
<1>3. /\ \A i \in 1..Len(s) : i \in 1..(Len(s) + Len(t)) /\ (s \o t)[i] = s[i]
      /\ \A i \in 1..Len(t) :
           Len(s) + i \in 1..(Len(s) + Len(t)) /\ (s \o t)[Len(s) + i] = t[i]
  <2>1. ASSUME NEW i \in 1..Len(s) PROVE i \in 1..(Len(s) + Len(t)) /\ i <= Len(s)
    BY <1>2
  <2>2. ASSUME NEW i \in 1..Len(t)
        PROVE  /\ Len(s) + i \in 1..(Len(s) + Len(t)) /\ ~(Len(s) + i <= Len(s))
               /\ Len(s) + i - Len(s) = i
    BY <1>2
  <2> QED
    BY <1>1, <2>1, <2>2
<1>4. ASSUME NEW i \in 1..(Len(s) + Len(t))
      PROVE  (s \o t)[i] \in ToSet(s) \cup ToSet(t)
  <2>1. CASE i <= Len(s)
    <3>1. i \in 1..Len(s)
      BY <1>2, <2>1
    <3> QED
      BY <1>3, <3>1 DEF ToSet
  <2>2. CASE i > Len(s)
    <3>1. i - Len(s) \in 1..Len(t) /\ Len(s) + (i - Len(s)) = i
      BY <1>2, <2>2
    <3>2. (s \o t)[i] = t[i - Len(s)]
      BY <1>3, <3>1
    <3> QED
      BY <3>1, <3>2 DEF ToSet
  <2> QED
    BY <1>2, <2>1, <2>2
<1>5. /\ DOMAIN (s \o t) = 1..(Len(s) + Len(t)) /\ DOMAIN s = 1..Len(s) /\ DOMAIN t = 1..Len(t)
  BY <1>1, LenProperties
<1>6. ToSet(s \o t) \subseteq ToSet(s) \cup ToSet(t)
  BY <1>4, <1>5 DEF ToSet
<1>7. ToSet(s) \cup ToSet(t) \subseteq ToSet(s \o t)
  BY <1>3, <1>5 DEF ToSet
<1> QED
  BY <1>1, <1>6, <1>7

LEMMA EmptyInjective == IsInjective(<<>>) /\ ToSet(<<>>) = {}
BY DEF IsInjective, ToSet

LEMMA ConcatInjective ==
  ASSUME NEW S, NEW s \in Seq(S), NEW t \in Seq(S), IsInjective(s), IsInjective(t),
         ToSet(s) \cap ToSet(t) = {}
  PROVE  IsInjective(s \o t)
<1> DEFINE u == s \o t
<1>1. /\ u \in Seq(S) /\ Len(u) = Len(s) + Len(t)
      /\ \A i \in 1..(Len(s) + Len(t)) : u[i] = IF i <= Len(s) THEN s[i] ELSE t[i - Len(s)]
  BY ConcatProperties
<1>2. Len(s) \in Nat /\ Len(t) \in Nat
  BY LenProperties
<1>3. DOMAIN u = 1..(Len(s) + Len(t)) /\ DOMAIN s = 1..Len(s) /\ DOMAIN t = 1..Len(t)
  BY <1>1, LenProperties
<1> HIDE DEF u
<1>4. ASSUME NEW i \in 1..(Len(s) + Len(t))
      PROVE  \/ i \in 1..Len(s) /\ u[i] = s[i] /\ u[i] \in ToSet(s)
             \/ i - Len(s) \in 1..Len(t) /\ u[i] = t[i - Len(s)] /\ u[i] \in ToSet(t)
  <2>1. CASE i <= Len(s)
    <3>1. i \in 1..Len(s)
      BY <1>2, <2>1
    <3>2. u[i] = s[i]
      BY <1>1, <2>1
    <3> QED
      BY <1>3, <3>1, <3>2 DEF ToSet
  <2>2. CASE ~(i <= Len(s))
    <3>1. i - Len(s) \in 1..Len(t)
      BY <1>2, <2>2
    <3>2. u[i] = t[i - Len(s)]
      BY <1>1, <2>2
    <3> QED
      BY <1>3, <3>1, <3>2 DEF ToSet
  <2> QED
    BY <2>1, <2>2
<1>5. \A i, j \in 1..Len(s) : s[i] = s[j] => i = j
  BY <1>3 DEF IsInjective
<1>6. \A i, j \in 1..Len(t) : t[i] = t[j] => i = j
  BY <1>3 DEF IsInjective
<1>7. SUFFICES ASSUME NEW a \in 1..(Len(s) + Len(t)), NEW b \in 1..(Len(s) + Len(t)), u[a] = u[b]
               PROVE  a = b
  BY <1>3 DEF IsInjective, u
<1>8. CASE a \in 1..Len(s) /\ u[a] = s[a] /\ u[a] \in ToSet(s)
  <2>1. b \in 1..Len(s) /\ u[b] = s[b]
    BY <1>4, <1>7, <1>8
  <2> QED
    BY <1>5, <1>7, <1>8, <2>1
<1>9. CASE a - Len(s) \in 1..Len(t) /\ u[a] = t[a - Len(s)] /\ u[a] \in ToSet(t)
  <2>1. b - Len(s) \in 1..Len(t) /\ u[b] = t[b - Len(s)]
    BY <1>4, <1>7, <1>9
  <2>2. a - Len(s) = b - Len(s)
    BY <1>6, <1>7, <1>9, <2>1
  <2>3. a \in Nat /\ b \in Nat
    OBVIOUS
  <2> QED
    BY <1>2, <2>2, <2>3
<1> QED
  BY <1>4, <1>8, <1>9

LEMMA SubSeqRows ==
  ASSUME NEW S, NEW s \in Seq(S), NEW a \in Nat \ {0}, NEW b \in Nat, b <= Len(s)
  PROVE  /\ SubSeq(s, a, b) \in Seq(S)
         /\ a <= b + 1 => Len(SubSeq(s, a, b)) = b - a + 1
         /\ \A i \in 1..(b - a + 1) : SubSeq(s, a, b)[i] = s[a + i - 1]
         /\ ToSet(SubSeq(s, a, b)) = {s[i] : i \in a..b}
<1> DEFINE t == SubSeq(s, a, b)
<1>1. \A i \in a..b : s[i] \in S
  BY ElementOfSeq, LenProperties
<1>2. /\ t \in Seq(S) /\ Len(t) = IF a <= b THEN b - a + 1 ELSE 0
      /\ \A i \in 1..(b - a + 1) : t[i] = s[a + i - 1]
  BY <1>1, SubSeqProperties
<1> HIDE DEF t
<1>3. a <= b + 1 => Len(t) = b - a + 1
  BY <1>2
<1>4. DOMAIN t = 1..(b - a + 1)
  <2>1. DOMAIN t = 1..Len(t)
    BY <1>2, LenProperties
  <2>2. CASE a <= b
    BY <1>2, <2>1, <2>2
  <2>3. CASE a > b
    <3>1. 1..Len(t) = {} /\ 1..(b - a + 1) = {}
      BY <1>2, <2>3
    <3> QED
      BY <2>1, <3>1
  <2> QED
    BY <2>2, <2>3
<1>5. \A i \in a..b : i - a + 1 \in 1..(b - a + 1) /\ a + (i - a + 1) - 1 = i
  OBVIOUS
<1>6. \A i \in 1..(b - a + 1) : a + i - 1 \in a..b
  OBVIOUS
<1>7. ToSet(t) \subseteq {s[i] : i \in a..b}
  BY <1>2, <1>4, <1>6 DEF ToSet
<1>8. {s[i] : i \in a..b} \subseteq ToSet(t)
  <2>1. ASSUME NEW i \in a..b PROVE s[i] \in ToSet(t)
    <3>1. t[i - a + 1] = s[i]
      BY <1>2, <1>5
    <3> QED
      BY <1>4, <1>5, <3>1 DEF ToSet
  <2> QED
    BY <2>1
<1> QED
  BY <1>2, <1>3, <1>7, <1>8 DEF t

\* What a trim or a compaction keeps starts with the session or with a turn.
LEMMA RecentProperties ==
  ASSUME NEW rows \in Seq(Row), rows # <<>>
  PROVE  \E k \in 1..Len(rows) :
           /\ Recent(rows) = SubSeq(rows, k, Len(rows))
           /\ Older(rows) = SubSeq(rows, 1, k - 1)
           /\ k = 1 \/ rows[k].role = "user"
<1>1. Len(rows) \in Nat /\ Len(rows) >= 1 /\ DOMAIN rows = 1..Len(rows)
  BY LenProperties, EmptySeq
<1>2. Keep \in Nat
  BY ConstantsAssumption
<1>3. \E k \in 1..Len(rows) : /\ Recent(rows) = SubSeq(rows, k, Len(rows))
                              /\ k = 1 \/ rows[k].role = "user"
  <2>1. CASE Len(rows) <= Keep
    <3>1. Recent(rows) = SubSeq(rows, 1, Len(rows))
      BY <2>1, SubSeqFull DEF Recent
    <3>2. 1 \in 1..Len(rows)
      BY <1>1
    <3> QED
      BY <3>1, <3>2
  <2>2. CASE ~(Len(rows) <= Keep)
    <3> DEFINE starts == {i \in DOMAIN rows : i = 1 \/ rows[i].role = "user"}
               T == {i \in starts : i <= Len(rows) - Keep + 1}
    <3>1. T \subseteq 0..Len(rows)
      BY <1>1
    <3>2. 1 \in T
      BY <1>1, <1>2, <2>2
    <3>3. Max(T) \in T
      BY <1>1, <3>1, <3>2, MaxIsGreatest
    <3>4. Recent(rows) = SubSeq(rows, Max(T), Len(rows))
      BY <2>2 DEF Recent
    <3> QED
      BY <1>1, <3>3, <3>4
  <2> QED
    BY <2>1, <2>2
<1>4. PICK k \in 1..Len(rows) : /\ Recent(rows) = SubSeq(rows, k, Len(rows))
                                /\ k = 1 \/ rows[k].role = "user"
  BY <1>3
<1>5. Len(SubSeq(rows, k, Len(rows))) = Len(rows) - k + 1
  BY <1>1, SubSeqRows
<1>6. Len(rows) - (Len(rows) - k + 1) = k - 1
  BY <1>1
<1>7. Older(rows) = SubSeq(rows, 1, k - 1)
  BY <1>4, <1>5, <1>6 DEF Older
<1> QED
  BY <1>4, <1>7

-----------------------------------------------------------------------------
(***************************************************************************)
(* The session file, the archive and what was deleted                      *)
(***************************************************************************)

\* The rows are numbered upwards; those before the cursor, and only those, are
\* in the archive, which has none twice; the visible ones begin with a turn;
\* nothing deleted is among them.
Good(rows, last, hist, del, nx) ==
  /\ rows \in Seq(Row) /\ last \in Nat /\ hist \in Seq(Row) /\ del \subseteq Row
  /\ \A i, j \in 1..Len(rows) : i < j => rows[i].n < rows[j].n
  /\ \A i \in 1..Len(rows) : i <= rows[i].n /\ rows[i].n < nx
  /\ rows # <<>> => last < Len(rows) /\ rows[last + 1].role = "user"
  /\ rows = <<>> => last = 0
  /\ \A i \in 1..Len(rows) : rows[i] \in ToSet(hist) <=> i <= last
  /\ IsInjective(hist)
  /\ \A r \in ToSet(hist) \cup del : r.n < nx
  /\ \A i \in 1..Len(rows) : rows[i] \notin del

\* What a task archives next is not in the archive yet.
Fresh(chunk, hist, nx) ==
  /\ chunk \in Seq(Row) /\ IsInjective(chunk)
  /\ \A r \in ToSet(chunk) : r \notin ToSet(hist) /\ r.n < nx

LEMMA RowFields == \A r \in Row : r.role \in {"user", "assistant"} /\ r.n \in 1..MaxRows
BY DEF Row

LEMMA GoodLength ==
  ASSUME NEW rows, NEW last, NEW hist, NEW del, NEW nx \in 1..(MaxRows + 1),
         Good(rows, last, hist, del, nx)
  PROVE  Len(rows) \in Nat /\ Len(rows) < nx /\ last <= Len(rows) /\ last \in 0..MaxRows
<1>1. /\ rows \in Seq(Row) /\ last \in Nat
      /\ \A i \in 1..Len(rows) : i <= rows[i].n /\ rows[i].n < nx
      /\ rows # <<>> => last < Len(rows)
      /\ rows = <<>> => last = 0
  BY DEF Good
<1>2. Len(rows) \in Nat /\ MaxRows \in Nat
  BY <1>1, LenProperties, ConstantsAssumption
<1>3. CASE rows = <<>>
  <2>1. Len(rows) = 0
    BY <1>3
  <2> QED
    BY <1>1, <1>2, <1>3, <2>1
<1>4. CASE rows # <<>>
  <2>1. Len(rows) \in 1..Len(rows)
    BY <1>1, <1>4, EmptySeq
  <2>2. rows[Len(rows)].n \in Nat
    BY <1>1, <2>1, RowFields, ElementOfSeq
  <2>3. Len(rows) <= rows[Len(rows)].n /\ rows[Len(rows)].n < nx
    BY <1>1, <2>1
  <2>4. Len(rows) < nx
    BY <1>2, <2>2, <2>3
  <2> QED
    BY <1>1, <1>2, <1>4, <2>4
<1> QED
  BY <1>3, <1>4

\* Any part of the rows that is not in the archive may be archived.
LEMMA PartFresh ==
  ASSUME NEW rows, NEW last, NEW hist, NEW del, NEW nx,
         Good(rows, last, hist, del, nx), NEW e \in Nat, e <= Len(rows)
  PROVE  Fresh(SubSeq(rows, last + 1, e), hist, nx)
<1> DEFINE t == SubSeq(rows, last + 1, e)
<1>1. /\ rows \in Seq(Row) /\ last \in Nat
      /\ \A i, j \in 1..Len(rows) : i < j => rows[i].n < rows[j].n
      /\ \A i \in 1..Len(rows) : i <= rows[i].n /\ rows[i].n < nx
      /\ \A i \in 1..Len(rows) : rows[i] \in ToSet(hist) <=> i <= last
  BY DEF Good
<1>2. Len(rows) \in Nat /\ last + 1 \in Nat \ {0}
  BY <1>1, LenProperties
<1>3. /\ t \in Seq(Row)
      /\ last + 1 <= e + 1 => Len(t) = e - (last + 1) + 1
      /\ \A i \in 1..(e - (last + 1) + 1) : t[i] = rows[(last + 1) + i - 1]
      /\ ToSet(t) = {rows[i] : i \in (last + 1)..e}
  BY <1>1, <1>2, SubSeqRows
<1>4. ASSUME NEW i \in (last + 1)..e
      PROVE  rows[i] \notin ToSet(hist) /\ rows[i].n < nx
  <2>1. i \in 1..Len(rows) /\ ~(i <= last)
    BY <1>1, <1>2
  <2> QED
    BY <1>1, <2>1
<1>5. CASE last <= e
  <2>1. DOMAIN t = 1..(e - last)
    <3>1. Len(t) = e - last
      BY <1>1, <1>3, <1>5
    <3> QED
      BY <1>3, <3>1, LenProperties
  <2>2. ASSUME NEW a \in 1..(e - last), NEW b \in 1..(e - last), t[a] = t[b] PROVE a = b
    <3>1. /\ a \in 1..(e - (last + 1) + 1) /\ (last + 1) + a - 1 = last + a
          /\ b \in 1..(e - (last + 1) + 1) /\ (last + 1) + b - 1 = last + b
      BY <1>1
    <3>2. t[a] = rows[last + a] /\ t[b] = rows[last + b]
      BY <1>3, <3>1
    <3>3. last + a \in 1..Len(rows) /\ last + b \in 1..Len(rows)
      BY <1>1, <1>2
    <3>4. rows[last + a].n \in Nat /\ rows[last + a].n = rows[last + b].n
      BY <1>1, <2>2, <3>2, <3>3, RowFields, ElementOfSeq
    <3>5. ~(last + a < last + b) /\ ~(last + b < last + a)
      BY SMTT(30), <1>1, <3>3, <3>4
    <3> QED
      BY <1>1, <3>5
  <2> QED
    BY <1>3, <1>4, <2>1, <2>2 DEF Fresh, IsInjective
<1>6. CASE e < last
  <2>1. t = <<>>
    BY <1>1, <1>6, SubSeqEmpty
  <2>2. IsInjective(t)
    BY <2>1, EmptyInjective
  <2> QED
    BY <1>3, <1>4, <2>2 DEF Fresh
<1> QED
  BY <1>1, <1>5, <1>6

\* The archive with a chunk that was fresh.
LEMMA ArchiveGrows ==
  ASSUME NEW hist \in Seq(Row), NEW chunk, NEW nx, IsInjective(hist), Fresh(chunk, hist, nx),
         \A r \in ToSet(hist) : r.n < nx
  PROVE  /\ hist \o chunk \in Seq(Row) /\ IsInjective(hist \o chunk)
         /\ ToSet(hist \o chunk) = ToSet(hist) \cup ToSet(chunk)
         /\ \A r \in ToSet(hist \o chunk) : r.n < nx
<1>1. chunk \in Seq(Row) /\ IsInjective(chunk) /\ ToSet(hist) \cap ToSet(chunk) = {}
  BY DEF Fresh
<1>2. hist \o chunk \in Seq(Row) /\ ToSet(hist \o chunk) = ToSet(hist) \cup ToSet(chunk)
  BY <1>1, ConcatSet
<1>3. IsInjective(hist \o chunk)
  BY <1>1, ConcatInjective
<1> QED
  BY <1>2, <1>3 DEF Fresh

\* A turn's next row.
LEMMA GoodAppend ==
  ASSUME NEW rows, NEW last, NEW hist, NEW del, NEW nx \in 1..MaxRows,
         Good(rows, last, hist, del, nx), NEW role \in {"user", "assistant"},
         rows = <<>> => role = "user"
  PROVE  LET t == Append(rows, [role |-> role, n |-> nx]) IN
         /\ Good(t, last, hist, del, nx + 1)
         /\ ToSet(t) = ToSet(rows) \cup {[role |-> role, n |-> nx]}
         /\ Len(t) = Len(rows) + 1 /\ \A i \in 1..Len(rows) : t[i] = rows[i]
<1> DEFINE row == [role |-> role, n |-> nx]
           t == Append(rows, row)
<1>1. /\ rows \in Seq(Row) /\ last \in Nat /\ hist \in Seq(Row) /\ del \subseteq Row
      /\ IsInjective(hist)
  BY DEF Good
<1>2. /\ \A i, j \in 1..Len(rows) : i < j => rows[i].n < rows[j].n
      /\ \A i \in 1..Len(rows) : i <= rows[i].n /\ rows[i].n < nx
  BY DEF Good
<1>3. /\ rows # <<>> => last < Len(rows) /\ rows[last + 1].role = "user"
      /\ rows = <<>> => last = 0
  BY DEF Good
<1>4. /\ \A i \in 1..Len(rows) : rows[i] \in ToSet(hist) <=> i <= last
      /\ \A r \in ToSet(hist) \cup del : r.n < nx
      /\ \A i \in 1..Len(rows) : rows[i] \notin del
  BY DEF Good
<1>5. Len(rows) \in Nat /\ DOMAIN rows = 1..Len(rows) /\ MaxRows \in Nat
  BY <1>1, LenProperties, ConstantsAssumption
<1>6. row \in Row /\ row.n = nx /\ row.role = role
  BY DEF Row
<1> HIDE DEF row
<1>7. t \in Seq(Row) /\ Len(t) = Len(rows) + 1
  BY <1>1, <1>6, AppendProperties
<1>8. \A i \in 1..Len(rows) : t[i] = rows[i]
  BY <1>1, <1>5, <1>6, AppendProperties
<1>9. t[Len(rows) + 1] = row
  BY <1>1, <1>6, AppendProperties
<1> HIDE DEF t
<1>10. nx \in 1..(MaxRows + 1)
  BY <1>5
<1>11. Len(rows) < nx /\ last <= Len(rows)
  BY <1>10, GoodLength
<1>12. \A i \in 1..Len(t) : i \in 1..Len(rows) \/ i = Len(rows) + 1
  BY <1>5, <1>7
<1>13. \A i \in 1..Len(rows) : rows[i].n \in Nat
  BY <1>1, RowFields, ElementOfSeq
<1>14. ASSUME NEW i \in 1..Len(t), NEW j \in 1..Len(t), i < j PROVE t[i].n < t[j].n
  <2>1. i \in 1..Len(rows)
    BY <1>5, <1>7, <1>14
  <2>2. CASE j \in 1..Len(rows)
    BY <1>2, <1>8, <1>14, <2>1, <2>2
  <2>3. CASE j = Len(rows) + 1
    BY <1>2, <1>6, <1>8, <1>9, <2>1, <2>3
  <2> QED
    BY <1>12, <2>2, <2>3
<1>15. ASSUME NEW i \in 1..Len(t) PROVE i <= t[i].n /\ t[i].n < nx + 1
  <2>1. CASE i \in 1..Len(rows)
    <3>1. t[i].n \in Nat /\ i <= t[i].n /\ t[i].n < nx
      BY <1>2, <1>8, <1>13, <2>1
    <3> QED
      BY <3>1
  <2>2. CASE i = Len(rows) + 1
    BY <1>5, <1>6, <1>9, <1>11, <2>2
  <2> QED
    BY <1>12, <2>1, <2>2
<1>16. t # <<>> /\ last < Len(t) /\ t[last + 1].role = "user"
  <2>1. t # <<>>
    BY <1>5, <1>7, EmptySeq
  <2>2. CASE rows = <<>>
    <3>1. Len(rows) = 0 /\ last = 0
      BY <1>3, <2>2
    <3> QED
      BY <1>6, <1>7, <1>9, <2>1, <2>2, <3>1
  <2>3. CASE rows # <<>>
    <3>1. last < Len(rows) /\ last + 1 \in 1..Len(rows)
      BY <1>1, <1>3, <1>5, <2>3
    <3>2. t[last + 1] = rows[last + 1]
      BY <1>8, <3>1
    <3>3. last < Len(t)
      BY <1>1, <1>5, <1>7, <3>1
    <3> QED
      BY <1>3, <2>1, <2>3, <3>2, <3>3
  <2> QED
    BY <2>2, <2>3
<1>17. row \notin ToSet(hist) \cup del
  BY <1>4, <1>6
<1>18. ASSUME NEW i \in 1..Len(t) PROVE (t[i] \in ToSet(hist) <=> i <= last) /\ t[i] \notin del
  <2>1. CASE i \in 1..Len(rows)
    BY <1>4, <1>8, <2>1
  <2>2. CASE i = Len(rows) + 1
    BY <1>1, <1>5, <1>9, <1>11, <1>17, <2>2
  <2> QED
    BY <1>12, <2>1, <2>2
<1>19. ASSUME NEW r \in ToSet(hist) \cup del PROVE r.n < nx + 1
  <2>1. r \in Row /\ r.n < nx
    <3>1. ToSet(hist) \subseteq Row
      BY <1>1, LenProperties, ElementOfSeq DEF ToSet
    <3> QED
      BY <1>1, <1>4, <3>1
  <2> QED
    BY <2>1, RowFields
<1>20. ToSet(t) = ToSet(rows) \cup {row}
  <2>1. DOMAIN t = 1..(Len(rows) + 1)
    BY <1>7, LenProperties
  <2>2. \A i \in 1..(Len(rows) + 1) : i \in 1..Len(rows) \/ i = Len(rows) + 1
    BY <1>5
  <2>3. Len(rows) + 1 \in 1..(Len(rows) + 1) /\ \A i \in 1..Len(rows) : i \in 1..(Len(rows) + 1)
    BY <1>5
  <2> QED
    BY <1>5, <1>8, <1>9, <2>1, <2>2, <2>3 DEF ToSet
<1>21. Good(t, last, hist, del, nx + 1)
  BY <1>1, <1>7, <1>14, <1>15, <1>16, <1>18, <1>19 DEF Good
<1> QED
  BY <1>7, <1>8, <1>20, <1>21 DEF t, row

\* A consolidation's chunk is archived, and the cursor moves behind it.
LEMMA GoodArchive ==
  ASSUME NEW rows, NEW last, NEW hist, NEW del, NEW nx,
         Good(rows, last, hist, del, nx), NEW e \in Nat, last < e, e < Len(rows),
         rows[e + 1].role = "user"
  PROVE  LET more == hist \o SubSeq(rows, last + 1, e) IN
         Good(rows, e, more, del, nx) /\ ToSet(hist) \subseteq ToSet(more)
<1> DEFINE chunk == SubSeq(rows, last + 1, e)
           more == hist \o chunk
<1>1. /\ rows \in Seq(Row) /\ last \in Nat /\ hist \in Seq(Row) /\ del \subseteq Row
      /\ \A i, j \in 1..Len(rows) : i < j => rows[i].n < rows[j].n
      /\ \A i \in 1..Len(rows) : i <= rows[i].n /\ rows[i].n < nx
      /\ IsInjective(hist)
      /\ \A i \in 1..Len(rows) : rows[i] \notin del
  BY DEF Good
<1>2. /\ \A i \in 1..Len(rows) : rows[i] \in ToSet(hist) <=> i <= last
      /\ \A r \in ToSet(hist) : r.n < nx
      /\ \A r \in del : r.n < nx
  BY DEF Good
<1>3. Len(rows) \in Nat
  BY <1>1, LenProperties
<1>4. Fresh(chunk, hist, nx)
  BY <1>3, PartFresh
<1>5. last + 1 \in Nat \ {0} /\ e <= Len(rows)
  BY <1>1, <1>3
<1>6. ToSet(chunk) = {rows[i] : i \in (last + 1)..e}
  BY <1>1, <1>5, SubSeqRows
<1> HIDE DEF chunk
<1>7. /\ more \in Seq(Row) /\ IsInjective(more)
      /\ ToSet(more) = ToSet(hist) \cup ToSet(chunk)
      /\ \A r \in ToSet(more) : r.n < nx
  BY <1>1, <1>2, <1>4, ArchiveGrows
<1> HIDE DEF more
<1>8. ASSUME NEW i \in 1..Len(rows) PROVE rows[i] \in ToSet(more) <=> i <= e
  <2>1. CASE i <= e
    <3>1. CASE i <= last
      BY <1>2, <1>7, <2>1, <3>1
    <3>2. CASE ~(i <= last)
      <4>1. i \in (last + 1)..e
        BY <1>1, <2>1, <3>2
      <4> QED
        BY <1>6, <1>7, <2>1, <4>1
    <3> QED
      BY <3>1, <3>2
  <2>2. CASE ~(i <= e)
    <3>1. ~(i <= last)
      BY <1>1, <2>2
    <3>2. rows[i] \notin ToSet(hist)
      BY <1>2, <3>1
    <3>3. ASSUME NEW k \in (last + 1)..e PROVE rows[k] # rows[i]
      <4>1. k \in 1..Len(rows) /\ k < i
        BY <1>1, <1>3, <2>2
      <4>2. rows[k].n < rows[i].n /\ rows[k].n \in Nat
        BY <1>1, <4>1, RowFields, ElementOfSeq
      <4> QED
        BY <4>2
    <3> QED
      BY <1>6, <1>7, <2>2, <3>2, <3>3
  <2> QED
    BY <2>1, <2>2
<1>9. rows # <<>>
  BY <1>1, <1>3
<1>10. Good(rows, e, more, del, nx)
  BY <1>1, <1>2, <1>7, <1>8, <1>9 DEF Good
<1> QED
  BY <1>7, <1>10 DEF more, chunk

\* A trim to the rows from k on, where a turn begins.
LEMMA GoodTrim ==
  ASSUME NEW rows, NEW last, NEW hist, NEW del, NEW nx,
         Good(rows, last, hist, del, nx), NEW k \in 1..Len(rows),
         k = 1 \/ rows[k].role = "user", NEW l \in Nat,
         last > k - 1 => l = last - (k - 1), ~(last > k - 1) => l = 0
  PROVE  Good(SubSeq(rows, k, Len(rows)), l, hist, del, nx)
<1> DEFINE t == SubSeq(rows, k, Len(rows))
<1>1. /\ rows \in Seq(Row) /\ last \in Nat /\ hist \in Seq(Row) /\ del \subseteq Row
      /\ IsInjective(hist)
      /\ \A r \in ToSet(hist) \cup del : r.n < nx
  BY DEF Good
<1>2. /\ \A i, j \in 1..Len(rows) : i < j => rows[i].n < rows[j].n
      /\ \A i \in 1..Len(rows) : i <= rows[i].n /\ rows[i].n < nx
      /\ \A i \in 1..Len(rows) : rows[i] \in ToSet(hist) <=> i <= last
      /\ \A i \in 1..Len(rows) : rows[i] \notin del
  BY DEF Good
<1>3. Len(rows) \in Nat /\ k \in Nat \ {0} /\ k <= Len(rows)
  BY <1>1, LenProperties
<1>4. rows # <<>>
  BY <1>3
<1>5. last < Len(rows) /\ rows[last + 1].role = "user"
  BY <1>4 DEF Good
<1>6. t \in Seq(Row) /\ Len(t) = Len(rows) - k + 1
  BY <1>1, <1>3, SubSeqRows
<1>7. \A i \in 1..(Len(rows) - k + 1) : t[i] = rows[k + i - 1]
  BY <1>1, <1>3, SubSeqRows
<1> HIDE DEF t
<1>8. \A i \in 1..Len(t) : k + i - 1 \in 1..Len(rows) /\ t[i] = rows[k + i - 1] /\ i <= k + i - 1
  <2>1. ASSUME NEW i \in 1..(Len(rows) - k + 1)
        PROVE  k + i - 1 \in 1..Len(rows) /\ i <= k + i - 1
    BY <1>3
  <2> QED
    BY <1>6, <1>7, <2>1
<1>9. \A i \in 1..Len(rows) : rows[i].n \in Nat
  BY <1>1, RowFields, ElementOfSeq
<1>10. ASSUME NEW i \in 1..Len(t), NEW j \in 1..Len(t), i < j PROVE t[i].n < t[j].n
  <2>1. k + i - 1 < k + j - 1
    BY <1>3, <1>10
  <2> QED
    BY <1>2, <1>8, <2>1
<1>11. ASSUME NEW i \in 1..Len(t) PROVE i <= t[i].n /\ t[i].n < nx
  <2>1. k + i - 1 <= t[i].n /\ t[i].n < nx /\ t[i].n \in Nat
    BY <1>2, <1>8, <1>9
  <2> QED
    BY <1>3, <1>8, <2>1
<1>12. t # <<>>
  BY <1>3, <1>6, EmptySeq
<1>13. l < Len(t)
  BY <1>1, <1>3, <1>5, <1>6
<1>14. t[l + 1].role = "user"
  <2>1. l + 1 \in 1..Len(t)
    BY <1>3, <1>6, <1>13
  <2>2. CASE last > k - 1
    <3>1. k + (l + 1) - 1 = last + 1
      BY <1>1, <1>3, <2>2
    <3> QED
      BY <1>5, <1>8, <2>1, <3>1
  <2>3. CASE ~(last > k - 1)
    <3>1. k + (l + 1) - 1 = k /\ last <= k - 1
      BY <1>1, <1>3, <2>3
    <3>2. k = 1 => last + 1 = k
      BY <1>1, <3>1
    <3>3. t[l + 1] = rows[k]
      BY <1>8, <2>1, <3>1
    <3> QED
      BY <1>5, <3>2, <3>3
  <2> QED
    BY <2>2, <2>3
<1>15. ASSUME NEW i \in 1..Len(t) PROVE (t[i] \in ToSet(hist) <=> i <= l) /\ t[i] \notin del
  <2>1. k + i - 1 <= last <=> i <= l
    <3>1. CASE last > k - 1
      BY <1>1, <1>3, <3>1
    <3>2. CASE ~(last > k - 1)
      BY <1>1, <1>3, <3>2
    <3> QED
      BY <3>1, <3>2
  <2> QED
    BY <1>2, <1>8, <2>1
<1>16. Good(t, l, hist, del, nx)
  BY <1>1, <1>6, <1>10, <1>11, <1>12, <1>13, <1>14, <1>15 DEF Good
<1> QED
  BY <1>16 DEF t

\* The rows from k on and those before it.
LEMMA CutSets ==
  ASSUME NEW rows \in Seq(Row), NEW k \in 1..Len(rows)
  PROVE  /\ SubSeq(rows, k, Len(rows)) \in Seq(Row) /\ SubSeq(rows, 1, k - 1) \in Seq(Row)
         /\ ToSet(rows) = ToSet(SubSeq(rows, 1, k - 1)) \cup ToSet(SubSeq(rows, k, Len(rows)))
         /\ Len(SubSeq(rows, 1, k - 1)) = k - 1
         /\ Len(SubSeq(rows, k, Len(rows))) = Len(rows) - k + 1
<1>1. Len(rows) \in Nat /\ k \in Nat \ {0} /\ k <= Len(rows) /\ DOMAIN rows = 1..Len(rows)
  BY LenProperties
<1>2. /\ SubSeq(rows, k, Len(rows)) \in Seq(Row)
      /\ Len(SubSeq(rows, k, Len(rows))) = Len(rows) - k + 1
      /\ ToSet(SubSeq(rows, k, Len(rows))) = {rows[i] : i \in k..Len(rows)}
  BY <1>1, SubSeqRows
<1>3. /\ SubSeq(rows, 1, k - 1) \in Seq(Row)
      /\ Len(SubSeq(rows, 1, k - 1)) = k - 1
      /\ ToSet(SubSeq(rows, 1, k - 1)) = {rows[i] : i \in 1..(k - 1)}
  <2>1. k - 1 \in Nat /\ k - 1 <= Len(rows) /\ 1 <= (k - 1) + 1 /\ (k - 1) - 1 + 1 = k - 1
    BY <1>1
  <2> QED
    BY <2>1, SubSeqRows
<1>4. 1..Len(rows) = (1..(k - 1)) \cup (k..Len(rows))
  BY <1>1
<1>5. ToSet(rows) = {rows[i] : i \in 1..Len(rows)}
  BY <1>1 DEF ToSet
<1>6. {rows[i] : i \in 1..Len(rows)}
        = {rows[i] : i \in 1..(k - 1)} \cup {rows[i] : i \in k..Len(rows)}
  BY <1>4
<1> QED
  BY <1>2, <1>3, <1>5, <1>6

\* What is visible of a session that is good.
LEMMA VisibleRows ==
  ASSUME NEW rows, NEW last, NEW hist, NEW del, NEW nx,
         Good(rows, last, hist, del, nx)
  PROVE  LET visible == SubSeq(rows, last + 1, Len(rows)) IN
         /\ visible \in Seq(Row) /\ Fresh(visible, hist, nx)
         /\ ToSet(rows) \subseteq ToSet(hist) \cup ToSet(visible)
         /\ visible # <<>> => rows # <<>> /\ visible[1].role = "user"
         /\ rows # <<>> => visible # <<>>
         /\ visible = <<>> => rows = <<>>
<1> DEFINE visible == SubSeq(rows, last + 1, Len(rows))
<1>1. /\ rows \in Seq(Row) /\ last \in Nat /\ hist \in Seq(Row)
      /\ \A i \in 1..Len(rows) : rows[i] \in ToSet(hist) <=> i <= last
  BY DEF Good
<1>2. /\ rows # <<>> => last < Len(rows) /\ rows[last + 1].role = "user"
      /\ rows = <<>> => last = 0
  BY DEF Good
<1>3. Len(rows) \in Nat /\ DOMAIN rows = 1..Len(rows)
  BY <1>1, LenProperties
<1>4. CASE rows = <<>>
  <2>1. Len(rows) = 0 /\ last = 0
    BY <1>2, <1>4
  <2>2. visible = <<>>
    BY <1>3, <2>1, SubSeqEmpty
  <2>3. Fresh(<<>>, hist, nx)
    BY EmptyInjective, EmptySeq DEF Fresh
  <2>4. ToSet(rows) = {}
    BY <1>4, EmptyInjective
  <2> QED
    BY <1>4, <2>2, <2>3, <2>4, EmptySeq
<1>5. CASE rows # <<>>
  <2>1. last < Len(rows) /\ rows[last + 1].role = "user" /\ last + 1 \in Nat \ {0}
    BY <1>1, <1>2, <1>5
  <2>2. Fresh(visible, hist, nx)
    BY <1>3, PartFresh
  <2>3. /\ visible \in Seq(Row)
        /\ last + 1 <= Len(rows) + 1 => Len(visible) = Len(rows) - (last + 1) + 1
        /\ \A i \in 1..(Len(rows) - (last + 1) + 1) : visible[i] = rows[(last + 1) + i - 1]
        /\ ToSet(visible) = {rows[i] : i \in (last + 1)..Len(rows)}
    <3>1. Len(rows) \in Nat /\ Len(rows) <= Len(rows) /\ last + 1 \in Nat \ {0}
      BY <1>3, <2>1
    <3> QED
      BY <1>1, <3>1, SubSeqRows
  <2> HIDE DEF visible
  <2>4. /\ 1 \in 1..(Len(rows) - (last + 1) + 1) /\ (last + 1) + 1 - 1 = last + 1
        /\ last + 1 <= Len(rows) + 1 /\ Len(rows) - (last + 1) + 1 > 0
    BY <1>1, <1>3, <2>1
  <2>5. visible[1] = rows[last + 1] /\ Len(visible) > 0
    BY <2>3, <2>4
  <2>6. visible # <<>>
    BY <2>3, <2>5, EmptySeq
  <2>7. ASSUME NEW i \in 1..Len(rows) PROVE rows[i] \in ToSet(hist) \cup ToSet(visible)
    <3>1. CASE i <= last
      BY <1>1, <3>1
    <3>2. CASE ~(i <= last)
      <4>1. i \in (last + 1)..Len(rows)
        BY <1>1, <1>3, <3>2
      <4> QED
        BY <2>3, <4>1
    <3> QED
      BY <3>1, <3>2
  <2>8. ToSet(rows) \subseteq ToSet(hist) \cup ToSet(visible)
    BY <1>3, <2>7 DEF ToSet
  <2> QED
    BY <1>5, <2>1, <2>2, <2>3, <2>5, <2>6, <2>8 DEF visible
<1> QED
  BY <1>4, <1>5

\* /new: the file is empty, and a task has what was visible.
LEMMA GoodEmpty ==
  ASSUME NEW rows, NEW last, NEW hist, NEW del, NEW nx,
         Good(rows, last, hist, del, nx)
  PROVE  Good(<<>>, 0, hist, del, nx)
<1>1. /\ hist \in Seq(Row) /\ del \subseteq Row /\ IsInjective(hist)
      /\ \A r \in ToSet(hist) \cup del : r.n < nx
  BY DEF Good
<1>2. <<>> \in Seq(Row) /\ Len(<<>>) = 0 /\ \A i \in 1..0 : FALSE
  BY EmptySeq
<1> QED
  BY <1>1, <1>2 DEF Good

LEMMA GoodDelete ==
  ASSUME NEW rows, NEW last, NEW hist, NEW del, NEW nx,
         Good(rows, last, hist, del, nx)
  PROVE  Good(<<>>, 0, hist, del \cup ToSet(rows), nx)
<1>1. /\ hist \in Seq(Row) /\ del \subseteq Row /\ IsInjective(hist)
      /\ \A r \in ToSet(hist) \cup del : r.n < nx
      /\ rows \in Seq(Row)
      /\ \A i \in 1..Len(rows) : rows[i].n < nx
  BY DEF Good
<1>2. DOMAIN rows = 1..Len(rows) /\ \A i \in 1..Len(rows) : rows[i] \in Row
  BY <1>1, LenProperties, ElementOfSeq
<1>3. del \cup ToSet(rows) \subseteq Row /\ \A r \in ToSet(rows) : r.n < nx
  BY <1>1, <1>2 DEF ToSet
<1>4. <<>> \in Seq(Row) /\ Len(<<>>) = 0 /\ \A i \in 1..0 : FALSE
  BY EmptySeq
<1> QED
  BY <1>1, <1>3, <1>4 DEF Good

\* The task of /new has archived its rows.
LEMMA GoodJoin ==
  ASSUME NEW last, NEW hist, NEW del, NEW nx, NEW chunk,
         Good(<<>>, last, hist, del, nx), Fresh(chunk, hist, nx)
  PROVE  /\ Good(<<>>, last, hist \o chunk, del, nx)
         /\ ToSet(hist \o chunk) = ToSet(hist) \cup ToSet(chunk)
<1>1. /\ hist \in Seq(Row) /\ del \subseteq Row /\ IsInjective(hist) /\ last = 0
      /\ \A r \in ToSet(hist) : r.n < nx
      /\ \A r \in del : r.n < nx
  BY DEF Good
<1>2. /\ hist \o chunk \in Seq(Row) /\ IsInjective(hist \o chunk)
      /\ ToSet(hist \o chunk) = ToSet(hist) \cup ToSet(chunk)
      /\ \A r \in ToSet(hist \o chunk) : r.n < nx
  BY <1>1, ArchiveGrows
<1>3. <<>> \in Seq(Row) /\ Len(<<>>) = 0 /\ \A i \in 1..0 : FALSE
  BY EmptySeq
<1> QED
  BY <1>1, <1>2, <1>3 DEF Good

\* A compaction archives the older ones of the visible rows and keeps the others.
LEMMA GoodCompact ==
  ASSUME NEW rows, NEW last, NEW hist, NEW del, NEW nx,
         Good(rows, last, hist, del, nx), rows # <<>>
  PROVE  LET visible == SubSeq(rows, last + 1, Len(rows))
             more == hist \o Older(visible) IN
         /\ Good(Recent(visible), 0, more, del, nx)
         /\ ToSet(hist) \subseteq ToSet(more)
         /\ ToSet(rows) \subseteq ToSet(Recent(visible)) \cup ToSet(more)
<1> DEFINE visible == SubSeq(rows, last + 1, Len(rows))
           more == hist \o Older(visible)
<1>1. /\ rows \in Seq(Row) /\ last \in Nat /\ hist \in Seq(Row)
      /\ last < Len(rows) /\ rows[last + 1].role = "user"
  BY DEF Good
<1>2. Len(rows) \in Nat /\ last + 1 \in Nat \ {0}
  BY <1>1, LenProperties
<1>3. /\ visible \in Seq(Row) /\ visible # <<>> /\ Fresh(visible, hist, nx)
      /\ ToSet(rows) \subseteq ToSet(hist) \cup ToSet(visible)
  BY VisibleRows
<1>4. Len(visible) = Len(rows) - last
  BY <1>1, <1>2, SubSeqRows
<1>5. PICK k \in 1..Len(visible) :
        /\ Recent(visible) = SubSeq(visible, k, Len(visible))
        /\ Older(visible) = SubSeq(visible, 1, k - 1)
        /\ k = 1 \/ visible[k].role = "user"
  <2> HIDE DEF visible
  <2> QED
    BY <1>3, RecentProperties
<1>6. k \in Nat \ {0} /\ k <= Len(rows) - last
  BY <1>1, <1>2, <1>4
<1>7. last + 1 \in 1..Len(rows) /\ Len(rows) \in 1..Len(rows)
  BY <1>1, <1>2
<1>8. visible[k] = rows[last + k]
  <2>1. \A i \in 1..(Len(rows) - (last + 1) + 1) : visible[i] = rows[(last + 1) + i - 1]
    BY <1>1, <1>2, SubSeqRows
  <2>2. k \in 1..(Len(rows) - (last + 1) + 1) /\ (last + 1) + k - 1 = last + k
    BY <1>1, <1>2, <1>6
  <2> HIDE DEF visible
  <2> QED
    BY <2>1, <2>2
<1>9. Recent(visible) = SubSeq(rows, last + k, Len(rows))
  <2>1. /\ k \in 1..(Len(rows) - (last + 1) + 1)
        /\ Len(visible) \in 1..(Len(rows) - (last + 1) + 1)
        /\ (last + 1) + k - 1 = last + k /\ (last + 1) + Len(visible) - 1 = Len(rows)
    <3> HIDE DEF visible
    <3> QED
      BY <1>1, <1>2, <1>4, <1>6
  <2>2. SubSeq(visible, k, Len(visible)) = SubSeq(rows, (last + 1) + k - 1, (last + 1) + Len(visible) - 1)
    BY <1>1, <1>7, <2>1, SubSeqOfSubSeq
  <2> QED
    BY <1>5, <2>1, <2>2
<1>10. ToSet(rows) \subseteq ToSet(Recent(visible)) \cup ToSet(hist) \cup ToSet(Older(visible))
  <2> HIDE DEF visible
  <2>1. ToSet(visible) = ToSet(SubSeq(visible, 1, k - 1)) \cup ToSet(SubSeq(visible, k, Len(visible)))
    BY <1>3, CutSets
  <2> QED
    BY <1>3, <1>5, <2>1
<1>11. CASE k = 1
  <2>1. Older(visible) = <<>>
    BY <1>5, <1>11, SubSeqEmpty
  <2>2. hist \o <<>> = hist
    BY <1>1, ConcatEmptySeq
  <2>3. /\ last > (last + 1) - 1 => 0 = last - ((last + 1) - 1)
        /\ last + k = last + 1
    BY <1>1, <1>11
  <2>4. Good(SubSeq(rows, last + 1, Len(rows)), 0, hist, del, nx)
    BY <1>1, <1>7, <2>3, GoodTrim
  <2>5. ToSet(Older(visible)) = {}
    BY <2>1, EmptyInjective
  <2> HIDE DEF visible
  <2> QED
    BY <1>9, <1>10, <2>1, <2>2, <2>3, <2>4, <2>5 DEF visible
<1>12. CASE k # 1
  <2> DEFINE e == last + k - 1
  <2>1. e \in Nat /\ last < e /\ e < Len(rows) /\ e + 1 = last + k /\ last + k \in 1..Len(rows)
    BY <1>1, <1>2, <1>6, <1>12
  <2>2. rows[e + 1].role = "user"
    BY <1>5, <1>8, <1>12, <2>1
  <2>3. Older(visible) = SubSeq(rows, last + 1, e)
    <3>1. /\ 1 \in 1..(Len(rows) - (last + 1) + 1)
          /\ k - 1 \in 1..(Len(rows) - (last + 1) + 1)
          /\ (last + 1) + 1 - 1 = last + 1 /\ (last + 1) + (k - 1) - 1 = e
      BY <1>1, <1>2, <1>6, <1>12
    <3>2. SubSeq(visible, 1, k - 1) = SubSeq(rows, (last + 1) + 1 - 1, (last + 1) + (k - 1) - 1)
      BY <1>1, <1>7, <3>1, SubSeqOfSubSeq
    <3> QED
      BY <1>5, <3>1, <3>2
  <2> HIDE DEF e, visible
  <2>4. /\ Good(rows, e, hist \o SubSeq(rows, last + 1, e), del, nx)
        /\ ToSet(hist) \subseteq ToSet(hist \o SubSeq(rows, last + 1, e))
    BY <2>1, <2>2, GoodArchive
  <2>5. e + 1 \in 1..Len(rows) /\ ~(e > (e + 1) - 1) /\ 0 \in Nat
    BY <2>1
  <2>6. Good(SubSeq(rows, e + 1, Len(rows)), 0, hist \o SubSeq(rows, last + 1, e), del, nx)
    BY <2>2, <2>4, <2>5, GoodTrim
  <2>7. Good(Recent(visible), 0, more, del, nx) /\ ToSet(hist) \subseteq ToSet(more)
    BY <1>9, <2>1, <2>3, <2>4, <2>6
  <2>8. ToSet(more) = ToSet(hist) \cup ToSet(Older(visible))
    <3>1. Older(visible) \in Seq(Row)
      BY <1>3, <1>5, CutSets
    <3> QED
      BY <1>1, <3>1, ConcatSet
  <2> QED
    BY <1>10, <2>7, <2>8 DEF visible
<1> QED
  BY <1>11, <1>12

-----------------------------------------------------------------------------
(***************************************************************************)
(* The store: an object that is cached has the rows of the file            *)
(***************************************************************************)

Fits(st) ==
  /\ st.file.exists \/ st.file = NoFile
  /\ st.cache # None =>
       /\ st.heap[st.cache].rows = st.file.rows
       /\ st.heap[st.cache].last = st.file.last
       /\ st.heap[st.cache].pending = st.file.pending
       /\ st.heap[st.cache].exists => st.file.exists

StoreOK(st) ==
  /\ st \in Stores
  /\ st.cache \in {None} \cup DOMAIN st.heap
  /\ Fits(st)

LEMMA StoreFields ==
  ASSUME NEW st \in Stores
  PROVE  /\ st.heap \in Seq(Contents) /\ st.cache \in Objects /\ st.file \in Contents
         /\ st = [heap |-> st.heap, cache |-> st.cache, file |-> st.file]
BY DEF Stores

LEMMA StoreType ==
  ASSUME NEW h \in Seq(Contents), NEW o \in Objects, NEW f \in Contents
  PROVE  [heap |-> h, cache |-> o, file |-> f] \in Stores
BY DEF Stores

LEMMA StoreUpdates ==
  ASSUME NEW st \in Stores
  PROVE  /\ \A h : [st EXCEPT !.heap = h] = [heap |-> h, cache |-> st.cache, file |-> st.file]
         /\ \A o : [st EXCEPT !.cache = o] = [heap |-> st.heap, cache |-> o, file |-> st.file]
         /\ \A f : [st EXCEPT !.file = f] = [heap |-> st.heap, cache |-> st.cache, file |-> f]
<1>1. ASSUME NEW h PROVE [st EXCEPT !.heap = h] = [heap |-> h, cache |-> st.cache, file |-> st.file]
  BY DEF Stores
<1>2. ASSUME NEW o PROVE [st EXCEPT !.cache = o] = [heap |-> st.heap, cache |-> o, file |-> st.file]
  BY DEF Stores
<1>3. ASSUME NEW f PROVE [st EXCEPT !.file = f] = [heap |-> st.heap, cache |-> st.cache, file |-> f]
  BY DEF Stores
<1> QED
  BY <1>1, <1>2, <1>3

LEMMA ContentFields ==
  ASSUME NEW c \in Contents
  PROVE  /\ c.rows \in Seq(Row) /\ c.last \in 0..MaxRows
         /\ c.pending \in BOOLEAN /\ c.summary \in BOOLEAN /\ c.exists \in BOOLEAN
BY DEF Contents

LEMMA FileTypes ==
  /\ NoFile \in Contents /\ EmptyFile \in Contents
  /\ NoFile.rows = <<>> /\ NoFile.last = 0 /\ ~NoFile.pending /\ ~NoFile.exists
  /\ EmptyFile.rows = <<>> /\ EmptyFile.last = 0 /\ ~EmptyFile.pending /\ EmptyFile.exists
<1>1. <<>> \in Seq(Row)
  BY EmptySeq
<1>2. 0 \in 0..MaxRows
  <2>1. MaxRows \in Nat
    BY ConstantsAssumption
  <2> QED
    BY <2>1
<1>3. NoFile \in Contents
  BY <1>1, <1>2 DEF NoFile, Contents
<1>4. EmptyFile \in Contents
  BY <1>1, <1>2 DEF EmptyFile, NoFile, Contents
<1> QED
  BY <1>3, <1>4 DEF NoFile, EmptyFile

\* An object with a new content, in the memory of the process.
LEMMA WithOK ==
  ASSUME NEW st \in Stores, NEW o \in DOMAIN st.heap, NEW c \in Contents
  PROVE  /\ With(st, o, c) \in Stores
         /\ With(st, o, c) = [heap |-> [st.heap EXCEPT ![o] = c], cache |-> st.cache, file |-> st.file]
         /\ DOMAIN [st.heap EXCEPT ![o] = c] = DOMAIN st.heap
         /\ [st.heap EXCEPT ![o] = c][o] = c
<1> DEFINE h == [st.heap EXCEPT ![o] = c]
<1>1. st.heap \in Seq(Contents) /\ st.cache \in Objects /\ st.file \in Contents
  BY StoreFields
<1>2. o \in 1..Len(st.heap)
  BY <1>1, LenProperties
<1>3. h \in Seq(Contents) /\ DOMAIN h = DOMAIN st.heap /\ h[o] = c
  BY <1>1, <1>2, ExceptSeq
<1>4. With(st, o, c) = [st EXCEPT !.heap = h]
  BY DEF With, Stores
<1> HIDE DEF h
<1>5. With(st, o, c) = [heap |-> h, cache |-> st.cache, file |-> st.file]
  BY <1>4, StoreUpdates
<1>6. With(st, o, c) \in Stores
  BY <1>1, <1>3, <1>5, StoreType
<1> QED
  BY <1>3, <1>5, <1>6 DEF h

\* The cached object is saved with a new content.
LEMMA SaveOK ==
  ASSUME NEW st, StoreOK(st), st.cache # None, NEW c \in Contents,
         c.exists = st.heap[st.cache].exists
  PROVE  LET saved == Saved(With(st, st.cache, c), st.cache) IN
         /\ StoreOK(saved) /\ saved.cache = st.cache
         /\ saved.file.rows = c.rows /\ saved.file.last = c.last
         /\ saved.file.pending = c.pending /\ saved.file.exists
         /\ saved.heap[saved.cache].summary = c.summary
<1> DEFINE o == st.cache
           w == With(st, o, c)
           anchored == [c EXCEPT !.exists = TRUE]
           h == [w.heap EXCEPT ![o] = anchored]
<1>1. st \in Stores /\ o \in DOMAIN st.heap
  BY DEF StoreOK
<1>0. st.heap[o].exists => st.file.exists
  BY DEF StoreOK, Fits
<1>2. /\ w \in Stores /\ w.cache = o /\ w.file = st.file
      /\ DOMAIN w.heap = DOMAIN st.heap /\ w.heap[o] = c
  BY <1>1, WithOK
<1>3. /\ anchored \in Contents /\ anchored.rows = c.rows /\ anchored.last = c.last
      /\ anchored.pending = c.pending /\ anchored.exists /\ anchored.summary = c.summary
  BY DEF Contents
<1> HIDE DEF w, anchored
<1>4. w.heap \in Seq(Contents) /\ o \in Objects
  BY <1>1, <1>2, StoreFields
<1>5. h \in Seq(Contents) /\ DOMAIN h = DOMAIN st.heap /\ h[o] = anchored
  <2>1. o \in 1..Len(w.heap)
    BY <1>1, <1>2, <1>4, LenProperties
  <2> QED
    BY <1>2, <1>3, <1>4, <2>1, ExceptSeq
<1>6. Saved(w, o) = [heap |-> h, cache |-> o, file |-> anchored]
  BY <1>0, <1>1, <1>2 DEF Saved, anchored
<1> HIDE DEF h
<1>7. Saved(w, o) \in Stores
  BY <1>3, <1>4, <1>5, <1>6, StoreType
<1>8. Fits(Saved(w, o))
  BY <1>3, <1>5, <1>6 DEF Fits
<1> QED
  BY <1>1, <1>3, <1>5, <1>6, <1>7, <1>8 DEF StoreOK, w

\* Saving the cached object as it is.
LEMMA SaveAsIs ==
  ASSUME NEW st, StoreOK(st), st.cache # None
  PROVE  LET saved == Saved(st, st.cache) IN
         /\ StoreOK(saved) /\ saved.cache = st.cache
         /\ saved.file.rows = st.file.rows /\ saved.file.last = st.file.last
         /\ saved.file.pending = st.file.pending /\ saved.file.exists
         /\ saved.heap[saved.cache].summary = st.heap[st.cache].summary
<1> DEFINE o == st.cache
           c == st.heap[o]
<1>1. st \in Stores /\ o \in DOMAIN st.heap
  BY DEF StoreOK
<1>2. st.heap \in Seq(Contents)
  BY <1>1, StoreFields
<1>3. c \in Contents
  BY <1>1, <1>2, LenProperties, ElementOfSeq
<1>4. With(st, o, c) = st
  <2>1. [st.heap EXCEPT ![o] = c] = st.heap
    BY <1>1, <1>2, LenProperties
  <2>2. /\ With(st, o, c) \in Stores /\ With(st, o, c).heap = st.heap
        /\ With(st, o, c).cache = st.cache /\ With(st, o, c).file = st.file
    BY <1>1, <1>3, <2>1, WithOK
  <2> HIDE DEF o, c
  <2> QED
    <3>1. /\ With(st, o, c) = [heap |-> With(st, o, c).heap, cache |-> With(st, o, c).cache,
                               file |-> With(st, o, c).file]
          /\ st = [heap |-> st.heap, cache |-> st.cache, file |-> st.file]
      BY <1>1, <2>2, StoreFields
    <3> QED
      BY <2>2, <3>1
<1>5. c.rows = st.file.rows /\ c.last = st.file.last /\ c.pending = st.file.pending
  BY DEF StoreOK, Fits
<1> QED
  BY <1>3, <1>4, <1>5, SaveOK

LEMMA CachedContent ==
  ASSUME NEW st, StoreOK(st), st.cache # None
  PROVE  /\ st.cache \in DOMAIN st.heap
         /\ Session(st, st.cache) \in Contents
         /\ Session(st, st.cache).rows = st.file.rows
         /\ Session(st, st.cache).last = st.file.last
         /\ Session(st, st.cache).pending = st.file.pending
         /\ Unconsolidated(Session(st, st.cache)) = Unconsolidated(st.file)
<1>1. st \in Stores /\ st.cache \in DOMAIN st.heap /\ st.heap \in Seq(Contents)
  BY StoreFields DEF StoreOK
<1>2. st.heap[st.cache] \in Contents
  BY <1>1, LenProperties, ElementOfSeq
<1> QED
  BY <1>1, <1>2 DEF StoreOK, Fits, Session, Unconsolidated

\* get_or_create()
LEMMA OpenOK ==
  ASSUME NEW st, StoreOK(st)
  PROVE  /\ StoreOK(Opened(st)) /\ Opened(st).cache # None
         /\ Opened(st).file = st.file
         /\ st.cache # None => Opened(st) = st
<1>1. st \in Stores /\ st.heap \in Seq(Contents) /\ st.cache \in Objects /\ st.file \in Contents
  BY StoreFields DEF StoreOK
<1>2. CASE st.cache # None
  <2>1. st.heap[st.cache].exists => st.file.exists
    BY <1>2 DEF StoreOK, Fits
  <2> QED
    BY <1>2, <2>1 DEF Opened
<1>3. CASE st.cache = None
  <2> DEFINE h == Append(st.heap, st.file)
             o == Len(st.heap) + 1
  <2>1. h \in Seq(Contents) /\ Len(h) = o /\ h[o] = st.file
    BY <1>1, AppendProperties
  <2>2. o \in Nat /\ o \in DOMAIN h /\ o # None
    <3>1. Len(st.heap) \in Nat
      BY <1>1, LenProperties
    <3>2. DOMAIN h = 1..o
      BY <2>1, LenProperties
    <3> QED
      BY <3>1, <3>2, ConstantsAssumption
  <2>4. Opened(st) = [heap |-> h, cache |-> o, file |-> st.file]
    BY <1>3 DEF Opened
  <2> HIDE DEF h, o
  <2>5. Opened(st) \in Stores
    <3>1. o \in Objects
      BY <2>2 DEF Objects
    <3> QED
      BY <1>1, <2>1, <2>4, <3>1, StoreType
  <2>6. Fits(Opened(st))
    BY <2>1, <2>4 DEF StoreOK, Fits
  <2> QED
    BY <1>3, <2>2, <2>4, <2>5, <2>6 DEF StoreOK
<1> QED
  BY <1>2, <1>3

\* A turn's row is saved with the session.
LEMMA AddRowOK ==
  ASSUME NEW st, StoreOK(st), st.cache # None, next \in 1..MaxRows,
         NEW role \in {"user", "assistant"}, NEW pending \in BOOLEAN
  PROVE  LET added == AddRow(st, st.cache, role, pending) IN
         /\ StoreOK(added) /\ added.cache = st.cache
         /\ added.file.rows = Append(st.file.rows, [role |-> role, n |-> next])
         /\ added.file.last = st.file.last
<1> DEFINE s == Session(st, st.cache)
           row == [role |-> role, n |-> next]
           c == [s EXCEPT !.rows = Append(@, row), !.pending = pending]
<1>1. s \in Contents /\ s.rows = st.file.rows /\ s.last = st.file.last
  BY CachedContent
<1>2. row \in Row
  BY DEF Row
<1> HIDE DEF row
<1>3. Append(s.rows, row) \in Seq(Row)
  BY <1>1, <1>2, AppendProperties DEF Contents
<1>4. s.exists = st.heap[st.cache].exists
  BY DEF Session
<1>5. AddRow(st, st.cache, role, pending) = Saved(With(st, st.cache, c), st.cache)
  BY DEF AddRow, row
<1> HIDE DEF s
<1>6. c \in Contents /\ c.rows = Append(s.rows, row) /\ c.last = s.last /\ c.exists = s.exists
  BY <1>1, <1>3 DEF Contents
<1> HIDE DEF c
<1>7. c.exists = st.heap[st.cache].exists
  BY <1>4, <1>6
<1> QED
  BY <1>1, <1>5, <1>6, <1>7, SaveOK DEF row

\* A summary is taken from the cached object.
LEMMA TakeOK ==
  ASSUME NEW st, StoreOK(st), st.cache # None
  PROVE  LET s == Session(st, st.cache)
             taken == With(st, st.cache, [s EXCEPT !.summary = FALSE]) IN
         /\ StoreOK(taken) /\ taken.cache = st.cache /\ taken.file = st.file
<1> DEFINE s == Session(st, st.cache)
           c == [s EXCEPT !.summary = FALSE]
           o == st.cache
           h == [st.heap EXCEPT ![o] = c]
<1>1. st \in Stores /\ o \in DOMAIN st.heap
  BY DEF StoreOK
<1>2. /\ s \in Contents /\ s.rows = st.file.rows /\ s.last = st.file.last
      /\ s.pending = st.file.pending
  BY CachedContent
<1>3. s.exists => st.file.exists
  BY DEF StoreOK, Fits, Session
<1>4. st.file.exists \/ st.file = NoFile
  BY DEF StoreOK, Fits
<1> HIDE DEF s
<1>5. /\ c \in Contents /\ c.rows = s.rows /\ c.last = s.last /\ c.pending = s.pending
      /\ c.exists = s.exists
  BY <1>2 DEF Contents
<1> HIDE DEF c
<1>6. /\ With(st, o, c) \in Stores
      /\ With(st, o, c) = [heap |-> h, cache |-> o, file |-> st.file]
      /\ DOMAIN h = DOMAIN st.heap /\ h[o] = c
  BY <1>1, <1>5, WithOK
<1> HIDE DEF h
<1>7. Fits(With(st, o, c))
  BY <1>2, <1>3, <1>4, <1>5, <1>6 DEF Fits
<1> QED
  BY <1>1, <1>6, <1>7 DEF StoreOK, s, c

\* What a turn finds of the session: the file's rows, with an answer to the row
\* that an interrupted turn has left.
LEMMA PreparedOK ==
  ASSUME StoreOK(store), next \in Nat, Closes => next \in 1..MaxRows
  PROVE  /\ StoreOK(Prepared) /\ Prepared.cache # None
         /\ store.cache # None => Prepared.cache = store.cache
         /\ Prepared.file.last = store.file.last
         /\ Closes => /\ store.file.rows # <<>>
                      /\ Prepared.file.rows
                           = Append(store.file.rows, [role |-> "assistant", n |-> next])
         /\ ~Closes => Prepared.file.rows = store.file.rows
<1> DEFINE opened == Opened(store)
           o == opened.cache
           s == Session(opened, o)
           restored == IF Interrupted(s) THEN AddRow(opened, o, "assistant", FALSE)
                       ELSE IF s.pending THEN Saved(With(opened, o, [s EXCEPT !.pending = FALSE]), o)
                       ELSE opened
           t == Session(restored, o)
           taken == With(restored, o, [t EXCEPT !.summary = FALSE])
<1>1. /\ StoreOK(opened) /\ o # None /\ opened.file = store.file
      /\ store.cache # None => opened = store
  BY OpenOK
<1>2. Prepared = IF summaries \/ ~t.summary THEN taken ELSE Saved(taken, o)
  BY DEF Prepared
<1>3. Closes <=> Interrupted(s)
  BY DEF Closes
<1> HIDE DEF opened
<1>4. s \in Contents /\ s.rows = store.file.rows /\ s.last = store.file.last
  BY <1>1, CachedContent
<1>5. s.exists = opened.heap[opened.cache].exists
  BY DEF Session
<1>6. Interrupted(s) => store.file.rows # <<>>
  BY <1>4 DEF Interrupted
<1> HIDE DEF s
<1> DEFINE Restored ==
      /\ StoreOK(restored) /\ restored.cache = o
      /\ restored.file.last = store.file.last
      /\ Interrupted(s) => restored.file.rows
                             = Append(store.file.rows, [role |-> "assistant", n |-> next])
      /\ ~Interrupted(s) => restored.file.rows = store.file.rows
<1>7. Restored
  <2>1. CASE Interrupted(s)
    <3>1. next \in 1..MaxRows
      BY <1>3, <2>1
    <3>2. restored = AddRow(opened, o, "assistant", FALSE)
      BY <2>1
    <3>3. /\ StoreOK(restored) /\ restored.cache = opened.cache
          /\ restored.file.rows = Append(opened.file.rows, [role |-> "assistant", n |-> next])
          /\ restored.file.last = opened.file.last
      <4> HIDE DEF restored
      <4> QED
        BY <1>1, <3>1, <3>2, AddRowOK
    <3> HIDE DEF restored
    <3> QED
      BY <1>1, <2>1, <3>3
  <2>2. CASE ~Interrupted(s) /\ s.pending
    <3> DEFINE c == [s EXCEPT !.pending = FALSE]
    <3>1. c \in Contents /\ c.rows = s.rows /\ c.last = s.last /\ c.exists = s.exists
      BY <1>4 DEF Contents
    <3>2. restored = Saved(With(opened, o, c), o)
      BY <2>2
    <3> HIDE DEF c, restored
    <3>3. c.exists = opened.heap[opened.cache].exists
      BY <1>5, <3>1
    <3>4. /\ StoreOK(restored) /\ restored.cache = opened.cache
          /\ restored.file.rows = c.rows /\ restored.file.last = c.last
      BY <1>1, <3>1, <3>2, <3>3, SaveOK
    <3> QED
      BY <1>4, <2>2, <3>1, <3>4
  <2>3. CASE ~Interrupted(s) /\ ~s.pending
    <3>1. restored = opened
      BY <2>3
    <3> HIDE DEF restored
    <3> QED
      BY <1>1, <2>3, <3>1
  <2> QED
    BY <2>1, <2>2, <2>3
<1> HIDE DEF restored
<1>8. StoreOK(taken) /\ taken.cache = o /\ taken.file = restored.file
  BY <1>1, <1>7, TakeOK
<1> HIDE DEF taken
<1>9. /\ StoreOK(Saved(taken, o)) /\ Saved(taken, o).cache = o
      /\ Saved(taken, o).file.rows = restored.file.rows
      /\ Saved(taken, o).file.last = restored.file.last
  BY <1>1, <1>8, SaveAsIs
<1>10. /\ StoreOK(Prepared) /\ Prepared.cache = o
       /\ Prepared.file.rows = restored.file.rows
       /\ Prepared.file.last = restored.file.last
  <2>1. Prepared = taken \/ Prepared = Saved(taken, o)
    BY <1>2
  <2> QED
    BY <1>8, <1>9, <2>1
<1> QED
  BY <1>1, <1>3, <1>6, <1>7, <1>10

\* The cursor as a trim leaves it.
TrimmedLast(rows, last) ==
  IF last > Len(Older(rows)) THEN last - Len(Older(rows)) ELSE 0

LEMMA TrimmedOK ==
  ASSUME NEW st, StoreOK(st), st.cache # None
  PROVE  /\ StoreOK(Trimmed(st)) /\ Trimmed(st).cache = st.cache
         /\ Trimmed(st).file.rows = Recent(st.file.rows)
         /\ Trimmed(st).file.last = TrimmedLast(st.file.rows, st.file.last)
<1> DEFINE o == st.cache
           s == Session(st, o)
           kept == Recent(s.rows)
           l == TrimmedLast(s.rows, s.last)
           c == [s EXCEPT !.rows = kept, !.last = l]
<1>1. Opened(st) = st
  BY OpenOK
<1>2. s \in Contents /\ s.rows = st.file.rows /\ s.last = st.file.last
  BY CachedContent
<1>3. s.exists = st.heap[st.cache].exists
  BY DEF Session
<1>4. Trimmed(st) = Saved(With(st, o, c), o)
  BY <1>1 DEF Trimmed, TrimmedLast
<1> HIDE DEF s
<1>5. s.rows \in Seq(Row) /\ s.last \in 0..MaxRows
  BY <1>2, ContentFields
<1>6. kept \in Seq(Row) /\ Len(Older(s.rows)) \in Nat
  <2>1. CASE s.rows = <<>>
    <3>1. Len(s.rows) = 0
      BY <2>1
    <3>2. Keep \in Nat
      BY ConstantsAssumption
    <3>3. Recent(s.rows) = s.rows
      BY <3>1, <3>2 DEF Recent
    <3>4. Older(s.rows) = SubSeq(s.rows, 1, 0)
      BY <3>1, <3>3 DEF Older
    <3>5. SubSeq(s.rows, 1, 0) = <<>>
      BY SubSeqEmpty
    <3> QED
      BY <1>5, <3>3, <3>4, <3>5, EmptySeq
  <2>2. CASE s.rows # <<>>
    <3>1. PICK k \in 1..Len(s.rows) : /\ Recent(s.rows) = SubSeq(s.rows, k, Len(s.rows))
                                      /\ Older(s.rows) = SubSeq(s.rows, 1, k - 1)
      BY <1>5, <2>2, RecentProperties
    <3>2. SubSeq(s.rows, k, Len(s.rows)) \in Seq(Row) /\ SubSeq(s.rows, 1, k - 1) \in Seq(Row)
      BY <1>5, CutSets
    <3> QED
      BY <3>1, <3>2, LenProperties
  <2> QED
    BY <2>1, <2>2
<1>7. l \in 0..MaxRows
  <2>1. MaxRows \in Nat
    BY ConstantsAssumption
  <2>2. CASE s.last > Len(Older(s.rows))
    <3>1. l = s.last - Len(Older(s.rows))
      BY <2>2 DEF TrimmedLast
    <3> QED
      BY <1>5, <1>6, <2>1, <2>2, <3>1
  <2>3. CASE ~(s.last > Len(Older(s.rows)))
    <3>1. l = 0
      BY <2>3 DEF TrimmedLast
    <3> QED
      BY <2>1, <3>1
  <2> QED
    BY <2>2, <2>3
<1> HIDE DEF kept, l
<1>8. c \in Contents /\ c.rows = kept /\ c.last = l /\ c.exists = s.exists
  BY <1>2, <1>6, <1>7 DEF Contents
<1> HIDE DEF c
<1>9. c.exists = st.heap[st.cache].exists
  BY <1>3, <1>8
<1> QED
  BY <1>2, <1>4, <1>8, <1>9, SaveOK DEF kept, l

LEMMA InvalidatedOK ==
  ASSUME NEW st, StoreOK(st)
  PROVE  /\ StoreOK(Invalidated(st)) /\ Invalidated(st).cache = None
         /\ Invalidated(st).file = st.file
<1>1. st \in Stores /\ st.heap \in Seq(Contents) /\ st.file \in Contents
  BY StoreFields DEF StoreOK
<1>2. Invalidated(st) = [heap |-> st.heap, cache |-> None, file |-> st.file]
  BY <1>1, StoreUpdates DEF Invalidated
<1>3. Invalidated(st) \in Stores
  BY <1>1, <1>2, StoreType DEF Objects
<1> QED
  BY <1>2, <1>3 DEF StoreOK, Fits

\* /new
LEMMA EmptiedOK ==
  ASSUME NEW st, StoreOK(st), st.cache # None
  PROVE  LET emptied == Emptied(st, st.cache) IN
         /\ StoreOK(emptied) /\ emptied.cache = None
         /\ emptied.file.rows = <<>> /\ emptied.file.last = 0
<1> DEFINE s == Session(st, st.cache)
           c == [s EXCEPT !.rows = <<>>, !.last = 0]
<1>1. s \in Contents
  BY CachedContent
<1>2. s.exists = st.heap[st.cache].exists
  BY DEF Session
<1>3. Emptied(st, st.cache) = Invalidated(Saved(With(st, st.cache, c), st.cache))
  BY DEF Emptied
<1> HIDE DEF s
<1>4. <<>> \in Seq(Row) /\ 0 \in 0..MaxRows
  <2>1. MaxRows \in Nat
    BY ConstantsAssumption
  <2> QED
    BY <2>1, EmptySeq
<1>5. c \in Contents /\ c.rows = <<>> /\ c.last = 0 /\ c.exists = s.exists
  BY <1>1, <1>4 DEF Contents
<1> HIDE DEF c
<1>6. c.exists = st.heap[st.cache].exists
  BY <1>2, <1>5
<1> DEFINE saved == Saved(With(st, st.cache, c), st.cache)
<1>7. StoreOK(saved) /\ saved.file.rows = c.rows /\ saved.file.last = c.last
  BY <1>5, <1>6, SaveOK
<1> HIDE DEF saved
<1>8. /\ StoreOK(Invalidated(saved)) /\ Invalidated(saved).cache = None
      /\ Invalidated(saved).file = saved.file
  BY <1>7, InvalidatedOK
<1> QED
  BY <1>3, <1>5, <1>7, <1>8 DEF saved

\* A compaction's result is saved.
LEMMA CompactedOK ==
  ASSUME NEW st, StoreOK(st), st.cache # None, NEW kept \in Seq(Row), NEW ok \in BOOLEAN
  PROVE  LET o == st.cache
             saved == Saved(With(st, o, Compacted(Session(st, o), kept, ok)), o) IN
         /\ StoreOK(saved) /\ saved.cache = st.cache
         /\ saved.file.rows = kept /\ saved.file.last = 0
<1> DEFINE s == Session(st, st.cache)
           c == Compacted(s, kept, ok)
<1>1. s \in Contents
  BY CachedContent
<1>2. s.exists = st.heap[st.cache].exists
  BY DEF Session
<1> HIDE DEF s
<1>3. 0 \in 0..MaxRows /\ (s.summary \/ ok) \in BOOLEAN
  <2>1. MaxRows \in Nat
    BY ConstantsAssumption
  <2> QED
    BY <2>1
<1>4. c \in Contents /\ c.rows = kept /\ c.last = 0 /\ c.exists = s.exists
  BY <1>1, <1>3 DEF Contents, Compacted
<1> HIDE DEF c
<1>5. c.exists = st.heap[st.cache].exists
  BY <1>2, <1>4
<1> QED
  BY <1>4, <1>5, SaveOK DEF c, s

\* A consolidation's cursor is saved, and its summary.
LEMMA AdvancedOK ==
  ASSUME NEW st, StoreOK(st), st.cache # None, NEW l \in 0..MaxRows
  PROVE  LET o == st.cache
             saved == Saved(With(st, o, [Session(st, o) EXCEPT !.last = l]), o) IN
         /\ StoreOK(saved) /\ saved.cache = st.cache
         /\ saved.file.rows = st.file.rows /\ saved.file.last = l
<1> DEFINE s == Session(st, st.cache)
           c == [s EXCEPT !.last = l]
<1>1. s \in Contents /\ s.rows = st.file.rows
  BY CachedContent
<1>2. s.exists = st.heap[st.cache].exists
  BY DEF Session
<1> HIDE DEF s
<1>3. c \in Contents /\ c.rows = s.rows /\ c.last = l /\ c.exists = s.exists
  BY <1>1 DEF Contents
<1> HIDE DEF c
<1>4. c.exists = st.heap[st.cache].exists
  BY <1>2, <1>3
<1> QED
  BY ZenonT(40), <1>1, <1>3, <1>4, SaveOK DEF c, s

LEMMA NotedOK ==
  ASSUME NEW st, StoreOK(st), st.cache # None
  PROVE  LET o == st.cache
             saved == Saved(With(st, o, [Session(st, o) EXCEPT !.summary = TRUE]), o) IN
         /\ StoreOK(saved) /\ saved.cache = st.cache
         /\ saved.file.rows = st.file.rows /\ saved.file.last = st.file.last
<1> DEFINE s == Session(st, st.cache)
           c == [s EXCEPT !.summary = TRUE]
<1>1. s \in Contents /\ s.rows = st.file.rows /\ s.last = st.file.last
  BY CachedContent
<1>2. s.exists = st.heap[st.cache].exists
  BY DEF Session
<1> HIDE DEF s
<1>3. c \in Contents /\ c.rows = s.rows /\ c.last = s.last /\ c.exists = s.exists
  BY <1>1 DEF Contents
<1> HIDE DEF c
<1>4. c.exists = st.heap[st.cache].exists
  BY <1>2, <1>3
<1> QED
  BY <1>1, <1>3, <1>4, SaveOK DEF c, s

\* What a new process finds.
LEMMA RestartedOK ==
  ASSUME NEW file \in Contents, file.exists \/ file = NoFile
  PROVE  LET st == [heap |-> <<>>, cache |-> None, file |-> file] IN
         StoreOK(st) /\ st.cache = None /\ st.file = file
<1> DEFINE st == [heap |-> <<>>, cache |-> None, file |-> file]
<1>1. <<>> \in Seq(Contents) /\ None \in Objects
  BY EmptySeq DEF Objects
<1>2. st \in Stores
  BY <1>1, StoreType
<1>3. st.cache = None /\ st.file = file
  OBVIOUS
<1> HIDE DEF st
<1>4. Fits(st)
  BY <1>3 DEF Fits
<1> QED
  BY <1>2, <1>3, <1>4 DEF StoreOK, st

LEMMA FlushedOK ==
  ASSUME NEW st, StoreOK(st)
  PROVE  /\ Flushed(st).file \in Contents
         /\ Flushed(st).file.exists \/ Flushed(st).file = NoFile
         /\ Flushed(st).file.rows = st.file.rows /\ Flushed(st).file.last = st.file.last
<1>1. CASE Flushed(st) = st
  <2>1. st.file \in Contents /\ (st.file.exists \/ st.file = NoFile)
    BY StoreFields DEF StoreOK, Fits
  <2> QED
    BY <1>1, <2>1
<1>2. CASE Flushed(st) # st
  <2>1. st.cache # None /\ Flushed(st) = Saved(st, st.cache)
    BY <1>2 DEF Flushed
  <2>2. /\ StoreOK(Saved(st, st.cache)) /\ Saved(st, st.cache).file.exists
        /\ Saved(st, st.cache).file.rows = st.file.rows
        /\ Saved(st, st.cache).file.last = st.file.last
    BY <2>1, SaveAsIs
  <2>3. Saved(st, st.cache) \in Stores
    BY <2>2 DEF StoreOK
  <2>4. Saved(st, st.cache).file \in Contents
    BY <2>3, StoreFields
  <2> QED
    BY <2>1, <2>2, <2>4
<1> QED
  BY <1>1, <1>2

-----------------------------------------------------------------------------
(***************************************************************************)
(* The inductive invariant                                                 *)
(***************************************************************************)

\* A steady plan: what moves rows without the lock is begun only when nothing
\* else is at work, a trim has one lane to itself, and the process does not crash
\* while a task of /new has the rows.
Steady(p) ==
  /\ p.ops \cap {"new", "compact", "delete", "create"} # {} => p.quiet
  /\ "new" \in p.ops => "crash" \notin p.ops
  /\ "trim" \in p.ops => p.quiet \/ p.lanes # Lanes

Workers == Lanes \cup Jobs

SessionTypes ==
  /\ plan \in Plans
  /\ turn \in [Lanes -> Turns] /\ task \in [Workers -> Tasks]
  /\ lock \in Seq(Workers)
  /\ archiving \in BOOLEAN /\ summaries \in BOOLEAN
  /\ evicted \in SUBSET Row /\ said \in SUBSET Row
  /\ next \in 1..(MaxRows + 1)
  /\ used \in [Operations -> 0..MaxOps]

\* A consolidation, of the cached object.
Waiting(t, o) ==
  t.kind = "consolidate" /\ t.pc \in {"lock", "llm"} /\ t.obj = o /\ o # None

\* A task that has rows of its own: of /new, or a compaction.
Maintaining(t, p, o, f) ==
  /\ p.quiet
  /\ \/ t.kind = "archive" /\ t.obj = None /\ "new" \in p.ops /\ f.rows = <<>>
     \/ t.kind = "compact" /\ t.pc = "start" /\ t.obj = None
     \/ /\ t.kind = "compact" /\ t.pc = "llm" /\ t.obj = o /\ o # None
        /\ f.rows # <<>>
        /\ t.chunk = Older(Unconsolidated(f)) /\ t.kept = Recent(Unconsolidated(f))

Alone(j) ==
  /\ \A p \in Workers \ {j} : task[p] = Off
  /\ \A l \in Lanes : turn[l] = Idle

AllWaiting == \A p \in Workers : task[p] = Off \/ Waiting(task[p], store.cache)

TurnInv ==
  \A l \in Lanes :
    \/ turn[l] = Idle
    \/ /\ turn[l].pc \in {"consolidating", "running"} /\ l \in plan.lanes
       /\ turn[l].obj = store.cache /\ store.cache # None

TaskInv ==
  \A p \in Workers :
    \/ task[p] = Off
    \/ Waiting(task[p], store.cache)
    \/ p \in Jobs /\ Alone(p) /\ Maintaining(task[p], plan, store.cache, store.file)

\* The lock's queue is that of the consolidations; its first has the model work.
LockInv ==
  /\ IsInjective(lock)
  /\ \A p \in Workers : Contains(lock, p) <=> task[p].kind = "consolidate"
  /\ \A p \in Workers : task[p].kind = "consolidate" /\ task[p].pc = "llm" =>
                          lock # <<>> /\ Head(lock) = p

\* Once its consolidation is over a turn has a row to answer.
LaneInv ==
  /\ \A l \in Lanes : task[l] # Off => turn[l].pc = "consolidating"
  /\ \A l \in Lanes : turn[l].pc = "running" => store.file.rows # <<>>
  /\ \A j \in Jobs : task[j].kind = "consolidate" => store.file.rows # <<>>

\* When a turn trims the session at its end, no consolidation has a chunk of it.
TrimInv ==
  "trim" \in plan.ops =>
    \A l \in Lanes :
      /\ turn[l] # Idle => \A k \in Lanes \ {l} : turn[k] = Idle
      /\ task[l] # Off => Last(lock) = l
      /\ turn[l] # Idle /\ task[l] = Off => lock = <<>>

\* The chunk a consolidation archives begins at the file's cursor and ends
\* before a turn.
Chunked(t, f) ==
  /\ f.last < t.end /\ t.end < Len(f.rows)
  /\ f.rows[t.end + 1].role = "user"
  /\ t.chunk = SubSeq(f.rows, f.last + 1, t.end)

ChunkInv ==
  \A p \in Workers : task[p].kind = "consolidate" /\ task[p].pc = "llm" =>
                       Chunked(task[p], store.file)

RowsInv == Good(store.file.rows, store.file.last, history, deleted, next)

FreshInv ==
  \A j \in Jobs : task[j].kind = "archive" => Fresh(task[j].chunk, history, next)

StoreInv ==
  /\ SessionTypes /\ StoreOK(store)
  /\ TurnInv /\ TaskInv /\ LockInv /\ LaneInv /\ TrimInv /\ ChunkInv
  /\ RowsInv /\ FreshInv /\ RowsKept

LEMMA OffTypes ==
  /\ Off \in Tasks /\ Off.kind = "off" /\ Off.obj = None
  /\ Idle \in Turns /\ Idle.pc = "idle"
<1>1. /\ <<>> \in Seq(Row) /\ 0 \in 0..MaxRows /\ 0 \in 0..MaxRounds
      /\ None \in Objects
  <2>1. MaxRows \in Nat /\ MaxRounds \in Nat
    BY ConstantsAssumption
  <2> QED
    BY <2>1, EmptySeq DEF Objects
<1> QED
  BY <1>1 DEF Off, Idle, Tasks, Turns

LEMMA ConsolidatingType ==
  ASSUME NEW o \in Objects
  PROVE  /\ Consolidating(o) \in Tasks
         /\ Consolidating(o).kind = "consolidate" /\ Consolidating(o).pc = "lock"
         /\ Consolidating(o).obj = o
BY OffTypes DEF Consolidating, Tasks

LEMMA SnapshotType ==
  ASSUME NEW chunk \in Seq(Row)
  PROVE  LET t == [Off EXCEPT !.kind = "archive", !.pc = "llm", !.chunk = chunk] IN
         t \in Tasks /\ t.kind = "archive" /\ t.obj = None /\ t.chunk = chunk
BY OffTypes DEF Tasks

LEMMA CompactType ==
  LET t == [Off EXCEPT !.kind = "compact", !.pc = "start"] IN
  t \in Tasks /\ t.kind = "compact" /\ t.pc = "start" /\ t.obj = None
BY OffTypes DEF Tasks

\* The consolidation's next chunk ends before a turn, behind the cursor.
LEMMA ChunkType ==
  ASSUME NEW p, task[p] \in Tasks, NEW s \in Contents, Len(s.rows) <= MaxRows,
         Boundaries(s) # {}, NEW round \in 0..MaxRounds, NEW summary \in BOOLEAN
  PROVE  LET t == Chunk(p, s, round, summary) IN
         /\ t \in Tasks /\ t.kind = task[p].kind /\ t.pc = "llm" /\ t.obj = task[p].obj
         /\ Chunked(t, s)
<1> DEFINE e == Boundary(s)
           chunk == SubSeq(s.rows, s.last + 1, e)
           t == [task[p] EXCEPT !.pc = "llm", !.end = e, !.round = round, !.summary = summary,
                                !.chunk = chunk]
<1>1. s.rows \in Seq(Row) /\ s.last \in 0..MaxRows /\ MaxRows \in Nat /\ Len(s.rows) \in Nat
  BY ContentFields, LenProperties, ConstantsAssumption
<1>2. Boundaries(s) \subseteq 0..Len(s.rows)
  <2>1. ASSUME NEW b \in (s.last + 1)..(Len(s.rows) - 1) PROVE b \in 0..Len(s.rows)
    BY <1>1
  <2> QED
    BY <2>1 DEF Boundaries
<1>3. e \in Boundaries(s)
  <2> DEFINE enough == {b \in Boundaries(s) : b - s.last >= Estimate(s) - Target}
  <2>1. Max(Boundaries(s)) \in Boundaries(s)
    BY <1>1, <1>2, MaxIsGreatest
  <2>2. enough # {} => Min(enough) \in enough
    <3>1. enough \subseteq 0..Len(s.rows)
      BY <1>2
    <3> HIDE DEF enough
    <3> QED
      BY <1>1, <3>1, MinIsMember
  <2>3. enough \subseteq Boundaries(s)
    OBVIOUS
  <2>4. e = IF enough # {} THEN Min(enough) ELSE Max(Boundaries(s))
    BY DEF Boundary
  <2> HIDE DEF enough, e
  <2> QED
    BY <2>1, <2>2, <2>3, <2>4
<1> HIDE DEF e
<1>4. e \in (s.last + 1)..(Len(s.rows) - 1) /\ s.rows[e + 1].role = "user"
  BY <1>3 DEF Boundaries
<1>5. e \in Nat /\ e <= Len(s.rows) /\ e \in 0..MaxRows /\ s.last < e /\ e < Len(s.rows)
  BY <1>1, <1>4
<1>6. chunk \in Seq(Row)
  BY <1>1, <1>5, SubSeqRows
<1> HIDE DEF chunk
<1>7. /\ t \in Tasks /\ t.kind = task[p].kind /\ t.pc = "llm" /\ t.obj = task[p].obj
      /\ t.end = e /\ t.chunk = chunk
  BY <1>5, <1>6 DEF Tasks
<1>8. Chunk(p, s, round, summary) = t
  BY DEF Chunk, e, chunk
<1> HIDE DEF t
<1> QED
  BY <1>4, <1>5, <1>7, <1>8 DEF Chunked, chunk

-----------------------------------------------------------------------------
(***************************************************************************)
(* The lock and the modes of work                                          *)
(***************************************************************************)

LEMMA LockReleased ==
  ASSUME SessionTypes, LockInv, NEW p \in Workers,
         task' = [task EXCEPT ![p] = Off], lock' = Without(lock, p)
  PROVE  LockInv' /\ lock' \in Seq(Workers)
<1>1. lock \in Seq(Workers) /\ IsInjective(lock) /\ DOMAIN task = Workers
  BY DEF SessionTypes, LockInv
<1>2. /\ lock' \in Seq(Workers) /\ IsInjective(lock')
      /\ \A q : Contains(lock', q) <=> Contains(lock, q) /\ q # p
      /\ \A q : lock # <<>> /\ Head(lock) = q /\ q # p => lock' # <<>> /\ Head(lock') = q
  BY <1>1, WithoutProperties
<1>3. task'[p] = Off /\ \A q \in Workers : q # p => task'[q] = task[q]
  BY <1>1
<1>4. ASSUME NEW q \in Workers
      PROVE  /\ Contains(lock', q) <=> task'[q].kind = "consolidate"
             /\ task'[q].kind = "consolidate" /\ task'[q].pc = "llm"
                  => lock' # <<>> /\ Head(lock') = q
  <2>1. CASE q = p
    BY <1>2, <1>3, <2>1, OffTypes
  <2>2. CASE q # p
    <3>1. task'[q] = task[q]
      BY <1>3, <2>2
    <3>2. Contains(lock, q) <=> task[q].kind = "consolidate"
      BY DEF LockInv
    <3>3. task[q].kind = "consolidate" /\ task[q].pc = "llm" => lock # <<>> /\ Head(lock) = q
      BY DEF LockInv
    <3> QED
      BY <1>2, <2>2, <3>1, <3>2, <3>3
  <2> QED
    BY <2>1, <2>2
<1> QED
  BY <1>2, <1>4 DEF LockInv

LEMMA LockAppended ==
  ASSUME SessionTypes, LockInv, NEW p \in Workers, task[p] = Off, NEW o \in Objects,
         task' = [task EXCEPT ![p] = Consolidating(o)], lock' = Append(lock, p)
  PROVE  LockInv' /\ lock' \in Seq(Workers) /\ Last(lock') = p
<1>1. lock \in Seq(Workers) /\ IsInjective(lock) /\ DOMAIN task = Workers
  BY DEF SessionTypes, LockInv
<1>2. Len(lock) \in Nat /\ DOMAIN lock = 1..Len(lock)
  BY <1>1, LenProperties
<1>3. /\ lock' \in Seq(Workers) /\ Len(lock') = Len(lock) + 1
      /\ \A i \in 1..Len(lock) : lock'[i] = lock[i]
      /\ lock'[Len(lock) + 1] = p
  BY <1>1, AppendProperties
<1>4. ~Contains(lock, p)
  BY OffTypes DEF LockInv
<1>5. DOMAIN lock' = 1..(Len(lock) + 1)
  BY <1>3, LenProperties
<1>6. \A i \in 1..(Len(lock) + 1) : i \in 1..Len(lock) \/ i = Len(lock) + 1
  BY <1>2
<1>7. IsInjective(lock')
  <2>1. \A i \in 1..Len(lock) : lock[i] # p
    BY <1>4 DEF Contains
  <2>2. \A i, j \in 1..Len(lock) : lock[i] = lock[j] => i = j
    BY <1>1, <1>2 DEF IsInjective
  <2>3. SUFFICES ASSUME NEW i \in 1..(Len(lock) + 1), NEW j \in 1..(Len(lock) + 1),
                        lock'[i] = lock'[j]
                 PROVE  i = j
    BY <1>5 DEF IsInjective
  <2> QED
    BY <1>3, <1>6, <2>1, <2>2, <2>3
<1>8. \A q : Contains(lock', q) <=> Contains(lock, q) \/ q = p
  <2>1. \A i \in 1..Len(lock) : i \in 1..(Len(lock) + 1)
    BY <1>2
  <2>2. Len(lock) + 1 \in 1..(Len(lock) + 1)
    BY <1>2
  <2> QED
    BY <1>3, <1>6, <2>1, <2>2 DEF Contains
<1>9. lock # <<>> => lock' # <<>> /\ Head(lock') = Head(lock)
  <2>1. ASSUME lock # <<>> PROVE lock' # <<>> /\ lock'[1] = lock[1]
    <3>1. 1 \in 1..Len(lock)
      BY <1>1, <1>2, <2>1, EmptySeq
    <3>2. lock' # <<>>
      BY <1>2, <1>3, EmptySeq
    <3> QED
      BY <1>3, <3>1, <3>2
  <2> QED
    BY <2>1
<1>10. task'[p] = Consolidating(o) /\ \A q \in Workers : q # p => task'[q] = task[q]
  BY <1>1
<1>11. ASSUME NEW q \in Workers
       PROVE  /\ Contains(lock', q) <=> task'[q].kind = "consolidate"
              /\ task'[q].kind = "consolidate" /\ task'[q].pc = "llm"
                   => lock' # <<>> /\ Head(lock') = q
  <2>1. CASE q = p
    BY <1>8, <1>10, <2>1, ConsolidatingType
  <2>2. CASE q # p
    <3>1. task'[q] = task[q]
      BY <1>10, <2>2
    <3>2. Contains(lock, q) <=> task[q].kind = "consolidate"
      BY DEF LockInv
    <3>3. task[q].kind = "consolidate" /\ task[q].pc = "llm" => lock # <<>> /\ Head(lock) = q
      BY DEF LockInv
    <3> QED
      BY <1>8, <1>9, <2>2, <3>1, <3>2, <3>3
  <2> QED
    BY <2>1, <2>2
<1>12. Last(lock') = p
  BY <1>3 DEF Last
<1> QED
  BY <1>3, <1>7, <1>11, <1>12 DEF LockInv

\* The one whose turn it is sends its next chunk.
LEMMA LockHeld ==
  ASSUME SessionTypes, LockInv, NEW p \in Workers, NEW t,
         task[p].kind = "consolidate", t.kind = "consolidate", Head(lock) = p,
         task' = [task EXCEPT ![p] = t], lock' = lock
  PROVE  LockInv'
<1>1. DOMAIN task = Workers /\ lock \in Seq(Workers)
  BY DEF SessionTypes
<1>2. task'[p] = t /\ \A q \in Workers : q # p => task'[q] = task[q]
  BY <1>1
<1>3. Contains(lock, p)
  BY DEF LockInv
<1>4. lock # <<>>
  BY <1>3 DEF Contains
<1>5. ASSUME NEW q \in Workers
      PROVE  /\ Contains(lock', q) <=> task'[q].kind = "consolidate"
             /\ task'[q].kind = "consolidate" /\ task'[q].pc = "llm"
                  => lock' # <<>> /\ Head(lock') = q
  <2>1. CASE q = p
    BY <1>2, <1>3, <1>4, <2>1
  <2>2. CASE q # p
    <3>1. task'[q] = task[q]
      BY <1>2, <2>2
    <3> QED
      BY <3>1 DEF LockInv
  <2> QED
    BY <2>1, <2>2
<1> QED
  BY <1>5 DEF LockInv

LEMMA NextWaiting ==
  ASSUME AllWaiting'
  PROVE  TaskInv' /\ FreshInv' /\ Archiving' = {}
<1>1. ASSUME NEW p \in Workers PROVE task'[p].kind # "archive"
  BY OffTypes DEF AllWaiting, Waiting
<1>2. Archiving' = {}
  BY <1>1 DEF Archiving, Workers
<1> QED
  BY <1>1, <1>2 DEF AllWaiting, TaskInv, FreshInv, Workers

LEMMA NowWaiting ==
  ASSUME AllWaiting
  PROVE  Archiving = {}
<1>1. ASSUME NEW p \in Workers PROVE task[p].kind # "archive"
  BY OffTypes DEF AllWaiting, Waiting
<1> QED
  BY <1>1 DEF Archiving, Workers

\* A turn, or a consolidation, has no maintenance beside it.
LEMMA BusyMode ==
  ASSUME TaskInv
  PROVE  /\ \A l \in Lanes : turn[l] # Idle => AllWaiting
         /\ \A p \in Workers : task[p].kind = "consolidate" => AllWaiting
<1>1. ASSUME NEW l \in Lanes, turn[l] # Idle PROVE AllWaiting
  BY <1>1 DEF TaskInv, Alone, AllWaiting
<1>2. ASSUME NEW p \in Workers, task[p].kind = "consolidate" PROVE AllWaiting
  <2>1. SUFFICES ASSUME NEW q \in Workers, Alone(q),
                        Maintaining(task[q], plan, store.cache, store.file)
                 PROVE  FALSE
    BY DEF TaskInv, AllWaiting
  <2>2. CASE q = p
    BY <1>2, <2>1, <2>2 DEF Maintaining
  <2>3. CASE q # p
    BY <1>2, <2>1, <2>3, OffTypes DEF Alone
  <2> QED
    BY <2>2, <2>3
<1> QED
  BY <1>1, <1>2

\* With no turn and no consolidation at work, the lock is free.
LEMMA FreeLock ==
  ASSUME SessionTypes, LockInv, \A p \in Workers : task[p].kind # "consolidate"
  PROVE  lock = <<>>
<1>1. lock \in Seq(Workers)
  BY DEF SessionTypes
<1>2. ASSUME lock # <<>> PROVE FALSE
  <2>1. 1 \in 1..Len(lock)
    BY <1>1, <1>2, EmptySeq
  <2>2. lock[1] \in Workers /\ Contains(lock, lock[1])
    BY <1>1, <2>1, ElementOfSeq DEF Contains
  <2> QED
    BY <2>2 DEF LockInv
<1> QED
  BY <1>2

LEMMA RestMode ==
  ASSUME SessionTypes, TurnInv, LockInv, AtRest
  PROVE  /\ \A p \in Workers : task[p] = Off
         /\ \A l \in Lanes : turn[l] = Idle
         /\ lock = <<>> /\ AllWaiting
<1>1. \A p \in Workers : task[p] = Off
  BY DEF AtRest, Workers
<1>2. \A l \in Lanes : turn[l] = Idle
  BY DEF AtRest, TurnInv
<1>3. lock = <<>>
  BY <1>1, FreeLock, OffTypes
<1> QED
  BY <1>1, <1>2, <1>3 DEF AllWaiting

\* What is begun of itself is begun at rest, where the plan is quiet.
LEMMA QuietMode ==
  ASSUME SessionTypes, TurnInv, LockInv, plan.quiet, Undisturbed
  PROVE  /\ \A p \in Workers : task[p] = Off
         /\ \A l \in Lanes : turn[l] = Idle
         /\ lock = <<>> /\ AllWaiting
BY RestMode DEF Undisturbed

\* While only maintenance is at work, the other parts of the invariant hold.
LEMMA NextRest ==
  ASSUME \A l \in Lanes : turn'[l] = Idle /\ task'[l] = Off,
         \A p \in Workers : task'[p].kind # "consolidate", lock' = <<>>
  PROVE  LockInv' /\ LaneInv' /\ TrimInv' /\ ChunkInv' /\ TurnInv'
<1>1. IsInjective(lock') /\ \A p : ~Contains(lock', p)
  <2>1. Len(<<>>) = 0
    OBVIOUS
  <2> QED
    BY <2>1, EmptyInjective DEF Contains
<1>2. LockInv'
  BY <1>1 DEF LockInv
<1>3. LaneInv'
  BY OffTypes DEF LaneInv, Workers
<1> QED
  BY <1>2, <1>3, OffTypes DEF TrimInv, ChunkInv, TurnInv

-----------------------------------------------------------------------------
(***************************************************************************)
(* Consolidation keeps the invariant                                       *)
(***************************************************************************)

\* A turn that trims leaves the lock to nobody.
LEMMA LockLeft ==
  ASSUME SessionTypes, LockInv, LaneInv, TrimInv, "trim" \in plan.ops,
         NEW p \in Lanes, task[p].kind = "consolidate",
         store.file.rows = <<>> \/ Head(lock) = p
  PROVE  Without(lock, p) = <<>>
<1>1. lock \in Seq(Workers) /\ IsInjective(lock) /\ Contains(lock, p)
  BY DEF SessionTypes, LockInv, Workers
<1>2. /\ Without(lock, p) \in Seq(Workers)
      /\ \A q : Contains(Without(lock, p), q) <=> Contains(lock, q) /\ q # p
  BY <1>1, WithoutProperties
<1>3. task[p] # Off /\ Last(lock) = p
  BY OffTypes DEF TrimInv
<1>4. turn[p].pc = "consolidating" /\ \A k \in Lanes \ {p} : turn[k] = Idle
  BY <1>3, OffTypes DEF LaneInv, TrimInv
<1>5. ASSUME NEW q \in Workers, Contains(lock, q), q # p PROVE FALSE
  <2>1. task[q].kind = "consolidate"
    BY <1>5 DEF LockInv
  <2>2. CASE Head(lock) = p
    <3>1. lock # <<>> /\ Len(lock) \in Nat /\ DOMAIN lock = 1..Len(lock)
      BY <1>1, LenProperties DEF Contains
    <3>2. 1 \in DOMAIN lock /\ Len(lock) \in DOMAIN lock
      BY <1>1, <3>1, EmptySeq
    <3>3. lock[1] = p /\ lock[Len(lock)] = p
      BY <1>3, <2>2, <3>1 DEF Last
    <3>4. Len(lock) = 1
      BY <1>1, <3>2, <3>3 DEF IsInjective
    <3> QED
      BY <1>5, <3>3, <3>4 DEF Contains
  <2>3. CASE store.file.rows = <<>>
    <3>1. q \notin Jobs
      BY <2>1, <2>3 DEF LaneInv
    <3>2. q \in Lanes /\ turn[q] = Idle
      BY <1>4, <1>5, <3>1 DEF Workers
    <3>3. turn[q].pc = "consolidating"
      BY <2>1, <3>2, OffTypes DEF LaneInv
    <3> QED
      BY <3>2, <3>3, OffTypes
  <2> QED
    BY <2>2, <2>3
<1>6. ASSUME Without(lock, p) # <<>> PROVE FALSE
  <2>1. 1 \in 1..Len(Without(lock, p))
    BY <1>2, <1>6, EmptySeq
  <2>2. Without(lock, p)[1] \in Workers /\ Contains(Without(lock, p), Without(lock, p)[1])
    BY <1>2, <2>1, ElementOfSeq DEF Contains
  <2> QED
    BY <1>2, <1>5, <2>2
<1> QED
  BY <1>6

LEMMA TrimReleased ==
  ASSUME SessionTypes, LockInv, TrimInv, AllWaiting, NEW p \in Workers,
         task' = [task EXCEPT ![p] = Off], lock' = Without(lock, p), plan' = plan,
         \A l \in Lanes : turn'[l] = turn[l] \/ turn'[l] = Idle,
         "trim" \in plan.ops /\ p \in Lanes /\ turn'[p] # Idle => lock' = <<>>
  PROVE  TrimInv'
<1>1. lock \in Seq(Workers) /\ IsInjective(lock) /\ DOMAIN task = Workers /\ Lanes \subseteq Workers
  BY DEF SessionTypes, LockInv, Workers
<1>2. \A q : lock # <<>> /\ Last(lock) = q /\ q # p => lock' # <<>> /\ Last(lock') = q
  BY <1>1, WithoutProperties
<1>3. lock = <<>> => lock' = <<>>
  <2>1. ASSUME lock = <<>> PROVE ~Contains(lock, p)
    <3>1. Len(lock) = 0
      BY <2>1
    <3> QED
      BY <3>1 DEF Contains
  <2> QED
    BY <2>1 DEF Without
<1>4. task'[p] = Off /\ \A q \in Workers : q # p => task'[q] = task[q]
  BY <1>1
<1>5. SUFFICES ASSUME "trim" \in plan.ops, NEW l \in Lanes
               PROVE  /\ turn'[l] # Idle => \A k \in Lanes \ {l} : turn'[k] = Idle
                      /\ task'[l] # Off => Last(lock') = l
                      /\ turn'[l] # Idle /\ task'[l] = Off => lock' = <<>>
  BY DEF TrimInv
<1>6. turn'[l] # Idle => \A k \in Lanes \ {l} : turn'[k] = Idle
  BY <1>5 DEF TrimInv
<1>7. CASE l = p
  BY <1>4, <1>5, <1>6, <1>7
<1>8. CASE l # p
  <2>1. task'[l] = task[l]
    BY <1>1, <1>4, <1>8
  <2>2. task[l] # Off => lock # <<>> /\ Last(lock) = l
    <3>1. ASSUME task[l] # Off PROVE lock # <<>>
      <4>1. Contains(lock, l)
        BY <1>1, <3>1 DEF AllWaiting, Waiting, LockInv
      <4> QED
        BY <4>1 DEF Contains
    <3> QED
      BY <1>5, <3>1 DEF TrimInv
  <2>3. turn'[l] # Idle /\ task[l] = Off => lock = <<>>
    BY <1>5 DEF TrimInv
  <2> QED
    BY <1>2, <1>3, <1>6, <1>8, <2>1, <2>2, <2>3
<1> QED
  BY <1>7, <1>8

\* What StoreInv says of the session file and of the object a task works on.
LEMMA CachedSession ==
  ASSUME StoreInv, store.cache # None
  PROVE  LET s == Session(store, store.cache) IN
         /\ s \in Contents /\ s.rows = store.file.rows /\ s.last = store.file.last
         /\ Len(s.rows) <= MaxRows
<1>1. next \in 1..(MaxRows + 1) /\ MaxRows \in Nat
  BY ConstantsAssumption DEF StoreInv, SessionTypes
<1>2. Len(store.file.rows) \in Nat /\ Len(store.file.rows) < next
  BY <1>1, GoodLength DEF StoreInv, RowsInv
<1>3. Len(store.file.rows) <= MaxRows
  BY <1>1, <1>2
<1> QED
  BY <1>3, CachedContent DEF StoreInv

LEMMA AcquireStep ==
  ASSUME StoreInv, NEW p \in Workers, Acquire(p)
  PROVE  StoreInv'
<1> DEFINE s == Session(store, task[p].obj)
           t == Chunk(p, s, 0, FALSE)
<1>1. /\ SessionTypes /\ TurnInv /\ TaskInv /\ LockInv /\ LaneInv /\ TrimInv /\ ChunkInv
      /\ StoreOK(store)
  BY DEF StoreInv
<1>2. task[p].kind = "consolidate" /\ task[p].pc = "lock"
  BY DEF Acquire
<1>3. AllWaiting
  BY <1>1, <1>2, BusyMode
<1>4. task[p].obj = store.cache /\ store.cache # None /\ task[p] # Off
  BY <1>2, <1>3, OffTypes DEF AllWaiting, Waiting
<1>5. /\ UNCHANGED <<plan, store, turn, archiving, summaries, history, evicted, next, used, said,
                     deleted>>
      /\ s.rows = <<>> \/ Head(lock) = p
      /\ \/ NextRound(s, 0) /\ s.rows # <<>> /\ task' = [task EXCEPT ![p] = t] /\ lock' = lock
         \/ task' = [task EXCEPT ![p] = Off] /\ lock' = Without(lock, p)
  BY DEF Acquire, Release, Without
<1>6. /\ s \in Contents /\ s.rows = store.file.rows /\ s.last = store.file.last
      /\ Len(s.rows) <= MaxRows
  BY <1>4, CachedSession
<1> HIDE DEF s
<1>7. DOMAIN task = Workers /\ Lanes \subseteq Workers /\ Jobs \subseteq Workers
  BY <1>1 DEF SessionTypes, Workers
<1>8. StoreOK(store)' /\ RowsInv' /\ TurnInv'
  BY <1>5 DEF StoreInv, RowsInv, TurnInv, StoreOK, Fits
<1>9. CASE /\ NextRound(s, 0) /\ s.rows # <<>>
           /\ task' = [task EXCEPT ![p] = t] /\ lock' = lock
  <2>1. 0 \in 0..MaxRounds /\ task[p] \in Tasks /\ Boundaries(s) # {} /\ FALSE \in BOOLEAN
    <3>1. MaxRounds \in Nat
      BY ConstantsAssumption
    <3> QED
      BY <1>1, <1>9, <3>1 DEF SessionTypes, NextRound
  <2>2. /\ t \in Tasks /\ t.kind = "consolidate" /\ t.pc = "llm" /\ t.obj = store.cache
        /\ Chunked(t, s)
    BY <1>2, <1>4, <1>6, <2>1, ChunkType
  <2> HIDE DEF t
  <2>3. t # Off
    BY <2>2, OffTypes
  <2>4. task'[p] = t /\ \A q \in Workers : q # p => task'[q] = task[q]
    BY <1>7, <1>9
  <2>5. AllWaiting'
    BY <1>3, <1>4, <1>5, <2>2, <2>4 DEF AllWaiting, Waiting
  <2>6. SessionTypes'
    BY <1>1, <1>5, <1>9, <2>2 DEF SessionTypes
  <2>7. LockInv'
    BY <1>1, <1>2, <1>5, <1>9, <2>2, LockHeld
  <2>8. LaneInv'
    BY <1>1, <1>2, <1>4, <1>5, <1>7, <2>4 DEF LaneInv
  <2>9. TrimInv'
    BY <1>1, <1>4, <1>5, <1>7, <1>9, <2>3, <2>4 DEF TrimInv
  <2>10. Chunked(t, store.file)
    BY <1>6, <2>2 DEF Chunked
  <2>11. ChunkInv'
    BY <1>1, <1>5, <2>4, <2>10 DEF ChunkInv
  <2>12. RowsKept'
    BY <1>3, <1>5, <2>5, NowWaiting, NextWaiting DEF StoreInv, RowsKept
  <2> QED
    BY <1>8, <2>5, <2>6, <2>7, <2>8, <2>9, <2>11, <2>12, NextWaiting DEF StoreInv
<1>10. CASE task' = [task EXCEPT ![p] = Off] /\ lock' = Without(lock, p)
  <2>1. task'[p] = Off /\ \A q \in Workers : q # p => task'[q] = task[q]
    BY <1>7, <1>10
  <2>2. AllWaiting'
    BY <1>3, <1>5, <2>1 DEF AllWaiting
  <2>3. LockInv' /\ lock' \in Seq(Workers)
    BY <1>1, <1>10, LockReleased
  <2>4. SessionTypes'
    BY <1>1, <1>5, <1>10, <2>3, OffTypes DEF SessionTypes
  <2>5. LaneInv'
    BY <1>1, <1>5, <1>7, <2>1, OffTypes DEF LaneInv
  <2>6. TrimInv'
    <3>1. ASSUME "trim" \in plan.ops, p \in Lanes PROVE lock' = <<>>
      BY <1>1, <1>2, <1>5, <1>6, <1>10, <3>1, LockLeft
    <3> QED
      BY <1>1, <1>3, <1>5, <1>10, <3>1, TrimReleased
  <2>7. ChunkInv'
    BY <1>1, <1>5, <2>1, OffTypes DEF ChunkInv
  <2>8. RowsKept'
    BY <1>3, <1>5, <2>2, NowWaiting, NextWaiting DEF StoreInv, RowsKept
  <2> QED
    BY <1>8, <2>2, <2>3, <2>4, <2>5, <2>6, <2>7, <2>8, NextWaiting DEF StoreInv
<1> QED
  BY <1>5, <1>9, <1>10

LEMMA ConsolidatedStep ==
  ASSUME StoreInv, NEW p \in Workers, NEW ok \in BOOLEAN, Consolidated(p, ok)
  PROVE  StoreInv'
<1> DEFINE o == task[p].obj
           advanced == Saved(With(store, o, [Session(store, o) EXCEPT !.last = task[p].end]), o)
           s == Session(advanced, o)
           summary == ok \/ task[p].summary
           noted == Saved(With(advanced, o, [s EXCEPT !.summary = TRUE]), o)
           t == Chunk(p, s, task[p].round + 1, summary)
           rows == store.file.rows
<1>1. /\ SessionTypes /\ TurnInv /\ TaskInv /\ LockInv /\ LaneInv /\ TrimInv /\ ChunkInv
      /\ StoreOK(store)
  BY DEF StoreInv
<1>2. task[p].kind = "consolidate" /\ task[p].pc = "llm"
  BY DEF Consolidated
<1>3. AllWaiting
  BY <1>1, <1>2, BusyMode
<1>4. o = store.cache /\ store.cache # None /\ task[p] # Off
  BY <1>2, <1>3, OffTypes DEF AllWaiting, Waiting
<1>5. Head(lock) = p /\ Chunked(task[p], store.file)
  BY <1>1, <1>2 DEF LockInv, ChunkInv
<1>6. /\ UNCHANGED <<plan, turn, archiving, summaries, evicted, next, used, deleted>>
      /\ history' = history \o task[p].chunk
      /\ said' = said \cup ToSet(store'.file.rows)
      /\ \/ /\ NextRound(s, task[p].round + 1)
            /\ task' = [task EXCEPT ![p] = t] /\ lock' = lock /\ store' = advanced
         \/ /\ task' = [task EXCEPT ![p] = Off] /\ lock' = Without(lock, p)
            /\ store' = noted \/ store' = advanced
  BY DEF Consolidated, Release, Without, Put
<1>7. task[p] \in Tasks /\ DOMAIN task = Workers /\ Lanes \subseteq Workers /\ Jobs \subseteq Workers
  BY <1>1 DEF SessionTypes, Workers
<1>8. task[p].end \in 0..MaxRows /\ task[p].round \in 0..MaxRounds /\ summary \in BOOLEAN
  BY <1>7 DEF Tasks
<1>9. /\ StoreOK(advanced) /\ advanced.cache = store.cache
      /\ advanced.file.rows = rows /\ advanced.file.last = task[p].end
  BY <1>1, <1>4, <1>8, AdvancedOK
<1> HIDE DEF advanced
<1>10. /\ s \in Contents /\ s.rows = rows /\ s.last = task[p].end
  BY <1>4, <1>9, CachedContent
<1>11. /\ StoreOK(noted) /\ noted.cache = store.cache
       /\ noted.file.rows = rows /\ noted.file.last = task[p].end
  BY <1>4, <1>9, NotedOK
<1> HIDE DEF noted, s, summary, o
<1>12. /\ StoreOK(store') /\ store'.cache = store.cache
       /\ store'.file.rows = rows /\ store'.file.last = task[p].end
  BY <1>6, <1>9, <1>11
<1>13. /\ Good(rows, task[p].end, history', deleted, next)
       /\ ToSet(history) \subseteq ToSet(history')
  <2>1. /\ task[p].end \in Nat /\ store.file.last < task[p].end /\ task[p].end < Len(rows)
        /\ rows[task[p].end + 1].role = "user"
        /\ task[p].chunk = SubSeq(rows, store.file.last + 1, task[p].end)
    BY <1>5, <1>8 DEF Chunked
  <2>2. Good(rows, store.file.last, history, deleted, next)
    BY DEF StoreInv, RowsInv
  <2> HIDE DEF rows
  <2> QED
    BY <1>6, <2>1, <2>2, GoodArchive
<1>14. RowsInv' /\ StoreOK(store)'
  BY <1>6, <1>12, <1>13 DEF RowsInv, StoreOK, Fits
<1>15. TurnInv'
  BY <1>1, <1>6, <1>12 DEF TurnInv
<1>16. said' \in SUBSET Row
  <2>1. rows \in Seq(Row)
    BY <1>13 DEF Good
  <2>2. ToSet(rows) \subseteq Row
    BY <2>1, LenProperties, ElementOfSeq DEF ToSet
  <2> QED
    BY <1>1, <1>6, <1>12, <2>2 DEF SessionTypes
<1>17. ASSUME AllWaiting' PROVE RowsKept'
  <2>1. Archiving = {} /\ Archiving' = {}
    BY <1>3, <1>17, NowWaiting, NextWaiting
  <2>2. said \subseteq ToSet(rows) \cup ToSet(history) \cup evicted \cup deleted \cup Archiving
    BY DEF StoreInv, RowsKept
  <2> QED
    BY <1>6, <1>12, <1>13, <2>1, <2>2 DEF RowsKept
<1>18. \A q \in Workers : q # p => ~(task[q].kind = "consolidate" /\ task[q].pc = "llm")
  BY <1>1, <1>5 DEF LockInv
<1>19. CASE /\ NextRound(s, task[p].round + 1)
            /\ task' = [task EXCEPT ![p] = t] /\ lock' = lock
  <2>1. task[p].round + 1 \in 0..MaxRounds /\ Boundaries(s) # {} /\ Len(s.rows) <= MaxRows
    <3>1. MaxRounds \in Nat /\ MaxRows \in Nat
      BY ConstantsAssumption
    <3>2. task[p].round + 1 < MaxRounds
      BY <1>19 DEF NextRound
    <3>3. Len(rows) < next /\ Len(rows) \in Nat /\ next \in 1..(MaxRows + 1)
      BY <1>1, GoodLength DEF SessionTypes, StoreInv, RowsInv
    <3>4. Len(rows) <= MaxRows
      BY <3>1, <3>3
    <3> QED
      BY <1>8, <1>10, <1>19, <3>1, <3>2, <3>4 DEF NextRound
  <2>2. /\ t \in Tasks /\ t.kind = "consolidate" /\ t.pc = "llm" /\ t.obj = store.cache
        /\ Chunked(t, s)
    BY <1>2, <1>4, <1>7, <1>8, <1>10, <2>1, ChunkType DEF o
  <2> HIDE DEF t
  <2>3. t # Off
    BY <2>2, OffTypes
  <2>4. task'[p] = t /\ \A q \in Workers : q # p => task'[q] = task[q]
    BY <1>7, <1>19
  <2>5. AllWaiting'
    BY <1>3, <1>4, <1>12, <2>2, <2>4 DEF AllWaiting, Waiting
  <2>6. SessionTypes'
    BY <1>1, <1>6, <1>16, <1>19, <2>2 DEF SessionTypes
  <2>7. LockInv'
    BY <1>1, <1>2, <1>5, <1>19, <2>2, LockHeld
  <2>8. LaneInv'
    BY <1>1, <1>2, <1>4, <1>6, <1>7, <1>12, <2>4 DEF LaneInv
  <2>9. TrimInv'
    BY <1>1, <1>4, <1>6, <1>7, <1>19, <2>3, <2>4 DEF TrimInv
  <2>10. Chunked(t, store'.file)
    BY <1>10, <1>12, <2>2 DEF Chunked
  <2>11. ChunkInv'
    BY <1>18, <2>4, <2>10 DEF ChunkInv
  <2> QED
    BY <1>14, <1>15, <1>17, <2>5, <2>6, <2>7, <2>8, <2>9, <2>11, NextWaiting DEF StoreInv
<1>20. CASE task' = [task EXCEPT ![p] = Off] /\ lock' = Without(lock, p)
  <2>1. task'[p] = Off /\ \A q \in Workers : q # p => task'[q] = task[q]
    BY <1>7, <1>20
  <2>2. AllWaiting'
    BY <1>3, <1>12, <2>1 DEF AllWaiting
  <2>3. LockInv' /\ lock' \in Seq(Workers)
    BY <1>1, <1>20, LockReleased
  <2>4. SessionTypes'
    BY <1>1, <1>6, <1>16, <1>20, <2>3, OffTypes DEF SessionTypes
  <2>5. LaneInv'
    BY <1>1, <1>6, <1>7, <1>12, <2>1, OffTypes DEF LaneInv
  <2>6. TrimInv'
    <3>1. ASSUME "trim" \in plan.ops, p \in Lanes PROVE lock' = <<>>
      BY <1>1, <1>2, <1>5, <1>20, <3>1, LockLeft
    <3> QED
      BY <1>1, <1>3, <1>6, <1>20, <3>1, TrimReleased
  <2>7. ChunkInv'
    BY <1>18, <2>1, OffTypes DEF ChunkInv
  <2> QED
    BY <1>14, <1>15, <1>17, <2>2, <2>3, <2>4, <2>5, <2>6, <2>7, NextWaiting DEF StoreInv
<1> QED
  BY <1>6, <1>19, <1>20

-----------------------------------------------------------------------------
(***************************************************************************)
(* Turns keep the invariant                                                *)
(***************************************************************************)

LEMMA RowsAreRows == \A rows \in Seq(Row) : ToSet(rows) \subseteq Row
BY LenProperties, ElementOfSeq DEF ToSet

\* A row more at the end of the file: what consolidations hold stays in place.
LEMMA FileGrows ==
  ASSUME StoreInv, next \in 1..MaxRows, NEW role \in {"user", "assistant"},
         store.file.rows = <<>> => role = "user", NEW f,
         f.rows = Append(store.file.rows, [role |-> role, n |-> next]),
         f.last = store.file.last
  PROVE  /\ Good(f.rows, f.last, history, deleted, next + 1)
         /\ f.rows # <<>> /\ ToSet(f.rows) \subseteq Row
         /\ ToSet(store.file.rows) \subseteq ToSet(f.rows)
         /\ \A t \in Tasks : Chunked(t, store.file) => Chunked(t, f)
<1> DEFINE rows == store.file.rows
           last == store.file.last
           row == [role |-> role, n |-> next]
           more == Append(rows, row)
<1>1. Good(rows, last, history, deleted, next)
  BY DEF StoreInv, RowsInv
<1>2. /\ Good(more, last, history, deleted, next + 1)
      /\ ToSet(more) = ToSet(rows) \cup {row}
      /\ Len(more) = Len(rows) + 1 /\ \A i \in 1..Len(rows) : more[i] = rows[i]
  <2> HIDE DEF rows, last
  <2>1. rows = <<>> => role = "user"
    BY DEF rows
  <2> QED
    BY <1>1, <2>1, GoodAppend
<1>3. f.rows = more /\ f.last = last
  OBVIOUS
<1> HIDE DEF rows, last, row, more
<1>4. rows \in Seq(Row) /\ more \in Seq(Row) /\ last \in Nat
  BY <1>1, <1>2 DEF Good
<1>5. Len(rows) \in Nat /\ Len(more) = Len(rows) + 1
  BY <1>2, <1>4, LenProperties
<1>6. more # <<>>
  BY <1>4, <1>5, EmptySeq
<1>7. ASSUME NEW e \in Nat, last < e, e < Len(rows)
      PROVE  /\ e < Len(more) /\ more[e + 1] = rows[e + 1]
             /\ SubSeq(rows, last + 1, e) = SubSeq(more, last + 1, e)
  <2>1. /\ e < Len(more) /\ e + 1 \in 1..Len(rows) /\ e <= Len(rows)
        /\ e <= Len(more) /\ last + 1 \in Nat \ {0} /\ last + 1 <= e + 1
    BY <1>4, <1>5, <1>7
  <2>2. more[e + 1] = rows[e + 1]
    BY <1>2, <2>1
  <2> DEFINE a == SubSeq(rows, last + 1, e)
             b == SubSeq(more, last + 1, e)
  <2>3. /\ a \in Seq(Row) /\ Len(a) = e - (last + 1) + 1
        /\ \A i \in 1..(e - (last + 1) + 1) : a[i] = rows[(last + 1) + i - 1]
    BY <1>4, <2>1, SubSeqRows
  <2>4. /\ b \in Seq(Row) /\ Len(b) = e - (last + 1) + 1
        /\ \A i \in 1..(e - (last + 1) + 1) : b[i] = more[(last + 1) + i - 1]
    BY <1>4, <2>1, SubSeqRows
  <2> HIDE DEF a, b
  <2>5. ASSUME NEW i \in 1..Len(a) PROVE a[i] = b[i]
    <3>1. i \in 1..(e - (last + 1) + 1)
      BY <2>3
    <3>2. (last + 1) + i - 1 \in 1..Len(rows)
      BY <1>4, <1>5, <2>1, <3>1
    <3> QED
      BY <1>2, <2>3, <2>4, <3>1, <3>2
  <2>6. a = b
    BY <2>3, <2>4, <2>5, SeqEqual
  <2> QED
    BY <2>1, <2>2, <2>6 DEF a, b
<1>8. ASSUME NEW t \in Tasks, Chunked(t, store.file) PROVE Chunked(t, f)
  <2>1. t.end \in Nat
    BY DEF Tasks
  <2>2. /\ last < t.end /\ t.end < Len(rows) /\ rows[t.end + 1].role = "user"
        /\ t.chunk = SubSeq(rows, last + 1, t.end)
    BY <1>8 DEF Chunked, rows, last
  <2>3. /\ t.end < Len(more) /\ more[t.end + 1] = rows[t.end + 1]
        /\ SubSeq(rows, last + 1, t.end) = SubSeq(more, last + 1, t.end)
    BY <1>7, <2>1, <2>2
  <2> QED
    BY <1>3, <2>2, <2>3 DEF Chunked
<1>9. ToSet(more) \subseteq Row
  BY <1>4, RowsAreRows
<1> QED
  BY <1>2, <1>3, <1>6, <1>8, <1>9 DEF rows

\* A turn's object, and what is at work beside it.
LEMMA LaneMode ==
  ASSUME StoreInv, NEW l \in Lanes, turn[l].pc \in {"consolidating", "running"}
  PROVE  /\ AllWaiting /\ turn[l] # Idle /\ l \in plan.lanes
         /\ turn[l].obj = store.cache /\ store.cache # None
<1>1. turn[l] # Idle
  BY OffTypes
<1> QED
  BY <1>1, BusyMode DEF StoreInv, TurnInv

\* What a turn, or /new, finds in the session it fetches.
LEMMA FetchedFile ==
  ASSUME StoreInv, Fetches
  PROVE  /\ StoreOK(Prepared) /\ Prepared.cache # None /\ Prepared.cache \in Objects
         /\ store.cache # None => Prepared.cache = store.cache
         /\ next' \in 1..(MaxRows + 1)
         /\ Good(Prepared.file.rows, Prepared.file.last, history, deleted, next')
         /\ store.file.rows # <<>> => Prepared.file.rows # <<>>
         /\ ToSet(Prepared.file.rows) \subseteq Row
         /\ ToSet(store.file.rows) \subseteq ToSet(Prepared.file.rows)
         /\ \A t \in Tasks : Chunked(t, store.file) => Chunked(t, Prepared.file)
<1> DEFINE rows == store.file.rows
<1>1. SessionTypes /\ StoreOK(store)
  BY DEF StoreInv
<1>2. /\ next + 2 <= MaxRows \/ (~Closes /\ next + 1 <= MaxRows)
      /\ next' = IF Closes THEN next + 1 ELSE next
  BY DEF Fetches
<1>3. next \in Nat \ {0} /\ MaxRows \in Nat
  BY <1>1, ConstantsAssumption DEF SessionTypes
<1>4. Closes => next \in 1..MaxRows
  BY <1>2, <1>3
<1>5. next' \in 1..(MaxRows + 1)
  BY <1>2, <1>3
<1>6. /\ StoreOK(Prepared) /\ Prepared.cache # None
      /\ store.cache # None => Prepared.cache = store.cache
      /\ Prepared.file.last = store.file.last
  BY <1>1, <1>3, <1>4, PreparedOK
<1>7. /\ Closes => rows # <<>> /\ Prepared.file.rows = Append(rows, [role |-> "assistant", n |-> next])
      /\ ~Closes => Prepared.file.rows = rows
  BY <1>1, <1>3, <1>4, PreparedOK
<1>8. Prepared.cache \in Objects
  <2>1. Prepared \in Stores
    BY <1>6 DEF StoreOK
  <2> QED
    BY <2>1, StoreFields
<1>9. /\ Good(Prepared.file.rows, Prepared.file.last, history, deleted, next')
      /\ rows # <<>> => Prepared.file.rows # <<>>
      /\ ToSet(Prepared.file.rows) \subseteq Row
      /\ ToSet(rows) \subseteq ToSet(Prepared.file.rows)
      /\ \A t \in Tasks : Chunked(t, store.file) => Chunked(t, Prepared.file)
  <2>1. CASE Closes
    <3>1. next' = next + 1 /\ next \in 1..MaxRows
      BY <1>2, <1>4, <2>1
    <3>2. rows # <<>> /\ Prepared.file.rows = Append(rows, [role |-> "assistant", n |-> next])
      BY <1>7, <2>1
    <3> QED
      BY <1>6, <3>1, <3>2, FileGrows
  <2>2. CASE ~Closes
    <3>1. next' = next /\ Prepared.file.rows = rows
      BY <1>2, <1>7, <2>2
    <3>2. Good(rows, store.file.last, history, deleted, next) /\ rows \in Seq(Row)
      BY DEF StoreInv, RowsInv, Good
    <3> QED
      BY <1>6, <3>1, <3>2, RowsAreRows DEF Chunked
  <2> QED
    BY <2>1, <2>2
<1> QED
  BY <1>5, <1>6, <1>8, <1>9

LEMMA BeginStep ==
  ASSUME StoreInv, Steady(plan), NEW l \in Lanes, Begin(l)
  PROVE  StoreInv'
<1> DEFINE rows == store.file.rows
           o == Prepared.cache
<1>1. /\ SessionTypes /\ TurnInv /\ TaskInv /\ LockInv /\ LaneInv /\ TrimInv /\ ChunkInv
      /\ StoreOK(store)
  BY DEF StoreInv
<1>2. /\ l \in plan.lanes /\ turn[l].pc = "idle" /\ Undisturbed
      /\ next + 2 <= MaxRows \/ (~Closes /\ next + 1 <= MaxRows)
      /\ next' = IF Closes THEN next + 1 ELSE next
      /\ summaries' = FALSE
      /\ store' = Prepared /\ said' = said \cup ToSet(Prepared.file.rows)
      /\ turn' = [turn EXCEPT ![l] = [pc |-> "consolidating", obj |-> o]]
      /\ task' = [task EXCEPT ![l] = Consolidating(o)]
      /\ lock' = Append(lock, l)
      /\ UNCHANGED <<plan, archiving, history, evicted, used, deleted>>
  BY DEF Begin, Fetches, Put
<1>6. turn[l] = Idle /\ task[l] = Off
  BY <1>1, <1>2 DEF TurnInv, LaneInv
<1>7. AllWaiting
  <2>1. CASE plan.quiet
    BY <1>1, <1>2, <2>1, QuietMode
  <2>2. CASE ~plan.quiet
    BY <1>1, <2>2 DEF TaskInv, AllWaiting, Maintaining
  <2> QED
    BY <2>1, <2>2
<1>8. Fetches
  BY DEF Begin
<1>9. /\ StoreOK(Prepared) /\ o # None /\ o \in Objects
      /\ store.cache # None => o = store.cache
  BY <1>8, FetchedFile
<1>10. next' \in 1..(MaxRows + 1)
  BY <1>8, FetchedFile
<1> HIDE DEF o
<1>11. /\ Good(Prepared.file.rows, Prepared.file.last, history, deleted, next')
       /\ rows # <<>> => Prepared.file.rows # <<>>
       /\ ToSet(Prepared.file.rows) \subseteq Row
       /\ ToSet(rows) \subseteq ToSet(Prepared.file.rows)
       /\ \A t \in Tasks : Chunked(t, store.file) => Chunked(t, Prepared.file)
  BY <1>8, FetchedFile
<1>12. DOMAIN task = Workers /\ DOMAIN turn = Lanes /\ Lanes \subseteq Workers /\ Jobs \subseteq Workers
  BY <1>1 DEF SessionTypes, Workers
<1>13. task'[l] = Consolidating(o) /\ \A q \in Workers : q # l => task'[q] = task[q]
  BY <1>2, <1>12
<1>14. /\ turn'[l].pc = "consolidating" /\ turn'[l].obj = o
       /\ \A k \in Lanes : k # l => turn'[k] = turn[k]
  BY <1>2, <1>12
<1>15. /\ Consolidating(o) \in Tasks /\ Consolidating(o).kind = "consolidate"
       /\ Consolidating(o).pc = "lock" /\ Consolidating(o).obj = o
  BY <1>9, ConsolidatingType
<1>16. AllWaiting'
  BY <1>2, <1>7, <1>9, <1>13, <1>15 DEF AllWaiting, Waiting, o
<1>17. LockInv' /\ lock' \in Seq(Workers) /\ Last(lock') = l
  BY <1>1, <1>2, <1>6, <1>9, <1>12, LockAppended
<1>18. SessionTypes'
  <2>1. turn' \in [Lanes -> Turns]
    BY <1>1, <1>2, <1>9 DEF SessionTypes, Turns
  <2>2. task' \in [Workers -> Tasks]
    BY <1>1, <1>2, <1>15 DEF SessionTypes
  <2> QED
    BY <1>1, <1>2, <1>10, <1>11, <1>17, <2>1, <2>2 DEF SessionTypes
<1>19. TurnInv'
  BY <1>1, <1>2, <1>9, <1>14 DEF TurnInv, o
<1>20. LaneInv'
  <2>1. \A k \in Lanes : task'[k] # Off => turn'[k].pc = "consolidating"
    BY <1>1, <1>12, <1>13, <1>14 DEF LaneInv
  <2>2. \A k \in Lanes : turn'[k].pc = "running" => store'.file.rows # <<>>
    BY <1>1, <1>2, <1>11, <1>14 DEF LaneInv
  <2>3. \A j \in Jobs : task'[j].kind = "consolidate" => store'.file.rows # <<>>
    <3>1. l \notin Jobs
      BY ConstantsAssumption
    <3> QED
      BY <1>1, <1>2, <1>11, <1>12, <1>13, <3>1 DEF LaneInv
  <2> QED
    BY <2>1, <2>2, <2>3 DEF LaneInv
<1>21. TrimInv'
  <2>1. SUFFICES ASSUME "trim" \in plan.ops, NEW k \in Lanes
                 PROVE  /\ turn'[k] # Idle => \A m \in Lanes \ {k} : turn'[m] = Idle
                        /\ task'[k] # Off => Last(lock') = k
                        /\ turn'[k] # Idle /\ task'[k] = Off => lock' = <<>>
    BY <1>2 DEF TrimInv
  <2>2. ASSUME NEW m \in Lanes \ {l} PROVE turn[m] = Idle
    <3>1. CASE plan.quiet
      BY <1>1, <1>2, <3>1, QuietMode
    <3>2. CASE plan.lanes # Lanes
      <4>1. plan.lanes \subseteq Lanes /\ Lanes = {"dispatch", "direct"}
        <5>1. plan \in Plans
          BY <1>1 DEF SessionTypes
        <5> QED
          BY <5>1, ConstantsAssumption
      <4>2. m \notin plan.lanes
        BY <1>2, <2>2, <3>2, <4>1
      <4> QED
        BY <1>1, <2>2, <4>2 DEF TurnInv
    <3> QED
      BY <2>1, <3>1, <3>2 DEF Steady
  <2>3. CASE k = l
    <3>1. Consolidating(o) # Off
      BY <1>15, OffTypes
    <3> QED
      BY <1>13, <1>14, <1>17, <2>2, <2>3, <3>1
  <2>4. CASE k # l
    <3>1. turn'[k] = Idle /\ task'[k] = task[k] /\ turn[k] = Idle
      BY <1>12, <1>13, <1>14, <2>2, <2>4
    <3>2. task[k] = Off
      BY <1>1, <3>1, OffTypes DEF LaneInv
    <3> QED
      BY <3>1, <3>2
  <2> QED
    BY <2>3, <2>4
<1>22. ChunkInv'
  <2>1. ASSUME NEW q \in Workers, task'[q].kind = "consolidate", task'[q].pc = "llm"
        PROVE  Chunked(task'[q], store'.file)
    <3>1. q # l /\ task'[q] = task[q]
      BY <1>13, <1>15, <2>1
    <3>2. Chunked(task[q], store.file) /\ task[q] \in Tasks
      BY <1>1, <2>1, <3>1 DEF ChunkInv, SessionTypes
    <3> QED
      BY <1>2, <1>11, <3>1, <3>2
  <2> QED
    BY <2>1 DEF ChunkInv
<1>23. RowsInv' /\ StoreOK(store)'
  BY <1>2, <1>9, <1>11 DEF RowsInv, StoreOK, Fits
<1>24. RowsKept'
  <2>1. Archiving = {} /\ Archiving' = {}
    BY <1>7, <1>16, NowWaiting, NextWaiting
  <2>2. said \subseteq ToSet(rows) \cup ToSet(history) \cup evicted \cup deleted \cup Archiving
    BY DEF StoreInv, RowsKept
  <2> QED
    BY <1>2, <1>11, <2>1, <2>2 DEF RowsKept
<1> QED
  BY <1>16, <1>17, <1>18, <1>19, <1>20, <1>21, <1>22, <1>23, <1>24, NextWaiting DEF StoreInv

LEMMA PromptStep ==
  ASSUME StoreInv, NEW l \in Lanes, Prompt(l)
  PROVE  StoreInv'
<1> DEFINE rows == store.file.rows
           o == turn[l].obj
           added == AddRow(store, o, "user", TRUE)
<1>1. /\ SessionTypes /\ TurnInv /\ TaskInv /\ LockInv /\ LaneInv /\ TrimInv /\ ChunkInv
      /\ StoreOK(store)
  BY DEF StoreInv
<1>2. /\ turn[l].pc = "consolidating" /\ task[l] = Off /\ next < MaxRows
      /\ store' = added /\ said' = said \cup ToSet(added.file.rows)
      /\ next' = next + 1 /\ turn' = [turn EXCEPT ![l].pc = "running"]
      /\ UNCHANGED <<plan, task, lock, archiving, summaries, history, evicted, used, deleted>>
  BY DEF Prompt, Put
<1>3. next \in 1..MaxRows /\ next' \in 1..(MaxRows + 1)
  <2>1. next \in Nat \ {0} /\ MaxRows \in Nat
    BY <1>1, ConstantsAssumption DEF SessionTypes
  <2> QED
    BY <1>2, <2>1
<1>4. AllWaiting /\ turn[l] # Idle /\ l \in plan.lanes /\ o = store.cache /\ store.cache # None
  BY <1>2, LaneMode
<1>5. /\ StoreOK(added) /\ added.cache = store.cache
      /\ added.file.rows = Append(rows, [role |-> "user", n |-> next])
      /\ added.file.last = store.file.last
  BY <1>1, <1>3, <1>4, AddRowOK
<1> HIDE DEF added, o
<1>6. /\ Good(added.file.rows, added.file.last, history, deleted, next + 1)
      /\ added.file.rows # <<>> /\ ToSet(added.file.rows) \subseteq Row
      /\ ToSet(rows) \subseteq ToSet(added.file.rows)
      /\ \A t \in Tasks : Chunked(t, store.file) => Chunked(t, added.file)
  BY <1>3, <1>5, FileGrows
<1>7. DOMAIN turn = Lanes /\ turn[l] \in Turns
  BY <1>1 DEF SessionTypes
<1>8. /\ turn'[l] \in Turns /\ turn'[l].pc = "running" /\ turn'[l].obj = store.cache
      /\ \A k \in Lanes : k # l => turn'[k] = turn[k]
  BY <1>2, <1>4, <1>7 DEF Turns, o
<1>9. AllWaiting'
  BY <1>2, <1>4, <1>5 DEF AllWaiting, Waiting
<1>10. SessionTypes'
  <2>1. turn' \in [Lanes -> Turns]
    BY <1>1, <1>2, <1>8 DEF SessionTypes
  <2> QED
    BY <1>1, <1>2, <1>3, <1>6, <2>1 DEF SessionTypes
<1>11. TurnInv'
  BY <1>1, <1>2, <1>4, <1>5, <1>8 DEF TurnInv
<1>12. LockInv'
  BY <1>1, <1>2 DEF LockInv
<1>13. LaneInv'
  BY <1>1, <1>2, <1>6, <1>8 DEF LaneInv
<1>14. TrimInv'
  BY <1>1, <1>2, <1>4, <1>8 DEF TrimInv
<1>15. ChunkInv'
  <2>1. ASSUME NEW q \in Workers, task'[q].kind = "consolidate", task'[q].pc = "llm"
        PROVE  Chunked(task'[q], store'.file)
    BY <1>1, <1>2, <1>6, <2>1 DEF ChunkInv, SessionTypes
  <2> QED
    BY <2>1 DEF ChunkInv
<1>16. RowsInv' /\ StoreOK(store)'
  BY <1>2, <1>5, <1>6 DEF RowsInv, StoreOK, Fits
<1>17. RowsKept'
  <2>1. Archiving = {} /\ Archiving' = {}
    BY <1>4, <1>9, NowWaiting, NextWaiting
  <2>2. said \subseteq ToSet(rows) \cup ToSet(history) \cup evicted \cup deleted \cup Archiving
    BY DEF StoreInv, RowsKept
  <2> QED
    BY <1>2, <1>6, <2>1, <2>2 DEF RowsKept
<1> QED
  BY <1>9, <1>10, <1>11, <1>12, <1>13, <1>14, <1>15, <1>16, <1>17, NextWaiting DEF StoreInv

\* What a trim leaves is good, and what it drops it moves to the transcript.
LEMMA FileTrimmed ==
  ASSUME NEW rows, NEW last, NEW hist, NEW del, NEW nx, Good(rows, last, hist, del, nx),
         rows # <<>>
  PROVE  /\ Good(Recent(rows), TrimmedLast(rows, last), hist, del, nx)
         /\ Recent(rows) # <<>>
         /\ ToSet(rows) = ToSet(Recent(rows)) \cup ToSet(Older(rows))
<1>1. rows \in Seq(Row) /\ last \in Nat
  BY DEF Good
<1>2. PICK k \in 1..Len(rows) :
        /\ Recent(rows) = SubSeq(rows, k, Len(rows))
        /\ Older(rows) = SubSeq(rows, 1, k - 1)
        /\ k = 1 \/ rows[k].role = "user"
  BY <1>1, RecentProperties
<1>3. /\ ToSet(rows) = ToSet(Older(rows)) \cup ToSet(Recent(rows))
      /\ Len(Older(rows)) = k - 1 /\ Len(Recent(rows)) = Len(rows) - k + 1
      /\ Recent(rows) \in Seq(Row)
  BY <1>1, <1>2, CutSets
<1>4. Len(rows) \in Nat /\ k \in Nat
  BY <1>1, LenProperties
<1>5. Recent(rows) # <<>>
  <2>1. Len(Recent(rows)) # 0
    BY <1>3, <1>4
  <2> QED
    BY <2>1
<1>6. /\ TrimmedLast(rows, last) \in Nat
      /\ last > k - 1 => TrimmedLast(rows, last) = last - (k - 1)
      /\ ~(last > k - 1) => TrimmedLast(rows, last) = 0
  <2>1. CASE last > k - 1
    <3>1. TrimmedLast(rows, last) = last - (k - 1)
      BY <1>3, <2>1 DEF TrimmedLast
    <3> QED
      BY <1>1, <1>4, <2>1, <3>1
  <2>2. CASE ~(last > k - 1)
    <3>1. TrimmedLast(rows, last) = 0
      BY <1>3, <2>2 DEF TrimmedLast
    <3> QED
      BY <2>2, <3>1
  <2> QED
    BY <2>1, <2>2
<1>7. Good(SubSeq(rows, k, Len(rows)), TrimmedLast(rows, last), hist, del, nx)
  BY <1>2, <1>6, GoodTrim
<1> QED
  BY <1>2, <1>3, <1>5, <1>7

LEMMA EndStep ==
  ASSUME StoreInv, NEW l \in Lanes, End(l)
  PROVE  StoreInv'
<1> DEFINE rows == store.file.rows
           o == turn[l].obj
           answered == AddRow(store, o, "assistant", FALSE)
           older == Older(Session(Opened(answered), Opened(answered).cache).rows)
           trims == "trim" \in plan.ops
<1>1. /\ SessionTypes /\ TurnInv /\ TaskInv /\ LockInv /\ LaneInv /\ TrimInv /\ ChunkInv
      /\ StoreOK(store)
  BY DEF StoreInv
<1>2. PICK j \in Jobs : /\ task[j] = Off
                        /\ task' = [task EXCEPT ![j] = Consolidating(o)]
                        /\ lock' = Append(lock, j)
  BY DEF End
<1>3. /\ turn[l].pc = "running" /\ next <= MaxRows
      /\ trims => store' = Trimmed(answered) /\ evicted' = evicted \cup ToSet(older)
      /\ ~trims => store' = answered /\ evicted' = evicted
      /\ said' = said \cup ToSet(answered.file.rows)
      /\ next' = next + 1 /\ turn' = [turn EXCEPT ![l] = Idle]
      /\ UNCHANGED <<plan, archiving, summaries, history, used, deleted>>
  BY DEF End
<1>4. next \in 1..MaxRows /\ next' \in 1..(MaxRows + 1)
  <2>1. next \in Nat \ {0} /\ MaxRows \in Nat
    BY <1>1, ConstantsAssumption DEF SessionTypes
  <2> QED
    BY <1>3, <2>1
<1>5. AllWaiting /\ turn[l] # Idle /\ o = store.cache /\ store.cache # None
  BY <1>3, LaneMode
<1>6. rows # <<>> /\ task[l] = Off
  <2>1. turn[l].pc # "consolidating"
    BY <1>3
  <2> QED
    BY <1>1, <1>3, <2>1 DEF LaneInv
<1>7. /\ StoreOK(answered) /\ answered.cache = store.cache
      /\ answered.file.rows = Append(rows, [role |-> "assistant", n |-> next])
      /\ answered.file.last = store.file.last
  <2>1. FALSE \in BOOLEAN /\ "assistant" \in {"user", "assistant"}
    OBVIOUS
  <2> QED
    BY <1>1, <1>4, <1>5, <2>1, AddRowOK
<1>8. o \in Objects
  BY <1>1 DEF SessionTypes, Turns
<1> HIDE DEF answered, o
<1>9. /\ Good(answered.file.rows, answered.file.last, history, deleted, next + 1)
      /\ answered.file.rows # <<>> /\ ToSet(answered.file.rows) \subseteq Row
      /\ ToSet(rows) \subseteq ToSet(answered.file.rows)
      /\ \A t \in Tasks : Chunked(t, store.file) => Chunked(t, answered.file)
  BY <1>4, <1>6, <1>7, FileGrows
<1>10. older = Older(answered.file.rows)
  <2>1. Opened(answered) = answered
    BY <1>5, <1>7, OpenOK
  <2>2. Session(answered, answered.cache).rows = answered.file.rows
    BY <1>5, <1>7, CachedContent
  <2> QED
    BY <2>1, <2>2
<1> HIDE DEF older
<1>11. /\ StoreOK(store') /\ store'.cache = store.cache
       /\ Good(store'.file.rows, store'.file.last, history, deleted, next + 1)
       /\ store'.file.rows # <<>>
       /\ ToSet(answered.file.rows) \subseteq ToSet(store'.file.rows) \cup evicted'
       /\ evicted \subseteq evicted' /\ evicted' \in SUBSET Row
  <2>1. CASE trims
    <3>1. /\ Good(Recent(answered.file.rows),
                  TrimmedLast(answered.file.rows, answered.file.last),
                  history, deleted, next + 1)
          /\ Recent(answered.file.rows) # <<>>
          /\ ToSet(answered.file.rows)
               = ToSet(Recent(answered.file.rows)) \cup ToSet(Older(answered.file.rows))
      BY <1>9, FileTrimmed
    <3>2. /\ StoreOK(Trimmed(answered)) /\ Trimmed(answered).cache = answered.cache
          /\ Trimmed(answered).file.rows = Recent(answered.file.rows)
          /\ Trimmed(answered).file.last
               = TrimmedLast(answered.file.rows, answered.file.last)
      BY <1>5, <1>7, TrimmedOK
    <3>3. store' = Trimmed(answered) /\ evicted' = evicted \cup ToSet(Older(answered.file.rows))
      BY <1>3, <1>10, <2>1
    <3>4. evicted \subseteq Row
      BY <1>1 DEF SessionTypes
    <3> QED
      BY <1>7, <1>9, <3>1, <3>2, <3>3, <3>4
  <2>2. CASE ~trims
    <3>1. store' = answered /\ evicted' = evicted /\ evicted \in SUBSET Row
      BY <1>1, <1>3, <2>2 DEF SessionTypes
    <3> QED
      BY <1>7, <1>9, <3>1
  <2> QED
    BY <2>1, <2>2
<1>12. DOMAIN task = Workers /\ DOMAIN turn = Lanes /\ Lanes \subseteq Workers /\ Jobs \subseteq Workers
  BY <1>1 DEF SessionTypes, Workers
<1>13. task'[j] = Consolidating(o) /\ \A q \in Workers : q # j => task'[q] = task[q]
  BY <1>2, <1>12
<1>14. j \notin Lanes
  BY ConstantsAssumption
<1>15. turn'[l] = Idle /\ \A k \in Lanes : k # l => turn'[k] = turn[k]
  BY <1>3, <1>12
<1>16. /\ Consolidating(o) \in Tasks /\ Consolidating(o).kind = "consolidate"
       /\ Consolidating(o).pc = "lock" /\ Consolidating(o).obj = o
  BY <1>8, ConsolidatingType
<1>17. AllWaiting'
  BY <1>5, <1>11, <1>13, <1>16 DEF AllWaiting, Waiting
<1>18. LockInv' /\ lock' \in Seq(Workers)
  BY <1>1, <1>2, <1>8, <1>12, LockAppended
<1>19. SessionTypes'
  <2>1. turn' \in [Lanes -> Turns]
    BY <1>1, <1>3, OffTypes DEF SessionTypes
  <2>2. task' \in [Workers -> Tasks]
    BY <1>1, <1>2, <1>16 DEF SessionTypes
  <2>3. said' \in SUBSET Row
    BY <1>1, <1>3, <1>9 DEF SessionTypes
  <2> QED
    BY <1>1, <1>3, <1>4, <1>11, <1>18, <2>1, <2>2, <2>3 DEF SessionTypes
<1>20. TurnInv'
  BY <1>1, <1>3, <1>11, <1>15 DEF TurnInv
<1>21. LaneInv'
  <2>1. \A k \in Lanes : task'[k] # Off => turn'[k].pc = "consolidating"
    BY <1>1, <1>6, <1>12, <1>13, <1>14, <1>15 DEF LaneInv
  <2> QED
    BY <1>11, <2>1 DEF LaneInv
<1>22. TrimInv'
  <2>1. SUFFICES ASSUME trims, NEW k \in Lanes
                 PROVE  turn'[k] = Idle /\ task'[k] = Off
    BY <1>3 DEF TrimInv
  <2>2. turn'[k] = Idle
    BY <1>1, <1>5, <1>15, <2>1 DEF TrimInv
  <2>3. task'[k] = task[k] /\ task[k] = Off
    BY <1>1, <1>5, <1>6, <1>12, <1>13, <1>14, <2>1, OffTypes DEF TrimInv, LaneInv
  <2> QED
    BY <2>2, <2>3
<1>23. ChunkInv'
  <2>1. ASSUME NEW q \in Workers, task'[q].kind = "consolidate", task'[q].pc = "llm"
        PROVE  Chunked(task'[q], store'.file)
    <3>1. q # j /\ task'[q] = task[q]
      BY <1>13, <1>16, <2>1
    <3>2. Chunked(task[q], store.file) /\ task[q] \in Tasks
      BY <1>1, <2>1, <3>1 DEF ChunkInv, SessionTypes
    <3>3. CASE trims
      <4>1. lock = <<>>
        BY <1>1, <1>5, <1>6, <3>3 DEF TrimInv
      <4> QED
        BY <1>1, <2>1, <3>1, <4>1 DEF LockInv
    <3>4. CASE ~trims
      BY <1>3, <1>9, <3>1, <3>2, <3>4
    <3> QED
      BY <3>3, <3>4
  <2> QED
    BY <2>1 DEF ChunkInv
<1>24. RowsInv' /\ StoreOK(store)'
  BY <1>3, <1>11 DEF RowsInv, StoreOK, Fits
<1>25. RowsKept'
  <2>1. Archiving = {} /\ Archiving' = {}
    BY <1>5, <1>17, NowWaiting, NextWaiting
  <2>2. said \subseteq ToSet(rows) \cup ToSet(history) \cup evicted \cup deleted \cup Archiving
    BY DEF StoreInv, RowsKept
  <2> QED
    BY <1>3, <1>9, <1>11, <2>1, <2>2 DEF RowsKept
<1> QED
  BY <1>17, <1>18, <1>19, <1>20, <1>21, <1>22, <1>23, <1>24, <1>25, NextWaiting DEF StoreInv

LEMMA UseOnce ==
  ASSUME SessionTypes, NEW op \in Operations, May(op), Use(op)
  PROVE  used' \in [Operations -> 0..MaxOps]
<1>1. used[op] \in 0..MaxOps /\ used[op] < MaxOps /\ MaxOps \in Nat
  BY ConstantsAssumption DEF SessionTypes, May
<1>2. used[op] + 1 \in 0..MaxOps
  BY <1>1
<1> QED
  BY <1>2 DEF SessionTypes, Use

LEMMA CancelStep ==
  ASSUME StoreInv, NEW l \in Lanes, Cancel(l)
  PROVE  StoreInv'
<1>1. /\ SessionTypes /\ TurnInv /\ TaskInv /\ LockInv /\ LaneInv /\ TrimInv /\ ChunkInv
      /\ StoreOK(store)
  BY DEF StoreInv
<1>2. /\ turn[l].pc \in {"consolidating", "running"}
      /\ turn' = [turn EXCEPT ![l] = Idle] /\ task' = [task EXCEPT ![l] = Off]
      /\ lock' = Without(lock, l)
      /\ UNCHANGED <<plan, store, archiving, summaries, history, evicted, next, said, deleted>>
  BY DEF Cancel, Release, Without
<1>3. used' \in [Operations -> 0..MaxOps]
  BY <1>1, UseOnce DEF Cancel, Operations
<1>4. AllWaiting
  BY <1>2, LaneMode
<1>5. DOMAIN task = Workers /\ DOMAIN turn = Lanes /\ l \in Workers
  BY <1>1 DEF SessionTypes, Workers
<1>6. /\ task'[l] = Off /\ \A q \in Workers : q # l => task'[q] = task[q]
      /\ turn'[l] = Idle /\ \A k \in Lanes : k # l => turn'[k] = turn[k]
  BY <1>2, <1>5
<1>7. AllWaiting'
  BY <1>2, <1>4, <1>6 DEF AllWaiting
<1>8. LockInv' /\ lock' \in Seq(Workers)
  BY <1>1, <1>2, <1>5, LockReleased
<1>9. SessionTypes'
  BY <1>1, <1>2, <1>3, <1>8, OffTypes DEF SessionTypes
<1>10. TurnInv'
  BY <1>1, <1>2, <1>6 DEF TurnInv
<1>11. LaneInv'
  BY <1>1, <1>2, <1>6, OffTypes DEF LaneInv, Workers
<1>12. TrimInv'
  BY <1>1, <1>2, <1>4, <1>5, <1>6, TrimReleased
<1>13. ChunkInv'
  BY <1>1, <1>2, <1>6, OffTypes DEF ChunkInv
<1>14. RowsInv' /\ StoreOK(store)'
  BY <1>1, <1>2 DEF StoreInv, RowsInv, StoreOK, Fits
<1>15. RowsKept'
  BY <1>2, <1>4, <1>7, NowWaiting, NextWaiting DEF StoreInv, RowsKept
<1> QED
  BY <1>7, <1>8, <1>9, <1>10, <1>11, <1>12, <1>13, <1>14, <1>15, NextWaiting DEF StoreInv

-----------------------------------------------------------------------------
(***************************************************************************)
(* What is begun at rest keeps the invariant                               *)
(***************************************************************************)

\* Nothing is at work after the step.
LEMMA NextQuiet ==
  ASSUME \A l \in Lanes : turn'[l] = Idle, \A p \in Workers : task'[p] = Off, lock' = <<>>
  PROVE  /\ TurnInv' /\ TaskInv' /\ LockInv' /\ LaneInv' /\ TrimInv' /\ ChunkInv' /\ FreshInv'
         /\ Archiving' = {}
<1>1. LockInv' /\ LaneInv' /\ TrimInv' /\ ChunkInv' /\ TurnInv'
  BY NextRest, OffTypes DEF Workers
<1>2. AllWaiting'
  BY DEF AllWaiting
<1> QED
  BY <1>1, <1>2, NextWaiting

\* The rows that tasks of /new have, when only one task is at work.
LEMMA ArchivingOne ==
  ASSUME NEW tasks, NEW j \in Jobs, \A p \in Workers \ {j} : tasks[p] = Off,
         tasks[j].kind = "archive"
  PROVE  UNION {ToSet(tasks[k].chunk) : k \in {i \in Jobs : tasks[i].kind = "archive"}}
           = ToSet(tasks[j].chunk)
<1>1. ASSUME NEW i \in Jobs PROVE tasks[i].kind = "archive" <=> i = j
  BY OffTypes DEF Workers
<1>2. {i \in Jobs : tasks[i].kind = "archive"} = {j}
  BY <1>1
<1> QED
  BY <1>2

\* After the step, one maintenance task is at work.
LEMMA NextMaintenance ==
  ASSUME NEW j \in Jobs, \A l \in Lanes : turn'[l] = Idle,
         \A p \in Workers \ {j} : task'[p] = Off, lock' = <<>>,
         Maintaining(task[j], plan, store.cache, store.file)',
         task'[j].kind = "archive" => Fresh(task[j].chunk, history, next)'
  PROVE  /\ TurnInv' /\ TaskInv' /\ LockInv' /\ LaneInv' /\ TrimInv' /\ ChunkInv' /\ FreshInv'
         /\ task'[j].kind # "archive" => Archiving' = {}
         /\ task'[j].kind = "archive" => Archiving' = ToSet(task'[j].chunk)
<1>1. j \notin Lanes /\ Lanes \subseteq Workers /\ Jobs \subseteq Workers
  BY ConstantsAssumption DEF Workers
<1>2. task'[j].kind \in {"archive", "compact"}
  BY DEF Maintaining
<1>3. \A p \in Workers : task'[p].kind # "consolidate"
  BY <1>2, OffTypes
<1>4. \A l \in Lanes : turn'[l] = Idle /\ task'[l] = Off
  BY <1>1
<1>5. LockInv' /\ LaneInv' /\ TrimInv' /\ ChunkInv' /\ TurnInv'
  BY <1>3, <1>4, NextRest
<1>6. TaskInv'
  <2>1. Alone(j)'
    BY DEF Alone
  <2> QED
    BY <1>1, <2>1 DEF TaskInv
<1>7. \A i \in Jobs : i # j => task'[i].kind # "archive"
  BY <1>1, OffTypes
<1>8. FreshInv'
  BY <1>7 DEF FreshInv
<1>9. task'[j].kind # "archive" => Archiving' = {}
  BY <1>7 DEF Archiving
<1>10. task'[j].kind = "archive" => Archiving' = ToSet(task'[j].chunk)
  BY ArchivingOne DEF Archiving
<1> QED
  BY <1>5, <1>6, <1>8, <1>9, <1>10

\* While a maintenance task is at work, nothing else is.
LEMMA MaintenanceMode ==
  ASSUME StoreInv, NEW j \in Jobs, task[j].kind \in {"archive", "compact"}
  PROVE  /\ \A p \in Workers \ {j} : task[p] = Off
         /\ \A l \in Lanes : turn[l] = Idle
         /\ lock = <<>>
         /\ Maintaining(task[j], plan, store.cache, store.file)
         /\ task[j].kind = "archive" => Archiving = ToSet(task[j].chunk)
         /\ task[j].kind # "archive" => Archiving = {}
<1>1. j \in Workers /\ Jobs \subseteq Workers
  BY DEF Workers
<1>2. task[j] # Off /\ ~Waiting(task[j], store.cache)
  BY OffTypes DEF Waiting
<1>3. Alone(j) /\ Maintaining(task[j], plan, store.cache, store.file)
  BY <1>1, <1>2 DEF StoreInv, TaskInv
<1>4. /\ \A p \in Workers \ {j} : task[p] = Off
      /\ \A l \in Lanes : turn[l] = Idle
  BY <1>3 DEF Alone
<1>5. lock = <<>>
  <2>1. \A p \in Workers : task[p].kind # "consolidate"
    BY <1>4, OffTypes
  <2> QED
    BY <2>1, FreeLock DEF StoreInv
<1>6. task[j].kind = "archive" => Archiving = ToSet(task[j].chunk)
  BY <1>4, ArchivingOne DEF Archiving
<1>7. task[j].kind # "archive" => Archiving = {}
  <2>1. \A i \in Jobs : i # j => task[i].kind # "archive"
    BY <1>1, <1>4, OffTypes
  <2> QED
    BY <2>1 DEF Archiving
<1> QED
  BY <1>3, <1>4, <1>5, <1>6, <1>7

\* What the console and /new do is begun at rest.
LEMMA MayRest ==
  ASSUME StoreInv, Steady(plan), NEW op \in {"new", "compact", "delete", "create"}, May(op)
  PROVE  /\ \A p \in Workers : task[p] = Off
         /\ \A l \in Lanes : turn[l] = Idle
         /\ lock = <<>> /\ Archiving = {} /\ plan.quiet /\ op \in plan.ops
<1>1. op \in plan.ops /\ op \in {"new", "compact", "delete", "create"} /\ Undisturbed
  BY DEF May
<1>2. plan.quiet
  BY <1>1 DEF Steady
<1>3. /\ \A p \in Workers : task[p] = Off
      /\ \A l \in Lanes : turn[l] = Idle
      /\ lock = <<>> /\ AllWaiting
  BY <1>1, <1>2, QuietMode DEF StoreInv
<1> QED
  BY <1>1, <1>2, <1>3, NowWaiting

LEMMA NewTurnStep ==
  ASSUME StoreInv, Steady(plan), NewTurn
  PROVE  StoreInv'
<1> DEFINE o == Prepared.cache
           s == Session(Prepared, o)
           chunk == Snapshot(s)
           archive == [Off EXCEPT !.kind = "archive", !.pc = "llm", !.chunk = chunk]
<1>1. /\ May("new") /\ Use("new") /\ Fetches
      /\ store' = Emptied(Prepared, o)
      /\ said' = said \cup ToSet(Emptied(Prepared, o).file.rows)
      /\ ArchivesSnapshot(task, s)
      /\ UNCHANGED <<plan, turn, lock, archiving, history, evicted, deleted>>
  BY DEF NewTurn, Put
<1>2. summaries' = FALSE
  BY <1>1 DEF Fetches
<1>3. /\ SessionTypes /\ StoreOK(store)
  BY DEF StoreInv
<1>4. /\ \A p \in Workers : task[p] = Off
      /\ \A l \in Lanes : turn[l] = Idle
      /\ lock = <<>> /\ Archiving = {} /\ plan.quiet /\ "new" \in plan.ops
  BY <1>1, MayRest
<1>5. used' \in [Operations -> 0..MaxOps]
  BY <1>1, <1>3, UseOnce DEF Operations
<1>6. /\ StoreOK(Prepared) /\ Prepared.cache # None
      /\ next' \in 1..(MaxRows + 1)
      /\ Good(Prepared.file.rows, Prepared.file.last, history, deleted, next')
      /\ ToSet(store.file.rows) \subseteq ToSet(Prepared.file.rows)
  BY <1>1, FetchedFile
<1>7. /\ StoreOK(Emptied(Prepared, o)) /\ Emptied(Prepared, o).cache = None
      /\ Emptied(Prepared, o).file.rows = <<>> /\ Emptied(Prepared, o).file.last = 0
  BY <1>6, EmptiedOK
<1>8. chunk = SubSeq(Prepared.file.rows, Prepared.file.last + 1, Len(Prepared.file.rows))
  BY <1>6, CachedContent DEF Snapshot, Unconsolidated
<1> HIDE DEF s, chunk
<1>9. /\ chunk \in Seq(Row) /\ Fresh(chunk, history, next')
      /\ ToSet(Prepared.file.rows) \subseteq ToSet(history) \cup ToSet(chunk)
  BY <1>6, <1>8, VisibleRows
<1>10. Good(<<>>, 0, history, deleted, next')
  BY <1>6, GoodEmpty
<1>11. RowsInv' /\ StoreOK(store)'
  BY <1>1, <1>7, <1>10 DEF RowsInv, StoreOK, Fits
<1>12. said' = said
  BY <1>1, <1>7, EmptyInjective
<1>13. said \subseteq ToSet(history) \cup evicted \cup deleted \cup ToSet(chunk)
  BY <1>4, <1>6, <1>9 DEF StoreInv, RowsKept
<1>14. CASE chunk = <<>>
  <2>1. task' = task
    BY <1>1, <1>14 DEF ArchivesSnapshot, chunk
  <2>2. /\ TurnInv' /\ TaskInv' /\ LockInv' /\ LaneInv' /\ TrimInv' /\ ChunkInv' /\ FreshInv'
        /\ Archiving' = {}
    BY <1>1, <1>4, <2>1, NextQuiet
  <2>3. SessionTypes'
    BY <1>1, <1>2, <1>3, <1>5, <1>6, <1>12, <2>1 DEF SessionTypes
  <2>4. RowsKept'
    BY <1>1, <1>12, <1>13, <1>14, EmptyInjective DEF RowsKept
  <2> QED
    BY <1>11, <2>2, <2>3, <2>4 DEF StoreInv
<1>15. CASE chunk # <<>>
  <2>1. PICK j \in Jobs : task' = [task EXCEPT ![j] = archive]
    BY <1>1, <1>15 DEF ArchivesSnapshot, chunk
  <2>2. /\ archive \in Tasks /\ archive.kind = "archive" /\ archive.obj = None
        /\ archive.chunk = chunk
    <3>1. chunk \in Seq(Row)
      BY <1>9
    <3> QED
      BY <3>1, SnapshotType, Zenon
  <2> HIDE DEF archive
  <2>3. DOMAIN task = Workers /\ j \in Workers
    BY <1>3 DEF SessionTypes, Workers
  <2>4. task'[j] = archive /\ \A p \in Workers \ {j} : task'[p] = Off
    BY <1>4, <2>1, <2>3
  <2>5. Maintaining(task[j], plan, store.cache, store.file)'
    BY <1>1, <1>4, <1>7, <2>2, <2>4 DEF Maintaining
  <2>6. /\ TurnInv' /\ TaskInv' /\ LockInv' /\ LaneInv' /\ TrimInv' /\ ChunkInv' /\ FreshInv'
        /\ Archiving' = ToSet(chunk)
    BY <1>1, <1>4, <1>9, <2>2, <2>4, <2>5, NextMaintenance
  <2>7. SessionTypes'
    <3>1. task' \in [Workers -> Tasks]
      BY <1>3, <2>1, <2>2 DEF SessionTypes
    <3> QED
      BY <1>1, <1>2, <1>3, <1>5, <1>6, <1>12, <3>1 DEF SessionTypes
  <2>8. RowsKept'
    BY <1>1, <1>12, <1>13, <2>6 DEF RowsKept
  <2> QED
    BY <1>11, <2>6, <2>7, <2>8 DEF StoreInv
<1> QED
  BY <1>14, <1>15

\* The command does not interrupt a turn: none is at work when it is given.
LEMMA NewAtRest ==
  ASSUME StoreInv, Steady(plan)
  PROVE  ~NewCancels /\ ~NewClears
<1>1. "dispatch" \in Lanes
  BY ConstantsAssumption
<1>2. ASSUME NewCancels PROVE FALSE
  BY <1>1, <1>2, MayRest, OffTypes DEF NewCancels
<1>3. ASSUME NewClears PROVE FALSE
  BY <1>1, <1>3, OffTypes DEF NewClears, StoreInv, TurnInv
<1> QED
  BY <1>2, <1>3

LEMMA ArchivedStep ==
  ASSUME StoreInv, NEW j \in Jobs, Archived(j)
  PROVE  StoreInv'
<1>1. /\ task[j].kind = "archive"
      /\ history' = history \o task[j].chunk
      /\ task' = [task EXCEPT ![j] = Off]
      /\ UNCHANGED <<plan, store, turn, lock, archiving, summaries, evicted, next, used, said,
                     deleted>>
  BY DEF Archived
<1>2. /\ SessionTypes /\ StoreOK(store) /\ RowsInv
  BY DEF StoreInv
<1>3. /\ \A p \in Workers \ {j} : task[p] = Off
      /\ \A l \in Lanes : turn[l] = Idle
      /\ lock = <<>> /\ Archiving = ToSet(task[j].chunk)
      /\ Maintaining(task[j], plan, store.cache, store.file)
  BY <1>1, MaintenanceMode
<1>4. store.file.rows = <<>>
  BY <1>1, <1>3 DEF Maintaining
<1>5. Fresh(task[j].chunk, history, next)
  BY <1>1 DEF StoreInv, FreshInv
<1>6. /\ Good(<<>>, store.file.last, history', deleted, next)
      /\ ToSet(history') = ToSet(history) \cup ToSet(task[j].chunk)
  BY <1>1, <1>2, <1>4, <1>5, GoodJoin DEF RowsInv
<1>7. DOMAIN task = Workers /\ j \in Workers
  BY <1>2 DEF SessionTypes, Workers
<1>8. \A p \in Workers : task'[p] = Off
  BY <1>1, <1>3, <1>7
<1>9. /\ TurnInv' /\ TaskInv' /\ LockInv' /\ LaneInv' /\ TrimInv' /\ ChunkInv' /\ FreshInv'
      /\ Archiving' = {}
  BY <1>1, <1>3, <1>8, NextQuiet
<1>10. SessionTypes'
  BY <1>1, <1>2, OffTypes DEF SessionTypes
<1>11. RowsInv' /\ StoreOK(store)'
  BY <1>1, <1>2, <1>4, <1>6 DEF RowsInv, StoreOK, Fits
<1>12. RowsKept'
  BY <1>1, <1>3, <1>6, <1>9 DEF StoreInv, RowsKept
<1> QED
  BY <1>9, <1>10, <1>11, <1>12 DEF StoreInv

LEMMA CompactStep ==
  ASSUME StoreInv, Steady(plan), NEW j \in Jobs, Compact(j)
  PROVE  StoreInv'
<1> DEFINE start == [Off EXCEPT !.kind = "compact", !.pc = "start"]
<1>1. /\ May("compact") /\ Use("compact")
      /\ archiving' = TRUE
      /\ task' = [task EXCEPT ![j] = start]
      /\ UNCHANGED <<plan, store, turn, lock, summaries, history, evicted, next, said, deleted>>
  BY DEF Compact
<1>2. /\ SessionTypes /\ StoreOK(store) /\ RowsInv
  BY DEF StoreInv
<1>3. /\ \A p \in Workers : task[p] = Off
      /\ \A l \in Lanes : turn[l] = Idle
      /\ lock = <<>> /\ Archiving = {} /\ plan.quiet
  BY <1>1, MayRest
<1>4. used' \in [Operations -> 0..MaxOps]
  BY <1>1, <1>2, UseOnce DEF Operations
<1>5. start \in Tasks /\ start.kind = "compact" /\ start.pc = "start" /\ start.obj = None
  BY CompactType
<1> HIDE DEF start
<1>6. DOMAIN task = Workers /\ j \in Workers
  BY <1>2 DEF SessionTypes, Workers
<1>7. task'[j] = start /\ \A p \in Workers \ {j} : task'[p] = Off
  BY <1>1, <1>3, <1>6
<1>8. Maintaining(task[j], plan, store.cache, store.file)'
  BY <1>1, <1>3, <1>5, <1>7 DEF Maintaining
<1>9. /\ TurnInv' /\ TaskInv' /\ LockInv' /\ LaneInv' /\ TrimInv' /\ ChunkInv' /\ FreshInv'
      /\ Archiving' = {}
  BY <1>1, <1>3, <1>5, <1>7, <1>8, NextMaintenance
<1>10. SessionTypes'
  <2>1. task' \in [Workers -> Tasks]
    BY <1>1, <1>2, <1>5 DEF SessionTypes
  <2> QED
    BY <1>1, <1>2, <1>4, <2>1 DEF SessionTypes
<1>11. RowsInv' /\ StoreOK(store)' /\ RowsKept'
  BY <1>1, <1>2, <1>3, <1>9 DEF StoreInv, RowsInv, StoreOK, Fits, RowsKept
<1> QED
  BY <1>9, <1>10, <1>11 DEF StoreInv

LEMMA CompactReadsStep ==
  ASSUME StoreInv, NEW j \in Jobs, CompactReads(j)
  PROVE  StoreInv'
<1> DEFINE opened == Opened(Invalidated(store))
           o == opened.cache
           tail == Unconsolidated(Session(opened, o))
           u == [task[j] EXCEPT !.pc = "llm", !.obj = o, !.chunk = Older(tail),
                                !.kept = Recent(tail)]
           rows == store.file.rows
<1>1. /\ task[j].kind = "compact" /\ task[j].pc = "start"
      /\ UNCHANGED <<plan, turn, lock, summaries, history, evicted, next, used, deleted>>
  BY DEF CompactReads
<1>2. tail = <<>> => /\ store' = Saved(opened, o)
                     /\ said' = said \cup ToSet(Saved(opened, o).file.rows)
                     /\ archiving' = FALSE /\ task' = [task EXCEPT ![j] = Off]
  BY DEF CompactReads, Put
<1>3. tail # <<>> => /\ store' = opened
                     /\ said' = said \cup ToSet(opened.file.rows)
                     /\ task' = [task EXCEPT ![j] = u]
                     /\ archiving' = archiving
  BY DEF CompactReads, Put
<1>4. /\ SessionTypes /\ StoreOK(store) /\ RowsInv
  BY DEF StoreInv
<1>5. /\ \A p \in Workers \ {j} : task[p] = Off
      /\ \A l \in Lanes : turn[l] = Idle
      /\ lock = <<>> /\ Archiving = {} /\ plan.quiet
      /\ Maintaining(task[j], plan, store.cache, store.file)
  BY <1>1, MaintenanceMode DEF Maintaining
<1>6. StoreOK(Invalidated(store)) /\ Invalidated(store).file = store.file
  BY <1>4, InvalidatedOK
<1>7. StoreOK(opened) /\ o # None /\ opened.file = store.file
  BY <1>6, OpenOK
<1>8. tail = SubSeq(rows, store.file.last + 1, Len(rows))
  BY <1>7, CachedContent DEF Unconsolidated
<1>9. /\ Good(rows, store.file.last, history, deleted, next) /\ rows \in Seq(Row)
  BY <1>4 DEF RowsInv, Good
<1>10. tail \in Seq(Row) /\ (tail # <<>> => rows # <<>>)
  BY <1>8, <1>9, VisibleRows
<1>11. DOMAIN task = Workers /\ j \in Workers /\ task[j] \in Tasks
  BY <1>4 DEF SessionTypes, Workers
<1>12. ToSet(rows) \subseteq Row
  BY <1>9, RowsAreRows
<1>13. said \subseteq ToSet(rows) \cup ToSet(history) \cup evicted \cup deleted
  BY <1>5 DEF StoreInv, RowsKept
<1>14. CASE tail = <<>>
  <2>1. /\ StoreOK(Saved(opened, o)) /\ Saved(opened, o).file.rows = rows
        /\ Saved(opened, o).file.last = store.file.last
    BY <1>7, SaveAsIs
  <2> HIDE DEF opened, o, tail, u
  <2>2. \A p \in Workers : task'[p] = Off
    BY <1>2, <1>5, <1>11, <1>14
  <2>3. /\ TurnInv' /\ TaskInv' /\ LockInv' /\ LaneInv' /\ TrimInv' /\ ChunkInv' /\ FreshInv'
        /\ Archiving' = {}
    BY <1>1, <1>5, <2>2, NextQuiet
  <2>4. SessionTypes'
    BY <1>1, <1>2, <1>4, <1>12, <1>14, <2>1, OffTypes DEF SessionTypes
  <2>5. RowsInv' /\ StoreOK(store)'
    BY <1>1, <1>2, <1>9, <1>14, <2>1 DEF RowsInv, StoreOK, Fits
  <2>6. RowsKept'
    BY <1>1, <1>2, <1>13, <1>14, <2>1 DEF RowsKept
  <2> QED
    BY <2>3, <2>4, <2>5, <2>6 DEF StoreInv
<1>15. CASE tail # <<>>
  <2>1. o \in Objects
    <3>1. opened \in Stores
      BY <1>7 DEF StoreOK
    <3> QED
      BY <3>1, StoreFields
  <2>2. Unconsolidated(opened.file) = tail /\ opened.file.rows # <<>>
    BY <1>7, <1>8, <1>10, <1>15 DEF Unconsolidated
  <2>3. opened.cache = o
    OBVIOUS
  <2> HIDE DEF opened, o, tail
  <2>4. Older(tail) \in Seq(Row) /\ Recent(tail) \in Seq(Row)
    <3>1. PICK k \in 1..Len(tail) : /\ Recent(tail) = SubSeq(tail, k, Len(tail))
                                    /\ Older(tail) = SubSeq(tail, 1, k - 1)
      BY <1>10, <1>15, RecentProperties
    <3> QED
      BY <1>10, <3>1, CutSets
  <2>5. /\ u \in Tasks /\ u.kind = "compact" /\ u.pc = "llm" /\ u.obj = o
        /\ u.chunk = Older(tail) /\ u.kept = Recent(tail)
    <3> DEFINE t == task[j]
               older == Older(tail)
               kept == Recent(tail)
    <3>1. t \in Tasks /\ older \in Seq(Row) /\ kept \in Seq(Row)
      BY <1>11, <2>4
    <3> HIDE DEF t, older, kept
    <3> DEFINE v == [t EXCEPT !.pc = "llm", !.obj = o, !.chunk = older, !.kept = kept]
    <3>2. /\ v \in Tasks /\ v.kind = t.kind /\ v.pc = "llm" /\ v.obj = o
          /\ v.chunk = older /\ v.kept = kept
      BY <2>1, <3>1 DEF Tasks
    <3>3. u = v /\ t.kind = "compact"
      BY <1>1 DEF t, older, kept
    <3> HIDE DEF u, v
    <3> QED
      BY <3>2, <3>3 DEF older, kept
  <2> HIDE DEF u
  <2>6. task'[j] = u /\ \A p \in Workers \ {j} : task'[p] = Off
    BY <1>3, <1>5, <1>11, <1>15
  <2>7. Maintaining(task[j], plan, store.cache, store.file)'
    BY <1>1, <1>3, <1>5, <1>7, <1>15, <2>2, <2>3, <2>5, <2>6 DEF Maintaining
  <2>8. /\ TurnInv' /\ TaskInv' /\ LockInv' /\ LaneInv' /\ TrimInv' /\ ChunkInv' /\ FreshInv'
        /\ Archiving' = {}
    BY <1>1, <1>5, <2>5, <2>6, <2>7, NextMaintenance
  <2>9. SessionTypes'
    <3>1. task' \in [Workers -> Tasks]
      BY <1>3, <1>4, <1>15, <2>5 DEF SessionTypes
    <3> QED
      BY <1>1, <1>3, <1>4, <1>7, <1>12, <1>15, <3>1 DEF SessionTypes
  <2>10. RowsInv' /\ StoreOK(store)'
    BY <1>1, <1>3, <1>7, <1>9, <1>15 DEF RowsInv, StoreOK, Fits
  <2>11. RowsKept'
    BY <1>1, <1>3, <1>7, <1>13, <1>15 DEF RowsKept
  <2> QED
    BY <2>8, <2>9, <2>10, <2>11 DEF StoreInv
<1> QED
  BY <1>14, <1>15

LEMMA CompactWritesStep ==
  ASSUME StoreInv, NEW j \in Jobs, NEW ok \in BOOLEAN, CompactWrites(j, ok)
  PROVE  StoreInv'
<1> DEFINE o == store.cache
           summary == ok /\ task[j].chunk # <<>>
           kept == task[j].kept
           saved == Saved(With(store, o, Compacted(Session(store, o), kept, summary)), o)
           rows == store.file.rows
           visible == SubSeq(rows, store.file.last + 1, Len(rows))
<1>1. /\ task[j].kind = "compact" /\ task[j].pc = "llm"
      /\ history' = history \o task[j].chunk
      /\ summaries' = (summaries \/ summary)
      /\ archiving' = FALSE /\ task' = [task EXCEPT ![j] = Off]
      /\ UNCHANGED <<plan, turn, lock, evicted, next, used, deleted>>
  BY DEF CompactWrites
<1>2. /\ SessionTypes /\ StoreOK(store) /\ RowsInv
  BY DEF StoreInv
<1>3. /\ \A p \in Workers \ {j} : task[p] = Off
      /\ \A l \in Lanes : turn[l] = Idle
      /\ lock = <<>> /\ Archiving = {}
      /\ Maintaining(task[j], plan, store.cache, store.file)
  BY <1>1, MaintenanceMode
<1>4. /\ task[j].obj = o /\ o # None /\ rows # <<>>
      /\ task[j].chunk = Older(visible) /\ kept = Recent(visible)
  BY <1>1, <1>3 DEF Maintaining, Unconsolidated
<1>5. store' = saved /\ said' = said \cup ToSet(saved.file.rows)
  BY <1>4 DEF CompactWrites, Put
<1>6. DOMAIN task = Workers /\ j \in Workers /\ task[j] \in Tasks
  BY <1>2 DEF SessionTypes, Workers
<1>7. kept \in Seq(Row) /\ summary \in BOOLEAN
  BY <1>6 DEF Tasks
<1>8. Good(rows, store.file.last, history, deleted, next)
  BY <1>2 DEF RowsInv
<1> HIDE DEF summary, kept
<1>9. /\ StoreOK(saved) /\ saved.file.rows = kept /\ saved.file.last = 0
  BY <1>2, <1>4, <1>7, CompactedOK
<1> HIDE DEF saved
<1>10. /\ Good(Recent(visible), 0, history \o Older(visible), deleted, next)
       /\ ToSet(history) \subseteq ToSet(history \o Older(visible))
       /\ ToSet(rows) \subseteq ToSet(Recent(visible)) \cup ToSet(history \o Older(visible))
  BY <1>4, <1>8, GoodCompact
<1> HIDE DEF visible, rows
<1>11. /\ Good(kept, 0, history', deleted, next)
       /\ ToSet(history) \subseteq ToSet(history')
       /\ ToSet(rows) \subseteq ToSet(kept) \cup ToSet(history')
  BY <1>1, <1>4, <1>10
<1>12. ToSet(kept) \subseteq Row
  BY <1>7, RowsAreRows
<1>13. \A p \in Workers : task'[p] = Off
  BY <1>1, <1>3, <1>6
<1>14. /\ TurnInv' /\ TaskInv' /\ LockInv' /\ LaneInv' /\ TrimInv' /\ ChunkInv' /\ FreshInv'
       /\ Archiving' = {}
  BY <1>1, <1>3, <1>13, NextQuiet
<1>15. SessionTypes'
  <2>1. summaries' \in BOOLEAN
    BY <1>1
  <2> QED
    BY <1>1, <1>2, <1>5, <1>9, <1>12, <2>1, OffTypes DEF SessionTypes
<1>16. RowsInv' /\ StoreOK(store)'
  BY <1>1, <1>5, <1>9, <1>11 DEF RowsInv, StoreOK, Fits
<1>17. RowsKept'
  <2>1. said \subseteq ToSet(rows) \cup ToSet(history) \cup evicted \cup deleted
    BY <1>3 DEF StoreInv, RowsKept, rows
  <2> QED
    BY <1>1, <1>5, <1>9, <1>11, <2>1 DEF RowsKept
<1> QED
  BY <1>14, <1>15, <1>16, <1>17 DEF StoreInv

-----------------------------------------------------------------------------
(***************************************************************************)
(* The console and the end of the process keep the invariant               *)
(***************************************************************************)

LEMMA DeleteStep ==
  ASSUME StoreInv, Steady(plan), Delete
  PROVE  StoreInv'
<1> DEFINE rows == store.file.rows
<1>1. /\ May("delete") /\ Use("delete")
      /\ store' = [heap |-> store.heap, cache |-> None, file |-> NoFile]
      /\ deleted' = deleted \cup ToSet(rows)
      /\ UNCHANGED <<plan, turn, task, lock, archiving, summaries, history, evicted, next, said>>
  BY DEF Delete, work
<1>2. /\ SessionTypes /\ StoreOK(store) /\ RowsInv
  BY DEF StoreInv
<1>3. /\ \A p \in Workers : task[p] = Off
      /\ \A l \in Lanes : turn[l] = Idle
      /\ lock = <<>> /\ Archiving = {}
  BY <1>1, MayRest
<1>4. used' \in [Operations -> 0..MaxOps]
  BY <1>1, <1>2, UseOnce DEF Operations
<1>5. StoreOK(store')
  <2>1. store.heap \in Seq(Contents) /\ None \in Objects /\ NoFile \in Contents
    BY <1>2, StoreFields, FileTypes DEF StoreOK, Objects
  <2>2. store' \in Stores
    BY <1>1, <2>1, StoreType
  <2>3. store'.cache = None /\ store'.file = NoFile
    BY <1>1
  <2> QED
    BY <2>2, <2>3 DEF StoreOK, Fits
<1>6. store'.file.rows = <<>> /\ store'.file.last = 0
  BY <1>1, FileTypes
<1>7. Good(<<>>, 0, history, deleted', next)
  BY <1>1, <1>2, GoodDelete DEF RowsInv
<1>8. RowsInv' /\ StoreOK(store)'
  BY <1>1, <1>5, <1>6, <1>7 DEF RowsInv, StoreOK, Fits
<1>9. /\ TurnInv' /\ TaskInv' /\ LockInv' /\ LaneInv' /\ TrimInv' /\ ChunkInv' /\ FreshInv'
      /\ Archiving' = {}
  BY <1>1, <1>3, NextQuiet
<1>10. SessionTypes'
  BY <1>1, <1>2, <1>4 DEF SessionTypes
<1>11. RowsKept'
  BY <1>1, <1>3 DEF StoreInv, RowsKept
<1> QED
  BY <1>8, <1>9, <1>10, <1>11 DEF StoreInv

LEMMA CreateStep ==
  ASSUME StoreInv, Steady(plan), Create
  PROVE  StoreInv'
<1>1. /\ May("create") /\ Use("create") /\ ~store.file.exists
      /\ store' = [store EXCEPT !.file = EmptyFile]
      /\ UNCHANGED <<plan, turn, task, lock, archiving, summaries, history, evicted, next, said,
                     deleted>>
  BY DEF Create, work
<1>2. /\ SessionTypes /\ StoreOK(store) /\ RowsInv
  BY DEF StoreInv
<1>3. /\ \A p \in Workers : task[p] = Off
      /\ \A l \in Lanes : turn[l] = Idle
      /\ lock = <<>> /\ Archiving = {}
  BY <1>1, MayRest
<1>4. used' \in [Operations -> 0..MaxOps]
  BY <1>1, <1>2, UseOnce DEF Operations
<1>5. store.file = NoFile
  BY <1>1, <1>2 DEF StoreOK, Fits
<1>6. /\ store.file.rows = <<>> /\ store.file.last = 0 /\ ~store.file.pending
      /\ EmptyFile.rows = <<>> /\ EmptyFile.last = 0 /\ ~EmptyFile.pending
      /\ EmptyFile.exists /\ EmptyFile \in Contents /\ NoFile.pending = EmptyFile.pending
  BY <1>5, FileTypes DEF EmptyFile, NoFile
<1>7. StoreOK(store')
  <2>1. store \in Stores
    BY <1>2 DEF StoreOK
  <2>2. store' = [heap |-> store.heap, cache |-> store.cache, file |-> EmptyFile]
    BY <1>1, <2>1, StoreUpdates
  <2>3. store' \in Stores
    BY <1>6, <2>1, <2>2, StoreFields, StoreType
  <2>4. /\ store'.heap = store.heap /\ store'.cache = store.cache /\ store'.file = EmptyFile
    BY <2>2
  <2>5. Fits(store')
    <3>1. store.cache # None =>
            /\ store.heap[store.cache].rows = NoFile.rows
            /\ store.heap[store.cache].last = NoFile.last
            /\ store.heap[store.cache].pending = NoFile.pending
      BY <1>2, <1>5 DEF StoreOK, Fits
    <3> QED
      BY <1>5, <1>6, <2>4, <3>1 DEF Fits
  <2>6. store'.cache \in {None} \cup DOMAIN store'.heap
    BY <1>2, <2>4 DEF StoreOK
  <2> QED
    BY <2>3, <2>5, <2>6 DEF StoreOK
<1>8. store'.file.rows = store.file.rows /\ store'.file.last = store.file.last
  <2>1. store'.file = EmptyFile
    BY <1>1, <1>2, StoreUpdates DEF StoreOK
  <2> QED
    BY <1>6, <2>1
<1>9. RowsInv' /\ StoreOK(store)'
  BY <1>1, <1>2, <1>7, <1>8 DEF RowsInv, StoreOK, Fits
<1>10. /\ TurnInv' /\ TaskInv' /\ LockInv' /\ LaneInv' /\ TrimInv' /\ ChunkInv' /\ FreshInv'
       /\ Archiving' = {}
  BY <1>1, <1>3, NextQuiet
<1>11. SessionTypes'
  BY <1>1, <1>2, <1>4 DEF SessionTypes
<1>12. RowsKept'
  BY <1>1, <1>3, <1>8 DEF StoreInv, RowsKept
<1> QED
  BY <1>9, <1>10, <1>11, <1>12 DEF StoreInv

\* The process begins anew with a file that has the same rows.
LEMMA EndsStep ==
  ASSUME StoreInv, ProcessEnds, Archiving = {}, used' \in [Operations -> 0..MaxOps],
         NEW file \in Contents, file.exists \/ file = NoFile,
         file.rows = store.file.rows, file.last = store.file.last,
         Put([heap |-> <<>>, cache |-> None, file |-> file])
  PROVE  StoreInv'
<1> DEFINE st == [heap |-> <<>>, cache |-> None, file |-> file]
<1>1. /\ \A l \in Lanes : turn'[l] = Idle
      /\ \A p \in Workers : task'[p] = Off
      /\ turn' = [l \in Lanes |-> Idle] /\ task' = [p \in Workers |-> Off]
      /\ lock' = <<>> /\ archiving' = FALSE /\ summaries' = FALSE
      /\ UNCHANGED <<plan, history, evicted, next, deleted>>
  BY DEF ProcessEnds, Workers
<1>2. store' = st /\ said' = said \cup ToSet(st.file.rows)
  BY DEF Put
<1>3. StoreOK(st) /\ st.file = file
  BY RestartedOK
<1> HIDE DEF st
<1>4. /\ SessionTypes /\ RowsInv
  BY DEF StoreInv
<1>5. store'.file.rows = store.file.rows /\ store'.file.last = store.file.last
  BY <1>2, <1>3
<1>6. RowsInv' /\ StoreOK(store)'
  BY <1>1, <1>2, <1>3, <1>4, <1>5 DEF RowsInv, StoreOK, Fits
<1>7. /\ TurnInv' /\ TaskInv' /\ LockInv' /\ LaneInv' /\ TrimInv' /\ ChunkInv' /\ FreshInv'
      /\ Archiving' = {}
  BY <1>1, NextQuiet
<1>8. ToSet(store.file.rows) \subseteq Row
  BY <1>4, RowsAreRows DEF RowsInv, Good
<1>9. SessionTypes'
  <2>1. <<>> \in Seq(Workers)
    BY EmptySeq
  <2> QED
    BY <1>1, <1>2, <1>3, <1>4, <1>8, <2>1, OffTypes DEF SessionTypes
<1>10. RowsKept'
  BY <1>1, <1>2, <1>3, <1>5 DEF StoreInv, RowsKept
<1> QED
  BY <1>6, <1>7, <1>9, <1>10 DEF StoreInv

LEMMA StopStep ==
  ASSUME StoreInv, Stop
  PROVE  StoreInv'
<1>1. used' \in [Operations -> 0..MaxOps]
  BY UseOnce DEF Stop, StoreInv, Operations
<1>2. Archiving = {}
  BY OffTypes DEF Stop, Archiving
<1>3. /\ Flushed(store).file \in Contents
      /\ Flushed(store).file.exists \/ Flushed(store).file = NoFile
      /\ Flushed(store).file.rows = store.file.rows /\ Flushed(store).file.last = store.file.last
  BY FlushedOK DEF StoreInv
<1> QED
  BY <1>1, <1>2, <1>3, EndsStep DEF Stop

LEMMA CrashStep ==
  ASSUME StoreInv, Steady(plan), Crash
  PROVE  StoreInv'
<1>1. used' \in [Operations -> 0..MaxOps]
  BY UseOnce DEF Crash, StoreInv, Operations
<1>2. Archiving = {}
  <2>1. "new" \notin plan.ops
    BY DEF Crash, May, Steady
  <2>2. ASSUME NEW j \in Jobs, task[j].kind = "archive" PROVE FALSE
    <3>1. Maintaining(task[j], plan, store.cache, store.file)
      BY <2>2, MaintenanceMode
    <3> QED
      BY <2>1, <2>2, <3>1 DEF Maintaining
  <2> QED
    BY <2>2 DEF Archiving
<1>3. store.file \in Contents /\ (store.file.exists \/ store.file = NoFile)
  BY StoreFields DEF StoreInv, StoreOK, Fits
<1> QED
  BY <1>1, <1>2, <1>3, EndsStep DEF Crash

LEMMA StillStep ==
  ASSUME StoreInv, UNCHANGED vars
  PROVE  StoreInv'
<1>1. UNCHANGED <<plan, store, turn, task, lock, archiving, summaries, history, evicted, next,
                  used, said, deleted>>
  BY DEF vars, work
<1>2. SessionTypes' /\ StoreOK(store)' /\ RowsInv' /\ FreshInv' /\ RowsKept'
  BY <1>1 DEF StoreInv, SessionTypes, StoreOK, Fits, RowsInv, FreshInv, RowsKept, Archiving
<1>3. TurnInv' /\ TaskInv' /\ ChunkInv'
  BY <1>1 DEF StoreInv, TurnInv, TaskInv, Alone, ChunkInv
<1>4. LockInv' /\ LaneInv' /\ TrimInv'
  BY <1>1 DEF StoreInv, LockInv, LaneInv, TrimInv
<1> QED
  BY <1>2, <1>3, <1>4 DEF StoreInv

-----------------------------------------------------------------------------
(***************************************************************************)
(* A turn beside a deletion                                                *)
(***************************************************************************)

\* One lane of turns, a budget that is never reached, and neither a compaction
\* nor a session made by the console: what saves the session is one turn at a time.
OneTurn(p) ==
  /\ \A k, l \in p.lanes : k = l
  /\ p.ops \cap {"compact", "create"} = {}
  /\ p.budget > MaxRows

Short(c, n) == Len(c.rows) < n /\ c.last = 0

\* Rows that may be written before the n-th: none of them was deleted.
Undeleted(rows, n) ==
  /\ \A r \in ToSet(rows) : r.n < n
  /\ deleted \subseteq Row /\ \A r \in deleted : r.n < n
  /\ ToSet(rows) \cap deleted = {}

Brief(st, n) ==
  /\ Short(st.file, n) /\ \A i \in DOMAIN st.heap : Short(st.heap[i], n)
  /\ st.cache # None /\ st.file.exists => st.heap[st.cache].exists

Tame(st, n) == StoreOK(st) /\ Brief(st, n) /\ Undeleted(st.file.rows, n)

\* The object of a turn is the cached one, or else it was on disk and its file is gone.
Held(o, st) ==
  /\ o \in DOMAIN st.heap
  /\ o = st.cache \/ (st.cache = None /\ st.file = NoFile /\ st.heap[o].exists)

\* The objects of st are among those of t.
Within(st, t) == DOMAIN st.heap \subseteq DOMAIN t.heap

LEMMA NoneHeld ==
  ASSUME NEW st, StoreOK(st), NEW o \in DOMAIN st.heap
  PROVE  o # None /\ o \in Objects /\ st.heap[o] \in Contents
<1>1. st.heap \in Seq(Contents)
  BY StoreFields DEF StoreOK
<1>2. o \in 1..Len(st.heap) /\ Len(st.heap) \in Nat
  BY <1>1, LenProperties
<1>3. st.heap[o] \in Contents
  BY <1>1, <1>2, ElementOfSeq
<1>4. o \in Nat
  BY <1>2
<1> QED
  BY <1>3, <1>4, ConstantsAssumption DEF Objects

\* A turn saves its object with new rows: the file has them, or stays deleted.
LEMMA SaveTame ==
  ASSUME NEW st, NEW n \in Nat, Tame(st, n), NEW o, Held(o, st), NEW c \in Contents,
         c.exists = st.heap[o].exists, Short(c, n),
         o = st.cache => Undeleted(c.rows, n)
  PROVE  LET saved == Saved(With(st, o, c), o) IN
         Tame(saved, n) /\ Held(o, saved) /\ Within(st, saved)
           /\ (o = st.cache => saved.cache = o)
<1>1. StoreOK(st) /\ Brief(st, n) /\ o \in DOMAIN st.heap /\ st \in Stores
  BY DEF Tame, Held, StoreOK
<1>2. o # None /\ o \in Objects
  BY <1>1, NoneHeld
<1> DEFINE w == With(st, o, c)
           u == [st.heap EXCEPT ![o] = c]
<1>3. /\ w \in Stores /\ w = [heap |-> u, cache |-> st.cache, file |-> st.file]
      /\ DOMAIN u = DOMAIN st.heap /\ u[o] = c
  BY <1>1, WithOK
<1>4. \A i \in DOMAIN st.heap : i # o => u[i] = st.heap[i]
  OBVIOUS
<1>5. \A i \in DOMAIN u : Short(u[i], n)
  BY <1>1, <1>3, <1>4 DEF Brief
<1> HIDE DEF u
<1>6. CASE o = st.cache
  <2> DEFINE anchored == [c EXCEPT !.exists = TRUE]
             h == [u EXCEPT ![o] = anchored]
             saved == Saved(w, o)
  <2>1. /\ StoreOK(saved) /\ saved.cache = o /\ saved.file.rows = c.rows
        /\ saved.file.last = c.last
    BY <1>1, <1>2, <1>6, SaveOK
  <2>2. w.heap = u /\ w.file = st.file /\ w.cache = st.cache
    BY <1>3
  <2>3. st.heap[o].exists => st.file.exists
    BY <1>1, <1>2, <1>6 DEF StoreOK, Fits
  <2>4. saved = [heap |-> h, cache |-> o, file |-> anchored]
    BY <1>3, <2>2, <2>3 DEF Saved
  <2>5. anchored.rows = c.rows /\ anchored.last = c.last /\ anchored.exists
    BY DEF Contents
  <2> HIDE DEF w, anchored
  <2>6. DOMAIN h = DOMAIN u /\ h[o] = anchored /\ \A i \in DOMAIN u : i # o => h[i] = u[i]
    BY <1>1, <1>3
  <2> HIDE DEF h
  <2>7. \A i \in DOMAIN h : Short(h[i], n)
    BY <1>5, <2>5, <2>6 DEF Short
  <2>8. Short(saved.file, n)
    BY <2>1 DEF Short
  <2>9. saved.heap = h
    BY <2>4
  <2> HIDE DEF saved
  <2>10. Brief(saved, n)
    BY <2>1, <2>5, <2>6, <2>7, <2>8, <2>9 DEF Brief
  <2>11. Undeleted(saved.file.rows, n)
    BY <1>6, <2>1
  <2>12. Held(o, saved) /\ Within(st, saved)
    BY <1>1, <1>3, <2>1, <2>6, <2>9 DEF Held, Within
  <2> QED
    BY <2>1, <2>10, <2>11, <2>12 DEF Tame, saved, w
<1>7. CASE o # st.cache
  <2>1. st.cache = None /\ st.file = NoFile /\ st.heap[o].exists
    BY <1>7 DEF Held
  <2>2. ~NoFile.exists
    BY FileTypes
  <2>3. w.heap = u /\ w.file = st.file /\ w.cache = st.cache
    BY <1>3
  <2> DEFINE saved == Saved(w, o)
  <2>4. saved = [w EXCEPT !.cache = None]
    BY <1>3, <2>1, <2>2, <2>3 DEF Saved
  <2>5. saved = [heap |-> u, cache |-> None, file |-> NoFile]
    <3> HIDE DEF w, saved
    <3> QED
      BY <1>3, <2>1, <2>3, <2>4, StoreUpdates
  <2>6. saved \in Stores
    <3> HIDE DEF saved
    <3> QED
      BY <1>3, <2>1, <2>3, <2>5
  <2>7. saved.heap = u /\ saved.cache = None /\ saved.file = NoFile
    BY <2>5
  <2> HIDE DEF saved
  <2>8. StoreOK(saved)
    BY <2>6, <2>7 DEF StoreOK, Fits
  <2>9. Brief(saved, n) /\ Undeleted(saved.file.rows, n)
    BY <1>1, <1>5, <2>1, <2>7 DEF Brief, Tame
  <2>10. Held(o, saved) /\ Within(st, saved)
    BY <1>1, <1>3, <2>1, <2>7 DEF Held, Within
  <2> QED
    BY <1>7, <2>8, <2>9, <2>10 DEF Tame, saved, w
<1> QED
  BY <1>6, <1>7

\* What is tame stays so when a row more may be written.
LEMMA TameGrows ==
  ASSUME NEW st, NEW n \in Nat, Tame(st, n)
  PROVE  Tame(st, n + 1)
<1>1. StoreOK(st) /\ Brief(st, n) /\ Undeleted(st.file.rows, n) /\ st \in Stores
  BY DEF Tame, StoreOK
<1>2. ASSUME NEW c \in Contents, Short(c, n) PROVE Short(c, n + 1)
  <2>1. Len(c.rows) \in Nat
    BY <1>2, ContentFields, LenProperties
  <2> QED
    BY <1>2, <2>1 DEF Short
<1>3. \A i \in DOMAIN st.heap : st.heap[i] \in Contents
  BY <1>1, NoneHeld
<1>4. st.file \in Contents
  BY <1>1, StoreFields
<1>5. Brief(st, n + 1)
  BY <1>1, <1>2, <1>3, <1>4 DEF Brief
<1>6. ToSet(st.file.rows) \subseteq Row /\ deleted \subseteq Row
  BY <1>1, <1>4, ContentFields, RowsAreRows DEF Undeleted
<1>7. ASSUME NEW r \in Row, r.n < n PROVE r.n < n + 1
  <2>1. r.n \in 1..MaxRows /\ MaxRows \in Nat
    BY RowFields, ConstantsAssumption
  <2> QED
    BY <1>7, <2>1
<1>8. Undeleted(st.file.rows, n + 1)
  <2>1. \A r \in ToSet(st.file.rows) \cup deleted : r \in Row /\ r.n < n
    BY <1>1, <1>6 DEF Undeleted
  <2>2. \A r \in ToSet(st.file.rows) \cup deleted : r.n < n + 1
    BY <1>7, <2>1
  <2> QED
    BY <1>1, <2>2 DEF Undeleted
<1> QED
  BY <1>1, <1>5, <1>8 DEF Tame

\* get_or_create()
LEMMA OpenTame ==
  ASSUME NEW st, NEW n \in Nat, Tame(st, n)
  PROVE  /\ Tame(Opened(st), n) /\ Opened(st).cache # None
         /\ Held(Opened(st).cache, Opened(st)) /\ Within(st, Opened(st))
<1>1. StoreOK(st) /\ Brief(st, n) /\ Undeleted(st.file.rows, n)
  BY DEF Tame
<1>2. /\ StoreOK(Opened(st)) /\ Opened(st).cache # None /\ Opened(st).file = st.file
      /\ st.cache # None => Opened(st) = st
  BY <1>1, OpenOK
<1>3. Held(Opened(st).cache, Opened(st))
  BY <1>2 DEF StoreOK, Held
<1>4. CASE st.cache # None
  BY <1>2, <1>3, <1>4 DEF Within
<1>5. CASE st.cache = None
  <2> DEFINE h == Append(st.heap, st.file)
             o == Len(st.heap) + 1
             opened == Opened(st)
  <2>1. st.heap \in Seq(Contents) /\ st.file \in Contents
    BY <1>1, StoreFields DEF StoreOK
  <2>2. /\ Len(h) = o /\ h[o] = st.file /\ h \in Seq(Contents)
        /\ \A i \in 1..Len(st.heap) : h[i] = st.heap[i]
    BY <2>1, AppendProperties
  <2>3. Len(st.heap) \in Nat /\ DOMAIN st.heap = 1..Len(st.heap) /\ DOMAIN h = 1..o
    BY <2>1, <2>2, LenProperties
  <2>4. opened = [heap |-> h, cache |-> o, file |-> st.file]
    BY <1>5 DEF Opened
  <2>5. opened.heap = h /\ opened.cache = o /\ opened.file = st.file
    BY <2>4
  <2> HIDE DEF h, opened
  <2>6. \A i \in DOMAIN h : i = o \/ i \in DOMAIN st.heap
    BY <2>3
  <2>7. \A i \in DOMAIN h : Short(h[i], n)
    BY <1>1, <2>2, <2>3, <2>6 DEF Brief
  <2>8. Brief(opened, n)
    BY <1>1, <2>2, <2>5, <2>7 DEF Brief
  <2>9. Within(st, opened)
    BY <2>3, <2>5 DEF Within
  <2> QED
    BY <1>1, <1>2, <1>3, <2>5, <2>8, <2>9 DEF Tame, opened
<1> QED
  BY <1>4, <1>5

LEMMA AppendSet ==
  ASSUME NEW rows \in Seq(Row), NEW row \in Row
  PROVE  ToSet(Append(rows, row)) = ToSet(rows) \cup {row}
<1> DEFINE t == Append(rows, row)
<1>1. /\ t \in Seq(Row) /\ Len(t) = Len(rows) + 1 /\ t[Len(rows) + 1] = row
      /\ \A i \in 1..Len(rows) : t[i] = rows[i]
  BY AppendProperties
<1>2. Len(rows) \in Nat /\ DOMAIN rows = 1..Len(rows) /\ DOMAIN t = 1..Len(t)
  BY <1>1, LenProperties
<1> HIDE DEF t
<1>3. \A i \in DOMAIN t : i \in DOMAIN rows \/ i = Len(rows) + 1
  BY <1>1, <1>2
<1>4. DOMAIN rows \subseteq DOMAIN t /\ Len(rows) + 1 \in DOMAIN t
  BY <1>1, <1>2
<1> QED
  BY <1>1, <1>2, <1>3, <1>4 DEF ToSet, t

\* A row that is new: the file has the rows it had, and that one, or stays deleted.
LEMMA AddTame ==
  ASSUME NEW st, next \in 1..MaxRows, Tame(st, next), NEW o, Held(o, st),
         NEW role \in {"user", "assistant"}, NEW pending \in BOOLEAN
  PROVE  LET added == AddRow(st, o, role, pending) IN
         Tame(added, next + 1) /\ Held(o, added) /\ Within(st, added)
           /\ (o = st.cache => added.cache = o)
<1> DEFINE s == st.heap[o]
           row == [role |-> role, n |-> next]
           more == Append(s.rows, row)
           c == [s EXCEPT !.rows = Append(@, row), !.pending = pending]
<1>1. StoreOK(st) /\ Brief(st, next) /\ o \in DOMAIN st.heap /\ Undeleted(st.file.rows, next)
  BY DEF Tame, Held
<1>2. o # None /\ s \in Contents
  BY <1>1, NoneHeld
<1>3. AddRow(st, o, role, pending) = Saved(With(st, o, c), o)
  BY DEF AddRow, Session
<1>4. MaxRows \in Nat /\ next \in Nat /\ next + 1 \in Nat
  BY ConstantsAssumption
<1>5. Tame(st, next + 1)
  BY <1>4, TameGrows
<1>6. Short(s, next)
  BY <1>1 DEF Brief
<1>7. o = st.cache => s.rows = st.file.rows
  BY <1>1, <1>2 DEF StoreOK, Fits
<1>8. row \in Row /\ row.n = next
  BY DEF Row
<1> HIDE DEF row, s
<1>9. s.rows \in Seq(Row) /\ Len(s.rows) \in Nat
  BY <1>2, ContentFields, LenProperties
<1>10. more \in Seq(Row) /\ Len(more) = Len(s.rows) + 1
  BY <1>8, <1>9, AppendProperties
<1>11. ToSet(more) = ToSet(s.rows) \cup {row}
  BY <1>8, <1>9, AppendSet
<1>12. c \in Contents /\ c.rows = more /\ c.last = s.last /\ c.exists = s.exists
  BY <1>2, <1>10 DEF Contents
<1> HIDE DEF more, c
<1>13. Short(c, next + 1)
  BY <1>4, <1>6, <1>9, <1>10, <1>12 DEF Short
<1>14. ASSUME o = st.cache PROVE Undeleted(more, next + 1)
  <2>1. Undeleted(s.rows, next) /\ Undeleted(s.rows, next + 1)
    BY <1>1, <1>5, <1>7, <1>14 DEF Tame
  <2>2. row \notin deleted
    <3>1. ASSUME row \in deleted PROVE FALSE
      <4>1. row.n < next
        BY <2>1, <3>1 DEF Undeleted
      <4> QED
        BY <1>4, <1>8, <4>1
    <3> QED
      BY <3>1
  <2>3. row.n < next + 1
    BY <1>4, <1>8
  <2> QED
    BY <1>11, <2>1, <2>2, <2>3 DEF Undeleted
<1>15. c.exists = st.heap[o].exists
  BY <1>12 DEF s
<1>16. o = st.cache => Undeleted(c.rows, next + 1)
  BY <1>12, <1>14
<1>17. PICK n \in Nat : n = next + 1
  BY <1>4
<1>18. Tame(st, n) /\ Short(c, n) /\ (o = st.cache => Undeleted(c.rows, n))
  BY <1>5, <1>13, <1>16, <1>17
<1>19. LET saved == Saved(With(st, o, c), o) IN
       Tame(saved, n) /\ Held(o, saved) /\ Within(st, saved)
         /\ (o = st.cache => saved.cache = o)
  BY <1>12, <1>15, <1>18, SaveTame
<1> QED
  BY <1>3, <1>17, <1>19 DEF c, s, row

\* A summary is taken from the cached object.
LEMMA TakeTame ==
  ASSUME NEW st, NEW n \in Nat, Tame(st, n), st.cache # None
  PROVE  LET taken == With(st, st.cache, [Session(st, st.cache) EXCEPT !.summary = FALSE]) IN
         Tame(taken, n) /\ taken.cache = st.cache /\ Within(st, taken)
<1> DEFINE o == st.cache
           s == Session(st, o)
           c == [s EXCEPT !.summary = FALSE]
           taken == With(st, o, c)
           h == [st.heap EXCEPT ![o] = c]
<1>1. StoreOK(st) /\ Brief(st, n) /\ Undeleted(st.file.rows, n)
  BY DEF Tame
<1>2. StoreOK(taken) /\ taken.cache = o /\ taken.file = st.file
  BY <1>1, TakeOK
<1>3. s \in Contents /\ s = st.heap[o] /\ o \in DOMAIN st.heap /\ st \in Stores
  BY <1>1, CachedContent DEF Session, StoreOK
<1> HIDE DEF s
<1>4. /\ c \in Contents /\ c.rows = s.rows /\ c.last = s.last /\ c.exists = s.exists
  BY <1>3 DEF Contents
<1> HIDE DEF c
<1>5. taken = [heap |-> h, cache |-> o, file |-> st.file] /\ DOMAIN h = DOMAIN st.heap
      /\ h[o] = c
  BY <1>3, <1>4, WithOK
<1>6. \A i \in DOMAIN st.heap : i # o => h[i] = st.heap[i]
  OBVIOUS
<1>7. taken.heap = h
  BY <1>5
<1> HIDE DEF taken, h
<1>8. \A i \in DOMAIN h : Short(h[i], n)
  BY <1>1, <1>3, <1>4, <1>5, <1>6 DEF Brief, Short
<1>9. Brief(taken, n)
  BY <1>1, <1>2, <1>3, <1>4, <1>5, <1>7, <1>8 DEF Brief
<1> QED
  BY <1>1, <1>2, <1>5, <1>7, <1>9 DEF Tame, Within, taken, c, s

\* The cached object is saved with the rows it has.
LEMMA KeepTame ==
  ASSUME NEW st, NEW n \in Nat, Tame(st, n), NEW o, o = st.cache, o # None,
         NEW c \in Contents, c.rows = st.heap[o].rows, c.last = st.heap[o].last,
         c.exists = st.heap[o].exists
  PROVE  LET saved == Saved(With(st, o, c), o) IN
         Tame(saved, n) /\ saved.cache = o /\ Within(st, saved)
<1>1. StoreOK(st) /\ Brief(st, n) /\ Undeleted(st.file.rows, n)
  BY DEF Tame
<1>2. o \in DOMAIN st.heap /\ st.heap[o].rows = st.file.rows
  BY <1>1 DEF StoreOK, Fits
<1>3. Held(o, st) /\ Short(c, n)
  BY <1>1, <1>2 DEF Held, Brief, Short
<1>4. Undeleted(c.rows, n)
  BY <1>1, <1>2
<1> QED
  BY <1>3, <1>4, SaveTame

LEMMA AsIsTame ==
  ASSUME NEW st, NEW n \in Nat, Tame(st, n), NEW o, o = st.cache, o # None
  PROVE  Tame(Saved(st, o), n) /\ Saved(st, o).cache = o /\ Within(st, Saved(st, o))
<1>1. StoreOK(st) /\ st \in Stores /\ o \in DOMAIN st.heap
  BY DEF Tame, StoreOK
<1>2. PICK c \in Contents : c = st.heap[o]
  BY <1>1, NoneHeld
<1>3. st.heap \in Seq(Contents)
  BY <1>1, StoreFields
<1>4. [st.heap EXCEPT ![o] = c] = st.heap
  BY <1>1, <1>2, <1>3, LenProperties
<1>5. With(st, o, c) = [heap |-> [st.heap EXCEPT ![o] = c], cache |-> st.cache, file |-> st.file]
  BY <1>1, <1>2, WithOK
<1>6. With(st, o, c) = st
  BY <1>1, <1>4, <1>5, StoreFields
<1>7. c.rows = st.heap[o].rows /\ c.last = st.heap[o].last /\ c.exists = st.heap[o].exists
  BY <1>2
<1> QED
  BY <1>6, <1>7, KeepTame

LEMMA WithinOnward ==
  ASSUME NEW st, NEW t, NEW u, Within(st, t), Within(t, u)
  PROVE  Within(st, u)
BY DEF Within

\* What a turn begins with is the cached object.
LEMMA PreparedTame ==
  ASSUME next \in Nat, Tame(store, next), Closes => next \in 1..MaxRows,
         NEW n, n = (IF Closes THEN next + 1 ELSE next)
  PROVE  Tame(Prepared, n) /\ Held(Prepared.cache, Prepared) /\ Within(store, Prepared)
<1> DEFINE opened == Opened(store)
           o == opened.cache
           s == Session(opened, o)
           restored == IF Interrupted(s) THEN AddRow(opened, o, "assistant", FALSE)
                       ELSE IF s.pending THEN Saved(With(opened, o, [s EXCEPT !.pending = FALSE]), o)
                       ELSE opened
           t == Session(restored, o)
           taken == With(restored, o, [t EXCEPT !.summary = FALSE])
<1>0. n \in Nat
  OBVIOUS
<1>1. Tame(opened, next) /\ o # None /\ Held(o, opened) /\ Within(store, opened)
  BY OpenTame
<1>2. Prepared = IF summaries \/ ~t.summary THEN taken ELSE Saved(taken, o)
  BY DEF Prepared
<1>3. Closes <=> Interrupted(s)
  BY DEF Closes
<1>4. s = opened.heap[o] /\ s \in Contents
  <2>1. StoreOK(opened) /\ o \in DOMAIN opened.heap
    BY <1>1 DEF Tame, Held
  <2> QED
    BY <2>1, NoneHeld DEF Session
<1> HIDE DEF opened, s
<1>5. Tame(restored, n) /\ restored.cache = o /\ Within(opened, restored)
  <2>1. CASE Interrupted(s)
    <3>1. next \in 1..MaxRows /\ n = next + 1
      BY <1>3, <2>1
    <3>2. restored = AddRow(opened, o, "assistant", FALSE)
      BY <2>1
    <3>3. PICK role \in {"user", "assistant"} : role = "assistant"
      OBVIOUS
    <3>4. PICK pending \in BOOLEAN : pending = FALSE
      OBVIOUS
    <3>5. restored = AddRow(opened, o, role, pending)
      BY <3>2, <3>3, <3>4
    <3>6. /\ Tame(AddRow(opened, o, role, pending), next + 1)
          /\ AddRow(opened, o, role, pending).cache = o
          /\ Within(opened, AddRow(opened, o, role, pending))
      <4> HIDE DEF restored, o
      <4> QED
        BY <1>1, <3>1, AddTame DEF o
    <3> HIDE DEF restored
    <3> QED
      BY <3>1, <3>5, <3>6
  <2>2. CASE ~Interrupted(s) /\ s.pending
    <3> DEFINE c == [s EXCEPT !.pending = FALSE]
    <3>1. c \in Contents /\ c.rows = s.rows /\ c.last = s.last /\ c.exists = s.exists
      BY <1>4 DEF Contents
    <3>2. restored = Saved(With(opened, o, c), o) /\ n = next
      BY <1>3, <2>2
    <3> HIDE DEF c, restored
    <3>3. /\ Tame(Saved(With(opened, o, c), o), next)
          /\ Saved(With(opened, o, c), o).cache = o
          /\ Within(opened, Saved(With(opened, o, c), o))
      BY <1>1, <1>4, <3>1, KeepTame
    <3> QED
      BY <3>2, <3>3
  <2>3. CASE ~Interrupted(s) /\ ~s.pending
    <3>1. restored = opened /\ n = next
      BY <1>3, <2>3
    <3> HIDE DEF restored
    <3> QED
      BY <1>1, <3>1 DEF Within
  <2> QED
    BY <2>1, <2>2, <2>3
<1> HIDE DEF restored
<1>6. Tame(taken, n) /\ taken.cache = o /\ Within(restored, taken)
  BY <1>0, <1>1, <1>5, TakeTame
<1> HIDE DEF taken
<1>7. Tame(Saved(taken, o), n) /\ Saved(taken, o).cache = o /\ Within(taken, Saved(taken, o))
  BY <1>0, <1>1, <1>6, AsIsTame
<1>8. Tame(Prepared, n) /\ Prepared.cache = o /\ Within(taken, Prepared)
  <2>1. Prepared = taken \/ Prepared = Saved(taken, o)
    BY <1>2
  <2> QED
    BY <1>6, <1>7, <2>1 DEF Within
<1>9. Held(Prepared.cache, Prepared)
  BY <1>1, <1>8 DEF Tame, StoreOK, Held
<1> QED
  BY <1>1, <1>5, <1>6, <1>8, <1>9 DEF Within

\* What a trim keeps are rows the session had.
LEMMA RecentRows ==
  ASSUME NEW rows \in Seq(Row)
  PROVE  /\ Recent(rows) \in Seq(Row) /\ Len(Recent(rows)) <= Len(rows)
         /\ ToSet(Recent(rows)) \subseteq ToSet(rows) /\ Len(Older(rows)) \in Nat
<1>1. Len(rows) \in Nat /\ Keep \in Nat
  BY LenProperties, ConstantsAssumption
<1>2. CASE rows = <<>>
  <2>1. Len(rows) = 0
    BY <1>2
  <2>2. Recent(rows) = rows
    BY <1>1, <2>1 DEF Recent
  <2>3. Older(rows) = SubSeq(rows, 1, 0) /\ SubSeq(rows, 1, 0) = <<>>
    BY <2>1, <2>2, SubSeqEmpty DEF Older
  <2>4. Len(Older(rows)) = 0
    BY <2>3
  <2> QED
    BY <1>1, <2>2, <2>4
<1>3. CASE rows # <<>>
  <2>1. PICK k \in 1..Len(rows) : /\ Recent(rows) = SubSeq(rows, k, Len(rows))
                                  /\ Older(rows) = SubSeq(rows, 1, k - 1)
    BY <1>3, RecentProperties
  <2>2. /\ Recent(rows) \in Seq(Row) /\ ToSet(rows) = ToSet(Older(rows)) \cup ToSet(Recent(rows))
        /\ Len(Older(rows)) = k - 1 /\ Len(Recent(rows)) = Len(rows) - k + 1
    BY <2>1, CutSets
  <2> QED
    BY <1>1, <2>2
<1> QED
  BY <1>2, <1>3

LEMMA TrimTame ==
  ASSUME NEW st, NEW n \in Nat, Tame(st, n)
  PROVE  Tame(Trimmed(st), n) /\ Within(st, Trimmed(st))
<1> DEFINE opened == Opened(st)
           o == opened.cache
           s == Session(opened, o)
           dropped == Len(Older(s.rows))
           c == [s EXCEPT !.rows = Recent(s.rows), !.last = IF @ > dropped THEN @ - dropped ELSE 0]
<1>1. Tame(opened, n) /\ o # None /\ Held(o, opened) /\ Within(st, opened)
  BY OpenTame
<1>2. Trimmed(st) = Saved(With(opened, o, c), o)
  BY DEF Trimmed
<1>3. StoreOK(opened) /\ Brief(opened, n) /\ Undeleted(opened.file.rows, n)
  BY <1>1 DEF Tame
<1> HIDE DEF opened
<1>4. /\ s = opened.heap[o] /\ s \in Contents /\ s.rows = opened.file.rows /\ Short(s, n)
  <2>1. o \in DOMAIN opened.heap
    BY <1>1 DEF Held
  <2> QED
    BY <1>1, <1>3, <2>1, CachedContent DEF Session, Brief
<1> HIDE DEF s
<1>5. s.rows \in Seq(Row) /\ Len(s.rows) \in Nat /\ s.last = 0
  BY <1>4, ContentFields, LenProperties DEF Short
<1>6. /\ Recent(s.rows) \in Seq(Row) /\ Len(Recent(s.rows)) <= Len(s.rows)
      /\ ToSet(Recent(s.rows)) \subseteq ToSet(s.rows) /\ dropped \in Nat
  BY <1>5, RecentRows
<1> HIDE DEF dropped
<1>7. c \in Contents /\ c.rows = Recent(s.rows) /\ c.last = 0 /\ c.exists = s.exists
  <2>1. ~(s.last > dropped) /\ 0 \in 0..MaxRows
    BY <1>5, <1>6, ConstantsAssumption
  <2> QED
    BY <1>4, <1>6, <2>1 DEF Contents
<1> HIDE DEF c
<1>8. Len(Recent(s.rows)) \in Nat
  BY <1>6, LenProperties
<1>9. Short(c, n)
  BY <1>4, <1>5, <1>6, <1>7, <1>8 DEF Short
<1>10. Undeleted(c.rows, n)
  BY <1>3, <1>4, <1>6, <1>7 DEF Undeleted
<1>11. c.exists = opened.heap[o].exists
  BY <1>4, <1>7
<1>12. Tame(Saved(With(opened, o, c), o), n) /\ Within(opened, Saved(With(opened, o, c), o))
  <2> HIDE DEF o
  <2> QED
    BY <1>1, <1>7, <1>9, <1>10, <1>11, SaveTame
<1> QED
  BY <1>1, <1>2, <1>12 DEF Within

\* A session without rows, which is not cached any more.
LEMMA EmptyTame ==
  ASSUME NEW st, NEW n \in Nat \ {0}, Tame(st, n), NEW o, o = st.cache, Held(o, st)
  PROVE  Tame(Emptied(st, o), n) /\ Within(st, Emptied(st, o))
<1> DEFINE s == Session(st, o)
           c == [s EXCEPT !.rows = <<>>, !.last = 0]
           saved == Saved(With(st, o, c), o)
<1>1. StoreOK(st) /\ Brief(st, n) /\ Undeleted(st.file.rows, n) /\ o \in DOMAIN st.heap
  BY DEF Tame, Held
<1>2. s = st.heap[o] /\ s \in Contents
  BY <1>1, NoneHeld DEF Session
<1> HIDE DEF s
<1>3. <<>> \in Seq(Row) /\ 0 \in 0..MaxRows /\ Len(<<>>) = 0 /\ ToSet(<<>>) = {}
  <2>1. MaxRows \in Nat /\ Len(<<>>) = 0
    BY ConstantsAssumption
  <2> QED
    BY <2>1, EmptySeq, EmptyInjective
<1>4. c \in Contents /\ c.rows = <<>> /\ c.last = 0 /\ c.exists = st.heap[o].exists
  BY <1>2, <1>3 DEF Contents
<1>5. Emptied(st, o) = Invalidated(saved)
  BY DEF Emptied, s
<1> HIDE DEF c
<1>6. Short(c, n) /\ Undeleted(c.rows, n)
  BY <1>1, <1>3, <1>4 DEF Short, Undeleted
<1>7. Tame(saved, n) /\ Within(st, saved)
  BY <1>4, <1>6, SaveTame
<1> HIDE DEF saved
<1>8. StoreOK(saved) /\ Brief(saved, n) /\ Undeleted(saved.file.rows, n) /\ saved \in Stores
  BY <1>7 DEF Tame, StoreOK
<1>9. /\ StoreOK(Invalidated(saved)) /\ Invalidated(saved).cache = None
      /\ Invalidated(saved).file = saved.file
  BY <1>8, InvalidatedOK
<1>10. Invalidated(saved) = [heap |-> saved.heap, cache |-> None, file |-> saved.file]
  BY <1>8, StoreUpdates DEF Invalidated
<1>11. Invalidated(saved).heap = saved.heap
  BY <1>10
<1>12. Brief(Invalidated(saved), n)
  BY <1>8, <1>9, <1>11 DEF Brief
<1> QED
  BY <1>5, <1>7, <1>8, <1>9, <1>11, <1>12 DEF Tame, Within

\* What a new process finds, after a flush or not.
LEMMA RestartTame ==
  ASSUME NEW n \in Nat, NEW st, Tame(st, n), NEW file \in {st.file, Flushed(st).file}
  PROVE  Tame([heap |-> <<>>, cache |-> None, file |-> file], n)
<1> DEFINE t == [heap |-> <<>>, cache |-> None, file |-> file]
<1>1. StoreOK(st) /\ Brief(st, n) /\ Undeleted(st.file.rows, n)
  BY DEF Tame
<1>2. /\ file \in Contents /\ (file.exists \/ file = NoFile)
      /\ file.rows = st.file.rows /\ file.last = st.file.last
  <2>1. st.file \in Contents /\ (st.file.exists \/ st.file = NoFile)
    BY <1>1, StoreFields DEF StoreOK, Fits
  <2> QED
    BY <1>1, <2>1, FlushedOK
<1>3. StoreOK(t) /\ t.cache = None /\ t.file = file
  BY <1>2, RestartedOK
<1>4. t.heap = <<>> /\ DOMAIN <<>> = {}
  OBVIOUS
<1> HIDE DEF t
<1>5. Brief(t, n)
  BY <1>1, <1>2, <1>3, <1>4 DEF Brief, Short
<1> QED
  BY <1>1, <1>2, <1>3, <1>5 DEF Tame, t

\* The task of /new, with the rows that were not consolidated.
Carrying(chunk) == [Off EXCEPT !.kind = "archive", !.pc = "llm", !.chunk = chunk]

\* No consolidation finds more rows than its budget, and none has a chunk.
Modest(st) ==
  {Off} \cup {Consolidating(o) : o \in DOMAIN st.heap} \cup {Carrying(chunk) : chunk \in Seq(Row)}

OneTypes ==
  /\ plan \in Plans /\ next \in 1..(MaxRows + 1)
  /\ turn \in [Lanes -> Turns]
  /\ task \in [Workers -> Modest(store)]

TurnHeld ==
  \A l \in Lanes :
    \/ turn[l] = Idle
    \/ /\ l \in plan.lanes
       /\ \/ turn[l].pc = "new"
          \/ turn[l].pc \in {"consolidating", "running"} /\ Held(turn[l].obj, store)

OneInv == OneTypes /\ Tame(store, next) /\ TurnHeld

LEMMA NextTame ==
  ASSUME deleted' = deleted, NEW st, store' = st, NEW n, next' = n, Tame(st, n)
  PROVE  Tame(store, next)'
<1>1. StoreOK(store)'
  BY DEF Tame, StoreOK, Fits
<1>2. Brief(store, next)'
  BY DEF Tame, Brief, Short
<1>3. Undeleted(store.file.rows, next)'
  BY DEF Tame, Undeleted
<1> QED
  BY <1>1, <1>2, <1>3 DEF Tame

LEMMA ModestGrows ==
  ASSUME NEW st, NEW t, Within(st, t)
  PROVE  Modest(st) \subseteq Modest(t)
BY DEF Within, Modest

LEMMA ModestKinds ==
  ASSUME NEW st, NEW x \in Modest(st)
  PROVE  \/ x = Off /\ x.kind = "off"
         \/ x.kind = "consolidate" /\ x.pc = "lock" /\ x.obj \in DOMAIN st.heap
         \/ x.kind = "archive"
<1>1. ASSUME NEW o, x = Consolidating(o) PROVE x.kind = "consolidate" /\ x.pc = "lock" /\ x.obj = o
  BY <1>1 DEF Consolidating, Off
<1>2. ASSUME NEW chunk, x = Carrying(chunk) PROVE x.kind = "archive"
  BY <1>2 DEF Carrying, Off
<1> QED
  BY <1>1, <1>2, OffTypes DEF Modest

\* Tasks stay modest when the store moves on and one of them changes.
LEMMA NextTasks ==
  ASSUME task \in [Workers -> Modest(store)], NEW st, store' = st, Within(store, st),
         \/ task' = task
         \/ \E p \in Workers, x \in Modest(st) : task' = [task EXCEPT ![p] = x]
  PROVE  (task \in [Workers -> Modest(store)])'
<1>1. task \in [Workers -> Modest(st)]
  BY ModestGrows
<1>2. task' \in [Workers -> Modest(st)]
  BY <1>1
<1>3. Modest(store') = Modest(st)
  BY DEF Modest
<1> QED
  BY <1>2, <1>3

\* While one turn is at work the other lane is idle.
LEMMA OthersIdle ==
  ASSUME OneInv, OneTurn(plan), NEW l \in plan.lanes
  PROVE  \A k \in Lanes : k # l => turn[k] = Idle
BY DEF OneInv, TurnHeld, OneTurn

LEMMA LaneAtWork ==
  ASSUME OneInv, NEW l \in Lanes, turn[l].pc # "idle"
  PROVE  l \in plan.lanes /\ (turn[l].pc # "new" => Held(turn[l].obj, store))
BY OffTypes DEF OneInv, TurnHeld

LEMMA LaneAtRest ==
  ASSUME OneInv, NEW l \in Lanes, turn[l].pc = "idle"
  PROVE  turn[l] = Idle
BY DEF OneInv, TurnHeld

\* The one turn is at work, or at rest.
LEMMA NextTurns ==
  ASSUME OneInv, OneTurn(plan), plan' = plan, NEW l \in Lanes, l \in plan.lanes,
         NEW st, store' = st, NEW t \in Turns, turn' = [turn EXCEPT ![l] = t],
         \/ t = Idle
         \/ t.pc = "new"
         \/ t.pc \in {"consolidating", "running"} /\ Held(t.obj, st)
  PROVE  (turn \in [Lanes -> Turns])' /\ TurnHeld'
<1>1. turn \in [Lanes -> Turns]
  BY DEF OneInv, OneTypes
<1>2. turn' \in [Lanes -> Turns] /\ turn'[l] = t /\ \A k \in Lanes : k # l => turn'[k] = turn[k]
  BY <1>1
<1>3. \A k \in Lanes : k # l => turn'[k] = Idle
  BY <1>2, OthersIdle
<1>4. Held(t.obj, st) => Held(turn[l].obj, store)'
  BY <1>2 DEF Held
<1> QED
  BY <1>2, <1>3, <1>4 DEF TurnHeld

LEMMA RestTurns ==
  ASSUME turn \in [Lanes -> Turns], turn' = turn, \A l \in Lanes : turn[l] = Idle
  PROVE  (turn \in [Lanes -> Turns])' /\ TurnHeld'
BY DEF TurnHeld

LEMMA AcquireOne ==
  ASSUME OneInv, OneTurn(plan), NEW p \in Workers, Acquire(p)
  PROVE  OneInv'
<1> DEFINE o == task[p].obj
           s == Session(store, o)
<1>1. OneTypes /\ Tame(store, next) /\ TurnHeld
  BY DEF OneInv
<1>2. task[p].kind = "consolidate" /\ task[p].pc = "lock"
  BY DEF Acquire
<1>3. task[p] \in Modest(store)
  BY <1>1 DEF OneTypes
<1>4. o \in DOMAIN store.heap
  BY <1>2, <1>3, ModestKinds
<1>5. s \in Contents /\ Short(s, next)
  BY <1>1, <1>4, NoneHeld DEF Session, Tame, Brief
<1>6. ~(Estimate(s) >= plan.budget)
  <2>1. /\ Len(s.rows) \in Nat /\ s.last = 0 /\ Len(s.rows) < next /\ next \in 1..(MaxRows + 1)
        /\ MaxRows \in Nat /\ plan.budget \in Nat /\ plan.budget > MaxRows
    BY <1>1, <1>5, ContentFields, LenProperties, ConstantsAssumption
       DEF Short, OneTypes, OneTurn
  <2> HIDE DEF s
  <2> QED
    BY <2>1 DEF Estimate
<1>7. /\ UNCHANGED <<plan, store, turn, next, deleted>>
      /\ task' = [task EXCEPT ![p] = Off]
  BY <1>6 DEF Acquire
<1>8. (task \in [Workers -> Modest(store)])'
  BY <1>1, <1>7, NextTasks DEF OneTypes, Modest, Within
<1>9. TurnHeld' /\ Tame(store, next)'
  BY <1>1, <1>7, NextTame DEF TurnHeld, Held
<1> QED
  BY <1>1, <1>7, <1>8, <1>9 DEF OneInv, OneTypes

LEMMA NeitherOne ==
  ASSUME OneInv, OneTurn(plan)
  PROVE  /\ \A p \in Workers, ok \in BOOLEAN : ~Consolidated(p, ok)
         /\ \A j \in Jobs : ~Compact(j) /\ ~CompactReads(j)
         /\ \A j \in Jobs, ok \in BOOLEAN : ~CompactWrites(j, ok)
         /\ ~Create
<1>1. \A p \in Workers : task[p] \in Modest(store)
  BY DEF OneInv, OneTypes
<1>2. \A p \in Workers : task[p].kind \in {"off", "consolidate", "archive"}
  BY <1>1, ModestKinds
<1>3. \A p \in Workers : task[p].kind = "consolidate" => task[p].pc = "lock"
  BY <1>1, ModestKinds
<1>4. ASSUME NEW p \in Workers, NEW ok \in BOOLEAN, Consolidated(p, ok) PROVE FALSE
  <2>1. task[p].kind = "consolidate" /\ task[p].pc = "llm"
    BY <1>4 DEF Consolidated
  <2> QED
    BY <1>3, <2>1
<1>5. ASSUME NEW j \in Jobs, Compact(j) PROVE FALSE
  BY <1>5 DEF Compact, May, OneTurn
<1>6. ASSUME NEW j \in Jobs, CompactReads(j) PROVE FALSE
  BY <1>2, <1>6 DEF CompactReads, Workers
<1>7. ASSUME NEW j \in Jobs, NEW ok \in BOOLEAN, CompactWrites(j, ok) PROVE FALSE
  BY <1>2, <1>7 DEF CompactWrites, Workers
<1>8. ASSUME Create PROVE FALSE
  BY <1>8 DEF Create, May, OneTurn
<1> QED
  BY <1>4, <1>5, <1>6, <1>7, <1>8

LEMMA BeginOne ==
  ASSUME OneInv, OneTurn(plan), NEW l \in Lanes, Begin(l)
  PROVE  OneInv'
<1> DEFINE o == Prepared.cache
           t == [pc |-> "consolidating", obj |-> o]
<1>1. OneTypes /\ Tame(store, next) /\ TurnHeld
  BY DEF OneInv
<1>2. /\ l \in plan.lanes /\ Fetches /\ store' = Prepared
      /\ turn' = [turn EXCEPT ![l] = t]
      /\ task' = [task EXCEPT ![l] = Consolidating(o)]
      /\ UNCHANGED <<plan, deleted>>
  BY DEF Begin, Put
<1>3. /\ next \in 1..MaxRows /\ next' = (IF Closes THEN next + 1 ELSE next)
      /\ next' \in 1..(MaxRows + 1) /\ next \in Nat
  BY <1>1, <1>2, ConstantsAssumption DEF Fetches, OneTypes
<1>4. Tame(Prepared, next') /\ Held(o, Prepared) /\ Within(store, Prepared)
  BY <1>1, <1>3, PreparedTame
<1>5. o \in DOMAIN Prepared.heap /\ o \in Objects /\ t.pc = "consolidating" /\ t.obj = o
  <2>1. StoreOK(Prepared) /\ o \in DOMAIN Prepared.heap
    BY <1>4 DEF Tame, Held
  <2> HIDE DEF o
  <2> QED
    BY <2>1, NoneHeld DEF o
<1> HIDE DEF o
<1>6. t \in Turns
  BY <1>5 DEF Turns
<1> HIDE DEF t
<1>7. (turn \in [Lanes -> Turns])' /\ TurnHeld'
  BY <1>2, <1>4, <1>5, <1>6, NextTurns
<1>8. Consolidating(o) \in Modest(Prepared) /\ l \in Workers
  BY <1>5 DEF Modest, Workers
<1>9. (task \in [Workers -> Modest(store)])'
  BY <1>1, <1>2, <1>4, <1>8, NextTasks DEF OneTypes
<1>10. Tame(store, next)'
  BY <1>2, <1>4, NextTame
<1> QED
  BY <1>1, <1>2, <1>3, <1>7, <1>9, <1>10 DEF OneInv, OneTypes

LEMMA PromptOne ==
  ASSUME OneInv, OneTurn(plan), NEW l \in Lanes, Prompt(l)
  PROVE  OneInv'
<1> DEFINE o == turn[l].obj
           added == AddRow(store, o, "user", TRUE)
           t == [turn[l] EXCEPT !.pc = "running"]
<1>1. OneTypes /\ Tame(store, next) /\ TurnHeld
  BY DEF OneInv
<1>2. /\ turn[l].pc = "consolidating" /\ next < MaxRows /\ store' = added /\ next' = next + 1
      /\ turn' = [turn EXCEPT ![l] = t]
      /\ UNCHANGED <<plan, task, deleted>>
  BY DEF Prompt, Put
<1>3. next \in 1..MaxRows /\ next + 1 \in 1..(MaxRows + 1)
  BY <1>1, <1>2, ConstantsAssumption DEF OneTypes
<1>4. l \in plan.lanes /\ Held(o, store)
  BY <1>2, LaneAtWork
<1>5. t \in Turns /\ t.pc = "running" /\ t.obj = o
  BY <1>1 DEF OneTypes, Turns
<1>6. Tame(added, next + 1) /\ Held(o, added) /\ Within(store, added)
  <2>1. PICK role \in {"user", "assistant"}, pending \in BOOLEAN : role = "user" /\ pending = TRUE
    OBVIOUS
  <2>2. added = AddRow(store, o, role, pending)
    BY <2>1
  <2> HIDE DEF added, o
  <2> QED
    BY <1>1, <1>3, <1>4, <2>2, AddTame
<1> HIDE DEF added, o, t
<1>7. (turn \in [Lanes -> Turns])' /\ TurnHeld'
  BY <1>2, <1>4, <1>5, <1>6, NextTurns
<1>8. (task \in [Workers -> Modest(store)])'
  BY <1>1, <1>2, <1>6, NextTasks DEF OneTypes
<1>9. Tame(store, next)'
  BY <1>2, <1>6, NextTame
<1> QED
  BY <1>1, <1>2, <1>3, <1>7, <1>8, <1>9 DEF OneInv, OneTypes

LEMMA EndOne ==
  ASSUME OneInv, OneTurn(plan), NEW l \in Lanes, End(l)
  PROVE  OneInv'
<1> DEFINE o == turn[l].obj
           answered == AddRow(store, o, "assistant", FALSE)
           after == IF "trim" \in plan.ops THEN Trimmed(answered) ELSE answered
<1>1. OneTypes /\ Tame(store, next) /\ TurnHeld
  BY DEF OneInv
<1>2. /\ turn[l].pc = "running" /\ next <= MaxRows /\ store' = after /\ next' = next + 1
      /\ turn' = [turn EXCEPT ![l] = Idle]
      /\ \E j \in Jobs : task' = [task EXCEPT ![j] = Consolidating(o)]
      /\ UNCHANGED <<plan, deleted>>
  BY DEF End
<1>3. next \in 1..MaxRows /\ next + 1 \in 1..(MaxRows + 1) /\ next + 1 \in Nat
  BY <1>1, <1>2, ConstantsAssumption DEF OneTypes
<1>4. l \in plan.lanes /\ Held(o, store)
  BY <1>2, LaneAtWork
<1>5. Tame(answered, next + 1) /\ Within(store, answered)
  <2>1. PICK role \in {"user", "assistant"}, pending \in BOOLEAN :
          role = "assistant" /\ pending = FALSE
    OBVIOUS
  <2>2. answered = AddRow(store, o, role, pending)
    BY <2>1
  <2> HIDE DEF answered, o
  <2> QED
    BY <1>1, <1>3, <1>4, <2>2, AddTame
<1> HIDE DEF answered
<1>6. PICK n \in Nat : n = next + 1
  BY <1>3
<1>7. Tame(answered, n)
  BY <1>5, <1>6
<1>8. Tame(Trimmed(answered), n) /\ Within(answered, Trimmed(answered))
  BY <1>7, TrimTame
<1>9. Tame(after, n) /\ Within(store, after)
  BY <1>5, <1>7, <1>8 DEF Within
<1> HIDE DEF after
<1>10. (turn \in [Lanes -> Turns])' /\ TurnHeld'
  BY <1>2, <1>4, OffTypes, NextTurns
<1>11. o \in DOMAIN after.heap
  BY <1>4, <1>9 DEF Held, Within
<1>12. Consolidating(o) \in Modest(after)
  BY <1>11 DEF Modest
<1>13. (task \in [Workers -> Modest(store)])'
  <2>1. PICK j \in Jobs : task' = [task EXCEPT ![j] = Consolidating(o)]
    BY <1>2
  <2>2. j \in Workers
    BY DEF Workers
  <2> HIDE DEF o
  <2> QED
    BY <1>1, <1>2, <1>9, <1>12, <2>1, <2>2, NextTasks DEF OneTypes
<1>14. Tame(store, next)'
  BY <1>2, <1>6, <1>9, NextTame
<1> QED
  BY <1>1, <1>2, <1>3, <1>10, <1>13, <1>14 DEF OneInv, OneTypes

LEMMA CancelOne ==
  ASSUME OneInv, OneTurn(plan), NEW l \in Lanes, NEW t \in Turns, t = Idle \/ t.pc = "new",
         turn[l].pc \in {"consolidating", "running"},
         turn' = [turn EXCEPT ![l] = t], task' = [task EXCEPT ![l] = Off],
         UNCHANGED <<plan, store, next, deleted>>
  PROVE  OneInv'
<1>1. OneTypes /\ Tame(store, next) /\ TurnHeld
  BY DEF OneInv
<1>2. l \in plan.lanes /\ l \in Workers
  BY LaneAtWork DEF Workers
<1>3. (turn \in [Lanes -> Turns])' /\ TurnHeld'
  BY <1>2, NextTurns
<1>4. Off \in Modest(store) /\ Within(store, store)
  BY DEF Modest, Within
<1>5. (task \in [Workers -> Modest(store)])'
  BY <1>1, <1>2, <1>4, NextTasks DEF OneTypes
<1>6. Tame(store, next)'
  BY <1>1, NextTame
<1> QED
  BY <1>1, <1>3, <1>5, <1>6 DEF OneInv, OneTypes

\* The task that /new may leave.
LEMMA NextArchive ==
  ASSUME task \in [Workers -> Modest(store)], NEW st, store' = st, Within(store, st),
         NEW s \in Contents, s.last = 0, ArchivesSnapshot(task, s)
  PROVE  (task \in [Workers -> Modest(store)])'
<1>1. Snapshot(s) \in Seq(Row)
  <2>1. s.rows \in Seq(Row)
    BY ContentFields
  <2>2. PICK a \in Nat \ {0}, b \in Nat : a = s.last + 1 /\ b = Len(s.rows)
    BY <2>1, LenProperties
  <2>3. SubSeq(s.rows, a, b) \in Seq(Row)
    <3>1. b <= Len(s.rows)
      BY <2>2
    <3> QED
      BY <2>1, <3>1, SubSeqRows
  <2> QED
    BY <2>2, <2>3 DEF Snapshot, Unconsolidated
<1>2. Carrying(Snapshot(s)) \in Modest(st)
  BY <1>1 DEF Modest
<1>3. task' = task \/ \E j \in Jobs : task' = [task EXCEPT ![j] = Carrying(Snapshot(s))]
  BY DEF ArchivesSnapshot, Carrying
<1>4. Jobs \subseteq Workers
  BY DEF Workers
<1> QED
  BY <1>2, <1>3, <1>4, NextTasks

LEMMA NewTurnOne ==
  ASSUME OneInv, OneTurn(plan), NewTurn
  PROVE  OneInv'
<1> DEFINE o == Prepared.cache
           s == Session(Prepared, o)
           emptied == Emptied(Prepared, o)
<1>1. OneTypes /\ Tame(store, next) /\ TurnHeld
  BY DEF OneInv
<1>2. /\ "dispatch" \in plan.lanes /\ turn["dispatch"].pc = "idle" /\ Fetches
      /\ store' = emptied /\ ArchivesSnapshot(task, s)
      /\ UNCHANGED <<plan, turn, deleted>>
  BY DEF NewTurn, Put
<1>3. /\ next \in 1..MaxRows /\ next' = (IF Closes THEN next + 1 ELSE next)
      /\ next' \in 1..(MaxRows + 1) /\ next \in Nat /\ next' \in Nat \ {0}
  BY <1>1, <1>2, ConstantsAssumption DEF Fetches, OneTypes
<1>4. Tame(Prepared, next') /\ Held(o, Prepared) /\ Within(store, Prepared)
  BY <1>1, <1>3, PreparedTame
<1>5. Tame(emptied, next') /\ Within(Prepared, emptied)
  <2>1. PICK n \in Nat \ {0} : n = next'
    BY <1>3
  <2>2. Tame(Prepared, n)
    BY <1>4, <2>1
  <2> QED
    BY <1>4, <2>1, <2>2, EmptyTame
<1>6. s \in Contents /\ s.last = 0
  <2>1. StoreOK(Prepared) /\ Brief(Prepared, next') /\ o \in DOMAIN Prepared.heap
    BY <1>4 DEF Tame, Held
  <2> HIDE DEF o
  <2> QED
    BY <2>1, NoneHeld DEF Session, Brief, Short
<1> HIDE DEF emptied, s
<1>7. Within(store, emptied)
  BY <1>4, <1>5, WithinOnward
<1>8. (task \in [Workers -> Modest(store)])'
  BY <1>1, <1>2, <1>6, <1>7, NextArchive DEF OneTypes
<1>9. "dispatch" \in Lanes
  BY ConstantsAssumption
<1>10. \A k \in Lanes : turn[k] = Idle
  BY <1>2, <1>9, LaneAtRest, OthersIdle
<1>11. (turn \in [Lanes -> Turns])' /\ TurnHeld'
  BY <1>1, <1>2, <1>10, RestTurns DEF OneTypes
<1>12. Tame(store, next)'
  BY <1>2, <1>5, NextTame
<1> QED
  BY <1>1, <1>2, <1>3, <1>8, <1>11, <1>12 DEF OneInv, OneTypes

LEMMA NewCancelsOne ==
  ASSUME OneInv, OneTurn(plan), NewCancels
  PROVE  OneInv'
<1>0. PICK t : t = [pc |-> "new", obj |-> None]
  OBVIOUS
<1>1. PICK l \in Lanes : l = "dispatch"
  BY ConstantsAssumption
<1>2. t \in Turns /\ t.pc = "new"
  BY <1>0 DEF Turns, Objects
<1>3. /\ turn[l].pc \in {"consolidating", "running"}
      /\ turn' = [turn EXCEPT ![l] = t] /\ task' = [task EXCEPT ![l] = Off]
      /\ UNCHANGED <<plan, store, next, deleted>>
  BY <1>0, <1>1 DEF NewCancels
<1> QED
  BY <1>2, <1>3, CancelOne

LEMMA NewClearsOne ==
  ASSUME OneInv, OneTurn(plan), NewClears
  PROVE  OneInv'
<1> DEFINE opened == Opened(store)
           o == opened.cache
           s == Session(opened, o)
           emptied == Emptied(opened, o)
<1>1. OneTypes /\ Tame(store, next) /\ TurnHeld
  BY DEF OneInv
<1>2. /\ turn["dispatch"].pc = "new" /\ store' = emptied /\ ArchivesSnapshot(task, s)
      /\ turn' = [turn EXCEPT !["dispatch"] = Idle]
      /\ UNCHANGED <<plan, next, deleted>>
  BY DEF NewClears, Put
<1>3. PICK n \in Nat \ {0} : n = next
  BY <1>1 DEF OneTypes
<1>4. Tame(opened, n) /\ Held(o, opened) /\ Within(store, opened)
  BY <1>1, <1>3, OpenTame
<1> HIDE DEF opened
<1>5. Tame(emptied, n) /\ Within(opened, emptied)
  BY <1>4, EmptyTame
<1>6. s \in Contents /\ s.last = 0
  <2>1. StoreOK(opened) /\ Brief(opened, n) /\ o \in DOMAIN opened.heap
    BY <1>4 DEF Tame, Held
  <2> HIDE DEF o
  <2> QED
    BY <2>1, NoneHeld DEF Session, Brief, Short
<1> HIDE DEF emptied, s
<1>7. Within(store, emptied)
  BY <1>4, <1>5, WithinOnward
<1>8. (task \in [Workers -> Modest(store)])'
  BY <1>1, <1>2, <1>6, <1>7, NextArchive DEF OneTypes
<1>9. PICK l \in Lanes : l = "dispatch"
  BY ConstantsAssumption
<1>10. l \in plan.lanes
  BY <1>2, <1>9, LaneAtWork
<1>11. turn' = [turn EXCEPT ![l] = Idle] /\ Idle \in Turns
  BY <1>2, <1>9, OffTypes
<1>12. (turn \in [Lanes -> Turns])' /\ TurnHeld'
  BY <1>2, <1>10, <1>11, NextTurns
<1>13. Tame(store, next)'
  BY <1>2, <1>3, <1>5, NextTame
<1> QED
  BY <1>1, <1>2, <1>8, <1>12, <1>13 DEF OneInv, OneTypes

LEMMA ArchivedOne ==
  ASSUME OneInv, NEW j \in Jobs, Archived(j)
  PROVE  OneInv'
<1>1. OneTypes /\ Tame(store, next) /\ TurnHeld
  BY DEF OneInv
<1>2. task' = [task EXCEPT ![j] = Off] /\ UNCHANGED <<plan, store, turn, next, deleted>>
  BY DEF Archived
<1>3. Off \in Modest(store) /\ Within(store, store) /\ j \in Workers
  BY DEF Modest, Within, Workers
<1>4. (task \in [Workers -> Modest(store)])'
  BY <1>1, <1>2, <1>3, NextTasks DEF OneTypes
<1>5. TurnHeld' /\ Tame(store, next)'
  BY <1>1, <1>2, NextTame DEF TurnHeld, Held
<1> QED
  BY <1>1, <1>2, <1>4, <1>5 DEF OneInv, OneTypes

\* The turn that is at work keeps its object, which was on disk.
LEMMA DeleteOne ==
  ASSUME OneInv, OneTurn(plan), Delete
  PROVE  OneInv'
<1> DEFINE rows == store.file.rows
<1>1. OneTypes /\ Tame(store, next) /\ TurnHeld
  BY DEF OneInv
<1>2. /\ store.file.exists
      /\ store' = [heap |-> store.heap, cache |-> None, file |-> NoFile]
      /\ deleted' = deleted \cup ToSet(rows)
      /\ UNCHANGED <<plan, turn, task, next>>
  BY DEF Delete, work
<1>3. StoreOK(store) /\ Brief(store, next) /\ Undeleted(rows, next) /\ store \in Stores
  BY <1>1 DEF Tame, StoreOK
<1>4. store'.heap = store.heap /\ store'.cache = None /\ store'.file = NoFile
  BY <1>2
<1>5. StoreOK(store)'
  <2>1. store.heap \in Seq(Contents) /\ None \in Objects /\ NoFile \in Contents
    BY <1>3, StoreFields, FileTypes DEF Objects
  <2>2. store' \in Stores
    BY <1>2, <2>1, StoreType
  <2> QED
    BY <1>4, <2>2 DEF StoreOK, Fits
<1>6. NoFile.rows = <<>> /\ NoFile.last = 0 /\ ~NoFile.exists
  BY FileTypes
<1>7. next \in 1..(MaxRows + 1) /\ Len(<<>>) = 0 /\ 0 < next
  <2>1. MaxRows \in Nat /\ Len(<<>>) = 0 /\ next \in 1..(MaxRows + 1)
    BY <1>1, ConstantsAssumption DEF OneTypes
  <2> QED
    BY <2>1
<1>8. Short(NoFile, next)
  BY <1>6, <1>7 DEF Short
<1>9. Brief(store, next)'
  BY <1>2, <1>3, <1>4, <1>8 DEF Brief, Short
<1>10. ToSet(rows) \subseteq Row
  BY <1>3, StoreFields, ContentFields, RowsAreRows
<1>11. Undeleted(store.file.rows, next)'
  BY <1>2, <1>3, <1>4, <1>6, <1>10, EmptyInjective DEF Undeleted
<1>12. ASSUME NEW l \in Lanes, Held(turn[l].obj, store) PROVE Held(turn[l].obj, store)'
  <2>1. turn[l].obj \in DOMAIN store.heap /\ turn[l].obj = store.cache
    BY <1>2, <1>6, <1>12 DEF Held
  <2>2. store.heap[turn[l].obj].exists
    <3>1. store.cache # None
      BY <1>3, <2>1, NoneHeld
    <3> QED
      BY <1>2, <1>3, <2>1, <3>1 DEF Brief
  <2> QED
    BY <1>2, <1>4, <2>1, <2>2 DEF Held
<1>13. TurnHeld'
  BY <1>1, <1>2, <1>12 DEF TurnHeld
<1>14. (task \in [Workers -> Modest(store)])'
  <2>1. Within(store, store')
    BY <1>4 DEF Within
  <2>2. PICK st : st = store'
    OBVIOUS
  <2> QED
    BY <1>1, <1>2, <2>1, <2>2, NextTasks DEF OneTypes
<1> QED
  BY <1>1, <1>2, <1>5, <1>9, <1>11, <1>13, <1>14 DEF OneInv, OneTypes, Tame

LEMMA EndsOne ==
  ASSUME OneInv, ProcessEnds, NEW file \in {store.file, Flushed(store).file},
         store' = [heap |-> <<>>, cache |-> None, file |-> file]
  PROVE  OneInv'
<1> DEFINE st == [heap |-> <<>>, cache |-> None, file |-> file]
<1>1. OneTypes /\ Tame(store, next)
  BY DEF OneInv
<1>2. /\ turn' = [l \in Lanes |-> Idle] /\ task' = [p \in Workers |-> Off]
      /\ UNCHANGED <<plan, next, deleted>>
  BY DEF ProcessEnds, Workers
<1>3. next \in Nat
  BY <1>1 DEF OneTypes
<1>4. Tame(st, next)
  BY <1>1, <1>3, RestartTame
<1> HIDE DEF st
<1>5. store' = st
  BY DEF st
<1>6. Tame(store, next)'
  BY <1>2, <1>4, <1>5, NextTame
<1>7. (turn \in [Lanes -> Turns])' /\ TurnHeld'
  BY <1>2, OffTypes DEF TurnHeld
<1>8. (task \in [Workers -> Modest(store)])'
  BY <1>2 DEF Modest
<1> QED
  BY <1>1, <1>2, <1>6, <1>7, <1>8 DEF OneInv, OneTypes

LEMMA StillOne ==
  ASSUME OneInv, UNCHANGED vars
  PROVE  OneInv'
<1>1. UNCHANGED <<plan, store, turn, task, next, deleted>>
  BY DEF vars, work
<1>2. OneTypes /\ Tame(store, next) /\ TurnHeld
  BY DEF OneInv
<1>3. Tame(store, next)' /\ TurnHeld'
  BY <1>1, <1>2, NextTame DEF TurnHeld, Held
<1>4. OneTypes'
  BY <1>1, <1>2 DEF OneTypes, Modest
<1> QED
  BY <1>3, <1>4 DEF OneInv

LEMMA InitOne ==
  ASSUME Init
  PROVE  OneInv
<1>1. /\ plan \in Plans /\ store = [heap |-> <<>>, cache |-> None, file |-> NoFile]
      /\ turn = [l \in Lanes |-> Idle] /\ task = [p \in Workers |-> Off]
      /\ deleted = {} /\ next = 1
  BY DEF Init, Workers
<1>2. OneTypes /\ TurnHeld
  <2>1. 1 \in 1..(MaxRows + 1)
    BY ConstantsAssumption
  <2> QED
    BY <1>1, <2>1, OffTypes DEF OneTypes, TurnHeld, Modest
<1>3. StoreOK(store) /\ store.cache = None /\ store.file = NoFile /\ store.heap = <<>>
  BY <1>1, RestartedOK, FileTypes
<1>4. NoFile.rows = <<>> /\ NoFile.last = 0 /\ Len(<<>>) = 0 /\ DOMAIN <<>> = {}
      /\ ToSet(<<>>) = {}
  <2>1. Len(<<>>) = 0 /\ DOMAIN <<>> = {}
    OBVIOUS
  <2> QED
    BY <2>1, FileTypes, EmptyInjective
<1>5. Brief(store, next)
  BY <1>1, <1>3, <1>4 DEF Brief, Short
<1>6. Undeleted(store.file.rows, next)
  BY <1>1, <1>3, <1>4 DEF Undeleted
<1> QED
  BY <1>2, <1>3, <1>5, <1>6 DEF OneInv, Tame

LEMMA OneInductive ==
  ASSUME OneInv, OneTurn(plan), [Next]_vars
  PROVE  OneInv'
<1>1. ASSUME NEW l \in Lanes, LaneNext(l) PROVE OneInv'
  <2>1. ASSUME Cancel(l) PROVE OneInv'
    BY <2>1, CancelOne, OffTypes DEF Cancel
  <2> QED
    BY <1>1, <2>1, BeginOne, PromptOne, EndOne DEF LaneNext
<1>2. ASSUME NEW p \in Lanes \cup Jobs, TaskNext(p) PROVE OneInv'
  BY <1>2, AcquireOne, NeitherOne DEF TaskNext, Workers
<1>3. ASSUME NEW j \in Jobs, JobNext(j) PROVE OneInv'
  BY <1>3, ArchivedOne, NeitherOne DEF JobNext
<1>4. CASE NewTurn \/ NewCancels \/ NewClears
  BY <1>4, NewTurnOne, NewCancelsOne, NewClearsOne
<1>5. CASE Delete \/ Create
  BY <1>5, DeleteOne, NeitherOne
<1>6. CASE Stop \/ Crash
  BY <1>6, EndsOne DEF Stop, Crash, Put
<1>7. CASE UNCHANGED vars
  BY <1>7, StillOne
<1> QED
  BY <1>1, <1>2, <1>3, <1>4, <1>5, <1>6, <1>7 DEF Next, Quiescent

-----------------------------------------------------------------------------
(***************************************************************************)
(* The theorems                                                            *)
(***************************************************************************)

LEMMA InitInv ==
  ASSUME Init
  PROVE  StoreInv
<1>1. /\ plan \in Plans /\ store = [heap |-> <<>>, cache |-> None, file |-> NoFile]
      /\ turn = [l \in Lanes |-> Idle] /\ task = [p \in Workers |-> Off]
      /\ lock = <<>> /\ archiving = FALSE /\ summaries = FALSE
      /\ history = <<>> /\ evicted = {} /\ said = {} /\ deleted = {}
      /\ next = 1 /\ used = [o \in Operations |-> 0]
  BY DEF Init, Workers
<1>2. /\ \A l \in Lanes : turn[l] = Idle /\ turn[l] \in Turns
      /\ \A p \in Workers : task[p] = Off /\ task[p] \in Tasks
  BY <1>1, OffTypes
<1>3. StoreOK(store) /\ store.file.rows = <<>> /\ store.file.last = 0
  BY <1>1, RestartedOK, FileTypes
<1>4. /\ <<>> \in Seq(Workers) /\ <<>> \in Seq(Row) /\ Len(<<>>) = 0
      /\ IsInjective(<<>>) /\ ToSet(<<>>) = {} /\ \A p : ~Contains(<<>>, p)
  <2>1. Len(<<>>) = 0
    OBVIOUS
  <2> QED
    BY <2>1, EmptySeq, EmptyInjective DEF Contains
<1>5. SessionTypes
  <2>1. 1 \in 1..(MaxRows + 1) /\ 0 \in 0..MaxOps
    <3>1. MaxRows \in Nat /\ MaxOps \in Nat
      BY ConstantsAssumption
    <3> QED
      BY <3>1
  <2>2. turn \in [Lanes -> Turns] /\ task \in [Workers -> Tasks]
    BY <1>1, OffTypes
  <2> QED
    BY <1>1, <1>4, <2>1, <2>2 DEF SessionTypes
<1>6. TurnInv /\ TaskInv /\ FreshInv /\ ChunkInv
  BY <1>2, OffTypes DEF TurnInv, TaskInv, FreshInv, ChunkInv, Workers
<1>7. LockInv
  BY <1>1, <1>2, <1>4, OffTypes DEF LockInv
<1>8. LaneInv /\ TrimInv
  BY <1>2, OffTypes DEF LaneInv, TrimInv, Workers
<1>9. RowsInv
  <2>1. Good(<<>>, 0, <<>>, {}, 1)
    BY <1>4 DEF Good
  <2> QED
    BY <1>1, <1>3, <2>1 DEF RowsInv
<1>10. RowsKept
  BY <1>1 DEF RowsKept
<1> QED
  BY <1>3, <1>5, <1>6, <1>7, <1>8, <1>9, <1>10 DEF StoreInv

LEMMA PlanKept ==
  ASSUME [Next]_vars
  PROVE  plan' = plan
<1>1. ASSUME NEW l \in Lanes, LaneNext(l) PROVE plan' = plan
  BY <1>1 DEF LaneNext, Begin, Prompt, End, Cancel
<1>2. ASSUME NEW p \in Lanes \cup Jobs, TaskNext(p) PROVE plan' = plan
  BY <1>2 DEF TaskNext, Acquire, Consolidated
<1>3. ASSUME NEW j \in Jobs, JobNext(j) PROVE plan' = plan
  BY <1>3 DEF JobNext, Archived, Compact, CompactReads, CompactWrites
<1>4. CASE NewTurn \/ NewCancels \/ NewClears
  BY <1>4 DEF NewTurn, NewCancels, NewClears
<1>5. CASE Delete \/ Create \/ Stop \/ Crash
  BY <1>5 DEF Delete, Create, Stop, Crash, ProcessEnds
<1>6. CASE UNCHANGED vars
  BY <1>6 DEF vars
<1> QED
  BY <1>1, <1>2, <1>3, <1>4, <1>5, <1>6 DEF Next, Quiescent

LEMMA Inductive ==
  ASSUME StoreInv, Steady(plan), [Next]_vars
  PROVE  StoreInv' /\ Steady(plan)'
<1>1. StoreInv'
  <2>1. ASSUME NEW l \in Lanes, LaneNext(l) PROVE StoreInv'
    BY <2>1, BeginStep, PromptStep, EndStep, CancelStep DEF LaneNext
  <2>2. ASSUME NEW p \in Lanes \cup Jobs, TaskNext(p) PROVE StoreInv'
    BY <2>2, AcquireStep, ConsolidatedStep DEF TaskNext, Workers
  <2>3. ASSUME NEW j \in Jobs, JobNext(j) PROVE StoreInv'
    BY <2>3, ArchivedStep, CompactStep, CompactReadsStep, CompactWritesStep DEF JobNext
  <2>4. CASE NewTurn \/ NewCancels \/ NewClears
    BY <2>4, NewTurnStep, NewAtRest
  <2>5. CASE Delete \/ Create \/ Stop \/ Crash
    BY <2>5, DeleteStep, CreateStep, StopStep, CrashStep
  <2>6. CASE UNCHANGED vars
    BY <2>6, StillStep
  <2> QED
    BY <2>1, <2>2, <2>3, <2>4, <2>5, <2>6 DEF Next, Quiescent
<1>2. plan' = plan
  BY PlanKept
<1> QED
  BY <1>1, <1>2

LEMMA Invariance == Spec /\ Steady(plan) => []StoreInv
<1>1. Init => StoreInv
  BY InitInv
<1>2. StoreInv /\ Steady(plan) /\ [Next]_vars => StoreInv' /\ Steady(plan)'
  BY Inductive
<1> QED
  BY <1>1, <1>2, PTL DEF Spec

LEMMA OneInvariance == Spec /\ OneTurn(plan) => []OneInv
<1>1. Init => OneInv
  BY InitOne
<1>2. OneInv /\ OneTurn(plan) /\ [Next]_vars => OneInv' /\ OneTurn(plan)'
  BY OneInductive, PlanKept DEF OneTurn
<1> QED
  BY <1>1, <1>2, PTL DEF Spec

\* The rows, the cursor, the objects and the queues have their types; no turn and
\* no task works on an object that was never cached.
THEOREM TypeCorrect == Spec /\ Steady(plan) => []TypeOK
<1>1. ASSUME StoreInv PROVE TypeOK
  <2>1. /\ SessionTypes /\ StoreOK(store) /\ TurnInv /\ TaskInv /\ RowsInv
    BY <1>1 DEF StoreInv
  <2>2. store.cache \in {None} \cup DOMAIN store.heap
    BY <2>1 DEF StoreOK
  <2>3. \A l \in Lanes : turn[l].obj \in {None, store.cache}
    BY <2>1 DEF TurnInv, Idle
  <2>4. \A p \in Workers : task[p].obj \in {None, store.cache}
    BY <2>1, OffTypes DEF TaskInv, Waiting, Maintaining
  <2>5. history \in Seq(Row) /\ deleted \in SUBSET Row
    BY <2>1 DEF RowsInv, Good
  <2>6. {store.cache} \cup {turn[l].obj : l \in Lanes} \cup {task[p].obj : p \in Lanes \cup Jobs}
          \subseteq {None} \cup DOMAIN store.heap
    BY <2>2, <2>3, <2>4 DEF Workers
  <2> QED
    BY <2>1, <2>5, <2>6 DEF TypeOK, SessionTypes, StoreOK, Workers
<1> QED
  BY <1>1, Invariance, PTL

\* What a turn said is never lost: whatever consolidations, trims, compactions
\* and /new do to the session, each row the file has held is still in it, or in
\* the archive, in the transcript, deleted by the user or with the task of /new.
THEOREM RowsStayKept == Spec /\ Steady(plan) => []RowsKept
<1>1. StoreInv => RowsKept
  BY DEF StoreInv
<1> QED
  BY <1>1, Invariance, PTL

\* The rows before the session's cursor are in history.jsonl: a consolidation
\* advances it only over the chunk it has archived, and whoever else moves rows
\* out of the file moves the cursor with them.
THEOREM CursorFollowsArchive == Spec /\ Steady(plan) => []HiddenRowsAreArchived
<1>1. ASSUME StoreInv PROVE HiddenRowsAreArchived
  <2> DEFINE rows == store.file.rows
             last == store.file.last
  <2>1. Good(rows, last, history, deleted, next)
    BY <1>1 DEF StoreInv, RowsInv
  <2>2. /\ rows \in Seq(Row) /\ last \in Nat
        /\ rows # <<>> => last < Len(rows)
        /\ rows = <<>> => last = 0
        /\ \A i \in 1..Len(rows) : rows[i] \in ToSet(history) <=> i <= last
    BY <2>1 DEF Good
  <2> HIDE DEF rows, last
  <2>3. Len(rows) \in Nat /\ (rows = <<>> => Len(rows) = 0)
    BY <2>2, LenProperties
  <2>4. last <= Len(rows)
    BY <2>2, <2>3
  <2>5. \A i \in 1..last : i \in 1..Len(rows) /\ i <= last
    BY <2>2, <2>3, <2>4
  <2> QED
    BY <2>2, <2>4, <2>5 DEF HiddenRowsAreArchived, rows, last
<1> QED
  BY <1>1, Invariance, PTL

\* No row enters history.jsonl twice: the consolidations of a session, which
\* hold its lock, begin where the one before them ended, and what a compaction
\* or /new archives no consolidation has archived.
THEOREM RowsArchivedOnce == Spec /\ Steady(plan) => []ArchivedOnce
<1>1. StoreInv => ArchivedOnce
  BY DEF StoreInv, RowsInv, Good, ArchivedOnce
<1> QED
  BY <1>1, Invariance, PTL

\* What the console deletes stays deleted: no turn, task or flush writes one of
\* the rows to the session file again.  Either the deletion comes when nothing
\* is at work, or beside a turn, which keeps the session's object over its awaits:
\* what it saves then finds that the file is gone (manager.py:433), whatever trims,
\* cancellations, /new commands, shutdowns and crashes come next.
THEOREM DeletedRowsStayDeleted ==
  Spec /\ (Steady(plan) \/ OneTurn(plan)) => []DeletedStaysDeleted
<1>1. ASSUME StoreInv PROVE DeletedStaysDeleted
  <2>1. Good(store.file.rows, store.file.last, history, deleted, next)
    BY <1>1 DEF StoreInv, RowsInv
  <2>2. /\ store.file.rows \in Seq(Row)
        /\ \A i \in 1..Len(store.file.rows) : store.file.rows[i] \notin deleted
    BY <2>1 DEF Good
  <2>3. DOMAIN store.file.rows = 1..Len(store.file.rows)
    BY <2>2, LenProperties
  <2> QED
    BY <2>2, <2>3 DEF DeletedStaysDeleted, ToSet
<1>2. OneInv => DeletedStaysDeleted
  BY DEF OneInv, Tame, Undeleted, DeletedStaysDeleted
<1> QED
  BY <1>1, <1>2, Invariance, OneInvariance, PTL

\* The prompt of a session begins with a user's row after every consolidation,
\* trim and compaction.
THEOREM PromptsBeginWithTurns == Spec /\ Steady(plan) => []CutsBetweenTurns
<1>1. ASSUME StoreInv PROVE CutsBetweenTurns
  <2>1. Good(store.file.rows, store.file.last, history, deleted, next)
    BY <1>1 DEF StoreInv, RowsInv
  <2> QED
    BY <2>1, VisibleRows DEF CutsBetweenTurns, Unconsolidated
<1> QED
  BY <1>1, Invariance, PTL
=============================================================================
