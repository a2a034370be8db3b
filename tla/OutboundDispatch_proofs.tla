---------------------- MODULE OutboundDispatch_proofs ----------------------
(***************************************************************************)
(* Proofs about OutboundDispatch, for all plans of messages, chats,        *)
(* streams and limits: no part of a text is shown twice or out of order,   *)
(* and once everything is handled every part that was published is shown,  *)
(* apart from the known losses.                                            *)
(***************************************************************************)
EXTENDS OutboundDispatch, SequenceTheorems, FiniteSetTheorems, NaturalsInduction,
        WellFoundedInduction, TLAPS

\* Induction for a set, from the order of the natural numbers.
LEMMA SetInduction ==
  ASSUME NEW S, 0 \in S, \A n \in Nat : n \in S => n + 1 \in S
  PROVE  Nat \subseteq S
<1> DEFINE R == OpToRel(<, Nat)
           T == Nat \ S
<1> SUFFICES ASSUME T # {} PROVE FALSE
  OBVIOUS
<1>1. IsWellFoundedOn(R, Nat)
  BY NatLessThanWellFounded
<1>2. \A x, y \in Nat : y < x => <<y, x>> \in R
  BY DEF OpToRel
<1>3. PICK x \in T : \A y \in T : ~(<<y, x>> \in R)
  <2>1. T \subseteq Nat
    OBVIOUS
  <2> HIDE DEF R, T
  <2> QED
    BY <1>1, <2>1, WFMin
<1>4. x \in Nat /\ x \notin S
  OBVIOUS
<1>5. x # 0
  BY <1>4
<1>6. x - 1 \in Nat /\ x - 1 < x /\ (x - 1) + 1 = x
  BY <1>4, <1>5
<1>7. x - 1 \in S
  BY <1>2, <1>3, <1>4, <1>6
<1> QED
  BY <1>4, <1>6, <1>7

-----------------------------------------------------------------------------
(***************************************************************************)
(* Queues                                                                  *)
(***************************************************************************)

Said(m) == IF Told(m) THEN Range(m.text) ELSE {}

\* The parts that the messages of a queue tell.
Tells(q) == UNION {Said(q[i]) : i \in DOMAIN q}

Messages(q) == \A i \in DOMAIN q : Published(q[i])

LEMMA TellsHas ==
  ASSUME NEW q \in Seq(Message), NEW i \in 1..Len(q)
  PROVE  Said(q[i]) \subseteq Tells(q)
BY DEF Tells

LEMMA SaidAreParts ==
  ASSUME NEW m \in Message
  PROVE  Said(m) \subseteq Nat
<1>1. m.text \in Seq(Nat)
  BY DEF Message, Parts
<1> QED
  BY <1>1 DEF Said, Range

LEMMA TellsAreParts ==
  ASSUME NEW q \in Seq(Message)
  PROVE  Tells(q) \subseteq Nat
BY SaidAreParts DEF Tells

\* What is behind the first k messages of a queue.
LEMMA SuffixIs ==
  ASSUME NEW q \in Seq(Message), InOrder(q), Messages(q), NEW k \in 0..Len(q),
         NEW r \in Seq(Message), Len(r) = Len(q) - k,
         \A i \in 1..Len(r) : r[i] = q[i + k]
  PROVE  /\ InOrder(r) /\ Messages(r) /\ Tells(r) \subseteq Tells(q)
         /\ \A i \in 1..k : Below(Said(q[i]), Tells(r))
<1>1. /\ Len(q) \in Nat /\ Len(r) \in Nat /\ k \in Nat
      /\ DOMAIN q = 1..Len(q) /\ DOMAIN r = 1..Len(r)
  OBVIOUS
<1>2. \A i \in 1..Len(r) : i + k \in 1..Len(q)
  BY <1>1
<1>3. InOrder(r)
  <2> SUFFICES ASSUME NEW i \in 1..Len(r), Told(r[i])
               PROVE  /\ Rising(r[i].text)
                      /\ \A j \in 1..Len(r) :
                           i < j /\ Told(r[j]) => Below(Range(r[i].text), Range(r[j].text))
    BY <1>1 DEF InOrder
  <2>1. i + k \in 1..Len(q) /\ r[i] = q[i + k]
    BY <1>2
  <2>2. ASSUME NEW j \in 1..Len(r), i < j, Told(r[j])
        PROVE  Below(Range(r[i].text), Range(r[j].text))
    <3>1. j + k \in 1..Len(q) /\ r[j] = q[j + k] /\ i + k < j + k
      BY <1>1, <1>2, <2>2
    <3> QED
      BY <1>1, <2>1, <2>2, <3>1 DEF InOrder
  <2> QED
    BY <1>1, <2>1, <2>2 DEF InOrder
<1>4. Messages(r)
  BY <1>1, <1>2 DEF Messages
<1>5. Tells(r) \subseteq Tells(q)
  BY <1>1, <1>2 DEF Tells
<1>6. ASSUME NEW i \in 1..k PROVE Below(Said(q[i]), Tells(r))
  <2> SUFFICES ASSUME NEW j \in 1..Len(r), Told(q[i]), Told(r[j])
               PROVE  Below(Range(q[i].text), Range(r[j].text))
    BY <1>1 DEF Below, Tells, Said
  <2>1. j + k \in 1..Len(q) /\ r[j] = q[j + k] /\ i < j + k /\ i \in 1..Len(q)
    BY <1>1, <1>2
  <2> QED
    BY <1>1, <2>1 DEF InOrder
<1> QED
  BY <1>3, <1>4, <1>5, <1>6

\* The first message of a queue and the others.
LEMMA HeadIs ==
  ASSUME NEW q \in Seq(Message), InOrder(q), Messages(q), q # <<>>
  PROVE  /\ Head(q) \in Message /\ Published(Head(q)) /\ Said(Head(q)) \subseteq Tells(q)
         /\ Told(Head(q)) => Rising(Head(q).text)
         /\ Tail(q) \in Seq(Message) /\ InOrder(Tail(q)) /\ Messages(Tail(q))
         /\ Tells(Tail(q)) \subseteq Tells(q)
         /\ Below(Said(Head(q)), Tells(Tail(q)))
<1>1. /\ Len(q) \in Nat \ {0} /\ Head(q) = q[1] /\ Tail(q) \in Seq(Message)
      /\ Len(Tail(q)) = Len(q) - 1 /\ \A i \in 1..Len(Tail(q)) : Tail(q)[i] = q[i + 1]
      /\ DOMAIN q = 1..Len(q)
  BY HeadTailProperties, EmptySeq
<1>2. 1 \in 0..Len(q) /\ 1 \in 1..Len(q)
  BY <1>1
<1>3. /\ InOrder(Tail(q)) /\ Messages(Tail(q)) /\ Tells(Tail(q)) \subseteq Tells(q)
      /\ \A i \in 1..1 : Below(Said(q[i]), Tells(Tail(q)))
  BY <1>1, <1>2, SuffixIs
<1>4. Head(q) \in Message /\ Published(Head(q)) /\ (Told(Head(q)) => Rising(Head(q).text))
  BY <1>1, <1>2 DEF InOrder, Messages
<1>5. Said(Head(q)) \subseteq Tells(q)
  BY <1>1, <1>2, TellsHas
<1> QED
  BY <1>1, <1>3, <1>4, <1>5

\* A message is put behind a queue.
LEMMA AppendIs ==
  ASSUME NEW q \in Seq(Message), InOrder(q), Messages(q), NEW m \in Message, Published(m),
         Told(m) => Rising(m.text), Below(Tells(q), Said(m))
  PROVE  /\ Append(q, m) \in Seq(Message) /\ InOrder(Append(q, m)) /\ Messages(Append(q, m))
         /\ Tells(Append(q, m)) = Tells(q) \cup Said(m)
<1> DEFINE r == Append(q, m)
<1>1. /\ Len(q) \in Nat /\ r \in Seq(Message) /\ Len(r) = Len(q) + 1
      /\ DOMAIN r = 1..(Len(q) + 1) /\ DOMAIN q = 1..Len(q)
      /\ r[Len(q) + 1] = m /\ \A i \in 1..Len(q) : r[i] = q[i]
  BY AppendProperties
<1> HIDE DEF r
<1>2. \A i \in 1..(Len(q) + 1) : i \in 1..Len(q) \/ i = Len(q) + 1
  BY <1>1
<1>3. \A i \in 1..Len(q) : i \in 1..(Len(q) + 1)
  BY <1>1
<1>4. Len(q) + 1 \in 1..(Len(q) + 1)
  BY <1>1
<1>5. Tells(r) = Tells(q) \cup Said(m)
  BY <1>1, <1>2, <1>3, <1>4 DEF Tells
<1>6. Messages(r)
  BY <1>1, <1>2 DEF Messages
<1>7. InOrder(r)
  <2> SUFFICES ASSUME NEW i \in 1..(Len(q) + 1), Told(r[i])
               PROVE  /\ Rising(r[i].text)
                      /\ \A j \in 1..(Len(q) + 1) :
                           i < j /\ Told(r[j]) => Below(Range(r[i].text), Range(r[j].text))
    BY <1>1 DEF InOrder
  <2>1. Rising(r[i].text)
    BY <1>1, <1>2 DEF InOrder
  <2>2. ASSUME NEW j \in 1..(Len(q) + 1), i < j, Told(r[j])
        PROVE  Below(Range(r[i].text), Range(r[j].text))
    <3>1. i \in 1..Len(q) /\ r[i] = q[i]
      BY <1>1, <2>2
    <3>2. CASE j \in 1..Len(q)
      BY <1>1, <2>2, <3>1, <3>2 DEF InOrder
    <3>3. CASE j = Len(q) + 1
      <4>1. Range(q[i].text) \subseteq Tells(q)
        BY <3>1, TellsHas DEF Said
      <4>2. Range(r[j].text) = Said(m)
        BY <1>1, <2>2, <3>3 DEF Said
      <4> QED
        BY <3>1, <4>1, <4>2 DEF Below
    <3> QED
      BY <1>2, <3>2, <3>3
  <2> QED
    BY <2>1, <2>2
<1> QED
  BY <1>1, <1>5, <1>6, <1>7 DEF r

-----------------------------------------------------------------------------
(***************************************************************************)
(* Coalescing                                                              *)
(***************************************************************************)

\* Combined(m, q) is what its equations say.
LEMMA CombinedFollows ==
  ASSUME NEW m \in Message, NEW q \in Seq(Message)
  PROVE  /\ Combined(m, q)[0] = m.text
         /\ \A n \in 1..Len(q) : Combined(m, q)[n] = Combined(m, q)[n - 1] \o q[n].text
<1> DEFINE len == Len(q)
           Start0(f, n) == f[0] = m.text /\ \A k \in 1..n : f[k] = f[k - 1] \o q[k].text
           Begun == {n \in Nat : n <= len => \E f : Start0(f, n)}
           Solves(f) == f = [n \in 0..len |-> IF n = 0 THEN m.text ELSE f[n - 1] \o q[n].text]
<1>1. len \in Nat
  OBVIOUS
<1> HIDE DEF len
<1>2. 0 \in Begun
  <2> DEFINE g == [k \in 0..0 |-> m.text]
  <2>1. Start0(g, 0)
    OBVIOUS
  <2> HIDE DEF Start0, g
  <2> QED
    BY <2>1
<1>3. ASSUME NEW n \in Nat, n \in Begun PROVE n + 1 \in Begun
  <2> HIDE DEF Start0
  <2> SUFFICES ASSUME n + 1 <= len PROVE \E f : Start0(f, n + 1)
    OBVIOUS
  <2>1. PICK f : Start0(f, n)
    BY <1>1, <1>3
  <2>0. PICK t : t = f[n] \o q[n + 1].text
    OBVIOUS
  <2> USE DEF Start0
  <2> DEFINE g == [k \in 0..(n + 1) |-> IF k = n + 1 THEN t ELSE f[k]]
  <2>2. g[0] = m.text
    BY <2>1
  <2>3. \A k \in 1..(n + 1) : g[k] = g[k - 1] \o q[k].text
    <3> TAKE k \in 1..(n + 1)
    <3>1. k - 1 \in 0..(n + 1) /\ k - 1 # n + 1 /\ k \in 0..(n + 1) /\ g[k - 1] = f[k - 1]
      OBVIOUS
    <3>2. CASE k = n + 1
      <4>1. k - 1 = n /\ g[k] = t
        BY <3>1, <3>2
      <4>2. t = f[n] \o q[k].text
        BY <2>0, <3>2
      <4> HIDE DEF g
      <4> QED
        BY <3>1, <4>1, <4>2
    <3>3. CASE k # n + 1
      <4>1. k \in 1..n /\ g[k] = f[k]
        BY <3>1, <3>3
      <4>2. f[k] = f[k - 1] \o q[k].text
        BY <2>1, <4>1
      <4> HIDE DEF g
      <4> QED
        BY <3>1, <4>1, <4>2
    <3> QED
      BY <3>2, <3>3
  <2> HIDE DEF g
  <2>4. Start0(g, n + 1)
    BY <2>2, <2>3
  <2> QED
    BY <2>4
<1>4. Nat \subseteq Begun
  <2> HIDE DEF Begun
  <2> QED
    BY <1>2, <1>3, SetInduction
<1>5. PICK f : Start0(f, len)
  <2>1. len \in Begun
    <3> HIDE DEF Begun
    <3> QED
      BY <1>1, <1>4
  <2> HIDE DEF Start0
  <2> QED
    BY <1>1, <2>1
<1> DEFINE g == [n \in 0..len |-> f[n]]
<1>6. Solves(g)
  <2>1. \A n \in 0..len : n # 0 => n \in 1..len /\ n - 1 \in 0..len
    BY <1>1
  <2>2. \A n \in 0..len : f[n] = IF n = 0 THEN m.text ELSE f[n - 1] \o q[n].text
    BY <1>5, <2>1
  <2>3. \A n \in 0..len : f[n] = IF n = 0 THEN m.text ELSE g[n - 1] \o q[n].text
    BY <2>1, <2>2
  <2> QED
    BY <2>3
<1>7. \E h : Solves(h)
  <2> HIDE DEF g, Solves
  <2> QED
    BY <1>6
<1> DEFINE h == CHOOSE x : Solves(x)
<1>8. Solves(h)
  <2> HIDE DEF Solves
  <2> QED
    BY <1>7
<1>9. Combined(m, q) = h
  BY Zenon DEF Combined, len
<1> HIDE DEF h
<1>10. h[0] = m.text
  BY <1>1, <1>8
<1>11. \A n \in 1..len : h[n] = h[n - 1] \o q[n].text
  <2>1. \A n \in 1..len : n \in 0..len /\ n # 0
    BY <1>1
  <2> QED
    BY <1>8, <2>1
<1> QED
  BY <1>9, <1>10, <1>11 DEF len

\* Texts in order stay in order when they are joined.
LEMMA JoinedTexts ==
  ASSUME NEW s \in Seq(Nat), NEW t \in Seq(Nat)
  PROVE  /\ s \o t \in Seq(Nat) /\ Range(s \o t) = Range(s) \cup Range(t)
         /\ Len(s \o t) = Len(s) + Len(t)
         /\ (s # <<>> \/ t # <<>>) => s \o t # <<>>
         /\ Rising(s) /\ Rising(t) /\ Below(Range(s), Range(t)) => Rising(s \o t)
<1> DEFINE u == s \o t
<1>1. /\ Len(s) \in Nat /\ Len(t) \in Nat /\ u \in Seq(Nat) /\ Len(u) = Len(s) + Len(t)
      /\ \A i \in 1..Len(u) : u[i] = IF i <= Len(s) THEN s[i] ELSE t[i - Len(s)]
      /\ DOMAIN s = 1..Len(s) /\ DOMAIN t = 1..Len(t) /\ DOMAIN u = 1..Len(u)
  BY ConcatProperties
<1> HIDE DEF u
<1>2. \A i \in 1..Len(u) : (i <= Len(s) /\ i \in 1..Len(s)) \/ (~(i <= Len(s)) /\ i - Len(s) \in 1..Len(t))
  BY <1>1
<1>3. Range(u) = Range(s) \cup Range(t)
  <2>1. Range(u) \subseteq Range(s) \cup Range(t)
    BY <1>1, <1>2 DEF Range
  <2>2. \A i \in 1..Len(s) : i \in 1..Len(u) /\ u[i] = s[i]
    BY <1>1
  <2>3. ASSUME NEW i \in 1..Len(t) PROVE i + Len(s) \in 1..Len(u) /\ u[i + Len(s)] = t[i]
    <3>1. i + Len(s) \in 1..Len(u) /\ ~(i + Len(s) <= Len(s)) /\ (i + Len(s)) - Len(s) = i
      BY <1>1
    <3> QED
      BY <1>1, <3>1
  <2>4. Range(s) \subseteq Range(u)
    BY <1>1, <2>2 DEF Range
  <2>5. ASSUME NEW x \in Range(t) PROVE x \in Range(u)
    <3>1. PICK i \in 1..Len(t) : x = t[i]
      BY <1>1 DEF Range
    <3>2. i + Len(s) \in 1..Len(u) /\ u[i + Len(s)] = x
      BY <2>3, <3>1
    <3> QED
      BY <1>1, <3>2 DEF Range
  <2> QED
    BY <2>1, <2>4, <2>5
<1>4. (s # <<>> \/ t # <<>>) => u # <<>>
  <2>1. s # <<>> => Len(s) # 0
    BY EmptySeq
  <2>2. t # <<>> => Len(t) # 0
    BY EmptySeq
  <2>3. u = <<>> => Len(u) = 0
    OBVIOUS
  <2> QED
    BY <1>1, <2>1, <2>2, <2>3
<1>5. ASSUME Rising(s), Rising(t), Below(Range(s), Range(t)) PROVE Rising(u)
  <2> SUFFICES ASSUME NEW a \in 1..Len(u), NEW b \in 1..Len(u), a < b PROVE u[a] < u[b]
    BY <1>1 DEF Rising
  <2>1. CASE b <= Len(s)
    <3>1. a \in 1..Len(s) /\ b \in 1..Len(s) /\ u[a] = s[a] /\ u[b] = s[b]
      BY <1>1, <2>1
    <3> QED
      BY <1>1, <1>5, <3>1 DEF Rising
  <2>2. CASE a <= Len(s) /\ ~(b <= Len(s))
    <3>1. a \in 1..Len(s) /\ b - Len(s) \in 1..Len(t) /\ u[a] = s[a] /\ u[b] = t[b - Len(s)]
      BY <1>1, <1>2, <2>2
    <3>2. u[a] \in Range(s) /\ u[b] \in Range(t)
      BY <1>1, <3>1 DEF Range
    <3> QED
      BY <1>5, <3>2 DEF Below
  <2>3. CASE ~(a <= Len(s))
    <3>1. /\ a - Len(s) \in 1..Len(t) /\ b - Len(s) \in 1..Len(t) /\ a - Len(s) < b - Len(s)
          /\ u[a] = t[a - Len(s)] /\ u[b] = t[b - Len(s)]
      BY <1>1, <2>3
    <3> QED
      BY <1>1, <1>5, <3>1 DEF Rising
  <2> QED
    BY <1>1, <2>1, <2>2, <2>3
<1> QED
  BY <1>1, <1>3, <1>4, <1>5 DEF u

\* How far coalescing goes.
LEMMA AbsorbedIs ==
  ASSUME NEW m \in Message, NEW q \in Seq(Message)
  PROVE  /\ Absorbed(m, q) \in 0..Len(q)
         /\ \A i \in 1..Absorbed(m, q) : SameStream(m, q[i])
         /\ \A i \in 1..(Absorbed(m, q) - 1) : q[i].kind = "delta"
<1> DEFINE run == {n \in 0..Len(q) : /\ \A i \in 1..n : SameStream(m, q[i])
                                     /\ \A i \in 1..(n - 1) : q[i].kind = "delta"}
           Largest(n) == n \in run /\ \A k \in run : k <= n
           Above == {n \in Nat : \A k \in run : k <= n}
<1>1. Len(q) \in Nat
  OBVIOUS
<1>2. 0 \in run
  BY <1>1
<1>3. \E n : Largest(n)
  <2>1. Len(q) \in Above
    BY <1>1
  <2>2. Above \subseteq Nat /\ Above # {}
    BY <2>1
  <2>3. PICK n \in Above : \A k \in Above : n <= k
    <3>1. \E n \in Above : \A k \in Above : n <= k
      <4> HIDE DEF Above
      <4>1. Nat \ (Nat \ Above) = Above
        BY <2>2
      <4> SUFFICES ASSUME \A n \in Above : \E k \in Above : ~(n <= k) PROVE FALSE
        OBVIOUS
      <4> DEFINE Free == {n \in Nat : \A k \in Above : n <= k}
      <4>2. 0 \in Free
        BY <2>2
      <4>3. ASSUME NEW n \in Nat, n \in Free PROVE n + 1 \in Free
        <5>1. n \notin Above
          BY <4>3
        <5> QED
          BY <2>2, <4>3, <5>1
      <4>4. Nat \subseteq Free
        <5> HIDE DEF Free
        <5> QED
          BY <4>2, <4>3, SetInduction
      <4>5. PICK a : a \in Above
        BY <2>2
      <4>6. a \in Nat /\ a + 1 \in Nat
        BY <2>2, <4>5
      <4>7. a + 1 \in Free
        BY <4>4, <4>6
      <4>8. a + 1 <= a
        BY <4>5, <4>7
      <4>9. ~(a + 1 <= a)
        BY <4>6
      <4> QED
        BY <4>8, <4>9
    <3> QED
      BY <3>1
  <2>4. n \in run
    <3> SUFFICES ASSUME n \notin run PROVE FALSE
      OBVIOUS
    <3>1. n \in Nat /\ \A k \in run : k <= n
      BY <2>3
    <3>2. n # 0
      BY <1>2
    <3>3. n - 1 \in Nat /\ \A k \in run : k <= n - 1
      BY <1>1, <3>1, <3>2
    <3>4. n - 1 \in Above
      BY <3>3
    <3>5. n <= n - 1
      <4> HIDE DEF Above
      <4> QED
        BY <2>3, <3>4
    <3> QED
      BY <3>1, <3>5
  <2> QED
    BY <2>3, <2>4
<1>4. Absorbed(m, q) = CHOOSE n : Largest(n)
  BY Zenon DEF Absorbed
<1>5. Largest(Absorbed(m, q))
  <2> HIDE DEF Largest
  <2> QED
    BY <1>3, <1>4
<1> QED
  BY <1>5

\* The text of a delta and of the messages it absorbs.
LEMMA CombinedIs ==
  ASSUME NEW m \in Message, NEW q \in Seq(Message), NEW k \in 0..Len(q),
         Told(m), Rising(m.text), InOrder(q), Below(Said(m), Tells(q)),
         \A i \in 1..k : Told(q[i])
  PROVE  /\ Combined(m, q)[k] \in Seq(Nat) /\ Rising(Combined(m, q)[k])
         /\ Range(Combined(m, q)[k]) = Said(m) \cup UNION {Said(q[i]) : i \in 1..k}
         /\ m.text # <<>> => Combined(m, q)[k] # <<>>
<1> DEFINE f == Combined(m, q)
           Upto(n) == Said(m) \cup UNION {Said(q[i]) : i \in 1..n}
           Fine(n) == /\ f[n] \in Seq(Nat) /\ Rising(f[n])
                      /\ Range(f[n]) = Upto(n)
                      /\ m.text # <<>> => f[n] # <<>>
           Good == {n \in Nat : n <= k => Fine(n)}
<1>1. f[0] = m.text /\ \A n \in 1..Len(q) : f[n] = f[n - 1] \o q[n].text
  BY CombinedFollows
<1> HIDE DEF f
<1>2. Len(q) \in Nat /\ k \in Nat /\ DOMAIN q = 1..Len(q) /\ m.text \in Seq(Nat)
  BY DEF Message, Parts
<1>3. 0 \in Good
  <2>1. Upto(0) = Said(m)
    OBVIOUS
  <2> QED
    BY <1>1, <1>2, <2>1 DEF Said
<1>4. ASSUME NEW n \in Nat, n \in Good PROVE n + 1 \in Good
  <2> HIDE DEF Fine
  <2> SUFFICES ASSUME n + 1 <= k PROVE Fine(n + 1)
    OBVIOUS
  <2>1. Fine(n) /\ n + 1 \in 1..Len(q) /\ n + 1 \in 1..k
    BY <1>2, <1>4
  <2>2. f[n + 1] = f[n] \o q[n + 1].text
    <3>1. (n + 1) - 1 = n
      OBVIOUS
    <3> QED
      BY <1>1, <2>1, <3>1
  <2>3. PICK t : t = q[n + 1].text
    OBVIOUS
  <2>4. PICK s : s = f[n]
    OBVIOUS
  <2>5. t \in Seq(Nat) /\ Rising(t) /\ Range(t) = Said(q[n + 1])
    <3>1. q[n + 1] \in Message /\ Told(q[n + 1])
      BY <2>1
    <3> QED
      BY <1>2, <2>1, <2>3, <3>1 DEF InOrder, Said, Message, Parts
  <2>6. s \in Seq(Nat) /\ Rising(s) /\ Range(s) = Upto(n) /\ (m.text # <<>> => s # <<>>)
    BY <2>1, <2>4 DEF Fine
  <2>7. Below(Range(s), Range(t))
    <3>1. Below(Said(m), Said(q[n + 1]))
      BY <2>1, TellsHas DEF Below
    <3>2. ASSUME NEW i \in 1..n PROVE Below(Said(q[i]), Said(q[n + 1]))
      <4>1. i \in 1..Len(q) /\ i \in 1..k /\ i < n + 1
        BY <1>2, <2>1
      <4> QED
        BY <1>2, <2>1, <4>1 DEF InOrder, Said
    <3> QED
      BY <2>5, <2>6, <3>1, <3>2 DEF Below
  <2>8. Upto(n + 1) = Upto(n) \cup Said(q[n + 1])
    <3>1. \A i \in 1..(n + 1) : i \in 1..n \/ i = n + 1
      OBVIOUS
    <3>2. \A i \in 1..n : i \in 1..(n + 1)
      OBVIOUS
    <3>3. n + 1 \in 1..(n + 1)
      OBVIOUS
    <3> QED
      BY <3>1, <3>2, <3>3
  <2>9. f[n + 1] = s \o t
    BY <2>2, <2>3, <2>4
  <2>10. /\ s \o t \in Seq(Nat) /\ Rising(s \o t) /\ Range(s \o t) = Range(s) \cup Range(t)
         /\ (s # <<>> => s \o t # <<>>)
    BY <2>5, <2>6, <2>7, JoinedTexts
  <2> HIDE DEF Upto
  <2> QED
    BY <2>5, <2>6, <2>8, <2>9, <2>10 DEF Fine
<1>5. Nat \subseteq Good
  <2> HIDE DEF Good
  <2> QED
    BY <1>3, <1>4, SetInduction
<1>6. Fine(k)
  <2>1. k \in Good
    <3> HIDE DEF Good
    <3> QED
      BY <1>2, <1>5
  <2> HIDE DEF Fine
  <2> QED
    BY <1>2, <2>1
<1> QED
  BY <1>6 DEF f

\* A delta with what it absorbs, the boundary and the rest tell what the delta
\* and the queue told, in the same order.
LEMMA CoalescedIs ==
  ASSUME NEW m \in Message, m.kind = "delta", Published(m), Rising(m.text),
         NEW q \in Seq(Message), InOrder(q), Messages(q), Below(Said(m), Tells(q)),
         NEW c, c = Coalesced(m, q)
  PROVE  /\ c.msg \in Message /\ c.msg.kind \in {"delta", "end"} /\ Published(c.msg)
         /\ Rising(c.msg.text) /\ Said(c.msg) \subseteq Said(m) \cup Tells(q)
         /\ c.back \in Seq(Message) /\ Len(c.back) <= 1 /\ Messages(c.back)
         /\ InOrder(c.back) /\ Tells(c.back) \subseteq Tells(q)
         /\ c.rest \in Seq(Message) /\ Messages(c.rest)
         /\ InOrder(c.rest) /\ Tells(c.rest) \subseteq Tells(q)
         /\ Below(Said(c.msg), Tells(c.back)) /\ Below(Said(c.msg), Tells(c.rest))
         /\ Below(Tells(c.back), Tells(c.rest))
<1>0. PICK n : n = Absorbed(m, q)
  OBVIOUS
<1> DEFINE ended == n > 0 /\ q[n].kind = "end"
           crossed == ~ended /\ n < Len(q)
           k == IF crossed THEN n + 1 ELSE n
<1>1. /\ Len(q) \in Nat /\ DOMAIN q = 1..Len(q) /\ n \in 0..Len(q) /\ n \in Nat
      /\ \A i \in 1..n : SameStream(m, q[i])
  BY <1>0, AbsorbedIs
<1>2. PICK t : t = Combined(m, q)[n]
  OBVIOUS
<1>3. \A i \in 1..n : i \in 1..Len(q) /\ Told(q[i])
  BY <1>1 DEF SameStream, Told
<1>4. /\ t \in Seq(Nat) /\ Rising(t) /\ t # <<>>
      /\ Range(t) = Said(m) \cup UNION {Said(q[i]) : i \in 1..n}
  <2>1. Told(m) /\ m.text # <<>>
    BY DEF Told, Published
  <2> QED
    BY <1>1, <1>2, <1>3, <2>1, CombinedIs
<1>5. /\ c.msg = [m EXCEPT !.text = t, !.kind = IF ended THEN "end" ELSE "delta"]
      /\ c.back = IF crossed THEN <<q[n + 1]>> ELSE <<>>
      /\ c.rest = SubSeq(q, k + 1, Len(q))
  <2>1. k + 1 = IF crossed THEN n + 2 ELSE n + 1
    BY <1>1
  <2>2. /\ c.msg = [m EXCEPT !.text = Combined(m, q)[n], !.kind = IF ended THEN "end" ELSE "delta"]
        /\ c.back = IF crossed THEN <<q[n + 1]>> ELSE <<>>
        /\ c.rest = SubSeq(q, IF crossed THEN n + 2 ELSE n + 1, Len(q))
    BY <1>0 DEF Coalesced
  <2> HIDE DEF k, ended, crossed
  <2> QED
    BY <1>2, <2>1, <2>2
<1>6. PICK d : d = c.msg
  OBVIOUS
<1>7. /\ d \in Message /\ d.kind \in {"delta", "end"} /\ d.text = t /\ d.chat = m.chat
      /\ d.stream = m.stream
  <2>1. d = [m EXCEPT !.text = t, !.kind = IF ended THEN "end" ELSE "delta"]
    BY <1>5, <1>6
  <2>2. (IF ended THEN "end" ELSE "delta") \in {"delta", "end"}
    OBVIOUS
  <2>3. PICK kind \in {"delta", "end"} : kind = IF ended THEN "end" ELSE "delta"
    BY <2>2
  <2> HIDE DEF ended
  <2>4. d = [m EXCEPT !.text = t, !.kind = kind]
    BY <2>1, <2>3
  <2> QED
    BY <1>4, <2>4 DEF Message, Parts, Kinds
<1>8. Published(d) /\ Said(d) = Range(t)
  BY <1>4, <1>7 DEF Published, Said, Told
<1>9. Said(d) \subseteq Said(m) \cup Tells(q)
  BY <1>3, <1>4, <1>8, TellsHas
<1>10. k \in 0..Len(q) /\ k \in Nat /\ n <= k
  BY <1>1
<1> HIDE DEF k
<1>11. /\ c.rest \in Seq(Message) /\ Len(c.rest) = Len(q) - k
       /\ \A i \in 1..Len(c.rest) : c.rest[i] = q[i + k]
  <2>1. \A i \in (k + 1)..Len(q) : q[i] \in Message
    BY <1>1, <1>10
  <2>2. /\ SubSeq(q, k + 1, Len(q)) \in Seq(Message)
        /\ Len(SubSeq(q, k + 1, Len(q))) = IF k + 1 <= Len(q) THEN Len(q) - (k + 1) + 1 ELSE 0
        /\ \A i \in 1..(Len(q) - (k + 1) + 1) : SubSeq(q, k + 1, Len(q))[i] = q[(k + 1) + i - 1]
    <3>1. k + 1 \in Int /\ Len(q) \in Int
      BY <1>1, <1>10
    <3> QED
      BY <2>1, <3>1, SubSeqProperties
  <2>3. \A i \in Nat : (k + 1) + i - 1 = i + k
    BY <1>10
  <2>4. PICK l \in Nat : l = Len(q)
    BY <1>1
  <2>5. k \in Nat /\ k <= l
    BY <1>10, <2>4
  <2>6. l - (k + 1) + 1 = l - k /\ (~(k + 1 <= l) => l - k = 0) /\ l - k \in Nat
    BY <2>5
  <2>7. Len(c.rest) = l - k /\ c.rest \in Seq(Message)
    BY <1>5, <2>2, <2>4, <2>6
  <2>8. \A i \in 1..(l - k) : i \in Nat /\ c.rest[i] = q[(k + 1) + i - 1]
    BY <1>5, <2>2, <2>4, <2>6
  <2> QED
    BY <2>3, <2>4, <2>7, <2>8
<1>12. /\ InOrder(c.rest) /\ Messages(c.rest) /\ Tells(c.rest) \subseteq Tells(q)
       /\ \A i \in 1..k : Below(Said(q[i]), Tells(c.rest))
  BY <1>10, <1>11, SuffixIs
<1>13. Below(Said(d), Tells(c.rest))
  <2>1. \A i \in 1..n : i \in 1..k
    BY <1>1, <1>10
  <2> QED
    BY <1>4, <1>8, <1>12, <2>1 DEF Below
<1>14. CASE crossed
  <2>1. n + 1 \in 1..Len(q) /\ k = n + 1 /\ n + 1 \in 1..k /\ c.back = <<q[n + 1]>>
    BY <1>1, <1>5, <1>14 DEF k
  <2>2. PICK x \in Message : x = q[n + 1]
    BY <2>1
  <2>3. c.back = <<x>>
    BY <2>1, <2>2
  <2>4. /\ c.back \in Seq(Message) /\ Len(c.back) = 1 /\ DOMAIN c.back = 1..1 /\ c.back[1] = x
    BY <2>3
  <2>5. Messages(c.back)
    BY <1>1, <2>1, <2>2, <2>4 DEF Messages
  <2>6. InOrder(c.back)
    BY <1>1, <2>1, <2>2, <2>4 DEF InOrder
  <2>7. Tells(c.back) = Said(x)
    BY <2>4 DEF Tells
  <2>8. Said(x) \subseteq Tells(q)
    BY <2>1, <2>2, TellsHas
  <2>9. Below(Said(x), Tells(c.rest))
    BY <1>12, <2>1, <2>2
  <2>10. Below(Said(d), Said(x))
    <3>1. ASSUME NEW i \in 1..n PROVE Below(Said(q[i]), Said(x))
      <4>1. i \in 1..Len(q) /\ i < n + 1
        BY <1>1, <2>1
      <4> QED
        BY <1>1, <2>1, <2>2, <4>1 DEF InOrder, Said, Below
    <3> QED
      BY <1>4, <1>8, <2>8, <3>1 DEF Below
  <2> QED
    BY <1>4, <1>6, <1>7, <1>8, <1>9, <1>11, <1>12, <1>13, <2>4, <2>5, <2>6, <2>7, <2>8, <2>9, <2>10
<1>15. CASE ~crossed
  <2>1. c.back = <<>>
    BY <1>5, <1>15
  <2>2. c.back \in Seq(Message) /\ Len(c.back) = 0 /\ DOMAIN c.back = {}
    BY <2>1
  <2>3. Messages(c.back) /\ InOrder(c.back) /\ Tells(c.back) = {}
    BY <2>2 DEF Messages, InOrder, Tells
  <2>4. Below(Said(d), Tells(c.back)) /\ Below(Tells(c.back), Tells(c.rest))
    BY <2>3 DEF Below
  <2>5. Len(c.back) <= 1 /\ Tells(c.back) \subseteq Tells(q)
    BY <2>2, <2>3
  <2> QED
    BY <1>4, <1>6, <1>7, <1>8, <1>9, <1>11, <1>12, <1>13, <2>2, <2>3, <2>4, <2>5
<1> QED
  BY <1>14, <1>15

-----------------------------------------------------------------------------
(***************************************************************************)
(* Splitting a text                                                        *)
(***************************************************************************)

LEMMA Division ==
  ASSUME NEW a \in Nat, NEW b \in Nat \ {0}
  PROVE  a \div b \in Nat /\ (a \div b) * b <= a /\ a < (a \div b) * b + b
<1>1. a \div b \in Nat
  OBVIOUS
<1>2. b * (a \div b) <= a
  OBVIOUS
<1>3. a < b * (a \div b) + b
  OBVIOUS
<1>4. \A x \in Nat : b * x = x * b
  OBVIOUS
<1> QED
  BY <1>1, <1>2, <1>3, <1>4

LEMMA Products ==
  ASSUME NEW i \in Nat, NEW j \in Nat, i <= j, NEW b \in Nat
  PROVE  i * b \in Nat /\ j * b \in Nat /\ i * b <= j * b
OBVIOUS

\* Where the i-th chunk of a text of len parts lies.
LEMMA ChunkBounds ==
  ASSUME NEW len \in Nat, NEW size \in Nat \ {0},
         NEW i \in 1..((len + size - 1) \div size)
  PROVE  /\ (i - 1) * size \in Nat /\ i * size \in Nat
         /\ (i - 1) * size < len /\ i * size = (i - 1) * size + size
<1>1. PICK n : n = (len + size - 1) \div size
  OBVIOUS
<1>2. n \in Nat /\ n * size <= len + size - 1
  <2>1. len + size - 1 \in Nat
    OBVIOUS
  <2> QED
    BY <1>1, <2>1, Division
<1>3. i \in 1..n /\ i - 1 \in Nat /\ i \in Nat /\ i <= n
  BY <1>1, <1>2
<1>4. i * size \in Nat /\ i * size <= n * size
  BY <1>2, <1>3, Products
<1>5. i * size = (i - 1) * size + size /\ (i - 1) * size \in Nat
  BY <1>3
<1> QED
  BY <1>2, <1>4, <1>5

\* The parts hold all of the text, and keep its order.
Pieces(parts, text) ==
  /\ parts \in Seq(Seq(Nat))
  /\ \A i \in 1..Len(parts) : /\ parts[i] \in Seq(Nat)
                              /\ Range(parts[i]) \subseteq Range(text)
                              /\ Rising(text) => Rising(parts[i])
  /\ \A i, j \in 1..Len(parts) :
       Rising(text) /\ i < j => Below(Range(parts[i]), Range(parts[j]))
  /\ Range(text) = UNION {Range(parts[i]) : i \in 1..Len(parts)}

\* What remains of the text lies behind the first parts of the given size.
Remains(parts, text, size) ==
  \A i \in 1..Len(parts), rest \in Seq(Nat), l \in Nat :
    /\ Rising(text) /\ i * size <= l /\ l <= Len(text) /\ Len(rest) = Len(text) - l
    /\ \A x \in 1..Len(rest) : rest[x] = text[l + x]
    => Below(Range(parts[i]), Range(rest))

LEMMA ChunksAre ==
  ASSUME NEW text \in Seq(Nat), NEW size \in Nat \ {0}
  PROVE  /\ Pieces(Chunks(text, size), text)
         /\ Remains(Chunks(text, size), text, size)
         /\ Len(Chunks(text, size)) = (Len(text) + size - 1) \div size
         /\ \A i \in 1..Len(Chunks(text, size)) : Chunks(text, size)[i] # <<>>
<1>0. PICK n : n = (Len(text) + size - 1) \div size
  OBVIOUS
<1> DEFINE lo(i) == (i - 1) * size
           hi(i) == IF i * size < Len(text) THEN i * size ELSE Len(text)
           piece(i) == SubSeq(text, lo(i) + 1, hi(i))
           p == [i \in 1..n |-> piece(i)]
<1>1. Chunks(text, size) = p
  BY <1>0 DEF Chunks
<1>2. PICK len : len = Len(text)
  OBVIOUS
<1>3. len \in Nat /\ DOMAIN text = 1..len /\ n \in Nat /\ \A x \in 1..len : text[x] \in Nat
  <2>1. Len(text) + size - 1 \in Nat
    OBVIOUS
  <2> QED
    BY <1>0, <1>2, <2>1, Division
<1>4. ASSUME NEW i \in 1..n
      PROVE  /\ lo(i) \in Nat /\ hi(i) \in Nat /\ lo(i) < hi(i) /\ hi(i) <= len
             /\ hi(i) <= i * size /\ i * size = lo(i) + size /\ i * size \in Nat
  <2>1. i \in 1..((len + size - 1) \div size)
    BY <1>0, <1>2
  <2>2. /\ (i - 1) * size \in Nat /\ i * size \in Nat
        /\ (i - 1) * size < len /\ i * size = (i - 1) * size + size
    BY <1>3, <2>1, ChunkBounds
  <2>3. PICK a \in Nat : a = (i - 1) * size
    BY <2>2
  <2>4. PICK b \in Nat : b = i * size
    BY <2>2
  <2>5. lo(i) = a /\ hi(i) = IF b < len THEN b ELSE len
    BY <1>2, <2>3, <2>4
  <2>6. a < len /\ b = a + size
    BY <2>2, <2>3, <2>4
  <2> HIDE DEF lo, hi
  <2> QED
    BY <1>3, <2>4, <2>5, <2>6
<1> HIDE DEF lo, hi
<1>5. ASSUME NEW i \in 1..n
      PROVE  /\ piece(i) \in Seq(Nat) /\ Len(piece(i)) = hi(i) - lo(i) /\ piece(i) # <<>>
             /\ \A x \in 1..Len(piece(i)) : /\ piece(i)[x] = text[lo(i) + x]
                                            /\ lo(i) + x \in 1..len
                                            /\ lo(i) < lo(i) + x /\ lo(i) + x <= hi(i)
  <2>1. PICK a \in Nat : a = lo(i)
    BY <1>4
  <2>2. PICK b \in Nat : b = hi(i)
    BY <1>4
  <2>3. a < b /\ b <= len
    BY <1>4, <2>1, <2>2
  <2>4. \A x \in (a + 1)..b : text[x] \in Nat
    BY <1>3, <2>3
  <2>5. /\ SubSeq(text, a + 1, b) \in Seq(Nat)
        /\ Len(SubSeq(text, a + 1, b)) = IF a + 1 <= b THEN b - (a + 1) + 1 ELSE 0
        /\ \A x \in 1..(b - (a + 1) + 1) : SubSeq(text, a + 1, b)[x] = text[(a + 1) + x - 1]
    <3>1. a + 1 \in Int /\ b \in Int
      OBVIOUS
    <3> QED
      BY <2>4, <3>1, SubSeqProperties
  <2>6. b - (a + 1) + 1 = b - a /\ a + 1 <= b /\ b - a # 0
    BY <2>3
  <2>7. \A x \in 1..(b - a) : (a + 1) + x - 1 = a + x /\ a + x \in 1..len /\ a < a + x /\ a + x <= b
    BY <1>3, <2>3
  <2>8. PICK s : s = SubSeq(text, a + 1, b)
    OBVIOUS
  <2>9. /\ s \in Seq(Nat) /\ Len(s) = b - a /\ s # <<>>
        /\ \A x \in 1..(b - a) : s[x] = text[a + x]
    <3>1. s \in Seq(Nat) /\ Len(s) = b - a /\ \A x \in 1..(b - a) : s[x] = text[(a + 1) + x - 1]
      BY <2>5, <2>6, <2>8
    <3>2. s # <<>>
      BY <2>6, <3>1, EmptySeq
    <3> QED
      BY <2>7, <3>1, <3>2
  <2>10. piece(i) = s
    BY <2>1, <2>2, <2>8
  <2> HIDE DEF piece
  <2> QED
    BY <2>1, <2>2, <2>7, <2>9, <2>10
<1>6. p \in Seq(Seq(Nat)) /\ Len(p) = n /\ \A i \in 1..n : p[i] = piece(i)
  <2> HIDE DEF piece
  <2> QED
    BY <1>3, <1>5
<1>7. ASSUME NEW i \in 1..n, NEW y
      PROVE  y \in Range(piece(i)) <=> \E x \in 1..len : lo(i) < x /\ x <= hi(i) /\ y = text[x]
  <2>1. ASSUME y \in Range(piece(i)) PROVE \E x \in 1..len : lo(i) < x /\ x <= hi(i) /\ y = text[x]
    <3>1. PICK x \in 1..Len(piece(i)) : y = piece(i)[x]
      <4> HIDE DEF piece
      <4> QED
        BY <1>5, <2>1 DEF Range
    <3> HIDE DEF piece
    <3> QED
      BY <1>5, <3>1
  <2>2. ASSUME NEW x \in 1..len, lo(i) < x, x <= hi(i), y = text[x] PROVE y \in Range(piece(i))
    <3>1. x - lo(i) \in 1..(hi(i) - lo(i)) /\ lo(i) + (x - lo(i)) = x
      BY <1>3, <1>4, <2>2
    <3> HIDE DEF piece
    <3>2. x - lo(i) \in DOMAIN piece(i) /\ piece(i)[x - lo(i)] = y
      BY <1>5, <2>2, <3>1
    <3> QED
      BY <3>2 DEF Range
  <2> QED
    BY <2>1, <2>2
<1>8. ASSUME NEW i \in 1..n
      PROVE  /\ Range(piece(i)) \subseteq Range(text)
             /\ Rising(text) => Rising(piece(i))
             /\ Rising(text) => \A j \in 1..n : i < j => Below(Range(piece(i)), Range(piece(j)))
             /\ Rising(text) => \A rest \in Seq(Nat), l \in Nat :
                   /\ i * size <= l /\ l <= len /\ Len(rest) = len - l
                   /\ \A x \in 1..Len(rest) : rest[x] = text[l + x]
                   => Below(Range(piece(i)), Range(rest))
  <2> HIDE DEF piece
  <2>1. Range(piece(i)) \subseteq Range(text)
    BY <1>3, <1>7 DEF Range
  <2>2. ASSUME Rising(text) PROVE Rising(piece(i))
    <3>4. piece(i) \in Seq(Nat)
      BY <1>5
    <3>5. DOMAIN piece(i) = 1..Len(piece(i))
      BY <3>4
    <3> SUFFICES ASSUME NEW a \in 1..Len(piece(i)), NEW b \in 1..Len(piece(i)), a < b
                 PROVE  piece(i)[a] < piece(i)[b]
      BY <3>5, ZenonT(20) DEF Rising
    <3>1. /\ piece(i)[a] = text[lo(i) + a] /\ piece(i)[b] = text[lo(i) + b]
          /\ lo(i) + a \in 1..len /\ lo(i) + b \in 1..len
      BY <1>5
    <3>2. lo(i) + a < lo(i) + b
      BY <1>4, <1>5
    <3> QED
      BY <1>3, <2>2, <3>1, <3>2 DEF Rising
  <2>3. ASSUME Rising(text), NEW j \in 1..n, i < j PROVE Below(Range(piece(i)), Range(piece(j)))
    <3> SUFFICES ASSUME NEW a \in Range(piece(i)), NEW b \in Range(piece(j)) PROVE a < b
      BY DEF Below
    <3>1. PICK x \in 1..len : lo(i) < x /\ x <= hi(i) /\ a = text[x]
      BY <1>7
    <3>2. PICK y \in 1..len : lo(j) < y /\ y <= hi(j) /\ b = text[y]
      BY <1>7
    <3>3. i * size <= lo(j)
      <4>1. i \in Nat /\ j - 1 \in Nat /\ i <= j - 1
        BY <1>3, <2>3
      <4>2. i * size <= (j - 1) * size
        BY <4>1, Products
      <4> QED
        BY <4>2 DEF lo
    <3>4. x < y
      BY <1>4, <3>1, <3>2, <3>3
    <3> QED
      BY <1>3, <2>3, <3>1, <3>2, <3>4 DEF Rising
  <2>4. ASSUME Rising(text), NEW rest \in Seq(Nat), NEW l \in Nat,
               i * size <= l, l <= len, Len(rest) = len - l,
               \A x \in 1..Len(rest) : rest[x] = text[l + x]
        PROVE  Below(Range(piece(i)), Range(rest))
    <3> SUFFICES ASSUME NEW a \in Range(piece(i)), NEW b \in Range(rest) PROVE a < b
      BY DEF Below
    <3>1. PICK x \in 1..len : lo(i) < x /\ x <= hi(i) /\ a = text[x]
      BY <1>7
    <3>2. PICK y \in 1..Len(rest) : b = rest[y]
      BY DEF Range
    <3>3. b = text[l + y] /\ l + y \in 1..len /\ x < l + y
      BY <1>3, <1>4, <2>4, <3>1, <3>2
    <3> QED
      BY <1>3, <2>4, <3>1, <3>3 DEF Rising
  <2> QED
    BY <2>1, <2>2, <2>3, <2>4
<1>9. Range(text) = UNION {Range(piece(i)) : i \in 1..n}
  <2> HIDE DEF piece
  <2>1. ASSUME NEW y \in Range(text) PROVE \E i \in 1..n : y \in Range(piece(i))
    <3>1. PICK x \in 1..len : y = text[x]
      BY <1>3 DEF Range
    <3>2. PICK k : k = (x - 1) \div size
      OBVIOUS
    <3>3. k \in Nat /\ k * size <= x - 1 /\ x - 1 < k * size + size
      <4>1. x - 1 \in Nat
        BY <1>3
      <4> QED
        BY <3>2, <4>1, Division
    <3>4. k + 1 \in 1..n
      <4>1. len + size - 1 < n * size + size
        BY <1>0, <1>2, <1>3, Division
      <4>2. ASSUME n <= k PROVE FALSE
        <5>1. n * size \in Nat /\ k * size \in Nat /\ n * size <= k * size
          BY <1>3, <3>3, <4>2, Products
        <5> QED
          BY <1>3, <3>1, <3>3, <4>1, <5>1
      <4> QED
        BY <1>3, <3>3, <4>2
    <3>5. lo(k + 1) = k * size
      BY <3>3 DEF lo
    <3>6. hi(k + 1) = IF (k + 1) * size < len THEN (k + 1) * size ELSE len
      BY <1>2 DEF hi
    <3>7. (k + 1) * size = k * size + size
      BY <3>3
    <3>8. lo(k + 1) < x /\ x <= hi(k + 1)
      <4>1. k * size \in Nat
        BY <3>3
      <4> QED
        BY <1>3, <3>1, <3>3, <3>5, <3>6, <3>7, <4>1
    <3> QED
      BY <1>7, <3>1, <3>4, <3>8
  <2> QED
    BY <1>8, <2>1
<1> HIDE DEF p
<1>10. \A i \in 1..n : /\ p[i] = piece(i)
                       /\ Range(p[i]) \subseteq Range(text)
                       /\ p[i] \in Seq(Nat) /\ p[i] # <<>>
                       /\ Rising(text) => Rising(p[i])
  <2> HIDE DEF piece
  <2> QED
    BY <1>5, <1>6, <1>8
<1>11. \A i, j \in 1..n : Rising(text) /\ i < j => Below(Range(p[i]), Range(p[j]))
  <2> HIDE DEF piece
  <2> QED
    BY <1>6, <1>8
<1>12. \A i \in 1..n : Rising(text) => \A rest \in Seq(Nat), l \in Nat :
                   /\ i * size <= l /\ l <= len /\ Len(rest) = len - l
                   /\ \A x \in 1..Len(rest) : rest[x] = text[l + x]
                   => Below(Range(p[i]), Range(rest))
  <2> HIDE DEF piece
  <2> QED
    BY <1>6, <1>8
<1>13. Range(text) = UNION {Range(p[i]) : i \in 1..n}
  <2> HIDE DEF piece
  <2> QED
    BY <1>9, <1>10
<1>14. Pieces(p, text)
  BY <1>6, <1>10, <1>11, <1>13 DEF Pieces
<1>15. Remains(p, text, size)
  BY <1>2, <1>6, <1>12 DEF Remains
<1>16. Len(p) = (Len(text) + size - 1) \div size
  BY <1>0, <1>6
<1>17. \A i \in 1..Len(p) : p[i] # <<>>
  BY <1>6, <1>10
<1> QED
  BY <1>1, <1>14, <1>15, <1>16, <1>17

-----------------------------------------------------------------------------
(***************************************************************************)
(* The calls                                                               *)
(***************************************************************************)

Call == [op : {"send", "edit", "frame"}, chat : Chats, stream : Streams \cup {None},
         text : Parts, final : BOOLEAN, at : Nat]

\* The editing adapters keep no buffer without text.
Buffers == {f \in [Keys -> Buffer \cup {None}] :
              adapter # "websocket" => \A k \in Keys : f[k] # None => f[k].text # <<>>}

\* The outcomes of sending a message.
Outcome == [shown : Seq(Bubble), buf : Buffers, fault : Nat, ok : BOOLEAN]

\* After(calls) is what its equations say.
LEMMA AfterFollows ==
  ASSUME NEW calls \in Seq(Call)
  PROVE  /\ After(calls)[0] = shown
         /\ \A n \in 1..Len(calls) : After(calls)[n] = Perform(After(calls)[n - 1], calls[n])
<1> DEFINE len == Len(calls)
           Start0(f, n) == f[0] = shown /\ \A k \in 1..n : f[k] = Perform(f[k - 1], calls[k])
           Begun == {n \in Nat : n <= len => \E f : Start0(f, n)}
           Solves(f) == f = [n \in 0..len |-> IF n = 0 THEN shown
                                             ELSE Perform(f[n - 1], calls[n])]
<1>1. len \in Nat
  OBVIOUS
<1> HIDE DEF len
<1>2. 0 \in Begun
  <2> DEFINE g == [k \in 0..0 |-> shown]
  <2>1. Start0(g, 0)
    OBVIOUS
  <2> HIDE DEF Start0, g
  <2> QED
    BY <2>1
<1>3. ASSUME NEW n \in Nat, n \in Begun PROVE n + 1 \in Begun
  <2> HIDE DEF Start0
  <2> SUFFICES ASSUME n + 1 <= len PROVE \E f : Start0(f, n + 1)
    OBVIOUS
  <2>1. PICK f : Start0(f, n)
    BY <1>1, <1>3
  <2>0. PICK t : t = Perform(f[n], calls[n + 1])
    OBVIOUS
  <2> USE DEF Start0
  <2> DEFINE g == [k \in 0..(n + 1) |-> IF k = n + 1 THEN t ELSE f[k]]
  <2>2. g[0] = shown
    BY <2>1
  <2>3. \A k \in 1..(n + 1) : g[k] = Perform(g[k - 1], calls[k])
    <3> TAKE k \in 1..(n + 1)
    <3>1. k - 1 \in 0..(n + 1) /\ k - 1 # n + 1 /\ k \in 0..(n + 1) /\ g[k - 1] = f[k - 1]
      OBVIOUS
    <3>2. CASE k = n + 1
      <4>1. k - 1 = n /\ g[k] = t
        BY <3>1, <3>2
      <4>2. t = Perform(f[n], calls[k])
        BY <2>0, <3>2
      <4> HIDE DEF g
      <4> QED
        BY <3>1, <4>1, <4>2
    <3>3. CASE k # n + 1
      <4>1. k \in 1..n /\ g[k] = f[k]
        BY <3>1, <3>3
      <4>2. f[k] = Perform(f[k - 1], calls[k])
        BY <2>1, <4>1
      <4> HIDE DEF g
      <4> QED
        BY <3>1, <4>1, <4>2
    <3> QED
      BY <3>2, <3>3
  <2> HIDE DEF g
  <2>4. Start0(g, n + 1)
    BY <2>2, <2>3
  <2> QED
    BY <2>4
<1>4. Nat \subseteq Begun
  <2> HIDE DEF Begun
  <2> QED
    BY <1>2, <1>3, SetInduction
<1>5. PICK f : Start0(f, len)
  <2>1. len \in Begun
    <3> HIDE DEF Begun
    <3> QED
      BY <1>1, <1>4
  <2> HIDE DEF Start0
  <2> QED
    BY <1>1, <2>1
<1> DEFINE g == [n \in 0..len |-> f[n]]
<1>6. Solves(g)
  <2>1. \A n \in 0..len : n # 0 => n \in 1..len /\ n - 1 \in 0..len
    BY <1>1
  <2>2. \A n \in 0..len : f[n] = IF n = 0 THEN shown ELSE Perform(f[n - 1], calls[n])
    BY <1>5, <2>1
  <2>3. \A n \in 0..len : f[n] = IF n = 0 THEN shown ELSE Perform(g[n - 1], calls[n])
    BY <2>1, <2>2
  <2> QED
    BY <2>3
<1>7. \E h : Solves(h)
  <2> HIDE DEF g, Solves
  <2> QED
    BY <1>6
<1> DEFINE h == CHOOSE x : Solves(x)
<1>8. Solves(h)
  <2> HIDE DEF Solves
  <2> QED
    BY <1>7
<1>9. After(calls) = h
  BY Zenon DEF After, len
<1> HIDE DEF h
<1>10. h[0] = shown
  BY <1>1, <1>8
<1>11. \A n \in 1..len : h[n] = Perform(h[n - 1], calls[n])
  <2>1. \A n \in 1..len : n \in 0..len /\ n # 0
    BY <1>1
  <2> QED
    BY <1>8, <2>1
<1> QED
  BY <1>9, <1>10, <1>11 DEF len

\* A call that shows a new bubble.
LEMMA AppendedIs ==
  ASSUME NEW bubbles \in Seq(Bubble), NEW c \in Call,
         c.op = "send" \/ (c.op = "frame" /\ Joined(bubbles, c) = 0)
  PROVE  /\ Perform(bubbles, c) \in Seq(Bubble)
         /\ Len(Perform(bubbles, c)) = Len(bubbles) + 1
         /\ \A i \in 1..Len(bubbles) : Perform(bubbles, c)[i] = bubbles[i]
         /\ Perform(bubbles, c)[Len(bubbles) + 1] =
              [chat |-> c.chat, stream |-> c.stream, text |-> c.text, final |-> c.final]
<1>1. PICK b : b = [chat |-> c.chat, stream |-> c.stream, text |-> c.text, final |-> c.final]
  OBVIOUS
<1>2. b \in Bubble
  BY <1>1 DEF Call, Bubble
<1>3. Perform(bubbles, c) = Append(bubbles, b)
  <2>1. c.op # "edit" /\ ~(c.op = "frame" /\ Joined(bubbles, c) # 0)
    OBVIOUS
  <2> QED
    BY <1>1, <2>1 DEF Perform
<1> QED
  BY <1>1, <1>2, <1>3, AppendProperties

\* A call that changes a bubble.
LEMMA EditedIs ==
  ASSUME NEW bubbles \in Seq(Bubble), NEW c \in Call, c.op = "edit"
  PROVE  /\ Perform(bubbles, c) \in Seq(Bubble) /\ Len(Perform(bubbles, c)) = Len(bubbles)
         /\ \A i \in 1..Len(bubbles) :
              /\ Perform(bubbles, c)[i].chat = bubbles[i].chat
              /\ Perform(bubbles, c)[i].stream = bubbles[i].stream
              /\ i # c.at => Perform(bubbles, c)[i] = bubbles[i]
              /\ i = c.at => /\ Perform(bubbles, c)[i].text = c.text
                             /\ Perform(bubbles, c)[i].final = c.final
<1>1. Perform(bubbles, c) = [bubbles EXCEPT ![c.at].text = c.text, ![c.at].final = c.final]
  BY DEF Perform
<1>2. /\ bubbles \in [1..Len(bubbles) -> Bubble] /\ c.text \in Parts /\ c.final \in BOOLEAN
      /\ Len(bubbles) \in Nat
  BY DEF Call
<1>3. PICK p : p = Perform(bubbles, c)
  OBVIOUS
<1>4. /\ p \in [1..Len(bubbles) -> Bubble]
      /\ \A i \in 1..Len(bubbles) :
              /\ p[i].chat = bubbles[i].chat
              /\ p[i].stream = bubbles[i].stream
              /\ i # c.at => p[i] = bubbles[i]
              /\ i = c.at => p[i].text = c.text /\ p[i].final = c.final
  <2>1. PICK at : at = c.at
    OBVIOUS
  <2>2. PICK t \in Parts : t = c.text
    BY <1>2
  <2>3. PICK f \in BOOLEAN : f = c.final
    BY <1>2
  <2>4. PICK q : q = [bubbles EXCEPT ![at].text = t]
    OBVIOUS
  <2>5. /\ q \in [1..Len(bubbles) -> Bubble]
        /\ \A i \in 1..Len(bubbles) :
              /\ q[i].chat = bubbles[i].chat /\ q[i].stream = bubbles[i].stream
              /\ i # at => q[i] = bubbles[i]
              /\ i = at => q[i].text = t
    BY <1>2, <2>4 DEF Bubble
  <2>6. p = [q EXCEPT ![at].final = f]
    BY <1>1, <1>3, <2>1, <2>2, <2>3, <2>4
  <2>7. /\ p \in [1..Len(bubbles) -> Bubble]
        /\ \A i \in 1..Len(bubbles) :
              /\ p[i].chat = q[i].chat /\ p[i].stream = q[i].stream /\ p[i].text = q[i].text
              /\ i # at => p[i] = q[i]
              /\ i = at => p[i].final = f
    <3>1. p = [i \in 1..Len(bubbles) |-> IF i = at THEN [q[i] EXCEPT !.final = f] ELSE q[i]]
      BY <2>5, <2>6
    <3>2. ASSUME NEW i \in 1..Len(bubbles)
          PROVE  /\ p[i] \in Bubble /\ p[i].chat = q[i].chat /\ p[i].stream = q[i].stream
                 /\ p[i].text = q[i].text
                 /\ i # at => p[i] = q[i]
                 /\ i = at => p[i].final = f
      <4>1. PICK e \in Bubble : e = q[i]
        BY <2>5
      <4>2. p[i] = IF i = at THEN [e EXCEPT !.final = f] ELSE e
        BY <3>1, <4>1
      <4> QED
        BY <4>1, <4>2 DEF Bubble
    <3> QED
      BY <3>1, <3>2
  <2>8. ASSUME NEW i \in 1..Len(bubbles)
        PROVE  /\ p[i].chat = bubbles[i].chat /\ p[i].stream = bubbles[i].stream
               /\ i # at => p[i] = bubbles[i]
               /\ i = at => p[i].text = t /\ p[i].final = f
    BY <2>5, <2>7
  <2> QED
    BY <2>1, <2>2, <2>3, <2>7, <2>8
<1> QED
  BY <1>2, <1>3, <1>4

LEMMA JoinedIs ==
  ASSUME NEW bubbles \in Seq(Bubble), NEW c \in Call, Joined(bubbles, c) # 0
  PROVE  /\ Joined(bubbles, c) \in 1..Len(bubbles) /\ c.stream # None
         /\ bubbles[Joined(bubbles, c)].chat = c.chat
         /\ bubbles[Joined(bubbles, c)].stream = c.stream
<1> DEFINE own == {i \in DOMAIN bubbles :
                bubbles[i].chat = c.chat /\ bubbles[i].stream = c.stream}
<1>1. Joined(bubbles, c) = IF own = {} \/ c.stream = None THEN 0 ELSE CHOOSE i \in own : TRUE
  BY DEF Joined
<1>2. own # {} /\ c.stream # None /\ Joined(bubbles, c) = CHOOSE i \in own : TRUE
  BY <1>1
<1>3. Joined(bubbles, c) \in own
  <2> HIDE DEF own
  <2> QED
    BY <1>2
<1> QED
  BY <1>2, <1>3

\* If there is no bubble to join, the stream has none.
LEMMA NotJoined ==
  ASSUME NEW bubbles \in Seq(Bubble), NEW c \in Call, Joined(bubbles, c) = 0, c.stream # None
  PROVE  \A i \in 1..Len(bubbles) : ~(bubbles[i].chat = c.chat /\ bubbles[i].stream = c.stream)
<1> DEFINE own == {i \in DOMAIN bubbles :
                bubbles[i].chat = c.chat /\ bubbles[i].stream = c.stream}
<1>1. Joined(bubbles, c) = IF own = {} \/ c.stream = None THEN 0 ELSE CHOOSE i \in own : TRUE
  BY DEF Joined
<1>2. own = {}
  <2> SUFFICES ASSUME own # {} PROVE FALSE
    OBVIOUS
  <2>1. 0 \in own
    <3> HIDE DEF own
    <3> QED
      BY <1>1
  <2> QED
    BY <2>1
<1> QED
  BY <1>2

\* A frame that joins a bubble.
LEMMA FramedIs ==
  ASSUME NEW bubbles \in Seq(Bubble), NEW c \in Call, c.op = "frame", Joined(bubbles, c) # 0
  PROVE  /\ Perform(bubbles, c) \in Seq(Bubble) /\ Len(Perform(bubbles, c)) = Len(bubbles)
         /\ \A i \in 1..Len(bubbles) :
              /\ Perform(bubbles, c)[i].chat = bubbles[i].chat
              /\ Perform(bubbles, c)[i].stream = bubbles[i].stream
              /\ i # Joined(bubbles, c) => Perform(bubbles, c)[i] = bubbles[i]
              /\ i = Joined(bubbles, c) => Perform(bubbles, c)[i].text = bubbles[i].text \o c.text
<1>1. PICK at : at = Joined(bubbles, c)
  OBVIOUS
<1>2. Perform(bubbles, c) = [bubbles EXCEPT ![at].text = @ \o c.text]
  BY <1>1 DEF Perform
<1>3. /\ bubbles \in [1..Len(bubbles) -> Bubble] /\ c.text \in Parts /\ Len(bubbles) \in Nat
      /\ at \in 1..Len(bubbles)
  BY <1>1, JoinedIs DEF Call
<1>4. PICK t : t = bubbles[at].text \o c.text
  OBVIOUS
<1>5. t \in Parts
  <2>1. bubbles[at].text \in Seq(Nat) /\ c.text \in Seq(Nat)
    BY <1>3 DEF Bubble, Parts
  <2> QED
    BY <1>4, <2>1, ConcatProperties DEF Parts
<1>6. Perform(bubbles, c) = [bubbles EXCEPT ![at].text = t]
  BY <1>2, <1>3, <1>4
<1>7. PICK p : p = Perform(bubbles, c)
  OBVIOUS
<1>8. /\ p \in [1..Len(bubbles) -> Bubble]
      /\ \A i \in 1..Len(bubbles) :
              /\ p[i].chat = bubbles[i].chat
              /\ p[i].stream = bubbles[i].stream
              /\ i # at => p[i] = bubbles[i]
              /\ i = at => p[i].text = t
  BY <1>3, <1>5, <1>6, <1>7 DEF Bubble
<1>9. p \in Seq(Bubble) /\ Len(p) = Len(bubbles)
  BY <1>3, <1>8
<1>10. ASSUME NEW i \in 1..Len(bubbles), i = at PROVE p[i].text = bubbles[i].text \o c.text
  <2>1. p[i].text = t /\ t = bubbles[i].text \o c.text
    BY <1>4, <1>8, <1>10
  <2> QED
    BY <2>1
<1> QED
  BY <1>1, <1>7, <1>8, <1>9, <1>10

LEMMA PerformTyped ==
  ASSUME NEW bubbles \in Seq(Bubble), NEW c \in Call
  PROVE  Perform(bubbles, c) \in Seq(Bubble) /\ Len(Perform(bubbles, c)) >= Len(bubbles)
<1>0. c.op \in {"send", "edit", "frame"} /\ Len(bubbles) \in Nat
  BY DEF Call
<1>4. PICK p : p = Perform(bubbles, c)
  OBVIOUS
<1>1. CASE c.op = "edit"
  <2>1. p \in Seq(Bubble) /\ Len(p) = Len(bubbles)
    BY <1>1, <1>4, EditedIs
  <2> QED
    BY <1>0, <1>4, <2>1
<1>2. CASE c.op = "send" \/ (c.op = "frame" /\ Joined(bubbles, c) = 0)
  <2>1. p \in Seq(Bubble) /\ Len(p) = Len(bubbles) + 1
    BY <1>2, <1>4, AppendedIs
  <2> QED
    BY <1>0, <1>4, <2>1
<1>3. CASE c.op = "frame" /\ Joined(bubbles, c) # 0
  <2>1. p \in Seq(Bubble) /\ Len(p) = Len(bubbles)
    BY <1>3, <1>4, FramedIs
  <2> QED
    BY <1>0, <1>4, <2>1
<1> QED
  BY <1>0, <1>1, <1>2, <1>3

LEMMA AfterTyped ==
  ASSUME NEW calls \in Seq(Call), shown \in Seq(Bubble)
  PROVE  \A n \in 0..Len(calls) : After(calls)[n] \in Seq(Bubble)
<1> DEFINE f == After(calls)
           Good == {n \in Nat : n <= Len(calls) => f[n] \in Seq(Bubble)}
<1>1. f[0] = shown /\ \A n \in 1..Len(calls) : f[n] = Perform(f[n - 1], calls[n])
  BY AfterFollows
<1> HIDE DEF f
<1>2. 0 \in Good
  BY <1>1
<1>3. ASSUME NEW n \in Nat, n \in Good PROVE n + 1 \in Good
  <2> SUFFICES ASSUME n + 1 <= Len(calls) PROVE f[n + 1] \in Seq(Bubble)
    OBVIOUS
  <2>1. n + 1 \in 1..Len(calls) /\ (n + 1) - 1 = n /\ f[n] \in Seq(Bubble)
    BY <1>3
  <2>2. f[n + 1] = Perform(f[n], calls[n + 1]) /\ calls[n + 1] \in Call
    BY <1>1, <2>1
  <2> QED
    BY <2>1, <2>2, PerformTyped
<1>4. Nat \subseteq Good
  <2> HIDE DEF Good
  <2> QED
    BY <1>2, <1>3, SetInduction
<1> QED
  BY <1>4 DEF f

LEMMA TryTyped ==
  ASSUME NEW calls \in Seq(Call), shown \in Seq(Bubble), NEW done \in Buffers,
         NEW failed \in Buffers
  PROVE  Try(calls, done, failed) \subseteq Outcome
<1>1. Len(calls) \in 0..Len(calls) /\ \A k \in 0..(Len(calls) - 1) : k \in 0..Len(calls)
  OBVIOUS
<1>2. \A n \in 0..Len(calls) : After(calls)[n] \in Seq(Bubble)
  BY AfterTyped
<1>3. [shown |-> After(calls)[Len(calls)], buf |-> done, fault |-> 0, ok |-> TRUE] \in Outcome
  BY <1>1, <1>2 DEF Outcome
<1>4. ASSUME NEW k \in 0..(Len(calls) - 1)
      PROVE  [shown |-> After(calls)[k], buf |-> failed, fault |-> 1, ok |-> FALSE] \in Outcome
  BY <1>1, <1>2 DEF Outcome
<1> QED
  BY <1>3, <1>4 DEF Try

\* Without a failing call every call is made.
LEMMA TryWithoutFault ==
  ASSUME NEW calls \in Seq(Call), NEW done, NEW failed, NEW r \in Try(calls, done, failed),
         r.fault = 0
  PROVE  r.shown = After(calls)[Len(calls)] /\ r.buf = done /\ r.ok = TRUE
BY DEF Try

-----------------------------------------------------------------------------
(***************************************************************************)
(* The types of what sending does                                          *)
(***************************************************************************)

TypeInv == TypeOK /\ buf \in Buffers

LEMMA CallsTyped ==
  ASSUME NEW m \in Message, NEW text \in Seq(Nat), NEW at \in Nat, NEW final \in BOOLEAN
  PROVE  /\ SendCall(m, text) \in Call /\ SendCall(m, text).op = "send"
         /\ Preview(m, text) \in Call /\ Preview(m, text).op = "send"
         /\ Frame(m, text) \in Call /\ Frame(m, text).op = "frame"
         /\ EditCall(m, at, text, final) \in Call /\ EditCall(m, at, text, final).op = "edit"
         /\ EditCall(m, at, text, final).at = at
         /\ \A c \in {SendCall(m, text), Preview(m, text), Frame(m, text),
                      EditCall(m, at, text, final)} :
              c.text = text /\ c.chat = m.chat /\ c.stream = m.stream
<1>1. PICK s : s = SendCall(m, text)
  OBVIOUS
<1>2. /\ s \in Call /\ s.op = "send" /\ s.text = text /\ s.chat = m.chat /\ s.stream = m.stream
  BY <1>1 DEF SendCall, Call, Message, Parts
<1>3. PICK p : p = Preview(m, text)
  OBVIOUS
<1>4. p = [s EXCEPT !.final = FALSE]
  BY <1>1, <1>3 DEF Preview
<1>5. /\ p \in Call /\ p.op = "send" /\ p.text = text /\ p.chat = m.chat /\ p.stream = m.stream
  BY <1>2, <1>4 DEF Call
<1>6. PICK f : f = Frame(m, text)
  OBVIOUS
<1>7. f = [s EXCEPT !.op = "frame"]
  BY <1>1, <1>6 DEF Frame
<1>8. /\ f \in Call /\ f.op = "frame" /\ f.text = text /\ f.chat = m.chat /\ f.stream = m.stream
  BY <1>2, <1>7 DEF Call
<1>9. PICK e : e = EditCall(m, at, text, final)
  OBVIOUS
<1>10. e = [s EXCEPT !.op = "edit", !.at = at, !.final = final]
  BY <1>1, <1>9 DEF EditCall
<1>11. /\ e \in Call /\ e.op = "edit" /\ e.at = at /\ e.text = text /\ e.chat = m.chat
       /\ e.stream = m.stream
  BY <1>2, <1>10 DEF Call
<1> QED
  BY <1>1, <1>2, <1>3, <1>5, <1>6, <1>8, <1>9, <1>11

LEMMA PutIs ==
  ASSUME buf \in Buffers, NEW m \in Message, NEW b \in Buffer \cup {None},
         adapter # "websocket" /\ b # None => b.text # <<>>
  PROVE  /\ Key(m) \in Keys /\ Put(m, b) \in Buffers
         /\ Put(m, b)[Key(m)] = b
         /\ \A k \in Keys \ {Key(m)} : Put(m, b)[k] = buf[k]
<1>1. Key(m) \in Keys
  BY DEF Key, Keys, Message
<1>2. Put(m, b) = [buf EXCEPT ![Key(m)] = b] /\ buf \in [Keys -> Buffer \cup {None}]
  BY DEF Put, Buffers
<1>3. PICK k \in Keys : k = Key(m)
  BY <1>1
<1>4. PICK p : p = Put(m, b)
  OBVIOUS
<1>5. /\ p \in [Keys -> Buffer \cup {None}] /\ p[k] = b
      /\ \A l \in Keys \ {k} : p[l] = buf[l]
  BY <1>2, <1>3, <1>4
<1>6. p \in Buffers
  <2> SUFFICES ASSUME adapter # "websocket", NEW l \in Keys, p[l] # None
               PROVE  p[l].text # <<>>
    BY <1>5 DEF Buffers
  <2>1. CASE l = k
    BY <1>5, <2>1
  <2>2. CASE l # k
    BY <1>5, <2>2 DEF Buffers
  <2> QED
    BY <2>1, <2>2
<1> QED
  BY <1>1, <1>3, <1>4, <1>5, <1>6

\* The buffer after a delta is a new one or the old one with more text.
LEMMA BufferedIs ==
  ASSUME buf \in Buffers, NEW m \in Message, m.kind = "delta", Published(m),
         NEW comparing \in BOOLEAN, NEW b, b = Buffered(m, comparing)
  PROVE  /\ b \in Buffer /\ b.text # <<>> /\ b # None
         /\ \/ /\ buf[Key(m)] = None \/ (comparing /\ buf[Key(m)].stream # m.stream)
               /\ b.text = m.text /\ b.bubble = 0 /\ b.stream = m.stream
            \/ /\ buf[Key(m)] # None /\ (comparing => buf[Key(m)].stream = m.stream)
               /\ buf[Key(m)] \in Buffer
               /\ b.text = buf[Key(m)].text \o m.text /\ b.bubble = buf[Key(m)].bubble
               /\ b.stream = buf[Key(m)].stream
<1>1. PICK o : o = buf[Key(m)]
  OBVIOUS
<1>2. Key(m) \in Keys
  BY DEF Key, Keys, Message
<1>3. o \in Buffer \cup {None}
  BY <1>1, <1>2 DEF Buffers
<1>4. m.text \in Seq(Nat) /\ m.text # <<>> /\ m.stream \in Streams
  BY DEF Published, Message, Parts
<1>5. None \notin Buffer
  BY ConstantsAssumption
<1>6. CASE o = None \/ (comparing /\ o.stream # m.stream)
  <2>1. b = [stream |-> m.stream, text |-> m.text, bubble |-> 0]
    BY <1>1, <1>6 DEF Buffered
  <2>2. b \in Buffer /\ b.text = m.text /\ b.bubble = 0 /\ b.stream = m.stream
    BY <1>4, <2>1 DEF Buffer, Parts
  <2> QED
    BY <1>1, <1>4, <1>5, <1>6, <2>2
<1>7. CASE ~(o = None \/ (comparing /\ o.stream # m.stream))
  <2>1. o \in Buffer
    BY <1>3, <1>7
  <2>2. PICK t : t = o.text \o m.text
    OBVIOUS
  <2>3. t \in Seq(Nat) /\ t # <<>>
    <3>1. o.text \in Seq(Nat)
      BY <2>1 DEF Buffer, Parts
    <3> QED
      BY <1>4, <2>2, <3>1, JoinedTexts
  <2>4. b = [o EXCEPT !.text = t]
    BY <1>1, <1>7, <2>1, <2>2 DEF Buffered, Buffer
  <2>5. b \in Buffer /\ b.text = t /\ b.bubble = o.bubble /\ b.stream = o.stream
    BY <2>1, <2>3, <2>4 DEF Buffer, Parts
  <2> QED
    BY <1>1, <1>5, <1>7, <2>1, <2>2, <2>3, <2>5
<1> QED
  BY <1>6, <1>7

LEMMA EndedIs ==
  ASSUME buf \in Buffers, NEW m \in Message, NEW comparing \in BOOLEAN, adapter # "websocket",
         NEW b, b = Ended(m, comparing), b # None
  PROVE  /\ b = buf[Key(m)] /\ b \in Buffer /\ b.text # <<>> /\ b.bubble # 0
         /\ b.text \in Seq(Nat) /\ b.bubble \in Nat
         /\ comparing => b.stream = m.stream
<1>1. Key(m) \in Keys
  BY DEF Key, Keys, Message
<1>2. b = buf[Key(m)] /\ b.bubble # 0 /\ (comparing => b.stream = m.stream)
  BY DEF Ended
<1> QED
  BY <1>1, <1>2 DEF Buffers, Buffer, Parts

\* What a call and others after it are, as one sequence.
LEMMA FollowedBy ==
  ASSUME NEW c \in Call, NEW more \in Seq(Call)
  PROVE  /\ <<c>> \o more \in Seq(Call) /\ Len(<<c>> \o more) = Len(more) + 1
         /\ (<<c>> \o more)[1] = c
         /\ \A i \in 1..Len(more) : (<<c>> \o more)[i + 1] = more[i]
<1>1. <<c>> \in Seq(Call) /\ Len(<<c>>) = 1 /\ <<c>>[1] = c
  OBVIOUS
<1>2. PICK o : o = <<c>>
  OBVIOUS
<1>3. /\ o \o more \in Seq(Call) /\ Len(o \o more) = Len(o) + Len(more)
      /\ \A i \in 1..Len(o) + Len(more) :
           (o \o more)[i] = IF i <= Len(o) THEN o[i] ELSE more[i - Len(o)]
  BY <1>1, <1>2, ConcatProperties
<1>4. PICK p : p = o \o more
  OBVIOUS
<1>5. Len(o) = 1 /\ o[1] = c /\ Len(more) \in Nat
  BY <1>1, <1>2
<1>6. p \in Seq(Call) /\ Len(p) = Len(more) + 1 /\ p[1] = c
  BY <1>3, <1>4, <1>5
<1>7. ASSUME NEW i \in 1..Len(more) PROVE p[i + 1] = more[i]
  <2>1. i + 1 \in 1..Len(o) + Len(more) /\ ~(i + 1 <= Len(o)) /\ (i + 1) - Len(o) = i
    BY <1>5
  <2> QED
    BY <1>3, <1>4, <2>1
<1> QED
  BY <1>2, <1>4, <1>6, <1>7

\* The lists of calls.
LEMMA CallListsTyped ==
  ASSUME NEW m \in Message, NEW parts \in Seq(Seq(Nat)), NEW n \in Nat, n <= Len(parts)
  PROVE  /\ [i \in 1..n |-> SendCall(m, parts[i])] \in Seq(Call)
         /\ [i \in 1..n |-> Frame(m, parts[i])] \in Seq(Call)
         /\ n < Len(parts) => [i \in 1..n |-> SendCall(m, parts[i + 1])] \in Seq(Call)
         /\ n < Len(parts) => [i \in 1..n |-> Preview(m, parts[i + 1])] \in Seq(Call)
         /\ Len([i \in 1..n |-> SendCall(m, parts[i])]) = n
         /\ Len([i \in 1..n |-> Frame(m, parts[i])]) = n
         /\ Len([i \in 1..n |-> SendCall(m, parts[i + 1])]) = n
         /\ Len([i \in 1..n |-> Preview(m, parts[i + 1])]) = n
<1>1. \A i \in 1..n : parts[i] \in Seq(Nat)
  OBVIOUS
<1>2. n < Len(parts) => \A i \in 1..n : parts[i + 1] \in Seq(Nat)
  OBVIOUS
<1>3. 0 \in Nat /\ TRUE \in BOOLEAN
  OBVIOUS
<1>4. \A t \in Seq(Nat) : SendCall(m, t) \in Call /\ Frame(m, t) \in Call /\ Preview(m, t) \in Call
  BY <1>3, CallsTyped, Zenon
<1>5. \A i \in 1..n : SendCall(m, parts[i]) \in Call /\ Frame(m, parts[i]) \in Call
  BY <1>1, <1>4
<1>6. n < Len(parts) => \A i \in 1..n : SendCall(m, parts[i + 1]) \in Call
  BY <1>2, <1>4
<1>7. n < Len(parts) => \A i \in 1..n : Preview(m, parts[i + 1]) \in Call
  BY <1>2, <1>4
<1> QED
  BY <1>5, <1>6, <1>7

LEMMA UnreportedTyped ==
  ASSUME NEW s, s \subseteq Outcome
  PROVE  Unreported(s) \subseteq Outcome
BY DEF Unreported, Outcome

LEMMA QuietlyTyped ==
  ASSUME shown \in Seq(Bubble), NEW left \in Buffers
  PROVE  Quietly(left) \subseteq Outcome /\ Refused(left) \subseteq Outcome
BY DEF Quietly, Refused, Outcome

-----------------------------------------------------------------------------
(***************************************************************************)
(* What is shown and what is buffered                                      *)
(***************************************************************************)

PartsOf(bubbles) == UNION {Range(bubbles[i].text) : i \in DOMAIN bubbles}

Apart(bubbles) ==
  /\ \A i \in DOMAIN bubbles : Rising(bubbles[i].text)
  /\ \A i, j \in DOMAIN bubbles :
       i # j => Range(bubbles[i].text) \cap Range(bubbles[j].text) = {}

\* The first bubble of this text is refused whenever it is tried.
Stuck(b) == adapter \in {"telegram", "discord"} /\ b.bubble = 0 /\ Len(b.text) > Limit
Live(bufs, k) == bufs[k] # None /\ ~Stuck(bufs[k])

\* The text of a buffer is shown in the bubble of the buffer or nowhere.
Shows(b, bubbles) ==
  /\ Rising(b.text)
  /\ adapter = "websocket" => b.bubble = 0
  /\ b.bubble \in 0..Len(bubbles)
  /\ b.bubble # 0 => Range(bubbles[b.bubble].text) \subseteq Range(b.text)
  /\ \A i \in DOMAIN bubbles :
       i # b.bubble => Range(bubbles[i].text) \cap Range(b.text) = {}

\* Two buffers have no text and no bubble in common.
Separate(b, c) ==
  /\ Range(b.text) \cap Range(c.text) = {}
  /\ b.bubble = c.bubble => b.bubble = 0

\* The frames of a stream are shown before the text that waits.
FramesFirst(bubbles, bufs) ==
  \A k \in Keys : \A i \in DOMAIN bubbles :
    bufs[k] # None /\ k[2] # None /\ bubbles[i].chat = k[1] /\ bubbles[i].stream = k[2]
      => Below(Range(bubbles[i].text), Range(bufs[k].text))

\* What is shown and buffered lies below the parts that are still to come.
Settled(bubbles, bufs, above) ==
  /\ Apart(bubbles) /\ Below(PartsOf(bubbles), above)
  /\ \A k \in Keys : Live(bufs, k) => Shows(bufs[k], bubbles) /\ Below(Range(bufs[k].text), above)
  /\ \A k, l \in Keys : k # l /\ Live(bufs, k) /\ Live(bufs, l) => Separate(bufs[k], bufs[l])
  /\ adapter = "websocket" => FramesFirst(bubbles, bufs)

LEMMA BelowLess ==
  ASSUME NEW A, NEW B, Below(A, B), NEW C, C \subseteq A, NEW D, D \subseteq B
  PROVE  Below(C, D)
BY DEF Below

LEMMA BelowApart ==
  ASSUME NEW A, A \subseteq Nat, NEW B, B \subseteq Nat, Below(A, B)
  PROVE  A \cap B = {}
<1> SUFFICES ASSUME NEW x \in A, x \in B PROVE FALSE
  OBVIOUS
<1>1. x < x /\ x \in Nat
  BY DEF Below
<1> QED
  BY <1>1

LEMMA SettledLess ==
  ASSUME NEW bubbles, NEW bufs, NEW above, Settled(bubbles, bufs, above),
         NEW less, less \subseteq above
  PROVE  Settled(bubbles, bufs, less)
BY DEF Settled, Below

\* The parts of what is shown are numbers.
LEMMA BubbleParts ==
  ASSUME NEW bubbles \in Seq(Bubble)
  PROVE  /\ \A i \in 1..Len(bubbles) : /\ bubbles[i].text \in Seq(Nat)
                                       /\ Range(bubbles[i].text) \subseteq Nat
                                       /\ Range(bubbles[i].text) \subseteq PartsOf(bubbles)
         /\ PartsOf(bubbles) \subseteq Nat /\ DOMAIN bubbles = 1..Len(bubbles)
<1>1. DOMAIN bubbles = 1..Len(bubbles)
  OBVIOUS
<1>2. ASSUME NEW i \in 1..Len(bubbles)
      PROVE  /\ bubbles[i].text \in Seq(Nat) /\ Range(bubbles[i].text) \subseteq Nat
             /\ Range(bubbles[i].text) \subseteq PartsOf(bubbles)
  <2>1. bubbles[i] \in Bubble
    BY <1>1
  <2>2. PICK t \in Seq(Nat) : t = bubbles[i].text
    BY <2>1 DEF Bubble, Parts
  <2>3. Range(t) \subseteq Nat
    BY DEF Range
  <2> QED
    BY <1>1, <2>2, <2>3 DEF PartsOf
<1>3. PartsOf(bubbles) \subseteq Nat
  BY <1>1, <1>2 DEF PartsOf
<1> QED
  BY <1>1, <1>2, <1>3

\* One bubble x, and the bubbles that are new, show parts of P, which nothing
\* else shows.
BubblesFrom(s, t, x, P) ==
  /\ Len(s) <= Len(t)
  /\ \A i \in 1..Len(s) : i # x =>
       t[i].text = s[i].text /\ Range(s[i].text) \cap P = {}
  /\ \A i \in 1..Len(t) : i = x \/ i > Len(s) =>
       /\ Rising(t[i].text) /\ Range(t[i].text) \subseteq P
       /\ \A j \in 1..Len(t) : (j = x \/ j > Len(s)) /\ i # j =>
            Range(t[i].text) \cap Range(t[j].text) = {}

\* A buffer is as it was or has parts of P and one of these bubbles.
BuffersFrom(s, t, old, new, x, P, key) ==
  \A l \in Keys : Live(new, l) =>
    \/ /\ new[l] = old[l] /\ Live(old, l) /\ Range(old[l].text) \cap P = {}
       /\ old[l].bubble = x => x = 0
    \/ /\ l = key /\ Shows(new[l], t) /\ Range(new[l].text) \subseteq P
       /\ new[l].bubble = 0 \/ new[l].bubble = x \/ new[l].bubble > Len(s)

\* The buffers are the same and the new bubbles are of no stream.
OnlyPlain(s, t, old, new, x) ==
  /\ x = 0 /\ new = old
  /\ \A i \in 1..Len(t) : IF i <= Len(s) THEN t[i] = s[i] ELSE t[i].stream = None

LEMMA Changed ==
  ASSUME NEW s \in Seq(Bubble), NEW t \in Seq(Bubble), NEW old, NEW new, NEW above, NEW less,
         Settled(s, old, above), less \subseteq above,
         NEW P, Below(P, less), NEW x \in 0..Len(s), NEW key,
         BubblesFrom(s, t, x, P), BuffersFrom(s, t, old, new, x, P, key),
         adapter = "websocket" => OnlyPlain(s, t, old, new, x)
  PROVE  Settled(t, new, less)
<1> DEFINE Kept(l) == /\ new[l] = old[l] /\ Live(old, l) /\ Range(old[l].text) \cap P = {}
                      /\ old[l].bubble = x => x = 0
           Fresh(l) == /\ l = key /\ Shows(new[l], t) /\ Range(new[l].text) \subseteq P
                       /\ new[l].bubble = 0 \/ new[l].bubble = x \/ new[l].bubble > Len(s)
           Moved(i) == i = x \/ i > Len(s)
<1>0. /\ Len(s) \in Nat /\ Len(t) \in Nat /\ DOMAIN s = 1..Len(s) /\ DOMAIN t = 1..Len(t)
      /\ \A i \in 1..Len(t) : ~Moved(i) => i \in 1..Len(s) /\ i # x
      /\ \A i \in 1..Len(s) : i \in 1..Len(t)
  BY DEF BubblesFrom
<1>1. \A i \in 1..Len(t) : IF Moved(i) THEN Rising(t[i].text) /\ Range(t[i].text) \subseteq P
                           ELSE t[i].text = s[i].text /\ Range(s[i].text) \cap P = {}
  BY <1>0 DEF BubblesFrom
<1>2. \A l \in Keys : Live(new, l) => Kept(l) \/ Fresh(l)
  BY DEF BuffersFrom
<1>3. Apart(t)
  <2>1. \A i \in 1..Len(t) : Rising(t[i].text)
    BY <1>0, <1>1 DEF Settled, Apart
  <2>2. ASSUME NEW i \in 1..Len(t), NEW j \in 1..Len(t), i # j
        PROVE  Range(t[i].text) \cap Range(t[j].text) = {}
    <3>1. CASE Moved(i) /\ Moved(j)
      BY <2>2, <3>1 DEF BubblesFrom
    <3>2. CASE Moved(i) /\ ~Moved(j)
      BY <1>0, <1>1, <3>2
    <3>3. CASE ~Moved(i) /\ Moved(j)
      BY <1>0, <1>1, <3>3
    <3>4. CASE ~Moved(i) /\ ~Moved(j)
      <4>1. t[i].text = s[i].text /\ t[j].text = s[j].text /\ i \in DOMAIN s /\ j \in DOMAIN s
        BY <1>0, <1>1, <3>4
      <4> QED
        BY <2>2, <4>1 DEF Settled, Apart
    <3> QED
      BY <3>1, <3>2, <3>3, <3>4
  <2> QED
    BY <1>0, <2>1, <2>2 DEF Apart
<1>4. Below(PartsOf(t), less)
  <2> SUFFICES ASSUME NEW i \in 1..Len(t) PROVE Below(Range(t[i].text), less)
    BY <1>0 DEF Below, PartsOf
  <2>1. CASE Moved(i)
    BY <1>1, <2>1 DEF Below
  <2>2. CASE ~Moved(i)
    <3>1. i \in DOMAIN s /\ t[i].text = s[i].text
      BY <1>0, <1>1, <2>2
    <3>2. Range(s[i].text) \subseteq PartsOf(s)
      BY <3>1 DEF PartsOf
    <3> QED
      BY <3>1, <3>2 DEF Below, Settled
  <2> QED
    BY <2>1, <2>2
<1>5. ASSUME NEW l \in Keys, Live(new, l)
      PROVE  Shows(new[l], t) /\ Below(Range(new[l].text), less)
  <2>1. CASE Fresh(l)
    BY <2>1 DEF Below
  <2>2. CASE Kept(l)
    <3>1. PICK b : b = old[l]
      OBVIOUS
    <3>2. new[l] = b /\ Range(b.text) \cap P = {} /\ (b.bubble = x => x = 0)
      BY <2>2, <3>1
    <3>3. Shows(b, s) /\ Below(Range(b.text), above)
      BY <2>2, <3>1 DEF Settled
    <3>4. Shows(b, t)
      <4>1. b.bubble \in 0..Len(t) /\ (b.bubble # 0 => b.bubble \in 1..Len(s) /\ b.bubble # x)
        BY <1>0, <3>2, <3>3 DEF Shows
      <4>2. ASSUME b.bubble # 0 PROVE Range(t[b.bubble].text) \subseteq Range(b.text)
        <5>1. PICK y \in 1..Len(s) : y = b.bubble /\ y # x
          BY <4>1, <4>2
        <5>2. y \in 1..Len(t) /\ ~Moved(y)
          BY <1>0, <5>1
        <5>3. t[y].text = s[y].text
          BY <1>1, <5>2
        <5>4. Range(s[y].text) \subseteq Range(b.text)
          BY <3>3, <4>2, <5>1 DEF Shows
        <5> QED
          BY <5>1, <5>3, <5>4
      <4>3. \A i \in 1..Len(t) : i # b.bubble => Range(t[i].text) \cap Range(b.text) = {}
        BY <1>0, <1>1, <3>2, <3>3 DEF Shows
      <4> QED
        BY <1>0, <3>3, <4>1, <4>2, <4>3 DEF Shows
    <3> QED
      BY <3>2, <3>3, <3>4 DEF Below
  <2> QED
    BY <1>2, <1>5, <2>1, <2>2
<1>6. ASSUME NEW k \in Keys, NEW l \in Keys, k # l, Live(new, k), Live(new, l)
      PROVE  Separate(new[k], new[l])
  <2>1. Kept(k) \/ Fresh(k)
    BY <1>2, <1>6
  <2>2. Kept(l) \/ Fresh(l)
    BY <1>2, <1>6
  <2>3. CASE Kept(k) /\ Kept(l)
    BY <1>6, <2>3 DEF Settled
  <2>4. \A u, v \in Keys : Kept(u) /\ Fresh(v) =>
          /\ Range(new[u].text) \cap Range(new[v].text) = {}
          /\ new[u].bubble = new[v].bubble => new[u].bubble = 0
    <3> SUFFICES ASSUME NEW u \in Keys, NEW v \in Keys, Kept(u), Fresh(v)
                 PROVE  /\ Range(new[u].text) \cap Range(new[v].text) = {}
                        /\ new[u].bubble = new[v].bubble => new[u].bubble = 0
      OBVIOUS
    <3>1. old[u].bubble \in 0..Len(s)
      BY DEF Settled, Shows
    <3> QED
      BY <1>0, <3>1
  <2>5. CASE Kept(k) /\ Fresh(l)
    BY <2>4, <2>5 DEF Separate
  <2>6. CASE Fresh(k) /\ Kept(l)
    BY <2>4, <2>6 DEF Separate
  <2>7. CASE Fresh(k) /\ Fresh(l)
    BY <1>6, <2>7
  <2> QED
    BY <2>1, <2>2, <2>3, <2>5, <2>6, <2>7
<1>7. ASSUME adapter = "websocket" PROVE FramesFirst(t, new)
  <2> SUFFICES ASSUME NEW k \in Keys, NEW i \in 1..Len(t), new[k] # None, k[2] # None,
                      t[i].chat = k[1], t[i].stream = k[2]
               PROVE  Below(Range(t[i].text), Range(new[k].text))
    BY <1>0 DEF FramesFirst
  <2>1. i <= Len(s) /\ t[i] = s[i] /\ new = old
    BY <1>7 DEF OnlyPlain
  <2>2. i \in DOMAIN s
    BY <1>0, <2>1
  <2>3. FramesFirst(s, old)
    BY <1>7 DEF Settled
  <2> QED
    BY <2>1, <2>2, <2>3 DEF FramesFirst
<1> QED
  BY <1>3, <1>4, <1>5, <1>6, <1>7 DEF Settled

-----------------------------------------------------------------------------
(***************************************************************************)
(* What sending a message does to what is shown and buffered               *)
(***************************************************************************)

\* A message comes after what is shown and buffered, and before above.
Fits(m, above) ==
  /\ Settled(shown, buf, Said(m) \cup above)
  /\ Told(m) => Rising(m.text)
  /\ Below(Said(m), above) /\ above \subseteq Nat

\* What an outcome of sending it must leave. A message that failed is tried
\* again.
Counted(r) == r.fault = 0 \/ adapter = "matrix"
Keeps(m, above, r) ==
  Counted(r) => Settled(r.shown, r.buf, IF r.ok THEN above ELSE Said(m) \cup above)

\* The text of b may be shown for m.
Owns(b, m, above) ==
  /\ Shows(b, shown) /\ Below(Range(b.text), above)
  /\ \A l \in Keys \ {Key(m)} : Live(buf, l) => Separate(buf[l], b)

\* Nothing is changed but the bubble of b, and what this one and the new ones
\* show is text of b.
Redrawn(t, b) ==
  /\ Len(shown) <= Len(t)
  /\ \A i \in 1..Len(shown) : i # b.bubble => t[i].text = shown[i].text
  /\ \A i \in 1..Len(t) : i = b.bubble \/ i > Len(shown) =>
       /\ Rising(t[i].text) /\ Range(t[i].text) \subseteq Range(b.text)
       /\ \A j \in 1..Len(t) : (j = b.bubble \/ j > Len(shown)) /\ i # j =>
            Range(t[i].text) \cap Range(t[j].text) = {}

\* The buffer that remains has text of b, shown in one of these bubbles.
Remaining(new, t, b) ==
  /\ Shows(new, t) /\ Range(new.text) \subseteq Range(b.text)
  /\ new.bubble = 0 \/ new.bubble = b.bubble \/ new.bubble > Len(shown)

LEMMA KeyIs ==
  ASSUME NEW m \in Message
  PROVE  Key(m) \in Keys
BY DEF Key, Keys, Message

LEMMA Redraws ==
  ASSUME TypeInv, adapter # "websocket", NEW m \in Message, NEW above, Fits(m, above),
         NEW b, Owns(b, m, above), NEW t \in Seq(Bubble), Redrawn(t, b),
         NEW new \in Buffer \cup {None}, new # None => new.text # <<>> /\ Remaining(new, t, b)
  PROVE  Settled(t, Put(m, new), above)
<1>1. buf \in Buffers /\ shown \in Seq(Bubble) /\ Len(shown) \in Nat
  BY DEF TypeInv, TypeOK
<1>2. PICK k \in Keys : k = Key(m)
  BY KeyIs
<1>3. PICK p : p = Put(m, new)
  OBVIOUS
<1>4. p[k] = new /\ \A l \in Keys \ {k} : p[l] = buf[l]
  BY <1>1, <1>2, <1>3, PutIs
<1>5. PICK P : P = Range(b.text)
  OBVIOUS
<1>6. PICK x \in 0..Len(shown) : x = b.bubble
  BY DEF Owns, Shows
<1>7. BubblesFrom(shown, t, x, P)
  <2>1. \A i \in 1..Len(shown) : i # x => t[i].text = shown[i].text
    BY <1>6 DEF Redrawn
  <2>2. \A i \in 1..Len(shown) : i # x => Range(shown[i].text) \cap P = {}
    BY <1>1, <1>5, <1>6 DEF Owns, Shows
  <2>3. Len(shown) <= Len(t)
    BY DEF Redrawn
  <2>4. \A i \in 1..Len(t) : i = x \/ i > Len(shown) =>
           /\ Rising(t[i].text) /\ Range(t[i].text) \subseteq P
           /\ \A j \in 1..Len(t) : (j = x \/ j > Len(shown)) /\ i # j =>
                Range(t[i].text) \cap Range(t[j].text) = {}
    BY <1>5, <1>6 DEF Redrawn
  <2> QED
    BY <2>1, <2>2, <2>3, <2>4 DEF BubblesFrom
<1>9. ASSUME NEW l \in Keys, Live(p, l)
      PROVE  \/ /\ p[l] = buf[l] /\ Live(buf, l) /\ Range(buf[l].text) \cap P = {}
                /\ buf[l].bubble = x => x = 0
             \/ /\ l = k /\ Shows(p[l], t) /\ Range(p[l].text) \subseteq P
                /\ p[l].bubble = 0 \/ p[l].bubble = x \/ p[l].bubble > Len(shown)
  <2>1. CASE l = k
    <3>1. p[l] = new /\ new # None
      BY <1>4, <1>9, <2>1 DEF Live
    <3>2. Remaining(new, t, b)
      BY <3>1
    <3> QED
      BY <1>5, <1>6, <2>1, <3>1, <3>2 DEF Remaining
  <2>2. CASE l # k
    <3>1. p[l] = buf[l] /\ Live(buf, l)
      BY <1>4, <1>9, <2>2 DEF Live
    <3>2. Separate(buf[l], b)
      BY <1>2, <2>2, <3>1 DEF Owns
    <3> QED
      BY <1>5, <1>6, <3>1, <3>2 DEF Separate
  <2> QED
    BY <2>1, <2>2
<1>10. Below(P, above)
  BY <1>5 DEF Owns
<1>11. PICK more : more = Said(m) \cup above
  OBVIOUS
<1>12. Settled(shown, buf, more) /\ above \subseteq more
  BY <1>11 DEF Fits
<1>13. BuffersFrom(shown, t, buf, p, x, P, k)
  BY <1>9 DEF BuffersFrom
<1>14. Settled(t, p, above)
  BY <1>1, <1>7, <1>10, <1>12, <1>13, Changed
<1> QED
  BY <1>3, <1>14

\* The text of a delta is new: nothing that is shown or buffered has a part of
\* it.
LEMMA NewText ==
  ASSUME TypeInv, NEW m \in Message, NEW above, Fits(m, above)
  PROVE  /\ \A i \in 1..Len(shown) : Range(shown[i].text) \cap Said(m) = {}
         /\ \A l \in Keys : Live(buf, l) =>
              /\ Range(buf[l].text) \cap Said(m) = {}
              /\ Below(Range(buf[l].text), Said(m))
<1>1. shown \in Seq(Bubble) /\ buf \in [Keys -> Buffer \cup {None}]
  BY DEF TypeInv, TypeOK
<1>2. Said(m) \subseteq Nat
  BY SaidAreParts
<1>3. ASSUME NEW i \in 1..Len(shown) PROVE Range(shown[i].text) \cap Said(m) = {}
  <2>1. PICK A : A = Range(shown[i].text)
    OBVIOUS
  <2>2. A \subseteq Nat /\ A \subseteq PartsOf(shown)
    BY <1>1, <2>1, BubbleParts
  <2>3. Below(PartsOf(shown), Said(m) \cup above)
    BY DEF Fits, Settled
  <2>4. Below(A, Said(m))
    BY <2>2, <2>3 DEF Below
  <2> QED
    BY <1>2, <2>1, <2>2, <2>4, BelowApart
<1>4. ASSUME NEW l \in Keys, Live(buf, l)
      PROVE  Range(buf[l].text) \cap Said(m) = {} /\ Below(Range(buf[l].text), Said(m))
  <2>1. PICK A : A = Range(buf[l].text)
    OBVIOUS
  <2>2. A \subseteq Nat
    <3>1. buf[l] \in Buffer
      BY <1>1, <1>4 DEF Live
    <3>2. buf[l].text \in Seq(Nat)
      BY <3>1 DEF Buffer, Parts
    <3> QED
      BY <2>1, <3>2 DEF Range
  <2>3. Below(A, Said(m) \cup above)
    BY <1>4, <2>1 DEF Fits, Settled
  <2>4. Below(A, Said(m))
    BY <2>3 DEF Below
  <2> QED
    BY <1>2, <2>1, <2>2, <2>4, BelowApart
<1> QED
  BY <1>3, <1>4

LEMMA OwnsDelta ==
  ASSUME TypeInv, adapter # "websocket", NEW m \in Message, m.kind = "delta", Published(m),
         NEW above, Fits(m, above), NEW comparing \in BOOLEAN,
         NEW b, b = Buffered(m, comparing), ~Stuck(b)
  PROVE  Owns(b, m, above)
<1>1. buf \in Buffers /\ shown \in Seq(Bubble) /\ Len(shown) \in Nat /\ DOMAIN shown = 1..Len(shown)
  BY DEF TypeInv, TypeOK
<1>2. PICK k \in Keys : k = Key(m)
  BY KeyIs
<1>3. PICK o : o = buf[k]
  OBVIOUS
<1>4. PICK N : N = Said(m)
  OBVIOUS
<1>5. Told(m) /\ N = Range(m.text) /\ Rising(m.text) /\ m.text \in Seq(Nat) /\ N \subseteq Nat
  BY <1>4, SaidAreParts DEF Told, Said, Fits, Message, Parts
<1>6. /\ b \in Buffer /\ b.text # <<>> /\ b # None
      /\ \/ /\ o = None \/ (comparing /\ o.stream # m.stream)
            /\ b.text = m.text /\ b.bubble = 0 /\ b.stream = m.stream
         \/ /\ o # None /\ (comparing => o.stream = m.stream)
            /\ o \in Buffer
            /\ b.text = o.text \o m.text /\ b.bubble = o.bubble
            /\ b.stream = o.stream
  BY <1>1, <1>2, <1>3, BufferedIs
<1>7. /\ \A i \in 1..Len(shown) : Range(shown[i].text) \cap N = {}
      /\ \A l \in Keys : Live(buf, l) =>
              /\ Range(buf[l].text) \cap N = {}
              /\ Below(Range(buf[l].text), N)
  BY <1>4, NewText
<1>8. Below(N, above)
  BY <1>4 DEF Fits
<1>9. CASE b.text = m.text /\ b.bubble = 0
  <2>1. Shows(b, shown)
    BY <1>1, <1>5, <1>7, <1>9 DEF Shows
  <2> QED
    BY <1>5, <1>7, <1>8, <1>9, <2>1 DEF Owns, Separate
<1>10. CASE o # None /\ o \in Buffer /\ b.text = o.text \o m.text /\ b.bubble = o.bubble
  <2>1. o.text \in Seq(Nat) /\ o.bubble \in Nat
    BY <1>10 DEF Buffer, Parts
  <2>2. /\ Range(b.text) = Range(o.text) \cup N /\ Len(b.text) = Len(o.text) + Len(m.text)
        /\ Rising(o.text) /\ Below(Range(o.text), N) => Rising(b.text)
    <3>1. PICK a \in Seq(Nat) : a = o.text
      BY <2>1
    <3>2. PICK c \in Seq(Nat) : c = m.text
      BY <1>5
    <3>3. /\ Range(a \o c) = Range(a) \cup Range(c) /\ Len(a \o c) = Len(a) + Len(c)
          /\ Rising(a) /\ Rising(c) /\ Below(Range(a), Range(c)) => Rising(a \o c)
      BY JoinedTexts
    <3> QED
      BY <1>5, <1>10, <3>1, <3>2, <3>3
  <2>3. Live(buf, k)
    <3>1. ASSUME Stuck(o) PROVE FALSE
      <4>1. b.bubble = 0 /\ Len(o.text) > Limit /\ adapter \in {"telegram", "discord"}
        BY <1>10, <3>1 DEF Stuck
      <4>2. Len(o.text) \in Nat /\ Len(m.text) \in Nat /\ Limit \in Nat
        BY <1>5, <2>1, ConstantsAssumption
      <4>3. PICK u \in Nat : u = Len(o.text)
        BY <4>2
      <4>4. PICK v \in Nat : v = Len(m.text)
        BY <4>2
      <4>5. PICK w : w = Len(b.text)
        OBVIOUS
      <4>6. w = u + v
        BY <2>2, <4>3, <4>4, <4>5
      <4>7. w > Limit
        BY <4>1, <4>2, <4>3, <4>6
      <4> QED
        BY <4>1, <4>5, <4>7 DEF Stuck
    <3> QED
      BY <1>3, <1>10, <3>1 DEF Live
  <2>4. Shows(o, shown) /\ Below(Range(o.text), N) /\ Below(Range(o.text), above)
    BY <1>3, <1>4, <2>3 DEF Fits, Settled, Below
  <2>5. Shows(b, shown)
    <3>1. Rising(b.text)
      BY <2>2, <2>4 DEF Shows
    <3>2. b.bubble # 0 => Range(shown[b.bubble].text) \subseteq Range(b.text)
      BY <1>10, <2>2, <2>4 DEF Shows
    <3>3. \A i \in DOMAIN shown : i # b.bubble => Range(shown[i].text) \cap Range(b.text) = {}
      BY <1>1, <1>7, <1>10, <2>2, <2>4 DEF Shows
    <3> QED
      BY <1>10, <2>4, <3>1, <3>2, <3>3 DEF Shows
  <2>6. Below(Range(b.text), above)
    BY <1>8, <2>2, <2>4 DEF Below
  <2>7. ASSUME NEW l \in Keys \ {k}, Live(buf, l) PROVE Separate(buf[l], b)
    <3>1. Separate(buf[l], o)
      BY <1>3, <2>3, <2>7 DEF Fits, Settled
    <3>2. Range(buf[l].text) \cap N = {}
      BY <1>7, <2>7
    <3> QED
      BY <1>10, <2>2, <3>1, <3>2 DEF Separate
  <2> QED
    BY <1>2, <2>5, <2>6, <2>7 DEF Owns
<1> QED
  BY <1>6, <1>9, <1>10

LEMMA OwnsEnd ==
  ASSUME NEW m \in Message, NEW above, Fits(m, above),
         NEW b, b = buf[Key(m)], b # None, ~Stuck(b)
  PROVE  Owns(b, m, above)
<1>1. PICK k \in Keys : k = Key(m)
  BY KeyIs
<1>2. Live(buf, k)
  BY <1>1 DEF Live
<1>3. Shows(b, shown) /\ Below(Range(b.text), above)
  BY <1>1, <1>2 DEF Fits, Settled, Below
<1>4. \A l \in Keys \ {k} : Live(buf, l) => Separate(buf[l], b)
  BY <1>1, <1>2 DEF Fits, Settled
<1> QED
  BY <1>1, <1>3, <1>4 DEF Owns

\* A text whose first bubble is refused is in nobody's way.
LEMMA StuckSettles ==
  ASSUME TypeInv, NEW m \in Message, NEW above, Fits(m, above),
         NEW b \in Buffer, Stuck(b), b.text # <<>>
  PROVE  Settled(shown, Put(m, b), Said(m) \cup above)
<1>1. buf \in Buffers /\ shown \in Seq(Bubble) /\ Len(shown) \in Nat /\ DOMAIN shown = 1..Len(shown)
  BY DEF TypeInv, TypeOK
<1>2. PICK k \in Keys : k = Key(m)
  BY KeyIs
<1>3. PICK p : p = Put(m, b)
  OBVIOUS
<1>4. p[k] = b /\ \A l \in Keys \ {k} : p[l] = buf[l]
  BY <1>1, <1>2, <1>3, PutIs
<1>5. \A l \in Keys : Live(p, l) => p[l] = buf[l] /\ Live(buf, l)
  BY <1>4 DEF Live
<1>6. adapter # "websocket"
  BY DEF Stuck
<1>7. PICK more : more = Said(m) \cup above
  OBVIOUS
<1>8. Settled(shown, buf, more)
  BY <1>7 DEF Fits
<1>9. Settled(shown, p, more)
  BY <1>5, <1>6, <1>8 DEF Settled
<1> QED
  BY <1>3, <1>7, <1>9

-----------------------------------------------------------------------------
(***************************************************************************)
(* Lists of calls that edit one bubble and send others                     *)
(***************************************************************************)

\* Calls that send show their texts in new bubbles behind the others.
Sent(t, base, calls, p, n) ==
  /\ t \in Seq(Bubble) /\ Len(t) = Len(base) + n
  /\ \A i \in 1..Len(base) : t[i] = base[i]
  /\ \A j \in 1..n : /\ t[Len(base) + j].text = calls[p + j].text
                     /\ t[Len(base) + j].stream = calls[p + j].stream

LEMMA SendsShow ==
  ASSUME shown \in Seq(Bubble), NEW calls \in Seq(Call), NEW p \in 0..Len(calls),
         \A i \in (p + 1)..Len(calls) : calls[i].op = "send"
  PROVE  Sent(After(calls)[Len(calls)], After(calls)[p], calls, p, Len(calls) - p)
<1>1. PICK f : f = After(calls)
  OBVIOUS
<1>2. \A n \in 0..Len(calls) : f[n] \in Seq(Bubble)
  BY <1>1, AfterTyped
<1>3. \A n \in 1..Len(calls) : f[n] = Perform(f[n - 1], calls[n])
  BY <1>1, AfterFollows
<1>4. PICK base \in Seq(Bubble) : base = f[p]
  BY <1>2
<1> DEFINE Good == {n \in Nat : p + n <= Len(calls) => Sent(f[p + n], base, calls, p, n)}
<1>5. 0 \in Good
  <2>1. p + 0 = p /\ Len(base) \in Nat /\ 1..0 = {}
    OBVIOUS
  <2> QED
    BY <1>4, <2>1 DEF Sent
<1>6. ASSUME NEW n \in Nat, n \in Good PROVE n + 1 \in Good
  <2> SUFFICES ASSUME p + (n + 1) <= Len(calls) PROVE Sent(f[p + (n + 1)], base, calls, p, n + 1)
    OBVIOUS
  <2>1. /\ p \in Nat /\ Len(calls) \in Nat /\ p + n <= Len(calls) /\ p + (n + 1) \in 1..Len(calls)
        /\ (p + (n + 1)) - 1 = p + n /\ p + n \in 0..Len(calls) /\ Len(base) \in Nat
        /\ p + (n + 1) \in (p + 1)..Len(calls)
    OBVIOUS
  <2>2. Sent(f[p + n], base, calls, p, n)
    BY <1>6, <2>1
  <2>3. PICK s \in Seq(Bubble) : s = f[p + n]
    BY <1>2, <2>1
  <2>4. PICK c \in Call : c = calls[p + (n + 1)] /\ c.op = "send"
    BY <2>1
  <2>5. PICK t : t = Perform(s, c)
    OBVIOUS
  <2>6. t = f[p + (n + 1)]
    BY <1>3, <2>1, <2>3, <2>4, <2>5
  <2>7. /\ t \in Seq(Bubble) /\ Len(t) = Len(s) + 1
        /\ \A i \in 1..Len(s) : t[i] = s[i]
        /\ t[Len(s) + 1] = [chat |-> c.chat, stream |-> c.stream, text |-> c.text, final |-> c.final]
    BY <2>4, <2>5, AppendedIs
  <2>8. t[Len(s) + 1].text = c.text /\ t[Len(s) + 1].stream = c.stream
    BY <2>7
  <2>9. Len(s) = Len(base) + n /\ Len(t) = Len(base) + (n + 1) /\ Len(s) + 1 = Len(base) + (n + 1)
    BY <2>1, <2>2, <2>3, <2>7 DEF Sent
  <2>10. \A i \in 1..Len(base) : t[i] = base[i]
    <3>1. \A i \in 1..Len(base) : i \in 1..Len(s) /\ s[i] = base[i]
      BY <2>1, <2>2, <2>3, <2>9 DEF Sent
    <3> QED
      BY <2>7, <3>1
  <2>11. ASSUME NEW j \in 1..(n + 1)
         PROVE  /\ t[Len(base) + j].text = calls[p + j].text
                /\ t[Len(base) + j].stream = calls[p + j].stream
    <3>1. CASE j = n + 1
      BY <2>4, <2>8, <2>9, <3>1
    <3>2. CASE j # n + 1
      <4>1. j \in 1..n /\ Len(base) + j \in 1..Len(s)
        BY <2>1, <2>9, <3>2
      <4>2. t[Len(base) + j] = s[Len(base) + j]
        BY <2>7, <4>1
      <4> QED
        BY <2>2, <2>3, <4>1, <4>2 DEF Sent
    <3> QED
      BY <3>1, <3>2
  <2> QED
    BY <2>6, <2>7, <2>9, <2>10, <2>11 DEF Sent
<1>7. Nat \subseteq Good
  <2> HIDE DEF Good
  <2> QED
    BY <1>5, <1>6, SetInduction
<1>8. PICK n \in Nat : n = Len(calls) - p
  <2>1. PICK l \in Nat : l = Len(calls)
    OBVIOUS
  <2>2. p \in 0..l
    BY <2>1
  <2>3. l - p \in Nat
    BY <2>2
  <2> QED
    BY <2>1, <2>3
<1>9. p + n = Len(calls)
  BY <1>8
<1> QED
  BY <1>1, <1>4, <1>7, <1>8, <1>9

LEMMA PiecesApart ==
  ASSUME NEW text, NEW parts, Pieces(parts, text), Rising(text),
         NEW i \in 1..Len(parts), NEW j \in 1..Len(parts), i # j
  PROVE  Range(parts[i]) \cap Range(parts[j]) = {}
<1>1. Len(parts) \in Nat
  BY DEF Pieces
<1>2. \A k \in 1..Len(parts) : Range(parts[k]) \subseteq Nat
  BY DEF Pieces, Range
<1>3. CASE i < j
  <2>1. Below(Range(parts[i]), Range(parts[j]))
    BY <1>3 DEF Pieces
  <2> QED
    BY <1>2, <2>1, BelowApart
<1>4. CASE j < i
  <2>1. Below(Range(parts[j]), Range(parts[i]))
    BY <1>4 DEF Pieces
  <2>2. Range(parts[j]) \cap Range(parts[i]) = {}
    BY <1>2, <2>1, BelowApart
  <2> QED
    BY <2>2
<1> QED
  BY <1>1, <1>3, <1>4

\* Calls that show the first pieces of a text, the first of them in the bubble
\* of the buffer if it has one.
CallsFor(calls, parts, b) ==
  /\ calls \in Seq(Call) /\ Len(calls) <= Len(parts)
  /\ b.bubble # 0 => Len(calls) # 0 /\ calls[1].op = "edit" /\ calls[1].at = b.bubble
  /\ \A i \in 1..Len(calls) : /\ calls[i].text = parts[i]
                              /\ i > 1 \/ b.bubble = 0 => calls[i].op = "send"

\* What they show.
ShownBy(t, calls, parts, b) ==
  /\ b.bubble = 0 =>
       /\ Len(t) = Len(shown) + Len(calls)
       /\ \A i \in 1..Len(shown) : t[i] = shown[i]
       /\ \A j \in 1..Len(calls) : /\ t[Len(shown) + j].text = parts[j]
                                   /\ t[Len(shown) + j].stream = calls[j].stream
  /\ b.bubble # 0 =>
       /\ Len(t) = Len(shown) + (Len(calls) - 1)
       /\ t[b.bubble].text = parts[1]
       /\ \A j \in 1..(Len(calls) - 1) : t[Len(shown) + j].text = parts[j + 1]

LEMMA CallsRedraw ==
  ASSUME shown \in Seq(Bubble), NEW b \in Buffer, b.bubble \in 0..Len(shown), Rising(b.text),
         NEW parts, Pieces(parts, b.text), NEW calls, CallsFor(calls, parts, b),
         NEW t, t = After(calls)[Len(calls)]
  PROVE  t \in Seq(Bubble) /\ Redrawn(t, b) /\ ShownBy(t, calls, parts, b)
<1>1. PICK n \in Nat : n = Len(shown)
  OBVIOUS
<1>2. PICK c \in Nat : c = Len(calls)
  BY DEF CallsFor
<1>3. PICK x \in 0..n : x = b.bubble
  BY <1>1
<1>4. PICK p \in {0, 1} : p = IF x = 0 THEN 0 ELSE 1
  OBVIOUS
<1>5. /\ calls \in Seq(Call) /\ p \in 0..c /\ Len(parts) \in Nat /\ c <= Len(parts)
      /\ \A i \in (p + 1)..c : calls[i].op = "send"
      /\ \A i \in 1..c : calls[i].text = parts[i] /\ i \in 1..Len(parts)
  <2>1. Len(parts) \in Nat /\ c <= Len(parts)
    BY <1>2 DEF Pieces, CallsFor
  <2>2. p \in 0..c
    BY <1>2, <1>3, <1>4 DEF CallsFor
  <2>3. \A i \in (p + 1)..c : i \in 1..c /\ (i > 1 \/ x = 0)
    BY <1>4
  <2> QED
    BY <1>2, <1>3, <2>1, <2>2, <2>3 DEF CallsFor
<1>6. PICK base : base = After(calls)[p]
  OBVIOUS
<1>7. Sent(t, base, calls, p, c - p)
  BY <1>2, <1>5, <1>6, SendsShow
<1>8. /\ Len(base) = n /\ \A i \in 1..n : i # x => base[i] = shown[i]
      /\ x # 0 => base[x].text = parts[1]
  <2>1. CASE x = 0
    <3>1. base = shown
      BY <1>4, <1>5, <1>6, <2>1, AfterFollows
    <3> QED
      BY <1>1, <2>1, <3>1
  <2>2. CASE x # 0
    <3>1. p = 1 /\ 1 \in 1..c /\ c # 0 /\ 1 - 1 = 0
      BY <1>4, <1>5, <2>2
    <3>2. PICK e \in Call : e = calls[1]
      BY <1>2, <1>5, <3>1
    <3>3. e.op = "edit" /\ e.at = x /\ e.text = parts[1]
      BY <1>2, <1>3, <1>5, <2>2, <3>1, <3>2 DEF CallsFor
    <3>4. After(calls)[0] = shown /\ \A i \in 1..c : After(calls)[i] = Perform(After(calls)[i - 1], calls[i])
      BY <1>2, <1>5, AfterFollows
    <3>5. base = Perform(shown, e)
      <4>1. After(calls)[1] = Perform(After(calls)[1 - 1], calls[1])
        BY <3>1, <3>4
      <4> QED
        BY <1>6, <3>1, <3>2, <3>4, <4>1
    <3>6. /\ Len(base) = Len(shown)
          /\ \A i \in 1..Len(shown) : /\ i # e.at => base[i] = shown[i]
                                      /\ i = e.at => base[i].text = e.text
      BY <3>3, <3>5, EditedIs
    <3> QED
      BY <1>1, <1>3, <2>2, <3>3, <3>6
  <2> QED
    BY <2>1, <2>2
<1>9. /\ t \in Seq(Bubble) /\ Len(t) = n + (c - p)
      /\ \A i \in 1..n : t[i] = base[i]
      /\ \A j \in 1..(c - p) : /\ t[n + j].text = parts[p + j]
                               /\ t[n + j].stream = calls[p + j].stream
  <2>1. \A j \in 1..(c - p) : p + j \in 1..c
    BY <1>5
  <2> QED
    BY <1>5, <1>7, <1>8, <2>1 DEF Sent
<1> DEFINE place(i) == IF i = x THEN 1 ELSE (i - n) + p
           Moved(i) == i = x \/ i > n
<1>10. ASSUME NEW i \in 1..Len(t), Moved(i)
       PROVE  place(i) \in 1..Len(parts) /\ t[i].text = parts[place(i)]
  <2>1. CASE i = x
    <3>1. x # 0 /\ x \in 1..n /\ 1 \in 1..c
      BY <1>4, <1>5, <2>1
    <3>2. t[x] = base[x]
      BY <1>9, <3>1
    <3> QED
      BY <1>5, <1>8, <2>1, <3>1, <3>2
  <2>2. CASE i # x
    <3>1. PICK j \in 1..(c - p) : j = i - n
      <4>1. i \in 1..(n + (c - p)) /\ i > n
        BY <1>9, <1>10, <2>2
      <4>2. c - p \in Nat
        BY <1>5
      <4> QED
        BY <4>1, <4>2
    <3>2. i = n + j /\ place(i) = p + j /\ p + j \in 1..c
      BY <1>5, <2>2, <3>1
    <3> QED
      BY <1>5, <1>9, <3>2
  <2> QED
    BY <2>1, <2>2
<1>11. ASSUME NEW i \in 1..Len(t), Moved(i), NEW j \in 1..Len(t), Moved(j), i # j
       PROVE  place(i) # place(j)
  <2>1. x = 0 => i > n /\ j > n
    BY <1>11
  <2>2. x # 0 => p = 1
    BY <1>4
  <2> QED
    BY <1>4, <1>9, <1>11, <2>1, <2>2
<1> HIDE DEF place
<1>12. Redrawn(t, b)
  <2>1. n <= Len(t)
    BY <1>5, <1>9
  <2>2. \A i \in 1..n : i # x => t[i].text = shown[i].text
    BY <1>8, <1>9
  <2>3. ASSUME NEW i \in 1..Len(t), Moved(i)
        PROVE  /\ Rising(t[i].text) /\ Range(t[i].text) \subseteq Range(b.text)
               /\ \A j \in 1..Len(t) : Moved(j) /\ i # j => Range(t[i].text) \cap Range(t[j].text) = {}
    <3>1. PICK k \in 1..Len(parts) : k = place(i) /\ t[i].text = parts[k]
      BY <1>10, <2>3
    <3>2. Rising(parts[k]) /\ Range(parts[k]) \subseteq Range(b.text)
      BY DEF Pieces
    <3>3. ASSUME NEW j \in 1..Len(t), Moved(j), i # j
          PROVE  Range(t[i].text) \cap Range(t[j].text) = {}
      <4>1. PICK l \in 1..Len(parts) : l = place(j) /\ t[j].text = parts[l]
        BY <1>10, <3>3
      <4>2. k # l
        BY <1>11, <2>3, <3>1, <3>3, <4>1
      <4>3. Range(parts[k]) \cap Range(parts[l]) = {}
        BY <4>2, PiecesApart
      <4> QED
        BY <3>1, <4>1, <4>3
    <3> QED
      BY <3>1, <3>2, <3>3
  <2> QED
    BY <1>1, <1>3, <2>1, <2>2, <2>3 DEF Redrawn
<1>13. ASSUME x = 0
       PROVE  /\ Len(t) = n + c /\ \A i \in 1..n : t[i] = shown[i]
              /\ \A j \in 1..c : t[n + j].text = parts[j] /\ t[n + j].stream = calls[j].stream
  <2>1. p = 0 /\ c - p = c /\ \A j \in 1..c : p + j = j
    BY <1>4, <1>13
  <2>2. \A i \in 1..n : i # x
    BY <1>13
  <2> QED
    BY <1>8, <1>9, <2>1, <2>2
<1>14. ASSUME x # 0
       PROVE  /\ Len(t) = n + (c - 1) /\ t[x].text = parts[1]
              /\ \A j \in 1..(c - 1) : t[n + j].text = parts[j + 1]
  <2>1. p = 1 /\ \A j \in 1..(c - 1) : p + j = j + 1
    BY <1>4, <1>14
  <2>2. x \in 1..n
    BY <1>14
  <2> QED
    BY <1>8, <1>9, <1>14, <2>1, <2>2
<1> QED
  BY <1>1, <1>2, <1>3, <1>9, <1>12, <1>13, <1>14 DEF ShownBy

LEMMA SendsTyped ==
  ASSUME NEW m \in Message, NEW t \in Seq(Nat)
  PROVE  /\ SendCall(m, t) \in Call /\ SendCall(m, t).op = "send"
         /\ SendCall(m, t).text = t /\ SendCall(m, t).stream = m.stream
         /\ Preview(m, t) \in Call /\ Preview(m, t).op = "send"
         /\ Preview(m, t).text = t /\ Preview(m, t).stream = m.stream
         /\ Frame(m, t) \in Call /\ Frame(m, t).op = "frame"
         /\ Frame(m, t).text = t /\ Frame(m, t).chat = m.chat /\ Frame(m, t).stream = m.stream
<1>1. PICK at \in Nat : at = 0
  OBVIOUS
<1>2. PICK final \in BOOLEAN : final = TRUE
  OBVIOUS
<1>3. /\ SendCall(m, t) \in Call /\ SendCall(m, t).op = "send"
      /\ Preview(m, t) \in Call /\ Preview(m, t).op = "send"
      /\ Frame(m, t) \in Call /\ Frame(m, t).op = "frame"
      /\ \A c \in {SendCall(m, t), Preview(m, t), Frame(m, t), EditCall(m, at, t, final)} :
           c.text = t /\ c.chat = m.chat /\ c.stream = m.stream
  BY CallsTyped
<1> QED
  BY <1>3

\* The calls for the parts behind the first.
SendsAfter(m, parts) == [i \in 1..(Len(parts) - 1) |-> SendCall(m, parts[i + 1])]
PreviewsAfter(m, parts) == [i \in 1..(Len(parts) - 1) |-> Preview(m, parts[i + 1])]

\* The calls that edit a bubble and continue a text that is too long for it.
LEMMA SplitCalls ==
  ASSUME NEW m \in Message, NEW b \in Buffer, b.text # <<>>, b.bubble # 0,
         NEW final \in BOOLEAN, NEW parts, parts = Chunks(b.text, Limit),
         NEW edit, edit = EditCall(m, b.bubble, parts[1], final),
         NEW sends, sends = SendsAfter(m, parts),
         NEW previews, previews = PreviewsAfter(m, parts)
  PROVE  /\ Pieces(parts, b.text) /\ Len(parts) \in Nat \ {0}
         /\ parts[Len(parts)] \in Seq(Nat) /\ parts[Len(parts)] # <<>>
         /\ CallsFor(<<edit>>, parts, b)
         /\ Len(<<edit>>) = 1
         /\ \A more \in {sends, previews} :
              /\ more \in Seq(Call) /\ Len(more) = Len(parts) - 1
              /\ CallsFor(<<edit>> \o more, parts, b) /\ Len(<<edit>> \o more) = Len(parts)
<1>1. PICK text \in Seq(Nat) : text = b.text
  BY DEF Buffer, Parts
<1>2. PICK size \in Nat \ {0} : size = Limit
  BY ConstantsAssumption
<1>3. Pieces(parts, text) /\ \A i \in 1..Len(parts) : parts[i] # <<>>
  BY <1>1, <1>2, ChunksAre
<1>4. /\ parts \in Seq(Seq(Nat)) /\ \A i \in 1..Len(parts) : parts[i] \in Seq(Nat) /\ parts[i] # <<>>
      /\ Range(text) = UNION {Range(parts[i]) : i \in 1..Len(parts)}
  BY <1>3 DEF Pieces
<1>5. Len(parts) # 0
  <2> SUFFICES ASSUME Len(parts) = 0 PROVE FALSE
    OBVIOUS
  <2>1. 1..Len(parts) = {}
    BY <1>4
  <2>2. Range(text) = {}
    BY <1>4, <2>1
  <2>3. 1 \in DOMAIN text
    BY <1>1, EmptySeq
  <2> QED
    BY <2>2, <2>3 DEF Range
<1>6. PICK c \in Nat \ {0} : c = Len(parts)
  <2>1. Len(parts) \in Nat
    BY <1>4
  <2> QED
    BY <1>5, <2>1
<1>7. PICK at \in Nat : at = b.bubble
  BY DEF Buffer
<1>8. PICK p \in Seq(Nat) : p = parts[1]
  BY <1>4, <1>6
<1>9. edit \in Call /\ edit.op = "edit" /\ edit.at = at /\ edit.text = p
  <2>1. edit = EditCall(m, at, p, final)
    BY <1>7, <1>8
  <2> QED
    BY <2>1, CallsTyped
<1>10. \A t \in Seq(Nat) : /\ SendCall(m, t) \in Call /\ SendCall(m, t).op = "send"
                           /\ SendCall(m, t).text = t
                           /\ Preview(m, t) \in Call /\ Preview(m, t).op = "send"
                           /\ Preview(m, t).text = t
  BY SendsTyped
<1>11. \A i \in 1..(c - 1) : parts[i + 1] \in Seq(Nat)
  BY <1>4, <1>6
<1>12. ASSUME NEW more \in {sends, previews}
       PROVE  /\ more \in Seq(Call) /\ Len(more) = c - 1
              /\ \A i \in 1..(c - 1) : more[i].text = parts[i + 1] /\ more[i].op = "send"
  <2>1. c - 1 \in Nat
    OBVIOUS
  <2>2. CASE more = sends
    <3>1. more = [i \in 1..(c - 1) |-> SendCall(m, parts[i + 1])]
      BY <1>6, <2>2 DEF SendsAfter
    <3>2. \A i \in 1..(c - 1) : more[i] \in Call /\ more[i].text = parts[i + 1] /\ more[i].op = "send"
      BY <1>10, <1>11, <3>1
    <3> QED
      BY <2>1, <3>1, <3>2
  <2>3. CASE more = previews
    <3>1. more = [i \in 1..(c - 1) |-> Preview(m, parts[i + 1])]
      BY <1>6, <2>3 DEF PreviewsAfter
    <3>2. \A i \in 1..(c - 1) : more[i] \in Call /\ more[i].text = parts[i + 1] /\ more[i].op = "send"
      BY <1>10, <1>11, <3>1
    <3> QED
      BY <2>1, <3>1, <3>2
  <2> QED
    BY <2>2, <2>3
<1>13. CallsFor(<<edit>>, parts, b) /\ Len(<<edit>>) = 1
  <2>1. PICK o : o = <<edit>>
    OBVIOUS
  <2>2. o \in Seq(Call) /\ Len(o) = 1 /\ o[1] = edit
    BY <1>9, <2>1
  <2>3. \A i \in 1..1 : i = 1
    OBVIOUS
  <2>4. CallsFor(o, parts, b)
    BY <1>6, <1>7, <1>8, <1>9, <2>2, <2>3 DEF CallsFor
  <2> QED
    BY <2>1, <2>2, <2>4
<1>14. ASSUME NEW more \in {sends, previews}
       PROVE  CallsFor(<<edit>> \o more, parts, b) /\ Len(<<edit>> \o more) = c
  <2>1. PICK o : o = <<edit>> \o more
    OBVIOUS
  <2>2. /\ o \in Seq(Call) /\ Len(o) = (c - 1) + 1 /\ o[1] = edit
        /\ \A i \in 1..(c - 1) : o[i + 1] = more[i]
    <3>1. PICK u \in Seq(Call) : u = more
      BY <1>12
    <3>2. Len(u) = c - 1
      BY <1>12, <3>1
    <3>3. /\ <<edit>> \o u \in Seq(Call) /\ Len(<<edit>> \o u) = Len(u) + 1
          /\ (<<edit>> \o u)[1] = edit
          /\ \A i \in 1..Len(u) : (<<edit>> \o u)[i + 1] = u[i]
      BY <1>9, FollowedBy
    <3> QED
      BY <2>1, <3>1, <3>2, <3>3
  <2>3. Len(o) = c
    BY <2>2
  <2>4. ASSUME NEW i \in 1..c, i # 1 PROVE o[i].text = parts[i] /\ o[i].op = "send"
    <3>1. PICK j \in 1..(c - 1) : j = i - 1
      BY <2>4
    <3>2. j + 1 = i
      BY <3>1
    <3>3. o[i] = more[j] /\ more[j].text = parts[i] /\ more[j].op = "send"
      BY <1>12, <2>2, <3>2
    <3> QED
      BY <3>3
  <2>5. CallsFor(o, parts, b)
    <3>1. \A i \in 1..c : o[i].text = parts[i] /\ (i > 1 \/ b.bubble = 0 => o[i].op = "send")
      BY <1>8, <1>9, <2>2, <2>4
    <3> QED
      BY <1>6, <1>7, <1>9, <2>2, <2>3, <3>1 DEF CallsFor
  <2> QED
    BY <2>1, <2>3, <2>5
<1>15. ASSUME NEW more \in {sends, previews}
       PROVE  /\ more \in Seq(Call) /\ Len(more) = Len(parts) - 1
              /\ CallsFor(<<edit>> \o more, parts, b) /\ Len(<<edit>> \o more) = Len(parts)
  BY <1>6, <1>12, <1>14
<1>16. /\ Pieces(parts, b.text) /\ Len(parts) \in Nat \ {0}
       /\ parts[Len(parts)] \in Seq(Nat) /\ parts[Len(parts)] # <<>>
  <2>1. c \in 1..Len(parts) /\ Len(parts) = c
    BY <1>6
  <2>2. parts[c] \in Seq(Nat) /\ parts[c] # <<>>
    BY <1>4, <2>1
  <2>3. Pieces(parts, b.text)
    BY <1>1, <1>3
  <2> QED
    BY <2>1, <2>2, <2>3
<1> QED
  BY <1>13, <1>15, <1>16

\* A text as one piece, in one call.
LEMMA OneCall ==
  ASSUME NEW b \in Buffer, b.text # <<>>, NEW c \in Call, c.text = b.text,
         IF b.bubble = 0 THEN c.op = "send" ELSE c.op = "edit" /\ c.at = b.bubble
  PROVE  /\ Pieces(<<b.text>>, b.text) /\ CallsFor(<<c>>, <<b.text>>, b)
         /\ Len(<<c>>) = 1 /\ <<b.text>>[1] = b.text
<1>1. PICK text \in Seq(Nat) : text = b.text
  BY DEF Buffer, Parts
<1>2. PICK p : p = <<text>>
  OBVIOUS
<1>3. p \in Seq(Seq(Nat)) /\ Len(p) = 1 /\ p[1] = text /\ \A i \in 1..1 : i = 1
  BY <1>2
<1>4. Pieces(p, text)
  <2>1. \A i \in 1..1 : i = 1
    OBVIOUS
  <2>2. Range(text) = UNION {Range(p[i]) : i \in 1..1}
    BY <1>3
  <2> QED
    BY <1>1, <1>3, <2>2 DEF Pieces
<1>5. PICK o : o = <<c>>
  OBVIOUS
<1>6. o \in Seq(Call) /\ Len(o) = 1 /\ o[1] = c
  BY <1>5
<1>7. CallsFor(o, p, b)
  BY <1>1, <1>3, <1>6 DEF CallsFor
<1> QED
  BY <1>1, <1>2, <1>3, <1>4, <1>5, <1>6, <1>7

\* The buffer that holds what its bubble shows.
LEMMA RemainsShown ==
  ASSUME adapter # "websocket", shown \in Seq(Bubble), NEW m, NEW above, NEW b, Owns(b, m, above),
         NEW t \in Seq(Bubble), Redrawn(t, b), NEW y \in 1..Len(t), y = b.bubble \/ y > Len(shown),
         NEW new, new.bubble = y, new.text = t[y].text
  PROVE  Remaining(new, t, b)
<1>1. /\ Len(t) \in Nat /\ Len(shown) \in Nat /\ DOMAIN t = 1..Len(t) /\ DOMAIN shown = 1..Len(shown)
  OBVIOUS
<1>2. Rising(new.text) /\ Range(new.text) \subseteq Range(b.text)
  BY DEF Redrawn
<1>3. ASSUME NEW i \in 1..Len(t), i # y PROVE Range(t[i].text) \cap Range(new.text) = {}
  <2>1. CASE i = b.bubble \/ i > Len(shown)
    BY <1>3, <2>1 DEF Redrawn
  <2>2. CASE ~(i = b.bubble \/ i > Len(shown))
    <3>1. i \in 1..Len(shown) /\ i # b.bubble
      BY <1>1, <2>2
    <3>2. t[i].text = shown[i].text /\ Range(shown[i].text) \cap Range(b.text) = {}
      BY <1>1, <3>1 DEF Redrawn, Owns, Shows
    <3> QED
      BY <1>2, <3>2
  <2> QED
    BY <2>1, <2>2
<1>4. new.bubble \in 0..Len(t)
  BY <1>1
<1>5. Shows(new, t)
  BY <1>1, <1>2, <1>3, <1>4 DEF Shows
<1> QED
  BY <1>2, <1>5 DEF Remaining

\* The buffer is kept, and its bubble shows some of its text.
LEMMA RemainsSame ==
  ASSUME shown \in Seq(Bubble), NEW m, NEW above, NEW b, Owns(b, m, above),
         NEW t \in Seq(Bubble), Redrawn(t, b), Len(t) = Len(shown)
  PROVE  Remaining(b, t, b)
<1>1. /\ Len(shown) \in Nat /\ DOMAIN t = 1..Len(shown) /\ DOMAIN shown = 1..Len(shown)
  OBVIOUS
<1>2. Shows(b, shown)
  BY DEF Owns
<1>3. ASSUME b.bubble # 0 PROVE Range(t[b.bubble].text) \subseteq Range(b.text)
  <2>1. b.bubble \in 1..Len(t)
    BY <1>1, <1>2, <1>3 DEF Shows
  <2> QED
    BY <2>1 DEF Redrawn
<1>4. ASSUME NEW i \in 1..Len(shown), i # b.bubble PROVE Range(t[i].text) \cap Range(b.text) = {}
  BY <1>1, <1>2, <1>4 DEF Redrawn, Shows
<1>5. Shows(b, t)
  BY <1>1, <1>2, <1>3, <1>4 DEF Shows
<1> QED
  BY <1>5 DEF Remaining

\* Without a call nothing is redrawn.
LEMMA ShownRedrawn ==
  ASSUME shown \in Seq(Bubble), NEW m, NEW above, Fits(m, above), NEW b, Owns(b, m, above)
  PROVE  Redrawn(shown, b)
<1>1. Len(shown) \in Nat /\ DOMAIN shown = 1..Len(shown)
  OBVIOUS
<1>2. Shows(b, shown) /\ Apart(shown)
  BY DEF Owns, Fits, Settled
<1>3. b.bubble \in 0..Len(shown)
  BY <1>2 DEF Shows
<1>4. \A i \in 1..Len(shown) : ~(i > Len(shown))
  BY <1>1
<1>5. ASSUME NEW i \in 1..Len(shown), i = b.bubble
      PROVE  Rising(shown[i].text) /\ Range(shown[i].text) \subseteq Range(b.text)
  <2>1. b.bubble # 0
    BY <1>5
  <2> QED
    BY <1>1, <1>2, <1>5, <2>1 DEF Apart, Shows
<1> QED
  BY <1>1, <1>4, <1>5 DEF Redrawn

-----------------------------------------------------------------------------
(***************************************************************************)
(* Outcomes of the adapters that edit                                      *)
(***************************************************************************)

\* Every outcome without a failing call is a success and settles.
Settles(rs, above) ==
  \A r \in rs : r.fault = 0 => r.ok = TRUE /\ Settled(r.shown, r.buf, above)

LEMMA TrySettles ==
  ASSUME TypeInv, adapter # "websocket", NEW m \in Message, NEW above, NEW b \in Buffer,
         NEW parts, Pieces(parts, b.text), NEW calls, CallsFor(calls, parts, b),
         NEW done \in Buffer \cup {None}, done # None => done.text # <<>>,
         NEW failed \in Buffers, NEW t, t = After(calls)[Len(calls)],
         t \in Seq(Bubble) /\ Redrawn(t, b) /\ Owns(b, m, above) /\ done # None
           => Remaining(done, t, b)
  PROVE  /\ Try(calls, Put(m, done), failed) \subseteq Outcome
         /\ Fits(m, above) /\ Owns(b, m, above) => Settles(Try(calls, Put(m, done), failed), above)
<1>1. shown \in Seq(Bubble) /\ buf \in Buffers /\ calls \in Seq(Call)
  BY DEF TypeInv, TypeOK, CallsFor
<1>2. PICK p \in Buffers : p = Put(m, done)
  BY <1>1, PutIs
<1>3. Try(calls, p, failed) \subseteq Outcome
  BY <1>1, TryTyped
<1>4. ASSUME Fits(m, above), Owns(b, m, above) PROVE Settles(Try(calls, p, failed), above)
  <2>1. b.bubble \in 0..Len(shown) /\ Rising(b.text)
    BY <1>4 DEF Owns, Shows
  <2>2. t \in Seq(Bubble) /\ Redrawn(t, b)
    BY <1>1, <2>1, CallsRedraw
  <2>3. done # None => done.text # <<>> /\ Remaining(done, t, b)
    BY <1>4, <2>2
  <2>4. Settled(t, p, above)
    BY <1>2, <1>4, <2>2, <2>3, Redraws
  <2>5. ASSUME NEW r \in Try(calls, p, failed), r.fault = 0
        PROVE  r.ok = TRUE /\ Settled(r.shown, r.buf, above)
    <3>1. r.shown = After(calls)[Len(calls)] /\ r.buf = p /\ r.ok = TRUE
      BY <1>1, <2>5, TryWithoutFault, Zenon
    <3> QED
      BY <2>4, <3>1
  <2> QED
    BY <2>5 DEF Settles
<1> QED
  BY <1>2, <1>3, <1>4

\* The first bubble of a text.
LEMMA FirstBubble ==
  ASSUME TypeInv, adapter # "websocket", NEW m \in Message, NEW above,
         NEW b \in Buffer, b.text # <<>>, b.bubble = 0,
         NEW c \in Call, c.op = "send", c.text = b.text,
         NEW a, a = [b EXCEPT !.bubble = Len(shown) + 1], NEW failed \in Buffers
  PROVE  /\ Try(<<c>>, Put(m, a), failed) \subseteq Outcome
         /\ Fits(m, above) /\ Owns(b, m, above) => Settles(Try(<<c>>, Put(m, a), failed), above)
<1>1. shown \in Seq(Bubble) /\ Len(shown) \in Nat
  BY DEF TypeInv, TypeOK
<1>2. a \in Buffer /\ a.text = b.text /\ a.bubble = Len(shown) + 1
  BY <1>1 DEF Buffer
<1>3. PICK parts : parts = <<b.text>>
  OBVIOUS
<1>4. PICK calls : calls = <<c>>
  OBVIOUS
<1>5. Pieces(parts, b.text) /\ CallsFor(calls, parts, b) /\ Len(calls) = 1 /\ parts[1] = b.text
  BY <1>3, <1>4, OneCall
<1>6. PICK t : t = After(calls)[Len(calls)]
  OBVIOUS
<1>7. ASSUME t \in Seq(Bubble), Redrawn(t, b), Owns(b, m, above) PROVE Remaining(a, t, b)
  <2>1. b.bubble \in 0..Len(shown) /\ Rising(b.text)
    BY <1>7 DEF Owns, Shows
  <2>0. /\ Len(t) = Len(shown) + Len(calls)
        /\ \A i \in 1..Len(shown) : t[i] = shown[i]
        /\ \A j \in 1..Len(calls) : /\ t[Len(shown) + j].text = parts[j]
                                    /\ t[Len(shown) + j].stream = calls[j].stream
    <3>1. ShownBy(t, calls, parts, b)
      BY <1>1, <1>5, <1>6, <2>1, CallsRedraw
    <3> QED
      BY <3>1 DEF ShownBy
  <2>2. Len(t) = Len(shown) + 1 /\ \A j \in 1..1 : t[Len(shown) + j].text = parts[j]
    BY <1>5, <2>0
  <2>3. t[Len(shown) + 1].text = b.text
    <3>1. 1 \in 1..1
      OBVIOUS
    <3> QED
      BY <1>5, <2>2, <3>1
  <2>4. PICK y \in Nat : y = Len(shown) + 1
    BY <1>1
  <2>5. y \in 1..Len(t) /\ y > Len(shown) /\ a.bubble = y /\ a.text = t[y].text
    BY <1>1, <1>2, <2>2, <2>3, <2>4
  <2> QED
    BY <1>1, <1>7, <2>5, RemainsShown
<1>8. /\ Try(calls, Put(m, a), failed) \subseteq Outcome
      /\ Fits(m, above) /\ Owns(b, m, above) => Settles(Try(calls, Put(m, a), failed), above)
  BY <1>2, <1>5, <1>6, <1>7, TrySettles
<1> QED
  BY <1>4, <1>8

\* One edit after which the buffer is kept.
LEMMA EditKept ==
  ASSUME TypeInv, adapter # "websocket", NEW m \in Message, NEW above,
         NEW b \in Buffer, b.text # <<>>, b.bubble # 0,
         NEW parts, Pieces(parts, b.text), NEW calls, CallsFor(calls, parts, b), Len(calls) = 1,
         NEW failed \in Buffers
  PROVE  /\ Try(calls, Put(m, b), failed) \subseteq Outcome
         /\ Fits(m, above) /\ Owns(b, m, above) => Settles(Try(calls, Put(m, b), failed), above)
<1>1. shown \in Seq(Bubble) /\ Len(shown) \in Nat
  BY DEF TypeInv, TypeOK
<1>2. PICK t : t = After(calls)[Len(calls)]
  OBVIOUS
<1>3. ASSUME t \in Seq(Bubble), Redrawn(t, b), Owns(b, m, above) PROVE Remaining(b, t, b)
  <2>1. b.bubble \in 0..Len(shown) /\ Rising(b.text)
    BY <1>3 DEF Owns, Shows
  <2>2. /\ Len(t) = Len(shown) + (Len(calls) - 1)
        /\ t[b.bubble].text = parts[1]
        /\ \A j \in 1..(Len(calls) - 1) : t[Len(shown) + j].text = parts[j + 1]
    <3>1. ShownBy(t, calls, parts, b)
      BY <1>1, <1>2, <2>1, CallsRedraw
    <3> QED
      BY <3>1 DEF ShownBy
  <2>3. Len(t) = Len(shown)
    BY <1>1, <2>2
  <2> QED
    BY <1>1, <1>3, <2>3, RemainsSame
<1> QED
  BY <1>2, <1>3, TrySettles

\* The text is buffered, and the edit is left to a later delta.
LEMMA QuietSettles ==
  ASSUME TypeInv, adapter # "websocket", NEW m \in Message, NEW above,
         NEW b \in Buffer, b.text # <<>>
  PROVE  /\ Quietly(Put(m, b)) \subseteq Outcome /\ Put(m, b) \in Buffers
         /\ Fits(m, above) /\ Owns(b, m, above) => Settles(Quietly(Put(m, b)), above)
         /\ Fits(m, above) /\ Owns(b, m, above) => Settled(shown, Put(m, b), above)
<1>1. shown \in Seq(Bubble) /\ buf \in Buffers
  BY DEF TypeInv, TypeOK
<1>2. PICK p \in Buffers : p = Put(m, b)
  BY <1>1, PutIs
<1>3. Quietly(p) \subseteq Outcome
  BY <1>1, QuietlyTyped
<1>4. ASSUME Fits(m, above), Owns(b, m, above)
      PROVE  Settled(shown, p, above)
  <2>1. Redrawn(shown, b)
    BY <1>1, <1>4, ShownRedrawn
  <2>2. Remaining(b, shown, b)
    BY <1>1, <1>4, <2>1, RemainsSame
  <2> QED
    BY <1>1, <1>2, <1>4, <2>1, <2>2, Redraws
<1>5. Settled(shown, p, above) => Settles(Quietly(p), above)
  BY DEF Settles, Quietly
<1> QED
  BY <1>2, <1>3, <1>4, <1>5

\* An outcome without a failing call is what Keeps asks for, where failures
\* count.
LEMMA SettlesKeeps ==
  ASSUME adapter # "matrix", NEW m, NEW above, NEW rs, Settles(rs, above)
  PROVE  \A r \in rs : Keeps(m, above, r)
BY DEF Settles, Keeps, Counted

\* What sending a message may do, and what it leaves.
Handles(rs, m, above) ==
  rs \subseteq Outcome /\ (Fits(m, above) => \A r \in rs : Keeps(m, above, r))

LEMMA HandlesBoth ==
  ASSUME NEW m, NEW above, NEW rs, NEW more, Handles(rs, m, above), Handles(more, m, above)
  PROVE  Handles(rs \cup more, m, above)
BY DEF Handles

\* The buffer of a delta, for each adapter.
LEMMA DeltaBuffer ==
  ASSUME TypeInv, adapter # "websocket", NEW m \in Message, m.kind = "delta", Published(m),
         NEW above, NEW comparing \in BOOLEAN, NEW b, b = Buffered(m, comparing)
  PROVE  /\ b \in Buffer /\ b.text # <<>> /\ b.text \in Seq(Nat) /\ b.bubble \in Nat
         /\ Put(m, b) \in Buffers
         /\ Fits(m, above) /\ ~Stuck(b) => Owns(b, m, above)
<1>1. buf \in Buffers
  BY DEF TypeInv
<1>2. b \in Buffer /\ b.text # <<>>
  BY <1>1, BufferedIs
<1>3. Put(m, b) \in Buffers
  BY <1>1, <1>2, PutIs
<1>4. Fits(m, above) /\ ~Stuck(b) => Owns(b, m, above)
  BY OwnsDelta
<1> QED
  BY <1>2, <1>3, <1>4 DEF Buffer, Parts

LEMMA RefusedHandles ==
  ASSUME TypeInv, NEW m \in Message, NEW above, NEW b \in Buffer, b.text # <<>>, Stuck(b)
  PROVE  Handles(Refused(Put(m, b)), m, above)
<1>1. shown \in Seq(Bubble) /\ buf \in Buffers
  BY DEF TypeInv, TypeOK
<1>2. PICK p \in Buffers : p = Put(m, b)
  BY <1>1, PutIs
<1>3. Refused(p) \subseteq Outcome
  BY <1>1, QuietlyTyped
<1>4. ASSUME Fits(m, above) PROVE \A r \in Refused(p) : Keeps(m, above, r)
  <2>1. Settled(shown, p, Said(m) \cup above)
    BY <1>2, <1>4, StuckSettles
  <2> QED
    BY <2>1 DEF Refused, Keeps
<1> QED
  BY <1>2, <1>3, <1>4 DEF Handles

\* From an outcome for a buffer that owns its text.
LEMMA SettlesHandles ==
  ASSUME adapter # "matrix", NEW m, NEW above, NEW rs, rs \subseteq Outcome,
         Fits(m, above) => Settles(rs, above)
  PROVE  Handles(rs, m, above)
BY SettlesKeeps DEF Handles

LEMMA TelegramDeltaHandles ==
  ASSUME TypeInv, adapter = "telegram", NEW m \in Message, m.kind = "delta", Published(m),
         NEW above
  PROVE  Handles(TelegramDelta(m), m, above)
<1>1. shown \in Seq(Bubble) /\ Len(shown) \in Nat /\ Limit \in Nat
  BY ConstantsAssumption DEF TypeInv, TypeOK
<1>2. PICK compare \in BOOLEAN : compare = TRUE
  OBVIOUS
<1>3. PICK b : b = Buffered(m, TRUE)
  OBVIOUS
<1>4. /\ b \in Buffer /\ b.text # <<>> /\ b.text \in Seq(Nat) /\ b.bubble \in Nat
      /\ Put(m, b) \in Buffers
      /\ Fits(m, above) /\ ~Stuck(b) => Owns(b, m, above)
  <2>1. b = Buffered(m, compare)
    BY <1>2, <1>3
  <2> QED
    BY <2>1, DeltaBuffer
<1>5. CASE b.bubble = 0 /\ Len(b.text) > Limit
  <2>1. TelegramDelta(m) = Refused(Put(m, b))
    BY <1>3, <1>5 DEF TelegramDelta
  <2>2. Stuck(b)
    BY <1>5 DEF Stuck
  <2> QED
    BY <1>4, <2>1, <2>2, RefusedHandles
<1>6. CASE b.bubble = 0 /\ ~(Len(b.text) > Limit)
  <2>1. PICK a : a = [b EXCEPT !.bubble = Len(shown) + 1]
    OBVIOUS
  <2>2. PICK c \in Call : c = Preview(m, b.text) /\ c.op = "send" /\ c.text = b.text
    BY <1>4, SendsTyped
  <2>3. TelegramDelta(m) = Try(<<c>>, Put(m, a), Put(m, b))
    BY <1>3, <1>6, <2>1, <2>2 DEF TelegramDelta
  <2>4. ~Stuck(b)
    BY <1>6 DEF Stuck
  <2>5. /\ Try(<<c>>, Put(m, a), Put(m, b)) \subseteq Outcome
        /\ Fits(m, above) /\ Owns(b, m, above) => Settles(Try(<<c>>, Put(m, a), Put(m, b)), above)
    BY <1>4, <1>6, <2>1, <2>2, FirstBubble
  <2> QED
    BY <1>4, <2>3, <2>4, <2>5, SettlesHandles
<1>7. CASE b.bubble # 0
  <2>1. PICK parts : parts = Chunks(b.text, Limit)
    OBVIOUS
  <2>2. PICK more : more = PreviewsAfter(m, parts)
    OBVIOUS
  <2>3. PICK final \in BOOLEAN : final = FALSE
    OBVIOUS
  <2>4. PICK edit : edit = EditCall(m, b.bubble, parts[1], final)
    OBVIOUS
  <2>5. PICK sends : sends = SendsAfter(m, parts)
    OBVIOUS
  <2>6. /\ Pieces(parts, b.text) /\ Len(parts) \in Nat \ {0}
        /\ parts[Len(parts)] \in Seq(Nat) /\ parts[Len(parts)] # <<>>
        /\ more \in Seq(Call) /\ Len(more) = Len(parts) - 1
        /\ CallsFor(<<edit>> \o more, parts, b) /\ Len(<<edit>> \o more) = Len(parts)
    <3>1. /\ Pieces(parts, b.text) /\ Len(parts) \in Nat \ {0}
          /\ parts[Len(parts)] \in Seq(Nat) /\ parts[Len(parts)] # <<>>
          /\ CallsFor(<<edit>>, parts, b)
          /\ Len(<<edit>>) = 1
          /\ \A u \in {sends, more} :
              /\ u \in Seq(Call) /\ Len(u) = Len(parts) - 1
              /\ CallsFor(<<edit>> \o u, parts, b) /\ Len(<<edit>> \o u) = Len(parts)
      BY <1>4, <1>7, <2>1, <2>2, <2>4, <2>5, SplitCalls
    <3> QED
      BY <3>1
  <2>7. PICK e : e = [b EXCEPT !.bubble = IF more = <<>> THEN @ ELSE Len(shown) + Len(more),
                               !.text = IF more = <<>> THEN @ ELSE parts[Len(parts)]]
    OBVIOUS
  <2>8. PICK calls : calls = <<edit>> \o more
    OBVIOUS
  <2>9. TelegramDelta(m) = Quietly(Put(m, b)) \cup Try(calls, Put(m, e), Put(m, b))
    BY <1>3, <1>7, <2>1, <2>2, <2>3, <2>4, <2>7, <2>8 DEF TelegramDelta, PreviewsAfter
  <2>10. PICK c \in Nat \ {0} : c = Len(parts)
    BY <2>6
  <2>11. CASE more = <<>>
    <3>1. e = b
      BY <1>4, <2>7, <2>11 DEF Buffer
    <3>2. Len(calls) = 1
      BY <2>6, <2>8, <2>10, <2>11
    <3>3. /\ Try(calls, Put(m, b), Put(m, b)) \subseteq Outcome
          /\ Fits(m, above) /\ Owns(b, m, above) => Settles(Try(calls, Put(m, b), Put(m, b)), above)
      BY <1>4, <1>7, <2>6, <2>8, <3>2, EditKept
    <3>4. Handles(Try(calls, Put(m, b), Put(m, b)), m, above)
      BY <1>4, <1>7, <3>3, SettlesHandles DEF Stuck
    <3>5. Handles(Quietly(Put(m, b)), m, above)
      BY <1>4, <1>7, QuietSettles, SettlesHandles DEF Stuck
    <3> QED
      BY <2>9, <3>1, <3>4, <3>5, HandlesBoth
  <2>12. CASE more # <<>>
    <3>1. Len(more) \in Nat \ {0} /\ c = Len(more) + 1 /\ Len(calls) = c
      <4>1. Len(more) = c - 1 /\ c - 1 \in Nat /\ Len(calls) = c
        BY <2>6, <2>8, <2>10
      <4>2. c # 1
        <5> SUFFICES ASSUME c = 1 PROVE FALSE
          OBVIOUS
        <5>1. Len(more) = 0
          BY <4>1
        <5> QED
          BY <2>6, <2>12, <5>1, EmptySeq
      <4> QED
        BY <4>1, <4>2
    <3>2. PICK y \in Nat : y = Len(shown) + Len(more)
      BY <1>1, <3>1
    <3>3. e \in Buffer /\ e.bubble = y /\ e.text = parts[Len(parts)]
      <4>1. PICK last \in Seq(Nat) : last = parts[Len(parts)]
        BY <2>6
      <4>2. e = [b EXCEPT !.bubble = y, !.text = last]
        BY <2>7, <2>12, <3>2, <4>1
      <4> QED
        BY <1>4, <4>1, <4>2 DEF Buffer, Parts
    <3>4. e # None
      BY <3>3, ConstantsAssumption
    <3>5. PICK t : t = After(calls)[Len(calls)]
      OBVIOUS
    <3>6. ASSUME t \in Seq(Bubble), Redrawn(t, b), Owns(b, m, above) PROVE Remaining(e, t, b)
      <4>1. b.bubble \in 0..Len(shown) /\ Rising(b.text)
        BY <3>6 DEF Owns, Shows
      <4>2. CallsFor(calls, parts, b)
        BY <2>6, <2>8
      <4>3. ShownBy(t, calls, parts, b)
        BY <1>1, <1>4, <2>6, <3>5, <4>1, <4>2, CallsRedraw
      <4>4. /\ Len(t) = Len(shown) + (c - 1)
            /\ \A j \in 1..(c - 1) : t[Len(shown) + j].text = parts[j + 1]
        BY <1>7, <3>1, <4>3 DEF ShownBy
      <4>5. PICK l \in Nat : l = Len(more)
        BY <3>1
      <4>6. l \in 1..(c - 1) /\ l + 1 = c /\ c - 1 = l
        BY <3>1, <4>5
      <4>7. t[Len(shown) + l].text = parts[c]
        BY <4>4, <4>6
      <4>8. y \in 1..Len(t) /\ y > Len(shown) /\ e.text = t[y].text
        <5>1. PICK n \in Nat : n = Len(shown)
          BY <1>1
        <5>2. y = n + l /\ Len(t) = n + l /\ l \in Nat \ {0}
          BY <3>1, <3>2, <4>4, <4>5, <4>6, <5>1
        <5>3. y \in 1..Len(t) /\ y > n
          BY <5>2
        <5> QED
          BY <2>10, <3>3, <4>7, <5>1, <5>2, <5>3
      <4> QED
        BY <1>1, <3>3, <3>6, <4>8, RemainsShown
    <3>7. CallsFor(calls, parts, b) /\ e.text # <<>>
      BY <2>6, <2>8, <3>3
    <3>8. /\ Try(calls, Put(m, e), Put(m, b)) \subseteq Outcome
          /\ Fits(m, above) /\ Owns(b, m, above) => Settles(Try(calls, Put(m, e), Put(m, b)), above)
      BY <1>4, <2>6, <3>3, <3>4, <3>5, <3>6, <3>7, TrySettles
    <3>9. Handles(Try(calls, Put(m, e), Put(m, b)), m, above)
      BY <1>4, <1>7, <3>8, SettlesHandles DEF Stuck
    <3>10. Handles(Quietly(Put(m, b)), m, above)
      BY <1>4, <1>7, QuietSettles, SettlesHandles DEF Stuck
    <3> QED
      BY <2>9, <3>9, <3>10, HandlesBoth
  <2> QED
    BY <2>11, <2>12
<1> QED
  BY <1>5, <1>6, <1>7

LEMMA QuietHandles ==
  ASSUME TypeInv, NEW m, NEW above
  PROVE  Handles(Quietly(buf), m, above)
<1>1. shown \in Seq(Bubble) /\ buf \in Buffers
  BY DEF TypeInv, TypeOK
<1>2. Quietly(buf) \subseteq Outcome
  BY <1>1, QuietlyTyped
<1>3. ASSUME Fits(m, above) PROVE Settled(shown, buf, above)
  <2>1. PICK more : more = Said(m) \cup above
    OBVIOUS
  <2>2. Settled(shown, buf, more) /\ above \subseteq more
    BY <1>3, <2>1 DEF Fits
  <2> QED
    BY <2>2, SettledLess
<1>4. ASSUME Fits(m, above) PROVE \A r \in Quietly(buf) : Keeps(m, above, r)
  BY <1>3, <1>4 DEF Quietly, Keeps
<1> QED
  BY <1>2, <1>4 DEF Handles

\* The buffer that an end takes.
LEMMA EndBuffer ==
  ASSUME TypeInv, adapter # "websocket", NEW m \in Message, NEW above,
         NEW comparing \in BOOLEAN, NEW b, b = Ended(m, comparing), b # None
  PROVE  /\ b \in Buffer /\ b.text # <<>> /\ b.text \in Seq(Nat) /\ b.bubble \in Nat
         /\ b.bubble # 0
         /\ Fits(m, above) => Owns(b, m, above)
<1>1. buf \in Buffers
  BY DEF TypeInv
<1>2. /\ b = buf[Key(m)] /\ b \in Buffer /\ b.text # <<>> /\ b.bubble # 0
      /\ b.text \in Seq(Nat) /\ b.bubble \in Nat
  BY <1>1, EndedIs
<1>3. ~Stuck(b)
  BY <1>2 DEF Stuck
<1>4. Fits(m, above) => Owns(b, m, above)
  BY <1>2, <1>3, OwnsEnd
<1> QED
  BY <1>2, <1>4

\* The buffer is dropped when its text is shown.
LEMMA DoneHandles ==
  ASSUME TypeInv, adapter \notin {"websocket", "matrix"}, NEW m \in Message, NEW above,
         NEW b \in Buffer, Fits(m, above) => Owns(b, m, above),
         NEW parts, Pieces(parts, b.text), NEW calls, CallsFor(calls, parts, b),
         NEW failed \in Buffers
  PROVE  /\ Handles(Try(calls, Put(m, None), failed), m, above)
         /\ Try(calls, Put(m, None), failed) \subseteq Outcome
         /\ Fits(m, above) => Settles(Try(calls, Put(m, None), failed), above)
<1>1. PICK done \in Buffer \cup {None} : done = None
  OBVIOUS
<1>2. PICK t : t = After(calls)[Len(calls)]
  OBVIOUS
<1>3. /\ Try(calls, Put(m, done), failed) \subseteq Outcome
      /\ Fits(m, above) /\ Owns(b, m, above) => Settles(Try(calls, Put(m, done), failed), above)
  BY <1>1, <1>2, TrySettles
<1> QED
  BY <1>1, <1>3, SettlesHandles

LEMMA DropTyped ==
  ASSUME TypeInv, NEW m \in Message
  PROVE  Put(m, None) \in Buffers
<1>1. PICK none \in Buffer \cup {None} : none = None
  OBVIOUS
<1>2. buf \in Buffers
  BY DEF TypeInv
<1> QED
  BY <1>1, <1>2, PutIs

\* A channel that is not found changes what is to be shown by a failure only.
LEMMA UnresolvedHandles ==
  ASSUME adapter = "discord", NEW m, NEW above, NEW bubbles \in Seq(Bubble), NEW left \in Buffers
  PROVE  Handles(Unresolved(bubbles, left), m, above)
<1>1. PICK r : r = [shown |-> bubbles, buf |-> left, fault |-> 1, ok |-> TRUE]
  OBVIOUS
<1>2. r \in Outcome /\ Keeps(m, above, r)
  BY <1>1 DEF Outcome, Keeps, Counted
<1>3. Unresolved(bubbles, left) = {r}
  BY <1>1 DEF Unresolved
<1> QED
  BY <1>2, <1>3 DEF Handles

LEMMA TelegramEndHandles ==
  ASSUME TypeInv, adapter = "telegram", NEW m \in Message, NEW above
  PROVE  Handles(TelegramEnd(m), m, above)
<1>1. buf \in Buffers
  BY DEF TypeInv
<1>2. PICK compare \in BOOLEAN : compare = TRUE
  OBVIOUS
<1>3. PICK b : b = Ended(m, TRUE)
  OBVIOUS
<1>4. CASE b = None
  <2>1. TelegramEnd(m) = Quietly(buf)
    BY <1>3, <1>4 DEF TelegramEnd
  <2> QED
    BY <2>1, QuietHandles
<1>5. CASE b # None
  <2>1. /\ b \in Buffer /\ b.text # <<>> /\ b.text \in Seq(Nat) /\ b.bubble \in Nat
        /\ b.bubble # 0 /\ (Fits(m, above) => Owns(b, m, above))
    <3>1. b = Ended(m, compare)
      BY <1>2, <1>3
    <3> QED
      BY <1>5, <3>1, EndBuffer
  <2>2. PICK parts : parts = Chunks(b.text, Limit)
    OBVIOUS
  <2>3. PICK more : more = SendsAfter(m, parts)
    OBVIOUS
  <2>4. PICK edit : edit = EditCall(m, b.bubble, parts[1], compare)
    OBVIOUS
  <2>5. PICK previews : previews = PreviewsAfter(m, parts)
    OBVIOUS
  <2>6. /\ Pieces(parts, b.text) /\ Len(parts) \in Nat \ {0}
        /\ parts[Len(parts)] \in Seq(Nat) /\ parts[Len(parts)] # <<>>
        /\ CallsFor(<<edit>>, parts, b)
        /\ Len(<<edit>>) = 1
        /\ \A u \in {more, previews} :
            /\ u \in Seq(Call) /\ Len(u) = Len(parts) - 1
            /\ CallsFor(<<edit>> \o u, parts, b) /\ Len(<<edit>> \o u) = Len(parts)
    BY <2>1, <2>2, <2>3, <2>4, <2>5, SplitCalls
  <2>7. Handles(Try(<<edit>>, Put(m, None), buf), m, above)
    BY <1>1, <2>1, <2>6, DoneHandles
  <2>8. Handles(Try(<<edit>> \o more, Put(m, None), buf), m, above)
    BY <1>1, <2>1, <2>6, DoneHandles
  <2>9. TelegramEnd(m) \subseteq Try(<<edit>>, Put(m, None), buf)
                                 \cup Try(<<edit>> \o more, Put(m, None), buf)
    BY <1>2, <1>3, <1>5, <2>2, <2>3, <2>4 DEF TelegramEnd, SendsAfter
  <2> QED
    BY <2>7, <2>8, <2>9 DEF Handles
<1> QED
  BY <1>4, <1>5

LEMMA DiscordDeltaHandles ==
  ASSUME TypeInv, adapter = "discord", NEW m \in Message, m.kind = "delta", Published(m),
         NEW above
  PROVE  Handles(DiscordDelta(m), m, above)
<1>1. shown \in Seq(Bubble) /\ Len(shown) \in Nat /\ Limit \in Nat
  BY ConstantsAssumption DEF TypeInv, TypeOK
<1>2. PICK compare \in BOOLEAN : compare = TRUE
  OBVIOUS
<1>3. PICK b : b = Buffered(m, TRUE)
  OBVIOUS
<1>4. /\ b \in Buffer /\ b.text # <<>> /\ b.text \in Seq(Nat) /\ b.bubble \in Nat
      /\ Put(m, b) \in Buffers
      /\ Fits(m, above) /\ ~Stuck(b) => Owns(b, m, above)
  <2>1. b = Buffered(m, compare)
    BY <1>2, <1>3
  <2> QED
    BY <2>1, DeltaBuffer
<1>5. PICK lost : lost = Unresolved(shown, Put(m, b))
  OBVIOUS
<1>6. Handles(lost, m, above)
  BY <1>1, <1>4, <1>5, UnresolvedHandles
<1>7. CASE b.bubble = 0 /\ Len(b.text) > Limit
  <2>1. DiscordDelta(m) = lost \cup Refused(Put(m, b))
    BY <1>3, <1>7, <1>5 DEF DiscordDelta
  <2>2. Stuck(b)
    BY <1>7 DEF Stuck
  <2>3. Handles(Refused(Put(m, b)), m, above)
    BY <1>4, <2>2, RefusedHandles
  <2> QED
    BY <1>6, <2>1, <2>3, HandlesBoth
<1>8. CASE b.bubble = 0 /\ ~(Len(b.text) > Limit)
  <2>1. PICK a : a = [b EXCEPT !.bubble = Len(shown) + 1]
    OBVIOUS
  <2>2. PICK c \in Call : c = Preview(m, b.text) /\ c.op = "send" /\ c.text = b.text
    BY <1>4, SendsTyped
  <2>3. DiscordDelta(m) = lost \cup Try(<<c>>, Put(m, a), Put(m, b))
    BY <1>3, <1>8, <1>5, <2>1, <2>2 DEF DiscordDelta
  <2>4. ~Stuck(b)
    BY <1>8 DEF Stuck
  <2>5. /\ Try(<<c>>, Put(m, a), Put(m, b)) \subseteq Outcome
        /\ Fits(m, above) /\ Owns(b, m, above) => Settles(Try(<<c>>, Put(m, a), Put(m, b)), above)
    BY <1>4, <1>8, <2>1, <2>2, FirstBubble
  <2>6. Handles(Try(<<c>>, Put(m, a), Put(m, b)), m, above)
    BY <1>4, <2>4, <2>5, SettlesHandles
  <2> QED
    BY <1>6, <2>3, <2>6, HandlesBoth
<1>9. CASE b.bubble # 0
  <2>1. PICK parts : parts = Chunks(b.text, Limit)
    OBVIOUS
  <2>2. PICK final \in BOOLEAN : final = FALSE
    OBVIOUS
  <2>3. PICK edit : edit = EditCall(m, b.bubble, parts[1], final)
    OBVIOUS
  <2>4. PICK sends : sends = SendsAfter(m, parts)
    OBVIOUS
  <2>5. PICK previews : previews = PreviewsAfter(m, parts)
    OBVIOUS
  <2>6. /\ Pieces(parts, b.text) /\ Len(parts) \in Nat \ {0}
        /\ parts[Len(parts)] \in Seq(Nat) /\ parts[Len(parts)] # <<>>
        /\ CallsFor(<<edit>>, parts, b)
        /\ Len(<<edit>>) = 1
        /\ \A u \in {sends, previews} :
            /\ u \in Seq(Call) /\ Len(u) = Len(parts) - 1
            /\ CallsFor(<<edit>> \o u, parts, b) /\ Len(<<edit>> \o u) = Len(parts)
    BY <1>4, <1>9, <2>1, <2>3, <2>4, <2>5, SplitCalls
  <2>7. PICK calls : calls = <<edit>>
    OBVIOUS
  <2>8. DiscordDelta(m) = lost \cup (Quietly(Put(m, b)) \cup Try(calls, Put(m, b), Put(m, b)))
    BY <1>3, <1>9, <1>5, <2>1, <2>2, <2>3, <2>7 DEF DiscordDelta
  <2>9. CallsFor(calls, parts, b) /\ Len(calls) = 1
    BY <2>6, <2>7
  <2>10. /\ Try(calls, Put(m, b), Put(m, b)) \subseteq Outcome
         /\ Fits(m, above) /\ Owns(b, m, above) => Settles(Try(calls, Put(m, b), Put(m, b)), above)
    BY <1>4, <1>9, <2>6, <2>9, EditKept
  <2>11. Handles(Try(calls, Put(m, b), Put(m, b)), m, above)
    BY <1>4, <1>9, <2>10, SettlesHandles DEF Stuck
  <2>12. Handles(Quietly(Put(m, b)), m, above)
    BY <1>4, <1>9, QuietSettles, SettlesHandles DEF Stuck
  <2>13. Handles(Quietly(Put(m, b)) \cup Try(calls, Put(m, b), Put(m, b)), m, above)
    BY <2>11, <2>12, HandlesBoth
  <2> QED
    BY <1>6, <2>8, <2>13, HandlesBoth
<1> QED
  BY <1>7, <1>8, <1>9

LEMMA DiscordEndHandles ==
  ASSUME TypeInv, adapter = "discord", NEW m \in Message, NEW above
  PROVE  Handles(DiscordEnd(m), m, above)
<1>1. buf \in Buffers
  BY DEF TypeInv
<1>2. PICK compare \in BOOLEAN : compare = TRUE
  OBVIOUS
<1>3. PICK b : b = Ended(m, TRUE)
  OBVIOUS
<1>4. CASE b = None
  <2>1. DiscordEnd(m) = Quietly(buf)
    BY <1>3, <1>4 DEF DiscordEnd
  <2> QED
    BY <2>1, QuietHandles
<1>5. CASE b # None
  <2>1. /\ b \in Buffer /\ b.text # <<>> /\ b.text \in Seq(Nat) /\ b.bubble \in Nat
        /\ b.bubble # 0 /\ (Fits(m, above) => Owns(b, m, above))
    <3>1. b = Ended(m, compare)
      BY <1>2, <1>3
    <3> QED
      BY <1>5, <3>1, EndBuffer
  <2>2. PICK parts : parts = Chunks(b.text, Limit)
    OBVIOUS
  <2>3. PICK more : more = SendsAfter(m, parts)
    OBVIOUS
  <2>4. PICK edit : edit = EditCall(m, b.bubble, parts[1], compare)
    OBVIOUS
  <2>5. PICK previews : previews = PreviewsAfter(m, parts)
    OBVIOUS
  <2>6. /\ Pieces(parts, b.text) /\ Len(parts) \in Nat \ {0}
        /\ parts[Len(parts)] \in Seq(Nat) /\ parts[Len(parts)] # <<>>
        /\ CallsFor(<<edit>>, parts, b)
        /\ Len(<<edit>>) = 1
        /\ \A u \in {more, previews} :
            /\ u \in Seq(Call) /\ Len(u) = Len(parts) - 1
            /\ CallsFor(<<edit>> \o u, parts, b) /\ Len(<<edit>> \o u) = Len(parts)
    BY <2>1, <2>2, <2>3, <2>4, <2>5, SplitCalls
  <2>7. Handles(Try(<<edit>> \o more, Put(m, None), buf), m, above)
    BY <1>1, <2>1, <2>6, DoneHandles
  <2>8. Handles(Unresolved(Perform(shown, edit), Put(m, None)), m, above)
    <3>1. PICK calls : calls = <<edit>>
      OBVIOUS
    <3>2. calls \in Seq(Call) /\ Len(calls) = 1 /\ calls[1] = edit
      BY <2>6, <3>1 DEF CallsFor
    <3>3. PICK c \in Call : c = edit
      <4>2. calls[1] \in Call
        <5>1. 1 \in 1..Len(calls)
          BY <3>2
        <5>2. calls \in Seq(Call)
          BY <3>2
        <5> QED
          BY <5>1, <5>2, ElementOfSeq
      <4> QED
        BY <3>2, <4>2
    <3>4. shown \in Seq(Bubble)
      BY DEF TypeInv, TypeOK
    <3>5. PICK bubbles \in Seq(Bubble) : bubbles = Perform(shown, edit)
      BY <3>3, <3>4, PerformTyped
    <3>6. PICK left \in Buffers : left = Put(m, None)
      BY DropTyped
    <3> QED
      BY <3>5, <3>6, UnresolvedHandles
  <2>9. DiscordEnd(m) = Try(<<edit>> \o more, Put(m, None), buf)
                        \cup Unresolved(Perform(shown, edit), Put(m, None))
    BY <1>2, <1>3, <1>5, <2>2, <2>3, <2>4 DEF DiscordEnd, SendsAfter
  <2> QED
    BY <2>7, <2>8, <2>9, HandlesBoth
<1> QED
  BY <1>4, <1>5

\* Dropping a buffer is in nobody's way.
LEMMA DropSettles ==
  ASSUME TypeInv, NEW m \in Message, NEW above, Settled(shown, buf, above)
  PROVE  Settled(shown, Put(m, None), above)
<1>1. buf \in Buffers
  BY DEF TypeInv
<1>2. PICK k \in Keys : k = Key(m)
  BY KeyIs
<1>3. PICK none \in Buffer \cup {None} : none = None
  OBVIOUS
<1>4. PICK p : p = Put(m, none)
  OBVIOUS
<1>5. p[k] = None /\ \A l \in Keys \ {k} : p[l] = buf[l]
  BY <1>1, <1>2, <1>3, <1>4, PutIs
<1>6. \A l \in Keys : p[l] # None => p[l] = buf[l] /\ buf[l] # None
  BY <1>5
<1>7. \A l \in Keys : Live(p, l) => p[l] = buf[l] /\ Live(buf, l)
  BY <1>6 DEF Live
<1>8. adapter = "websocket" => FramesFirst(shown, p)
  BY <1>6 DEF Settled, FramesFirst
<1>9. Settled(shown, p, above)
  BY <1>7, <1>8 DEF Settled
<1> QED
  BY <1>3, <1>4, <1>9

LEMMA FitsSettled ==
  ASSUME NEW m, NEW above, Fits(m, above)
  PROVE  Settled(shown, buf, above)
<1>1. PICK more : more = Said(m) \cup above
  OBVIOUS
<1>2. Settled(shown, buf, more) /\ above \subseteq more
  BY <1>1 DEF Fits
<1> QED
  BY <1>2, SettledLess

LEMMA DropHandles ==
  ASSUME TypeInv, NEW m \in Message, NEW above
  PROVE  Handles(Quietly(Put(m, None)), m, above)
<1>1. shown \in Seq(Bubble)
  BY DEF TypeInv, TypeOK
<1>2. PICK p \in Buffers : p = Put(m, None)
  BY DropTyped
<1>3. Quietly(p) \subseteq Outcome
  BY <1>1, QuietlyTyped
<1>4. ASSUME Fits(m, above) PROVE Settled(shown, p, above)
  BY <1>2, <1>4, FitsSettled, DropSettles
<1>5. ASSUME Fits(m, above) PROVE \A r \in Quietly(p) : Keeps(m, above, r)
  BY <1>4, <1>5 DEF Quietly, Keeps
<1> QED
  BY <1>2, <1>3, <1>5 DEF Handles

\* One call either succeeds or shows nothing.
OneTried(rs, failed) ==
  \A r \in rs : r.fault = 0 \/ (r.shown = shown /\ r.buf = failed /\ r.ok = FALSE)

LEMMA OneTry ==
  ASSUME NEW calls \in Seq(Call), Len(calls) = 1, NEW done, NEW failed
  PROVE  OneTried(Try(calls, done, failed), failed)
<1>1. \A k \in 0..(Len(calls) - 1) : k = 0
  OBVIOUS
<1>2. After(calls)[0] = shown
  BY AfterFollows
<1>3. ASSUME NEW r \in Try(calls, done, failed)
      PROVE  r.fault = 0 \/ (r.shown = shown /\ r.buf = failed /\ r.ok = FALSE)
  BY <1>1, <1>2, <1>3 DEF Try
<1> QED
  BY <1>3 DEF OneTried

LEMMA UnreportedSettles ==
  ASSUME NEW rs, rs \subseteq Outcome, NEW above, Settles(rs, above)
  PROVE  Settles(Unreported(rs), above)
<1>1. \A r \in rs : /\ [r EXCEPT !.ok = TRUE].fault = r.fault
                    /\ [r EXCEPT !.ok = TRUE].shown = r.shown
                    /\ [r EXCEPT !.ok = TRUE].buf = r.buf
                    /\ [r EXCEPT !.ok = TRUE].ok = TRUE
  BY DEF Outcome
<1>2. ASSUME NEW r \in Unreported(rs), r.fault = 0
      PROVE  r.ok = TRUE /\ Settled(r.shown, r.buf, above)
  <2>1. PICK q \in rs : r = [q EXCEPT !.ok = TRUE]
    BY DEF Unreported
  <2>2. r.fault = q.fault /\ r.shown = q.shown /\ r.buf = q.buf /\ r.ok = TRUE
    BY <1>1, <2>1
  <2>3. Settled(q.shown, q.buf, above)
    BY <1>2, <2>2 DEF Settles
  <2> QED
    BY <2>2, <2>3
<1> QED
  BY <1>2 DEF Settles

LEMMA MatrixDeltaHandles ==
  ASSUME TypeInv, adapter = "matrix", NEW m \in Message, m.kind = "delta", Published(m),
         NEW above
  PROVE  Handles(MatrixDelta(m), m, above)
<1>1. shown \in Seq(Bubble) /\ Len(shown) \in Nat
  BY DEF TypeInv, TypeOK
<1>2. PICK compare \in BOOLEAN : compare = FALSE
  OBVIOUS
<1>3. PICK b : b = Buffered(m, FALSE)
  OBVIOUS
<1>4. /\ b \in Buffer /\ b.text # <<>> /\ b.text \in Seq(Nat) /\ b.bubble \in Nat
      /\ Put(m, b) \in Buffers
      /\ Fits(m, above) => Owns(b, m, above)
  <2>1. b = Buffered(m, compare)
    BY <1>2, <1>3
  <2> QED
    BY <2>1, DeltaBuffer DEF Stuck
<1>5. /\ Quietly(Put(m, b)) \subseteq Outcome
      /\ Fits(m, above) => Settled(shown, Put(m, b), above)
  BY <1>4, QuietSettles
<1>6. Fits(m, above) => \A r \in Quietly(Put(m, b)) : Keeps(m, above, r)
  BY <1>5 DEF Quietly, Keeps
<1>7. ASSUME NEW calls \in Seq(Call), Len(calls) = 1, NEW done,
             Try(calls, done, Put(m, b)) \subseteq Outcome,
             Fits(m, above) => Settles(Try(calls, done, Put(m, b)), above)
      PROVE  Handles(Unreported(Try(calls, done, Put(m, b))), m, above)
  <2>1. PICK rs : rs = Try(calls, done, Put(m, b))
    OBVIOUS
  <2>2. rs \subseteq Outcome /\ Unreported(rs) \subseteq Outcome
    BY <1>7, <2>1, UnreportedTyped
  <2>3. ASSUME Fits(m, above), NEW r \in rs PROVE Settled(r.shown, r.buf, above)
    <3>1. CASE r.fault = 0
      BY <1>7, <2>1, <2>3, <3>1 DEF Settles
    <3>2. CASE r.shown = shown /\ r.buf = Put(m, b)
      BY <1>5, <2>3, <3>2
    <3>3. r \in Try(calls, done, Put(m, b))
      BY <2>1, <2>3
    <3>4. r.fault = 0 \/ (r.shown = shown /\ r.buf = Put(m, b) /\ r.ok = FALSE)
      <4>1. OneTried(Try(calls, done, Put(m, b)), Put(m, b))
        BY <1>7, OneTry
      <4> QED
        BY <3>3, <4>1 DEF OneTried
    <3> QED
      BY <3>1, <3>2, <3>4
  <2>4. \A r \in rs : /\ [r EXCEPT !.ok = TRUE].shown = r.shown
                      /\ [r EXCEPT !.ok = TRUE].buf = r.buf
                      /\ [r EXCEPT !.ok = TRUE].ok = TRUE
    BY <2>2 DEF Outcome
  <2>5. ASSUME Fits(m, above), NEW r \in Unreported(rs) PROVE Keeps(m, above, r)
    <3>1. PICK q \in rs : r = [q EXCEPT !.ok = TRUE]
      BY <2>5 DEF Unreported
    <3>2. r.shown = q.shown /\ r.buf = q.buf /\ r.ok = TRUE
      BY <2>4, <3>1
    <3>3. Settled(q.shown, q.buf, above)
      BY <2>3, <2>5
    <3> QED
      BY <3>2, <3>3 DEF Keeps
  <2>6. Handles(Unreported(rs), m, above)
    BY <2>2, <2>5 DEF Handles
  <2> QED
    BY <2>1, <2>6
<1>8. CASE b.bubble = 0
  <2>1. PICK a : a = [b EXCEPT !.bubble = Len(shown) + 1]
    OBVIOUS
  <2>2. PICK c \in Call : c = Preview(m, b.text) /\ c.op = "send" /\ c.text = b.text
    BY <1>4, SendsTyped
  <2>3. PICK calls : calls = <<c>>
    OBVIOUS
  <2>4. calls \in Seq(Call) /\ Len(calls) = 1
    BY <2>3
  <2>5. a = [b EXCEPT !.bubble = IF @ = 0 THEN Len(shown) + 1 ELSE @]
    BY <1>4, <1>8, <2>1 DEF Buffer
  <2>6. MatrixDelta(m) = Unreported(Try(calls, Put(m, a), Put(m, b)))
    BY <1>3, <1>8, <2>2, <2>3, <2>5 DEF MatrixDelta
  <2>7. /\ Try(calls, Put(m, a), Put(m, b)) \subseteq Outcome
        /\ Fits(m, above) /\ Owns(b, m, above) => Settles(Try(calls, Put(m, a), Put(m, b)), above)
    BY <1>4, <1>8, <2>1, <2>2, <2>3, FirstBubble
  <2> QED
    BY <1>4, <1>7, <2>4, <2>6, <2>7
<1>9. CASE b.bubble # 0
  <2>1. PICK final \in BOOLEAN : final = FALSE
    OBVIOUS
  <2>2. PICK at \in Nat : at = b.bubble
    BY <1>4
  <2>3. PICK c \in Call : c = EditCall(m, at, b.text, final) /\ c.op = "edit" /\ c.at = at /\ c.text = b.text
    <3>1. PICK t \in Seq(Nat) : t = b.text
      BY <1>4
    <3>2. PICK c : c = EditCall(m, at, t, final)
      OBVIOUS
    <3>3. c \in Call /\ c.op = "edit" /\ c.at = at /\ c.text = t
      BY <3>2, CallsTyped
    <3> QED
      BY <3>1, <3>2, <3>3
  <2>4. PICK calls : calls = <<c>>
    OBVIOUS
  <2>5. calls \in Seq(Call) /\ Len(calls) = 1
    BY <2>4
  <2>6. b = [b EXCEPT !.bubble = IF @ = 0 THEN Len(shown) + 1 ELSE @]
    BY <1>4, <1>9 DEF Buffer
  <2>7. MatrixDelta(m) = Quietly(Put(m, b)) \cup Unreported(Try(calls, Put(m, b), Put(m, b)))
    BY <1>3, <1>9, <2>1, <2>2, <2>3, <2>4, <2>6 DEF MatrixDelta
  <2>8. Pieces(<<b.text>>, b.text) /\ CallsFor(calls, <<b.text>>, b)
    BY <1>4, <1>9, <2>2, <2>3, <2>4, OneCall
  <2>9. /\ Try(calls, Put(m, b), Put(m, b)) \subseteq Outcome
        /\ Fits(m, above) /\ Owns(b, m, above) => Settles(Try(calls, Put(m, b), Put(m, b)), above)
    BY <1>4, <1>9, <2>5, <2>8, EditKept
  <2>10. Handles(Unreported(Try(calls, Put(m, b), Put(m, b))), m, above)
    BY <1>4, <1>7, <2>5, <2>9
  <2>11. Handles(Quietly(Put(m, b)), m, above)
    BY <1>5, <1>6 DEF Handles
  <2> QED
    BY <2>7, <2>10, <2>11, HandlesBoth
<1> QED
  BY <1>8, <1>9

LEMMA MatrixEndHandles ==
  ASSUME TypeInv, adapter = "matrix", NEW m \in Message, NEW above
  PROVE  Handles(MatrixEnd(m), m, above)
<1>1. PICK compare \in BOOLEAN : compare = FALSE
  OBVIOUS
<1>2. PICK b : b = Ended(m, FALSE)
  OBVIOUS
<1>3. CASE b = None
  <2>1. MatrixEnd(m) = Quietly(Put(m, None))
    BY <1>2, <1>3 DEF MatrixEnd
  <2> QED
    BY <2>1, DropHandles
<1>4. CASE b # None
  <2>1. /\ b \in Buffer /\ b.text # <<>> /\ b.text \in Seq(Nat) /\ b.bubble \in Nat
        /\ b.bubble # 0 /\ (Fits(m, above) => Owns(b, m, above))
    <3>1. b = Ended(m, compare)
      BY <1>1, <1>2
    <3> QED
      BY <1>4, <3>1, EndBuffer
  <2>2. PICK final \in BOOLEAN : final = TRUE
    OBVIOUS
  <2>3. PICK c \in Call : c = EditCall(m, b.bubble, b.text, final) /\ c.op = "edit" /\ c.at = b.bubble /\ c.text = b.text
    <3>1. PICK t \in Seq(Nat) : t = b.text
      BY <2>1
    <3>2. PICK at \in Nat : at = b.bubble
      BY <2>1
    <3>3. PICK c : c = EditCall(m, at, t, final)
      OBVIOUS
    <3>4. c \in Call /\ c.op = "edit" /\ c.at = at /\ c.text = t
      BY <3>3, CallsTyped
    <3> QED
      BY <3>1, <3>2, <3>3, <3>4
  <2>4. PICK calls : calls = <<c>>
    OBVIOUS
  <2>5. calls \in Seq(Call) /\ Len(calls) = 1
    BY <2>4
  <2>6. Pieces(<<b.text>>, b.text) /\ CallsFor(calls, <<b.text>>, b)
    BY <2>1, <2>3, <2>4, OneCall
  <2>7. PICK left \in Buffers : left = Put(m, None)
    BY DropTyped
  <2>8. MatrixEnd(m) = Try(calls, left, left)
    BY <1>2, <1>4, <2>2, <2>3, <2>4, <2>7 DEF MatrixEnd
  <2>9. /\ Try(calls, left, left) \subseteq Outcome
        /\ Fits(m, above) /\ Owns(b, m, above) => Settles(Try(calls, left, left), above)
    <3>1. PICK done \in Buffer \cup {None} : done = None
      OBVIOUS
    <3>2. PICK t : t = After(calls)[Len(calls)]
      OBVIOUS
    <3>3. /\ Try(calls, Put(m, done), left) \subseteq Outcome
          /\ Fits(m, above) /\ Owns(b, m, above) => Settles(Try(calls, Put(m, done), left), above)
      BY <2>1, <2>6, <3>1, <3>2, TrySettles
    <3> QED
      BY <2>7, <3>1, <3>3
  <2>10. ASSUME Fits(m, above), NEW r \in Try(calls, left, left) PROVE Keeps(m, above, r)
    <3>1. CASE r.fault = 0
      BY <2>1, <2>9, <2>10, <3>1 DEF Settles, Keeps
    <3>2. CASE r.shown = shown /\ r.buf = left /\ r.ok = FALSE
      <4>1. PICK more : more = Said(m) \cup above
        OBVIOUS
      <4>2. Settled(shown, buf, more)
        BY <2>10, <4>1 DEF Fits
      <4>3. Settled(shown, left, more)
        BY <2>7, <4>2, DropSettles
      <4> QED
        BY <3>2, <4>1, <4>3 DEF Keeps
    <3>3. r.fault = 0 \/ (r.shown = shown /\ r.buf = left /\ r.ok = FALSE)
      <4>1. OneTried(Try(calls, left, left), left)
        BY <2>5, OneTry
      <4> QED
        BY <2>10, <4>1 DEF OneTried
    <3> QED
      BY <3>1, <3>2, <3>3
  <2> QED
    BY <2>8, <2>9, <2>10 DEF Handles
<1> QED
  BY <1>3, <1>4

LEMMA FeishuDeltaHandles ==
  ASSUME TypeInv, adapter = "feishu", NEW m \in Message, m.kind = "delta", Published(m),
         NEW above
  PROVE  Handles(FeishuDelta(m), m, above)
<1>1. shown \in Seq(Bubble) /\ Len(shown) \in Nat /\ buf \in Buffers
  BY DEF TypeInv, TypeOK
<1>2. PICK compare \in BOOLEAN : compare = FALSE
  OBVIOUS
<1>3. PICK b : b = Buffered(m, FALSE)
  OBVIOUS
<1>4. /\ b \in Buffer /\ b.text # <<>> /\ b.text \in Seq(Nat) /\ b.bubble \in Nat
      /\ Put(m, b) \in Buffers
      /\ Fits(m, above) => Owns(b, m, above)
  <2>1. b = Buffered(m, compare)
    BY <1>2, <1>3
  <2> QED
    BY <2>1, DeltaBuffer DEF Stuck
<1>5. CASE b.bubble = 0
  <2>1. PICK a : a = [b EXCEPT !.bubble = Len(shown) + 1]
    OBVIOUS
  <2>2. PICK c \in Call : c = Preview(m, b.text) /\ c.op = "send" /\ c.text = b.text
    BY <1>4, SendsTyped
  <2>3. PICK card : card = Try(<<c>>, Put(m, a), Put(m, b))
    OBVIOUS
  <2>4. PICK empty \in Call : empty = Preview(m, <<>>)
    <3>1. PICK t \in Seq(Nat) : t = <<>>
      BY EmptySeq
    <3> QED
      BY <3>1, SendsTyped
  <2>5. PICK blank : blank = [shown |-> Perform(shown, empty), buf |-> Put(m, a),
                              fault |-> 1, ok |-> FALSE]
    OBVIOUS
  <2>6. FeishuCard(m, b) = card \cup {blank}
    BY <2>1, <2>2, <2>3, <2>4, <2>5 DEF FeishuCard
  <2>7. FeishuDelta(m) = Unreported(card \cup {blank})
    BY <1>3, <1>5, <2>6 DEF FeishuDelta
  <2>8. /\ card \subseteq Outcome
        /\ Fits(m, above) /\ Owns(b, m, above) => Settles(card, above)
    BY <1>4, <1>5, <2>1, <2>2, <2>3, FirstBubble
  <2>9. a \in Buffer /\ a.text # <<>>
    <3>0. PICK y \in Nat : y = Len(shown) + 1
      BY <1>1
    <3>1. a \in Buffer /\ a.text = b.text
      BY <1>4, <2>1, <3>0 DEF Buffer
    <3> QED
      BY <1>4, <3>1
  <2>10. Put(m, a) \in Buffers
    BY <1>1, <2>9, PutIs
  <2>11. blank \in Outcome /\ blank.fault # 0
    <3>1. PICK s \in Seq(Bubble) : s = Perform(shown, empty)
      BY <1>1, PerformTyped
    <3> QED
      BY <2>5, <2>10, <3>1 DEF Outcome
  <2>12. PICK rs : rs = card \cup {blank}
    OBVIOUS
  <2>13. rs \subseteq Outcome /\ (Fits(m, above) => Settles(rs, above))
    BY <1>4, <2>8, <2>11, <2>12 DEF Settles
  <2>14. Unreported(rs) \subseteq Outcome /\ (Fits(m, above) => Settles(Unreported(rs), above))
    BY <2>13, UnreportedTyped, UnreportedSettles
  <2> QED
    BY <2>7, <2>12, <2>14, SettlesHandles
<1>6. CASE b.bubble # 0
  <2>1. PICK final \in BOOLEAN : final = FALSE
    OBVIOUS
  <2>2. PICK c \in Call : c = EditCall(m, b.bubble, b.text, final) /\ c.op = "edit" /\ c.at = b.bubble /\ c.text = b.text
    <3>1. PICK t \in Seq(Nat) : t = b.text
      BY <1>4
    <3>2. PICK at \in Nat : at = b.bubble
      BY <1>4
    <3>3. PICK c : c = EditCall(m, at, t, final)
      OBVIOUS
    <3>4. c \in Call /\ c.op = "edit" /\ c.at = at /\ c.text = t
      BY <3>3, CallsTyped
    <3> QED
      BY <3>1, <3>2, <3>3, <3>4
  <2>3. PICK calls : calls = <<c>>
    OBVIOUS
  <2>4. Len(calls) = 1
    BY <2>3
  <2>5. PICK rs : rs = Try(calls, Put(m, b), Put(m, b))
    OBVIOUS
  <2>6. FeishuDelta(m) = Quietly(Put(m, b)) \cup Unreported(rs)
    BY <1>3, <1>6, <2>1, <2>2, <2>3, <2>5 DEF FeishuDelta
  <2>7. Pieces(<<b.text>>, b.text) /\ CallsFor(calls, <<b.text>>, b)
    BY <1>4, <1>6, <2>2, <2>3, OneCall
  <2>8. rs \subseteq Outcome /\ (Fits(m, above) /\ Owns(b, m, above) => Settles(rs, above))
    BY <1>4, <1>6, <2>4, <2>5, <2>7, EditKept
  <2>9. Unreported(rs) \subseteq Outcome /\ (Fits(m, above) => Settles(Unreported(rs), above))
    BY <1>4, <2>8, UnreportedTyped, UnreportedSettles
  <2>10. Handles(Unreported(rs), m, above)
    BY <2>9, SettlesHandles
  <2>11. Handles(Quietly(Put(m, b)), m, above)
    BY <1>4, QuietSettles, SettlesHandles
  <2> QED
    BY <2>6, <2>10, <2>11, HandlesBoth
<1> QED
  BY <1>5, <1>6

LEMMA FeishuEndHandles ==
  ASSUME TypeInv, adapter = "feishu", NEW m \in Message, NEW above
  PROVE  Handles(FeishuEnd(m), m, above)
<1>1. shown \in Seq(Bubble) /\ buf \in Buffers
  BY DEF TypeInv, TypeOK
<1>2. PICK left \in Buffers : left = Put(m, None)
  BY DropTyped
<1>3. PICK b : b = buf[Key(m)]
  OBVIOUS
<1>4. CASE b = None
  <2>1. FeishuEnd(m) = Quietly(left)
    BY <1>2, <1>3, <1>4 DEF FeishuEnd
  <2> QED
    BY <1>2, <2>1, DropHandles
<1>5. CASE b # None
  <2>1. b \in Buffer /\ b.text # <<>> /\ b.text \in Seq(Nat) /\ b.bubble \in Nat
    <3>1. PICK k \in Keys : k = Key(m)
      BY KeyIs
    <3>2. b \in Buffer /\ b.text # <<>>
      BY <1>1, <1>3, <1>5, <3>1 DEF Buffers
    <3> QED
      BY <3>2 DEF Buffer, Parts
  <2>2. Fits(m, above) => Owns(b, m, above)
    BY <1>3, <1>5, OwnsEnd DEF Stuck
  <2>3. PICK c \in Call : c = SendCall(m, b.text) /\ c.op = "send" /\ c.text = b.text
    BY <2>1, SendsTyped
  <2>4. PICK sent : sent = Try(<<c>>, left, left)
    OBVIOUS
  <2>5. sent \subseteq Outcome /\ Unreported(sent) \subseteq Outcome
    <3>1. PICK calls : calls = <<c>>
      OBVIOUS
    <3>2. calls \in Seq(Call)
      BY <3>1
    <3>3. Try(calls, left, left) \subseteq Outcome
      BY <1>1, <3>2, TryTyped
    <3> QED
      BY <2>4, <3>1, <3>3, UnreportedTyped
  <2>6. CASE b.bubble = 0
    <3>1. FeishuEnd(m) = Unreported(sent)
      BY <1>2, <1>3, <1>5, <2>3, <2>4, <2>6 DEF FeishuEnd
    <3>2. PICK calls : calls = <<c>>
      OBVIOUS
    <3>3. Pieces(<<b.text>>, b.text) /\ CallsFor(calls, <<b.text>>, b)
      BY <2>1, <2>3, <2>6, <3>2, OneCall
    <3>4. Fits(m, above) => Settles(Try(calls, Put(m, None), left), above)
      BY <2>1, <2>2, <3>3, DoneHandles
    <3>5. Fits(m, above) => Settles(Unreported(sent), above)
      BY <1>2, <2>4, <2>5, <3>2, <3>4, UnreportedSettles
    <3> QED
      BY <2>5, <3>1, <3>5, SettlesHandles
  <2>7. CASE b.bubble # 0
    <3>1. PICK final \in BOOLEAN : final = TRUE
      OBVIOUS
    <3>2. PICK e \in Call : e = EditCall(m, b.bubble, b.text, final) /\ e.op = "edit" /\ e.at = b.bubble /\ e.text = b.text
      <4>1. PICK t \in Seq(Nat) : t = b.text
        BY <2>1
      <4>2. PICK at \in Nat : at = b.bubble
        BY <2>1
      <4>3. PICK e : e = EditCall(m, at, t, final)
        OBVIOUS
      <4>4. e \in Call /\ e.op = "edit" /\ e.at = at /\ e.text = t
        BY <4>3, CallsTyped
      <4> QED
        BY <4>1, <4>2, <4>3, <4>4
    <3>3. PICK calls : calls = <<e>>
      OBVIOUS
    <3>4. Pieces(<<b.text>>, b.text) /\ CallsFor(calls, <<b.text>>, b)
      BY <2>1, <2>7, <3>2, <3>3, OneCall
    <3>5. /\ Try(calls, Put(m, None), left) \subseteq Outcome
          /\ Fits(m, above) => Settles(Try(calls, Put(m, None), left), above)
      BY <2>1, <2>2, <3>4, DoneHandles
    <3>6. PICK updated : updated = {r \in Try(calls, left, left) : r.ok}
      OBVIOUS
    <3>7. PICK instead : instead = {[r EXCEPT !.fault = @ + 1] : r \in Unreported(sent)}
      OBVIOUS
    <3>8. FeishuEnd(m) = updated \cup instead
      BY <1>2, <1>3, <1>5, <2>3, <2>4, <2>7, <3>1, <3>2, <3>3, <3>6, <3>7 DEF FeishuEnd
    <3>9. updated \subseteq Outcome /\ (Fits(m, above) => Settles(updated, above))
      BY <1>2, <3>5, <3>6 DEF Settles
    <3>10. ASSUME NEW r \in instead PROVE r \in Outcome /\ r.fault # 0
      <4>1. PICK q \in Unreported(sent) : r = [q EXCEPT !.fault = @ + 1]
        BY <3>7, <3>10
      <4>2. q \in Outcome
        BY <2>5
      <4>3. PICK f \in Nat : f = q.fault + 1 /\ f # 0
        BY <4>2 DEF Outcome
      <4>4. r = [q EXCEPT !.fault = f]
        BY <4>1, <4>2, <4>3 DEF Outcome
      <4> QED
        BY <4>2, <4>3, <4>4 DEF Outcome
    <3>11. updated \cup instead \subseteq Outcome /\ (Fits(m, above) => Settles(updated \cup instead, above))
      BY <3>9, <3>10 DEF Settles
    <3> QED
      BY <3>8, <3>11, SettlesHandles
  <2> QED
    BY <2>6, <2>7
<1> QED
  BY <1>4, <1>5

-----------------------------------------------------------------------------
(***************************************************************************)
(* Messages sent whole                                                     *)
(***************************************************************************)

\* Each call sends a part, and no buffer is touched.
LEMMA PlainCallsHandle ==
  ASSUME TypeInv, NEW m \in Message, NEW above, Published(m), m.kind = "plain",
         NEW parts, Pieces(parts, m.text), NEW calls \in Seq(Call), Len(calls) = Len(parts),
         \A i \in 1..Len(parts) : /\ calls[i].op = "send" /\ calls[i].text = parts[i]
                                  /\ calls[i].stream = None,
         adapter = "matrix" => Len(parts) = 1
  PROVE  /\ Handles(Try(calls, buf, buf), m, above)
         /\ Try(calls, buf, buf) \subseteq Outcome
         /\ Fits(m, above) => Settles(Try(calls, buf, buf), above)
<1>1. shown \in Seq(Bubble) /\ buf \in Buffers /\ Len(shown) \in Nat
  BY DEF TypeInv, TypeOK
<1>2. Try(calls, buf, buf) \subseteq Outcome
  BY <1>1, TryTyped
<1>3. PICK n \in Nat : n = Len(parts)
  BY DEF Pieces
<1>4. PICK base : base = After(calls)[0]
  OBVIOUS
<1>5. PICK t : t = After(calls)[Len(calls)]
  OBVIOUS
<1>6. base = shown
  BY <1>4, AfterFollows
<1>7. /\ t \in Seq(Bubble) /\ Len(t) = Len(shown) + n
      /\ \A i \in 1..Len(shown) : t[i] = shown[i]
      /\ \A j \in 1..n : t[Len(shown) + j].text = parts[j] /\ t[Len(shown) + j].stream = None
  <2>1. PICK p \in 0..Len(calls) : p = 0
    BY <1>3
  <2>2. \A i \in (p + 1)..Len(calls) : calls[i].op = "send"
    BY <2>1
  <2>3. Sent(After(calls)[Len(calls)], After(calls)[p], calls, p, Len(calls) - p)
    BY <1>1, <2>2, SendsShow
  <2>4. PICK len \in Nat : len = Len(calls) - p /\ len = n
    BY <1>3, <2>1
  <2>5. Sent(t, shown, calls, p, n)
    BY <1>4, <1>5, <1>6, <2>1, <2>3, <2>4
  <2>6. \A j \in 1..n : p + j = j /\ calls[j].text = parts[j] /\ calls[j].stream = None
    BY <1>3, <2>1
  <2> QED
    BY <2>5, <2>6 DEF Sent
<1>8. ASSUME Fits(m, above) PROVE Settled(t, buf, above)
  <2>1. PICK P : P = Range(m.text)
    OBVIOUS
  <2>2. Said(m) = P /\ Rising(m.text)
    BY <1>8, <2>1 DEF Said, Told, Fits
  <2>3. PICK more : more = Said(m) \cup above
    OBVIOUS
  <2>4. Settled(shown, buf, more) /\ above \subseteq more /\ Below(P, above)
    BY <1>8, <2>2, <2>3 DEF Fits
  <2>5. /\ \A i \in 1..Len(shown) : Range(shown[i].text) \cap P = {}
        /\ \A l \in Keys : Live(buf, l) => Range(buf[l].text) \cap P = {}
    BY <1>8, <2>2, NewText
  <2>6. PICK x \in 0..Len(shown) : x = 0
    BY <1>1
  <2>7. ASSUME NEW i \in 1..Len(t), i > Len(shown)
        PROVE  i - Len(shown) \in 1..n /\ t[i].text = parts[i - Len(shown)] /\ t[i].stream = None
    <3>1. PICK j \in 1..n : j = i - Len(shown)
      <4>1. PICK len \in Nat : len = Len(shown)
        BY <1>1
      <4>2. i \in 1..(len + n) /\ i > len
        BY <1>7, <2>7, <4>1
      <4>3. i - len \in 1..n
        BY <4>2
      <4> QED
        BY <4>1, <4>3
    <3>2. Len(shown) + j = i
      BY <1>1, <3>1
    <3> QED
      BY <1>7, <3>1, <3>2
  <2>8. BubblesFrom(shown, t, x, P)
    <3>1. Len(shown) <= Len(t)
      BY <1>1, <1>7
    <3>2. \A i \in 1..Len(shown) : t[i].text = shown[i].text /\ Range(shown[i].text) \cap P = {}
      BY <1>7, <2>5
    <3>3. ASSUME NEW i \in 1..Len(t), i > Len(shown)
          PROVE  /\ Rising(t[i].text) /\ Range(t[i].text) \subseteq P
                 /\ \A j \in 1..Len(t) : j > Len(shown) /\ i # j =>
                      Range(t[i].text) \cap Range(t[j].text) = {}
      <4>1. PICK k \in 1..Len(parts) : k = i - Len(shown) /\ t[i].text = parts[k]
        BY <1>3, <2>7, <3>3
      <4>2. Rising(parts[k]) /\ Range(parts[k]) \subseteq P
        BY <2>1, <2>2 DEF Pieces
      <4>3. ASSUME NEW j \in 1..Len(t), j > Len(shown), i # j
            PROVE  Range(t[i].text) \cap Range(t[j].text) = {}
        <5>1. PICK l \in 1..Len(parts) : l = j - Len(shown) /\ t[j].text = parts[l]
          BY <1>3, <2>7, <4>3
        <5>2. k # l
          BY <1>1, <4>1, <4>3, <5>1
        <5>3. Range(parts[k]) \cap Range(parts[l]) = {}
          BY <2>2, <5>2, PiecesApart
        <5> QED
          BY <4>1, <5>1, <5>3
      <4> QED
        BY <4>1, <4>2, <4>3
    <3>4. \A i \in 1..Len(t) : i # x
      BY <2>6
    <3> QED
      BY <3>1, <3>2, <3>3, <3>4 DEF BubblesFrom
  <2>9. \A key : BuffersFrom(shown, t, buf, buf, x, P, key)
    BY <2>5, <2>6 DEF BuffersFrom
  <2>10. OnlyPlain(shown, t, buf, buf, x)
    <3>1. \A i \in 1..Len(t) : IF i <= Len(shown) THEN t[i] = shown[i] ELSE t[i].stream = None
      BY <1>1, <1>7, <2>7
    <3> QED
      BY <2>6, <3>1 DEF OnlyPlain
  <2> QED
    BY <1>1, <1>7, <2>4, <2>8, <2>9, <2>10, Changed
<1>9. ASSUME Fits(m, above), NEW r \in Try(calls, buf, buf), r.fault = 0
      PROVE  r.ok = TRUE /\ Settled(r.shown, r.buf, above)
  <2>1. r.shown = After(calls)[Len(calls)] /\ r.buf = buf /\ r.ok = TRUE
    BY <1>9, TryWithoutFault, Zenon
  <2> QED
    BY <1>5, <1>8, <1>9, <2>1
<1>10. Fits(m, above) => Settles(Try(calls, buf, buf), above)
  BY <1>9 DEF Settles
<1>11. ASSUME Fits(m, above), NEW r \in Try(calls, buf, buf) PROVE Keeps(m, above, r)
  <2>1. CASE r.fault = 0
    BY <1>9, <1>11, <2>1 DEF Keeps
  <2>2. CASE r.fault # 0 /\ adapter = "matrix"
    <3>1. OneTried(Try(calls, buf, buf), buf)
      BY <2>2, OneTry
    <3>2. r.shown = shown /\ r.buf = buf /\ r.ok = FALSE
      BY <1>11, <2>2, <3>1 DEF OneTried
    <3> QED
      BY <1>11, <3>2 DEF Keeps, Fits
  <2>3. CASE r.fault # 0 /\ adapter # "matrix"
    BY <2>3 DEF Keeps, Counted
  <2> QED
    BY <2>1, <2>2, <2>3
<1> QED
  BY <1>2, <1>10, <1>11 DEF Handles

\* The calls of a plain message.
PlainCalls(m, parts, calls) ==
  /\ Pieces(parts, m.text) /\ (adapter = "matrix" => Len(parts) = 1)
  /\ calls \in Seq(Call) /\ Len(calls) = Len(parts)
  /\ \A i \in 1..Len(parts) : /\ calls[i].op = "send" /\ calls[i].text = parts[i]
                              /\ calls[i].stream = None
  /\ adapter = "feishu" => Plain(m) = Unreported(Try(calls, buf, buf))
  /\ adapter = "discord" => Plain(m) = Try(calls, buf, buf) \cup Unresolved(shown, buf)
  /\ adapter \notin {"feishu", "discord"} => Plain(m) = Try(calls, buf, buf)

LEMMA PlainIs ==
  ASSUME NEW m \in Message, Published(m), m.kind = "plain"
  PROVE  \E parts, calls : PlainCalls(m, parts, calls)
<1>1. m.text \in Seq(Nat) /\ m.stream = None /\ Limit \in Nat \ {0} /\ Chunk \in Nat \ {0}
  BY ConstantsAssumption DEF Message, Parts, Published
<1>2. PICK parts : parts = CASE adapter \in {"matrix", "feishu"} -> <<m.text>>
                             [] adapter = "websocket" -> Chunks(m.text, Chunk)
                             [] OTHER -> Chunks(m.text, Limit)
  OBVIOUS
<1>3. Pieces(parts, m.text) /\ (adapter = "matrix" => Len(parts) = 1)
  <2>1. CASE adapter \in {"matrix", "feishu"}
    <3>1. PICK text \in Seq(Nat) : text = m.text
      BY <1>1
    <3>2. PICK p : p = <<text>>
      OBVIOUS
    <3>3. p \in Seq(Seq(Nat)) /\ Len(p) = 1 /\ p[1] = text /\ \A i \in 1..1 : i = 1
      BY <3>2
    <3>4. Range(text) = UNION {Range(p[i]) : i \in 1..1}
      BY <3>3
    <3>5. Pieces(p, text)
      BY <3>3, <3>4 DEF Pieces
    <3>6. parts = p
      BY <1>2, <2>1, <3>1, <3>2
    <3> QED
      BY <3>1, <3>3, <3>5, <3>6
  <2>2. CASE adapter = "websocket"
    <3>1. PICK size \in Nat \ {0} : size = Chunk
      BY <1>1
    <3>2. parts = Chunks(m.text, size)
      BY <1>2, <2>2, <3>1
    <3> QED
      BY <1>1, <2>2, <3>2, ChunksAre
  <2>3. CASE adapter \notin {"matrix", "feishu", "websocket"}
    <3>1. PICK size \in Nat \ {0} : size = Limit
      BY <1>1
    <3>2. parts = Chunks(m.text, size)
      BY <1>2, <2>3, <3>1
    <3> QED
      BY <1>1, <2>3, <3>2, ChunksAre
  <2> QED
    BY <2>1, <2>2, <2>3
<1>4. PICK n \in Nat : n = Len(parts)
  BY <1>3 DEF Pieces
<1>5. PICK calls : calls = [i \in 1..Len(parts) |-> SendCall(m, parts[i])]
  OBVIOUS
<1>6. calls = [i \in 1..n |-> SendCall(m, parts[i])] /\ \A i \in 1..n : parts[i] \in Seq(Nat)
  BY <1>3, <1>4, <1>5 DEF Pieces
<1>7. \A i \in 1..n : /\ calls[i] \in Call /\ calls[i].op = "send" /\ calls[i].text = parts[i]
                      /\ calls[i].stream = None
  <2> TAKE i \in 1..n
  <2>1. PICK t \in Seq(Nat) : t = parts[i]
    BY <1>6
  <2>2. calls[i] = SendCall(m, t)
    BY <1>6, <2>1
  <2> QED
    BY <1>1, <2>1, <2>2, SendsTyped
<1>8. calls \in Seq(Call) /\ Len(calls) = Len(parts)
  BY <1>4, <1>6, <1>7
<1>9. /\ adapter = "feishu" => Plain(m) = Unreported(Try(calls, buf, buf))
      /\ adapter = "discord" => Plain(m) = Try(calls, buf, buf) \cup Unresolved(shown, buf)
      /\ adapter \notin {"feishu", "discord"} => Plain(m) = Try(calls, buf, buf)
  BY <1>2, <1>5 DEF Plain
<1>10. \A i \in 1..Len(parts) : /\ calls[i].op = "send" /\ calls[i].text = parts[i]
                               /\ calls[i].stream = None
  BY <1>4, <1>7
<1> QED
  BY <1>3, <1>8, <1>9, <1>10 DEF PlainCalls

LEMMA PlainHandles ==
  ASSUME TypeInv, NEW m \in Message, NEW above, Published(m), m.kind = "plain"
  PROVE  Handles(Plain(m), m, above)
<1>1. PICK parts, calls : PlainCalls(m, parts, calls)
  BY PlainIs
<1>2. PICK sent : sent = Try(calls, buf, buf)
  OBVIOUS
<1>3. /\ Handles(sent, m, above) /\ sent \subseteq Outcome
      /\ Fits(m, above) => Settles(sent, above)
  BY <1>1, <1>2, PlainCallsHandle DEF PlainCalls
<1>4. /\ adapter = "feishu" => Plain(m) = Unreported(sent)
      /\ adapter = "discord" => Plain(m) = sent \cup Unresolved(shown, buf)
      /\ adapter \notin {"feishu", "discord"} => Plain(m) = sent
  BY <1>1, <1>2 DEF PlainCalls
<1>5. CASE adapter = "feishu"
  <2>1. Unreported(sent) \subseteq Outcome /\ (Fits(m, above) => Settles(Unreported(sent), above))
    BY <1>3, UnreportedTyped, UnreportedSettles
  <2> QED
    BY <1>4, <1>5, <2>1, SettlesHandles
<1>6. CASE adapter = "discord"
  <2>1. shown \in Seq(Bubble) /\ buf \in Buffers
    BY DEF TypeInv, TypeOK
  <2>2. Handles(Unresolved(shown, buf), m, above)
    BY <1>6, <2>1, UnresolvedHandles
  <2> QED
    BY <1>3, <1>4, <1>6, <2>2, HandlesBoth
<1> QED
  BY <1>3, <1>4, <1>5, <1>6


-----------------------------------------------------------------------------
(***************************************************************************)
(* WebSocket frames                                                        *)
(***************************************************************************)

\* The frames that remain, and the text behind them, come after what the stream
\* has shown.
FramesShown(t, calls, n, m, P, rest) ==
  /\ t \in Seq(Bubble) /\ Apart(t)
  /\ \A i \in 1..Len(t) :
       LET own == t[i].chat = m.chat /\ t[i].stream = m.stream
       IN /\ own => /\ \A j \in (n + 1)..Len(calls) :
                         Below(Range(t[i].text), Range(calls[j].text))
                    /\ Below(Range(t[i].text), rest)
          /\ ~own => i \in 1..Len(shown) /\ t[i] = shown[i]
          /\ Range(t[i].text) \subseteq PartsOf(shown) \cup P

LEMMA FramesFollow ==
  ASSUME shown \in Seq(Bubble), Apart(shown), NEW m \in Message, m.stream \in Streams,
         NEW P, P \subseteq Nat, NEW rest, rest \subseteq Nat,
         \A i \in 1..Len(shown) : Range(shown[i].text) \cap P = {},
         NEW calls \in Seq(Call),
         \A j \in 1..Len(calls) :
           /\ calls[j].op = "frame" /\ calls[j].chat = m.chat /\ calls[j].stream = m.stream
           /\ Rising(calls[j].text) /\ Range(calls[j].text) \subseteq P
           /\ Below(Range(calls[j].text), rest)
           /\ \A k \in 1..Len(calls) : j < k => Below(Range(calls[j].text), Range(calls[k].text)),
         \A i \in 1..Len(shown) :
           shown[i].chat = m.chat /\ shown[i].stream = m.stream =>
             Below(Range(shown[i].text), P) /\ Below(Range(shown[i].text), rest)
  PROVE  FramesShown(After(calls)[Len(calls)], calls, Len(calls), m, P, rest)
<1>1. PICK f : f = After(calls)
  OBVIOUS
<1>2. PICK len \in Nat : len = Len(calls)
  OBVIOUS
<1>3. f[0] = shown /\ \A n \in 1..len : f[n] = Perform(f[n - 1], calls[n])
  BY <1>1, <1>2, AfterFollows
<1>4. m.stream # None
  BY ConstantsAssumption
<1> DEFINE Own(b) == b.chat = m.chat /\ b.stream = m.stream
           Good == {n \in Nat : n <= len => FramesShown(f[n], calls, n, m, P, rest)}
<1>5. 0 \in Good
  <2>1. /\ DOMAIN shown = 1..Len(shown)
        /\ \A i \in 1..Len(shown) : Range(shown[i].text) \subseteq PartsOf(shown)
    BY BubbleParts
  <2>2. \A j \in (0 + 1)..Len(calls) : j \in 1..Len(calls)
    OBVIOUS
  <2>3. ASSUME NEW i \in 1..Len(shown), Own(shown[i]), NEW j \in (0 + 1)..Len(calls)
        PROVE  Below(Range(shown[i].text), Range(calls[j].text))
    <3>1. Below(Range(shown[i].text), P)
      BY <2>3
    <3>2. Range(calls[j].text) \subseteq P
      BY <2>2
    <3> QED
      BY <3>1, <3>2 DEF Below
  <2>4. FramesShown(shown, calls, 0, m, P, rest)
    BY <2>1, <2>3 DEF FramesShown
  <2> QED
    BY <1>3, <2>4
<1>6. ASSUME NEW n \in Nat, n \in Good PROVE n + 1 \in Good
  <2> SUFFICES ASSUME n + 1 <= len PROVE FramesShown(f[n + 1], calls, n + 1, m, P, rest)
    OBVIOUS
  <2>1. n + 1 \in 1..len /\ (n + 1) - 1 = n /\ n <= len
    BY <1>2
  <2>2. PICK s : s = f[n]
    OBVIOUS
  <2>3. FramesShown(s, calls, n, m, P, rest)
    BY <1>6, <2>1, <2>2
  <2>4. PICK c \in Call : c = calls[n + 1]
    BY <1>2, <2>1
  <2>5. PICK t : t = Perform(s, c)
    OBVIOUS
  <2>6. f[n + 1] = t
    BY <1>3, <2>1, <2>2, <2>4, <2>5
  <2>7. /\ c.op = "frame" /\ c.chat = m.chat /\ c.stream = m.stream
        /\ Rising(c.text) /\ Range(c.text) \subseteq P /\ Below(Range(c.text), rest)
        /\ \A k \in (n + 2)..len : Below(Range(c.text), Range(calls[k].text))
    <3>1. \A k \in (n + 2)..len : k \in 1..len /\ n + 1 < k
      BY <2>1
    <3> QED
      BY <1>2, <2>1, <2>4, <3>1
  <2>8. s \in Seq(Bubble) /\ Len(s) \in Nat /\ DOMAIN s = 1..Len(s) /\ Apart(s)
    BY <2>3 DEF FramesShown
  <2>9. \A i \in 1..Len(s) :
          /\ Own(s[i]) => /\ \A j \in (n + 1)..len : Below(Range(s[i].text), Range(calls[j].text))
                          /\ Below(Range(s[i].text), rest)
          /\ ~Own(s[i]) => i \in 1..Len(shown) /\ s[i] = shown[i]
          /\ Range(s[i].text) \subseteq PartsOf(shown) \cup P
    BY <1>2, <2>3 DEF FramesShown
  <2>10. c.text \in Seq(Nat) /\ Range(c.text) \subseteq Nat
    BY <2>7 DEF Call, Parts
  <2>11. \A i \in 1..Len(s) : s[i].text \in Seq(Nat) /\ Range(s[i].text) \subseteq Nat
    BY <2>8, BubbleParts
  \* No bubble has a part of the frame.
  <2>12. ASSUME NEW i \in 1..Len(s) PROVE Range(s[i].text) \cap Range(c.text) = {}
    <3>1. CASE Own(s[i])
      <4>1. n + 1 \in (n + 1)..len
        BY <2>1
      <4>2. Below(Range(s[i].text), Range(c.text))
        BY <2>4, <2>9, <3>1, <4>1
      <4> QED
        BY <2>10, <2>11, <4>2, BelowApart
    <3>2. CASE ~Own(s[i])
      BY <2>7, <2>9, <3>2
    <3> QED
      BY <3>1, <3>2
  <2>13. \A j \in ((n + 1) + 1)..len : j \in (n + 1)..len /\ j \in (n + 2)..len
    BY <2>1
  <2>14. CASE Joined(s, c) = 0
    <3>1. /\ t \in Seq(Bubble) /\ Len(t) = Len(s) + 1
          /\ \A i \in 1..Len(s) : t[i] = s[i]
          /\ t[Len(s) + 1] = [chat |-> c.chat, stream |-> c.stream, text |-> c.text, final |-> c.final]
      BY <2>5, <2>7, <2>8, <2>14, AppendedIs
    <3>2. PICK y \in Nat : y = Len(s) + 1
      BY <2>8
    <3>3. /\ t[y].text = c.text /\ Own(t[y]) /\ DOMAIN t = 1..y /\ Len(t) = y
          /\ \A i \in 1..y : i = y \/ i \in 1..Len(s)
      BY <2>7, <2>8, <3>1, <3>2
    <3>4. Apart(t)
      <4>1. \A i \in 1..y : Rising(t[i].text)
        BY <2>7, <2>8, <3>1, <3>3 DEF Apart
      <4>2. ASSUME NEW i \in 1..y, NEW j \in 1..y, i # j
            PROVE  Range(t[i].text) \cap Range(t[j].text) = {}
        <5>1. CASE i = y
          BY <2>12, <3>1, <3>3, <4>2, <5>1
        <5>2. CASE j = y
          BY <2>12, <3>1, <3>3, <4>2, <5>2
        <5>3. CASE i # y /\ j # y
          <6>1. i \in 1..Len(s) /\ j \in 1..Len(s) /\ t[i] = s[i] /\ t[j] = s[j]
            BY <3>1, <3>3, <5>3
          <6> QED
            BY <2>8, <4>2, <6>1 DEF Apart
        <5> QED
          BY <5>1, <5>2, <5>3
      <4> QED
        BY <3>3, <4>1, <4>2 DEF Apart
    <3>5. ASSUME NEW i \in 1..y
          PROVE  /\ Own(t[i]) => /\ \A j \in ((n + 1) + 1)..len : Below(Range(t[i].text), Range(calls[j].text))
                                 /\ Below(Range(t[i].text), rest)
                 /\ ~Own(t[i]) => i \in 1..Len(shown) /\ t[i] = shown[i]
                 /\ Range(t[i].text) \subseteq PartsOf(shown) \cup P
      <4>1. CASE i = y
        BY <2>7, <2>13, <3>3, <4>1
      <4>2. CASE i \in 1..Len(s)
        BY <2>9, <2>13, <3>1, <4>2
      <4> QED
        BY <3>3, <4>1, <4>2
    <3>6. FramesShown(t, calls, n + 1, m, P, rest)
      BY <1>2, <3>1, <3>3, <3>4, <3>5 DEF FramesShown
    <3> QED
      BY <2>6, <3>6
  <2>15. CASE Joined(s, c) # 0
    <3>1. PICK x : x = Joined(s, c)
      OBVIOUS
    <3>2. x \in 1..Len(s) /\ Own(s[x])
      BY <2>7, <2>8, <2>15, <3>1, JoinedIs
    <3>3. /\ t \in Seq(Bubble) /\ Len(t) = Len(s) /\ DOMAIN t = 1..Len(s)
          /\ \A i \in 1..Len(s) :
              /\ t[i].chat = s[i].chat /\ t[i].stream = s[i].stream
              /\ i # x => t[i] = s[i]
              /\ i = x => t[i].text = s[i].text \o c.text
      <4>1. /\ Perform(s, c) \in Seq(Bubble) /\ Len(Perform(s, c)) = Len(s)
            /\ \A i \in 1..Len(s) :
                /\ Perform(s, c)[i].chat = s[i].chat
                /\ Perform(s, c)[i].stream = s[i].stream
                /\ i # Joined(s, c) => Perform(s, c)[i] = s[i]
                /\ i = Joined(s, c) => Perform(s, c)[i].text = s[i].text \o c.text
        BY <2>7, <2>8, <2>15, FramedIs
      <4>2. /\ t \in Seq(Bubble) /\ Len(t) = Len(s)
            /\ \A i \in 1..Len(s) :
                /\ t[i].chat = s[i].chat /\ t[i].stream = s[i].stream
                /\ i # x => t[i] = s[i]
                /\ i = x => t[i].text = s[i].text \o c.text
        BY <2>5, <3>1, <4>1
      <4>3. t \in Seq(Bubble) /\ Len(t) = Len(s)
        BY <4>2
      <4>4. DOMAIN t = 1..Len(s)
        BY <4>3
      <4> QED
        BY <4>2, <4>3, <4>4, Zenon
    <3>4. Below(Range(s[x].text), Range(c.text))
      <4>1. n + 1 \in (n + 1)..len
        BY <2>1
      <4> QED
        BY <2>4, <2>9, <3>2, <4>1
    <3>5. /\ Range(t[x].text) = Range(s[x].text) \cup Range(c.text)
          /\ Rising(t[x].text)
      <4>1. PICK a \in Seq(Nat) : a = s[x].text
        BY <2>11, <3>2
      <4>2. PICK d \in Seq(Nat) : d = c.text
        BY <2>10
      <4>3. Rising(a) /\ Rising(d) /\ Below(Range(a), Range(d))
        BY <2>7, <2>8, <3>2, <3>4, <4>1, <4>2 DEF Apart
      <4>4. Range(a \o d) = Range(a) \cup Range(d) /\ Rising(a \o d)
        BY <4>3, JoinedTexts
      <4> QED
        BY <3>2, <3>3, <4>1, <4>2, <4>4
    <3>6. Apart(t)
      <4>1. \A i \in 1..Len(s) : Rising(t[i].text)
        BY <2>8, <3>3, <3>5 DEF Apart
      <4>2. ASSUME NEW i \in 1..Len(s), i # x PROVE Range(t[i].text) \cap Range(t[x].text) = {}
        <5>1. t[i] = s[i] /\ Range(s[i].text) \cap Range(c.text) = {}
          BY <2>12, <3>3, <4>2
        <5>2. Range(s[i].text) \cap Range(s[x].text) = {}
          BY <2>8, <3>2, <4>2 DEF Apart
        <5> QED
          BY <3>5, <5>1, <5>2
      <4>3. ASSUME NEW i \in 1..Len(s), NEW j \in 1..Len(s), i # j
            PROVE  Range(t[i].text) \cap Range(t[j].text) = {}
        <5>1. CASE i = x
          BY <4>2, <4>3, <5>1
        <5>2. CASE j = x
          BY <4>2, <4>3, <5>2
        <5>3. CASE i # x /\ j # x
          BY <2>8, <3>3, <4>3, <5>3 DEF Apart
        <5> QED
          BY <5>1, <5>2, <5>3
      <4> QED
        BY <3>3, <4>1, <4>3 DEF Apart
    <3>7. ASSUME NEW i \in 1..Len(s)
          PROVE  /\ Own(t[i]) => /\ \A j \in ((n + 1) + 1)..len : Below(Range(t[i].text), Range(calls[j].text))
                                 /\ Below(Range(t[i].text), rest)
                 /\ ~Own(t[i]) => i \in 1..Len(shown) /\ t[i] = shown[i]
                 /\ Range(t[i].text) \subseteq PartsOf(shown) \cup P
      <4>1. CASE i = x
        <5>1. /\ \A j \in (n + 1)..len : Below(Range(s[x].text), Range(calls[j].text))
              /\ Below(Range(s[x].text), rest) /\ Range(s[x].text) \subseteq PartsOf(shown) \cup P
          BY <2>9, <3>2
        <5>2. \A j \in ((n + 1) + 1)..len : /\ Below(Range(s[x].text), Range(calls[j].text))
                                            /\ Below(Range(c.text), Range(calls[j].text))
          BY <2>7, <2>13, <5>1
        <5>3. \A j \in ((n + 1) + 1)..len : Below(Range(t[x].text), Range(calls[j].text))
          BY <3>5, <5>2 DEF Below
        <5>4. Below(Range(t[x].text), rest) /\ Range(t[x].text) \subseteq PartsOf(shown) \cup P
          BY <2>7, <3>5, <5>1 DEF Below
        <5>5. Own(t[x])
          BY <3>2, <3>3
        <5> QED
          BY <4>1, <5>3, <5>4, <5>5
      <4>2. CASE i # x
        BY <2>9, <2>13, <3>3, <4>2
      <4> QED
        BY <4>1, <4>2
    <3>8. FramesShown(t, calls, n + 1, m, P, rest)
      BY <1>2, <3>3, <3>6, <3>7 DEF FramesShown
    <3> QED
      BY <2>6, <3>8
  <2> QED
    BY <2>14, <2>15
<1>7. Nat \subseteq Good
  <2> HIDE DEF Good
  <2> QED
    BY <1>5, <1>6, SetInduction
<1> QED
  BY <1>1, <1>2, <1>7

\* The text that waits for a stream, with that of a message of it.
LEMMA WaitingText ==
  ASSUME TypeInv, adapter = "websocket", NEW m \in Message, m.kind \in {"delta", "end"},
         NEW text, text = Waiting(m) \o m.text
  PROVE  /\ text \in Seq(Nat) /\ Len(text) \in Nat
         /\ \A above : Fits(m, above) =>
              /\ Rising(text) /\ Below(Range(text), above)
              /\ \A i \in 1..Len(shown) :
                   /\ Range(shown[i].text) \cap Range(text) = {}
                   /\ shown[i].chat = m.chat /\ shown[i].stream = m.stream /\ m.stream # None
                        => Below(Range(shown[i].text), Range(text))
              /\ \A l \in Keys \ {Key(m)} : Live(buf, l) => Range(buf[l].text) \cap Range(text) = {}
<1>1. /\ shown \in Seq(Bubble) /\ buf \in [Keys -> Buffer \cup {None}]
      /\ DOMAIN shown = 1..Len(shown)
  BY DEF TypeInv, TypeOK
<1>2. PICK k \in Keys : k = Key(m)
  BY KeyIs
<1>3. k[1] = m.chat /\ k[2] = m.stream
  BY <1>2 DEF Key
<1>4. PICK w : w = Waiting(m)
  OBVIOUS
<1>5. w \in Seq(Nat)
  <2>1. CASE buf[k] = None
    <3>1. w = <<>>
      BY <1>2, <1>4, <2>1 DEF Waiting
    <3> QED
      BY <3>1, EmptySeq
  <2>2. CASE buf[k] # None
    <3>1. w = buf[k].text /\ buf[k] \in Buffer
      BY <1>1, <1>2, <1>4, <2>2 DEF Waiting
    <3> QED
      BY <3>1 DEF Buffer, Parts
  <2> QED
    BY <2>1, <2>2
<1>6. PICK s \in Seq(Nat) : s = m.text
  BY DEF Message, Parts
<1>7. text = w \o s
  BY <1>4, <1>6
<1>8. /\ text \in Seq(Nat) /\ Range(text) = Range(w) \cup Range(s)
      /\ Rising(w) /\ Rising(s) /\ Below(Range(w), Range(s)) => Rising(text)
  BY <1>5, <1>7, JoinedTexts
<1>9. Said(m) = Range(s) /\ Told(m)
  BY <1>6 DEF Said, Told
<1>10. ASSUME NEW above, Fits(m, above)
       PROVE  /\ Rising(text) /\ Below(Range(text), above)
              /\ \A i \in 1..Len(shown) :
                   /\ Range(shown[i].text) \cap Range(text) = {}
                   /\ shown[i].chat = m.chat /\ shown[i].stream = m.stream /\ m.stream # None
                        => Below(Range(shown[i].text), Range(text))
              /\ \A l \in Keys \ {k} : Live(buf, l) => Range(buf[l].text) \cap Range(text) = {}
  <2>1. /\ \A i \in 1..Len(shown) : Range(shown[i].text) \cap Range(s) = {}
        /\ \A l \in Keys : Live(buf, l) =>
              /\ Range(buf[l].text) \cap Range(s) = {}
              /\ Below(Range(buf[l].text), Range(s))
    BY <1>9, <1>10, NewText
  <2>2. Rising(s) /\ Below(Range(s), above)
    BY <1>6, <1>9, <1>10 DEF Fits
  <2>3. Below(PartsOf(shown), Range(s))
    BY <1>9, <1>10 DEF Fits, Settled, Below
  <2>4. \A i \in 1..Len(shown) : Below(Range(shown[i].text), Range(s))
    <3>1. \A i \in 1..Len(shown) : Range(shown[i].text) \subseteq PartsOf(shown)
      BY <1>1, BubbleParts
    <3> QED
      BY <2>3, <3>1 DEF Below
  <2>5. /\ Rising(w) /\ Below(Range(w), Range(s)) /\ Below(Range(w), above)
        /\ \A i \in 1..Len(shown) :
             /\ Range(shown[i].text) \cap Range(w) = {}
             /\ shown[i].chat = m.chat /\ shown[i].stream = m.stream /\ m.stream # None
                  => Below(Range(shown[i].text), Range(w))
        /\ \A l \in Keys \ {k} : Live(buf, l) => Range(buf[l].text) \cap Range(w) = {}
    <3>1. CASE buf[k] = None
      <4>1. w = <<>>
        BY <1>2, <1>4, <3>1 DEF Waiting
      <4>2. Range(w) = {} /\ Rising(w)
        BY <4>1 DEF Range, Rising
      <4> QED
        BY <4>2 DEF Below
    <3>2. CASE buf[k] # None
      <4>1. PICK b : b = buf[k]
        OBVIOUS
      <4>2. w = b.text /\ Live(buf, k)
        BY <1>2, <1>4, <3>2, <4>1 DEF Waiting, Live, Stuck
      <4>3. Shows(b, shown) /\ Below(Range(w), above)
        BY <1>10, <4>1, <4>2 DEF Fits, Settled, Below
      <4>4. Rising(w) /\ b.bubble = 0
        BY <4>2, <4>3 DEF Shows
      <4>5. ASSUME NEW i \in 1..Len(shown) PROVE Range(shown[i].text) \cap Range(w) = {}
        <5>1. i \in DOMAIN shown /\ i # b.bubble
          BY <1>1, <4>4
        <5>2. Range(shown[i].text) \cap Range(b.text) = {}
          BY <4>3, <5>1 DEF Shows
        <5> QED
          BY <4>2, <5>2
      <4>6. FramesFirst(shown, buf)
        BY <1>10 DEF Fits, Settled
      <4>7. \A i \in 1..Len(shown) :
              shown[i].chat = m.chat /\ shown[i].stream = m.stream /\ m.stream # None
                  => Below(Range(shown[i].text), Range(w))
        BY <1>1, <1>3, <3>2, <4>1, <4>2, <4>6 DEF FramesFirst
      <4>8. \A l \in Keys \ {k} : Live(buf, l) => Range(buf[l].text) \cap Range(w) = {}
        BY <1>10, <4>1, <4>2 DEF Fits, Settled, Separate
      <4>9. Below(Range(w), Range(s))
        BY <2>1, <4>1, <4>2
      <4>10. Rising(w)
        BY <4>2, <4>4
      <4> HIDE DEF Below
      <4> QED
        BY <4>3, <4>5, <4>7, <4>8, <4>9, <4>10, Zenon
    <3> QED
      BY <3>1, <3>2
  <2>6. Rising(text) /\ Below(Range(text), above)
    BY <1>8, <2>2, <2>5 DEF Below
  <2>7. ASSUME NEW i \in 1..Len(shown)
        PROVE  /\ Range(shown[i].text) \cap Range(text) = {}
               /\ shown[i].chat = m.chat /\ shown[i].stream = m.stream /\ m.stream # None
                    => Below(Range(shown[i].text), Range(text))
    BY <1>8, <2>1, <2>4, <2>5 DEF Below
  <2>8. ASSUME NEW l \in Keys \ {k}, Live(buf, l) PROVE Range(buf[l].text) \cap Range(text) = {}
    BY <1>8, <2>1, <2>5, <2>8
  <2> QED
    BY <2>6, <2>7, <2>8
<1>11. Len(text) \in Nat
  BY <1>8
<1> QED
  BY <1>2, <1>8, <1>10, <1>11

\* The frames are shown and the rest of the text waits, or nothing does.
LEMMA FramesSettle ==
  ASSUME TypeInv, adapter = "websocket", NEW m \in Message, m.kind \in {"delta", "end"},
         m.stream \in Streams, NEW text, text = Waiting(m) \o m.text,
         NEW above, Fits(m, above), NEW rest \in Seq(Nat), Range(rest) \subseteq Range(text),
         Rising(rest), NEW new \in Buffer \cup {None},
         new # None => new.text = rest /\ new.bubble = 0,
         NEW calls, NEW t, FramesShown(t, calls, Len(calls), m, Range(text), Range(rest))
  PROVE  Settled(t, Put(m, new), above)
<1>1. /\ shown \in Seq(Bubble) /\ buf \in Buffers /\ DOMAIN shown = 1..Len(shown)
  BY DEF TypeInv, TypeOK
<1>2. PICK k \in Keys : k = Key(m)
  BY KeyIs
<1>3. k = <<m.chat, m.stream>> /\ m.stream # None
  BY <1>2, ConstantsAssumption DEF Key
<1>4. PICK p : p = Put(m, new)
  OBVIOUS
<1>5. p[k] = new /\ \A l \in Keys \ {k} : p[l] = buf[l]
  BY <1>1, <1>2, <1>4, PutIs
<1>6. PICK P : P = Range(text)
  OBVIOUS
<1>7. PICK R : R = Range(rest)
  OBVIOUS
<1>8. /\ text \in Seq(Nat) /\ Rising(text) /\ Below(P, above)
      /\ \A i \in 1..Len(shown) : Range(shown[i].text) \cap P = {}
      /\ \A l \in Keys \ {k} : Live(buf, l) => Range(buf[l].text) \cap P = {}
  BY <1>2, <1>6, WaitingText
<1>9. R \subseteq P /\ P \subseteq Nat
  <2>1. R \subseteq P
    BY <1>6, <1>7
  <2>2. PICK s \in Seq(Nat) : s = text
    BY <1>8
  <2>3. Range(s) \subseteq Nat
    BY DEF Range
  <2> QED
    BY <1>6, <2>1, <2>2, <2>3
<1>10. /\ t \in Seq(Bubble) /\ DOMAIN t = 1..Len(t) /\ Apart(t)
       /\ \A i \in 1..Len(t) : Range(t[i].text) \subseteq PartsOf(shown) \cup P
       /\ \A i \in 1..Len(t) : t[i].chat = m.chat /\ t[i].stream = m.stream
                                 => Below(Range(t[i].text), R)
       /\ \A i \in 1..Len(t) : ~(t[i].chat = m.chat /\ t[i].stream = m.stream)
                                 => i \in 1..Len(shown) /\ t[i] = shown[i]
  <2>1. t \in Seq(Bubble) /\ Apart(t)
    BY DEF FramesShown
  <2>2. DOMAIN t = 1..Len(t)
    BY <2>1
  <2>3. PICK n : n = Len(t)
    OBVIOUS
  <2>4. ASSUME NEW i \in 1..n
        PROVE  /\ Range(t[i].text) \subseteq PartsOf(shown) \cup P
               /\ t[i].chat = m.chat /\ t[i].stream = m.stream => Below(Range(t[i].text), R)
               /\ ~(t[i].chat = m.chat /\ t[i].stream = m.stream)
                    => i \in 1..Len(shown) /\ t[i] = shown[i]
    <3>1. i \in 1..Len(t)
      BY <2>3
    <3> QED
      BY <1>6, <1>7, <3>1 DEF FramesShown
  <2> QED
    BY <2>1, <2>2, <2>3, <2>4
<1>11. \A l \in Keys : Live(p, l) <=> p[l] # None
  BY DEF Live, Stuck
<1>12. \A l \in Keys : Live(buf, l) <=> buf[l] # None
  BY DEF Live, Stuck
<1>13. PICK more : more = Said(m) \cup above
  OBVIOUS
<1>14. Settled(shown, buf, more) /\ above \subseteq more
  BY <1>13 DEF Fits
<1>15. Below(PartsOf(shown), above)
  BY <1>14 DEF Settled, Below
<1>16. Below(PartsOf(t), above)
  BY <1>8, <1>10, <1>15 DEF Below, PartsOf
<1>17. ASSUME NEW l \in Keys, p[l] # None, l = k
       PROVE  Shows(p[l], t) /\ Below(Range(p[l].text), above)
  <2>1. p[l].text = rest /\ p[l].bubble = 0
    BY <1>5, <1>17
  <2>2. ASSUME NEW i \in 1..Len(t) PROVE Range(t[i].text) \cap R = {}
    <3>1. CASE t[i].chat = m.chat /\ t[i].stream = m.stream
      <4>1. Below(Range(t[i].text), R) /\ R \subseteq Nat
        BY <1>9, <1>10, <3>1
      <4>2. Range(t[i].text) \subseteq Nat
        BY <1>10, BubbleParts
      <4> QED
        BY <4>1, <4>2, BelowApart
    <3>2. CASE ~(t[i].chat = m.chat /\ t[i].stream = m.stream)
      BY <1>8, <1>9, <1>10, <3>2
    <3> QED
      BY <3>1, <3>2
  <2>3. Below(R, above)
    BY <1>8, <1>9 DEF Below
  <2> QED
    BY <1>7, <1>10, <2>1, <2>2, <2>3 DEF Shows
<1>18. ASSUME NEW l \in Keys, p[l] # None, l # k
       PROVE  /\ p[l] = buf[l] /\ buf[l].bubble = 0 /\ Range(buf[l].text) \cap P = {}
              /\ Shows(p[l], t) /\ Below(Range(p[l].text), above)
  <2>1. p[l] = buf[l] /\ Live(buf, l)
    BY <1>5, <1>12, <1>18
  <2>2. PICK b : b = buf[l]
    OBVIOUS
  <2>3. Shows(b, shown) /\ Below(Range(b.text), above) /\ Range(b.text) \cap P = {}
    BY <1>8, <1>14, <1>18, <2>1, <2>2 DEF Settled, Below
  <2>4. Rising(b.text) /\ b.bubble = 0
    BY <2>3 DEF Shows
  <2>5. Range(b.text) \cap PartsOf(shown) = {}
    <3>1. ASSUME NEW i \in 1..Len(shown) PROVE Range(shown[i].text) \cap Range(b.text) = {}
      <4>1. i \in DOMAIN shown /\ i # b.bubble
        BY <1>1, <2>4
      <4> QED
        BY <2>3, <4>1 DEF Shows
    <3> QED
      BY <1>1, <3>1 DEF PartsOf
  <2>6. Shows(b, t)
    BY <1>10, <2>3, <2>4, <2>5 DEF Shows
  <2> QED
    BY <2>1, <2>2, <2>3, <2>4, <2>6
<1>19. ASSUME NEW l \in Keys, NEW j \in Keys, l # j, p[l] # None, p[j] # None
       PROVE  Separate(p[l], p[j])
  <2>1. CASE l # k /\ j # k
    <3>1. p[l] = buf[l] /\ p[j] = buf[j] /\ Live(buf, l) /\ Live(buf, j)
      BY <1>5, <1>12, <1>19, <2>1
    <3> QED
      BY <1>14, <1>19, <3>1 DEF Settled
  <2>2. CASE l = k
    <3>1. j # k /\ p[l].text = rest /\ p[l].bubble = 0
      BY <1>5, <1>19, <2>2
    <3>2. Range(p[j].text) \cap P = {}
      BY <1>18, <1>19, <3>1
    <3> QED
      BY <1>7, <1>9, <3>1, <3>2 DEF Separate
  <2>3. CASE j = k
    <3>1. l # k /\ p[j].text = rest /\ p[j].bubble = 0
      BY <1>5, <1>19, <2>3
    <3>2. Range(p[l].text) \cap P = {} /\ p[l].bubble = 0
      BY <1>18, <1>19, <3>1
    <3> QED
      BY <1>7, <1>9, <3>1, <3>2 DEF Separate
  <2> QED
    BY <2>1, <2>2, <2>3
<1>20. FramesFirst(t, p)
  <2> SUFFICES ASSUME NEW l \in Keys, NEW i \in 1..Len(t), p[l] # None, l[2] # None,
                      t[i].chat = l[1], t[i].stream = l[2]
               PROVE  Below(Range(t[i].text), Range(p[l].text))
    BY <1>10 DEF FramesFirst
  <2>1. CASE l = k
    <3>1. t[i].chat = m.chat /\ t[i].stream = m.stream
      BY <1>3, <2>1
    <3>2. p[l].text = rest
      BY <1>5, <2>1
    <3> QED
      BY <1>7, <1>10, <3>1, <3>2
  <2>2. CASE l # k
    <3>1. ~(t[i].chat = m.chat /\ t[i].stream = m.stream)
      BY <1>3, <2>2 DEF Keys
    <3>2. i \in DOMAIN shown /\ t[i] = shown[i]
      BY <1>1, <1>10, <3>1
    <3>3. FramesFirst(shown, buf) /\ p[l] = buf[l]
      BY <1>5, <1>14, <2>2 DEF Settled
    <3> QED
      BY <3>2, <3>3 DEF FramesFirst
  <2> QED
    BY <2>1, <2>2
<1>21. Settled(t, p, above)
  BY <1>10, <1>11, <1>16, <1>17, <1>18, <1>19, <1>20 DEF Settled
<1> QED
  BY <1>4, <1>21

FramesOf(calls, m, P, rest) ==
  \A j \in 1..Len(calls) :
    /\ calls[j].op = "frame" /\ calls[j].chat = m.chat /\ calls[j].stream = m.stream
    /\ Rising(calls[j].text) /\ Range(calls[j].text) \subseteq P
    /\ Below(Range(calls[j].text), rest)
    /\ \A k \in 1..Len(calls) : j < k => Below(Range(calls[j].text), Range(calls[k].text))

Framed(m, parts, full) == [i \in 1..full |-> Frame(m, parts[i])]

LEMMA FrameCalls ==
  ASSUME NEW m \in Message, NEW text \in Seq(Nat), NEW parts, Pieces(parts, text),
         NEW full \in 0..Len(parts), NEW rest,
         Rising(text) => \A i \in 1..full : Below(Range(parts[i]), rest),
         NEW calls, calls = Framed(m, parts, full)
  PROVE  /\ calls \in Seq(Call) /\ Len(calls) = full
         /\ Rising(text) => FramesOf(calls, m, Range(text), rest)
<1>1. /\ full \in Nat /\ \A i \in 1..full : i \in 1..Len(parts)
  BY DEF Pieces
<1>2. \A i \in 1..full : /\ calls[i] \in Call /\ calls[i].op = "frame" /\ calls[i].text = parts[i]
                         /\ calls[i].chat = m.chat /\ calls[i].stream = m.stream
  <2> TAKE i \in 1..full
  <2>1. PICK t \in Seq(Nat) : t = parts[i]
    BY <1>1 DEF Pieces
  <2>2. calls[i] = Frame(m, t)
    BY <2>1 DEF Framed
  <2> QED
    BY <2>1, <2>2, SendsTyped
<1>3. calls \in Seq(Call) /\ Len(calls) = full
  <2>1. calls = [i \in 1..full |-> Frame(m, parts[i])]
    BY DEF Framed
  <2> QED
    BY <1>1, <1>2, <2>1
<1>4. ASSUME Rising(text), NEW j \in 1..full
      PROVE  /\ Rising(calls[j].text) /\ Range(calls[j].text) \subseteq Range(text)
             /\ Below(Range(calls[j].text), rest)
             /\ \A k \in 1..full : j < k => Below(Range(calls[j].text), Range(calls[k].text))
  BY <1>1, <1>2, <1>4 DEF Pieces
<1> QED
  BY <1>2, <1>3, <1>4 DEF FramesOf

\* Behind the frames of a stream its end is sent, which has no text.
LEMMA EndFrame ==
  ASSUME NEW m \in Message, NEW P, NEW rest, NEW calls \in Seq(Call),
         NEW all, all = calls \o <<Frame(m, <<>>)>>
  PROVE  /\ all \in Seq(Call)
         /\ FramesOf(calls, m, P, rest) => FramesOf(all, m, P, rest)
<1>1. PICK none \in Seq(Nat) : none = <<>>
  BY EmptySeq
<1>2. PICK c \in Call : c = Frame(m, none)
  BY SendsTyped
<1>3. c.op = "frame" /\ c.text = <<>> /\ c.chat = m.chat /\ c.stream = m.stream
  BY <1>1, <1>2, SendsTyped
<1>4. Rising(<<>>) /\ Range(<<>>) = {}
  BY DEF Rising, Range
<1>5. PICK n \in Nat : n = Len(calls)
  OBVIOUS
<1>6. all = calls \o <<c>>
  BY <1>1, <1>2
<1>7. /\ all \in Seq(Call) /\ Len(all) = n + 1 /\ all[n + 1] = c
      /\ \A i \in 1..n : all[i] = calls[i]
  BY <1>5, <1>6
<1>8. ASSUME FramesOf(calls, m, P, rest), NEW j \in 1..(n + 1)
      PROVE  /\ all[j].op = "frame" /\ all[j].chat = m.chat /\ all[j].stream = m.stream
             /\ Rising(all[j].text) /\ Range(all[j].text) \subseteq P
             /\ Below(Range(all[j].text), rest)
             /\ \A k \in 1..(n + 1) : j < k => Below(Range(all[j].text), Range(all[k].text))
  <2>1. CASE j = n + 1
    BY <1>3, <1>4, <1>7, <2>1 DEF Below
  <2>2. CASE j # n + 1
    <3>1. j \in 1..n
      BY <2>2
    <3>2. all[j] = calls[j]
      BY <1>7, <3>1
    <3>3. ASSUME NEW k \in 1..(n + 1), j < k PROVE Below(Range(all[j].text), Range(all[k].text))
      <4>1. CASE k = n + 1
        BY <1>3, <1>4, <1>7, <4>1 DEF Below
      <4>2. CASE k # n + 1
        <5>1. k \in 1..n
          BY <4>2
        <5>2. all[k] = calls[k]
          BY <1>7, <5>1
        <5> QED
          BY <1>5, <1>8, <3>1, <3>2, <3>3, <5>1, <5>2 DEF FramesOf
      <4> QED
        BY <4>1, <4>2
    <3> QED
      BY <1>5, <1>8, <3>1, <3>2, <3>3 DEF FramesOf
  <2> QED
    BY <2>1, <2>2
<1> QED
  BY <1>7, <1>8 DEF FramesOf

LEMMA FramesHandle ==
  ASSUME TypeInv, adapter = "websocket", NEW m \in Message, m.kind \in {"delta", "end"},
         m.stream \in Streams, NEW text, text = Waiting(m) \o m.text,
         NEW above, NEW rest \in Seq(Nat), Range(rest) \subseteq Range(text),
         Rising(text) => Rising(rest), NEW new \in Buffer \cup {None},
         new # None => new.text = rest /\ new.bubble = 0, NEW failed \in Buffers,
         NEW calls \in Seq(Call),
         Rising(text) => FramesOf(calls, m, Range(text), Range(rest))
  PROVE  Handles(Try(calls, Put(m, new), failed), m, above)
<1>1. shown \in Seq(Bubble) /\ buf \in Buffers
  BY DEF TypeInv, TypeOK
<1>2. PICK left \in Buffers : left = Put(m, new)
  BY <1>1, PutIs
<1>3. Try(calls, left, failed) \subseteq Outcome
  BY <1>1, TryTyped
<1>4. PICK t : t = After(calls)[Len(calls)]
  OBVIOUS
<1>5. ASSUME Fits(m, above) PROVE Settled(t, left, above)
  <2>1. /\ text \in Seq(Nat) /\ Rising(text)
        /\ \A i \in 1..Len(shown) :
             /\ Range(shown[i].text) \cap Range(text) = {}
             /\ shown[i].chat = m.chat /\ shown[i].stream = m.stream /\ m.stream # None
                  => Below(Range(shown[i].text), Range(text))
    BY <1>5, WaitingText
  <2>2. PICK P : P = Range(text)
    OBVIOUS
  <2>3. PICK R : R = Range(rest)
    OBVIOUS
  <2>4. P \subseteq Nat /\ R \subseteq P
    <3>1. PICK s \in Seq(Nat) : s = text
      BY <2>1
    <3>2. Range(s) \subseteq Nat
      BY DEF Range
    <3> QED
      BY <2>2, <2>3, <3>1, <3>2
  <2>5. Apart(shown)
    BY <1>5 DEF Fits, Settled
  <2>6. m.stream # None
    BY ConstantsAssumption
  <2>7. \A i \in 1..Len(shown) :
          shown[i].chat = m.chat /\ shown[i].stream = m.stream =>
            Below(Range(shown[i].text), P) /\ Below(Range(shown[i].text), R)
    BY <2>1, <2>2, <2>4, <2>6 DEF Below
  <2>8. \A i \in 1..Len(shown) : Range(shown[i].text) \cap P = {}
    BY <2>1, <2>2
  <2>9. FramesOf(calls, m, P, R)
    BY <2>1, <2>2, <2>3
  <2>10. R \subseteq Nat
    BY <2>4
  <2>11. FramesShown(t, calls, Len(calls), m, P, R)
    BY <1>1, <1>4, <2>4, <2>5, <2>7, <2>8, <2>9, <2>10, FramesFollow DEF FramesOf
  <2>12. FramesShown(t, calls, Len(calls), m, Range(text), Range(rest)) /\ Rising(rest)
    BY <2>1, <2>2, <2>3, <2>11
  <2> QED
    BY <1>2, <1>5, <2>12, FramesSettle
<1>6. ASSUME Fits(m, above), NEW r \in Try(calls, left, failed), r.fault = 0
      PROVE  r.ok = TRUE /\ Settled(r.shown, r.buf, above)
  <2>1. r.shown = After(calls)[Len(calls)] /\ r.buf = left /\ r.ok = TRUE
    BY <1>6, TryWithoutFault, Zenon
  <2> QED
    BY <1>4, <1>5, <1>6, <2>1
<1>7. Fits(m, above) => Settles(Try(calls, left, failed), above)
  BY <1>6 DEF Settles
<1>8. Handles(Try(calls, left, failed), m, above)
  BY <1>3, <1>7, SettlesHandles
<1> QED
  BY <1>2, <1>8

\* What is left of a text behind its full frames.
Behind(text, full, size) == SubSeq(text, full * size + 1, Len(text))

LEMMA RestOf ==
  ASSUME NEW text \in Seq(Nat), NEW size \in Nat \ {0}, NEW full, full = Len(text) \div size,
         NEW rest, rest = Behind(text, full, size),
         NEW parts, parts = Chunks(text, size)
  PROVE  /\ full \in 0..Len(parts) /\ rest \in Seq(Nat) /\ Range(rest) \subseteq Range(text)
         /\ Rising(text) => Rising(rest) /\ \A i \in 1..full : Below(Range(parts[i]), Range(rest))
<1>1. PICK len \in Nat : len = Len(text)
  OBVIOUS
<1>2. PICK f \in Nat : f = full /\ f * size <= len /\ len < f * size + size
  BY <1>1, Division
<1>3. PICK l \in Nat : l = f * size /\ l <= len
  BY <1>2
<1>4. rest = SubSeq(text, l + 1, len)
  BY <1>1, <1>2, <1>3 DEF Behind
<1>12. l \in Nat /\ l <= len
  BY <1>3
<1>5. /\ rest \in Seq(Nat) /\ Len(rest) = len - l
      /\ \A x \in 1..(len - l) : rest[x] = text[l + x]
  <2>1. \A i \in (l + 1)..len : text[i] \in Nat
    BY <1>1
  <2>2. /\ SubSeq(text, l + 1, len) \in Seq(Nat)
        /\ Len(SubSeq(text, l + 1, len)) = IF l + 1 <= len THEN len - (l + 1) + 1 ELSE 0
        /\ \A i \in 1..(len - (l + 1) + 1) : SubSeq(text, l + 1, len)[i] = text[l + 1 + i - 1]
    BY <1>1, <1>12, <2>1, SubSeqProperties
  <2>3. \A x \in 1..(len - l) : x \in 1..(len - (l + 1) + 1) /\ l + 1 + x - 1 = l + x
    BY <1>12
  <2>4. (IF l + 1 <= len THEN len - (l + 1) + 1 ELSE 0) = len - l
    BY <1>12
  <2>5. rest \in Seq(Nat) /\ Len(rest) = len - l
    BY <1>4, <2>2, <2>4
  <2>6. ASSUME NEW x \in 1..(len - l) PROVE rest[x] = text[l + x]
    <3>1. rest[x] = text[l + 1 + x - 1]
      BY <1>4, <2>2, <2>3
    <3> QED
      BY <2>3, <3>1
  <2> QED
    BY <2>5, <2>6
<1>6. Range(rest) \subseteq Range(text)
  <2>1. DOMAIN rest = 1..(len - l) /\ DOMAIN text = 1..len
    BY <1>1, <1>5
  <2>2. \A x \in 1..(len - l) : l + x \in 1..len
    BY <1>12
  <2> QED
    <3> SUFFICES ASSUME NEW y \in Range(rest) PROVE y \in Range(text)
      OBVIOUS
    <3>1. PICK x \in 1..(len - l) : y = rest[x]
      BY <2>1 DEF Range
    <3>2. y = text[l + x] /\ l + x \in DOMAIN text
      BY <1>5, <2>1, <2>2, <3>1
    <3> QED
      BY <3>2 DEF Range
<1>7. Rising(text) => Rising(rest)
  <2>1. DOMAIN rest = 1..(len - l) /\ DOMAIN text = 1..len
    BY <1>1, <1>5
  <2>2. \A x \in 1..(len - l) : l + x \in 1..len
    BY <1>12
  <2>3. ASSUME Rising(text), NEW x \in 1..(len - l), NEW y \in 1..(len - l), x < y
        PROVE  rest[x] < rest[y]
    <3>1. l + x \in DOMAIN text /\ l + y \in DOMAIN text /\ l + x < l + y
      BY <1>12, <2>1, <2>2, <2>3
    <3>2. text[l + x] < text[l + y]
      BY <2>3, <3>1 DEF Rising
    <3> QED
      BY <1>5, <3>2
  <2> QED
    BY <2>1, <2>3 DEF Rising
<1>8. /\ Remains(parts, text, size) /\ Pieces(parts, text)
      /\ Len(parts) = (len + size - 1) \div size
  BY <1>1, ChunksAre
<1>9. PICK L \in Nat : L = Len(parts) /\ len + size - 1 < L * size + size
  <2>1. PICK a \in Nat : a = len + size - 1
    OBVIOUS
  <2>2. a \div size \in Nat /\ a < (a \div size) * size + size
    BY Division
  <2> QED
    BY <1>8, <2>1, <2>2
<1>10. f <= L
  <2>1. SUFFICES ASSUME L + 1 <= f PROVE FALSE
    BY <1>2, <1>9
  <2>2. (L + 1) * size <= f * size /\ (L + 1) * size \in Nat /\ f * size \in Nat
    BY <2>1, Products
  <2>3. (L + 1) * size = L * size + size
    BY <1>9
  <2> QED
    BY <1>2, <1>9, <2>2, <2>3
<1>11. ASSUME Rising(text), NEW i \in 1..f PROVE Below(Range(parts[i]), Range(rest))
  <2>1. i \in 1..Len(parts) /\ i \in Nat /\ i <= f
    BY <1>9, <1>10
  <2>2. i * size <= l
    BY <1>3, <2>1, Products
  <2>3. Len(rest) = Len(text) - l /\ l <= Len(text) /\ \A x \in 1..Len(rest) : rest[x] = text[l + x]
    BY <1>1, <1>3, <1>5
  <2> QED
    BY <1>5, <1>8, <1>11, <2>1, <2>2, <2>3 DEF Remains
<1> QED
  BY <1>2, <1>5, <1>6, <1>7, <1>9, <1>10, <1>11

LEMMA WebSocketDeltaHandles ==
  ASSUME TypeInv, adapter = "websocket", NEW m \in Message, m.kind = "delta", Published(m),
         NEW above
  PROVE  Handles(WebSocketDelta(m), m, above)
<1>1. m.stream \in Streams /\ Chunk \in Nat \ {0} /\ buf \in Buffers
  BY ConstantsAssumption DEF Published, TypeInv
<1>2. PICK text : text = Waiting(m) \o m.text
  OBVIOUS
<1>3. text \in Seq(Nat)
  BY <1>2, WaitingText
<1>4. PICK full : full = Len(text) \div Chunk
  OBVIOUS
<1>5. PICK rest : rest = Behind(text, full, Chunk)
  OBVIOUS
<1>6. PICK parts : parts = Chunks(text, Chunk)
  OBVIOUS
<1>7. /\ full \in 0..Len(parts) /\ rest \in Seq(Nat) /\ Range(rest) \subseteq Range(text)
      /\ Rising(text) => Rising(rest) /\ \A i \in 1..full : Below(Range(parts[i]), Range(rest))
  BY <1>1, <1>3, <1>4, <1>5, <1>6, RestOf
<1>8. PICK calls : calls = Framed(m, parts, full)
  OBVIOUS
<1>9. Pieces(parts, text)
  BY <1>1, <1>3, <1>6, ChunksAre
<1>10. calls \in Seq(Call) /\ (Rising(text) => FramesOf(calls, m, Range(text), Range(rest)))
  BY <1>3, <1>7, <1>8, <1>9, FrameCalls
<1>11. PICK new \in Buffer \cup {None} : new = [stream |-> m.stream, text |-> rest, bubble |-> 0]
  BY <1>1, <1>7 DEF Buffer, Parts
<1>12. new.text = rest /\ new.bubble = 0
  BY <1>11
<1>13. Handles(Try(calls, Put(m, new), buf), m, above)
  BY <1>1, <1>2, <1>7, <1>10, <1>12, FramesHandle
<1>14. WebSocketDelta(m) = Try(calls, Put(m, new), buf)
  BY <1>2, <1>4, <1>5, <1>6, <1>8, <1>11 DEF WebSocketDelta, Behind, Framed
<1> QED
  BY <1>13, <1>14

LEMMA WebSocketEndHandles ==
  ASSUME TypeInv, adapter = "websocket", NEW m \in Message, m.kind = "end", Published(m),
         NEW above
  PROVE  Handles(WebSocketEnd(m), m, above)
<1>1. m.stream \in Streams /\ Chunk \in Nat \ {0} /\ buf \in Buffers
  BY ConstantsAssumption DEF Published, TypeInv
<1>2. PICK text : text = Waiting(m) \o m.text
  OBVIOUS
<1>3. text \in Seq(Nat)
  BY <1>2, WaitingText
<1>4. PICK parts : parts = Chunks(text, Chunk)
  OBVIOUS
<1>5. Pieces(parts, text)
  BY <1>1, <1>3, <1>4, ChunksAre
<1>6. PICK rest \in Seq(Nat) : rest = <<>>
  BY EmptySeq
<1>7. Range(rest) = {} /\ Rising(rest)
  BY <1>6 DEF Range, Rising
<1>8. PICK frames : frames = Framed(m, parts, Len(parts))
  OBVIOUS
<1>9. frames \in Seq(Call) /\ (Rising(text) => FramesOf(frames, m, Range(text), Range(rest)))
  <2>1. PICK n \in 0..Len(parts) : n = Len(parts)
    BY <1>5 DEF Pieces
  <2>2. \A i \in 1..n : Below(Range(parts[i]), Range(rest))
    BY <1>7 DEF Below
  <2>3. frames = Framed(m, parts, n)
    BY <1>8, <2>1
  <2> QED
    BY <1>3, <1>5, <2>2, <2>3, FrameCalls
<1>10. PICK calls : calls = frames \o <<Frame(m, <<>>)>>
  OBVIOUS
<1>11. calls \in Seq(Call) /\ (Rising(text) => FramesOf(calls, m, Range(text), Range(rest)))
  BY <1>9, <1>10, EndFrame
<1>12. Range(rest) \subseteq Range(text)
  BY <1>7
<1>13. PICK none \in Buffer \cup {None} : none = None
  OBVIOUS
<1>14. PICK left \in Buffers : left = Put(m, none)
  BY <1>13, DropTyped
<1>15. Handles(Try(calls, Put(m, none), left), m, above)
  BY <1>1, <1>2, <1>7, <1>11, <1>12, <1>13, FramesHandle
<1>16. WebSocketEnd(m) = Try(calls, Put(m, None), Put(m, None))
  BY <1>2, <1>4, <1>8, <1>10 DEF WebSocketEnd, Framed
<1>17. WebSocketEnd(m) = Try(calls, Put(m, none), left)
  BY <1>13, <1>14, <1>16
<1> QED
  BY <1>15, <1>17

LEMMA SendOnceHandles ==
  ASSUME TypeInv, NEW m \in Message, Published(m), NEW above,
         m.kind \in {"delta", "end", "plain", "final"}
  PROVE  Handles(SendOnce(m), m, above)
<1>1. adapter \in {"telegram", "discord", "matrix", "feishu", "websocket"}
  BY DEF TypeInv, TypeOK, Adapters
<1>2. CASE m.kind = "final"
  BY <1>2, QuietHandles DEF SendOnce
<1>3. CASE m.kind = "plain"
  BY <1>3, PlainHandles DEF SendOnce
<1>4. CASE m.kind = "delta"
  <2>1. CASE adapter = "telegram"
    BY <1>4, <2>1, TelegramDeltaHandles DEF SendOnce
  <2>2. CASE adapter = "discord"
    BY <1>4, <2>2, DiscordDeltaHandles DEF SendOnce
  <2>3. CASE adapter = "matrix"
    BY <1>4, <2>3, MatrixDeltaHandles DEF SendOnce
  <2>4. CASE adapter = "feishu"
    BY <1>4, <2>4, FeishuDeltaHandles DEF SendOnce
  <2>5. CASE adapter = "websocket"
    BY <1>4, <2>5, WebSocketDeltaHandles DEF SendOnce
  <2> QED
    BY <1>1, <2>1, <2>2, <2>3, <2>4, <2>5
<1>5. CASE m.kind = "end"
  <2>1. CASE adapter = "telegram"
    BY <1>5, <2>1, TelegramEndHandles DEF SendOnce
  <2>2. CASE adapter = "discord"
    BY <1>5, <2>2, DiscordEndHandles DEF SendOnce
  <2>3. CASE adapter = "matrix"
    BY <1>5, <2>3, MatrixEndHandles DEF SendOnce
  <2>4. CASE adapter = "feishu"
    BY <1>5, <2>4, FeishuEndHandles DEF SendOnce
  <2>5. CASE adapter = "websocket"
    BY <1>5, <2>5, WebSocketEndHandles DEF SendOnce
  <2> QED
    BY <1>1, <2>1, <2>2, <2>3, <2>4, <2>5
<1> QED
  BY <1>2, <1>3, <1>4, <1>5

-----------------------------------------------------------------------------
(***************************************************************************)
(* The invariant of the dispatcher                                         *)
(***************************************************************************)

Later == Tells(pending) \cup Tells(outbound) \cup Tells(script)
Now == IF current # None THEN Said(current.msg) ELSE {}

\* What waits is in order: the message put back, the queue, then what is still
\* to be published.
QueuesInv ==
  /\ InOrder(pending) /\ Messages(pending)
  /\ InOrder(outbound) /\ Messages(outbound)
  /\ InOrder(script) /\ Messages(script)
  /\ Below(Tells(pending), Tells(outbound) \cup Tells(script))
  /\ Below(Tells(outbound), Tells(script))

\* The message being sent comes before what waits.
CurrentInv ==
  current # None => /\ Published(current.msg)
                    /\ Told(current.msg) => Rising(current.msg.text)
                    /\ Below(Now, Later)
                    /\ current.msg.kind \in {"delta", "end", "plain", "final"}

Counts == faults = 0 \/ adapter = "matrix"
ShownInv == Counts => Settled(shown, buf, Now \cup Later)

Inv == TypeInv /\ QueuesInv /\ CurrentInv /\ ShownInv

LEMMA SettledNext ==
  ASSUME adapter' = adapter, NEW above, above = (Now \cup Later)',
         Counts' => Settled(shown', buf', above)
  PROVE  ShownInv'
<1>1. Settled(shown, buf, Now \cup Later)' <=> Settled(shown', buf', above)
  BY DEF Settled, Shows, Live, Stuck
<1> QED
  BY <1>1 DEF ShownInv

LEMMA ShownStays ==
  ASSUME ShownInv, UNCHANGED <<adapter, shown, buf, faults>>,
         (Now \cup Later)' \subseteq Now \cup Later
  PROVE  ShownInv'
<1>1. PICK above : above = (Now \cup Later)'
  OBVIOUS
<1>2. PICK more : more = Now \cup Later
  OBVIOUS
<1>3. above \subseteq more
  BY <1>1, <1>2
<1>4. ASSUME Counts' PROVE Settled(shown', buf', above)
  <2>1. Counts
    BY <1>4 DEF Counts
  <2>2. Settled(shown, buf, more)
    BY <1>2, <2>1 DEF ShownInv
  <2>3. Settled(shown, buf, above)
    BY <1>3, <2>2, SettledLess
  <2>4. shown' = shown /\ buf' = buf
    OBVIOUS
  <2> QED
    BY <2>3, <2>4
<1> QED
  BY <1>1, <1>4, SettledNext

\* Of the queues and of the message that is sent.
LEMMA LaterParts ==
  ASSUME TypeInv
  PROVE  Later \subseteq Nat
<1>1. pending \in Seq(Message) /\ outbound \in Seq(Message) /\ script \in Seq(Message)
  BY DEF TypeInv, TypeOK
<1> QED
  BY <1>1, TellsAreParts DEF Later

LEMMA NoneTold ==
  /\ <<>> \in Seq(Message) /\ InOrder(<<>>) /\ Messages(<<>>) /\ Tells(<<>>) = {}
  /\ Len(<<>>) = 0
BY EmptySeq DEF InOrder, Messages, Tells

LEMMA InitInv ==
  ASSUME Init
  PROVE  Inv
<1>1. PICK p \in Plans : adapter = p.adapter /\ script = p.messages
  BY DEF Init
<1>2. /\ adapter \in Adapters /\ script \in Seq(Message) /\ Messages(script) /\ InOrder(script)
  BY <1>1, PlansAssumption DEF Messages
<1>3. /\ outbound = <<>> /\ pending = <<>> /\ current = None
      /\ buf = [k \in Keys |-> None]
      /\ shown = <<>> /\ faults = 0 /\ owed = {} /\ spoiled = {}
  BY DEF Init
<1>4. buf \in Buffers /\ \A k \in Keys : buf[k] = None
  BY <1>3 DEF Buffers
<1>5. TypeInv
  <2>1. shown \in Seq(Bubble)
    BY <1>3, EmptySeq
  <2>2. faults \in 0..MaxFaults
    BY <1>3, ConstantsAssumption
  <2>3. outbound \in Seq(Message) /\ pending \in Seq(Message) /\ Len(pending) <= 1
    BY <1>3, NoneTold
  <2>4. buf \in [Keys -> Buffer \cup {None}]
    BY <1>4 DEF Buffers
  <2> QED
    BY <1>2, <1>3, <1>4, <2>1, <2>2, <2>3, <2>4 DEF TypeInv, TypeOK
<1>6. QueuesInv
  BY <1>2, <1>3, NoneTold DEF QueuesInv, Below
<1>7. CurrentInv
  BY <1>3 DEF CurrentInv
<1>8. Settled(shown, buf, Now \cup Later)
  <2>1. DOMAIN shown = {} /\ PartsOf(shown) = {}
    BY <1>3 DEF PartsOf
  <2> QED
    BY <1>4, <2>1 DEF Settled, Live, Below, Apart, FramesFirst
<1> QED
  BY <1>5, <1>6, <1>7, <1>8 DEF Inv, ShownInv

LEMMA PublishKeeps ==
  ASSUME Inv, Publish
  PROVE  Inv'
<1>1. TypeInv /\ QueuesInv /\ CurrentInv /\ ShownInv
  BY DEF Inv
<1>2. /\ pending \in Seq(Message) /\ outbound \in Seq(Message) /\ script \in Seq(Message)
      /\ script # <<>>
  BY <1>1 DEF TypeInv, TypeOK, Publish
<1>3. PICK m \in Message : m = Head(script)
  BY <1>1, <1>2, HeadIs DEF QueuesInv
<1>4. PICK o : o = Append(outbound, m)
  OBVIOUS
<1>5. PICK s : s = Tail(script)
  OBVIOUS
<1>6. /\ outbound' = o /\ script' = s /\ owed' \in {owed, owed \cup {m}}
      /\ UNCHANGED <<adapter, pending, current, buf, shown, faults, spoiled>>
  BY <1>3, <1>4, <1>5 DEF Publish, dispatcher
<1>7. /\ Published(m) /\ Said(m) \subseteq Tells(script) /\ (Told(m) => Rising(m.text))
      /\ s \in Seq(Message) /\ InOrder(s) /\ Messages(s) /\ Tells(s) \subseteq Tells(script)
      /\ Below(Said(m), Tells(s))
  BY <1>1, <1>2, <1>3, <1>5, HeadIs DEF QueuesInv
<1>8. /\ InOrder(outbound) /\ Messages(outbound) /\ InOrder(pending) /\ Messages(pending)
      /\ Below(Tells(outbound), Tells(script))
      /\ Below(Tells(pending), Tells(outbound) \cup Tells(script))
  BY <1>1 DEF QueuesInv
<1>9. Below(Tells(outbound), Said(m))
  BY <1>7, <1>8 DEF Below
<1>10. o \in Seq(Message) /\ InOrder(o) /\ Messages(o) /\ Tells(o) = Tells(outbound) \cup Said(m)
  BY <1>2, <1>4, <1>7, <1>8, <1>9, AppendIs
<1>11. TypeInv'
  BY <1>1, <1>2, <1>6, <1>7, <1>10 DEF TypeInv, TypeOK, Buffers
<1>12. QueuesInv'
  <2>1. Below(Tells(o), Tells(s))
    BY <1>7, <1>8, <1>10 DEF Below
  <2>2. Below(Tells(pending), Tells(o) \cup Tells(s))
    BY <1>7, <1>8, <1>10 DEF Below
  <2> QED
    BY <1>6, <1>7, <1>8, <1>10, <2>1, <2>2 DEF QueuesInv
<1>13. Later' \subseteq Later /\ Now' = Now
  BY <1>6, <1>7, <1>10 DEF Later, Now
<1>14. CurrentInv'
  BY <1>1, <1>6, <1>13 DEF CurrentInv, Below
<1>15. ShownInv'
  BY <1>1, <1>6, <1>13, ShownStays
<1> QED
  BY <1>11, <1>12, <1>14, <1>15 DEF Inv

\* The message that is taken, and the rest of the queue.
Taken == IF pending # <<>> THEN Head(pending) ELSE Head(outbound)
Rest == IF pending # <<>> THEN outbound ELSE Tail(outbound)

LEMMA TakenIs ==
  ASSUME Inv, pending # <<>> \/ outbound # <<>>
  PROVE  /\ Taken \in Message /\ Published(Taken) /\ (Told(Taken) => Rising(Taken.text))
         /\ Rest \in Seq(Message) /\ InOrder(Rest) /\ Messages(Rest)
         /\ Said(Taken) \cup Tells(Rest) \subseteq Tells(pending) \cup Tells(outbound)
         /\ Below(Said(Taken), Tells(Rest)) /\ Below(Said(Taken), Tells(script))
         /\ Below(Tells(Rest), Tells(script))
<1>1. /\ pending \in Seq(Message) /\ outbound \in Seq(Message) /\ QueuesInv
  BY DEF Inv, TypeInv, TypeOK
<1>2. CASE pending # <<>>
  <2>1. /\ Head(pending) \in Message /\ Published(Head(pending))
        /\ Said(Head(pending)) \subseteq Tells(pending)
        /\ Told(Head(pending)) => Rising(Head(pending).text)
    BY <1>1, <1>2, HeadIs DEF QueuesInv
  <2>2. Taken = Head(pending) /\ Rest = outbound
    BY <1>2 DEF Taken, Rest
  <2> QED
    BY <1>1, <2>1, <2>2 DEF QueuesInv, Below
<1>3. CASE pending = <<>>
  <2>1. outbound # <<>>
    BY <1>3
  <2>2. /\ Head(outbound) \in Message /\ Published(Head(outbound))
        /\ Said(Head(outbound)) \subseteq Tells(outbound)
        /\ Told(Head(outbound)) => Rising(Head(outbound).text)
        /\ Tail(outbound) \in Seq(Message) /\ InOrder(Tail(outbound)) /\ Messages(Tail(outbound))
        /\ Tells(Tail(outbound)) \subseteq Tells(outbound)
        /\ Below(Said(Head(outbound)), Tells(Tail(outbound)))
    BY <1>1, <2>1, HeadIs DEF QueuesInv
  <2>3. Taken = Head(outbound) /\ Rest = Tail(outbound)
    BY <1>3 DEF Taken, Rest
  <2> QED
    BY <1>1, <2>2, <2>3 DEF QueuesInv, Below
<1> QED
  BY <1>2, <1>3

\* Sending n, with what is put back and the rest of the queue behind it.
LEMMA Taking ==
  ASSUME Inv, current = None, NEW n \in Message, Published(n), Told(n) => Rising(n.text),
         n.kind \in {"delta", "end", "plain", "final"},
         NEW back \in Seq(Message), Len(back) <= 1, InOrder(back), Messages(back),
         NEW rest \in Seq(Message), InOrder(rest), Messages(rest),
         Said(n) \cup Tells(back) \cup Tells(rest) \subseteq Tells(pending) \cup Tells(outbound),
         Below(Said(n), Tells(back)), Below(Said(n), Tells(rest)), Below(Said(n), Tells(script)),
         Below(Tells(back), Tells(rest)), Below(Tells(back), Tells(script)),
         Below(Tells(rest), Tells(script)),
         current' = None \/ current' = [msg |-> n, attempt |-> 1],
         pending' = back, outbound' = rest,
         UNCHANGED <<adapter, script, buf, shown, faults, owed, spoiled>>
  PROVE  Inv'
<1>1. TypeInv /\ QueuesInv /\ CurrentInv /\ ShownInv
  BY DEF Inv
<1>2. PICK c : c = [msg |-> n, attempt |-> 1]
  OBVIOUS
<1>3. c \in Sending /\ c.msg = n /\ c # None
  BY <1>2, ConstantsAssumption DEF Sending
<1>4. current' = None \/ current' = c
  BY <1>2
<1>5. TypeInv'
  BY <1>1, <1>3, <1>4 DEF TypeInv, TypeOK, Buffers
<1>6. QueuesInv'
  <2>1. Below(Tells(back), Tells(rest) \cup Tells(script))
    BY DEF Below
  <2>2. script' = script /\ InOrder(script) /\ Messages(script)
    BY <1>1 DEF QueuesInv
  <2> QED
    BY <2>1, <2>2 DEF QueuesInv
<1>7. Later' = Tells(back) \cup Tells(rest) \cup Tells(script)
  BY DEF Later
<1>8. Now' = {} \/ Now' = Said(n)
  BY <1>3, <1>4 DEF Now
<1>9. CurrentInv'
  <2>1. Below(Now', Later')
    BY <1>7, <1>8 DEF Below
  <2> QED
    BY <1>3, <1>4, <2>1 DEF CurrentInv
<1>10. (Now \cup Later)' \subseteq Now \cup Later
  BY <1>7, <1>8 DEF Later
<1>11. ShownInv'
  BY <1>1, <1>10, ShownStays
<1> QED
  BY <1>5, <1>6, <1>9, <1>11 DEF Inv

LEMMA TakeKeeps ==
  ASSUME Inv, Take
  PROVE  Inv'
<1>1. PICK m \in Message : m = Taken
  BY TakenIs DEF Take
<1>2. PICK q \in Seq(Message) : q = Rest
  BY TakenIs DEF Take
<1>3. /\ Published(m) /\ (Told(m) => Rising(m.text))
      /\ InOrder(q) /\ Messages(q)
      /\ Said(m) \cup Tells(q) \subseteq Tells(pending) \cup Tells(outbound)
      /\ Below(Said(m), Tells(q)) /\ Below(Said(m), Tells(script))
      /\ Below(Tells(q), Tells(script))
  BY <1>1, <1>2, TakenIs DEF Take
<1>4. PICK c : c = Coalesced(m, q)
  OBVIOUS
<1>5. /\ current = None /\ UNCHANGED <<adapter, script, buf, shown, faults, owed, spoiled>>
      /\ \/ /\ m.kind = "delta"
            /\ current' = [msg |-> c.msg, attempt |-> 1]
            /\ pending' = c.back /\ outbound' = c.rest
         \/ /\ m.kind \in {"end", "plain", "final"}
            /\ current' = [msg |-> m, attempt |-> 1]
            /\ pending' = <<>> /\ outbound' = q
         \/ /\ m.kind \in {"progress", "elsewhere"}
            /\ current' = None
            /\ pending' = <<>> /\ outbound' = q
  BY <1>1, <1>2, <1>4 DEF Take, Taken, Rest, history
<1>6. CASE m.kind = "delta"
  <2>1. Rising(m.text)
    BY <1>3, <1>6 DEF Told
  <2>2. /\ c.msg \in Message /\ c.msg.kind \in {"delta", "end"} /\ Published(c.msg)
        /\ Rising(c.msg.text) /\ Said(c.msg) \subseteq Said(m) \cup Tells(q)
        /\ c.back \in Seq(Message) /\ Len(c.back) <= 1 /\ Messages(c.back)
        /\ InOrder(c.back) /\ Tells(c.back) \subseteq Tells(q)
        /\ c.rest \in Seq(Message) /\ Messages(c.rest)
        /\ InOrder(c.rest) /\ Tells(c.rest) \subseteq Tells(q)
        /\ Below(Said(c.msg), Tells(c.back)) /\ Below(Said(c.msg), Tells(c.rest))
        /\ Below(Tells(c.back), Tells(c.rest))
    BY <1>3, <1>4, <1>6, <2>1, CoalescedIs
  <2>3. PICK n \in Message : n = c.msg
    BY <2>2
  <2>4. PICK back \in Seq(Message) : back = c.back
    BY <2>2
  <2>5. PICK rest \in Seq(Message) : rest = c.rest
    BY <2>2
  <2>6. /\ Published(n) /\ (Told(n) => Rising(n.text)) /\ Len(back) <= 1
        /\ n.kind \in {"delta", "end", "plain", "final"}
        /\ InOrder(back) /\ Messages(back) /\ InOrder(rest) /\ Messages(rest)
        /\ Said(n) \cup Tells(back) \cup Tells(rest) \subseteq Tells(pending) \cup Tells(outbound)
        /\ Below(Said(n), Tells(back)) /\ Below(Said(n), Tells(rest))
        /\ Below(Tells(back), Tells(rest))
    BY <1>3, <2>2, <2>3, <2>4, <2>5
  <2>7. /\ Below(Said(n), Tells(script)) /\ Below(Tells(back), Tells(script))
        /\ Below(Tells(rest), Tells(script))
    BY <1>3, <2>2, <2>3, <2>4, <2>5 DEF Below
  <2>8. current' = [msg |-> n, attempt |-> 1] /\ pending' = back /\ outbound' = rest
    BY <1>5, <1>6, <2>3, <2>4, <2>5
  <2> QED
    BY <1>5, <2>6, <2>7, <2>8, Taking
<1>7. CASE m.kind # "delta"
  <2>1. PICK back \in Seq(Message) : back = <<>>
    BY NoneTold
  <2>2. /\ InOrder(back) /\ Messages(back) /\ Tells(back) = {} /\ Len(back) <= 1
        /\ pending' = back /\ outbound' = q
    BY <1>5, <1>7, <2>1, NoneTold
  <2>3. \A S : Below(S, Tells(back)) /\ Below(Tells(back), S)
    BY <2>2 DEF Below
  <2>4. Said(m) \cup Tells(back) \cup Tells(q) \subseteq Tells(pending) \cup Tells(outbound)
    BY <1>3, <2>2
  <2>5. CASE m.kind \in {"end", "plain", "final"}
    <3>1. current' = [msg |-> m, attempt |-> 1]
      BY <1>5, <1>7, <2>5
    <3> QED
      BY <1>3, <1>5, <2>2, <2>3, <2>4, <2>5, <3>1, Taking
  <2>6. CASE m.kind \notin {"end", "plain", "final"}
    <3>1. current' = None
      BY <1>5, <1>7, <2>6
    <3>2. PICK n \in Message : n = [m EXCEPT !.kind = "final", !.text = <<>>]
      BY EmptySeq DEF Message, Parts, Kinds
    <3>3. n.kind = "final" /\ ~Told(n) /\ Said(n) = {} /\ Published(n)
      BY <3>2 DEF Told, Said, Published, Message
    <3>4. \A S : Below(Said(n), S)
      BY <3>3 DEF Below
    <3>5. Said(n) \cup Tells(back) \cup Tells(q) \subseteq Tells(pending) \cup Tells(outbound)
      BY <2>4, <3>3
    <3>6. Told(n) => Rising(n.text)
      BY <3>3
    <3> QED
      BY <1>3, <1>5, <2>2, <2>3, <3>1, <3>3, <3>4, <3>5, <3>6, Taking
  <2> QED
    BY <2>5, <2>6
<1> QED
  BY <1>6, <1>7

LEMMA SpoilsTyped ==
  ASSUME TypeInv, NEW m \in Message, Published(m)
  PROVE  /\ Spoils(m) \subseteq Streams
         /\ \A r : Unsent(m, r) \subseteq Streams \cup {None}
<1>1. buf \in [Keys -> Buffer \cup {None}] /\ Key(m) \in Keys
  BY KeyIs DEF TypeInv, TypeOK
<1>2. PICK b : b = buf[Key(m)]
  OBVIOUS
<1>3. b # None => b.stream \in Streams
  BY <1>1, <1>2 DEF Buffer
<1>4. m.kind \in {"delta", "end"} => m.stream \in Streams
  BY DEF Published
<1>5. Spoils(m) \subseteq {x \in {m.stream} : m.kind \in {"delta", "end"}}
                           \cup {x \in {b.stream} : b # None}
  BY <1>2 DEF Spoils
<1>6. m.stream \in Streams \cup {None}
  BY DEF Message
<1>7. \A r : Unsent(m, r) \subseteq {m.stream}
  BY DEF Unsent
<1> QED
  BY <1>3, <1>4, <1>5, <1>6, <1>7

LEMMA AttemptKeeps ==
  ASSUME Inv, Attempt
  PROVE  Inv'
<1>1. TypeInv /\ QueuesInv /\ CurrentInv /\ ShownInv
  BY DEF Inv
<1>2. /\ current \in Sending /\ current # None
      /\ UNCHANGED <<adapter, script, outbound, pending, owed>>
  BY <1>1 DEF Attempt, TypeInv, TypeOK
<1>3. PICK m \in Message : m = current.msg
  BY <1>2 DEF Sending
<1>4. PICK r \in SendOnce(m) :
        /\ faults + r.fault <= MaxFaults
        /\ shown' = r.shown /\ buf' = r.buf /\ faults' = faults + r.fault
        /\ spoiled' = spoiled \cup Spoils(m) \cup Unsent(m, r)
        /\ \/ r.ok /\ current' = None
           \/ ~r.ok /\ current.attempt = MaxAttempts /\ current' = None
           \/ /\ ~r.ok /\ current.attempt < MaxAttempts
              /\ current' = [current EXCEPT !.attempt = @ + 1]
  BY <1>3 DEF Attempt
<1>5. PICK above : above = Later
  OBVIOUS
<1>6. /\ Published(m) /\ (Told(m) => Rising(m.text)) /\ Now = Said(m)
      /\ Below(Said(m), above) /\ m.kind \in {"delta", "end", "plain", "final"}
  BY <1>1, <1>2, <1>3, <1>5 DEF CurrentInv, Now
<1>7. Handles(SendOnce(m), m, above)
  BY <1>1, <1>6, SendOnceHandles
<1>8. r \in Outcome /\ (Fits(m, above) => Keeps(m, above, r))
  BY <1>4, <1>7 DEF Handles
<1>9. /\ r.shown \in Seq(Bubble) /\ r.buf \in Buffers /\ r.fault \in Nat /\ r.ok \in BOOLEAN
  BY <1>8 DEF Outcome
<1>10. /\ faults \in Nat /\ MaxFaults \in Nat /\ MaxAttempts \in Nat \ {0}
       /\ current.attempt \in 1..MaxAttempts
  BY <1>1, <1>2, ConstantsAssumption DEF TypeInv, TypeOK, Sending
<1>11. /\ current' \in Sending \cup {None}
       /\ current' # None => current'.msg = m /\ ~r.ok
  <2>1. CASE current' = None
    BY <2>1
  <2>2. CASE ~r.ok /\ current.attempt < MaxAttempts
             /\ current' = [current EXCEPT !.attempt = @ + 1]
    <3>1. PICK a \in 1..MaxAttempts : a = current.attempt + 1
      BY <1>10, <2>2
    <3>2. current' = [msg |-> m, attempt |-> a]
      BY <1>2, <1>3, <2>2, <3>1 DEF Sending
    <3>3. PICK c : c = [msg |-> m, attempt |-> a]
      OBVIOUS
    <3>4. c \in Sending /\ c.msg = m
      BY <3>1, <3>3 DEF Sending
    <3>5. current' = c
      BY <3>2, <3>3
    <3> QED
      BY <2>2, <3>4, <3>5
  <2> QED
    BY <1>4, <2>1, <2>2
<1>12. TypeInv'
  <2>1. faults' \in 0..MaxFaults
    BY <1>4, <1>9, <1>10
  <2>2. spoiled' \subseteq Streams \cup {None}
    BY <1>1, <1>4, <1>6, SpoilsTyped DEF TypeInv, TypeOK
  <2>3. buf' \in Buffers
    BY <1>4, <1>9
  <2>4. buf' \in [Keys -> Buffer \cup {None}]
    BY <2>3 DEF Buffers
  <2>5. (buf \in Buffers)'
    BY <1>2, <2>3 DEF Buffers
  <2> QED
    BY <1>1, <1>2, <1>4, <1>9, <1>11, <2>1, <2>2, <2>4, <2>5 DEF TypeInv, TypeOK
<1>13. QueuesInv'
  BY <1>1, <1>2 DEF QueuesInv
<1>14. Later' = above
  BY <1>2, <1>5 DEF Later
<1>15. Now' = {} \/ (Now' = Said(m) /\ ~r.ok)
  BY <1>11 DEF Now
<1>16. CurrentInv'
  <2>1. Below(Now', Later')
    BY <1>6, <1>14, <1>15 DEF Below
  <2> QED
    BY <1>6, <1>11, <2>1 DEF CurrentInv
<1>17. ASSUME Counts' PROVE Settled(shown', buf', (Now \cup Later)')
  <2>1. Counts /\ Counted(r)
    BY <1>2, <1>4, <1>9, <1>10, <1>17 DEF Counts, Counted
  <2>2. Settled(shown, buf, Said(m) \cup above)
    BY <1>1, <1>5, <1>6, <2>1 DEF ShownInv
  <2>3. above \subseteq Nat
    BY <1>1, <1>5, LaterParts
  <2>4. Fits(m, above)
    BY <1>6, <2>2, <2>3 DEF Fits
  <2>5. PICK x : x = IF r.ok THEN above ELSE Said(m) \cup above
    OBVIOUS
  <2>6. Settled(shown', buf', x)
    BY <1>4, <1>8, <2>1, <2>4, <2>5 DEF Keeps
  <2>7. PICK y : y = (Now \cup Later)'
    OBVIOUS
  <2>8. y \subseteq x
    BY <1>14, <1>15, <2>5, <2>7
  <2>9. Settled(shown', buf', y)
    BY <2>6, <2>8, SettledLess
  <2> QED
    BY <2>7, <2>9
<1>18. ShownInv'
  BY <1>2, <1>17, SettledNext
<1> QED
  BY <1>12, <1>13, <1>16, <1>18 DEF Inv

LEMMA StutterKeeps ==
  ASSUME Inv, UNCHANGED vars
  PROVE  Inv'
<1>1. TypeInv /\ QueuesInv /\ CurrentInv /\ ShownInv
  BY DEF Inv
<1>2. UNCHANGED <<adapter, script, outbound, pending, current, buf, shown, faults, owed, spoiled>>
  BY DEF vars, dispatcher, history
<1>3. TypeInv' /\ QueuesInv' /\ Later' = Later /\ Now' = Now
  BY <1>1, <1>2 DEF TypeInv, TypeOK, Buffers, QueuesInv, Later, Now
<1>4. CurrentInv'
  BY <1>1, <1>2, <1>3 DEF CurrentInv
<1>5. ShownInv'
  BY <1>1, <1>2, <1>3, ShownStays
<1> QED
  BY <1>3, <1>4, <1>5 DEF Inv

\* The invariant holds of every state: the queues are in order, the message that
\* is sent comes before what waits, and while no call has failed the bubbles and
\* the buffers hold parts of their own, below those that are still to come.
THEOREM InvHolds == Spec => []Inv
<1>1. Init => Inv
  BY InitInv
<1>2. Inv /\ [Next]_vars => Inv'
  BY PublishKeeps, TakeKeeps, AttemptKeeps, StutterKeeps DEF Next, Quiescent
<1> QED
  BY <1>1, <1>2, PTL DEF Spec

\* The outbound side keeps its types.
THEOREM TypeCorrect == Spec => []TypeOK
<1>1. Inv => TypeOK
  BY DEF Inv, TypeInv
<1> QED
  BY <1>1, InvHolds, PTL

\* While no call fails, and for Matrix whatever fails, no part of the text is
\* shown twice and every bubble shows its parts in the order of publication.
THEOREM ShownOnceHolds == Spec => []ShownOnce
<1>1. Inv => ShownOnce
  BY DEF Inv, ShownInv, Counts, Settled, Apart, Rising, ShownOnce
<1> QED
  BY <1>1, InvHolds, PTL

-----------------------------------------------------------------------------
(***************************************************************************)
(* That nothing is left out: what the calls of an edited stream show       *)
(***************************************************************************)

\* The bubble of the j-th call: the edited one is x, the others are new.
Place(x, j) ==
  IF x = 0 THEN Len(shown) + j ELSE IF j = 1 THEN x ELSE Len(shown) + (j - 1)

Calling(calls, x) ==
  /\ calls \in Seq(Call)
  /\ \A i \in 1..Len(calls) :
       IF x # 0 /\ i = 1 THEN calls[i].op = "edit" /\ calls[i].at = x ELSE calls[i].op = "send"

\* The bubbles t after n calls.
Drawn(t, calls, n, x) ==
  /\ t \in Seq(Bubble)
  /\ Len(t) = IF x = 0 \/ n = 0 THEN Len(shown) + n ELSE Len(shown) + (n - 1)
  /\ \A i \in 1..Len(shown) : i # x \/ n = 0 => t[i] = shown[i]
  /\ \A j \in 1..n : /\ Place(x, j) \in 1..Len(t)
                     /\ t[Place(x, j)].text = calls[j].text
                     /\ t[Place(x, j)].final = calls[j].final

LEMMA FirstDraws ==
  ASSUME shown \in Seq(Bubble), NEW x \in 1..Len(shown), NEW calls, Calling(calls, x),
         NEW c, c = calls[1], calls # <<>>
  PROVE  Drawn(Perform(shown, c), calls, 1, x)
<1>1. 1 \in 1..Len(calls) /\ c \in Call /\ c.op = "edit" /\ c.at = x
  BY DEF Calling
<1>2. PICK t : t = Perform(shown, c)
  OBVIOUS
<1>3. /\ t \in Seq(Bubble) /\ Len(t) = Len(shown)
      /\ \A i \in 1..Len(shown) : i # x => t[i] = shown[i]
      /\ t[x].text = c.text /\ t[x].final = c.final
  BY <1>1, <1>2, EditedIs
<1>4. x # 0 /\ Len(shown) \in Nat
  OBVIOUS
<1>5. Place(x, 1) = x
  BY <1>4 DEF Place
<1>6. Len(t) = Len(shown) + (1 - 1) /\ \A j \in 1..1 : j = 1
  BY <1>3, <1>4
<1> QED
  BY <1>2, <1>3, <1>4, <1>5, <1>6 DEF Drawn

LEMMA NextDraws ==
  ASSUME shown \in Seq(Bubble), NEW x \in 0..Len(shown), NEW calls, Calling(calls, x),
         NEW n \in Nat, n + 1 <= Len(calls), n # 0 \/ x = 0,
         NEW s, Drawn(s, calls, n, x), NEW c, c = calls[n + 1]
  PROVE  Drawn(Perform(s, c), calls, n + 1, x)
<1>1. PICK len \in Nat : len = Len(shown)
  OBVIOUS
<1>2. n + 1 \in 1..Len(calls) /\ n + 1 # 0
  BY DEF Calling
<1>3. c \in Call /\ c.op = "send"
  BY <1>2 DEF Calling
<1>4. s \in Seq(Bubble) /\ Len(s) \in Nat
  BY DEF Drawn
<1>5. PICK t : t = Perform(s, c)
  OBVIOUS
<1>6. /\ t \in Seq(Bubble) /\ Len(t) = Len(s) + 1
      /\ \A i \in 1..Len(s) : t[i] = s[i]
      /\ t[Len(s) + 1] = [chat |-> c.chat, stream |-> c.stream, text |-> c.text, final |-> c.final]
  BY <1>3, <1>4, <1>5, AppendedIs
<1>7. t[Len(s) + 1].text = c.text /\ t[Len(s) + 1].final = c.final
  BY <1>6
<1>8. Len(s) = IF x = 0 THEN len + n ELSE len + (n - 1)
  BY <1>1 DEF Drawn
<1>9. Len(t) = (IF x = 0 THEN len + (n + 1) ELSE len + ((n + 1) - 1)) /\ len <= Len(s)
  BY <1>6, <1>8
<1>10. ASSUME NEW i \in 1..len, i # x PROVE t[i] = shown[i]
  <2>1. i \in 1..Len(s)
    BY <1>4, <1>9
  <2>2. s[i] = shown[i]
    BY <1>1, <1>10 DEF Drawn
  <2> QED
    BY <1>6, <2>1, <2>2
<1>11. ASSUME NEW j \in 1..(n + 1)
       PROVE  /\ Place(x, j) \in 1..Len(t) /\ t[Place(x, j)].text = calls[j].text
              /\ t[Place(x, j)].final = calls[j].final
  <2>1. CASE j = n + 1
    <3>1. j # 1 \/ x = 0
      BY <2>1
    <3>2. Place(x, j) = Len(s) + 1
      BY <1>1, <1>8, <2>1, <3>1 DEF Place
    <3>3. Len(s) + 1 \in 1..Len(t)
      BY <1>4, <1>6
    <3> QED
      BY <1>7, <2>1, <3>2, <3>3
  <2>2. CASE j # n + 1
    <3>1. j \in 1..n
      BY <2>2
    <3>2. PICK y \in 1..Len(s) : y = Place(x, j)
      BY <3>1 DEF Drawn
    <3>3. s[y].text = calls[j].text /\ s[y].final = calls[j].final
      BY <3>1, <3>2 DEF Drawn
    <3>4. t[y] = s[y] /\ y \in 1..Len(t)
      BY <1>4, <1>6, <3>2
    <3> QED
      BY <3>2, <3>3, <3>4
  <2> QED
    BY <2>1, <2>2
<1> QED
  BY <1>1, <1>2, <1>5, <1>6, <1>9, <1>10, <1>11 DEF Drawn

LEMMA CallsDraw ==
  ASSUME shown \in Seq(Bubble), NEW x \in 0..Len(shown), NEW calls, Calling(calls, x),
         NEW k \in 0..Len(calls)
  PROVE  Drawn(After(calls)[k], calls, k, x)
<1>1. calls \in Seq(Call) /\ Len(calls) \in Nat
  BY DEF Calling
<1>2. PICK f : f = After(calls)
  OBVIOUS
<1>3. f[0] = shown /\ \A n \in 1..Len(calls) : f[n] = Perform(f[n - 1], calls[n])
  BY <1>1, <1>2, AfterFollows
<1> DEFINE Good == {n \in Nat : n <= Len(calls) => Drawn(f[n], calls, n, x)}
<1>4. 0 \in Good
  <2>1. Len(shown) \in Nat /\ Len(shown) = Len(shown) + 0 /\ 1..0 = {}
    OBVIOUS
  <2>2. Drawn(shown, calls, 0, x)
    BY <2>1 DEF Drawn
  <2> QED
    BY <1>3, <2>2
<1>5. ASSUME NEW n \in Nat, n \in Good PROVE n + 1 \in Good
  <2> SUFFICES ASSUME n + 1 <= Len(calls) PROVE Drawn(f[n + 1], calls, n + 1, x)
    OBVIOUS
  <2>1. n <= Len(calls) /\ n + 1 \in 1..Len(calls) /\ (n + 1) - 1 = n
    BY <1>1
  <2>2. PICK s : s = f[n]
    OBVIOUS
  <2>3. Drawn(s, calls, n, x)
    BY <1>5, <2>1, <2>2
  <2>4. PICK c : c = calls[n + 1]
    OBVIOUS
  <2>5. f[n + 1] = Perform(s, c)
    BY <1>3, <2>1, <2>2, <2>4
  <2>6. CASE n # 0 \/ x = 0
    BY <2>3, <2>4, <2>5, <2>6, NextDraws
  <2>7. CASE n = 0 /\ x # 0
    <3>1. s = shown /\ x \in 1..Len(shown) /\ c = calls[1] /\ calls # <<>> /\ n + 1 = 1
      BY <1>1, <1>3, <2>1, <2>2, <2>4, <2>7
    <3>2. Drawn(Perform(shown, c), calls, 1, x)
      BY <3>1, FirstDraws
    <3> QED
      BY <2>5, <3>1, <3>2
  <2> QED
    BY <2>6, <2>7
<1>6. Nat \subseteq Good
  <2> HIDE DEF Good
  <2> QED
    BY <1>4, <1>5, SetInduction
<1>7. k \in Nat /\ k <= Len(calls)
  BY <1>1
<1> QED
  BY <1>2, <1>6, <1>7

-----------------------------------------------------------------------------
(***************************************************************************)
(* The bubbles of the buffers                                              *)
(***************************************************************************)

Editing == adapter \in {"telegram", "discord"}

\* The part of a buffered text that its one bubble can show.
First(text) == IF Editing THEN Chunks(text, Limit)[1] ELSE text

LEMMA FirstIs ==
  ASSUME NEW text \in Seq(Nat), text # <<>>
  PROVE  /\ First(text) \in Seq(Nat)
         /\ \A y : y \in Range(First(text)) <=>
              \E x \in 1..Len(text) : (Editing => x <= Limit) /\ y = text[x]
<1>1. PICK len \in Nat \ {0} : len = Len(text)
  <2>1. Len(text) \in Nat /\ Len(text) # 0
    BY EmptySeq
  <2> QED
    BY <2>1
<1>2. DOMAIN text = 1..len /\ \A x \in 1..len : text[x] \in Nat
  BY <1>1
<1>3. CASE ~Editing
  <2>1. First(text) = text
    BY <1>3 DEF First
  <2>2. \A y : y \in Range(text) <=> \E x \in 1..len : y = text[x]
    BY <1>2 DEF Range
  <2> QED
    BY <1>1, <1>3, <2>1, <2>2
<1>4. CASE Editing
  <2>1. PICK size \in Nat \ {0} : size = Limit
    BY ConstantsAssumption
  <2>2. PICK n : n = (len + size - 1) \div size
    OBVIOUS
  <2>3. n \in Nat /\ n # 0
    <3>1. PICK a \in Nat : a = len + size - 1
      <4>1. len + size - 1 \in Nat
        BY <1>1, <2>1
      <4> QED
        BY <4>1
    <3>2. n \in Nat /\ n * size <= a /\ a < n * size + size
      BY <2>2, <3>1, Division
    <3>3. n = 0 => n * size = 0
      OBVIOUS
    <3>4. size <= a
      BY <1>1, <2>1, <3>1
    <3> QED
      BY <3>2, <3>3, <3>4
  <2>4. PICK top \in 1..len : top = IF size < len THEN size ELSE len
    BY <1>1
  <2>5. Chunks(text, size)[1] = SubSeq(text, 1, top)
    <3>1. Chunks(text, size) = [i \in 1..n |->
            SubSeq(text, (i - 1) * size + 1, IF i * size < len THEN i * size ELSE len)]
      BY <1>1, <2>2 DEF Chunks
    <3>2. 1 \in 1..n /\ (1 - 1) * size + 1 = 1 /\ 1 * size = size
      BY <2>3
    <3>3. Chunks(text, size)[1] =
            SubSeq(text, (1 - 1) * size + 1, IF 1 * size < len THEN 1 * size ELSE len)
      BY <3>1, <3>2
    <3> QED
      BY <2>4, <3>2, <3>3
  <2>6. PICK s : s = SubSeq(text, 1, top)
    OBVIOUS
  <2>7. s \in Seq(Nat) /\ Len(s) = top /\ \A x \in 1..top : s[x] = text[x]
    <3>1. /\ SubSeq(text, 1, top) \in Seq(Nat)
          /\ Len(SubSeq(text, 1, top)) = IF 1 <= top THEN top - 1 + 1 ELSE 0
          /\ \A x \in 1..(top - 1 + 1) : SubSeq(text, 1, top)[x] = text[1 + x - 1]
      <4>1. 1 \in Int /\ top \in Int /\ \A x \in 1..top : text[x] \in Nat
        BY <1>2
      <4> QED
        BY <4>1, SubSeqProperties
    <3>2. 1 <= top /\ top - 1 + 1 = top /\ \A x \in 1..top : 1 + x - 1 = x
      OBVIOUS
    <3> QED
      BY <2>6, <3>1, <3>2
  <2>8. First(text) = s
    BY <1>4, <2>1, <2>5, <2>6 DEF First
  <2>9. \A y : y \in Range(s) <=> \E x \in 1..top : y = text[x]
    <3>1. DOMAIN s = 1..top
      BY <2>4, <2>7
    <3> QED
      BY <2>7, <3>1 DEF Range
  <2>10. \A x : x \in 1..top <=> x \in 1..len /\ x <= size
    BY <1>1, <2>1, <2>4
  <2> QED
    BY <1>1, <1>4, <2>1, <2>7, <2>8, <2>9, <2>10
<1> QED
  BY <1>3, <1>4

LEMMA FirstGrows ==
  ASSUME NEW a \in Seq(Nat), a # <<>>, NEW c \in Seq(Nat), NEW t, t = a \o c
  PROVE  Range(First(a)) \subseteq Range(First(t))
<1>1. PICK len \in Nat : len = Len(a)
  OBVIOUS
<1>2. t \in Seq(Nat) /\ t # <<>> /\ len <= Len(t) /\ \A x \in 1..len : t[x] = a[x]
  <2>1. t \in Seq(Nat) /\ t # <<>> /\ Len(t) = Len(a) + Len(c)
    BY JoinedTexts
  <2>2. \A x \in 1..(Len(a) + Len(c)) : t[x] = IF x <= Len(a) THEN a[x] ELSE c[x - Len(a)]
    BY ConcatProperties
  <2>3. Len(c) \in Nat
    OBVIOUS
  <2> QED
    BY <1>1, <2>1, <2>2, <2>3
<1>3. Len(t) \in Nat
  BY <1>2
<1> SUFFICES ASSUME NEW y \in Range(First(a)) PROVE y \in Range(First(t))
  OBVIOUS
<1>4. PICK x \in 1..len : (Editing => x <= Limit) /\ y = a[x]
  BY <1>1, FirstIs
<1>5. x \in 1..Len(t) /\ y = t[x]
  BY <1>2, <1>3, <1>4
<1> QED
  BY <1>2, <1>4, <1>5, FirstIs

LEMMA FirstShort ==
  ASSUME NEW text \in Seq(Nat), text # <<>>, Editing => Len(text) <= Limit
  PROVE  Range(First(text)) = Range(text)
<1>1. PICK len \in Nat : len = Len(text)
  OBVIOUS
<1>2. DOMAIN text = 1..len /\ Limit \in Nat
  BY <1>1, ConstantsAssumption
<1>3. \A y : y \in Range(text) <=> \E x \in 1..len : y = text[x]
  BY <1>2 DEF Range
<1>4. Editing => \A x \in 1..len : x <= Limit
  BY <1>1, <1>2
<1> QED
  BY <1>1, <1>3, <1>4, FirstIs

\* The bubble of a buffer shows no more than what its next edit shows again;
\* on Telegram it is not final.
Traced(b, bubbles) ==
  /\ b.bubble \in 0..Len(bubbles)
  /\ b.bubble # 0 => /\ Range(bubbles[b.bubble].text) \subseteq Range(First(b.text))
                     /\ adapter = "telegram" => ~bubbles[b.bubble].final

Followed(bubbles, bufs) ==
  /\ \A k \in Keys : bufs[k] # None => Traced(bufs[k], bubbles)
  /\ \A k, l \in Keys :
       k # l /\ bufs[k] # None /\ bufs[l] # None /\ bufs[k].bubble = bufs[l].bubble
         => bufs[k].bubble = 0

\* The bubble of b, the new buffer of m, is no other buffer's.
Alone(b, m) ==
  \A l \in Keys \ {Key(m)} : buf[l] # None /\ buf[l].bubble = b.bubble => b.bubble = 0

LEMMA DeltaTraced ==
  ASSUME TypeInv, Followed(shown, buf), NEW m \in Message, m.kind = "delta", Published(m),
         adapter # "websocket", NEW comparing \in BOOLEAN, NEW b, b = Buffered(m, comparing)
  PROVE  Traced(b, shown) /\ Alone(b, m)
<1>1. PICK k \in Keys : k = Key(m)
  BY KeyIs
<1>2. buf \in Buffers /\ shown \in Seq(Bubble) /\ Len(shown) \in Nat
  BY DEF TypeInv, TypeOK
<1>3. CASE b.bubble = 0
  BY <1>2, <1>3 DEF Traced, Alone
<1>4. CASE b.bubble # 0
  <2>1. PICK o : o = buf[k]
    OBVIOUS
  <2>2. /\ o # None /\ o \in Buffer /\ b.text = o.text \o m.text /\ b.bubble = o.bubble
    BY <1>1, <1>2, <1>4, <2>1, BufferedIs
  <2>3. Traced(o, shown)
    BY <2>1, <2>2 DEF Followed
  <2>4. o.text \in Seq(Nat) /\ o.text # <<>> /\ m.text \in Seq(Nat)
    BY <1>2, <2>1, <2>2 DEF Buffers, Buffer, Message, Parts
  <2>5. Range(First(o.text)) \subseteq Range(First(b.text))
    BY <2>2, <2>4, FirstGrows
  <2>6. Traced(b, shown)
    BY <2>2, <2>3, <2>5 DEF Traced
  <2>7. Alone(b, m)
    BY <1>1, <2>1, <2>2 DEF Followed, Alone
  <2> QED
    BY <2>6, <2>7
<1> QED
  BY <1>3, <1>4

LEMMA HeldTraced ==
  ASSUME TypeInv, Followed(shown, buf), NEW m \in Message, NEW b, b = buf[Key(m)], b # None
  PROVE  Traced(b, shown) /\ Alone(b, m)
<1>1. PICK k \in Keys : k = Key(m)
  BY KeyIs
<1>2. Traced(b, shown)
  BY <1>1 DEF Followed
<1>3. Alone(b, m)
  BY <1>1 DEF Followed, Alone
<1> QED
  BY <1>2, <1>3

\* Nothing is changed but the bubble x, and bubbles are added.
Touched(t, x) ==
  /\ t \in Seq(Bubble) /\ Len(shown) <= Len(t)
  /\ \A i \in 1..Len(shown) : i # x => t[i] = shown[i]

LEMMA FollowedStep ==
  ASSUME TypeInv, Followed(shown, buf), NEW m \in Message, NEW x \in 0..Len(shown),
         \A l \in Keys \ {Key(m)} : buf[l] # None /\ buf[l].bubble = x => x = 0,
         NEW t, Touched(t, x),
         NEW new \in Buffer \cup {None}, adapter # "websocket" /\ new # None => new.text # <<>>,
         new # None => /\ Traced(new, t)
                       /\ new.bubble = 0 \/ new.bubble = x \/ new.bubble > Len(shown)
  PROVE  Followed(t, Put(m, new))
<1>1. PICK k \in Keys : k = Key(m)
  BY KeyIs
<1>2. buf \in Buffers /\ shown \in Seq(Bubble) /\ Len(shown) \in Nat /\ Len(t) \in Nat
  BY DEF TypeInv, TypeOK, Touched
<1>3. PICK p : p = Put(m, new)
  OBVIOUS
<1>4. p[k] = new /\ \A l \in Keys \ {k} : p[l] = buf[l]
  BY <1>1, <1>2, <1>3, PutIs
<1>5. ASSUME NEW l \in Keys, l # k, p[l] # None
      PROVE  /\ Traced(p[l], t) /\ p[l].bubble \in 0..Len(shown)
             /\ p[l].bubble = x => x = 0
  <2>1. PICK o : o = buf[l]
    OBVIOUS
  <2>2. p[l] = o /\ o # None /\ Traced(o, shown) /\ (o.bubble = x => x = 0)
    BY <1>1, <1>4, <1>5, <2>1 DEF Followed
  <2>3. o.bubble \in 0..Len(shown) /\ o.bubble \in 0..Len(t)
    BY <1>2, <2>2 DEF Traced, Touched
  <2>4. o.bubble # 0 => t[o.bubble] = shown[o.bubble]
    BY <1>2, <2>2, <2>3 DEF Touched
  <2>5. Traced(o, t)
    BY <2>2, <2>3, <2>4 DEF Traced
  <2> QED
    BY <2>2, <2>3, <2>5
<1>6. \A l \in Keys : p[l] # None => Traced(p[l], t)
  BY <1>4, <1>5
<1>7. ASSUME NEW l \in Keys, NEW j \in Keys, l # j, p[l] # None, p[j] # None,
             p[l].bubble = p[j].bubble
      PROVE  p[l].bubble = 0
  <2>1. CASE l # k /\ j # k
    BY <1>4, <1>7, <2>1 DEF Followed
  <2>2. CASE l = k
    <3>1. /\ p[j].bubble \in 0..Len(shown) /\ (p[j].bubble = x => x = 0) /\ new # None
          /\ p[j].bubble = new.bubble
      BY <1>4, <1>5, <1>7, <2>2
    <3> QED
      BY <1>2, <1>4, <2>2, <3>1
  <2>3. CASE j = k
    <3>1. /\ p[l].bubble \in 0..Len(shown) /\ (p[l].bubble = x => x = 0) /\ new # None
          /\ p[l].bubble = new.bubble
      BY <1>4, <1>5, <1>7, <2>3
    <3> QED
      BY <1>2, <1>4, <2>3, <3>1
  <2> QED
    BY <2>1, <2>2, <2>3
<1> QED
  BY <1>3, <1>6, <1>7 DEF Followed

LEMMA PartsGrow ==
  ASSUME shown \in Seq(Bubble), NEW x \in 0..Len(shown), NEW t, Touched(t, x),
         x # 0 => Range(shown[x].text) \subseteq Range(t[x].text)
  PROVE  PartsOf(shown) \subseteq PartsOf(t)
<1>1. DOMAIN shown = 1..Len(shown) /\ Len(shown) \in Nat /\ DOMAIN t = 1..Len(t) /\ Len(t) \in Nat
  BY DEF Touched
<1>2. ASSUME NEW i \in 1..Len(shown) PROVE i \in 1..Len(t) /\ Range(shown[i].text) \subseteq Range(t[i].text)
  <2>1. i \in 1..Len(t)
    BY <1>1 DEF Touched
  <2>2. i # x => t[i] = shown[i]
    BY DEF Touched
  <2> QED
    BY <2>1, <2>2
<1> QED
  BY <1>1, <1>2 DEF PartsOf

-----------------------------------------------------------------------------
(***************************************************************************)
(* What an outcome must leave for nothing to be left out                   *)
(***************************************************************************)

\* The number of failing calls under which the adapter loses nothing, and what
\* of that holds for a message of the stream s.
Alive(f) ==
  \/ f = 0
  \/ adapter = "discord" /\ f < MaxAttempts
  \/ adapter = "feishu" /\ f < 2

Survived(s, f) == Alive(f) /\ (f = 0 \/ adapter = "discord" \/ s # None)

\* The text that the buffer k holds of the stream s: where the adapter does not
\* tell the streams apart, all of it.
HeldText(bufs, k, s) ==
  IF bufs[k] = None \/ (Editing /\ bufs[k].stream # s) THEN {} ELSE Range(bufs[k].text)

Lost(m, r) == spoiled \cup Spoils(m) \cup Unsent(m, r)
Reached(m, r, s) == PartsOf(r.shown) \cup HeldText(r.buf, Key(m), s)

\* A buffer without a bubble: all of a WebSocket channel are, one of a stream
\* that is lost, of a delta that is tried again, or of a card that failed.
Bare(b, m, lost, again, f) ==
  b.bubble = 0 => \/ adapter = "websocket"
                  \/ Editing /\ b.stream \in lost
                  \/ adapter = "discord" /\ m.kind = "delta" /\ b.stream = m.stream /\ again
                  \/ adapter = "feishu" /\ f >= 1

Holding(m, r) ==
  LET b == r.buf[Key(m)] IN
  b # None =>
    /\ \/ m.kind = "delta" /\ b.stream = m.stream
       \/ buf[Key(m)] # None /\ b.stream = buf[Key(m)].stream
    /\ m.kind = "end" /\ r.ok => Editing /\ (b.stream # m.stream \/ b.stream \in Lost(m, r))
    /\ Bare(b, m, Lost(m, r), ~r.ok, faults + r.fault)

Complete(m, r) ==
  /\ PartsOf(shown) \subseteq PartsOf(r.shown) /\ Followed(r.shown, r.buf)
  /\ \A k \in Keys \ {Key(m)} : r.buf[k] = buf[k]
  /\ \A s \in Streams \cup {None} :
       s \in Lost(m, r) \/ HeldText(buf, Key(m), s) \subseteq Reached(m, r, s)
  /\ r.ok /\ Survived(m.stream, faults + r.fault) =>
       m.stream \in Lost(m, r) \/ Said(m) \subseteq Reached(m, r, m.stream)
  /\ ~r.ok => (adapter = "discord" /\ r.fault = 1) \/ (Editing /\ m.stream \in Lost(m, r))
  /\ Holding(m, r)

Begun(m) ==
  Followed(shown, buf) /\ (buf[Key(m)] # None => Bare(buf[Key(m)], m, spoiled, TRUE, faults))

Completes(rs, m) ==
  Begun(m) => \A r \in rs : Alive(faults + r.fault) => Complete(m, r)

OldOrNew(b, o, m, comparing) ==
  \/ /\ o = None \/ (comparing /\ o.stream # m.stream)
     /\ b.text = m.text /\ b.stream = m.stream
  \/ /\ o # None /\ (comparing => o.stream = m.stream) /\ o \in Buffer
     /\ b.text = o.text \o m.text /\ b.stream = o.stream

LEMMA BufferedOldOrNew ==
  ASSUME buf \in Buffers, NEW m \in Message, m.kind = "delta", Published(m),
         NEW comparing \in BOOLEAN, NEW b, b = Buffered(m, comparing), NEW o, o = buf[Key(m)]
  PROVE  OldOrNew(b, o, m, comparing)
<1>1. \/ /\ buf[Key(m)] = None \/ (comparing /\ buf[Key(m)].stream # m.stream)
         /\ b.text = m.text /\ b.bubble = 0 /\ b.stream = m.stream
      \/ /\ buf[Key(m)] # None /\ (comparing => buf[Key(m)].stream = m.stream)
         /\ buf[Key(m)] \in Buffer
         /\ b.text = buf[Key(m)].text \o m.text /\ b.bubble = buf[Key(m)].bubble
         /\ b.stream = buf[Key(m)].stream
  BY BufferedIs
<1> QED
  BY <1>1 DEF OldOrNew

\* After a delta: its text is shown or in the buffer.
LEMMA DeltaCompletes ==
  ASSUME TypeInv, adapter # "websocket", NEW m \in Message, m.kind = "delta", Published(m),
         NEW comparing \in BOOLEAN, comparing => Editing, Editing => comparing, NEW b, b = Buffered(m, comparing),
         NEW new \in Buffer, new.text # <<>>, new.stream = b.stream,
         NEW r, r.buf = Put(m, new), PartsOf(shown) \subseteq PartsOf(r.shown),
         Followed(r.shown, r.buf), Range(b.text) \subseteq PartsOf(r.shown) \cup Range(new.text),
         ~r.ok => (adapter = "discord" /\ r.fault = 1) \/ (Editing /\ m.stream \in Lost(m, r)),
         Bare(new, m, Lost(m, r), ~r.ok, faults + r.fault)
  PROVE  Complete(m, r)
<1>1. PICK k \in Keys : k = Key(m)
  BY KeyIs
<1>2. buf \in Buffers /\ None \notin Buffer
  BY ConstantsAssumption DEF TypeInv
<1>3. new # None /\ new \in Buffer \cup {None}
  BY <1>2
<1>4. r.buf[k] = new /\ \A l \in Keys \ {k} : r.buf[l] = buf[l]
  BY <1>1, <1>2, <1>3, PutIs
<1>5. PICK o : o = buf[k]
  OBVIOUS
<1>6. /\ b.text \in Seq(Nat) /\ m.text \in Seq(Nat)
      /\ \/ /\ o = None \/ (Editing /\ o.stream # m.stream)
            /\ b.text = m.text /\ b.stream = m.stream
         \/ /\ o # None /\ o \in Buffer /\ (Editing => o.stream = m.stream)
            /\ b.text = o.text \o m.text /\ b.stream = o.stream
  <2>1. m.text \in Seq(Nat)
    BY DEF Message, Parts
  <2>2. b \in Buffer
    BY <1>2, BufferedIs
  <2>3. b.text \in Seq(Nat)
    BY <2>2 DEF Buffer, Parts
  <2>4. OldOrNew(b, o, m, comparing)
    BY <1>1, <1>2, <1>5, BufferedOldOrNew
  <2> QED
    BY <2>1, <2>3, <2>4 DEF OldOrNew
<1>7. /\ Range(m.text) \subseteq Range(b.text)
      /\ o # None /\ ~(Editing /\ o.stream # m.stream) => Range(o.text) \subseteq Range(b.text)
  <2>1. CASE b.text = m.text /\ (o = None \/ (Editing /\ o.stream # m.stream))
    BY <2>1
  <2>2. CASE o \in Buffer /\ b.text = o.text \o m.text
    <3>1. o.text \in Seq(Nat)
      BY <2>2 DEF Buffer, Parts
    <3>2. Range(o.text \o m.text) = Range(o.text) \cup Range(m.text)
      BY <1>6, <3>1, JoinedTexts
    <3> QED
      BY <2>2, <3>2
  <2> QED
    BY <1>6, <2>1, <2>2
<1>8. Editing => new.stream = m.stream
  BY <1>6
<1>9. \A s : ~Editing \/ s = m.stream => HeldText(r.buf, k, s) = Range(new.text)
  BY <1>3, <1>4, <1>8 DEF HeldText
<1>10. ASSUME NEW s \in Streams \cup {None}
       PROVE  s \in Lost(m, r) \/ HeldText(buf, k, s) \subseteq Reached(m, r, s)
  <2>1. CASE o = None \/ (Editing /\ o.stream # s)
    <3>1. HeldText(buf, k, s) = {}
      BY <1>5, <2>1 DEF HeldText
    <3> QED
      BY <3>1
  <2>2. CASE o # None /\ Editing /\ o.stream = s /\ s # m.stream
    <3>1. s \in Spoils(m)
      BY <1>1, <1>5, <2>2 DEF Spoils, Editing
    <3> QED
      BY <3>1 DEF Lost
  <2>3. CASE o # None /\ (~Editing \/ (o.stream = s /\ s = m.stream))
    <3>1. HeldText(buf, k, s) = Range(o.text)
      BY <1>5, <2>3 DEF HeldText
    <3>2. Range(o.text) \subseteq Range(b.text)
      BY <1>7, <2>3
    <3>3. HeldText(r.buf, k, s) = Range(new.text)
      BY <1>9, <2>3
    <3> QED
      BY <1>1, <3>1, <3>2, <3>3 DEF Reached
  <2> QED
    BY <2>1, <2>2, <2>3
<1>11. Said(m) \subseteq Reached(m, r, m.stream)
  <2>1. Said(m) = Range(m.text)
    BY DEF Said, Told
  <2>2. HeldText(r.buf, k, m.stream) = Range(new.text)
    BY <1>9
  <2> QED
    BY <1>1, <1>7, <2>1, <2>2 DEF Reached
<1>12. Holding(m, r)
  <2>1. \/ new.stream = m.stream
        \/ o # None /\ new.stream = o.stream
    BY <1>6
  <2> QED
    BY <1>1, <1>4, <1>5, <2>1 DEF Holding
<1> QED
  BY <1>1, <1>4, <1>10, <1>11, <1>12 DEF Complete

\* After an end: all of the buffer is shown.
LEMMA EndCompletes ==
  ASSUME TypeInv, NEW m \in Message, m.kind = "end",
         NEW r, r.buf = Put(m, None), PartsOf(shown) \subseteq PartsOf(r.shown),
         Followed(r.shown, r.buf), r.ok,
         adapter = "websocket" => Said(m) \subseteq PartsOf(r.shown),
         buf[Key(m)] # None => Range(buf[Key(m)].text) \subseteq PartsOf(r.shown)
  PROVE  Complete(m, r)
<1>1. PICK k \in Keys : k = Key(m)
  BY KeyIs
<1>2. buf \in Buffers /\ None \in Buffer \cup {None} /\ m.text \in Seq(Nat)
  BY DEF TypeInv, Message, Parts
<1>3. r.buf[k] = None /\ \A l \in Keys \ {k} : r.buf[l] = buf[l]
  BY <1>1, <1>2, PutIs
<1>4. \A s : HeldText(buf, k, s) \subseteq PartsOf(r.shown)
  BY <1>1 DEF HeldText
<1>5. m.stream \in Lost(m, r) \/ Said(m) \subseteq PartsOf(r.shown)
  <2>1. CASE m.text = <<>>
    <3>1. Said(m) = {}
      BY <2>1 DEF Said, Range
    <3> QED
      BY <3>1
  <2>2. CASE adapter = "websocket"
    BY <2>2
  <2>3. CASE adapter # "websocket" /\ m.text # <<>>
    <3>1. m.stream \in Spoils(m)
      BY <2>3 DEF Spoils
    <3> QED
      BY <3>1 DEF Lost
  <2> QED
    BY <2>1, <2>2, <2>3
<1>6. Holding(m, r)
  BY <1>1, <1>3 DEF Holding
<1> QED
  BY <1>1, <1>3, <1>4, <1>5, <1>6 DEF Complete, Reached

\* The buffers are left as they are.
LEMMA KeptCompletes ==
  ASSUME TypeInv, NEW m \in Message, m.kind # "delta", Begun(m),
         NEW r, r.buf = buf, PartsOf(shown) \subseteq PartsOf(r.shown), Followed(r.shown, buf),
         r.fault \in Nat,
         r.ok /\ Survived(m.stream, faults + r.fault) =>
           m.stream \in Lost(m, r) \/ Said(m) \subseteq PartsOf(r.shown),
         ~r.ok => (adapter = "discord" /\ r.fault = 1) \/ (Editing /\ m.stream \in Lost(m, r)),
         m.kind = "end" /\ r.ok /\ buf[Key(m)] # None =>
           Editing /\ (buf[Key(m)].stream # m.stream \/ buf[Key(m)].stream \in Lost(m, r))
  PROVE  Complete(m, r)
<1>1. PICK k \in Keys : k = Key(m)
  BY KeyIs
<1>2. \A s : HeldText(buf, k, s) \subseteq Reached(m, r, s)
  BY <1>1 DEF Reached
<1>3. faults \in Nat
  BY ConstantsAssumption DEF TypeInv, TypeOK
<1>4. Holding(m, r)
  <2>1. buf[k] # None => Bare(buf[k], m, spoiled, TRUE, faults)
    BY <1>1 DEF Begun
  <2>2. spoiled \subseteq Lost(m, r) /\ (faults >= 1 => faults + r.fault >= 1)
    BY <1>3 DEF Lost
  <2>3. buf[k] # None => Bare(buf[k], m, Lost(m, r), ~r.ok, faults + r.fault)
    BY <2>1, <2>2 DEF Bare
  <2> QED
    BY <1>1, <2>3 DEF Holding
<1> QED
  BY <1>1, <1>2, <1>4 DEF Complete, Reached

-----------------------------------------------------------------------------
(***************************************************************************)
(* What calls leave when they end or stop at one that fails                *)
(***************************************************************************)

\* k of the calls are made.
Stopped(r, calls, k, done, failed) ==
  /\ k \in 0..Len(calls) /\ r.shown = After(calls)[k]
  /\ \/ k = Len(calls) /\ r.buf = done /\ r.fault = 0 /\ r.ok
     \/ k < Len(calls) /\ r.buf = failed /\ r.fault = 1 /\ ~r.ok

LEMMA TryStops ==
  ASSUME NEW calls \in Seq(Call), NEW done, NEW failed, NEW r \in Try(calls, done, failed)
  PROVE  \E k \in 0..Len(calls) : Stopped(r, calls, k, done, failed)
<1>1. PICK n \in Nat : n = Len(calls)
  OBVIOUS
<1>2. \/ r = [shown |-> After(calls)[n], buf |-> done, fault |-> 0, ok |-> TRUE]
      \/ \E k \in 0..(n - 1) :
           r = [shown |-> After(calls)[k], buf |-> failed, fault |-> 1, ok |-> FALSE]
  BY <1>1 DEF Try
<1>3. CASE r = [shown |-> After(calls)[n], buf |-> done, fault |-> 0, ok |-> TRUE]
  <2>1. n \in 0..n /\ r.shown = After(calls)[n] /\ r.buf = done /\ r.fault = 0 /\ r.ok
    BY <1>3
  <2> QED
    BY <1>1, <2>1 DEF Stopped
<1>4. ASSUME NEW k \in 0..(n - 1),
             r = [shown |-> After(calls)[k], buf |-> failed, fault |-> 1, ok |-> FALSE]
      PROVE  \E j \in 0..Len(calls) : Stopped(r, calls, j, done, failed)
  <2>1. k \in 0..n /\ k < n
    BY <1>1
  <2>2. r.shown = After(calls)[k] /\ r.buf = failed /\ r.fault = 1 /\ ~r.ok
    BY <1>4
  <2> QED
    BY <1>1, <2>1, <2>2 DEF Stopped
<1> QED
  BY <1>2, <1>3, <1>4

\* The calls write over no more than they show again.
Rewrites(calls, x) ==
  /\ x \in 0..Len(shown) /\ Calling(calls, x)
  /\ x # 0 /\ calls # <<>> => Range(shown[x].text) \subseteq Range(calls[1].text)

Grown(t, calls, k, x) ==
  /\ Touched(t, x) /\ Drawn(t, calls, k, x) /\ PartsOf(shown) \subseteq PartsOf(t)
  /\ \A j \in 1..k : Range(calls[j].text) \subseteq PartsOf(t)

LEMMA CallsGrow ==
  ASSUME shown \in Seq(Bubble), NEW x, NEW calls, Rewrites(calls, x), NEW k \in 0..Len(calls),
         NEW t, t = After(calls)[k]
  PROVE  Grown(t, calls, k, x)
<1>1. x \in 0..Len(shown) /\ Calling(calls, x) /\ calls \in Seq(Call)
  BY DEF Rewrites, Calling
<1>2. Drawn(t, calls, k, x)
  BY <1>1, CallsDraw
<1>3. /\ t \in Seq(Bubble) /\ DOMAIN t = 1..Len(t) /\ Len(t) \in Nat /\ Len(shown) \in Nat
      /\ k \in Nat
  BY <1>1, <1>2 DEF Drawn
<1>4. Len(t) = IF x = 0 \/ k = 0 THEN Len(shown) + k ELSE Len(shown) + (k - 1)
  BY <1>2 DEF Drawn
<1>5. Len(shown) <= Len(t)
  BY <1>3, <1>4
<1>6. Touched(t, x)
  BY <1>2, <1>3, <1>5 DEF Touched, Drawn
<1>7. ASSUME x # 0 PROVE Range(shown[x].text) \subseteq Range(t[x].text)
  <2>1. CASE k = 0
    <3>1. t[x] = shown[x]
      BY <1>1, <1>2, <1>7, <2>1 DEF Drawn
    <3> QED
      BY <3>1
  <2>2. CASE k # 0
    <3>1. 1 \in 1..k /\ Place(x, 1) = x
      BY <1>3, <1>7, <2>2 DEF Place
    <3>2. t[x].text = calls[1].text
      BY <1>2, <3>1 DEF Drawn
    <3>3. calls # <<>>
      <4>1. Len(calls) \in Nat /\ Len(calls) # 0
        BY <1>1, <1>3, <2>2
      <4> QED
        BY <1>1, <4>1, EmptySeq
    <3> QED
      BY <1>7, <3>2, <3>3 DEF Rewrites
  <2> QED
    BY <2>1, <2>2
<1>8. PartsOf(shown) \subseteq PartsOf(t)
  BY <1>1, <1>6, <1>7, PartsGrow
<1>9. ASSUME NEW j \in 1..k PROVE Range(calls[j].text) \subseteq PartsOf(t)
  <2>1. PICK y \in 1..Len(t) : y = Place(x, j)
    BY <1>2 DEF Drawn
  <2>2. t[y].text = calls[j].text
    BY <1>2, <2>1 DEF Drawn
  <2>3. Range(t[y].text) \subseteq PartsOf(t)
    BY <1>3, <2>1, BubbleParts
  <2> QED
    BY <2>2, <2>3
<1> QED
  BY <1>2, <1>6, <1>8, <1>9 DEF Grown

\* The buffer that keeps its bubble.
LEMMA KeptTraced ==
  ASSUME TypeInv, NEW b \in Buffer, Traced(b, shown), NEW calls, NEW x, x = b.bubble,
         NEW k \in Nat, NEW t, Grown(t, calls, k, x),
         k # 0 /\ x # 0 => /\ Range(calls[1].text) \subseteq Range(First(b.text))
                           /\ adapter = "telegram" => ~calls[1].final
  PROVE  Traced(b, t)
<1>1. /\ x \in 0..Len(shown) /\ Len(shown) \in Nat /\ Len(shown) <= Len(t) /\ Len(t) \in Nat
  BY DEF TypeInv, TypeOK, Traced, Grown, Touched
<1>2. x \in 0..Len(t)
  BY <1>1
<1>3. ASSUME x # 0
      PROVE  /\ Range(t[x].text) \subseteq Range(First(b.text))
             /\ adapter = "telegram" => ~t[x].final
  <2>1. CASE k = 0
    <3>1. t[x] = shown[x]
      BY <1>1, <1>3, <2>1 DEF Grown, Drawn
    <3> QED
      BY <1>3, <3>1 DEF Traced
  <2>2. CASE k # 0
    <3>1. 1 \in 1..k /\ Place(x, 1) = x
      BY <1>3, <2>2 DEF Place
    <3>2. t[x].text = calls[1].text /\ t[x].final = calls[1].final
      BY <3>1 DEF Grown, Drawn
    <3> QED
      BY <1>3, <2>2, <3>2
  <2> QED
    BY <2>1, <2>2
<1> QED
  BY <1>2, <1>3 DEF Traced

\* The buffer that goes on in the bubble of the last call.
LEMMA LastTraced ==
  ASSUME TypeInv, NEW calls, NEW x \in 0..Len(shown), NEW k \in Nat \ {0},
         NEW t, Grown(t, calls, k, x),
         NEW new \in Buffer, new.text # <<>>, new.text = calls[k].text,
         Editing => Len(new.text) <= Limit, new.bubble = Place(x, k),
         adapter = "telegram" => ~calls[k].final
  PROVE  Traced(new, t) /\ (new.bubble = 0 \/ new.bubble = x \/ new.bubble > Len(shown))
<1>1. Len(shown) \in Nat /\ k \in 1..k /\ Len(t) \in Nat
  BY DEF TypeInv, TypeOK, Grown, Touched
<1>2. PICK y \in 1..Len(t) : y = Place(x, k)
  BY <1>1 DEF Grown, Drawn
<1>3. t[y].text = calls[k].text /\ t[y].final = calls[k].final
  BY <1>1, <1>2 DEF Grown, Drawn
<1>4. new.text \in Seq(Nat)
  BY DEF Buffer, Parts
<1>5. Range(First(new.text)) = Range(new.text)
  BY <1>4, FirstShort
<1>6. Traced(new, t)
  BY <1>1, <1>2, <1>3, <1>5 DEF Traced
<1>7. y = x \/ y > Len(shown)
  BY <1>1, <1>2 DEF Place
<1> QED
  BY <1>2, <1>6, <1>7

\* No buffer changes.
LEMMA FollowedSame ==
  ASSUME TypeInv, Followed(shown, buf), NEW x, NEW t, Touched(t, x),
         \A l \in Keys : buf[l] # None /\ buf[l].bubble = x /\ x # 0 => Traced(buf[l], t)
  PROVE  Followed(t, buf)
<1>1. Len(shown) \in Nat /\ Len(t) \in Nat /\ Len(shown) <= Len(t)
  BY DEF TypeInv, TypeOK, Touched
<1>2. ASSUME NEW l \in Keys, buf[l] # None PROVE Traced(buf[l], t)
  <2>1. PICK o : o = buf[l]
    OBVIOUS
  <2>2. Traced(o, shown)
    BY <1>2, <2>1 DEF Followed
  <2>3. o.bubble \in 0..Len(shown) /\ o.bubble \in 0..Len(t)
    BY <1>1, <2>2 DEF Traced
  <2>4. CASE o.bubble = x /\ x # 0
    BY <1>2, <2>1, <2>4
  <2>5. CASE o.bubble = 0
    BY <2>1, <2>3, <2>5 DEF Traced
  <2>6. CASE o.bubble # x /\ o.bubble # 0
    <3>1. t[o.bubble] = shown[o.bubble]
      BY <1>1, <2>3, <2>6 DEF Touched
    <3> QED
      BY <2>1, <2>2, <2>3, <3>1 DEF Traced
  <2> QED
    BY <2>4, <2>5, <2>6
<1> QED
  BY <1>2 DEF Followed

-----------------------------------------------------------------------------
(***************************************************************************)
(* The deltas of the channels that edit                                    *)
(***************************************************************************)

\* A delta of an adapter whose buffers have bubbles.
Streamed(m, comparing) ==
  /\ adapter # "websocket" /\ m \in Message /\ m.kind = "delta" /\ Published(m)
  /\ comparing \in BOOLEAN /\ (comparing => Editing) /\ (Editing => comparing)

\* The buffer new takes the place of b: what it no longer holds is shown.
Goes(m, r, b, t, new) ==
  /\ Touched(t, b.bubble) /\ PartsOf(shown) \subseteq PartsOf(t)
  /\ new \in Buffer /\ new.text # <<>> /\ new.stream = b.stream /\ Traced(new, t)
  /\ new.bubble = 0 \/ new.bubble = b.bubble \/ new.bubble > Len(shown)
  /\ Range(b.text) \subseteq PartsOf(t) \cup Range(new.text)
  /\ r.shown = t /\ r.buf = Put(m, new)
  /\ ~r.ok => (adapter = "discord" /\ r.fault = 1) \/ (Editing /\ m.stream \in Lost(m, r))
  /\ Bare(new, m, Lost(m, r), ~r.ok, faults + r.fault)

LEMMA DeltaStep ==
  ASSUME TypeInv, NEW m, Begun(m), NEW comparing, Streamed(m, comparing),
         NEW b, b = Buffered(m, comparing), NEW r, NEW t, NEW new, Goes(m, r, b, t, new)
  PROVE  Complete(m, r)
<1>0. /\ Touched(t, b.bubble) /\ PartsOf(shown) \subseteq PartsOf(t)
      /\ new \in Buffer /\ new.text # <<>> /\ new.stream = b.stream /\ Traced(new, t)
      /\ new.bubble = 0 \/ new.bubble = b.bubble \/ new.bubble > Len(shown)
      /\ Range(b.text) \subseteq PartsOf(t) \cup Range(new.text)
      /\ r.shown = t /\ r.buf = Put(m, new)
      /\ ~r.ok => (adapter = "discord" /\ r.fault = 1) \/ (Editing /\ m.stream \in Lost(m, r))
      /\ Bare(new, m, Lost(m, r), ~r.ok, faults + r.fault)
  BY DEF Goes
<1>1. /\ adapter # "websocket" /\ m \in Message /\ m.kind = "delta" /\ Published(m)
      /\ comparing \in BOOLEAN /\ (comparing => Editing) /\ (Editing => comparing)
  BY DEF Streamed
<1>2. Followed(shown, buf)
  BY DEF Begun
<1>3. Traced(b, shown) /\ Alone(b, m)
  BY <1>1, <1>2, DeltaTraced
<1>4. PICK x \in 0..Len(shown) : x = b.bubble
  BY <1>3 DEF Traced
<1>5. \A l \in Keys \ {Key(m)} : buf[l] # None /\ buf[l].bubble = x => x = 0
  BY <1>3, <1>4 DEF Alone
<1>6. new \in Buffer \cup {None}
  BY <1>0
<1>7. Followed(t, Put(m, new))
  BY <1>0, <1>1, <1>2, <1>4, <1>5, <1>6, FollowedStep
<1>8. Followed(r.shown, r.buf)
  BY <1>0, <1>7
<1> QED
  BY <1>0, <1>1, <1>8, DeltaCompletes

\* The buffer keeps the text, and its bubble if it has one.
LEMMA DeltaKept ==
  ASSUME TypeInv, NEW m, Begun(m), NEW comparing, Streamed(m, comparing),
         NEW b, b = Buffered(m, comparing),
         NEW t, Touched(t, b.bubble), PartsOf(shown) \subseteq PartsOf(t), Traced(b, t),
         NEW r, r.shown = t, r.buf = Put(m, b),
         ~r.ok => (adapter = "discord" /\ r.fault = 1) \/ (Editing /\ m.stream \in Lost(m, r)),
         Bare(b, m, Lost(m, r), ~r.ok, faults + r.fault)
  PROVE  Complete(m, r)
<1>1. m \in Message /\ m.kind = "delta" /\ Published(m) /\ comparing \in BOOLEAN /\ buf \in Buffers
  BY DEF Streamed, TypeInv
<1>2. b \in Buffer /\ b.text # <<>>
  BY <1>1, BufferedIs
<1>3. Goes(m, r, b, t, b)
  BY <1>2 DEF Goes
<1> QED
  BY <1>3, DeltaStep

LEMMA DeltaBuffered ==
  ASSUME TypeInv, NEW m, Begun(m), NEW comparing, Streamed(m, comparing),
         NEW b, b = Buffered(m, comparing)
  PROVE  /\ b \in Buffer /\ b.text \in Seq(Nat) /\ b.text # <<>> /\ b.bubble \in Nat
         /\ b.bubble \in 0..Len(shown) /\ Traced(b, shown) /\ Touched(shown, b.bubble)
         /\ Editing => b.stream = m.stream
<1>1. /\ adapter # "websocket" /\ m \in Message /\ m.kind = "delta" /\ Published(m)
      /\ comparing \in BOOLEAN /\ (Editing => comparing) /\ buf \in Buffers
      /\ shown \in Seq(Bubble) /\ Len(shown) \in Nat
  BY DEF Streamed, TypeInv, TypeOK
<1>2. b \in Buffer /\ b.text # <<>>
  BY <1>1, BufferedIs
<1>3. b.text \in Seq(Nat) /\ b.bubble \in Nat
  BY <1>2 DEF Buffer, Parts
<1>4. Traced(b, shown)
  BY <1>1, DeltaTraced DEF Begun
<1>5. b.bubble \in 0..Len(shown)
  BY <1>4 DEF Traced
<1>6. PICK o : o = buf[Key(m)]
  OBVIOUS
<1>7. OldOrNew(b, o, m, comparing)
  BY <1>1, <1>6, BufferedOldOrNew
<1>8. Editing => b.stream = m.stream
  BY <1>1, <1>7 DEF OldOrNew
<1> QED
  BY <1>1, <1>2, <1>3, <1>4, <1>5, <1>8 DEF Touched

\* No call.
LEMMA DeltaQuiet ==
  ASSUME TypeInv, NEW m, NEW comparing, Streamed(m, comparing), NEW b, b = Buffered(m, comparing),
         b.bubble # 0
  PROVE  Completes(Quietly(Put(m, b)), m)
<1> SUFFICES ASSUME Begun(m), NEW r \in Quietly(Put(m, b)) PROVE Complete(m, r)
  BY DEF Completes
<1>1. r.shown = shown /\ r.buf = Put(m, b) /\ r.ok
  BY DEF Quietly
<1>2. Traced(b, shown) /\ Touched(shown, b.bubble)
  BY DeltaBuffered
<1>3. Bare(b, m, Lost(m, r), ~r.ok, faults + r.fault)
  BY DEF Bare
<1> QED
  BY <1>1, <1>2, <1>3, DeltaKept

\* A first bubble over the limit.
LEMMA DeltaRefused ==
  ASSUME TypeInv, NEW m, Streamed(m, TRUE), NEW b, b = Buffered(m, TRUE),
         b.bubble = 0, Len(b.text) > Limit
  PROVE  Completes(Refused(Put(m, b)), m)
<1> SUFFICES ASSUME Begun(m), NEW r \in Refused(Put(m, b)) PROVE Complete(m, r)
  BY DEF Completes
<1>1. PICK comparing \in BOOLEAN : comparing = TRUE
  OBVIOUS
<1>2. Streamed(m, comparing) /\ b = Buffered(m, comparing) /\ Editing /\ m.kind = "delta"
  BY <1>1 DEF Streamed
<1>3. r.shown = shown /\ r.buf = Put(m, b) /\ ~r.ok
  <2>1. r = [shown |-> shown, buf |-> Put(m, b), fault |-> 0, ok |-> FALSE]
    BY DEF Refused
  <2> QED
    BY <2>1
<1>4. Traced(b, shown) /\ Touched(shown, b.bubble) /\ b.stream = m.stream
  BY <1>2, DeltaBuffered
<1>5. m.stream \in Spoils(m)
  BY <1>2 DEF Spoils, Editing
<1>6. m.stream \in Lost(m, r)
  BY <1>5 DEF Lost
<1>7. Bare(b, m, Lost(m, r), ~r.ok, faults + r.fault)
  BY <1>2, <1>4, <1>6 DEF Bare
<1> QED
  BY <1>2, <1>3, <1>4, <1>6, <1>7, DeltaKept

\* The first bubble of a stream: the call succeeds, or the adapter tries again.
LEMMA DeltaSent ==
  ASSUME TypeInv, NEW m, Begun(m), NEW comparing, Streamed(m, comparing),
         NEW b, b = Buffered(m, comparing), b.bubble = 0, Editing => Len(b.text) <= Limit,
         NEW c \in Call, c.op = "send", c.text = b.text, adapter = "telegram" => ~c.final,
         NEW a, a = [b EXCEPT !.bubble = Len(shown) + 1], NEW r, NEW k \in {0, 1},
         r.shown = After(<<c>>)[k],
         IF k = 1 THEN r.buf = Put(m, a) /\ r.ok
         ELSE r.buf = Put(m, b) /\ \/ adapter = "discord" /\ r.fault = 1 /\ ~r.ok
                                   \/ adapter = "feishu" /\ faults + r.fault >= 1 /\ r.ok
  PROVE  Complete(m, r)
<1>1. /\ b \in Buffer /\ b.text \in Seq(Nat) /\ b.text # <<>>
      /\ Traced(b, shown) /\ Touched(shown, b.bubble) /\ (Editing => b.stream = m.stream)
  BY DeltaBuffered
<1>2. shown \in Seq(Bubble) /\ Len(shown) \in Nat
  BY DEF TypeInv, TypeOK
<1>3. PICK calls : calls = <<c>>
  OBVIOUS
<1>4. calls \in Seq(Call) /\ Len(calls) = 1 /\ calls[1] = c
  BY <1>3
<1>5. Rewrites(calls, 0)
  BY <1>2, <1>4 DEF Rewrites, Calling
<1>6. PICK t : t = After(calls)[k]
  OBVIOUS
<1>7. Grown(t, calls, k, 0)
  <2>1. k \in 0..Len(calls)
    BY <1>4
  <2> QED
    BY <1>2, <1>5, <1>6, <2>1, CallsGrow
<1>8. Touched(t, b.bubble) /\ PartsOf(shown) \subseteq PartsOf(t) /\ r.shown = t
  BY <1>3, <1>6, <1>7 DEF Grown
<1>9. CASE k = 1
  <2>1. a \in Buffer /\ a.text = b.text /\ a.stream = b.stream /\ a.bubble = Len(shown) + 1
    BY <1>1, <1>2 DEF Buffer
  <2>2. PICK x \in 0..Len(shown) : x = 0
    BY <1>2
  <2>3. k \in Nat \ {0} /\ Grown(t, calls, k, x) /\ a.text = calls[k].text /\ calls[k] = c
    BY <1>4, <1>7, <1>9, <2>1, <2>2
  <2>4. a.bubble = Place(x, k) /\ a.bubble # 0 /\ a.bubble > Len(shown)
    BY <1>2, <1>9, <2>1, <2>2 DEF Place
  <2>5. Traced(a, t)
    <3>1. a.text # <<>> /\ (Editing => Len(a.text) <= Limit)
      BY <1>1, <2>1
    <3>2. adapter = "telegram" => ~calls[k].final
      BY <2>3
    <3> QED
      BY <2>1, <2>3, <2>4, <3>1, <3>2, LastTraced
  <2>6. Bare(a, m, Lost(m, r), ~r.ok, faults + r.fault)
    BY <2>4 DEF Bare
  <2>7. r.buf = Put(m, a) /\ r.ok
    BY <1>9
  <2>8. Goes(m, r, b, t, a)
    BY <1>1, <1>8, <2>1, <2>4, <2>5, <2>6, <2>7 DEF Goes
  <2> QED
    BY <2>8, DeltaStep
<1>10. CASE k = 0
  <2>1. Traced(b, t)
    <3>1. t = shown
      BY <1>4, <1>6, <1>10, AfterFollows
    <3> QED
      BY <1>1, <3>1
  <2>2. Bare(b, m, Lost(m, r), ~r.ok, faults + r.fault)
    <3>1. adapter = "discord" => b.stream = m.stream /\ m.kind = "delta"
      BY <1>1 DEF Editing, Streamed
    <3> QED
      BY <1>10, <3>1 DEF Bare
  <2> QED
    BY <1>8, <1>10, <2>1, <2>2, DeltaKept
<1> QED
  BY <1>9, <1>10

\* The bubble of a stream is edited: the buffer keeps the text.
LEMMA DeltaEdited ==
  ASSUME TypeInv, NEW m, Begun(m), NEW comparing, Streamed(m, comparing),
         NEW b, b = Buffered(m, comparing), b.bubble # 0,
         NEW c \in Call, c.op = "edit", c.at = b.bubble,
         Range(c.text) = Range(First(b.text)), adapter = "telegram" => ~c.final,
         NEW r, NEW k \in {0, 1}, r.shown = After(<<c>>)[k], r.buf = Put(m, b),
         r.ok \/ (adapter = "discord" /\ r.fault = 1)
  PROVE  Complete(m, r)
<1>1. b \in Buffer /\ Traced(b, shown) /\ b.bubble \in 0..Len(shown)
  BY DeltaBuffered
<1>2. shown \in Seq(Bubble)
  BY DEF TypeInv, TypeOK
<1>3. PICK calls : calls = <<c>>
  OBVIOUS
<1>4. calls \in Seq(Call) /\ Len(calls) = 1 /\ calls[1] = c
  BY <1>3
<1>5. PICK x : x = b.bubble
  OBVIOUS
<1>6. Rewrites(calls, x)
  <2>1. Calling(calls, x)
    BY <1>4, <1>5 DEF Calling
  <2> QED
    BY <1>1, <1>4, <1>5, <2>1 DEF Rewrites, Traced
<1>7. PICK t : t = After(calls)[k]
  OBVIOUS
<1>8. Grown(t, calls, k, x)
  <2>1. k \in 0..Len(calls)
    BY <1>4
  <2> QED
    BY <1>2, <1>6, <1>7, <2>1, CallsGrow
<1>9. Touched(t, x) /\ PartsOf(shown) \subseteq PartsOf(t) /\ r.shown = t
  BY <1>3, <1>7, <1>8 DEF Grown
<1>10. Traced(b, t)
  <2>1. k \in Nat
    OBVIOUS
  <2> QED
    BY <1>1, <1>4, <1>5, <1>8, <2>1, KeptTraced
<1>11. Bare(b, m, Lost(m, r), ~r.ok, faults + r.fault)
  BY DEF Bare
<1> QED
  BY <1>5, <1>9, <1>10, <1>11, DeltaKept

\* The calls, with what they say of their bubble.
LEMMA PreviewIs ==
  ASSUME NEW m \in Message, NEW t \in Seq(Nat), NEW c, c = Preview(m, t)
  PROVE  c \in Call /\ c.op = "send" /\ c.text = t /\ ~c.final
<1>1. PICK s : s = SendCall(m, t)
  OBVIOUS
<1>2. s \in Call /\ s.op = "send" /\ s.text = t
  BY <1>1 DEF SendCall, Call, Message, Parts
<1>3. PICK no \in BOOLEAN : no = FALSE
  OBVIOUS
<1>4. c = [s EXCEPT !.final = no]
  BY <1>1, <1>3 DEF Preview
<1>5. c \in Call /\ c.op = "send" /\ c.text = t /\ c.final = no
  BY <1>2, <1>4 DEF Call
<1> QED
  BY <1>3, <1>5

LEMMA EditIs ==
  ASSUME NEW m \in Message, NEW at \in Nat, NEW t \in Seq(Nat), NEW final \in BOOLEAN,
         NEW c, c = EditCall(m, at, t, final)
  PROVE  c \in Call /\ c.op = "edit" /\ c.at = at /\ c.text = t /\ c.final = final
<1>1. PICK s : s = SendCall(m, t)
  OBVIOUS
<1>2. s \in Call /\ s.text = t
  BY <1>1 DEF SendCall, Call, Message, Parts
<1>3. c = [s EXCEPT !.op = "edit", !.at = at, !.final = final]
  BY <1>1 DEF EditCall
<1> QED
  BY <1>2, <1>3 DEF Call

\* What is logged, not raised.
Quieted(r, calls, k, done, failed) ==
  /\ r.ok /\ r.shown = After(calls)[k]
  /\ \/ k = Len(calls) /\ r.buf = done /\ r.fault = 0
     \/ k < Len(calls) /\ r.buf = failed /\ r.fault = 1

LEMMA UnreportedStops ==
  ASSUME NEW calls \in Seq(Call), NEW done, NEW failed,
         NEW r \in Unreported(Try(calls, done, failed))
  PROVE  \E k \in 0..Len(calls) : Quieted(r, calls, k, done, failed)
<1>1. PICK n \in Nat : n = Len(calls)
  OBVIOUS
<1>2. PICK q \in Try(calls, done, failed) : r = [q EXCEPT !.ok = TRUE]
  BY DEF Unreported
<1>3. \/ q = [shown |-> After(calls)[n], buf |-> done, fault |-> 0, ok |-> TRUE]
      \/ \E k \in 0..(n - 1) :
           q = [shown |-> After(calls)[k], buf |-> failed, fault |-> 1, ok |-> FALSE]
  BY <1>1 DEF Try
<1>4. CASE q = [shown |-> After(calls)[n], buf |-> done, fault |-> 0, ok |-> TRUE]
  <2>1. r.shown = After(calls)[n] /\ r.buf = done /\ r.fault = 0 /\ r.ok
    BY <1>2, <1>4
  <2>2. n \in 0..Len(calls)
    BY <1>1
  <2> QED
    BY <1>1, <2>1, <2>2 DEF Quieted
<1>5. ASSUME NEW k \in 0..(n - 1),
             q = [shown |-> After(calls)[k], buf |-> failed, fault |-> 1, ok |-> FALSE]
      PROVE  /\ r.ok /\ r.shown = After(calls)[k] /\ r.buf = failed /\ r.fault = 1
             /\ k \in 0..n /\ k < n
  <2>1. r.shown = After(calls)[k] /\ r.buf = failed /\ r.fault = 1 /\ r.ok
    BY <1>2, <1>5
  <2> QED
    BY <1>1, <2>1
<1> QED
  BY <1>1, <1>3, <1>4, <1>5 DEF Quieted

\* While they can make up for a failing call, Discord raises and Feishu logs.
LEMMA AliveFault ==
  ASSUME TypeInv, NEW f \in Nat, Alive(faults + f)
  PROVE  /\ f # 0 => adapter \in {"discord", "feishu"}
         /\ f # 0 /\ adapter = "feishu" => faults = 0 /\ f = 1
<1>1. faults \in Nat
  BY ConstantsAssumption DEF TypeInv, TypeOK
<1> QED
  BY <1>1 DEF Alive

LEMMA SentCompletes ==
  ASSUME TypeInv, NEW m, NEW comparing, Streamed(m, comparing),
         NEW b, b = Buffered(m, comparing), b.bubble = 0, Editing => Len(b.text) <= Limit,
         NEW c \in Call, c.op = "send", c.text = b.text, adapter = "telegram" => ~c.final,
         NEW a, a = [b EXCEPT !.bubble = Len(shown) + 1]
  PROVE  /\ adapter # "feishu" => Completes(Try(<<c>>, Put(m, a), Put(m, b)), m)
         /\ adapter # "discord" => Completes(Unreported(Try(<<c>>, Put(m, a), Put(m, b))), m)
<1>1. PICK calls : calls = <<c>>
  OBVIOUS
<1>2. calls \in Seq(Call) /\ Len(calls) = 1
  BY <1>1
<1>3. ASSUME adapter # "feishu", Begun(m), NEW r \in Try(calls, Put(m, a), Put(m, b)),
             Alive(faults + r.fault)
      PROVE  Complete(m, r)
  <2>1. PICK k \in 0..Len(calls) : Stopped(r, calls, k, Put(m, a), Put(m, b))
    BY <1>2, <1>3, TryStops
  <2>2. k \in {0, 1} /\ r.shown = After(<<c>>)[k] /\ r.fault \in Nat
    BY <1>1, <1>2, <2>1 DEF Stopped
  <2>3. IF k = 1 THEN r.buf = Put(m, a) /\ r.ok
        ELSE r.buf = Put(m, b) /\ r.fault = 1 /\ ~r.ok
    BY <1>2, <2>1, <2>2 DEF Stopped
  <2>4. r.fault # 0 => adapter = "discord"
    BY <1>3, <2>2, AliveFault
  <2>5. IF k = 1 THEN r.buf = Put(m, a) /\ r.ok
        ELSE r.buf = Put(m, b) /\ \/ adapter = "discord" /\ r.fault = 1 /\ ~r.ok
                                  \/ adapter = "feishu" /\ faults + r.fault >= 1 /\ r.ok
    BY <2>3, <2>4
  <2> QED
    BY <1>3, <2>2, <2>5, DeltaSent
<1>4. ASSUME adapter # "discord", Begun(m), NEW r \in Unreported(Try(calls, Put(m, a), Put(m, b))),
             Alive(faults + r.fault)
      PROVE  Complete(m, r)
  <2>1. PICK k \in 0..Len(calls) : Quieted(r, calls, k, Put(m, a), Put(m, b))
    BY <1>2, <1>4, UnreportedStops
  <2>2. k \in {0, 1} /\ r.shown = After(<<c>>)[k] /\ r.fault \in Nat
    BY <1>1, <1>2, <2>1 DEF Quieted
  <2>3. IF k = 1 THEN r.buf = Put(m, a) /\ r.ok
        ELSE r.buf = Put(m, b) /\ r.fault = 1 /\ r.ok
    BY <1>2, <2>1, <2>2 DEF Quieted
  <2>4. r.fault # 0 => adapter = "feishu" /\ faults = 0
    BY <1>4, <2>2, AliveFault
  <2>5. IF k = 1 THEN r.buf = Put(m, a) /\ r.ok
        ELSE r.buf = Put(m, b) /\ \/ adapter = "discord" /\ r.fault = 1 /\ ~r.ok
                                  \/ adapter = "feishu" /\ faults + r.fault >= 1 /\ r.ok
    BY <2>3, <2>4
  <2> QED
    BY <1>4, <2>2, <2>5, DeltaSent
<1> QED
  BY <1>1, <1>3, <1>4 DEF Completes

LEMMA EditedCompletes ==
  ASSUME TypeInv, NEW m, NEW comparing, Streamed(m, comparing),
         NEW b, b = Buffered(m, comparing), b.bubble # 0,
         NEW c \in Call, c.op = "edit", c.at = b.bubble,
         Range(c.text) = Range(First(b.text)), adapter = "telegram" => ~c.final
  PROVE  /\ adapter # "feishu" => Completes(Try(<<c>>, Put(m, b), Put(m, b)), m)
         /\ adapter # "discord" => Completes(Unreported(Try(<<c>>, Put(m, b), Put(m, b))), m)
<1>1. PICK calls : calls = <<c>>
  OBVIOUS
<1>2. calls \in Seq(Call) /\ Len(calls) = 1
  BY <1>1
<1>3. ASSUME adapter # "feishu", Begun(m), NEW r \in Try(calls, Put(m, b), Put(m, b)),
             Alive(faults + r.fault)
      PROVE  Complete(m, r)
  <2>1. PICK k \in 0..Len(calls) : Stopped(r, calls, k, Put(m, b), Put(m, b))
    BY <1>2, <1>3, TryStops
  <2>2. /\ k \in {0, 1} /\ r.shown = After(<<c>>)[k] /\ r.buf = Put(m, b) /\ r.fault \in Nat
        /\ r.ok \/ r.fault = 1
    BY <1>1, <1>2, <2>1 DEF Stopped
  <2>3. r.fault # 0 => adapter = "discord"
    BY <1>3, <2>2, AliveFault
  <2>4. r.ok \/ (adapter = "discord" /\ r.fault = 1)
    BY <2>2, <2>3
  <2> QED
    BY <1>3, <2>2, <2>4, DeltaEdited
<1>4. ASSUME Begun(m), NEW r \in Unreported(Try(calls, Put(m, b), Put(m, b)))
      PROVE  Complete(m, r)
  <2>1. PICK k \in 0..Len(calls) : Quieted(r, calls, k, Put(m, b), Put(m, b))
    BY <1>2, <1>4, UnreportedStops
  <2>2. k \in {0, 1} /\ r.shown = After(<<c>>)[k] /\ r.buf = Put(m, b) /\ r.ok
    BY <1>1, <1>2, <2>1 DEF Quieted
  <2> QED
    BY <1>4, <2>2, DeltaEdited
<1> QED
  BY <1>1, <1>3, <1>4 DEF Completes

LEMMA CompletesBoth ==
  ASSUME NEW m, NEW rs, NEW more, Completes(rs, m), Completes(more, m)
  PROVE  Completes(rs \cup more, m)
BY DEF Completes

LEMMA StreamedDelta ==
  ASSUME TypeInv, NEW m \in Message, m.kind = "delta", Published(m), adapter # "websocket"
  PROVE  \E comparing \in BOOLEAN : (comparing <=> Editing) /\ Streamed(m, comparing)
<1>1. PICK comparing \in BOOLEAN : comparing <=> Editing
  OBVIOUS
<1> QED
  BY <1>1 DEF Streamed

LEMMA DeltaTexts ==
  ASSUME TypeInv, NEW m, NEW comparing, Streamed(m, comparing), NEW b, b = Buffered(m, comparing)
  PROVE  /\ m \in Message /\ b \in Buffer /\ b.text # <<>> /\ b.text \in Seq(Nat) /\ b.bubble \in Nat
         /\ First(b.text) \in Seq(Nat)
<1>1. buf \in Buffers /\ m \in Message /\ m.kind = "delta" /\ Published(m) /\ comparing \in BOOLEAN
  BY DEF TypeInv, Streamed
<1>2. b \in Buffer /\ b.text # <<>>
  BY <1>1, BufferedIs
<1>3. b.text \in Seq(Nat) /\ b.bubble \in Nat
  BY <1>2 DEF Buffer, Parts
<1> QED
  BY <1>1, <1>2, <1>3, FirstIs

\* The first bubble of a stream, and its edits.
LEMMA FirstDelta ==
  ASSUME TypeInv, NEW m, NEW comparing, Streamed(m, comparing), NEW b, b = Buffered(m, comparing),
         b.bubble = 0, Editing => Len(b.text) <= Limit,
         NEW a, a = [b EXCEPT !.bubble = Len(shown) + 1],
         NEW calls, calls = <<Preview(m, b.text)>>
  PROVE  /\ adapter # "feishu" => Completes(Try(calls, Put(m, a), Put(m, b)), m)
         /\ adapter # "discord" => Completes(Unreported(Try(calls, Put(m, a), Put(m, b))), m)
<1>1. PICK c : c = Preview(m, b.text)
  OBVIOUS
<1>2. c \in Call /\ c.op = "send" /\ c.text = b.text /\ ~c.final
  BY <1>1, DeltaTexts, PreviewIs
<1>3. calls = <<c>>
  BY <1>1
<1> QED
  BY <1>2, <1>3, SentCompletes

LEMMA EditDelta ==
  ASSUME TypeInv, NEW m, NEW comparing, Streamed(m, comparing), NEW b, b = Buffered(m, comparing),
         b.bubble # 0, NEW calls, calls = <<EditCall(m, b.bubble, First(b.text), FALSE)>>,
         NEW quiet, quiet = Quietly(Put(m, b))
  PROVE  /\ adapter # "feishu" => Completes(quiet \cup Try(calls, Put(m, b), Put(m, b)), m)
         /\ adapter # "discord" => Completes(quiet \cup Unreported(Try(calls, Put(m, b), Put(m, b))), m)
<1>1. PICK no \in BOOLEAN : no = FALSE
  OBVIOUS
<1>2. PICK c : c = EditCall(m, b.bubble, First(b.text), no)
  OBVIOUS
<1>3. c \in Call /\ c.op = "edit" /\ c.at = b.bubble /\ c.text = First(b.text) /\ c.final = no
  <2>1. PICK t \in Seq(Nat) : t = First(b.text)
    BY DeltaTexts
  <2>2. PICK at \in Nat : at = b.bubble
    BY DeltaTexts
  <2>3. m \in Message /\ c = EditCall(m, at, t, no)
    BY <1>2, <2>1, <2>2, DeltaTexts
  <2> QED
    BY <2>1, <2>2, <2>3, EditIs
<1>4. calls = <<c>>
  BY <1>1, <1>2
<1>5. Completes(quiet, m)
  BY DeltaQuiet
<1>6. /\ adapter # "feishu" => Completes(Try(<<c>>, Put(m, b), Put(m, b)), m)
      /\ adapter # "discord" => Completes(Unreported(Try(<<c>>, Put(m, b), Put(m, b))), m)
  BY <1>1, <1>3, EditedCompletes
<1> QED
  BY <1>4, <1>5, <1>6, CompletesBoth

\* A text that is over the limit before it has a bubble is refused.
LEMMA NoBubbleCompletes ==
  ASSUME TypeInv, Editing, NEW m, Streamed(m, TRUE), NEW b, b = Buffered(m, TRUE), b.bubble = 0
  PROVE  Completes(IF Len(b.text) > Limit THEN Refused(Put(m, b))
                   ELSE Try(<<Preview(m, b.text)>>,
                            Put(m, [b EXCEPT !.bubble = Len(shown) + 1]), Put(m, b)), m)
<1>1. PICK comparing : comparing = TRUE
  OBVIOUS
<1>2. Streamed(m, comparing) /\ b = Buffered(m, comparing) /\ adapter # "feishu"
  BY <1>1 DEF Editing
<1>3. PICK calls : calls = <<Preview(m, b.text)>>
  OBVIOUS
<1>4. PICK a : a = [b EXCEPT !.bubble = Len(shown) + 1]
  OBVIOUS
<1>5. CASE Len(b.text) > Limit
  BY <1>5, DeltaRefused
<1>6. CASE ~(Len(b.text) > Limit)
  <2>1. Len(b.text) <= Limit
    <3>1. PICK t \in Seq(Nat) : t = b.text
      BY <1>2, DeltaTexts
    <3>2. Len(t) \in Nat /\ Limit \in Nat
      BY ConstantsAssumption
    <3>3. ~(Len(t) > Limit)
      BY <1>6, <3>1
    <3>4. Len(t) <= Limit
      BY <3>2, <3>3
    <3> QED
      BY <3>1, <3>4
  <2>2. Completes(Try(calls, Put(m, a), Put(m, b)), m)
    BY <1>2, <1>3, <1>4, <2>1, FirstDelta
  <2> QED
    BY <1>3, <1>4, <1>6, <2>2
<1> QED
  BY <1>5, <1>6

\* A channel that is not found: the buffer keeps the text, which a stream without
\* a bubble may never show.
LEMMA DeltaUnresolved ==
  ASSUME TypeInv, adapter = "discord", NEW m, Streamed(m, TRUE), NEW b, b = Buffered(m, TRUE)
  PROVE  Completes(Unresolved(shown, Put(m, b)), m)
<1> SUFFICES ASSUME Begun(m), NEW r \in Unresolved(shown, Put(m, b)) PROVE Complete(m, r)
  BY DEF Completes
<1>1. PICK comparing \in BOOLEAN : comparing = TRUE
  OBVIOUS
<1>2. Streamed(m, comparing) /\ b = Buffered(m, comparing) /\ Editing /\ m.kind = "delta"
  BY <1>1 DEF Streamed
<1>3. r.shown = shown /\ r.buf = Put(m, b) /\ r.ok /\ r.fault = 1
  <2>1. r = [shown |-> shown, buf |-> Put(m, b), fault |-> 1, ok |-> TRUE]
    BY DEF Unresolved
  <2> QED
    BY <2>1
<1>4. Traced(b, shown) /\ Touched(shown, b.bubble) /\ b.stream = m.stream
  BY <1>2, DeltaBuffered
<1>5. Bare(b, m, Lost(m, r), ~r.ok, faults + r.fault)
  <2>1. b.bubble = 0 => m.stream \in Unsent(m, r)
    BY <1>2, <1>3 DEF Unsent
  <2>2. b.bubble = 0 => m.stream \in Lost(m, r)
    BY <2>1 DEF Lost
  <2> QED
    BY <1>2, <1>4, <2>2 DEF Bare
<1> QED
  BY <1>2, <1>3, <1>4, <1>5, DeltaKept

LEMMA DiscordDeltaCompletes ==
  ASSUME TypeInv, adapter = "discord", NEW m, Streamed(m, TRUE)
  PROVE  Completes(DiscordDelta(m), m)
<1>1. PICK comparing : comparing = TRUE
  OBVIOUS
<1>2. PICK b : b = Buffered(m, TRUE)
  OBVIOUS
<1>3. Streamed(m, comparing) /\ b = Buffered(m, comparing) /\ adapter # "feishu" /\ Editing
  BY <1>1, <1>2 DEF Editing
<1>4. PICK lost : lost = Unresolved(shown, Put(m, b))
  OBVIOUS
<1>5. Completes(lost, m)
  BY <1>2, <1>4, DeltaUnresolved
<1>6. CASE b.bubble = 0
  <2>1. PICK sent : sent = IF Len(b.text) > Limit THEN Refused(Put(m, b))
                           ELSE Try(<<Preview(m, b.text)>>,
                                    Put(m, [b EXCEPT !.bubble = Len(shown) + 1]), Put(m, b))
    OBVIOUS
  <2>2. DiscordDelta(m) = lost \cup sent
    BY <1>2, <1>4, <1>6, <2>1 DEF DiscordDelta
  <2>3. Completes(sent, m)
    BY <1>2, <1>3, <1>6, <2>1, NoBubbleCompletes
  <2> QED
    BY <1>5, <2>2, <2>3, CompletesBoth
<1>7. CASE b.bubble # 0
  <2>1. PICK calls : calls = <<EditCall(m, b.bubble, First(b.text), FALSE)>>
    OBVIOUS
  <2>2. First(b.text) = Chunks(b.text, Limit)[1]
    BY <1>3 DEF First
  <2>3. DiscordDelta(m) = lost \cup (Quietly(Put(m, b)) \cup Try(calls, Put(m, b), Put(m, b)))
    BY <1>2, <1>4, <1>7, <2>1, <2>2 DEF DiscordDelta
  <2> QED
    <3>1. PICK quiet : quiet = Quietly(Put(m, b))
      OBVIOUS
    <3>2. Completes(quiet \cup Try(calls, Put(m, b), Put(m, b)), m)
      BY <1>3, <1>7, <2>1, <3>1, EditDelta, ZenonT(40)
    <3> QED
      BY <1>5, <2>3, <3>1, <3>2, CompletesBoth
<1> QED
  BY <1>6, <1>7

LEMMA MatrixDeltaCompletes ==
  ASSUME TypeInv, adapter = "matrix", NEW m, Streamed(m, FALSE)
  PROVE  Completes(MatrixDelta(m), m)
<1>1. PICK comparing : comparing = FALSE
  OBVIOUS
<1>2. PICK b : b = Buffered(m, FALSE)
  OBVIOUS
<1>3. Streamed(m, comparing) /\ b = Buffered(m, comparing) /\ adapter # "discord" /\ ~Editing
  BY <1>1, <1>2 DEF Editing
<1>4. b \in Buffer
  BY <1>3, DeltaTexts
<1>5. CASE b.bubble = 0
  <2>1. PICK a : a = [b EXCEPT !.bubble = Len(shown) + 1]
    OBVIOUS
  <2>2. PICK calls : calls = <<Preview(m, b.text)>>
    OBVIOUS
  <2>3. a = [b EXCEPT !.bubble = IF @ = 0 THEN Len(shown) + 1 ELSE @]
    BY <1>4, <1>5, <2>1 DEF Buffer
  <2>4. MatrixDelta(m) = Unreported(Try(calls, Put(m, a), Put(m, b)))
    BY <1>2, <1>5, <2>2, <2>3 DEF MatrixDelta
  <2> QED
    BY <1>3, <1>5, <2>1, <2>2, <2>4, FirstDelta
<1>6. CASE b.bubble # 0
  <2>1. PICK calls : calls = <<EditCall(m, b.bubble, First(b.text), FALSE)>>
    OBVIOUS
  <2>2. First(b.text) = b.text
    BY <1>3 DEF First
  <2>3. b = [b EXCEPT !.bubble = IF @ = 0 THEN Len(shown) + 1 ELSE @]
    BY <1>4, <1>6 DEF Buffer
  <2>4. MatrixDelta(m) = Quietly(Put(m, b)) \cup Unreported(Try(calls, Put(m, b), Put(m, b)))
    BY <1>2, <1>6, <2>1, <2>2, <2>3 DEF MatrixDelta
  <2>5. Completes(Quietly(Put(m, b)) \cup Unreported(Try(calls, Put(m, b), Put(m, b))), m)
    BY <1>3, <1>6, <2>1, EditDelta
  <2> QED
    BY <2>4, <2>5
<1> QED
  BY <1>5, <1>6

\* A card that stays empty has a bubble: the first text is in the buffer.
LEMMA FeishuDeltaCompletes ==
  ASSUME TypeInv, adapter = "feishu", NEW m, Streamed(m, FALSE)
  PROVE  Completes(FeishuDelta(m), m)
<1>1. PICK comparing : comparing = FALSE
  OBVIOUS
<1>2. PICK b : b = Buffered(m, FALSE)
  OBVIOUS
<1>3. Streamed(m, comparing) /\ b = Buffered(m, comparing) /\ adapter # "discord" /\ ~Editing
  BY <1>1, <1>2 DEF Editing
<1>4. m \in Message /\ b \in Buffer /\ b.text \in Seq(Nat) /\ b.text # <<>>
  BY <1>3, DeltaTexts
<1>5. CASE b.bubble = 0
  <2>1. PICK a : a = [b EXCEPT !.bubble = Len(shown) + 1]
    OBVIOUS
  <2>2. PICK calls : calls = <<Preview(m, b.text)>>
    OBVIOUS
  <2>3. PICK card : card = Try(calls, Put(m, a), Put(m, b))
    OBVIOUS
  <2>4. PICK c : c = Preview(m, <<>>)
    OBVIOUS
  <2>5. c \in Call /\ c.op = "send" /\ c.text = <<>>
    <3>1. PICK t \in Seq(Nat) : t = <<>>
      BY EmptySeq
    <3>2. c = Preview(m, t)
      BY <2>4, <3>1
    <3>3. c \in Call /\ c.op = "send" /\ c.text = t
      BY <1>4, <3>2, PreviewIs
    <3> QED
      BY <3>1, <3>3
  <2>6. PICK blank : blank = [shown |-> Perform(shown, c), buf |-> Put(m, a),
                              fault |-> 1, ok |-> FALSE]
    OBVIOUS
  <2>7. PICK q : q = [blank EXCEPT !.ok = TRUE]
    OBVIOUS
  <2>8. FeishuDelta(m) = Unreported(card) \cup {q}
    <3>1. FeishuCard(m, b) = card \cup {blank}
      BY <2>1, <2>2, <2>3, <2>4, <2>6 DEF FeishuCard
    <3>2. FeishuDelta(m) = Unreported(card \cup {blank})
      BY <1>2, <1>5, <3>1 DEF FeishuDelta
    <3> QED
      BY <2>7, <3>2 DEF Unreported
  <2>9. Completes(Unreported(card), m)
    BY <1>3, <1>5, <2>1, <2>2, <2>3, FirstDelta
  <2>10. ASSUME Begun(m) PROVE Complete(m, q)
    <3>1. q.shown = Perform(shown, c) /\ q.buf = Put(m, a) /\ q.ok
      BY <2>6, <2>7
    <3>2. PICK t : t = Perform(shown, c)
      OBVIOUS
    <3>3. shown \in Seq(Bubble) /\ Len(shown) \in Nat
      BY DEF TypeInv, TypeOK
    <3>4. /\ t \in Seq(Bubble) /\ Len(t) = Len(shown) + 1
          /\ \A i \in 1..Len(shown) : t[i] = shown[i]
          /\ t[Len(shown) + 1].text = <<>>
      <4>1. /\ t \in Seq(Bubble) /\ Len(t) = Len(shown) + 1
            /\ \A i \in 1..Len(shown) : t[i] = shown[i]
            /\ t[Len(shown) + 1] = [chat |-> c.chat, stream |-> c.stream,
                                    text |-> c.text, final |-> c.final]
        BY <2>5, <3>2, <3>3, AppendedIs
      <4> QED
        BY <2>5, <4>1
    <3>5. PICK x \in 0..Len(shown) : x = 0
      BY <3>3
    <3>6. Touched(t, x)
      BY <3>3, <3>4 DEF Touched
    <3>7. PartsOf(shown) \subseteq PartsOf(t)
      BY <3>3, <3>5, <3>6, PartsGrow
    <3>8. /\ a \in Buffer /\ a.text = b.text /\ a.stream = b.stream
          /\ a.bubble = Len(shown) + 1 /\ a.bubble # 0 /\ a.bubble > Len(shown)
      BY <1>4, <2>1, <3>3 DEF Buffer
    <3>9. Traced(a, t)
      <4>1. Range(<<>>) = {}
        BY DEF Range
      <4> QED
        BY <1>3, <3>3, <3>4, <3>8, <4>1 DEF Traced, Editing
    <3>10. Bare(a, m, Lost(m, q), ~q.ok, faults + q.fault)
      BY <3>8 DEF Bare
    <3>11. Goes(m, q, b, t, a)
      BY <1>4, <1>5, <3>1, <3>2, <3>5, <3>6, <3>7, <3>8, <3>9, <3>10 DEF Goes
    <3> QED
      BY <1>3, <2>10, <3>11, DeltaStep
  <2>11. Completes({q}, m)
    BY <2>10 DEF Completes
  <2> QED
    BY <2>8, <2>9, <2>11, CompletesBoth
<1>6. CASE b.bubble # 0
  <2>1. PICK calls : calls = <<EditCall(m, b.bubble, First(b.text), FALSE)>>
    OBVIOUS
  <2>2. First(b.text) = b.text
    BY <1>3 DEF First
  <2>3. FeishuDelta(m) = Quietly(Put(m, b)) \cup Unreported(Try(calls, Put(m, b), Put(m, b)))
    BY <1>2, <1>6, <2>1, <2>2 DEF FeishuDelta
  <2> QED
    <3>1. PICK quiet : quiet = Quietly(Put(m, b))
      OBVIOUS
    <3>2. Completes(quiet \cup Unreported(Try(calls, Put(m, b), Put(m, b))), m)
      BY <1>3, <1>6, <2>1, <3>1, EditDelta, ZenonT(40)
    <3> QED
      BY <2>3, <3>1, <3>2
<1> QED
  BY <1>5, <1>6

LEMMA ChunkShort ==
  ASSUME NEW text \in Seq(Nat), NEW size \in Nat \ {0}, NEW i \in 1..Len(Chunks(text, size))
  PROVE  Len(Chunks(text, size)[i]) <= size
<1>1. PICK len \in Nat : len = Len(text)
  OBVIOUS
<1>2. i \in 1..((len + size - 1) \div size)
  BY <1>1, ChunksAre
<1>3. /\ (i - 1) * size \in Nat /\ i * size \in Nat
      /\ (i - 1) * size < len /\ i * size = (i - 1) * size + size
  BY <1>2, ChunkBounds
<1>4. PICK a \in Nat : a = (i - 1) * size
  BY <1>3
<1>5. PICK d \in Nat : d = i * size
  BY <1>3
<1>6. PICK b \in Nat : b = IF d < len THEN d ELSE len
  OBVIOUS
<1>7. Chunks(text, size)[i] = SubSeq(text, a + 1, b)
  BY <1>1, <1>2, <1>4, <1>5, <1>6 DEF Chunks
<1>8. a < b /\ b <= a + size /\ b <= len
  <2>1. a < len /\ d = a + size
    BY <1>3, <1>4, <1>5
  <2> QED
    BY <1>6, <2>1
<1>9. \A x \in (a + 1)..b : text[x] \in Nat
  BY <1>1, <1>8
<1>10. Len(SubSeq(text, a + 1, b)) = b - a
  <2>1. a + 1 \in Int /\ b \in Int
    OBVIOUS
  <2>2. Len(SubSeq(text, a + 1, b)) = IF a + 1 <= b THEN b - (a + 1) + 1 ELSE 0
    BY <1>9, <2>1, SubSeqProperties
  <2> QED
    BY <1>8, <2>2
<1> QED
  BY <1>7, <1>8, <1>10

LEMMA CallsForCalling ==
  ASSUME NEW b, NEW parts, NEW calls, CallsFor(calls, parts, b)
  PROVE  Calling(calls, b.bubble)
<1>1. calls \in Seq(Call)
  BY DEF CallsFor
<1> QED
  BY <1>1 DEF CallsFor, Calling

\* Where a failing call may lose text, none of those that count has failed.
LEMMA SureTry ==
  ASSUME TypeInv, adapter \notin {"discord", "feishu"}, NEW calls \in Seq(Call), NEW done, NEW failed,
         NEW r \in Try(calls, done, failed), Alive(faults + r.fault)
  PROVE  r.shown = After(calls)[Len(calls)] /\ r.buf = done /\ r.ok
<1>1. PICK k \in 0..Len(calls) : Stopped(r, calls, k, done, failed)
  BY TryStops
<1>2. r.fault \in Nat
  BY <1>1 DEF Stopped
<1>3. r.fault = 0
  BY <1>2, AliveFault
<1>4. r.shown = After(calls)[Len(calls)] /\ r.buf = done /\ r.ok = TRUE
  BY <1>3, TryWithoutFault, Zenon
<1> QED
  BY <1>4

\* A text that no longer fits the bubble goes on in new ones.
Spread(m, b, parts, more, calls, e) ==
  /\ parts = Chunks(b.text, Limit) /\ more = PreviewsAfter(m, parts) /\ more # <<>>
  /\ calls = <<EditCall(m, b.bubble, parts[1], FALSE)>> \o more
  /\ e = [b EXCEPT !.bubble = Len(shown) + Len(more), !.text = parts[Len(parts)]]

LEMMA SpreadCalls ==
  ASSUME NEW m \in Message, NEW b \in Buffer, b.text # <<>>, b.bubble # 0,
         NEW parts, NEW more, NEW calls, NEW e, Spread(m, b, parts, more, calls, e)
  PROVE  /\ Pieces(parts, b.text) /\ Len(parts) \in Nat
         /\ parts[Len(parts)] \in Seq(Nat) /\ parts[Len(parts)] # <<>>
         /\ CallsFor(calls, parts, b) /\ Len(calls) = Len(parts)
         /\ Len(more) = Len(parts) - 1 /\ Len(parts) > 1
         /\ ~calls[Len(parts)].final
<1>1. PICK no \in BOOLEAN : no = FALSE
  OBVIOUS
<1>2. PICK sends : sends = SendsAfter(m, parts)
  OBVIOUS
<1>3. PICK edit : edit = EditCall(m, b.bubble, parts[1], no)
  OBVIOUS
<1>4. parts = Chunks(b.text, Limit) /\ more = PreviewsAfter(m, parts) /\ more # <<>>
  BY DEF Spread
<1>5. calls = <<edit>> \o more
  BY <1>1, <1>3 DEF Spread
<1>6. /\ Pieces(parts, b.text) /\ Len(parts) \in Nat \ {0}
      /\ parts[Len(parts)] \in Seq(Nat) /\ parts[Len(parts)] # <<>>
      /\ CallsFor(<<edit>>, parts, b)
      /\ Len(<<edit>>) = 1
      /\ \A u \in {sends, more} :
          /\ u \in Seq(Call) /\ Len(u) = Len(parts) - 1
          /\ CallsFor(<<edit>> \o u, parts, b) /\ Len(<<edit>> \o u) = Len(parts)
  BY <1>2, <1>3, <1>4, SplitCalls
<1>7. /\ more \in Seq(Call) /\ Len(more) = Len(parts) - 1
      /\ CallsFor(calls, parts, b) /\ Len(calls) = Len(parts)
  BY <1>5, <1>6
<1>8. PICK n \in Nat : n = Len(parts)
  BY <1>6
<1>9. n > 1
  <2>1. Len(more) # 0
    BY <1>4, <1>7, EmptySeq
  <2> QED
    BY <1>6, <1>7, <1>8, <2>1
<1>10. PICK i \in 1..(n - 1) : i = n - 1
  BY <1>9
<1>11. calls[n] = more[i]
  <2>1. <<edit>> \in Seq(Call)
    BY <1>6 DEF CallsFor
  <2>2. edit \in Call
    <3>1. PICK s : s = <<edit>>
      OBVIOUS
    <3>2. s \in Seq(Call) /\ Len(s) = 1 /\ s[1] = edit
      BY <2>1, <3>1
    <3>3. 1 \in 1..Len(s)
      BY <3>2
    <3>4. s[1] \in Call
      BY <3>2, <3>3, ElementOfSeq
    <3> QED
      BY <3>2, <3>4
  <2>3. (<<edit>> \o more)[i + 1] = more[i]
    BY <1>7, <1>8, <2>2, FollowedBy
  <2>4. i + 1 = n
    BY <1>10
  <2> QED
    BY <1>5, <2>3, <2>4
<1>12. more[i] = Preview(m, parts[n])
  <2>1. i + 1 = n /\ i \in 1..(Len(parts) - 1)
    BY <1>8, <1>10
  <2> QED
    BY <1>4, <2>1 DEF PreviewsAfter
<1>13. ~calls[n].final
  <2>1. PICK last \in Seq(Nat) : last = parts[n]
    BY <1>6, <1>8
  <2>2. PICK c : c = Preview(m, last)
    OBVIOUS
  <2>3. ~c.final
    BY <2>2, PreviewIs
  <2> QED
    BY <1>11, <1>12, <2>1, <2>2, <2>3
<1> QED
  BY <1>6, <1>7, <1>8, <1>9, <1>13

LEMMA SpreadDelta ==
  ASSUME TypeInv, adapter = "telegram", NEW m, NEW comparing, Streamed(m, comparing),
         NEW b, b = Buffered(m, comparing), b.bubble # 0,
         NEW parts, NEW more, NEW calls, NEW e, Spread(m, b, parts, more, calls, e)
  PROVE  Completes(Try(calls, Put(m, e), Put(m, b)), m)
<1> SUFFICES ASSUME Begun(m), NEW r \in Try(calls, Put(m, e), Put(m, b)),
                    Alive(faults + r.fault)
             PROVE  Complete(m, r)
  BY DEF Completes
<1>1. shown \in Seq(Bubble) /\ Len(shown) \in Nat /\ Editing
  BY DEF TypeInv, TypeOK, Editing
<1>2. m \in Message /\ b \in Buffer /\ b.text # <<>> /\ b.text \in Seq(Nat) /\ b.bubble \in Nat
  BY DeltaTexts
<1>3. b.bubble \in 0..Len(shown) /\ Traced(b, shown)
  BY DeltaBuffered
<1>4. /\ Pieces(parts, b.text) /\ Len(parts) \in Nat
      /\ parts[Len(parts)] \in Seq(Nat) /\ parts[Len(parts)] # <<>>
      /\ CallsFor(calls, parts, b) /\ Len(calls) = Len(parts)
      /\ Len(more) = Len(parts) - 1 /\ Len(parts) > 1
      /\ ~calls[Len(parts)].final
  BY <1>2, SpreadCalls
<1>5. PICK n \in Nat : n = Len(parts)
  BY <1>4
<1>6. Len(more) = n - 1 /\ n > 1 /\ Len(calls) = n /\ n \in 0..Len(calls) /\ ~calls[n].final
  BY <1>4, <1>5
<1>7. /\ calls \in Seq(Call) /\ \A i \in 1..n : calls[i].text = parts[i]
  <2>1. CallsFor(calls, parts, b)
    BY <1>4
  <2>2. calls \in Seq(Call) /\ \A i \in 1..Len(calls) : calls[i].text = parts[i]
    BY <2>1 DEF CallsFor
  <2> QED
    BY <1>6, <2>2
<1>8. parts = Chunks(b.text, Limit)
      /\ e = [b EXCEPT !.bubble = Len(shown) + Len(more), !.text = parts[Len(parts)]]
  BY DEF Spread
<1>9. PICK t : t = After(calls)[n]
  OBVIOUS
<1>10. r.shown = t /\ r.buf = Put(m, e) /\ r.ok
  <2>1. PICK done : done = Put(m, e)
    OBVIOUS
  <2>2. PICK failed : failed = Put(m, b)
    OBVIOUS
  <2>3. r \in Try(calls, done, failed) /\ Alive(faults + r.fault)
    BY <2>1, <2>2
  <2>4. r.shown = After(calls)[Len(calls)] /\ r.buf = done /\ r.ok
    BY <1>7, <2>3, SureTry
  <2> QED
    BY <1>6, <1>9, <2>1, <2>4
<1>11. PICK x \in 0..Len(shown) : x = b.bubble
  BY <1>3
<1>12. Rewrites(calls, x)
  <2>1. Calling(calls, x)
    BY <1>4, <1>11, CallsForCalling
  <2>2. calls[1].text = First(b.text)
    <3>1. 1 \in 1..n
      BY <1>6
    <3> QED
      BY <1>1, <1>7, <1>8, <3>1 DEF First
  <2> QED
    BY <1>3, <1>11, <2>1, <2>2 DEF Rewrites, Traced
<1>13. Grown(t, calls, n, x)
  BY <1>1, <1>6, <1>9, <1>12, CallsGrow
<1>14. PICK y \in Nat : y = Len(shown) + Len(more)
  BY <1>1, <1>6
<1>15. /\ e \in Buffer /\ e.bubble = y /\ e.text = parts[n] /\ e.stream = b.stream
       /\ e.text # <<>> /\ e.text \in Seq(Nat)
  <2>1. PICK last \in Seq(Nat) : last = parts[n]
    BY <1>4, <1>5
  <2>2. e = [b EXCEPT !.bubble = y, !.text = last]
    BY <1>5, <1>8, <1>14, <2>1
  <2>3. e \in Buffer /\ e.bubble = y /\ e.text = last /\ e.stream = b.stream
    BY <1>2, <2>1, <2>2 DEF Buffer, Parts
  <2> QED
    BY <1>4, <1>5, <2>1, <2>3
<1>16. Len(e.text) <= Limit
  <2>1. PICK text \in Seq(Nat) : text = b.text
    BY <1>2
  <2>2. PICK size \in Nat \ {0} : size = Limit
    BY ConstantsAssumption
  <2>3. parts = Chunks(text, size) /\ n \in 1..Len(parts)
    BY <1>5, <1>6, <1>8, <2>1, <2>2
  <2> QED
    BY <1>15, <2>2, <2>3, ChunkShort
<1>17. y = Place(x, n) /\ x # 0 /\ n # 0 /\ n \in 1..n /\ n \in Nat \ {0}
  BY <1>1, <1>6, <1>11, <1>14 DEF Place
<1>18. Traced(e, t) /\ (e.bubble = 0 \/ e.bubble = x \/ e.bubble > Len(shown))
  <2>1. e.text = calls[n].text /\ e.bubble = Place(x, n)
    BY <1>7, <1>15, <1>17
  <2> QED
    BY <1>6, <1>11, <1>13, <1>15, <1>16, <1>17, <2>1, LastTraced
<1>19. Range(b.text) \subseteq PartsOf(t)
  <2>1. Range(b.text) = UNION {Range(parts[i]) : i \in 1..n}
    BY <1>4, <1>5 DEF Pieces
  <2>2. \A i \in 1..n : Range(parts[i]) \subseteq PartsOf(t)
    BY <1>7, <1>13 DEF Grown
  <2> QED
    BY <2>1, <2>2
<1>20. Bare(e, m, Lost(m, r), ~r.ok, faults + r.fault)
  <2>1. e.bubble # 0
    BY <1>1, <1>6, <1>14, <1>15
  <2> QED
    BY <2>1 DEF Bare
<1>21. Touched(t, b.bubble) /\ PartsOf(shown) \subseteq PartsOf(t)
  BY <1>11, <1>13 DEF Grown
<1>22. Goes(m, r, b, t, e)
  BY <1>10, <1>11, <1>15, <1>18, <1>19, <1>20, <1>21 DEF Goes
<1> QED
  BY <1>22, DeltaStep

LEMMA TelegramDeltaCompletes ==
  ASSUME TypeInv, adapter = "telegram", NEW m, Streamed(m, TRUE)
  PROVE  Completes(TelegramDelta(m), m)
<1>1. PICK comparing : comparing = TRUE
  OBVIOUS
<1>2. PICK b : b = Buffered(m, TRUE)
  OBVIOUS
<1>3. Streamed(m, comparing) /\ b = Buffered(m, comparing) /\ adapter # "feishu" /\ Editing
  BY <1>1, <1>2 DEF Editing
<1>4. b \in Buffer /\ b.text \in Seq(Nat)
  BY <1>3, DeltaTexts
<1>5. CASE b.bubble = 0
  <2>1. TelegramDelta(m) = IF Len(b.text) > Limit THEN Refused(Put(m, b))
                           ELSE Try(<<Preview(m, b.text)>>,
                                    Put(m, [b EXCEPT !.bubble = Len(shown) + 1]), Put(m, b))
    BY <1>2, <1>5 DEF TelegramDelta
  <2> QED
    BY <1>2, <1>3, <1>5, <2>1, NoBubbleCompletes
<1>6. CASE b.bubble # 0
  <2>1. PICK parts : parts = Chunks(b.text, Limit)
    OBVIOUS
  <2>2. PICK more : more = PreviewsAfter(m, parts)
    OBVIOUS
  <2>3. PICK edit : edit = EditCall(m, b.bubble, parts[1], FALSE)
    OBVIOUS
  <2>4. PICK e : e = [b EXCEPT !.bubble = IF more = <<>> THEN @ ELSE Len(shown) + Len(more),
                               !.text = IF more = <<>> THEN @ ELSE parts[Len(parts)]]
    OBVIOUS
  <2>5. PICK calls : calls = <<edit>> \o more
    OBVIOUS
  <2>6. TelegramDelta(m) = Quietly(Put(m, b)) \cup Try(calls, Put(m, e), Put(m, b))
    BY <1>2, <1>6, <2>1, <2>2, <2>3, <2>4, <2>5 DEF TelegramDelta, PreviewsAfter
  <2>7. parts[1] = First(b.text)
    BY <1>3, <2>1 DEF First
  <2>8. CASE more = <<>>
    <3>1. e = b
      BY <1>4, <2>4, <2>8 DEF Buffer
    <3>2. calls = <<EditCall(m, b.bubble, First(b.text), FALSE)>>
      BY <2>3, <2>5, <2>7, <2>8
    <3>3. Completes(Quietly(Put(m, b)) \cup Try(calls, Put(m, b), Put(m, b)), m)
      BY <1>3, <1>6, <3>2, EditDelta
    <3> QED
      BY <2>6, <3>1, <3>3
  <2>9. CASE more # <<>>
    <3>1. Spread(m, b, parts, more, calls, e)
      BY <2>1, <2>2, <2>3, <2>4, <2>5, <2>9 DEF Spread
    <3>2. Completes(Try(calls, Put(m, e), Put(m, b)), m)
      BY <1>3, <1>6, <3>1, SpreadDelta
    <3>3. Completes(Quietly(Put(m, b)), m)
      BY <1>3, <1>6, DeltaQuiet
    <3> QED
      BY <2>6, <3>2, <3>3, CompletesBoth
  <2> QED
    BY <2>8, <2>9
<1> QED
  BY <1>5, <1>6

-----------------------------------------------------------------------------
(***************************************************************************)
(* The ends of the streams                                                 *)
(***************************************************************************)

LEMMA OnePiece ==
  ASSUME NEW text \in Seq(Nat)
  PROVE  Pieces(<<text>>, text) /\ Len(<<text>>) = 1 /\ <<text>>[1] = text
<1>1. PICK p : p = <<text>>
  OBVIOUS
<1>2. p \in Seq(Seq(Nat)) /\ Len(p) = 1 /\ p[1] = text /\ \A i \in 1..1 : i = 1
  BY <1>1
<1>3. Range(text) = UNION {Range(p[i]) : i \in 1..1}
  BY <1>2
<1>4. Pieces(p, text)
  BY <1>2, <1>3 DEF Pieces
<1> QED
  BY <1>1, <1>2, <1>4

\* The calls show all of the buffer b, in its bubble or in none of the old ones.
Flushing(m, b, x, parts, calls) ==
  /\ b = buf[Key(m)] /\ b # None /\ x \in {0, b.bubble}
  /\ Pieces(parts, b.text) /\ Calling(calls, x) /\ Len(calls) = Len(parts)
  /\ \A i \in 1..Len(calls) : calls[i].text = parts[i]
  /\ x # 0 => Range(First(b.text)) = Range(parts[1])

LEMMA FlushingRewrites ==
  ASSUME TypeInv, NEW m \in Message, Begun(m), NEW b, NEW x, NEW parts, NEW calls,
         Flushing(m, b, x, parts, calls)
  PROVE  /\ x \in 0..Len(shown) /\ Traced(b, shown) /\ Alone(b, m) /\ Rewrites(calls, x)
         /\ b \in Buffer /\ calls \in Seq(Call)
<1>1. shown \in Seq(Bubble) /\ Len(shown) \in Nat /\ buf \in Buffers /\ Key(m) \in Keys
  BY KeyIs DEF TypeInv, TypeOK
<1>2. b = buf[Key(m)] /\ b # None /\ x \in {0, b.bubble}
  BY DEF Flushing
<1>3. Traced(b, shown) /\ Alone(b, m)
  BY <1>2, HeldTraced DEF Begun
<1>4. x \in 0..Len(shown)
  BY <1>1, <1>2, <1>3 DEF Traced
<1>5. Calling(calls, x) /\ calls \in Seq(Call)
  BY DEF Flushing, Calling
<1>6. ASSUME x # 0, calls # <<>> PROVE Range(shown[x].text) \subseteq Range(calls[1].text)
  <2>1. 1 \in 1..Len(calls)
    BY <1>5, <1>6, EmptySeq
  <2>2. calls[1].text = parts[1] /\ Range(First(b.text)) = Range(parts[1])
    BY <1>6, <2>1 DEF Flushing
  <2>3. x = b.bubble
    BY <1>2, <1>6
  <2> QED
    BY <1>3, <1>6, <2>2, <2>3 DEF Traced
<1>7. b \in Buffer
  BY <1>1, <1>2 DEF Buffers
<1> QED
  BY <1>3, <1>4, <1>5, <1>6, <1>7 DEF Rewrites

LEMMA EndShown ==
  ASSUME TypeInv, adapter # "websocket", NEW m \in Message, m.kind = "end", Begun(m),
         NEW b, NEW x, NEW parts, NEW calls, Flushing(m, b, x, parts, calls),
         NEW r, r.shown = After(calls)[Len(calls)], r.buf = Put(m, None), r.ok
  PROVE  Complete(m, r)
<1>1. /\ x \in 0..Len(shown) /\ Traced(b, shown) /\ Alone(b, m) /\ Rewrites(calls, x)
      /\ b \in Buffer /\ calls \in Seq(Call) /\ shown \in Seq(Bubble)
  BY FlushingRewrites DEF TypeInv, TypeOK
<1>2. PICK n \in Nat : n = Len(calls)
  BY <1>1
<1>3. PICK t : t = After(calls)[n]
  OBVIOUS
<1>4. Grown(t, calls, n, x)
  <2>1. n \in 0..Len(calls)
    BY <1>2
  <2> QED
    BY <1>1, <1>3, <2>1, CallsGrow
<1>5. Touched(t, x) /\ PartsOf(shown) \subseteq PartsOf(t) /\ r.shown = t
  BY <1>2, <1>3, <1>4 DEF Grown
<1>6. b = buf[Key(m)] /\ x \in {0, b.bubble}
  BY DEF Flushing
<1>7. \A l \in Keys \ {Key(m)} : buf[l] # None /\ buf[l].bubble = x => x = 0
  BY <1>1, <1>6 DEF Alone
<1>8. PICK new \in Buffer \cup {None} : new = None
  OBVIOUS
<1>9. Followed(t, Put(m, new))
  BY <1>1, <1>5, <1>7, <1>8, FollowedStep DEF Begun
<1>10. Followed(r.shown, r.buf)
  BY <1>5, <1>8, <1>9
<1>11. Range(b.text) \subseteq PartsOf(t)
  <2>1. Range(b.text) = UNION {Range(parts[i]) : i \in 1..n}
    BY <1>2 DEF Flushing, Pieces
  <2>2. \A i \in 1..n : Range(parts[i]) \subseteq PartsOf(t)
    BY <1>2, <1>4 DEF Grown, Flushing
  <2> QED
    BY <2>1, <2>2
<1> QED
  BY <1>5, <1>6, <1>10, <1>11, EndCompletes

\* There is nothing to show.
LEMMA NothingHeld ==
  ASSUME TypeInv, adapter # "websocket", NEW m \in Message, m.kind = "end", Begun(m),
         buf[Key(m)] = None, NEW r, r \in Quietly(Put(m, None))
  PROVE  Complete(m, r)
<1>1. r.shown = shown /\ r.buf = Put(m, None) /\ r.ok
  <2>1. r = [shown |-> shown, buf |-> Put(m, None), fault |-> 0, ok |-> TRUE]
    BY DEF Quietly
  <2> QED
    BY <2>1
<1>2. shown \in Seq(Bubble) /\ Len(shown) \in Nat
  BY DEF TypeInv, TypeOK
<1>3. PICK x \in 0..Len(shown) : x = 0
  BY <1>2
<1>4. Touched(shown, x)
  BY <1>2 DEF Touched
<1>5. PICK new \in Buffer \cup {None} : new = None
  OBVIOUS
<1>6. Followed(shown, Put(m, new))
  BY <1>3, <1>4, <1>5, FollowedStep DEF Begun
<1>7. Followed(r.shown, r.buf)
  BY <1>1, <1>5, <1>6
<1> QED
  BY <1>1, <1>7, EndCompletes

\* No text of an end is lost that is not known to be.
LEMMA EndSays ==
  ASSUME NEW m \in Message, m.kind = "end", adapter # "websocket", NEW r
  PROVE  m.stream \in Lost(m, r) \/ Said(m) = {}
<1>1. CASE m.text = <<>>
  BY <1>1 DEF Said, Range
<1>2. CASE m.text # <<>>
  <2>1. m.stream \in Spoils(m)
    BY <1>2 DEF Spoils
  <2> QED
    BY <2>1 DEF Lost
<1> QED
  BY <1>1, <1>2

\* The end of a stream that has no bubble to end.
LEMMA EndIgnored ==
  ASSUME TypeInv, Editing, NEW m \in Message, m.kind = "end", Begun(m), Ended(m, TRUE) = None,
         NEW r \in Quietly(buf)
  PROVE  Complete(m, r)
<1>1. r.shown = shown /\ r.buf = buf /\ r.ok /\ r.fault = 0
  <2>1. r = [shown |-> shown, buf |-> buf, fault |-> 0, ok |-> TRUE]
    BY DEF Quietly
  <2> QED
    BY <2>1
<1>2. adapter # "websocket" /\ adapter # "feishu"
  BY DEF Editing
<1>3. m.stream \in Lost(m, r) \/ Said(m) = {}
  BY <1>2, EndSays
<1>4. ASSUME buf[Key(m)] # None
      PROVE  buf[Key(m)].stream # m.stream \/ buf[Key(m)].stream \in Lost(m, r)
  <2>1. buf[Key(m)].bubble = 0 \/ buf[Key(m)].stream # m.stream
    BY <1>4 DEF Ended
  <2>2. CASE buf[Key(m)].bubble = 0
    <3>1. Bare(buf[Key(m)], m, spoiled, TRUE, faults)
      BY <1>4 DEF Begun
    <3>2. buf[Key(m)].stream \in spoiled
      BY <1>2, <2>2, <3>1 DEF Bare
    <3> QED
      BY <3>2 DEF Lost
  <2> QED
    BY <2>1, <2>2
<1>5. Followed(r.shown, buf)
  BY <1>1 DEF Begun
<1> QED
  BY <1>1, <1>3, <1>4, <1>5, KeptCompletes

\* An end that fails on Discord is tried again: the buffer stays.
LEMMA EndFailed ==
  ASSUME TypeInv, adapter = "discord", NEW m \in Message, m.kind = "end", Begun(m),
         NEW b, NEW x, NEW parts, NEW calls, Flushing(m, b, x, parts, calls), x = b.bubble,
         calls # <<>> /\ x # 0 => calls[1].text = First(b.text),
         NEW k \in 0..Len(calls), NEW r, r.shown = After(calls)[k], r.buf = buf,
         ~r.ok, r.fault = 1
  PROVE  Complete(m, r)
<1>1. /\ x \in 0..Len(shown) /\ Traced(b, shown) /\ Alone(b, m) /\ Rewrites(calls, x)
      /\ b \in Buffer /\ calls \in Seq(Call) /\ shown \in Seq(Bubble)
  BY FlushingRewrites DEF TypeInv, TypeOK
<1>2. PICK t : t = After(calls)[k]
  OBVIOUS
<1>3. Grown(t, calls, k, x) /\ k \in Nat
  BY <1>1, <1>2, CallsGrow
<1>4. Touched(t, x) /\ PartsOf(shown) \subseteq PartsOf(t) /\ r.shown = t
  BY <1>2, <1>3 DEF Grown
<1>5. ASSUME k # 0, x # 0 PROVE Range(calls[1].text) \subseteq Range(First(b.text))
  <2>1. Len(calls) # 0
    BY <1>1, <1>5
  <2>2. calls # <<>>
    BY <2>1, EmptySeq
  <2> QED
    BY <1>5, <2>2
<1>6. Traced(b, t)
  BY <1>1, <1>3, <1>5, KeptTraced
<1>7. b = buf[Key(m)] /\ b # None
  BY DEF Flushing
<1>8. \A l \in Keys : buf[l] # None /\ buf[l].bubble = x /\ x # 0 => Traced(buf[l], t)
  BY <1>1, <1>6, <1>7 DEF Alone
<1>9. Followed(t, buf)
  BY <1>4, <1>8, FollowedSame DEF Begun
<1> QED
  BY <1>4, <1>9, KeptCompletes

\* The end of Telegram and Discord: the last edit and what follows.
Ending(m, b, parts, more, calls) ==
  /\ b = Ended(m, TRUE) /\ b # None /\ parts = Chunks(b.text, Limit)
  /\ more = SendsAfter(m, parts) /\ calls = <<EditCall(m, b.bubble, parts[1], TRUE)>> \o more

LEMMA EndFlushes ==
  ASSUME TypeInv, Editing, NEW m \in Message, NEW b, NEW parts, NEW more, NEW calls,
         Ending(m, b, parts, more, calls)
  PROVE  /\ Flushing(m, b, b.bubble, parts, calls) /\ calls \in Seq(Call)
         /\ calls # <<>> => calls[1].text = First(b.text)
<1>1. PICK yes \in BOOLEAN : yes = TRUE
  OBVIOUS
<1>2. PICK previews : previews = PreviewsAfter(m, parts)
  OBVIOUS
<1>3. PICK edit : edit = EditCall(m, b.bubble, parts[1], yes)
  OBVIOUS
<1>4. b = buf[Key(m)] /\ b # None /\ b \in Buffer /\ b.text # <<>> /\ b.bubble # 0
  <2>1. buf \in Buffers /\ adapter # "websocket" /\ b = Ended(m, yes) /\ b # None
    BY <1>1 DEF TypeInv, Editing, Ending
  <2> QED
    BY <2>1, EndedIs
<1>5. parts = Chunks(b.text, Limit) /\ more = SendsAfter(m, parts)
  BY DEF Ending
<1>6. calls = <<edit>> \o more
  BY <1>1, <1>3 DEF Ending
<1>7. /\ Pieces(parts, b.text) /\ Len(parts) \in Nat \ {0}
      /\ parts[Len(parts)] \in Seq(Nat) /\ parts[Len(parts)] # <<>>
      /\ CallsFor(<<edit>>, parts, b)
      /\ Len(<<edit>>) = 1
      /\ \A u \in {more, previews} :
          /\ u \in Seq(Call) /\ Len(u) = Len(parts) - 1
          /\ CallsFor(<<edit>> \o u, parts, b) /\ Len(<<edit>> \o u) = Len(parts)
  <2>1. b \in Buffer /\ b.text # <<>> /\ b.bubble # 0 /\ yes \in BOOLEAN
    BY <1>1, <1>4
  <2> QED
    BY <1>2, <1>3, <1>5, <2>1, SplitCalls
<1>8. /\ Pieces(parts, b.text) /\ Len(parts) \in Nat \ {0}
      /\ CallsFor(calls, parts, b) /\ Len(calls) = Len(parts)
  BY <1>6, <1>7
<1>9. /\ calls \in Seq(Call) /\ \A i \in 1..Len(calls) : calls[i].text = parts[i]
  BY <1>8 DEF CallsFor
<1>10. First(b.text) = parts[1]
  BY <1>5 DEF First
<1>11. calls[1].text = parts[1]
  BY <1>8, <1>9
<1>12. Calling(calls, b.bubble)
  BY <1>8, CallsForCalling
<1>13. Flushing(m, b, b.bubble, parts, calls)
  BY <1>4, <1>8, <1>9, <1>10, <1>12 DEF Flushing
<1> QED
  BY <1>9, <1>10, <1>11, <1>13

\* The last edit alone.
LEMMA EndPieces ==
  ASSUME TypeInv, Editing, NEW m \in Message, NEW b, NEW parts, NEW more, NEW calls,
         Ending(m, b, parts, more, calls),
         NEW edit, edit = EditCall(m, b.bubble, parts[1], TRUE)
  PROVE  /\ b = buf[Key(m)] /\ b.stream = m.stream /\ parts = Chunks(b.text, Limit)
         /\ Len(parts) \in Nat \ {0} /\ calls = <<edit>> \o more
         /\ CallsFor(<<edit>>, parts, b)
         /\ more \in Seq(Call) /\ Len(more) = Len(parts) - 1
<1>1. PICK yes \in BOOLEAN : yes = TRUE
  OBVIOUS
<1>2. PICK previews : previews = PreviewsAfter(m, parts)
  OBVIOUS
<1>3. PICK last : last = EditCall(m, b.bubble, parts[1], yes)
  OBVIOUS
<1>4. /\ b = buf[Key(m)] /\ b # None /\ b \in Buffer /\ b.text # <<>> /\ b.bubble # 0
      /\ b.stream = m.stream
  <2>1. buf \in Buffers /\ adapter # "websocket" /\ b = Ended(m, yes) /\ b # None
    BY <1>1 DEF TypeInv, Editing, Ending
  <2> QED
    BY <1>1, <2>1, EndedIs
<1>5. parts = Chunks(b.text, Limit) /\ more = SendsAfter(m, parts) /\ calls = <<edit>> \o more
  BY DEF Ending
<1>6. /\ Pieces(parts, b.text) /\ Len(parts) \in Nat \ {0}
      /\ parts[Len(parts)] \in Seq(Nat) /\ parts[Len(parts)] # <<>>
      /\ CallsFor(<<last>>, parts, b)
      /\ Len(<<last>>) = 1
      /\ \A u \in {more, previews} :
          /\ u \in Seq(Call) /\ Len(u) = Len(parts) - 1
          /\ CallsFor(<<last>> \o u, parts, b) /\ Len(<<last>> \o u) = Len(parts)
  <2>1. b \in Buffer /\ b.text # <<>> /\ b.bubble # 0 /\ yes \in BOOLEAN
    BY <1>1, <1>4
  <2>2. parts = Chunks(b.text, Limit) /\ more = SendsAfter(m, parts)
    BY <1>5
  <2> QED
    BY <1>2, <1>3, <2>1, <2>2, SplitCalls
<1>7. edit = last
  BY <1>1, <1>3
<1>8. /\ Len(parts) \in Nat \ {0} /\ CallsFor(<<last>>, parts, b)
      /\ more \in Seq(Call) /\ Len(more) = Len(parts) - 1
  BY <1>6, Zenon
<1> QED
  BY <1>4, <1>5, <1>7, <1>8, Zenon

LEMMA OnlyCall ==
  ASSUME NEW calls, NEW parts, NEW b, CallsFor(calls, parts, b), Len(calls) = 1
  PROVE  calls \in Seq(Call) /\ calls[1] \in Call /\ calls[1].text = parts[1]
<1>1. calls \in Seq(Call)
  BY DEF CallsFor
<1>2. \A i \in 1..Len(calls) : calls[i].text = parts[i]
  BY DEF CallsFor
<1>3. PICK first : first = 1
  OBVIOUS
<1>4. first \in 1..Len(calls)
  BY <1>3
<1>5. calls[first] \in Call
  BY <1>1, <1>4, ElementOfSeq
<1>6. calls[first].text = parts[first]
  BY <1>2, <1>4, Zenon
<1> QED
  BY <1>1, <1>3, <1>5, <1>6, Zenon

LEMMA NothingFollows ==
  ASSUME NEW cut \in Seq(Call), NEW more \in Seq(Call), Len(more) = 0
  PROVE  cut \o more = cut
<1>1. more = <<>>
  BY EmptySeq
<1> QED
  BY <1>1, ConcatEmptySeq

\* The last edit of a stream alone.
Cutting(m, b, parts, more, calls, edit, cut) ==
  /\ Ending(m, b, parts, more, calls)
  /\ edit = EditCall(m, b.bubble, parts[1], TRUE)
  /\ cut = <<edit>>

LEMMA EndEdit ==
  ASSUME TypeInv, Editing, NEW m \in Message, NEW b, NEW parts, NEW more, NEW calls,
         NEW edit, NEW cut, Cutting(m, b, parts, more, calls, edit, cut)
  PROVE  /\ cut \in Seq(Call) /\ Calling(cut, b.bubble) /\ Len(cut) = 1 /\ cut[1] = edit
         /\ edit.text = First(b.text) /\ b = buf[Key(m)] /\ b.stream = m.stream
         /\ Len(parts) \in Nat /\ Len(parts) >= 1 /\ (Len(parts) = 1 => calls = cut)
<1>1. Ending(m, b, parts, more, calls) /\ edit = EditCall(m, b.bubble, parts[1], TRUE)
  BY DEF Cutting
<1>2. cut = <<edit>>
  BY DEF Cutting
<1>3. /\ b = buf[Key(m)] /\ b.stream = m.stream /\ parts = Chunks(b.text, Limit)
      /\ Len(parts) \in Nat \ {0} /\ calls = <<edit>> \o more
      /\ CallsFor(<<edit>>, parts, b)
      /\ more \in Seq(Call) /\ Len(more) = Len(parts) - 1
  BY <1>1, EndPieces, Zenon
<1>4. CallsFor(cut, parts, b) /\ calls = cut \o more
  BY <1>2, <1>3, Zenon
<1>5. Len(cut) = 1 /\ cut[1] = edit
  BY <1>2
<1>6. cut \in Seq(Call) /\ edit.text = parts[1]
  <2>1. cut \in Seq(Call) /\ cut[1] \in Call /\ cut[1].text = parts[1]
    BY <1>4, <1>5, OnlyCall, Zenon
  <2> QED
    BY <1>5, <2>1, Zenon
<1>7. Calling(cut, b.bubble)
  BY <1>4, CallsForCalling
<1>8. PICK k \in Nat \ {0} : k = Len(parts)
  BY <1>3
<1>9. k >= 1 /\ (k = 1 => Len(more) = 0)
  BY <1>3, <1>8
<1>10. k = 1 => calls = cut
  BY <1>3, <1>4, <1>6, <1>9, NothingFollows, Zenon
<1>11. First(b.text) = parts[1]
  BY <1>3 DEF First
<1> QED
  BY <1>3, <1>5, <1>6, <1>7, <1>8, <1>9, <1>10, <1>11, Zenon

LEMMA MoreThanOne ==
  ASSUME NEW n, n \in Nat, n >= 1, n # 1
  PROVE  n > 1
OBVIOUS

LEMMA OneFollows ==
  ASSUME NEW calls \in Seq(Call), Len(calls) = 1
  PROVE  After(calls)[Len(calls)] = Perform(shown, calls[1])
<1>1. /\ After(calls)[0] = shown
      /\ \A n \in 1..Len(calls) : After(calls)[n] = Perform(After(calls)[n - 1], calls[n])
  BY AfterFollows, Zenon
<1>2. PICK f : f = After(calls)
  OBVIOUS
<1>3. f[1] = Perform(f[1 - 1], calls[1])
  BY <1>1, <1>2
<1>4. f[1 - 1] = shown
  BY <1>1, <1>2
<1> QED
  BY <1>2, <1>3, <1>4

\* What the last edit leaves when nothing follows it: the text of a stream that is
\* lost goes with the buffer.
LEMMA EndCut ==
  ASSUME TypeInv, Editing, NEW m \in Message, m.kind = "end", Begun(m),
         NEW b, NEW parts, NEW more, NEW calls, NEW edit, NEW cut,
         Cutting(m, b, parts, more, calls, edit, cut),
         NEW r, r.shown = Perform(shown, edit), r.buf = Put(m, None), r.ok,
         m.stream \in Lost(m, r)
  PROVE  Complete(m, r)
<1>1. PICK x : x = b.bubble
  OBVIOUS
<1>4. Ending(m, b, parts, more, calls)
  BY DEF Cutting
<1>2. Flushing(m, b, x, parts, calls)
  BY <1>1, <1>4, EndFlushes
<1>3. /\ x \in 0..Len(shown) /\ Traced(b, shown) /\ Alone(b, m)
      /\ shown \in Seq(Bubble) /\ buf \in Buffers
  BY <1>2, FlushingRewrites DEF TypeInv, TypeOK
<1>5. /\ cut \in Seq(Call) /\ Calling(cut, b.bubble) /\ edit.text = First(b.text)
      /\ b = buf[Key(m)] /\ b.stream = m.stream
      /\ Len(cut) = 1 /\ cut[1] = edit
  BY EndEdit
<1>6. Len(cut) = 1 /\ cut[1] = edit /\ Calling(cut, x)
  BY <1>1, <1>5
<1>7. Rewrites(cut, x)
  BY <1>1, <1>3, <1>5, <1>6 DEF Rewrites, Traced
<1>8. PICK t : t = After(cut)[1]
  OBVIOUS
<1>9. t = r.shown
  BY <1>5, <1>8, OneFollows
<1>10. PICK k \in 0..Len(cut) : k = 1
  BY <1>6
<1>11. Grown(t, cut, k, x)
  BY <1>3, <1>7, <1>8, <1>10, CallsGrow
<1>12. Touched(t, x) /\ PartsOf(shown) \subseteq PartsOf(t)
  BY <1>11 DEF Grown
<1>13. \A l \in Keys \ {Key(m)} : buf[l] # None /\ buf[l].bubble = x => x = 0
  BY <1>1, <1>3 DEF Alone
<1>14. PICK new \in Buffer \cup {None} : new = None
  OBVIOUS
<1>15. Followed(t, Put(m, new))
  BY <1>3, <1>12, <1>13, <1>14, FollowedStep DEF Begun
<1>16. PICK key \in Keys : key = Key(m)
  BY KeyIs
<1>17. r.buf[key] = None /\ \A l \in Keys \ {key} : r.buf[l] = buf[l]
  BY <1>3, <1>14, <1>16, PutIs
<1>18. \A s : s = m.stream \/ HeldText(buf, key, s) = {}
  BY <1>5, <1>16 DEF HeldText
<1>19. Holding(m, r)
  BY <1>16, <1>17 DEF Holding
<1> QED
  BY <1>9, <1>12, <1>14, <1>15, <1>16, <1>17, <1>18, <1>19 DEF Complete

\* The bubble of a stream is not final: only a preview may have left what the last
\* edit shows.
LEMMA TelegramEndCompletes ==
  ASSUME TypeInv, adapter = "telegram", NEW m \in Message, m.kind = "end"
  PROVE  Completes(TelegramEnd(m), m)
<1> SUFFICES ASSUME Begun(m), NEW r \in TelegramEnd(m), Alive(faults + r.fault)
             PROVE  Complete(m, r)
  BY DEF Completes
<1>1. Editing /\ adapter # "websocket" /\ adapter \notin {"discord", "feishu"}
  BY DEF Editing
<1>2. PICK b : b = Ended(m, TRUE)
  OBVIOUS
<1>3. CASE b = None
  <2>1. r \in Quietly(buf)
    BY <1>2, <1>3 DEF TelegramEnd
  <2> QED
    BY <1>1, <1>2, <1>3, <2>1, EndIgnored
<1>4. CASE b # None
  <2>1. PICK parts : parts = Chunks(b.text, Limit)
    OBVIOUS
  <2>2. PICK more : more = SendsAfter(m, parts)
    OBVIOUS
  <2>3. PICK edit : edit = EditCall(m, b.bubble, parts[1], TRUE)
    OBVIOUS
  <2>4. PICK calls : calls = <<edit>> \o more
    OBVIOUS
  <2>5. Ending(m, b, parts, more, calls)
    BY <1>2, <1>4, <2>1, <2>2, <2>3, <2>4 DEF Ending
  <2>6. Flushing(m, b, b.bubble, parts, calls) /\ calls \in Seq(Call)
    BY <1>1, <2>5, EndFlushes
  <2>7. PICK cut : cut = <<edit>>
    OBVIOUS
  <2>8. /\ cut \in Seq(Call) /\ Len(cut) = 1 /\ cut[1] = edit
        /\ Len(parts) \in Nat /\ Len(parts) >= 1 /\ (Len(parts) = 1 => calls = cut)
    <3>1. Cutting(m, b, parts, more, calls, edit, cut)
      BY <2>3, <2>5, <2>7 DEF Cutting
    <3> QED
      BY <1>1, <3>1, EndEdit
  <2>9. PICK done : done = Put(m, None)
    OBVIOUS
  <2>10. \/ r \in Try(calls, done, buf)
         \/ shown[b.bubble].text = parts[1] /\ r \in Try(cut, done, buf)
    BY <1>2, <1>4, <2>1, <2>2, <2>3, <2>4, <2>7, <2>9 DEF TelegramEnd, SendsAfter
  <2>11. CASE r \in Try(calls, done, buf)
    <3>1. r.shown = After(calls)[Len(calls)] /\ r.buf = done /\ r.ok
      BY <1>1, <2>6, <2>11, SureTry
    <3> QED
      BY <1>1, <2>6, <2>9, <3>1, EndShown
  <2>12. CASE Len(parts) # 1 /\ shown[b.bubble].text = parts[1] /\ r \in Try(cut, done, buf)
    <3>1. r.shown = After(cut)[Len(cut)] /\ r.buf = done /\ r.ok
      BY <1>1, <2>8, <2>12, SureTry
    <3>2. r.shown = Perform(shown, edit)
      BY <2>8, <3>1, OneFollows
    <3>3. m.stream \in Spoils(m)
      <4>1. Len(parts) > 1
        <5>1. Len(parts) \in Nat /\ Len(parts) >= 1 /\ Len(parts) # 1
          BY <2>8, <2>12
        <5> QED
          BY <5>1, MoreThanOne
      <4> QED
        BY <1>1, <1>2, <1>4, <2>1, <2>12, <4>1 DEF Spoils
    <3>4. m.stream \in Lost(m, r)
      BY <3>3 DEF Lost
    <3>5. r.buf = Put(m, None) /\ r.ok
      BY <2>9, <3>1
    <3>6. Cutting(m, b, parts, more, calls, edit, cut)
      BY <2>3, <2>5, <2>7 DEF Cutting
    <3> QED
      BY <1>1, <3>2, <3>4, <3>5, <3>6, EndCut
  <2> QED
    BY <2>8, <2>10, <2>11, <2>12
<1> QED
  BY <1>3, <1>4

LEMMA DiscordEndCompletes ==
  ASSUME TypeInv, adapter = "discord", NEW m \in Message, m.kind = "end"
  PROVE  Completes(DiscordEnd(m), m)
<1> SUFFICES ASSUME Begun(m), NEW r \in DiscordEnd(m), Alive(faults + r.fault)
             PROVE  Complete(m, r)
  BY DEF Completes
<1>1. Editing /\ adapter # "websocket"
  BY DEF Editing
<1>2. PICK b : b = Ended(m, TRUE)
  OBVIOUS
<1>3. CASE b = None
  <2>1. r \in Quietly(buf)
    BY <1>2, <1>3 DEF DiscordEnd
  <2> QED
    BY <1>1, <1>2, <1>3, <2>1, EndIgnored
<1>4. CASE b # None
  <2>1. PICK parts : parts = Chunks(b.text, Limit)
    OBVIOUS
  <2>2. PICK more : more = SendsAfter(m, parts)
    OBVIOUS
  <2>3. PICK edit : edit = EditCall(m, b.bubble, parts[1], TRUE)
    OBVIOUS
  <2>4. PICK calls : calls = <<edit>> \o more
    OBVIOUS
  <2>5. Ending(m, b, parts, more, calls)
    BY <1>2, <1>4, <2>1, <2>2, <2>3, <2>4 DEF Ending
  <2>6. /\ Flushing(m, b, b.bubble, parts, calls) /\ calls \in Seq(Call)
        /\ calls # <<>> => calls[1].text = First(b.text)
    BY <1>1, <2>5, EndFlushes
  <2>7. PICK done : done = Put(m, None)
    OBVIOUS
  <2>8. r \in Try(calls, done, buf) \/ r \in Unresolved(Perform(shown, edit), done)
    BY <1>2, <1>4, <2>1, <2>2, <2>3, <2>4, <2>7 DEF DiscordEnd, SendsAfter
  <2>9. PICK x : x = b.bubble
    OBVIOUS
  <2>10. Flushing(m, b, x, parts, calls)
    BY <2>6, <2>9
  <2>11. CASE r \in Try(calls, done, buf)
    <3>1. PICK k \in 0..Len(calls) : Stopped(r, calls, k, done, buf)
      BY <2>6, <2>11, TryStops
    <3>2. CASE r.ok
      <4>1. r.shown = After(calls)[Len(calls)] /\ r.buf = Put(m, None)
        BY <2>7, <3>1, <3>2 DEF Stopped
      <4> QED
        BY <1>1, <2>10, <3>2, <4>1, EndShown
    <3>3. CASE ~r.ok
      <4>1. r.shown = After(calls)[k] /\ r.buf = buf /\ r.fault = 1
        BY <3>1, <3>3 DEF Stopped
      <4> QED
        BY <2>6, <2>9, <2>10, <3>1, <3>3, <4>1, EndFailed
    <3> QED
      BY <3>2, <3>3
  <2>12. CASE r \in Unresolved(Perform(shown, edit), done)
    <3>1. r.shown = Perform(shown, edit) /\ r.buf = Put(m, None) /\ r.ok /\ r.fault = 1
      <4>1. r = [shown |-> Perform(shown, edit), buf |-> done, fault |-> 1, ok |-> TRUE]
        BY <2>12 DEF Unresolved
      <4> QED
        BY <2>7, <4>1
    <3>5. PICK cut : cut = <<edit>>
      OBVIOUS
    <3>2. /\ cut \in Seq(Call) /\ Len(cut) = 1 /\ cut[1] = edit
          /\ Len(parts) \in Nat /\ Len(parts) >= 1 /\ (Len(parts) = 1 => calls = cut)
      <4>1. Cutting(m, b, parts, more, calls, edit, cut)
        BY <2>3, <2>5, <3>5 DEF Cutting
      <4> QED
        BY <1>1, <4>1, EndEdit
    <3>3. CASE Len(parts) = 1
      <4>1. Len(calls) = 1 /\ calls[1] = edit
        BY <3>2, <3>3
      <4>3. r.shown = After(calls)[Len(calls)]
        BY <2>6, <3>1, <4>1, OneFollows
      <4> QED
        BY <1>1, <2>10, <3>1, <4>3, EndShown
    <3>4. CASE Len(parts) # 1
      <4>1. Len(parts) > 1
        <5>1. Len(parts) \in Nat /\ Len(parts) >= 1 /\ Len(parts) # 1
          BY <3>2, <3>4
        <5> QED
          BY <5>1, MoreThanOne
      <4>2. m.stream \in Unsent(m, r)
        BY <1>2, <2>1, <3>1, <4>1 DEF Unsent
      <4>3. m.stream \in Lost(m, r)
        BY <4>2 DEF Lost
      <4>4. Cutting(m, b, parts, more, calls, edit, cut)
        BY <2>3, <2>5, <3>5 DEF Cutting
      <4> QED
        BY <1>1, <3>1, <4>3, <4>4, EndCut
    <3> QED
      BY <3>3, <3>4
  <2> QED
    BY <2>8, <2>11, <2>12
<1> QED
  BY <1>3, <1>4

\* One call that shows the buffer.
LEMMA OneFlushes ==
  ASSUME TypeInv, ~Editing, adapter # "websocket", NEW m \in Message,
         NEW b, b = buf[Key(m)], b # None, NEW x \in {0, b.bubble},
         NEW c \in Call, c.text = b.text,
         IF x = 0 THEN c.op = "send" ELSE c.op = "edit" /\ c.at = x
  PROVE  \E calls, parts : calls \in Seq(Call) /\ calls = <<c>> /\ Len(calls) = 1
                                         /\ Flushing(m, b, x, parts, calls)
<1>1. b \in Buffer
  BY KeyIs DEF TypeInv, Buffers
<1>2. PICK text \in Seq(Nat) : text = b.text
  BY <1>1 DEF Buffer, Parts
<1>3. PICK parts : parts = <<text>>
  OBVIOUS
<1>4. Pieces(parts, text) /\ Len(parts) = 1 /\ parts[1] = text
  BY <1>3, OnePiece
<1>5. PICK calls : calls = <<c>>
  OBVIOUS
<1>6. calls \in Seq(Call) /\ Len(calls) = 1 /\ calls[1] = c
  BY <1>5
<1>7. Calling(calls, x)
  BY <1>6 DEF Calling
<1>8. Flushing(m, b, x, parts, calls)
  BY <1>2, <1>4, <1>6, <1>7 DEF Flushing, First
<1> QED
  BY <1>5, <1>6, <1>8

\* The call of an end that edits.
LastCall(m, b) == EditCall(m, b.bubble, b.text, TRUE)

LEMMA LastEdit ==
  ASSUME NEW m \in Message, NEW b \in Buffer
  PROVE  /\ LastCall(m, b) \in Call /\ LastCall(m, b).op = "edit"
         /\ LastCall(m, b).at = b.bubble /\ LastCall(m, b).text = b.text
<1>1. PICK yes \in BOOLEAN : yes = TRUE
  OBVIOUS
<1>2. PICK at \in Nat : at = b.bubble
  BY DEF Buffer
<1>3. PICK t \in Seq(Nat) : t = b.text
  BY DEF Buffer, Parts
<1>4. PICK c : c = EditCall(m, at, t, yes)
  OBVIOUS
<1>5. c \in Call /\ c.op = "edit" /\ c.at = at /\ c.text = t /\ c.final = yes
  BY <1>4, EditIs
<1>6. LastCall(m, b) = c
  BY <1>1, <1>2, <1>3, <1>4 DEF LastCall
<1> QED
  BY <1>2, <1>3, <1>5, <1>6

LEMMA MatrixEndCompletes ==
  ASSUME TypeInv, adapter = "matrix", NEW m \in Message, m.kind = "end"
  PROVE  Completes(MatrixEnd(m), m)
<1> SUFFICES ASSUME Begun(m), NEW r \in MatrixEnd(m), Alive(faults + r.fault)
             PROVE  Complete(m, r)
  BY DEF Completes
<1>1. ~Editing /\ adapter # "websocket" /\ adapter \notin {"discord", "feishu"}
  BY DEF Editing
<1>2. PICK b : b = Ended(m, FALSE)
  OBVIOUS
<1>3. CASE b = None
  <2>1. buf[Key(m)] = None
    <3>1. buf[Key(m)] # None => Bare(buf[Key(m)], m, spoiled, TRUE, faults)
      BY DEF Begun
    <3>2. buf[Key(m)] = None \/ buf[Key(m)].bubble = 0
      BY <1>2, <1>3 DEF Ended
    <3> QED
      BY <1>1, <3>1, <3>2 DEF Bare
  <2>2. r \in Quietly(Put(m, None))
    BY <1>2, <1>3 DEF MatrixEnd
  <2> QED
    BY <1>1, <2>1, <2>2, NothingHeld
<1>4. CASE b # None
  <2>2. PICK no \in BOOLEAN : no = FALSE
    OBVIOUS
  <2>3. b = buf[Key(m)] /\ b \in Buffer /\ b.bubble # 0 /\ b.text \in Seq(Nat) /\ b.bubble \in Nat
    <3>1. buf \in Buffers /\ b = Ended(m, no)
      BY <1>2, <2>2 DEF TypeInv
    <3> QED
      BY <1>1, <1>4, <3>1, EndedIs
  <2>4. PICK c : c = LastCall(m, b)
    OBVIOUS
  <2>5. c \in Call /\ c.op = "edit" /\ c.at = b.bubble /\ c.text = b.text
    BY <2>3, <2>4, LastEdit
  <2>6. PICK x \in {0, b.bubble} : x = b.bubble
    OBVIOUS
  <2>7. PICK calls, parts : calls \in Seq(Call) /\ calls = <<c>> /\ Len(calls) = 1
                                          /\ Flushing(m, b, x, parts, calls)
    <3>1. IF x = 0 THEN c.op = "send" ELSE c.op = "edit" /\ c.at = x
      BY <2>3, <2>5, <2>6
    <3> QED
      BY <1>1, <1>4, <2>3, <2>5, <2>6, <3>1, OneFlushes
  <2>8. PICK done : done = Put(m, None)
    OBVIOUS
  <2>9. r \in Try(calls, done, done)
    BY <1>2, <1>4, <2>4, <2>7, <2>8 DEF MatrixEnd, LastCall
  <2>10. r.shown = After(calls)[Len(calls)] /\ r.buf = done /\ r.ok
    <3>1. calls \in Seq(Call)
      BY <2>7
    <3>2. PICK failed : failed = done
      OBVIOUS
    <3>3. r \in Try(calls, done, failed)
      BY <2>9, <3>2
    <3> QED
      BY <1>1, <3>1, <3>3, SureTry
  <2> QED
    BY <1>1, <2>7, <2>8, <2>10, EndShown
<1> QED
  BY <1>3, <1>4

\* Feishu sends the text in a message.
LEMMA FeishuSent ==
  ASSUME TypeInv, adapter = "feishu", NEW m \in Message, m.kind = "end", Begun(m),
         NEW b, b = buf[Key(m)], b # None, NEW left, left = Put(m, None),
         NEW q \in Unreported(Try(<<SendCall(m, b.text)>>, left, left)), q.fault = 0,
         NEW r, r.shown = q.shown, r.buf = q.buf, r.ok
  PROVE  Complete(m, r)
<1>1. ~Editing /\ adapter # "websocket"
  BY DEF Editing
<1>2. PICK text \in Seq(Nat) : text = b.text
  <2>1. b \in Buffer
    BY KeyIs DEF TypeInv, Buffers
  <2> QED
    BY <2>1 DEF Buffer, Parts
<1>3. PICK c : c = SendCall(m, text)
  OBVIOUS
<1>4. c \in Call /\ c.op = "send" /\ c.text = text
  BY <1>3, SendsTyped
<1>5. PICK x \in {0, b.bubble} : x = 0
  OBVIOUS
<1>6. PICK calls, parts : calls \in Seq(Call) /\ calls = <<c>> /\ Len(calls) = 1
                                        /\ Flushing(m, b, x, parts, calls)
  <2>1. c.text = b.text /\ (IF x = 0 THEN c.op = "send" ELSE c.op = "edit" /\ c.at = x)
    BY <1>2, <1>4, <1>5
  <2> QED
    BY <1>1, <1>4, <1>5, <2>1, OneFlushes
<1>7. PICK k \in 0..Len(calls) : Quieted(q, calls, k, left, left)
  <2>1. calls \in Seq(Call) /\ q \in Unreported(Try(calls, left, left))
    BY <1>2, <1>3, <1>6
  <2>2. PICK failed : failed = left
    OBVIOUS
  <2>3. q \in Unreported(Try(calls, left, failed))
    BY <2>1, <2>2
  <2>4. \E k \in 0..Len(calls) : Quieted(q, calls, k, left, failed)
    BY <2>1, <2>3, UnreportedStops
  <2> QED
    BY <2>2, <2>4
<1>8. r.shown = After(calls)[Len(calls)] /\ r.buf = Put(m, None)
  BY <1>7 DEF Quieted
<1> QED
  BY <1>1, <1>6, <1>8, EndShown

LEMMA FeishuUpdated ==
  ASSUME TypeInv, adapter = "feishu", NEW m \in Message, m.kind = "end", Begun(m),
         NEW b, b = buf[Key(m)], b # None, b.bubble # 0, NEW left, left = Put(m, None),
         NEW r \in Try(<<LastCall(m, b)>>, left, left), r.ok
  PROVE  Complete(m, r)
<1>1. ~Editing /\ adapter # "websocket"
  BY DEF Editing
<1>2. b \in Buffer
  BY KeyIs DEF TypeInv, Buffers
<1>3. PICK c : c = LastCall(m, b)
  OBVIOUS
<1>4. c \in Call /\ c.op = "edit" /\ c.at = b.bubble /\ c.text = b.text
  BY <1>2, <1>3, LastEdit
<1>5. PICK x \in {0, b.bubble} : x = b.bubble
  OBVIOUS
<1>6. PICK calls, parts : calls \in Seq(Call) /\ calls = <<c>> /\ Len(calls) = 1
                                        /\ Flushing(m, b, x, parts, calls)
  <2>1. c.text = b.text /\ (IF x = 0 THEN c.op = "send" ELSE c.op = "edit" /\ c.at = x)
    BY <1>4, <1>5
  <2> QED
    BY <1>1, <1>4, <1>5, <2>1, OneFlushes
<1>7. PICK k \in 0..Len(calls) : Stopped(r, calls, k, left, left)
  <2>1. calls \in Seq(Call) /\ r \in Try(calls, left, left)
    BY <1>3, <1>6
  <2>2. PICK failed : failed = left
    OBVIOUS
  <2>3. r \in Try(calls, left, failed)
    BY <2>1, <2>2
  <2>4. \E k \in 0..Len(calls) : Stopped(r, calls, k, left, failed)
    BY <2>1, <2>3, TryStops
  <2> QED
    BY <2>2, <2>4
<1>8. r.shown = After(calls)[Len(calls)] /\ r.buf = Put(m, None)
  BY <1>7 DEF Stopped
<1> QED
  BY <1>1, <1>6, <1>8, EndShown

\* One failure is survived: that of the card, or that of its last update.
LEMMA FeishuEndCompletes ==
  ASSUME TypeInv, adapter = "feishu", NEW m \in Message, m.kind = "end"
  PROVE  Completes(FeishuEnd(m), m)
<1> SUFFICES ASSUME Begun(m), NEW r \in FeishuEnd(m), Alive(faults + r.fault)
             PROVE  Complete(m, r)
  BY DEF Completes
<1>1. ~Editing /\ adapter # "websocket" /\ adapter # "discord"
  BY DEF Editing
<1>2. PICK b : b = buf[Key(m)]
  OBVIOUS
<1>3. PICK left : left = Put(m, None)
  OBVIOUS
<1>4. PICK message : message = Unreported(Try(<<SendCall(m, b.text)>>, left, left))
  OBVIOUS
<1>5. \A q \in message : q.ok /\ (q.fault = 0 \/ q.fault = 1)
  <2>1. PICK c : c = SendCall(m, b.text)
    OBVIOUS
  <2>2. \A q \in Try(<<c>>, left, left) :
           /\ q.fault = 0 \/ q.fault = 1
           /\ [q EXCEPT !.ok = TRUE].fault = q.fault /\ [q EXCEPT !.ok = TRUE].ok
    BY DEF Try
  <2> QED
    BY <1>4, <2>1, <2>2 DEF Unreported
<1>6. CASE b = None
  <2>1. r \in Quietly(Put(m, None))
    BY <1>2, <1>6 DEF FeishuEnd
  <2> QED
    BY <1>1, <1>2, <1>6, <2>1, NothingHeld
<1>7. CASE b # None /\ b.bubble = 0
  <2>1. r \in message
    BY <1>2, <1>3, <1>4, <1>7 DEF FeishuEnd
  <2>2. faults >= 1
    BY <1>1, <1>2, <1>7 DEF Begun, Bare
  <2>3. r.ok /\ r.fault = 0
    <3>1. r.ok /\ r.fault \in {0, 1}
      BY <1>5, <2>1
    <3>2. faults \in Nat
      BY ConstantsAssumption DEF TypeInv, TypeOK
    <3> QED
      BY <1>1, <2>2, <3>1, <3>2 DEF Alive
  <2> QED
    BY <1>2, <1>3, <1>4, <1>7, <2>1, <2>3, FeishuSent
<1>8. CASE b # None /\ b.bubble # 0
  <2>1. PICK updated : updated = {q \in Try(<<EditCall(m, b.bubble, b.text, TRUE)>>, left, left) : q.ok}
    OBVIOUS
  <2>2. r \in updated \/ \E q \in message : r = [q EXCEPT !.fault = @ + 1]
    BY <1>2, <1>3, <1>4, <1>8, <2>1 DEF FeishuEnd
  <2>3. CASE r \in updated
    BY <1>2, <1>3, <1>8, <2>1, <2>3, FeishuUpdated DEF LastCall
  <2>4. ASSUME NEW q \in message, r = [q EXCEPT !.fault = @ + 1] PROVE Complete(m, r)
    <3>1. q.ok /\ q.fault \in {0, 1}
      BY <1>5, <2>4
    <3>2. /\ q = [shown |-> q.shown, buf |-> q.buf, fault |-> q.fault, ok |-> q.ok]
      BY <1>4 DEF Unreported, Try
    <3>3. r.shown = q.shown /\ r.buf = q.buf /\ r.ok = q.ok /\ r.fault = q.fault + 1
      BY <2>4, <3>2
    <3>4. q.fault = 0
      <4>1. faults \in Nat
        BY ConstantsAssumption DEF TypeInv, TypeOK
      <4> QED
        BY <1>1, <3>1, <3>3, <4>1 DEF Alive
    <3> QED
      BY <1>2, <1>3, <1>4, <1>8, <3>1, <3>3, <3>4, FeishuSent
  <2> QED
    BY <2>2, <2>3, <2>4
<1> QED
  BY <1>6, <1>7, <1>8

-----------------------------------------------------------------------------
(***************************************************************************)
(* The messages that use no buffer                                         *)
(***************************************************************************)

LEMMA FinalCompletes ==
  ASSUME TypeInv, NEW m \in Message, m.kind = "final"
  PROVE  Completes(Quietly(buf), m)
<1> SUFFICES ASSUME Begun(m), NEW r \in Quietly(buf) PROVE Complete(m, r)
  BY DEF Completes
<1>1. r.shown = shown /\ r.buf = buf /\ r.ok /\ r.fault = 0
  <2>1. r = [shown |-> shown, buf |-> buf, fault |-> 0, ok |-> TRUE]
    BY DEF Quietly
  <2> QED
    BY <2>1
<1>2. Said(m) = {}
  BY DEF Said, Told
<1>3. Followed(r.shown, buf)
  BY <1>1 DEF Begun
<1> QED
  BY <1>1, <1>2, <1>3, KeptCompletes

\* The chunks are sent one after the other: if all of them are, so is the text.
LEMMA PlainComplete ==
  ASSUME TypeInv, NEW m \in Message, m.kind = "plain", m.stream = None, Begun(m),
         NEW parts, NEW calls, PlainCalls(m, parts, calls), NEW k \in 0..Len(calls),
         NEW r, r.shown = After(calls)[k], r.buf = buf, r.fault \in Nat,
         r.ok /\ Survived(m.stream, faults + r.fault) => k = Len(calls),
         ~r.ok => adapter = "discord" /\ r.fault = 1
  PROVE  Complete(m, r)
<1>1. /\ shown \in Seq(Bubble) /\ Len(shown) \in Nat
      /\ calls \in Seq(Call) /\ Len(calls) = Len(parts) /\ Pieces(parts, m.text)
      /\ \A i \in 1..Len(calls) : calls[i].op = "send" /\ calls[i].text = parts[i]
  <2>1. shown \in Seq(Bubble) /\ Len(shown) \in Nat
    BY DEF TypeInv, TypeOK
  <2>2. /\ calls \in Seq(Call) /\ Len(calls) = Len(parts) /\ Pieces(parts, m.text)
        /\ \A i \in 1..Len(parts) : calls[i].op = "send" /\ calls[i].text = parts[i]
    BY DEF PlainCalls
  <2> QED
    BY <2>1, <2>2, Zenon
<1>2. PICK x \in 0..Len(shown) : x = 0
  BY <1>1
<1>3. Rewrites(calls, x)
  BY <1>1, <1>2 DEF Rewrites, Calling
<1>4. PICK t : t = After(calls)[k]
  OBVIOUS
<1>5. Grown(t, calls, k, x)
  BY <1>1, <1>3, <1>4, CallsGrow
<1>6. Touched(t, x) /\ PartsOf(shown) \subseteq PartsOf(t) /\ r.shown = t
  BY <1>4, <1>5 DEF Grown
<1>7. Followed(t, buf)
  BY <1>2, <1>6, FollowedSame DEF Begun
<1>8. ASSUME k = Len(calls) PROVE Said(m) \subseteq PartsOf(t)
  <2>1. Range(m.text) = UNION {Range(parts[i]) : i \in 1..k}
    BY <1>1, <1>8 DEF Pieces
  <2>2. \A i \in 1..k : Range(parts[i]) \subseteq PartsOf(t)
    BY <1>1, <1>5, <1>8 DEF Grown
  <2> QED
    BY <2>1, <2>2 DEF Said
<1> QED
  BY <1>6, <1>7, <1>8, KeptCompletes

LEMMA PlainCompletes ==
  ASSUME TypeInv, NEW m \in Message, Published(m), m.kind = "plain"
  PROVE  Completes(Plain(m), m)
<1> SUFFICES ASSUME Begun(m), NEW r \in Plain(m), Alive(faults + r.fault)
             PROVE  Complete(m, r)
  BY DEF Completes
<1>1. m.stream = None /\ faults \in Nat
  BY ConstantsAssumption DEF Published, TypeInv, TypeOK
<1>2. PICK parts, calls : PlainCalls(m, parts, calls)
  BY PlainIs
<1>3. calls \in Seq(Call)
  BY <1>2 DEF PlainCalls
<1>4. PICK failed : failed = buf
  OBVIOUS
<1>5. CASE adapter = "feishu"
  <2>1. r \in Unreported(Try(calls, buf, failed))
    BY <1>2, <1>4, <1>5 DEF PlainCalls
  <2>2. PICK k \in 0..Len(calls) : Quieted(r, calls, k, buf, failed)
    BY <1>3, <2>1, UnreportedStops
  <2>3. /\ r.ok /\ r.shown = After(calls)[k] /\ r.buf = buf /\ r.fault \in Nat
        /\ r.fault = 0 => k = Len(calls)
    BY <1>4, <2>2 DEF Quieted
  <2>4. Survived(m.stream, faults + r.fault) => r.fault = 0
    BY <1>1, <1>5, <2>3 DEF Survived
  <2> QED
    BY <1>1, <1>2, <2>2, <2>3, <2>4, PlainComplete
<1>6. adapter # "feishu" =>
        r \in Try(calls, buf, failed) \/ (adapter = "discord" /\ r \in Unresolved(shown, buf))
  BY <1>2, <1>4 DEF PlainCalls
<1>7. CASE adapter # "feishu" /\ r \in Try(calls, buf, failed)
  <2>1. r \in Try(calls, buf, failed)
    BY <1>7
  <2>2. PICK k \in 0..Len(calls) : Stopped(r, calls, k, buf, failed)
    BY <1>3, <2>1, TryStops
  <2>3. /\ r.shown = After(calls)[k] /\ r.buf = buf /\ r.fault \in Nat
        /\ r.ok => k = Len(calls)
        /\ ~r.ok => r.fault = 1
    BY <1>4, <2>2 DEF Stopped
  <2>4. ~r.ok => adapter = "discord" /\ r.fault = 1
    BY <1>7, <2>3, AliveFault
  <2> QED
    BY <1>1, <1>2, <2>2, <2>3, <2>4, PlainComplete
<1>8. CASE adapter = "discord" /\ r \in Unresolved(shown, buf)
  <2>1. r.shown = shown /\ r.buf = buf /\ r.ok /\ r.fault = 1
    <3>1. r = [shown |-> shown, buf |-> buf, fault |-> 1, ok |-> TRUE]
      BY <1>8 DEF Unresolved
    <3> QED
      BY <3>1
  <2>2. m.stream \in Lost(m, r)
    BY <1>8, <2>1 DEF Lost, Unsent
  <2>3. Followed(r.shown, buf)
    BY <2>1 DEF Begun
  <2> QED
    BY <2>1, <2>2, <2>3, KeptCompletes
<1> QED
  BY <1>5, <1>6, <1>7, <1>8

-----------------------------------------------------------------------------
(***************************************************************************)
(* That the frames of WebSocket show the text                              *)
(***************************************************************************)

\* A frame hides nothing that is shown.
LEMMA FrameGrows ==
  ASSUME NEW s \in Seq(Bubble), NEW c \in Call, c.op = "frame", NEW t, t = Perform(s, c)
  PROVE  t \in Seq(Bubble) /\ PartsOf(s) \cup Range(c.text) \subseteq PartsOf(t)
<1>1. DOMAIN s = 1..Len(s) /\ Len(s) \in Nat /\ c.text \in Seq(Nat)
  BY DEF Call, Parts
<1>2. t \in Seq(Bubble)
  BY PerformTyped
<1>3. DOMAIN t = 1..Len(t) /\ Len(t) \in Nat
  BY <1>2
<1>4. CASE Joined(s, c) = 0
  <2>1. /\ Len(t) = Len(s) + 1 /\ \A i \in 1..Len(s) : t[i] = s[i]
        /\ t[Len(s) + 1] = [chat |-> c.chat, stream |-> c.stream, text |-> c.text, final |-> c.final]
    BY <1>4, AppendedIs
  <2>2. PICK y : y = Len(s) + 1
    OBVIOUS
  <2>3. y \in 1..Len(t) /\ t[y].text = c.text
    BY <1>1, <1>3, <2>1, <2>2
  <2>4. \A i \in 1..Len(s) : i \in 1..Len(t) /\ t[i] = s[i]
    BY <1>1, <1>3, <2>1
  <2> QED
    BY <1>1, <1>2, <1>3, <2>3, <2>4 DEF PartsOf
<1>5. CASE Joined(s, c) # 0
  <2>1. PICK x : x = Joined(s, c)
    OBVIOUS
  <2>2. x \in 1..Len(s)
    BY <1>5, <2>1, JoinedIs
  <2>3. /\ Len(t) = Len(s)
        /\ \A i \in 1..Len(s) : i # x => t[i] = s[i]
        /\ t[x].text = s[x].text \o c.text
    BY <1>5, <2>1, <2>2, FramedIs
  <2>4. PICK a \in Seq(Nat) : a = s[x].text
    BY <2>2, BubbleParts
  <2>5. PICK d \in Seq(Nat) : d = c.text
    BY <1>1
  <2>6. Range(t[x].text) = Range(a) \cup Range(d)
    BY <2>3, <2>4, <2>5, JoinedTexts
  <2>7. \A i \in 1..Len(s) : i \in 1..Len(t) /\ Range(s[i].text) \subseteq Range(t[i].text)
    BY <2>3, <2>4, <2>6
  <2>8. x \in 1..Len(t) /\ Range(c.text) \subseteq Range(t[x].text)
    BY <2>2, <2>3, <2>5, <2>6
  <2>9. Range(c.text) \subseteq PartsOf(t)
    BY <1>3, <2>8 DEF PartsOf
  <2>10. PartsOf(s) \subseteq PartsOf(t)
    BY <1>1, <1>3, <2>7 DEF PartsOf
  <2> QED
    BY <1>2, <2>9, <2>10
<1> QED
  BY <1>4, <1>5

FramesOnly(calls) == calls \in Seq(Call) /\ \A j \in 1..Len(calls) : calls[j].op = "frame"

Gathered(t, calls, n) ==
  /\ t \in Seq(Bubble) /\ PartsOf(shown) \subseteq PartsOf(t)
  /\ \A j \in 1..n : Range(calls[j].text) \subseteq PartsOf(t)

LEMMA FramesGather ==
  ASSUME shown \in Seq(Bubble), NEW calls, FramesOnly(calls)
  PROVE  Gathered(After(calls)[Len(calls)], calls, Len(calls))
<1>1. calls \in Seq(Call) /\ \A j \in 1..Len(calls) : calls[j].op = "frame"
  BY DEF FramesOnly
<1>2. PICK f : f = After(calls)
  OBVIOUS
<1>3. PICK len \in Nat : len = Len(calls)
  BY <1>1
<1>4. f[0] = shown /\ \A n \in 1..len : f[n] = Perform(f[n - 1], calls[n])
  BY <1>1, <1>2, <1>3, AfterFollows
<1> DEFINE Good == {n \in Nat : n <= len => Gathered(f[n], calls, n)}
<1>5. 0 \in Good
  BY <1>4 DEF Gathered
<1>6. ASSUME NEW n \in Nat, n \in Good PROVE n + 1 \in Good
  <2> SUFFICES ASSUME n + 1 <= len PROVE Gathered(f[n + 1], calls, n + 1)
    OBVIOUS
  <2>1. n <= len /\ n + 1 \in 1..len /\ (n + 1) - 1 = n
    BY <1>3
  <2>2. PICK s : s = f[n]
    OBVIOUS
  <2>3. Gathered(s, calls, n)
    BY <1>6, <2>1, <2>2
  <2>4. PICK c \in Call : c = calls[n + 1]
    BY <1>1, <1>3, <2>1
  <2>5. c.op = "frame"
    BY <1>1, <1>3, <2>1, <2>4
  <2>6. PICK t : t = Perform(s, c)
    OBVIOUS
  <2>7. s \in Seq(Bubble)
    BY <2>3 DEF Gathered
  <2>8. t \in Seq(Bubble) /\ PartsOf(s) \cup Range(c.text) \subseteq PartsOf(t)
    BY <2>5, <2>6, <2>7, FrameGrows
  <2>9. f[n + 1] = t
    BY <1>4, <2>1, <2>2, <2>4, <2>6
  <2>10. \A j \in 1..(n + 1) : j \in 1..n \/ j = n + 1
    OBVIOUS
  <2>11. Gathered(t, calls, n + 1)
    BY <2>3, <2>4, <2>8, <2>10 DEF Gathered
  <2> QED
    BY <2>9, <2>11
<1>7. Nat \subseteq Good
  <2> HIDE DEF Good
  <2> QED
    BY <1>5, <1>6, SetInduction
<1> QED
  BY <1>2, <1>3, <1>7

\* What stays behind the frames is the rest of the text.
LEMMA RestHolds ==
  ASSUME NEW text \in Seq(Nat), NEW size \in Nat \ {0}, NEW full, full = Len(text) \div size,
         NEW rest, rest = Behind(text, full, size), NEW parts, parts = Chunks(text, size)
  PROVE  \A y \in Range(text) : y \in Range(rest) \/ \E i \in 1..full : y \in Range(parts[i])
<1>1. PICK len \in Nat : len = Len(text)
  OBVIOUS
<1>2. full \in Nat /\ len < full * size + size
  BY <1>1, Division
<1>3. Pieces(parts, text) /\ Len(parts) = (len + size - 1) \div size
  BY <1>1, ChunksAre
<1> SUFFICES ASSUME NEW y \in Range(text), \A i \in 1..full : y \notin Range(parts[i])
             PROVE  y \in Range(rest)
  OBVIOUS
<1>4. PICK i \in 1..Len(parts) : y \in Range(parts[i])
  BY <1>3 DEF Pieces
<1>5. Len(parts) \in Nat /\ i \in Nat /\ i > full
  <2>1. full \in Nat
    BY <1>2
  <2>2. parts \in Seq(Seq(Nat))
    BY <1>3 DEF Pieces
  <2>3. PICK count \in Nat : count = Len(parts)
    BY <2>2
  <2>4. i \in 1..count /\ i \notin 1..full
    BY <1>4, <2>3
  <2> QED
    BY <2>1, <2>3, <2>4
<1>6. /\ (i - 1) * size \in Nat /\ i * size \in Nat
      /\ (i - 1) * size < len /\ i * size = (i - 1) * size + size
  BY <1>1, <1>3, <1>4, ChunkBounds
<1>7. PICK h \in Nat : h = i - 1 /\ full <= h
  BY <1>2, <1>5
<1>8. h = full
  <2>9. full \in Nat /\ h \in Nat /\ full <= h
    BY <1>2, <1>7
  <2> SUFFICES ASSUME full + 1 <= h PROVE FALSE
    BY <2>9
  <2>1. PICK g \in Nat : g = full + 1 /\ g <= h
    BY <1>2
  <2>2. g * size <= h * size /\ g * size \in Nat /\ h * size \in Nat
    BY <2>1, Products
  <2>3. g * size = full * size + size /\ full * size \in Nat
    BY <1>2, <2>1
  <2>4. h * size < len
    BY <1>6, <1>7
  <2>5. PICK up \in Nat : up = full * size
    BY <2>3
  <2>6. up + size < len \/ up + size = len
    <3>1. PICK at \in Nat : at = h * size
      BY <2>2
    <3>2. up + size <= at /\ at < len
      BY <2>2, <2>3, <2>4, <2>5, <3>1
    <3> QED
      BY <1>1, <2>5, <3>1, <3>2
  <2>7. len < up + size
    BY <1>2, <2>5
  <2> QED
    BY <1>1, <2>5, <2>6, <2>7
<1>9. ~(i * size < len)
  <2>1. i * size = full * size + size
    BY <1>6, <1>7, <1>8
  <2>2. PICK e \in Nat : e = i * size
    BY <1>6
  <2>3. len < e
    BY <1>2, <2>1, <2>2
  <2> QED
    BY <2>2, <2>3
<1>10. parts[i] = SubSeq(text, (i - 1) * size + 1, len)
  BY <1>1, <1>3, <1>4, <1>9 DEF Chunks
<1>11. parts[i] = rest
  BY <1>1, <1>7, <1>8, <1>10 DEF Behind
<1> QED
  BY <1>4, <1>11


\* The buffers of a WebSocket channel have no bubble.
Unbubbled(bufs) == \A k \in Keys : bufs[k] # None => bufs[k].bubble = 0

LEMMA UnbubbledFollowed ==
  ASSUME NEW t \in Seq(Bubble), NEW bufs, Unbubbled(bufs)
  PROVE  Followed(t, bufs)
<1>1. Len(t) \in Nat /\ 0 \in 0..Len(t)
  OBVIOUS
<1>2. \A k \in Keys : bufs[k] # None => Traced(bufs[k], t)
  BY <1>1 DEF Unbubbled, Traced
<1> QED
  BY <1>2 DEF Unbubbled, Followed

\* The frames are sent, and what they do not show waits in the buffer new.
FramesSent(m, r, text, calls, new) ==
  /\ text = Waiting(m) \o m.text /\ FramesOnly(calls)
  /\ r.shown = After(calls)[Len(calls)] /\ r.buf = Put(m, new) /\ r.ok
  /\ new \in Buffer \cup {None}
  /\ new # None => m.kind = "delta" /\ new.stream = m.stream /\ new.bubble = 0
  /\ \A y \in Range(text) : \/ new # None /\ y \in Range(new.text)
                            \/ \E j \in 1..Len(calls) : y \in Range(calls[j].text)

LEMMA FramesComplete ==
  ASSUME TypeInv, adapter = "websocket", Unbubbled(buf), NEW m \in Message,
         m.kind \in {"delta", "end"}, NEW r, NEW text, NEW calls, NEW new,
         FramesSent(m, r, text, calls, new)
  PROVE  Complete(m, r)
<1>1. PICK k \in Keys : k = Key(m)
  BY KeyIs
<1>2. buf \in Buffers /\ shown \in Seq(Bubble) /\ ~Editing
  BY DEF TypeInv, TypeOK, Editing
<1>3. r.buf[k] = new /\ \A l \in Keys \ {k} : r.buf[l] = buf[l]
  BY <1>1, <1>2, PutIs DEF FramesSent
<1>4. Gathered(r.shown, calls, Len(calls))
  BY <1>2, FramesGather DEF FramesSent
<1>5. r.shown \in Seq(Bubble) /\ PartsOf(shown) \subseteq PartsOf(r.shown)
  BY <1>4 DEF Gathered
<1>6. Followed(r.shown, r.buf)
  <2>1. Unbubbled(r.buf)
    BY <1>1, <1>3 DEF Unbubbled, FramesSent
  <2> QED
    BY <1>5, <2>1, UnbubbledFollowed
<1>7. Range(text) \subseteq Reached(m, r, m.stream) /\ \A s : Reached(m, r, s) = Reached(m, r, m.stream)
  <2>1. \A s : HeldText(r.buf, k, s) = IF new = None THEN {} ELSE Range(new.text)
    BY <1>2, <1>3 DEF HeldText
  <2>2. \A j \in 1..Len(calls) : Range(calls[j].text) \subseteq PartsOf(r.shown)
    BY <1>4 DEF Gathered
  <2> QED
    BY <1>1, <2>1, <2>2 DEF Reached, FramesSent
<1>8. m.text \in Seq(Nat) /\ Waiting(m) \in Seq(Nat)
  <2>1. buf[k] # None => buf[k] \in Buffer
    BY <1>1, <1>2 DEF Buffers
  <2>2. Waiting(m) = IF buf[k] = None THEN <<>> ELSE buf[k].text
    BY <1>1 DEF Waiting
  <2>3. buf[k] # None => buf[k].text \in Seq(Nat)
    BY <2>1 DEF Buffer, Parts
  <2>4. <<>> \in Seq(Nat)
    BY EmptySeq
  <2> QED
    BY <2>2, <2>3, <2>4 DEF Message, Parts
<1>9. Range(text) = Range(Waiting(m)) \cup Range(m.text)
  BY <1>8, JoinedTexts DEF FramesSent
<1>10. \A s : HeldText(buf, k, s) \subseteq Range(text)
  BY <1>1, <1>9 DEF HeldText, Waiting
<1>11. Said(m) \subseteq Range(text)
  BY <1>9 DEF Said
<1>12. Holding(m, r)
  BY <1>1, <1>3 DEF Holding, FramesSent, Bare
<1>13. r.ok
  BY DEF FramesSent
<1>14. \A s \in Streams \cup {None} : HeldText(buf, k, s) \subseteq Reached(m, r, s)
  BY <1>7, <1>10
<1>15. Said(m) \subseteq Reached(m, r, m.stream)
  BY <1>7, <1>11
<1> QED
  BY <1>1, <1>3, <1>5, <1>6, <1>12, <1>13, <1>14, <1>15 DEF Complete

LEMMA FramedOnly ==
  ASSUME NEW m \in Message, NEW parts \in Seq(Seq(Nat)), NEW n \in 0..Len(parts),
         NEW calls, calls = Framed(m, parts, n)
  PROVE  FramesOnly(calls) /\ Len(calls) = n /\ \A i \in 1..n : calls[i].text = parts[i]
<1>1. n \in Nat /\ \A i \in 1..n : i \in 1..Len(parts)
  OBVIOUS
<1>2. \A i \in 1..n : calls[i] \in Call /\ calls[i].op = "frame" /\ calls[i].text = parts[i]
  <2> TAKE i \in 1..n
  <2>1. PICK t \in Seq(Nat) : t = parts[i]
    BY <1>1, ElementOfSeq
  <2>2. calls[i] = Frame(m, t)
    BY <2>1 DEF Framed
  <2> QED
    BY <2>1, <2>2, SendsTyped
<1>3. calls \in Seq(Call) /\ Len(calls) = n
  <2>1. calls = [i \in 1..n |-> Frame(m, parts[i])]
    BY DEF Framed
  <2> QED
    BY <1>1, <1>2, <2>1
<1> QED
  BY <1>2, <1>3 DEF FramesOnly

LEMMA WebSocketDeltaCompletes ==
  ASSUME TypeInv, adapter = "websocket", Unbubbled(buf), NEW m \in Message, m.kind = "delta",
         Published(m)
  PROVE  Completes(WebSocketDelta(m), m)
<1> SUFFICES ASSUME NEW r \in WebSocketDelta(m), Alive(faults + r.fault)
             PROVE  Complete(m, r)
  BY DEF Completes
<1>1. m.stream \in Streams /\ Chunk \in Nat \ {0}
  BY ConstantsAssumption DEF Published
<1>2. PICK text : text = Waiting(m) \o m.text
  OBVIOUS
<1>3. text \in Seq(Nat)
  BY <1>2, WaitingText
<1>4. PICK full : full = Len(text) \div Chunk
  OBVIOUS
<1>5. PICK rest : rest = Behind(text, full, Chunk)
  OBVIOUS
<1>6. PICK parts : parts = Chunks(text, Chunk)
  OBVIOUS
<1>7. /\ full \in 0..Len(parts) /\ rest \in Seq(Nat)
      /\ \A y \in Range(text) : y \in Range(rest) \/ \E i \in 1..full : y \in Range(parts[i])
  BY <1>1, <1>3, <1>4, <1>5, <1>6, RestOf, RestHolds
<1>8. parts \in Seq(Seq(Nat))
  <2>1. Pieces(parts, text)
    BY <1>1, <1>3, <1>6, ChunksAre
  <2> QED
    BY <2>1 DEF Pieces
<1>9. PICK calls : calls = Framed(m, parts, full)
  OBVIOUS
<1>10. FramesOnly(calls) /\ Len(calls) = full /\ \A i \in 1..full : calls[i].text = parts[i]
  BY <1>7, <1>8, <1>9, FramedOnly
<1>11. PICK new \in Buffer \cup {None} : new = [stream |-> m.stream, text |-> rest, bubble |-> 0]
  BY <1>1, <1>7 DEF Buffer, Parts
<1>12. new.text = rest /\ new.bubble = 0 /\ new.stream = m.stream /\ new # None
  <2>1. new \in Buffer
    BY <1>1, <1>7, <1>11 DEF Buffer, Parts
  <2> QED
    BY <1>11, <2>1, ConstantsAssumption
<1>13. PICK done : done = Put(m, new)
  OBVIOUS
<1>14. PICK failed : failed = buf
  OBVIOUS
<1>15. r \in Try(calls, done, failed)
  BY <1>2, <1>4, <1>5, <1>6, <1>9, <1>11, <1>13, <1>14 DEF WebSocketDelta, Behind, Framed
<1>16. r.shown = After(calls)[Len(calls)] /\ r.buf = done /\ r.ok
  <2>1. calls \in Seq(Call) /\ adapter \notin {"discord", "feishu"}
    BY <1>10 DEF FramesOnly
  <2> QED
    BY <1>15, <2>1, SureTry
<1>17. FramesSent(m, r, text, calls, new)
  BY <1>2, <1>7, <1>10, <1>12, <1>13, <1>16 DEF FramesSent
<1> QED
  BY <1>17, FramesComplete

LEMMA WebSocketEndCompletes ==
  ASSUME TypeInv, adapter = "websocket", Unbubbled(buf), NEW m \in Message, m.kind = "end",
         Published(m)
  PROVE  Completes(WebSocketEnd(m), m)
<1> SUFFICES ASSUME NEW r \in WebSocketEnd(m), Alive(faults + r.fault)
             PROVE  Complete(m, r)
  BY DEF Completes
<1>1. Chunk \in Nat \ {0}
  BY ConstantsAssumption
<1>2. PICK text : text = Waiting(m) \o m.text
  OBVIOUS
<1>3. text \in Seq(Nat)
  BY <1>2, WaitingText
<1>4. PICK parts : parts = Chunks(text, Chunk)
  OBVIOUS
<1>5. parts \in Seq(Seq(Nat)) /\ Range(text) = UNION {Range(parts[i]) : i \in 1..Len(parts)}
  <2>1. Pieces(parts, text)
    BY <1>1, <1>3, <1>4, ChunksAre
  <2> QED
    BY <2>1 DEF Pieces
<1>6. PICK n \in 0..Len(parts) : n = Len(parts)
  BY <1>5
<1>7. PICK frames : frames = Framed(m, parts, n)
  OBVIOUS
<1>8. FramesOnly(frames) /\ Len(frames) = n /\ \A i \in 1..n : frames[i].text = parts[i]
  BY <1>5, <1>7, FramedOnly
<1>9. PICK none \in Seq(Nat) : none = <<>>
  BY EmptySeq
<1>10. PICK c \in Call : c = Frame(m, none) /\ c.op = "frame"
  BY SendsTyped
<1>11. PICK calls : calls = frames \o <<c>>
  OBVIOUS
<1>12. /\ FramesOnly(calls) /\ Len(calls) = n + 1
       /\ \A i \in 1..n : calls[i].text = parts[i]
  <2>1. frames \in Seq(Call) /\ Len(frames) = n /\ n \in Nat
    BY <1>6, <1>8 DEF FramesOnly
  <2>2. /\ calls \in Seq(Call) /\ Len(calls) = n + 1 /\ calls[n + 1] = c
        /\ \A i \in 1..n : calls[i] = frames[i]
    BY <1>11, <2>1
  <2>3. \A i \in 1..(n + 1) : i \in 1..n \/ i = n + 1
    BY <2>1
  <2>4. \A i \in 1..n : frames[i].op = "frame"
    BY <1>8 DEF FramesOnly
  <2>5. \A i \in 1..Len(calls) : calls[i].op = "frame"
    BY <1>10, <2>2, <2>3, <2>4
  <2> QED
    BY <1>8, <2>2, <2>5 DEF FramesOnly
<1>13. PICK new : new = None
  OBVIOUS
<1>14. PICK done : done = Put(m, new)
  OBVIOUS
<1>15. PICK failed : failed = done
  OBVIOUS
<1>16. r \in Try(calls, done, failed)
  BY <1>2, <1>4, <1>6, <1>7, <1>9, <1>10, <1>11, <1>13, <1>14, <1>15 DEF WebSocketEnd, Framed
<1>17. r.shown = After(calls)[Len(calls)] /\ r.buf = done /\ r.ok
  <2>1. calls \in Seq(Call) /\ adapter \notin {"discord", "feishu"}
    BY <1>12 DEF FramesOnly
  <2> QED
    BY <1>16, <2>1, SureTry
<1>18. \A y \in Range(text) : \E j \in 1..Len(calls) : y \in Range(calls[j].text)
  <2> TAKE y \in Range(text)
  <2>1. PICK i \in 1..n : y \in Range(parts[i])
    BY <1>5, <1>6
  <2>2. i \in 1..Len(calls)
    BY <1>6, <1>12
  <2> QED
    BY <1>12, <2>1, <2>2
<1>19. FramesSent(m, r, text, calls, new)
  BY <1>2, <1>12, <1>13, <1>14, <1>17, <1>18 DEF FramesSent
<1> QED
  BY <1>19, FramesComplete

\* Each attempt of a message leaves out nothing but what the known losses take.
LEMMA SendOnceCompletes ==
  ASSUME TypeInv, adapter = "websocket" => Unbubbled(buf), NEW m \in Message, Published(m),
         m.kind \in {"delta", "end", "plain", "final"}
  PROVE  Completes(SendOnce(m), m)
<1>1. adapter \in Adapters
  BY DEF TypeInv, TypeOK
<1>2. CASE m.kind = "final"
  <2>1. SendOnce(m) = Quietly(buf)
    BY <1>2 DEF SendOnce
  <2> QED
    BY <1>2, <2>1, FinalCompletes
<1>3. CASE m.kind = "plain"
  <2>1. SendOnce(m) = Plain(m)
    BY <1>3 DEF SendOnce
  <2> QED
    BY <1>3, <2>1, PlainCompletes
<1>4. CASE m.kind = "delta"
  <2>1. CASE adapter = "telegram"
    <3>1. Streamed(m, TRUE)
      BY <1>4, <2>1 DEF Streamed, Editing
    <3>2. SendOnce(m) = TelegramDelta(m)
      BY <1>4, <2>1 DEF SendOnce
    <3> QED
      BY <2>1, <3>1, <3>2, TelegramDeltaCompletes
  <2>2. CASE adapter = "discord"
    <3>1. Streamed(m, TRUE)
      BY <1>4, <2>2 DEF Streamed, Editing
    <3>2. SendOnce(m) = DiscordDelta(m)
      BY <1>4, <2>2 DEF SendOnce
    <3> QED
      BY <2>2, <3>1, <3>2, DiscordDeltaCompletes
  <2>3. CASE adapter = "matrix"
    <3>1. Streamed(m, FALSE)
      BY <1>4, <2>3 DEF Streamed, Editing
    <3>2. SendOnce(m) = MatrixDelta(m)
      BY <1>4, <2>3 DEF SendOnce
    <3> QED
      BY <2>3, <3>1, <3>2, MatrixDeltaCompletes
  <2>4. CASE adapter = "feishu"
    <3>1. Streamed(m, FALSE)
      BY <1>4, <2>4 DEF Streamed, Editing
    <3>2. SendOnce(m) = FeishuDelta(m)
      BY <1>4, <2>4 DEF SendOnce
    <3> QED
      BY <2>4, <3>1, <3>2, FeishuDeltaCompletes
  <2>5. CASE adapter = "websocket"
    <3>1. SendOnce(m) = WebSocketDelta(m)
      BY <1>4, <2>5 DEF SendOnce
    <3> QED
      BY <1>4, <2>5, <3>1, WebSocketDeltaCompletes
  <2> QED
    BY <1>1, <2>1, <2>2, <2>3, <2>4, <2>5 DEF Adapters
<1>5. CASE m.kind = "end"
  <2>1. CASE adapter = "telegram"
    <3>1. SendOnce(m) = TelegramEnd(m)
      BY <1>5, <2>1 DEF SendOnce
    <3> QED
      BY <1>5, <2>1, <3>1, TelegramEndCompletes
  <2>2. CASE adapter = "discord"
    <3>1. SendOnce(m) = DiscordEnd(m)
      BY <1>5, <2>2 DEF SendOnce
    <3> QED
      BY <1>5, <2>2, <3>1, DiscordEndCompletes
  <2>3. CASE adapter = "matrix"
    <3>1. SendOnce(m) = MatrixEnd(m)
      BY <1>5, <2>3 DEF SendOnce
    <3> QED
      BY <1>5, <2>3, <3>1, MatrixEndCompletes
  <2>4. CASE adapter = "feishu"
    <3>1. SendOnce(m) = FeishuEnd(m)
      BY <1>5, <2>4 DEF SendOnce
    <3> QED
      BY <1>5, <2>4, <3>1, FeishuEndCompletes
  <2>5. CASE adapter = "websocket"
    <3>1. SendOnce(m) = WebSocketEnd(m)
      BY <1>5, <2>5 DEF SendOnce
    <3> QED
      BY <1>5, <2>5, <3>1, WebSocketEndCompletes
  <2> QED
    BY <1>1, <2>1, <2>2, <2>3, <2>4, <2>5 DEF Adapters
<1> QED
  BY <1>2, <1>3, <1>4, <1>5

-----------------------------------------------------------------------------
(***************************************************************************)
(* The messages that are still to be sent                                  *)
(***************************************************************************)

\* What the dispatcher takes next, what waits behind it, and what the agents
\* have still to publish.
Line == pending \o outbound \o script

Drops(q, n, r) ==
  /\ r \in Seq(Message) /\ n \in 0..Len(q) /\ Len(r) = Len(q) - n
  /\ \A i \in 1..Len(r) : r[i] = q[i + n]

LEMMA DropsJoin ==
  ASSUME NEW q \in Seq(Message), NEW t \in Seq(Message), NEW n, NEW r, Drops(q, n, r)
  PROVE  Drops(q \o t, n, r \o t)
<1>1. PICK a \in Nat : a = Len(q)
  OBVIOUS
<1>2. PICK d \in Nat : d = Len(t)
  OBVIOUS
<1>3. PICK e \in Nat : e = Len(r)
  <2>1. r \in Seq(Message)
    BY DEF Drops
  <2> QED
    BY <2>1
<1>4. r \in Seq(Message) /\ n \in 0..a /\ e + n = a /\ \A i \in 1..e : r[i] = q[i + n]
  BY <1>1, <1>3 DEF Drops
<1>5. PICK u : u = q \o t
  OBVIOUS
<1>6. /\ u \in Seq(Message) /\ Len(u) = a + d
      /\ \A i \in 1..(a + d) : u[i] = IF i <= a THEN q[i] ELSE t[i - a]
  BY <1>1, <1>2, <1>5, ConcatProperties
<1>7. PICK v : v = r \o t
  OBVIOUS
<1>8. /\ v \in Seq(Message) /\ Len(v) = e + d
      /\ \A i \in 1..(e + d) : v[i] = IF i <= e THEN r[i] ELSE t[i - e]
  BY <1>2, <1>3, <1>4, <1>7, ConcatProperties
<1>9. ASSUME NEW i \in 1..(e + d) PROVE v[i] = u[i + n]
  <2>1. i + n \in 1..(a + d) /\ (i <= e <=> i + n <= a) /\ i - e = (i + n) - a
    BY <1>4
  <2>2. CASE i <= e
    <3>1. i \in 1..e
      BY <2>2
    <3>2. v[i] = q[i + n]
      BY <1>4, <1>8, <2>2, <3>1
    <3> QED
      BY <1>6, <2>1, <2>2, <3>2
  <2>3. CASE ~(i <= e)
    <3>1. v[i] = t[(i + n) - a]
      BY <1>8, <2>1, <2>3
    <3>2. u[i + n] = t[(i + n) - a]
      BY <1>6, <2>1, <2>3
    <3> QED
      BY <3>1, <3>2
  <2> QED
    BY <2>2, <2>3
<1>10. n \in 0..(a + d) /\ e + d = (a + d) - n
  BY <1>4
<1>11. Drops(u, n, v)
  BY <1>6, <1>8, <1>9, <1>10 DEF Drops
<1> QED
  BY <1>5, <1>7, <1>11

LEMMA DropsTwice ==
  ASSUME NEW q \in Seq(Message), NEW n, NEW r, Drops(q, n, r), NEW k, NEW s, Drops(r, k, s)
  PROVE  Drops(q, n + k, s)
<1>1. PICK a \in Nat : a = Len(q)
  OBVIOUS
<1>2. n \in 0..a /\ Len(r) = a - n /\ \A i \in 1..(a - n) : r[i] = q[i + n]
  BY <1>1 DEF Drops
<1>3. k \in 0..(a - n) /\ s \in Seq(Message) /\ Len(s) = (a - n) - k /\ \A i \in 1..Len(s) : s[i] = r[i + k]
  BY <1>2 DEF Drops
<1>4. ASSUME NEW i \in 1..Len(s) PROVE s[i] = q[i + (n + k)]
  <2>1. i + k \in 1..(a - n) /\ (i + k) + n = i + (n + k)
    BY <1>2, <1>3
  <2> QED
    BY <1>2, <1>3, <2>1
<1>5. n + k \in 0..a /\ Len(s) = a - (n + k)
  BY <1>2, <1>3
<1> QED
  BY <1>1, <1>3, <1>4, <1>5 DEF Drops

LEMMA DropsHead ==
  ASSUME NEW q \in Seq(Message), q # <<>>
  PROVE  Drops(q, 1, Tail(q)) /\ 1 \in 1..Len(q) /\ q[1] = Head(q)
<1>1. PICK a \in Nat : a = Len(q)
  OBVIOUS
<1>2. a # 0
  BY <1>1, EmptySeq
<1>3. /\ Tail(q) \in Seq(Message) /\ Len(Tail(q)) = a - 1
      /\ \A i \in 1..Len(Tail(q)) : Tail(q)[i] = q[i + 1]
  BY <1>1, <1>2
<1> QED
  BY <1>1, <1>2, <1>3 DEF Drops

LEMMA DropsNone ==
  ASSUME NEW q \in Seq(Message)
  PROVE  Drops(q, 0, q)
BY DEF Drops

\* Every message but the dropped ones is still there.
LEMMA DropsRange ==
  ASSUME NEW q \in Seq(Message), NEW n, NEW r, Drops(q, n, r)
  PROVE  /\ \A i \in 1..Len(q) : i <= n \/ q[i] \in Range(r)
         /\ Range(r) \subseteq Range(q)
<1>1. PICK a \in Nat : a = Len(q)
  OBVIOUS
<1>2. /\ r \in Seq(Message) /\ n \in 0..a /\ Len(r) = a - n /\ \A i \in 1..(a - n) : r[i] = q[i + n]
      /\ DOMAIN r = 1..(a - n) /\ DOMAIN q = 1..a
  BY <1>1 DEF Drops
<1>3. ASSUME NEW i \in 1..a, ~(i <= n) PROVE q[i] \in Range(r)
  <2>1. PICK j \in 1..(a - n) : j + n = i
    <3>1. i - n \in 1..(a - n) /\ (i - n) + n = i
      BY <1>2, <1>3
    <3> QED
      BY <3>1
  <2> QED
    BY <1>2, <2>1 DEF Range
<1>4. ASSUME NEW j \in 1..(a - n) PROVE r[j] \in Range(q)
  <2>1. j + n \in 1..a
    BY <1>2
  <2> QED
    BY <1>2, <2>1 DEF Range
<1> QED
  BY <1>1, <1>2, <1>3, <1>4 DEF Range

LEMMA DropsClosed ==
  ASSUME NEW q \in Seq(Message), NEW n, NEW r, Drops(q, n, r), Closed(q)
  PROVE  Closed(r)
<1>1. PICK a \in Nat : a = Len(q)
  OBVIOUS
<1>2. /\ r \in Seq(Message) /\ n \in 0..a /\ Len(r) = a - n /\ \A i \in 1..(a - n) : r[i] = q[i + n]
      /\ DOMAIN r = 1..(a - n) /\ DOMAIN q = 1..a
  BY <1>1 DEF Drops
<1>3. ASSUME NEW i \in 1..(a - n), r[i].kind = "delta"
      PROVE  \E j \in 1..(a - n) : i < j /\ Closes(r[i], r[j])
  <2>1. i + n \in 1..a /\ r[i] = q[i + n]
    BY <1>2
  <2>2. PICK j \in 1..a : i + n < j /\ Closes(q[i + n], q[j])
    BY <1>2, <1>3, <2>1 DEF Closed
  <2>3. PICK h \in 1..(a - n) : h + n = j /\ i < h
    <3>1. j - n \in 1..(a - n) /\ (j - n) + n = j /\ i < j - n
      BY <1>2, <2>2
    <3> QED
      BY <3>1
  <2> QED
    BY <1>2, <2>1, <2>2, <2>3
<1> QED
  BY <1>2, <1>3 DEF Closed

\* A message that is published is in the line already.
LEMMA PublishDrops ==
  ASSUME TypeInv, Publish
  PROVE  /\ Line \in Seq(Message) /\ Drops(Line, 0, Line')
         /\ Head(script) \in Message /\ Head(script) \in Range(Line')
<1>1. pending \in Seq(Message) /\ outbound \in Seq(Message) /\ script \in Seq(Message)
  BY DEF TypeInv, TypeOK
<1>2. script # <<>> /\ pending' = pending /\ outbound' = Append(outbound, Head(script)) /\ script' = Tail(script)
  BY DEF Publish, dispatcher
<1>3. PICK h \in Message : h = Head(script)
  BY <1>1, <1>2
<1>4. PICK t \in Seq(Message) : t = Tail(script)
  <2>1. Tail(script) \in Seq(Message)
    BY <1>1, <1>2, HeadTailProperties
  <2> QED
    BY <2>1
<1>5. script = <<h>> \o t
  BY <1>1, <1>2, <1>3, <1>4
<1>6. Append(outbound, h) = outbound \o <<h>>
  BY <1>1, <1>3
<1>7. /\ Line' = pending \o (outbound \o <<h>>) \o t
      /\ Line = pending \o outbound \o (<<h>> \o t)
  BY <1>2, <1>3, <1>4, <1>5, <1>6 DEF Line
<1>8. Line' = Line
  <2>1. <<h>> \in Seq(Message)
    BY <1>3
  <2>2. PICK one \in Seq(Message) : one = <<h>>
    BY <2>1
  <2>3. pending \o (outbound \o one) = (pending \o outbound) \o one
    BY <1>1, <2>2, ConcatAssociative
  <2>4. pending \o outbound \in Seq(Message)
    BY <1>1, ConcatProperties
  <2>5. ((pending \o outbound) \o one) \o t = (pending \o outbound) \o (one \o t)
    BY <1>4, <2>2, <2>4, ConcatAssociative
  <2> QED
    BY <1>7, <2>2, <2>3, <2>5
<1>9. Line \in Seq(Message)
  BY <1>1 DEF Line
<1>10. h \in Range(Line)
  <2>1. script # <<>> /\ 1 \in 1..Len(script) /\ script[1] = h
    BY <1>1, <1>2, <1>3, DropsHead
  <2>2. h \in Range(script)
    BY <1>1, <2>1 DEF Range
  <2>3. PICK q \in Seq(Message) : q = pending \o outbound
    <3>1. pending \o outbound \in Seq(Message)
      BY <1>1, ConcatProperties
    <3> QED
      BY <3>1
  <2>4. Range(q \o script) = Range(q) \cup Range(script)
    BY <1>1, <2>3, RangeConcatenation
  <2> QED
    BY <2>2, <2>3, <2>4 DEF Line
<1> QED
  BY <1>3, <1>8, <1>9, <1>10, DropsNone

-----------------------------------------------------------------------------
(***************************************************************************)
(* Taking a message out of the line                                        *)
(***************************************************************************)

LEMMA SubSeqDrops ==
  ASSUME NEW q \in Seq(Message), NEW k \in Nat, k <= Len(q), NEW r, r = SubSeq(q, k + 1, Len(q))
  PROVE  Drops(q, k, r)
<1>1. PICK a \in Nat : a = Len(q)
  OBVIOUS
<1>2. \A i \in (k + 1)..a : q[i] \in Message
  <2>1. \A i \in (k + 1)..a : i \in 1..Len(q)
    BY <1>1
  <2> QED
    BY <2>1, ElementOfSeq
<1>3. /\ SubSeq(q, k + 1, a) \in Seq(Message)
      /\ Len(SubSeq(q, k + 1, a)) = IF k + 1 <= a THEN a - (k + 1) + 1 ELSE 0
      /\ \A i \in 1..(a - (k + 1) + 1) : SubSeq(q, k + 1, a)[i] = q[(k + 1) + i - 1]
  <2>1. k + 1 \in Int /\ a \in Int
    BY <1>1
  <2> QED
    BY <1>2, <2>1, SubSeqProperties
<1>4. a - (k + 1) + 1 = a - k /\ (~(k + 1 <= a) => a - k = 0) /\ a - k \in Nat
  BY <1>1
<1>5. r \in Seq(Message) /\ Len(r) = a - k
  BY <1>1, <1>3, <1>4
<1>6. \A i \in 1..(a - k) : r[i] = q[(k + 1) + i - 1] /\ (k + 1) + i - 1 = i + k
  BY <1>1, <1>3, <1>4
<1>7. \A i \in 1..(a - k) : r[i] = q[i + k]
  BY <1>6
<1> QED
  BY <1>1, <1>5, <1>7 DEF Drops

LEMMA PutBack ==
  ASSUME NEW q \in Seq(Message), NEW n \in Nat, n < Len(q), NEW r, Drops(q, n + 1, r),
         NEW back, back = <<q[n + 1]>>
  PROVE  Drops(q, n, back \o r)
<1>1. PICK a \in Nat : a = Len(q)
  OBVIOUS
<1>2. r \in Seq(Message) /\ Len(r) = a - (n + 1) /\ \A i \in 1..Len(r) : r[i] = q[i + (n + 1)]
  BY <1>1 DEF Drops
<1>3. PICK e \in Nat : e = Len(r)
  BY <1>2
<1>4. q[n + 1] \in Message
  <2>1. n + 1 \in 1..Len(q)
    BY <1>1
  <2> QED
    BY <2>1, ElementOfSeq
<1>5. back \in Seq(Message) /\ Len(back) = 1 /\ back[1] = q[n + 1]
  BY <1>4
<1>6. PICK v : v = back \o r
  OBVIOUS
<1>7. /\ v \in Seq(Message) /\ Len(v) = 1 + e
      /\ \A i \in 1..(1 + e) : v[i] = IF i <= 1 THEN back[i] ELSE r[i - 1]
  BY <1>2, <1>3, <1>5, <1>6, ConcatProperties
<1>8. ASSUME NEW i \in 1..(1 + e) PROVE v[i] = q[i + n]
  <2>1. CASE i = 1
    BY <1>5, <1>7, <2>1
  <2>2. CASE i # 1
    <3>1. i - 1 \in 1..e /\ ~(i <= 1) /\ (i - 1) + (n + 1) = i + n
      BY <1>3, <2>2
    <3>2. v[i] = r[i - 1]
      BY <1>7, <3>1
    <3>3. r[i - 1] = q[(i - 1) + (n + 1)]
      BY <1>2, <1>3, <3>1
    <3> QED
      BY <3>1, <3>2, <3>3
  <2> QED
    BY <2>1, <2>2
<1>9. 1 + e = a - n /\ n \in 0..a
  BY <1>1, <1>2, <1>3
<1>10. Drops(q, n, v)
  BY <1>1, <1>7, <1>8, <1>9 DEF Drops
<1> QED
  BY <1>6, <1>10

\* The merged message has the stream and all the text of those that went into
\* it, and ends the stream if one of them does.
Merged(m, q, c, n) ==
  /\ c.chat = m.chat /\ c.stream = m.stream /\ c.kind \in {"delta", "end"}
  /\ Range(m.text) \subseteq Range(c.text)
  /\ \A i \in 1..n : /\ SameStream(m, q[i]) /\ Range(q[i].text) \subseteq Range(c.text)
                     /\ q[i].kind = "end" => c.kind = "end"

LEMMA CoalescedDrops ==
  ASSUME NEW m \in Message, m.kind = "delta", Published(m), Rising(m.text),
         NEW q \in Seq(Message), InOrder(q), Messages(q), Below(Said(m), Tells(q)),
         NEW c, c = Coalesced(m, q)
  PROVE  \E n \in Nat : Drops(q, n, c.back \o c.rest) /\ Merged(m, q, c.msg, n)
<1>1. PICK n \in Nat : n = Absorbed(m, q)
  BY AbsorbedIs
<1>2. PICK a \in Nat : a = Len(q)
  OBVIOUS
<1>3. /\ n <= a /\ \A i \in 1..n : SameStream(m, q[i])
      /\ \A i \in 1..(n - 1) : q[i].kind = "delta"
  BY <1>1, <1>2, AbsorbedIs
<1>4. PICK t : t = Combined(m, q)[n]
  OBVIOUS
<1>5. Range(t) = Said(m) \cup UNION {Said(q[i]) : i \in 1..n}
  <2>1. Told(m) /\ \A i \in 1..n : Told(q[i])
    BY <1>3 DEF SameStream, Told
  <2>2. n \in 0..Len(q)
    BY <1>2, <1>3
  <2> QED
    BY <1>4, <2>1, <2>2, CombinedIs
<1>6. Said(m) = Range(m.text) /\ \A i \in 1..n : Said(q[i]) = Range(q[i].text)
  BY <1>3 DEF SameStream, Told, Said
<1>7. PICK ended \in BOOLEAN : ended <=> (n > 0 /\ q[n].kind = "end")
  <2>1. (n > 0 /\ q[n].kind = "end") \in BOOLEAN
    OBVIOUS
  <2> QED
    BY <2>1
<1>8. PICK crossed \in BOOLEAN : crossed <=> (~ended /\ n < a)
  <2>1. (~ended /\ n < a) \in BOOLEAN
    OBVIOUS
  <2> QED
    BY <2>1
<1>9. /\ c.msg = [m EXCEPT !.text = t, !.kind = IF ended THEN "end" ELSE "delta"]
      /\ c.back = IF crossed THEN <<q[n + 1]>> ELSE <<>>
      /\ c.rest = SubSeq(q, IF crossed THEN n + 2 ELSE n + 1, a)
  BY <1>1, <1>2, <1>4, <1>7, <1>8 DEF Coalesced
<1>10. PICK d : d = c.msg
  OBVIOUS
<1>11. /\ d.chat = m.chat /\ d.stream = m.stream /\ d.text = t
       /\ d.kind = IF ended THEN "end" ELSE "delta"
  <2>1. PICK kind : kind = IF ended THEN "end" ELSE "delta"
    OBVIOUS
  <2>2. d = [m EXCEPT !.text = t, !.kind = kind]
    BY <1>9, <1>10, <2>1
  <2> QED
    BY <2>1, <2>2 DEF Message
<1>12. Merged(m, q, d, n)
  <2>1. ASSUME NEW i \in 1..n, q[i].kind = "end" PROVE ended
    <3>1. i = n
      <4>1. i \in 1..(n - 1) \/ i = n
        OBVIOUS
      <4> QED
        BY <1>3, <2>1, <4>1
    <3> QED
      BY <1>7, <2>1, <3>1
  <2> QED
    BY <1>3, <1>5, <1>6, <1>11, <2>1 DEF Merged
<1>13. CASE crossed
  <2>1. n < Len(q) /\ n + 1 \in Nat /\ n + 1 <= Len(q) /\ (n + 1) + 1 = n + 2
    BY <1>2, <1>8, <1>13
  <2>2. c.rest = SubSeq(q, (n + 1) + 1, Len(q))
    BY <1>2, <1>9, <1>13, <2>1
  <2>3. Drops(q, n + 1, c.rest)
    BY <2>1, <2>2, SubSeqDrops
  <2>4. c.back = <<q[n + 1]>>
    BY <1>9, <1>13
  <2>5. Drops(q, n, c.back \o c.rest)
    BY <2>1, <2>3, <2>4, PutBack
  <2> QED
    BY <1>10, <1>12, <2>5
<1>14. CASE ~crossed
  <2>1. c.rest = SubSeq(q, n + 1, Len(q)) /\ c.back = <<>>
    BY <1>2, <1>9, <1>14
  <2>2. Drops(q, n, c.rest)
    BY <1>2, <1>3, <2>1, SubSeqDrops
  <2>3. c.rest \in Seq(Message)
    BY <2>2 DEF Drops
  <2>4. c.back \o c.rest = c.rest
    BY <2>1, <2>3, ConcatEmptySeq
  <2> QED
    BY <1>10, <1>12, <2>2, <2>4
<1> QED
  BY <1>13, <1>14

LEMMA TakenDrops ==
  ASSUME Inv, pending # <<>> \/ outbound # <<>>, NEW q, q = pending \o outbound
  PROVE  q \in Seq(Message) /\ Drops(q, 1, Rest) /\ 1 \in 1..Len(q) /\ q[1] = Taken
<1>1. pending \in Seq(Message) /\ Len(pending) <= 1 /\ outbound \in Seq(Message)
  BY DEF Inv, TypeInv, TypeOK
<1>2. q \in Seq(Message)
  BY <1>1, ConcatProperties
<1>3. CASE pending # <<>>
  <2>1. Drops(pending, 1, Tail(pending)) /\ 1 \in 1..Len(pending) /\ pending[1] = Head(pending)
    BY <1>1, <1>3, DropsHead
  <2>2. Tail(pending) = <<>>
    <3>1. Tail(pending) \in Seq(Message) /\ Len(Tail(pending)) = 0
      BY <1>1, <2>1 DEF Drops
    <3> QED
      BY <3>1, EmptySeq
  <2>3. Drops(pending \o outbound, 1, Tail(pending) \o outbound)
    BY <1>1, <2>1, DropsJoin
  <2>4. Tail(pending) \o outbound = outbound
    BY <1>1, <2>2, ConcatEmptySeq
  <2>5. Drops(q, 1, outbound)
    BY <2>3, <2>4
  <2>6. 1 \in 1..Len(q) /\ q[1] = pending[1]
    <3>1. Len(q) = Len(pending) + Len(outbound) /\ Len(pending) \in Nat /\ Len(outbound) \in Nat
      BY <1>1, ConcatProperties
    <3>2. 1 \in 1..(Len(pending) + Len(outbound)) /\ 1 <= Len(pending)
      BY <2>1, <3>1
    <3>3. q[1] = IF 1 <= Len(pending) THEN pending[1] ELSE outbound[1 - Len(pending)]
      BY <1>1, <3>2, ConcatProperties
    <3> QED
      BY <3>1, <3>2, <3>3
  <2> QED
    BY <1>2, <1>3, <2>1, <2>5, <2>6 DEF Taken, Rest
<1>4. CASE pending = <<>>
  <2>1. q = outbound /\ outbound # <<>>
    BY <1>1, <1>4, ConcatEmptySeq
  <2>2. Drops(outbound, 1, Tail(outbound)) /\ 1 \in 1..Len(outbound) /\ outbound[1] = Head(outbound)
    BY <1>1, <2>1, DropsHead
  <2> QED
    BY <1>2, <1>4, <2>1, <2>2 DEF Taken, Rest
<1> QED
  BY <1>3, <1>4

\* With the message that is taken go the first n of those behind it.
LEMMA LineDrops ==
  ASSUME Inv, pending # <<>> \/ outbound # <<>>, NEW n \in Nat, NEW r, Drops(Rest, n, r)
  PROVE  /\ Line \in Seq(Message) /\ Drops(Line, n + 1, r \o script)
         /\ Line[1] = Taken /\ \A i \in 1..n : Line[i + 1] = Rest[i]
<1>1. script \in Seq(Message)
  BY DEF Inv, TypeInv, TypeOK
<1>2. PICK q : q = pending \o outbound
  OBVIOUS
<1>3. q \in Seq(Message) /\ Drops(q, 1, Rest) /\ 1 \in 1..Len(q) /\ q[1] = Taken
  BY <1>2, TakenDrops
<1>4. Drops(q, n + 1, r)
  <2>1. PICK one \in Nat : one = 1
    OBVIOUS
  <2>2. Drops(q, one, Rest)
    BY <1>3, <2>1
  <2>3. Drops(q, one + n, r)
    BY <1>3, <2>2, DropsTwice
  <2>4. one + n = n + 1
    BY <2>1
  <2> QED
    BY <2>3, <2>4
<1>5. Drops(q \o script, n + 1, r \o script)
  BY <1>1, <1>3, <1>4, DropsJoin
<1>6. Line = q \o script
  BY <1>2 DEF Line
<1>7. /\ Line \in Seq(Message) /\ \A i \in 1..Len(q) : Line[i] = q[i]
  <2>1. /\ q \o script \in Seq(Message)
        /\ \A i \in 1..(Len(q) + Len(script)) :
             (q \o script)[i] = IF i <= Len(q) THEN q[i] ELSE script[i - Len(q)]
    BY <1>1, <1>3, ConcatProperties
  <2>2. Len(q) \in Nat /\ Len(script) \in Nat
    BY <1>1, <1>3
  <2>3. \A i \in 1..Len(q) : i \in 1..(Len(q) + Len(script)) /\ i <= Len(q)
    BY <2>2
  <2> QED
    BY <1>6, <2>1, <2>3
<1>8. ASSUME NEW i \in 1..n PROVE Line[i + 1] = Rest[i]
  <2>1. n + 1 \in 0..Len(q) /\ Len(Rest) = Len(q) - 1 /\ Len(q) \in Nat
    BY <1>3, <1>4 DEF Drops
  <2>2. i \in 1..Len(Rest) /\ i + 1 \in 1..Len(q)
    BY <2>1
  <2>3. Rest[i] = q[i + 1]
    BY <1>3, <2>2 DEF Drops
  <2> QED
    BY <1>7, <2>2, <2>3
<1> QED
  BY <1>3, <1>5, <1>6, <1>7, <1>8

\* What is left of a dropped message is in the one that is being sent.
Handed(g, now) ==
  /\ Told(g) => /\ now # None /\ Told(now.msg) /\ now.msg.chat = g.chat /\ now.msg.stream = g.stream
                /\ Range(g.text) \subseteq Range(now.msg.text)
  /\ g.kind = "end" => now.msg.kind = "end"

Closing(now, q) ==
  now # None /\ now.msg.kind = "delta" => \E m \in Range(q) : Closes(now.msg, m)

Moves(q, d, r, now) == Drops(q, d, r) /\ (\A i \in 1..d : Handed(q[i], now)) /\ Closing(now, r)

LEMMA TakeDelta ==
  ASSUME Inv, Closed(Line), pending # <<>> \/ outbound # <<>>, Taken.kind = "delta",
         NEW c, c = Coalesced(Taken, Rest), NEW now, now # None, now.msg = c.msg,
         NEW r, r = (c.back \o c.rest) \o script
  PROVE  \E d \in Nat : Moves(Line, d, r, now)
<1>1. /\ Taken \in Message /\ Published(Taken) /\ (Told(Taken) => Rising(Taken.text))
      /\ Rest \in Seq(Message) /\ InOrder(Rest) /\ Messages(Rest)
      /\ Below(Said(Taken), Tells(Rest))
  BY TakenIs
<1>2. Told(Taken) /\ Rising(Taken.text)
  BY <1>1 DEF Told
<1>3. PICK n \in Nat : Drops(Rest, n, c.back \o c.rest) /\ Merged(Taken, Rest, c.msg, n)
  BY <1>1, <1>2, CoalescedDrops
<1>4. PICK s : s = c.back \o c.rest
  OBVIOUS
<1>5. /\ Line \in Seq(Message) /\ Drops(Line, n + 1, s \o script)
      /\ Line[1] = Taken /\ \A i \in 1..n : Line[i + 1] = Rest[i]
  BY <1>3, <1>4, LineDrops
<1>6. Drops(Line, n + 1, r)
  BY <1>4, <1>5
<1>7. \A i \in 1..(n + 1) : i = 1 \/ (i - 1 \in 1..n /\ Line[i] = Rest[i - 1])
  <2>1. \A i \in 1..(n + 1) : i = 1 \/ (i - 1 \in 1..n /\ (i - 1) + 1 = i)
    OBVIOUS
  <2> QED
    BY <1>5, <2>1
<1>8. ASSUME NEW i \in 1..(n + 1) PROVE Handed(Line[i], now)
  <2>1. CASE i = 1
    BY <1>2, <1>3, <1>5, <2>1 DEF Handed, Merged, Told
  <2>2. CASE i # 1
    <3>1. PICK j \in 1..n : Line[i] = Rest[j]
      BY <1>7, <2>2
    <3> QED
      BY <1>3, <3>1 DEF Handed, Merged, SameStream, Told
  <2> QED
    BY <2>1, <2>2
<1>9. ASSUME c.msg.kind = "delta" PROVE \E m \in Range(r) : Closes(now.msg, m)
  <2>1. PICK a \in Nat : a = Len(Line) /\ DOMAIN Line = 1..a
    BY <1>5
  <2>2. 1 \in 1..a
    BY <1>6, <2>1 DEF Drops
  <2>3. PICK j \in 1..a : Closes(Line[1], Line[j])
    BY <1>5, <2>1, <2>2 DEF Closed
  <2>4. ~(j <= n + 1)
    <3> SUFFICES ASSUME j \in 1..(n + 1) PROVE FALSE
      OBVIOUS
    <3>1. j # 1
      BY <1>5, <2>3 DEF Closes
    <3>2. PICK h \in 1..n : Line[j] = Rest[h]
      BY <1>7, <3>1
    <3> QED
      BY <1>3, <1>9, <2>3, <3>2 DEF Merged, Closes
  <2>5. Line[j] \in Range(r)
    BY <1>5, <1>6, <2>1, <2>4, DropsRange
  <2> QED
    BY <1>3, <1>5, <2>3, <2>5 DEF Closes, Merged
<1>10. n + 1 \in Nat
  OBVIOUS
<1> QED
  BY <1>6, <1>8, <1>9, <1>10 DEF Moves, Closing

\* Take makes the line shorter by the messages whose text it hands on.
LEMMA TakeMoves ==
  ASSUME Inv, Closed(Line), Take
  PROVE  \E d \in Nat : Moves(Line, d, Line', current')
<1>1. pending # <<>> \/ outbound # <<>>
  BY DEF Take
<1>2. script' = script
  BY DEF Take
<1>3. PICK c : c = Coalesced(Taken, Rest)
  OBVIOUS
<1>4. \/ /\ Taken.kind = "delta" /\ current' = [msg |-> c.msg, attempt |-> 1]
         /\ pending' = c.back /\ outbound' = c.rest
      \/ /\ Taken.kind \in {"end", "plain", "final"} /\ current' = [msg |-> Taken, attempt |-> 1]
         /\ pending' = <<>> /\ outbound' = Rest
      \/ /\ Taken.kind \in {"progress", "elsewhere"} /\ current' = None
         /\ pending' = <<>> /\ outbound' = Rest
  BY <1>3 DEF Take, Taken, Rest
<1>5. Taken \in Message /\ Published(Taken) /\ Rest \in Seq(Message)
  BY <1>1, TakenIs
<1>6. CASE /\ Taken.kind = "delta" /\ current' = [msg |-> c.msg, attempt |-> 1]
           /\ pending' = c.back /\ outbound' = c.rest
  <2>1. PICK now : now = [msg |-> c.msg, attempt |-> 1]
    OBVIOUS
  <2>2. now.msg = c.msg /\ now # None
    <3>1. c.msg \in Message
      <4>1. Told(Taken)
        BY <1>6 DEF Told
      <4>2. /\ Rising(Taken.text) /\ InOrder(Rest) /\ Messages(Rest) /\ Below(Said(Taken), Tells(Rest))
        BY <1>1, <4>1, TakenIs
      <4> QED
        BY <1>3, <1>5, <1>6, <4>2, CoalescedIs
    <3>2. now \in Sending
      BY <2>1, <3>1, ConstantsAssumption DEF Sending
    <3> QED
      BY <2>1, <3>2, ConstantsAssumption
  <2>3. PICK r : r = (c.back \o c.rest) \o script
    OBVIOUS
  <2>4. \E d \in Nat : Moves(Line, d, r, now)
    BY <1>1, <1>3, <1>6, <2>2, <2>3, TakeDelta
  <2>5. Line' = r /\ current' = now
    BY <1>2, <1>6, <2>1, <2>3 DEF Line
  <2> QED
    BY <2>4, <2>5
<1>7. CASE Taken.kind # "delta" /\ pending' = <<>> /\ outbound' = Rest
  <2>1. PICK n \in Nat : n = 0
    OBVIOUS
  <2>2. Drops(Rest, n, Rest)
    BY <1>5, <2>1, DropsNone
  <2>3. Drops(Line, n + 1, Rest \o script) /\ Line[1] = Taken
    BY <1>1, <2>2, LineDrops
  <2>4. Line' = Rest \o script
    BY <1>2, <1>5, <1>7, ConcatEmptySeq DEF Line
  <2>5. Handed(Taken, current')
    <3>1. CASE Taken.kind \in {"end", "plain", "final"} /\ current' = [msg |-> Taken, attempt |-> 1]
      <4>1. PICK now : now = [msg |-> Taken, attempt |-> 1]
        OBVIOUS
      <4>2. now \in Sending /\ now.msg = Taken
        BY <1>5, <4>1, ConstantsAssumption DEF Sending
      <4>3. now # None
        BY <4>2, ConstantsAssumption
      <4> QED
        BY <3>1, <4>1, <4>2, <4>3 DEF Handed
    <3>2. CASE Taken.kind \in {"progress", "elsewhere"}
      BY <3>2 DEF Handed, Told
    <3> QED
      BY <1>4, <1>7, <3>1, <3>2
  <2>6. current' # None => current'.msg.kind # "delta"
    BY <1>4, <1>7
  <2>7. n + 1 \in Nat /\ \A i \in 1..(n + 1) : i = 1
    BY <2>1
  <2>8. Moves(Line, n + 1, Line', current')
    BY <2>3, <2>4, <2>5, <2>6, <2>7 DEF Moves, Closing
  <2> QED
    BY <2>7, <2>8
<1> QED
  BY <1>4, <1>6, <1>7

-----------------------------------------------------------------------------
(***************************************************************************)
(* Everything published is shown                                           *)
(***************************************************************************)

\* On Discord a first send that failed is tried again.
Retried(k, s) ==
  /\ adapter = "discord" /\ current # None /\ current.msg.kind = "delta"
  /\ Key(current.msg) = k /\ s = current.msg.stream /\ current.attempt > 1

\* Why a buffer may have no bubble.
BubbledInv ==
  \A k \in Keys : buf[k] # None /\ buf[k].bubble = 0 =>
    \/ adapter = "websocket"
    \/ Editing /\ buf[k].stream \in spoiled
    \/ Retried(k, buf[k].stream)
    \/ adapter = "feishu" /\ faults >= 1

\* Why a message is tried again.
AttemptsInv ==
  current # None => \/ current.attempt = 1
                    \/ Editing /\ current.msg.stream \in spoiled
                    \/ adapter = "discord" /\ current.attempt - 1 <= faults

Finishes(m, k, s) == m.kind = "end" /\ Key(m) = k /\ m.stream = s

\* What is in a buffer waits for the end of its stream.
EndsInv ==
  \A k \in Keys : buf[k] # None =>
    \/ Editing /\ buf[k].stream \in spoiled
    \/ \E m \in Range(Line) : Finishes(m, k, buf[k].stream)
    \/ current # None /\ Finishes(current.msg, k, buf[k].stream)

AliveInv == Alive(faults) => Followed(shown, buf) /\ BubbledInv /\ AttemptsInv /\ EndsInv

ClosedInv == Closed(Line) /\ Closing(current, Line)

\* Where the text of a published message is: in the bubbles, in its buffer, in
\* the messages that wait, or in the one that is being sent.
From(m, c, s) == IF m.chat = c /\ m.stream = s THEN Said(m) ELSE {}
Coming(c, s) == UNION {From(m, c, s) : m \in Range(Line)}
Handling(c, s) == IF current = None THEN {} ELSE From(current.msg, c, s)
Due(o) ==
  PartsOf(shown) \cup HeldText(buf, Key(o), o.stream)
    \cup Coming(o.chat, o.stream) \cup Handling(o.chat, o.stream)

OwedInv ==
  \A o \in owed : /\ Told(o)
                  /\ Survived(o.stream, faults) =>
                       o.stream \in spoiled \/ Range(o.text) \subseteq Due(o)

\* Every message that leaves the line is handed on.
Carried == \A g \in Range(Line) : g \in Range(Line') \/ Handed(g, current')

Waits ==
  /\ UNCHANGED <<adapter, buf, shown, faults, spoiled>> /\ Carried
  /\ \/ current' = current
     \/ current = None /\ (current' = None \/ current'.attempt = 1)

LEMMA FollowedStays ==
  ASSUME Followed(shown, buf), UNCHANGED <<adapter, shown, buf>>
  PROVE  Followed(shown, buf)'
BY DEF Followed, Traced, First, Editing

LEMMA WaitsAlive ==
  ASSUME AliveInv, Waits
  PROVE  AliveInv'
<1>1. UNCHANGED <<adapter, buf, shown, faults, spoiled>> /\ (Editing' <=> Editing)
  BY DEF Waits, Editing
<1>2. \/ current' = current
      \/ current = None /\ (current' = None \/ current'.attempt = 1)
  BY DEF Waits
<1>3. SUFFICES ASSUME Alive(faults)'
               PROVE  Followed(shown, buf)' /\ BubbledInv' /\ AttemptsInv' /\ EndsInv'
  BY DEF AliveInv
<1>4. Alive(faults)
  BY <1>1, <1>3 DEF Alive
<1>5. Followed(shown, buf) /\ BubbledInv /\ AttemptsInv /\ EndsInv
  BY <1>4 DEF AliveInv
<1>6. Followed(shown, buf)'
  BY <1>1, <1>5, FollowedStays
<1>7. BubbledInv'
  <2>1. ASSUME NEW k \in Keys, buf[k] # None, buf[k].bubble = 0
        PROVE  \/ adapter = "websocket"
               \/ Editing /\ buf[k].stream \in spoiled
               \/ Retried(k, buf[k].stream)'
               \/ adapter = "feishu" /\ faults >= 1
    <3>1. CASE Retried(k, buf[k].stream)
      BY <1>1, <1>2, <3>1 DEF Retried, Key
    <3> QED
      BY <1>5, <2>1, <3>1 DEF BubbledInv
  <2> QED
    BY <1>1, <2>1 DEF BubbledInv
<1>8. AttemptsInv'
  BY <1>1, <1>2, <1>5 DEF AttemptsInv
<1>9. EndsInv'
  <2>1. ASSUME NEW k \in Keys, buf[k] # None
        PROVE  \/ Editing /\ buf[k].stream \in spoiled
               \/ \E m \in Range(Line') : Finishes(m, k, buf[k].stream)
               \/ current' # None /\ Finishes(current'.msg, k, buf[k].stream)
    <3>1. ASSUME NEW m \in Range(Line), Finishes(m, k, buf[k].stream), m \notin Range(Line')
          PROVE  current' # None /\ Finishes(current'.msg, k, buf[k].stream)
      <4>1. Handed(m, current') /\ m.kind = "end"
        BY <3>1 DEF Waits, Carried, Finishes
      <4> QED
        BY <3>1, <4>1 DEF Handed, Told, Finishes, Key
    <3>2. CASE current # None /\ Finishes(current.msg, k, buf[k].stream)
      BY <1>2, <3>2
    <3> QED
      BY <1>5, <2>1, <3>1, <3>2 DEF EndsInv
  <2>2. \A m, k, s : Finishes(m, k, s)' <=> Finishes(m, k, s)
    BY <1>1 DEF Finishes, Key
  <2>3. current' # None => \A k, s : Finishes(current.msg, k, s)' <=> Finishes(current'.msg, k, s)
    BY <1>1 DEF Finishes, Key
  <2> QED
    BY <1>1, <2>1, <2>2, <2>3 DEF EndsInv
<1> QED
  BY <1>6, <1>7, <1>8, <1>9

LEMMA WaitsOwed ==
  ASSUME OwedInv, Waits, \A o \in owed' : o \in owed \/ (Told(o) /\ o \in Range(Line'))
  PROVE  OwedInv'
<1>1. UNCHANGED <<adapter, buf, shown, faults, spoiled>> /\ (Editing' <=> Editing)
  BY DEF Waits, Editing
<1>2. ASSUME NEW c, NEW s, NEW x \in Coming(c, s) \cup Handling(c, s)
      PROVE  x \in Coming(c, s)' \cup Handling(c, s)'
  <2>1. CASE x \in Coming(c, s)
    <3>1. PICK g \in Range(Line) : x \in From(g, c, s)
      BY <2>1 DEF Coming
    <3>2. CASE g \in Range(Line')
      BY <3>1, <3>2 DEF Coming
    <3>3. CASE Handed(g, current')
      BY <3>1, <3>3 DEF Handed, Handling, From, Said
    <3> QED
      BY <3>1, <3>2, <3>3 DEF Waits, Carried
  <2>2. CASE x \in Handling(c, s)
    BY <2>2 DEF Waits, Handling
  <2> QED
    BY <1>2, <2>1, <2>2
<1>3. ASSUME NEW o \in owed', Survived(o.stream, faults)'
      PROVE  o.stream \in spoiled \/ Range(o.text) \subseteq Due(o)'
  <2>1. CASE o \in owed
    <3>1. Survived(o.stream, faults)
      BY <1>1, <1>3 DEF Survived, Alive
    <3>2. o.stream \in spoiled \/ Range(o.text) \subseteq Due(o)
      BY <2>1, <3>1 DEF OwedInv
    <3>3. HeldText(buf, Key(o), o.stream)' = HeldText(buf, Key(o), o.stream)
      BY <1>1 DEF HeldText, Key, Editing
    <3>4. Coming(o.chat, o.stream) \cup Handling(o.chat, o.stream)
            \subseteq Coming(o.chat, o.stream)' \cup Handling(o.chat, o.stream)'
      BY <1>2
    <3>5. PartsOf(shown)' = PartsOf(shown)
      BY <1>1 DEF PartsOf
    <3> QED
      BY <3>2, <3>3, <3>4, <3>5 DEF Due
  <2>2. CASE Told(o) /\ o \in Range(Line')
    <3>1. From(o, o.chat, o.stream) = Range(o.text)
      BY <2>2 DEF From, Said
    <3>2. Range(o.text) \subseteq Coming(o.chat, o.stream)'
      BY <2>2, <3>1 DEF Coming
    <3> QED
      BY <3>2 DEF Due
  <2> QED
    BY <1>3, <2>1, <2>2
<1>4. \A o \in owed' : Told(o)
  BY DEF OwedInv
<1> QED
  BY <1>1, <1>3, <1>4 DEF OwedInv

\* The invariant behind ShownComplete.
DueInv == Inv /\ AliveInv /\ ClosedInv /\ OwedInv

LEMMA PublishDue ==
  ASSUME DueInv, Publish
  PROVE  DueInv'
<1>1. Inv /\ TypeInv /\ AliveInv /\ ClosedInv /\ OwedInv
  BY DEF DueInv, Inv
<1>2. PICK h : h = Head(script)
  OBVIOUS
<1>3. /\ owed' = IF h.kind \in {"delta", "plain"} THEN owed \cup {h} ELSE owed
      /\ UNCHANGED <<adapter, current, buf, shown, faults, spoiled>>
  BY <1>2 DEF Publish, dispatcher
<1>4. PICK n \in Nat : n = 0
  OBVIOUS
<1>5. Line \in Seq(Message) /\ Drops(Line, n, Line') /\ h \in Range(Line')
  BY <1>1, <1>2, <1>4, PublishDrops
<1>6. Closed(Line')
  BY <1>1, <1>5, DropsClosed DEF ClosedInv
<1>7. \A g \in Range(Line) : g \in Range(Line')
  <2>1. \A i \in 1..Len(Line) : i <= n \/ Line[i] \in Range(Line')
    BY <1>5, DropsRange
  <2>2. DOMAIN Line = 1..Len(Line) /\ Len(Line) \in Nat
    BY <1>5
  <2> QED
    BY <1>4, <2>1, <2>2 DEF Range
<1>8. Closing(current, Line)'
  BY <1>1, <1>3, <1>7 DEF ClosedInv, Closing
<1>9. Waits
  BY <1>3, <1>7 DEF Waits, Carried
<1>10. \A o \in owed' : o \in owed \/ (Told(o) /\ o \in Range(Line'))
  BY <1>3, <1>5 DEF Told
<1>11. Inv' /\ AliveInv' /\ OwedInv'
  BY <1>1, <1>9, <1>10, PublishKeeps, WaitsAlive, WaitsOwed
<1>12. ClosedInv'
  BY <1>6, <1>8 DEF ClosedInv
<1> QED
  BY <1>11, <1>12 DEF DueInv

LEMMA TakeDue ==
  ASSUME DueInv, Take
  PROVE  DueInv'
<1>1. Inv /\ TypeInv /\ AliveInv /\ ClosedInv /\ OwedInv
  BY DEF DueInv, Inv
<1>2. /\ UNCHANGED <<adapter, script, buf, shown, faults, owed, spoiled>> /\ current = None
      /\ current' = None \/ \E m : current' = [msg |-> m, attempt |-> 1]
  BY DEF Take, history
<1>3. PICK d \in Nat : Moves(Line, d, Line', current')
  BY <1>1, TakeMoves DEF ClosedInv
<1>4. Line \in Seq(Message)
  <2>1. pending \in Seq(Message) /\ outbound \in Seq(Message) /\ script \in Seq(Message)
    BY <1>1 DEF TypeInv, TypeOK
  <2> QED
    BY <2>1 DEF Line
<1>5. Drops(Line, d, Line') /\ (\A i \in 1..d : Handed(Line[i], current')) /\ Closing(current', Line')
  BY <1>3 DEF Moves
<1>6. Carried
  <2>1. \A i \in 1..Len(Line) : i <= d \/ Line[i] \in Range(Line')
    BY <1>4, <1>5, DropsRange
  <2>2. DOMAIN Line = 1..Len(Line) /\ Len(Line) \in Nat
    BY <1>4
  <2>3. ASSUME NEW i \in 1..Len(Line) PROVE Line[i] \in Range(Line') \/ Handed(Line[i], current')
    BY <1>5, <2>1, <2>2
  <2> QED
    BY <2>2, <2>3 DEF Range, Carried
<1>7. Closed(Line')
  BY <1>1, <1>4, <1>5, DropsClosed DEF ClosedInv
<1>8. Closing(current, Line)'
  BY <1>5 DEF Closing, Closes
<1>9. Waits
  BY <1>2, <1>6 DEF Waits
<1>10. Inv' /\ AliveInv' /\ OwedInv'
  BY <1>1, <1>2, <1>9, TakeKeeps, WaitsAlive, WaitsOwed
<1>11. ClosedInv'
  BY <1>7, <1>8 DEF ClosedInv
<1> QED
  BY <1>10, <1>11 DEF DueInv

\* What the invariant says when a message is sent once more.
LEMMA BegunHolds ==
  ASSUME Inv, BubbledInv, Followed(shown, buf), current # None
  PROVE  Begun(current.msg)
<1>1. current.msg \in Message
  BY DEF Inv, TypeInv, TypeOK, Sending
<1>2. PICK m \in Message : m = current.msg
  BY <1>1
<1>3. Key(m) \in Keys
  BY KeyIs
<1>4. buf[Key(m)] # None => Bare(buf[Key(m)], m, spoiled, TRUE, faults)
  BY <1>2, <1>3 DEF BubbledInv, Bare, Retried
<1> QED
  BY <1>2, <1>4 DEF Begun

LEMMA NothingBubbled ==
  ASSUME Inv, Alive(faults), adapter = "websocket"
  PROVE  Unbubbled(buf)
<1>1. Settled(shown, buf, Now \cup Later)
  BY DEF Inv, ShownInv, Counts, Alive
<1>2. \A k \in Keys : buf[k] # None => Live(buf, k)
  BY DEF Live, Stuck
<1> QED
  BY <1>1, <1>2 DEF Settled, Shows, Unbubbled

\* An attempt that leaves the text alive.
Attempted(m, r) ==
  /\ m \in Message /\ m = current.msg /\ current # None /\ current.attempt \in 1..MaxAttempts
  /\ r.fault \in Nat /\ Complete(m, r)
  /\ shown' = r.shown /\ buf' = r.buf /\ faults' = faults + r.fault /\ spoiled' = Lost(m, r)
  /\ \/ r.ok /\ current' = None
     \/ ~r.ok /\ current.attempt = MaxAttempts /\ current' = None
     \/ /\ ~r.ok /\ current' # None /\ current'.msg = m
        /\ current'.attempt = current.attempt + 1
  /\ UNCHANGED <<adapter, owed>> /\ Line' = Line

LEMMA AttemptTakes ==
  ASSUME Inv, AliveInv, Attempt, Alive(faults)'
  PROVE  \E m, r : Attempted(m, r)
<1>1. TypeInv /\ CurrentInv
  BY DEF Inv
<1>2. /\ current \in Sending /\ current # None
      /\ UNCHANGED <<adapter, script, outbound, pending, owed>>
  BY <1>1 DEF Attempt, TypeInv, TypeOK
<1>3. PICK m \in Message : m = current.msg
  BY <1>2 DEF Sending
<1>4. PICK r \in SendOnce(m) :
        /\ shown' = r.shown /\ buf' = r.buf /\ faults' = faults + r.fault
        /\ spoiled' = spoiled \cup Spoils(m) \cup Unsent(m, r)
        /\ \/ r.ok /\ current' = None
           \/ ~r.ok /\ current.attempt = MaxAttempts /\ current' = None
           \/ /\ ~r.ok /\ current.attempt < MaxAttempts
              /\ current' = [current EXCEPT !.attempt = @ + 1]
  BY <1>3 DEF Attempt
<1>5. Published(m) /\ m.kind \in {"delta", "end", "plain", "final"}
  BY <1>1, <1>2, <1>3 DEF CurrentInv
<1>6. r.fault \in Nat
  <2>1. PICK above : above = Later
    OBVIOUS
  <2>2. Handles(SendOnce(m), m, above)
    BY <1>1, <1>5, SendOnceHandles
  <2> QED
    BY <1>4, <2>2 DEF Handles, Outcome
<1>7. Alive(faults + r.fault) /\ Alive(faults)
  <2>1. faults \in Nat /\ MaxAttempts \in Nat
    BY <1>1, ConstantsAssumption DEF TypeInv, TypeOK
  <2> QED
    BY <1>2, <1>4, <1>6, <2>1 DEF Alive
<1>8. Followed(shown, buf) /\ BubbledInv
  BY <1>7 DEF AliveInv
<1>9. Complete(m, r)
  <2>1. Begun(m)
    BY <1>2, <1>3, <1>8, BegunHolds
  <2>2. adapter = "websocket" => Unbubbled(buf)
    BY <1>7, NothingBubbled
  <2>3. Completes(SendOnce(m), m)
    BY <1>1, <1>5, <2>2, SendOnceCompletes
  <2> QED
    BY <1>4, <1>7, <2>1, <2>3 DEF Completes
<1>10. current.attempt \in 1..MaxAttempts /\ MaxAttempts \in Nat
  BY <1>2, ConstantsAssumption DEF Sending
<1>11. \/ r.ok /\ current' = None
       \/ ~r.ok /\ current.attempt = MaxAttempts /\ current' = None
       \/ /\ ~r.ok /\ current' # None /\ current'.msg = m
          /\ current'.attempt = current.attempt + 1
  <2>1. CASE ~r.ok /\ current.attempt < MaxAttempts
             /\ current' = [current EXCEPT !.attempt = @ + 1]
    <3>1. PICK a \in 1..MaxAttempts : a = current.attempt + 1
      BY <1>10, <2>1
    <3>2. current' = [msg |-> m, attempt |-> a]
      BY <1>2, <1>3, <2>1, <3>1 DEF Sending
    <3>3. PICK c : c = [msg |-> m, attempt |-> a]
      OBVIOUS
    <3>4. c \in Sending /\ c.msg = m /\ c.attempt = a
      BY <3>1, <3>3 DEF Sending
    <3>5. c # None
      BY <3>4, ConstantsAssumption
    <3>6. current' = c
      BY <3>2, <3>3
    <3> QED
      BY <2>1, <3>1, <3>4, <3>5, <3>6
  <2> QED
    BY <1>4, <2>1
<1>12. spoiled' = Lost(m, r) /\ Line' = Line
  BY <1>2, <1>3, <1>4 DEF Lost, Line
<1>13. Attempted(m, r)
  BY <1>2, <1>3, <1>4, <1>6, <1>9, <1>10, <1>11, <1>12 DEF Attempted
<1> QED
  BY <1>13

\* While the text is alive only a stream that is spoiled is given up.
LEMMA GivenUp ==
  ASSUME TypeInv, AttemptsInv, NEW m, NEW r, Attempted(m, r), Alive(faults)', ~r.ok, current' = None
  PROVE  Editing /\ m.stream \in spoiled'
<1>1. current.attempt = MaxAttempts /\ MaxAttempts \in Nat \ {0} /\ faults \in Nat /\ r.fault \in Nat
  BY ConstantsAssumption DEF Attempted, TypeInv, TypeOK
<1>2. (adapter = "discord" /\ r.fault = 1) \/ (Editing /\ m.stream \in spoiled')
  BY DEF Attempted, Complete
<1>3. spoiled \subseteq spoiled' /\ m = current.msg /\ current # None /\ faults' = faults + r.fault
  BY DEF Attempted, Lost
<1>4. adapter = "discord" => faults' = 0 \/ faults' < MaxAttempts
  BY DEF Alive, Attempted
<1>5. CASE adapter = "discord" /\ r.fault = 1
  <2>1. ~(current.attempt = 1) /\ ~(current.attempt - 1 <= faults)
    BY <1>1, <1>3, <1>4, <1>5
  <2> QED
    BY <1>3, <2>1 DEF AttemptsInv
<1> QED
  BY <1>2, <1>5

LEMMA AttemptBubbled ==
  ASSUME TypeInv, BubbledInv, AttemptsInv, NEW m, NEW r, Attempted(m, r), Alive(faults)'
  PROVE  BubbledInv'
<1>1. /\ adapter' = adapter /\ (Editing' <=> Editing) /\ spoiled \subseteq spoiled'
      /\ buf' = r.buf /\ faults' = faults + r.fault /\ spoiled' = Lost(m, r)
      /\ Complete(m, r) /\ m = current.msg /\ current # None
  BY DEF Attempted, Editing, Lost
<1>2. faults \in Nat /\ r.fault \in Nat /\ current.attempt \in Nat /\ current.attempt >= 1
  BY ConstantsAssumption DEF Attempted, TypeInv, TypeOK
<1>3. ASSUME NEW k \in Keys, buf'[k] # None, buf'[k].bubble = 0
      PROVE  \/ adapter = "websocket"
             \/ Editing /\ buf'[k].stream \in spoiled'
             \/ Retried(k, buf[k].stream)'
             \/ adapter = "feishu" /\ faults' >= 1
  <2>1. CASE k # Key(m)
    <3>1. buf'[k] = buf[k]
      BY <1>1, <2>1 DEF Complete
    <3>2. ~Retried(k, buf[k].stream)
      BY <1>1, <2>1 DEF Retried
    <3>3. faults >= 1 => faults' >= 1
      BY <1>1, <1>2
    <3> QED
      BY <1>1, <1>3, <3>1, <3>2, <3>3 DEF BubbledInv
  <2>2. CASE k = Key(m)
    <3>1. PICK b : b = buf'[k]
      OBVIOUS
    <3>2. Bare(b, m, spoiled', ~r.ok, faults')
      BY <1>1, <1>3, <2>2, <3>1 DEF Complete, Holding
    <3>3. ASSUME adapter = "discord", m.kind = "delta", b.stream = m.stream, ~r.ok
          PROVE  (Editing /\ b.stream \in spoiled') \/ Retried(k, buf[k].stream)'
      <4>1. CASE current' = None
        BY <3>3, <4>1, GivenUp
      <4>2. CASE current' # None
        <5>1. current'.msg = m /\ current'.attempt = current.attempt + 1
          BY <4>2 DEF Attempted
        <5>2. current'.attempt > 1
          BY <1>2, <5>1
        <5>3. Key(current.msg)' = k
          BY <1>1, <2>2, <5>1 DEF Key
        <5> QED
          BY <1>1, <3>1, <3>3, <4>2, <5>1, <5>2, <5>3 DEF Retried
      <4> QED
        BY <4>1, <4>2
    <3> QED
      BY <1>3, <3>1, <3>2, <3>3 DEF Bare
  <2> QED
    BY <2>1, <2>2
<1> QED
  BY <1>1, <1>3 DEF BubbledInv

LEMMA AttemptAttempts ==
  ASSUME TypeInv, AttemptsInv, NEW m, NEW r, Attempted(m, r)
  PROVE  AttemptsInv'
<1>1. /\ adapter' = adapter /\ (Editing' <=> Editing) /\ spoiled \subseteq spoiled'
      /\ faults' = faults + r.fault /\ m = current.msg /\ current # None
  BY DEF Attempted, Editing, Lost
<1>2. faults \in Nat /\ r.fault \in Nat /\ current.attempt \in Nat
  BY ConstantsAssumption DEF Attempted, TypeInv, TypeOK
<1>3. SUFFICES ASSUME current' # None
               PROVE  \/ Editing /\ m.stream \in spoiled'
                      \/ adapter = "discord" /\ current'.attempt - 1 <= faults'
  BY <1>1 DEF AttemptsInv, Attempted
<1>4. ~r.ok /\ current'.attempt = current.attempt + 1
  BY <1>3 DEF Attempted
<1>5. (adapter = "discord" /\ r.fault = 1) \/ (Editing /\ m.stream \in spoiled')
  BY <1>4 DEF Attempted, Complete
<1>6. CASE adapter = "discord" /\ r.fault = 1
  <2>1. current.attempt = 1 \/ current.attempt - 1 <= faults => current'.attempt - 1 <= faults'
    BY <1>1, <1>2, <1>4, <1>6
  <2> QED
    BY <1>1, <1>6, <2>1 DEF AttemptsInv
<1> QED
  BY <1>5, <1>6

LEMMA AttemptEnds ==
  ASSUME TypeInv, AttemptsInv, EndsInv, ClosedInv, NEW m, NEW r, Attempted(m, r), Alive(faults)'
  PROVE  EndsInv'
<1>1. /\ adapter' = adapter /\ (Editing' <=> Editing) /\ spoiled \subseteq spoiled'
      /\ buf' = r.buf /\ spoiled' = Lost(m, r) /\ Line' = Line
      /\ Complete(m, r) /\ m = current.msg /\ current # None
  BY DEF Attempted, Editing, Lost
<1>2. ASSUME NEW k \in Keys, buf'[k] # None
      PROVE  \/ Editing /\ buf'[k].stream \in spoiled'
             \/ \E n \in Range(Line) : Finishes(n, k, buf'[k].stream)
             \/ current' # None /\ Finishes(current'.msg, k, buf'[k].stream)
  <2>1. CASE k # Key(m)
    <3>1. buf'[k] = buf[k]
      BY <1>1, <2>1 DEF Complete
    <3>2. ~Finishes(current.msg, k, buf[k].stream)
      BY <1>1, <2>1 DEF Finishes
    <3> QED
      BY <1>1, <1>2, <3>1, <3>2 DEF EndsInv
  <2>2. CASE k = Key(m)
    <3>1. PICK b : b = buf'[k]
      OBVIOUS
    <3>2. /\ \/ m.kind = "delta" /\ b.stream = m.stream
             \/ buf[k] # None /\ b.stream = buf[k].stream
          /\ m.kind = "end" /\ r.ok => Editing /\ (b.stream # m.stream \/ b.stream \in spoiled')
      BY <1>1, <1>2, <2>2, <3>1 DEF Complete, Holding
    <3>3. CASE m.kind = "delta" /\ b.stream = m.stream
      <4>1. PICK n \in Range(Line) : Closes(m, n)
        BY <1>1, <3>3 DEF ClosedInv, Closing
      <4>2. Finishes(n, k, b.stream)
        BY <2>2, <3>3, <4>1 DEF Closes, Finishes, Key
      <4> QED
        BY <3>1, <4>1, <4>2
    <3>4. CASE buf[k] # None /\ b.stream = buf[k].stream
      <4>1. CASE Finishes(m, k, b.stream)
        <5>1. m.kind = "end" /\ m.stream = b.stream
          BY <4>1 DEF Finishes
        <5>2. CASE r.ok
          BY <3>1, <3>2, <5>1, <5>2
        <5>3. CASE ~r.ok /\ current' = None
          BY <3>1, <5>1, <5>3, GivenUp
        <5>4. CASE ~r.ok /\ current' # None
          <6>1. current'.msg = m
            BY <5>4 DEF Attempted
          <6> QED
            BY <3>1, <4>1, <5>4, <6>1
        <5> QED
          BY <5>2, <5>3, <5>4
      <4> QED
        BY <1>1, <3>1, <3>4, <4>1 DEF EndsInv
    <3> QED
      BY <3>2, <3>3, <3>4
  <2> QED
    BY <2>1, <2>2
<1>3. \A n, k, s : Finishes(n, k, s)' <=> Finishes(n, k, s)
  BY <1>1 DEF Finishes, Key
<1>4. \A k, s : Finishes(current.msg, k, s)' <=> Finishes(current'.msg, k, s)
  BY <1>1 DEF Finishes, Key
<1> QED
  BY <1>1, <1>2, <1>3, <1>4 DEF EndsInv

LEMMA AttemptOwed ==
  ASSUME TypeInv, AttemptsInv, OwedInv, NEW m, NEW r, Attempted(m, r), Alive(faults)'
  PROVE  OwedInv'
<1>1. /\ adapter' = adapter /\ (Editing' <=> Editing) /\ spoiled \subseteq spoiled' /\ owed' = owed
      /\ shown' = r.shown /\ buf' = r.buf /\ spoiled' = Lost(m, r) /\ Line' = Line
      /\ faults' = faults + r.fault /\ Complete(m, r) /\ m = current.msg /\ current # None
  BY DEF Attempted, Editing, Lost
<1>2. faults \in Nat /\ r.fault \in Nat /\ MaxAttempts \in Nat
  BY ConstantsAssumption DEF Attempted, TypeInv, TypeOK
<1>3. ASSUME NEW o \in owed, Survived(o.stream, faults)', o.stream \notin spoiled'
      PROVE  Range(o.text) \subseteq Due(o)'
  <2>1. o \in Message /\ Key(o) \in Keys /\ o.stream \in Streams \cup {None}
    BY KeyIs DEF TypeInv, TypeOK, Message
  <2>2. Survived(o.stream, faults + r.fault) /\ Survived(o.stream, faults)
    BY <1>1, <1>2, <1>3 DEF Survived, Alive
  <2>3. Range(o.text) \subseteq Due(o)
    BY <1>1, <1>3, <2>2 DEF OwedInv
  <2>4. PartsOf(shown) \subseteq PartsOf(shown)' /\ PartsOf(shown)' = PartsOf(r.shown)
    BY <1>1 DEF Complete, PartsOf
  <2>5. HeldText(buf, Key(o), o.stream)' = HeldText(r.buf, Key(o), o.stream)
    BY <1>1 DEF HeldText, Key
  <2>6. HeldText(buf, Key(o), o.stream) \subseteq Due(o)'
    <3>1. CASE Key(o) # Key(m)
      <4>1. r.buf[Key(o)] = buf[Key(o)]
        BY <1>1, <2>1, <3>1 DEF Complete
      <4> QED
        BY <2>5, <4>1 DEF HeldText, Due
    <3>2. CASE Key(o) = Key(m)
      <4>1. HeldText(buf, Key(m), o.stream) \subseteq Reached(m, r, o.stream)
        BY <1>1, <1>3, <2>1 DEF Complete
      <4> QED
        BY <2>4, <2>5, <3>2, <4>1 DEF Reached, Due
    <3> QED
      BY <3>1, <3>2
  <2>7. Coming(o.chat, o.stream)' = Coming(o.chat, o.stream)
    BY <1>1 DEF Coming
  <2>8. Handling(o.chat, o.stream) \subseteq Due(o)'
    <3>1. CASE m.chat = o.chat /\ m.stream = o.stream
      <4>1. Key(m) = Key(o)
        BY <3>1 DEF Key
      <4>2. Handling(o.chat, o.stream) = Said(m)
        BY <1>1, <3>1 DEF Handling, From
      <4>3. CASE r.ok
        <5>1. Said(m) \subseteq Reached(m, r, m.stream)
          BY <1>1, <1>3, <2>2, <3>1, <4>3 DEF Complete
        <5> QED
          BY <2>4, <2>5, <3>1, <4>1, <4>2, <5>1 DEF Reached, Due
      <4>4. CASE ~r.ok /\ current' = None
        BY <1>3, <3>1, <4>4, GivenUp
      <4>5. CASE ~r.ok /\ current' # None
        <5>1. current'.msg = m
          BY <4>5 DEF Attempted
        <5>2. Handling(o.chat, o.stream)' = Said(m)
          BY <3>1, <4>5, <5>1 DEF Handling, From
        <5> QED
          BY <4>2, <5>2 DEF Due
      <4> QED
        BY <4>3, <4>4, <4>5
    <3>2. CASE ~(m.chat = o.chat /\ m.stream = o.stream)
      BY <1>1, <3>2 DEF Handling, From
    <3> QED
      BY <3>1, <3>2
  <2> QED
    BY <2>3, <2>4, <2>6, <2>7, <2>8 DEF Due
<1> QED
  BY <1>1, <1>3 DEF OwedInv

LEMMA AttemptDue ==
  ASSUME DueInv, Attempt
  PROVE  DueInv'
<1>1. Inv /\ TypeInv /\ AliveInv /\ ClosedInv /\ OwedInv /\ Inv'
  BY AttemptKeeps DEF DueInv, Inv
<1>2. /\ UNCHANGED <<adapter, script, outbound, pending, owed>> /\ current # None
      /\ \/ current' = None
         \/ current' = [current EXCEPT !.attempt = @ + 1]
  BY DEF Attempt
<1>3. current' # None => current'.msg = current.msg
  <2>1. current \in Sending
    BY <1>1, <1>2 DEF TypeInv, TypeOK
  <2> QED
    BY <1>2, <2>1 DEF Sending
<1>4. ClosedInv'
  <2>1. Line' = Line
    BY <1>2 DEF Line
  <2>2. Closing(current', Line)
    BY <1>1, <1>2, <1>3 DEF ClosedInv, Closing
  <2> QED
    BY <1>1, <2>1, <2>2 DEF ClosedInv
<1>5. CASE Alive(faults)'
  <2>1. PICK m, r : Attempted(m, r)
    BY <1>1, <1>5, AttemptTakes
  <2>2. Alive(faults)
    <3>1. faults \in Nat /\ r.fault \in Nat /\ faults' = faults + r.fault /\ adapter' = adapter
          /\ MaxAttempts \in Nat
      BY <1>1, <2>1, ConstantsAssumption DEF Attempted, TypeInv, TypeOK
    <3> QED
      BY <1>5, <3>1 DEF Alive
  <2>3. Followed(shown, buf) /\ BubbledInv /\ AttemptsInv /\ EndsInv
    BY <1>1, <2>2 DEF AliveInv
  <2>4. Followed(shown, buf)'
    <3>1. Followed(r.shown, r.buf) /\ shown' = r.shown /\ buf' = r.buf /\ adapter' = adapter
      BY <2>1 DEF Attempted, Complete
    <3> QED
      BY <3>1 DEF Followed, Traced, First, Editing
  <2>5. BubbledInv' /\ AttemptsInv' /\ EndsInv' /\ OwedInv'
    BY <1>1, <1>5, <2>1, <2>3, AttemptBubbled, AttemptAttempts, AttemptEnds, AttemptOwed
  <2> QED
    BY <1>1, <1>4, <2>4, <2>5 DEF DueInv, AliveInv
<1>6. CASE ~Alive(faults)'
  <2>1. \A s : ~Survived(s, faults)'
    BY <1>6 DEF Survived
  <2>2. OwedInv'
    BY <1>1, <1>2, <2>1 DEF OwedInv
  <2> QED
    BY <1>1, <1>4, <1>6, <2>2 DEF DueInv, AliveInv
<1> QED
  BY <1>5, <1>6

LEMMA InitDue ==
  ASSUME ClosedPlans, Init
  PROVE  DueInv
<1>1. Inv /\ script \in Seq(Message) /\ Closed(script)
  BY InitInv DEF Init, Inv, TypeInv, TypeOK, ClosedPlans
<1>2. /\ pending = <<>> /\ outbound = <<>> /\ current = None /\ shown = <<>> /\ faults = 0
      /\ owed = {} /\ \A k \in Keys : buf[k] = None
  BY DEF Init
<1>3. Line = script
  <2>1. pending \o outbound = <<>>
    BY <1>2
  <2> QED
    BY <1>1, <2>1, ConcatEmptySeq DEF Line
<1>4. ClosedInv
  BY <1>1, <1>2, <1>3 DEF ClosedInv, Closing
<1>5. Followed(shown, buf)
  BY <1>2 DEF Followed
<1>6. AliveInv /\ OwedInv
  BY <1>2, <1>5 DEF AliveInv, BubbledInv, AttemptsInv, EndsInv, OwedInv
<1> QED
  BY <1>1, <1>4, <1>6 DEF DueInv

LEMMA StutterDue ==
  ASSUME DueInv, UNCHANGED vars
  PROVE  DueInv'
<1>1. UNCHANGED <<adapter, script, outbound, pending, current, buf, shown, faults, owed, spoiled>>
  BY DEF vars, dispatcher, history
<1>2. Line' = Line
  BY <1>1 DEF Line
<1>3. Waits /\ (\A o \in owed' : o \in owed)
  BY <1>1, <1>2 DEF Waits, Carried
<1>4. ClosedInv'
  BY <1>1, <1>2 DEF DueInv, ClosedInv, Closing
<1>5. Inv' /\ AliveInv' /\ OwedInv'
  BY <1>1, <1>3, StutterKeeps, WaitsAlive, WaitsOwed DEF DueInv
<1> QED
  BY <1>4, <1>5 DEF DueInv

LEMMA DueShows ==
  ASSUME DueInv
  PROVE  ShownComplete
<1>1. Inv /\ AliveInv /\ OwedInv /\ owed \subseteq Message
  BY DEF DueInv, Inv, TypeInv, TypeOK
<1>2. SUFFICES ASSUME AllHandled, NEW o \in owed, Survives(o), o.stream \notin spoiled
               PROVE  Range(o.text) \subseteq ShownParts
  BY DEF ShownComplete
<1>3. Survived(o.stream, faults) /\ Alive(faults)
  BY <1>2 DEF Survives, Survived, Alive
<1>4. Range(o.text) \subseteq Due(o)
  BY <1>1, <1>2, <1>3 DEF OwedInv
<1>5. current = None /\ Range(Line) = {}
  <2>1. script = <<>> /\ outbound = <<>> /\ pending = <<>> /\ current = None
    BY <1>2 DEF AllHandled
  <2>2. Line = <<>>
    BY <2>1 DEF Line
  <2> QED
    BY <2>1, <2>2 DEF Range
<1>6. Coming(o.chat, o.stream) = {} /\ Handling(o.chat, o.stream) = {}
  BY <1>5 DEF Coming, Handling
<1>7. HeldText(buf, Key(o), o.stream) = {}
  <2>1. Key(o) \in Keys
    BY <1>1, KeyIs
  <2>2. buf[Key(o)] # None => Editing /\ buf[Key(o)].stream \in spoiled
    BY <1>1, <1>3, <1>5, <2>1 DEF AliveInv, EndsInv
  <2> QED
    BY <1>2, <2>2 DEF HeldText
<1>8. PartsOf(shown) = ShownParts
  BY DEF PartsOf, ShownParts
<1> QED
  BY <1>4, <1>6, <1>7, <1>8 DEF Due

\* If the agents end every stream they have begun, then once everything is
\* handled the user has been shown every part of every message that survives,
\* apart from the streams that met one of the known losses.
THEOREM ShownCompleteHolds == ClosedPlans => (Spec => []ShownComplete)
<1>1. ClosedPlans /\ Init => DueInv
  BY InitDue
<1>2. DueInv /\ [Next]_vars => DueInv'
  BY PublishDue, TakeDue, AttemptDue, StutterDue DEF Next, Quiescent
<1>3. DueInv => ShownComplete
  BY DueShows
<1> QED
  BY <1>1, <1>2, <1>3, PTL DEF Spec

=============================================================================
