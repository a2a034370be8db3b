------------------------ MODULE CronService_proofs ------------------------
(***************************************************************************)
(* Proofs about CronService, for any number of jobs, timer tasks, calls    *)
(* and crashes: acknowledged edits are kept, finished runs are recorded,   *)
(* one-shots run once and the timer covers the next job.                   *)
(***************************************************************************)
EXTENDS CronService, SequenceTheorems, NaturalsInduction, WellFoundedInduction, TLAPS

(***************************************************************************)
(* Types                                                                   *)
(***************************************************************************)

JobMap == UNION {[S -> JobState] : S \in SUBSET Jobs}
PutLine == [op : {"put"}, job : Jobs, state : JobState]
DelLine == [op : {"del"}, job : Jobs]
Line == PutLine \cup DelLine
Tick == [pc : {"none", "sleeping", "executing"}, job : Jobs \cup {None},
         due : SUBSET Jobs, wake : Nat]

\* Timer tasks: one that executes has a job, and only such a one is cancelled.
TicksOK(ticks, dying) ==
  /\ ticks \in [Ticks -> Tick]
  /\ dying \subseteq Ticks
  /\ \A t \in Ticks :
       /\ ticks[t].pc = "executing" <=> ticks[t].job # None
       /\ ticks[t].due # {} => ticks[t].pc = "executing"
       /\ t \in dying => ticks[t].pc = "executing"

StoreOK ==
  /\ mem \in JobMap /\ disk \in JobMap /\ log \in Seq(Line)
  /\ attached \in [Runners -> SUBSET Jobs]
  /\ \A r \in Runners : attached[r] \subseteq DOMAIN mem

TimersOK == timer \in Ticks \cup {None} /\ TicksOK(tick, cancelled)

CallsOK ==
  /\ now \in 0..MaxNow /\ calls \in 0..MaxCalls
  /\ running \in BOOLEAN /\ timerActive \in BOOLEAN /\ wanted \in BOOLEAN
  /\ manual \in [job : Jobs, was : BOOLEAN] \cup {NoRun}
  /\ other \in Line \cup {NoCall}

HistoryOK ==
  /\ added \subseteq Jobs /\ removed \subseteq Jobs /\ shot \subseteq Jobs
  /\ completed \in [Jobs -> Nat]

TypeInv == StoreOK /\ TimersOK /\ CallsOK /\ HistoryOK

-----------------------------------------------------------------------------
(***************************************************************************)
(* Numbers                                                                 *)
(***************************************************************************)

\* A set of numbers has a least element.
LEMMA LeastExists ==
  ASSUME NEW S, S \subseteq Nat, S # {}
  PROVE  \E w \in S : \A v \in S : w <= v
<1> DEFINE R == OpToRel(<, Nat)
<1>1. IsWellFoundedOn(R, Nat)
  BY NatLessThanWellFounded
<1>2. \A x, y \in Nat : y < x => <<y, x>> \in R
  BY DEF OpToRel
<1>3. PICK w \in S : \A v \in S : ~(<<v, w>> \in R)
  <2> HIDE DEF R
  <2> QED
    BY <1>1, WFMin
<1>4. \A v \in S : ~(v < w)
  <2> HIDE DEF R
  <2> QED
    BY <1>2, <1>3
<1>5. \A x \in S : x \in Nat
  OBVIOUS
<1> HIDE DEF R
<1> QED
  BY <1>4, <1>5

\* Induction for a set, from the order of the natural numbers.
LEMMA SetInduction ==
  ASSUME NEW S, 0 \in S, \A n \in Nat : n \in S => n + 1 \in S
  PROVE  Nat \subseteq S
<1> SUFFICES ASSUME Nat \ S # {} PROVE FALSE
  OBVIOUS
<1>1. PICK x \in Nat \ S : \A y \in Nat \ S : x <= y
  BY LeastExists
<1>2. x - 1 \in Nat /\ (x - 1) + 1 = x /\ x - 1 \notin Nat \ S
  BY <1>1
<1> QED
  BY <1>1, <1>2

LEMMA Constants ==
  /\ Kind \in [Jobs -> {"every", "at", "atDelete"}]
  /\ \A j \in Jobs : At[j] \in Nat /\ At[j] # 0
  /\ System \subseteq Jobs /\ Stored \subseteq Jobs
  /\ MaxSleep \in Nat /\ MaxNow \in Nat /\ MaxCalls \in Nat
  /\ None \notin Jobs /\ None \notin Ticks
BY ConstantsAssumption

LEMMA NextRunIs ==
  ASSUME NEW j \in Jobs, NEW t \in Nat
  PROVE  /\ NextRun(j, t) \in Nat
         /\ Kind[j] # "every" => NextRun(j, t) \in {0, At[j]}
         /\ Kind[j] # "every" /\ At[j] <= t => NextRun(j, t) = 0
BY Constants DEF NextRun

-----------------------------------------------------------------------------
(***************************************************************************)
(* Job maps                                                                *)
(***************************************************************************)

LEMMA JobMapIs ==
  ASSUME NEW m
  PROVE  m \in JobMap <=> DOMAIN m \subseteq Jobs /\ m \in [DOMAIN m -> JobState]
BY DEF JobMap

LEMMA PutIs ==
  ASSUME NEW m \in JobMap, NEW j \in Jobs, NEW s \in JobState
  PROVE  /\ Put(m, j, s) \in JobMap
         /\ DOMAIN Put(m, j, s) = DOMAIN m \cup {j}
         /\ Put(m, j, s)[j] = s
         /\ \A x \in DOMAIN m : x # j => Put(m, j, s)[x] = m[x]
<1>1. DOMAIN m \subseteq Jobs /\ m \in [DOMAIN m -> JobState]
  BY JobMapIs
<1>2. Put(m, j, s) \in [DOMAIN m \cup {j} -> JobState]
  BY <1>1 DEF Put
<1> QED
  BY <1>1, <1>2, JobMapIs DEF Put

LEMMA WithoutIs ==
  ASSUME NEW m \in JobMap, NEW j
  PROVE  /\ Without(m, j) \in JobMap
         /\ DOMAIN Without(m, j) = DOMAIN m \ {j}
         /\ \A x \in DOMAIN m \ {j} : Without(m, j)[x] = m[x]
<1>1. DOMAIN m \subseteq Jobs /\ m \in [DOMAIN m -> JobState]
  BY JobMapIs
<1>2. Without(m, j) \in [DOMAIN m \ {j} -> JobState]
  BY <1>1 DEF Without, Restrict
<1> QED
  BY <1>1, <1>2, JobMapIs DEF Without, Restrict

\* What _execute_job leaves of the store.
LEMMA RecordedIs ==
  ASSUME NEW m \in JobMap, NEW j \in Jobs, NEW held \in BOOLEAN,
         held => j \in DOMAIN m, now \in Nat
  PROVE  /\ Recorded(m, j, held) \in JobMap
         /\ DOMAIN Recorded(m, j, held) =
              IF Kind[j] = "atDelete" THEN DOMAIN m \ {j} ELSE DOMAIN m
         /\ \A x \in DOMAIN m \ {j} : Recorded(m, j, held)[x] = m[x]
         /\ Kind[j] # "atDelete" /\ held =>
              /\ Recorded(m, j, held)[j].runs = m[j].runs + 1
              /\ Kind[j] # "every" => /\ Recorded(m, j, held)[j].on = FALSE
                                      /\ Recorded(m, j, held)[j].next = 0
<1>1. DOMAIN m \subseteq Jobs /\ m \in [DOMAIN m -> JobState]
  BY JobMapIs
<1>2. CASE Kind[j] = "atDelete"
  BY <1>2, WithoutIs DEF Recorded
<1>3. CASE Kind[j] # "atDelete" /\ held
  <2> DEFINE s == [on |-> m[j].on /\ Kind[j] = "every",
                   next |-> IF Kind[j] = "every" THEN NextRun(j, now) ELSE 0,
                   runs |-> m[j].runs + 1]
  <2>1. m[j] \in JobState
    BY <1>1, <1>3
  <2>2. m[j].on \in BOOLEAN /\ m[j].runs \in Nat
    BY <2>1 DEF JobState
  <2>3. s \in JobState
    BY <2>2, NextRunIs DEF JobState
  <2>4. Recorded(m, j, held) = [m EXCEPT ![j] = s]
    BY <1>3 DEF Recorded
  <2>5. s.runs = m[j].runs + 1 /\ (Kind[j] # "every" => s.on = FALSE /\ s.next = 0)
    <3>1. Kind[j] # "every" => (m[j].on /\ Kind[j] = "every") = FALSE
      OBVIOUS
    <3> QED
      BY <3>1
  <2> HIDE DEF s
  <2>6. /\ Recorded(m, j, held) \in [DOMAIN m -> JobState]
        /\ DOMAIN Recorded(m, j, held) = DOMAIN m
        /\ Recorded(m, j, held)[j] = s
        /\ \A x \in DOMAIN m \ {j} : Recorded(m, j, held)[x] = m[x]
    BY <1>1, <1>3, <2>3, <2>4
  <2> QED
    BY <1>1, <1>3, <2>5, <2>6, JobMapIs
<1>4. CASE Kind[j] # "atDelete" /\ ~held
  BY <1>4 DEF Recorded
<1> QED
  BY <1>2, <1>3, <1>4

LEMMA StatesOK ==
  ASSUME NEW j \in Jobs, now \in Nat
  PROVE  /\ FreshState(j) \in JobState
         /\ FreshState(j).next = NextRun(j, now) /\ FreshState(j).runs = 0
         /\ \A s \in JobState, on \in BOOLEAN :
              /\ Enabled(s, j, on) \in JobState
              /\ Enabled(s, j, on).runs = s.runs
              /\ Enabled(s, j, on).on = on
              /\ Enabled(s, j, on).next = IF on THEN NextRun(j, now) ELSE 0
<1>1. NextRun(j, now) \in Nat
  BY NextRunIs
<1> QED
  BY <1>1 DEF FreshState, Enabled, JobState

-----------------------------------------------------------------------------
(***************************************************************************)
(* Replaying the log: the last line about a job decides.                   *)
(***************************************************************************)

\* The jobs the first n lines are about, and those whose last line of these
\* is a put.
NamedBy(l, n) == {l[i].job : i \in 1..n}
PutBy(l, n) ==
  {j \in Jobs : \E i \in 1..n : /\ l[i].op = "put" /\ l[i].job = j
                              /\ \A k \in 1..n : k > i => l[k].job # j}

Named(l) == NamedBy(l, Len(l))
PutJobs(l) == PutBy(l, Len(l))

\* The lines that put something.
Puts(l) == {l[i] : i \in {k \in 1..Len(l) : l[k].op = "put"}}

LEMMA ApplyLineIs ==
  ASSUME NEW m \in JobMap, NEW x \in Line
  PROVE  /\ ApplyLine(m, x) \in JobMap
         /\ x.job \in Jobs /\ x.op \in {"put", "del"}
         /\ x.op = "put" =>
              /\ x.state \in JobState
              /\ DOMAIN ApplyLine(m, x) = DOMAIN m \cup {x.job}
              /\ ApplyLine(m, x)[x.job] = x.state
              /\ \A y \in DOMAIN m : y # x.job => ApplyLine(m, x)[y] = m[y]
         /\ x.op = "del" =>
              /\ DOMAIN ApplyLine(m, x) = DOMAIN m \ {x.job}
              /\ \A y \in DOMAIN m \ {x.job} : ApplyLine(m, x)[y] = m[y]
<1>1. CASE x \in PutLine
  <2>1. x.job \in Jobs /\ x.op = "put" /\ x.state \in JobState
    BY <1>1 DEF PutLine
  <2>2. PICK j, z : j = x.job /\ z = x.state
    OBVIOUS
  <2>3. ApplyLine(m, x) = Put(m, j, z) /\ j \in Jobs /\ z \in JobState /\ x.op # "del"
    BY <2>1, <2>2 DEF ApplyLine
  <2> QED
    BY SMTT(30), <2>1, <2>2, <2>3, PutIs
<1>2. CASE x \in DelLine
  <2>1. x.job \in Jobs /\ x.op = "del"
    BY <1>2 DEF DelLine
  <2>2. PICK j : j = x.job
    OBVIOUS
  <2>3. ApplyLine(m, x) = Without(m, j) /\ x.op # "put"
    BY <2>1, <2>2 DEF ApplyLine
  <2>4. PICK w : w = Without(m, j)
    OBVIOUS
  <2>5. w \in JobMap /\ DOMAIN w = DOMAIN m \ {j} /\ \A y \in DOMAIN m \ {j} : w[y] = m[y]
    BY <2>4, WithoutIs
  <2> QED
    BY <2>1, <2>2, <2>3, <2>4, <2>5
<1> QED
  BY <1>1, <1>2 DEF Line

\* The recursion of Replay has a solution.
LEMMA ReplayFollows ==
  ASSUME NEW d \in JobMap, NEW l \in Seq(Line)
  PROVE  \E f : /\ f[0] = d
                /\ \A n \in 1..Len(l) : f[n] = ApplyLine(f[n - 1], l[n])
                /\ Replay(d, l) = f[Len(l)]
<1> DEFINE len == Len(l)
           Start0(f, n) == f[0] = d /\ \A k \in 1..n : f[k] = ApplyLine(f[k - 1], l[k])
           Begun == {n \in Nat : n <= len => \E f : Start0(f, n)}
           Solves(f) == f = [n \in 0..len |-> IF n = 0 THEN d
                                             ELSE ApplyLine(f[n - 1], l[n])]
<1>1. len \in Nat
  OBVIOUS
<1> HIDE DEF len
<1>2. 0 \in Begun
  <2> DEFINE g == [k \in 0..0 |-> d]
  <2>1. Start0(g, 0)
    OBVIOUS
  <2> HIDE DEF Start0, g
  <2> QED
    BY <2>1
<1>3. ASSUME NEW n \in Nat, n \in Begun PROVE n + 1 \in Begun
  <2> SUFFICES ASSUME n + 1 <= len PROVE \E f : Start0(f, n + 1)
    OBVIOUS
  <2>1. PICK f : Start0(f, n)
    BY <1>1, <1>3
  <2> DEFINE g == [k \in 0..(n + 1) |-> IF k = n + 1 THEN ApplyLine(f[n], l[n + 1]) ELSE f[k]]
  <2>2. g[0] = d
    BY <2>1
  <2>3. \A k \in 1..(n + 1) : g[k] = ApplyLine(g[k - 1], l[k])
    <3> TAKE k \in 1..(n + 1)
    <3>1. k - 1 \in 0..(n + 1) /\ k - 1 # n + 1 /\ k \in 0..(n + 1) /\ g[k - 1] = f[k - 1]
      OBVIOUS
    <3>2. CASE k = n + 1
      BY <3>1, <3>2
    <3>3. CASE k # n + 1
      <4>1. k \in 1..n /\ g[k] = f[k]
        BY <3>1, <3>3
      <4>2. f[k] = ApplyLine(f[k - 1], l[k])
        BY <2>1, <4>1
      <4> HIDE DEF g
      <4> QED
        BY <3>1, <4>1, <4>2
    <3> QED
      BY <3>2, <3>3
  <2> HIDE DEF g
  <2>4. Start0(g, n + 1)
    BY <2>2, <2>3
  <2> QED
    BY <2>4
<1>4. Nat \subseteq Begun
  <2> HIDE DEF Begun
  <2> QED
    BY <1>2, <1>3, SetInduction
<1>5. PICK f : Start0(f, len)
  <2>1. len \in Begun
    <3> HIDE DEF Begun
    <3> QED
      BY <1>1, <1>4
  <2> HIDE DEF Start0
  <2> QED
    BY <1>1, <2>1
<1> DEFINE g == [n \in 0..len |-> f[n]]
<1>6. Solves(g)
  <2>1. \A n \in 0..len : n # 0 => n \in 1..len /\ n - 1 \in 0..len
    BY <1>1
  <2>2. \A n \in 0..len : f[n] = IF n = 0 THEN d ELSE ApplyLine(f[n - 1], l[n])
    BY <1>5, <2>1
  <2>3. \A n \in 0..len : f[n] = IF n = 0 THEN d ELSE ApplyLine(g[n - 1], l[n])
    BY <2>1, <2>2
  <2> QED
    BY <2>3
<1>7. \E h : Solves(h)
  <2> HIDE DEF g, Solves
  <2> QED
    BY <1>6
<1> DEFINE h == CHOOSE x : Solves(x)
<1>8. Solves(h)
  <2> HIDE DEF Solves
  <2> QED
    BY <1>7
<1>9. Replay(d, l) = h[len]
  BY Zenon DEF Replay, len
<1> HIDE DEF h
<1>10. h[0] = d
  BY <1>1, <1>8
<1>11. \A n \in 1..len : h[n] = ApplyLine(h[n - 1], l[n])
  <2>1. \A n \in 1..len : n \in 0..len /\ n # 0
    BY <1>1
  <2> QED
    BY <1>8, <2>1
<1> QED
  BY <1>9, <1>10, <1>11 DEF len

LEMMA OneLineMore ==
  ASSUME NEW l \in Seq(Line), NEW n \in Nat, n + 1 <= Len(l)
  PROVE  /\ NamedBy(l, n + 1) = NamedBy(l, n) \cup {l[n + 1].job}
         /\ PutBy(l, n + 1) = IF l[n + 1].op = "put" THEN PutBy(l, n) \cup {l[n + 1].job}
                              ELSE PutBy(l, n) \ {l[n + 1].job}
<1> DEFINE x == l[n + 1]
<1>1. x.job \in Jobs /\ x.op \in {"put", "del"}
  <2>1. x \in Line
    OBVIOUS
  <2> HIDE DEF x
  <2> QED
    BY <2>1 DEF Line, PutLine, DelLine
<1>2. NamedBy(l, n + 1) = NamedBy(l, n) \cup {x.job}
  <2>1. 1..(n + 1) = (1..n) \cup {n + 1}
    OBVIOUS
  <2> QED
    BY <2>1 DEF NamedBy
<1>3. PutBy(l, n + 1) = IF x.op = "put" THEN PutBy(l, n) \cup {x.job}
                        ELSE PutBy(l, n) \ {x.job}
  <2>1. \A j \in Jobs : j # x.job => (j \in PutBy(l, n + 1) <=> j \in PutBy(l, n))
    <3> TAKE j \in Jobs
    <3> HAVE j # x.job
    <3>1. ASSUME j \in PutBy(l, n + 1) PROVE j \in PutBy(l, n)
      <4>1. PICK i \in 1..(n + 1) : /\ l[i].op = "put" /\ l[i].job = j
                                    /\ \A k \in 1..(n + 1) : k > i => l[k].job # j
        BY <3>1 DEF PutBy
      <4>2. i # n + 1
        BY <4>1
      <4>3. i \in 1..n /\ \A k \in 1..n : k \in 1..(n + 1)
        BY <4>2
      <4> QED
        BY <4>1, <4>3 DEF PutBy
    <3>2. ASSUME j \in PutBy(l, n) PROVE j \in PutBy(l, n + 1)
      <4>1. PICK i \in 1..n : /\ l[i].op = "put" /\ l[i].job = j
                              /\ \A k \in 1..n : k > i => l[k].job # j
        BY <3>2 DEF PutBy
      <4>2. i \in 1..(n + 1) /\ \A k \in 1..(n + 1) : k = n + 1 \/ k \in 1..n
        OBVIOUS
      <4>3. \A k \in 1..(n + 1) : k > i => l[k].job # j
        BY <4>1, <4>2
      <4> QED
        BY <4>1, <4>2, <4>3 DEF PutBy
    <3> QED
      BY <3>1, <3>2
  <2>2. x.op = "put" => x.job \in PutBy(l, n + 1)
    <3>1. n + 1 \in 1..(n + 1) /\ \A k \in 1..(n + 1) : ~(k > n + 1)
      OBVIOUS
    <3> QED
      BY <1>1, <3>1 DEF PutBy
  <2>3. x.op = "del" => x.job \notin PutBy(l, n + 1)
    <3> SUFFICES ASSUME x.op = "del", x.job \in PutBy(l, n + 1) PROVE FALSE
      OBVIOUS
    <3>1. PICK i \in 1..(n + 1) : /\ l[i].op = "put" /\ l[i].job = x.job
                                  /\ \A k \in 1..(n + 1) : k > i => l[k].job # x.job
      BY DEF PutBy
    <3>2. i # n + 1
      BY <3>1
    <3>3. n + 1 \in 1..(n + 1) /\ n + 1 > i
      BY <3>2
    <3> QED
      BY <3>1, <3>3
  <2>4. PutBy(l, n) \subseteq Jobs /\ PutBy(l, n + 1) \subseteq Jobs
    BY DEF PutBy
  <2> HIDE DEF x
  <2>5. CASE x.op = "put"
    <3>1. \A j : j \in PutBy(l, n + 1) <=> j \in PutBy(l, n) \/ j = x.job
      BY <1>1, <2>1, <2>2, <2>4, <2>5
    <3> QED
      BY <2>5, <3>1
  <2>6. CASE x.op = "del"
    <3>1. \A j : j \in PutBy(l, n + 1) <=> j \in PutBy(l, n) /\ j # x.job
      BY <1>1, <2>1, <2>3, <2>4, <2>6
    <3>2. x.op # "put"
      BY <2>6
    <3> QED
      BY <3>1, <3>2
  <2> QED
    BY <1>1, <2>5, <2>6
<1> QED
  BY <1>2, <1>3

\* m is what the first n lines make of d.
Leaves(m, d, l, n) ==
  /\ m \in JobMap
  /\ DOMAIN m = PutBy(l, n) \cup (DOMAIN d \ NamedBy(l, n))
  /\ \A j \in DOMAIN m \ NamedBy(l, n) : m[j] = d[j]
  /\ \A j \in DOMAIN m \cap NamedBy(l, n) :
       \E i \in 1..n : l[i].op = "put" /\ l[i].job = j /\ m[j] = l[i].state

LEMMA ReplayStep ==
  ASSUME NEW d \in JobMap, NEW l \in Seq(Line), NEW n \in Nat, n + 1 <= Len(l),
         NEW m, Leaves(m, d, l, n)
  PROVE  Leaves(ApplyLine(m, l[n + 1]), d, l, n + 1)
<1> DEFINE x == l[n + 1]
<1>1. x \in Line /\ Len(l) \in Nat /\ \A i \in 1..(n + 1) : l[i] \in Line
  OBVIOUS
<1>0. PICK e : e = ApplyLine(m, x)
  OBVIOUS
<1>2. /\ e \in JobMap /\ x.job \in Jobs /\ x.op \in {"put", "del"}
      /\ x.op = "put" => /\ x.state \in JobState
                         /\ DOMAIN e = DOMAIN m \cup {x.job} /\ e[x.job] = x.state
                         /\ \A y \in DOMAIN m : y # x.job => e[y] = m[y]
      /\ x.op = "del" => /\ DOMAIN e = DOMAIN m \ {x.job}
                         /\ \A y \in DOMAIN m \ {x.job} : e[y] = m[y]
  <2>0. m \in JobMap
    BY DEF Leaves
  <2>1. e = ApplyLine(m, x) /\ x \in Line
    BY <1>0, <1>1
  <2> HIDE DEF x
  <2> QED
    BY <2>0, <2>1, ApplyLineIs, Zenon
<1>3. /\ NamedBy(l, n + 1) = NamedBy(l, n) \cup {x.job}
      /\ PutBy(l, n + 1) = IF x.op = "put" THEN PutBy(l, n) \cup {x.job}
                           ELSE PutBy(l, n) \ {x.job}
  BY OneLineMore
<1>5. PutBy(l, n) \subseteq NamedBy(l, n)
  BY DEF PutBy, NamedBy
<1>8. /\ DOMAIN m = PutBy(l, n) \cup (DOMAIN d \ NamedBy(l, n))
      /\ \A j \in DOMAIN m \ NamedBy(l, n) : m[j] = d[j]
      /\ \A j \in DOMAIN m \cap NamedBy(l, n) :
           \E i \in 1..n : l[i].op = "put" /\ l[i].job = j /\ m[j] = l[i].state
  BY DEF Leaves
<1>6. CASE x.op = "put"
  <2>1. /\ DOMAIN e = DOMAIN m \cup {x.job} /\ e[x.job] = x.state
        /\ \A y \in DOMAIN m : y # x.job => e[y] = m[y]
    <3> HIDE DEF x
    <3> QED
      BY <1>2, <1>6
  <2>2. \A j \in DOMAIN e \cap NamedBy(l, n + 1) :
          \E i \in 1..(n + 1) : l[i].op = "put" /\ l[i].job = j /\ e[j] = l[i].state
    <3> TAKE j \in DOMAIN e \cap NamedBy(l, n + 1)
    <3>1. CASE j = x.job
      <4>1. n + 1 \in 1..(n + 1)
        OBVIOUS
      <4> QED
        BY <1>6, <2>1, <3>1, <4>1
    <3>2. CASE j # x.job
      <4>1. j \in DOMAIN m \cap NamedBy(l, n) /\ e[j] = m[j]
        BY <1>3, <2>1, <3>2
      <4>2. \A i \in 1..n : i \in 1..(n + 1)
        OBVIOUS
      <4> QED
        BY <1>8, <4>1, <4>2
    <3> QED
      BY <3>1, <3>2
  <2>3. /\ DOMAIN e = PutBy(l, n + 1) \cup (DOMAIN d \ NamedBy(l, n + 1))
        /\ \A j \in DOMAIN e \ NamedBy(l, n + 1) : e[j] = d[j]
    <3> HIDE DEF x
    <3> QED
      BY <1>2, <1>3, <1>5, <1>6, <1>8, <2>1
  <2> QED
    BY <1>0, <1>2, <2>2, <2>3 DEF Leaves
<1>7. CASE x.op = "del"
  <2>1. /\ DOMAIN e = DOMAIN m \ {x.job}
        /\ \A y \in DOMAIN m \ {x.job} : e[y] = m[y]
    <3> HIDE DEF x
    <3> QED
      BY <1>2, <1>7
  <2>2. \A j \in DOMAIN e \cap NamedBy(l, n + 1) :
          \E i \in 1..(n + 1) : l[i].op = "put" /\ l[i].job = j /\ e[j] = l[i].state
    <3> TAKE j \in DOMAIN e \cap NamedBy(l, n + 1)
    <3>1. j \in DOMAIN m \cap NamedBy(l, n) /\ e[j] = m[j]
      BY <1>3, <2>1
    <3>2. \A i \in 1..n : i \in 1..(n + 1)
      OBVIOUS
    <3> QED
      BY <1>8, <3>1, <3>2
  <2>3. /\ DOMAIN e = PutBy(l, n + 1) \cup (DOMAIN d \ NamedBy(l, n + 1))
        /\ \A j \in DOMAIN e \ NamedBy(l, n + 1) : e[j] = d[j]
    <3>1. x.op # "put"
      BY <1>7
    <3> HIDE DEF x
    <3> QED
      BY <1>2, <1>3, <1>5, <1>7, <1>8, <2>1, <3>1
  <2> QED
    BY <1>0, <1>2, <2>2, <2>3 DEF Leaves
<1> QED
  BY <1>0, <1>2, <1>6, <1>7

LEMMA ReplayIs ==
  ASSUME NEW d \in JobMap, NEW l \in Seq(Line)
  PROVE  /\ Replay(d, l) \in JobMap
         /\ DOMAIN Replay(d, l) = PutJobs(l) \cup (DOMAIN d \ Named(l))
         /\ \A j \in DOMAIN Replay(d, l) \ Named(l) : Replay(d, l)[j] = d[j]
         /\ \A j \in DOMAIN Replay(d, l) \cap Named(l) :
              \E x \in Puts(l) : x.job = j /\ Replay(d, l)[j] = x.state
<1>1. PICK f : /\ f[0] = d
               /\ \A n \in 1..Len(l) : f[n] = ApplyLine(f[n - 1], l[n])
               /\ Replay(d, l) = f[Len(l)]
  BY ReplayFollows
<1> DEFINE Fit == {n \in Nat : n <= Len(l) => Leaves(f[n], d, l, n)}
<1>2. Len(l) \in Nat
  OBVIOUS
<1>3. 0 \in Fit
  <2>1. 1..0 = {}
    OBVIOUS
  <2>2. PutBy(l, 0) = {} /\ NamedBy(l, 0) = {}
    BY <2>1 DEF PutBy, NamedBy
  <2> QED
    BY <1>1, <2>2 DEF Leaves
<1>4. ASSUME NEW n \in Nat, n \in Fit PROVE n + 1 \in Fit
  <2> SUFFICES ASSUME n + 1 <= Len(l) PROVE Leaves(f[n + 1], d, l, n + 1)
    OBVIOUS
  <2>1. n <= Len(l) /\ n + 1 \in 1..Len(l) /\ (n + 1) - 1 = n
    BY <1>2
  <2>2. Leaves(f[n], d, l, n)
    BY <1>4, <2>1
  <2>3. f[n + 1] = ApplyLine(f[n], l[n + 1])
    BY <1>1, <2>1
  <2>4. Leaves(ApplyLine(f[n], l[n + 1]), d, l, n + 1)
    BY <2>2, ReplayStep
  <2> QED
    BY <2>3, <2>4
<1>5. Len(l) \in Fit
  <2> HIDE DEF Fit
  <2> QED
    BY <1>2, <1>3, <1>4, SetInduction
<1>6. Leaves(f[Len(l)], d, l, Len(l))
  BY <1>2, <1>5
<1>7. \A j \in DOMAIN f[Len(l)] \cap Named(l) :
        \E x \in Puts(l) : x.job = j /\ f[Len(l)][j] = x.state
  BY <1>6 DEF Leaves, Puts, Named
<1> QED
  BY <1>1, <1>6, <1>7 DEF Leaves, PutJobs, Named

LEMMA NoLines ==
  <<>> \in Seq(Line) /\ Named(<<>>) = {} /\ PutJobs(<<>>) = {} /\ Puts(<<>>) = {}
<1>1. Len(<<>>) = 0 /\ 1..0 = {} /\ <<>> \in Seq(Line)
  OBVIOUS
<1> QED
  BY <1>1 DEF Named, NamedBy, PutJobs, PutBy, Puts

LEMMA AppendLine ==
  ASSUME NEW l \in Seq(Line), NEW x \in Line
  PROVE  /\ Append(l, x) \in Seq(Line)
         /\ Named(Append(l, x)) = Named(l) \cup {x.job}
         /\ PutJobs(Append(l, x)) = IF x.op = "put" THEN PutJobs(l) \cup {x.job}
                                    ELSE PutJobs(l) \ {x.job}
         /\ Puts(Append(l, x)) = IF x.op = "put" THEN Puts(l) \cup {x} ELSE Puts(l)
<1> DEFINE n == Len(l)
           a == Append(l, x)
<1>1. /\ n \in Nat /\ a \in Seq(Line) /\ Len(a) = n + 1 /\ a[n + 1] = x
      /\ \A i \in 1..n : a[i] = l[i]
  OBVIOUS
<1> HIDE DEF a, n
<1>2. /\ NamedBy(a, n + 1) = NamedBy(a, n) \cup {x.job}
      /\ PutBy(a, n + 1) = IF x.op = "put" THEN PutBy(a, n) \cup {x.job}
                           ELSE PutBy(a, n) \ {x.job}
  <2>1. a \in Seq(Line) /\ n \in Nat /\ n + 1 <= Len(a)
    BY <1>1
  <2>2. /\ NamedBy(a, n + 1) = NamedBy(a, n) \cup {a[n + 1].job}
        /\ PutBy(a, n + 1) = IF a[n + 1].op = "put" THEN PutBy(a, n) \cup {a[n + 1].job}
                             ELSE PutBy(a, n) \ {a[n + 1].job}
    BY <2>1, OneLineMore
  <2> QED
    BY <1>1, <2>2
<1>3. NamedBy(a, n) = Named(l)
  BY <1>1 DEF NamedBy, Named, n
<1>4. PutBy(a, n) = PutJobs(l)
  BY <1>1 DEF PutBy, PutJobs, n
<1>5. Puts(a) = IF x.op = "put" THEN Puts(l) \cup {x} ELSE Puts(l)
  <2>1. 1..Len(a) = (1..n) \cup {n + 1}
    BY <1>1
  <2>2. Puts(l) = {l[i] : i \in {k \in 1..n : l[k].op = "put"}}
    BY DEF Puts, n
  <2>3. Puts(a) = {a[i] : i \in {k \in 1..Len(a) : a[k].op = "put"}}
    BY DEF Puts
  <2>4. \A z : z \in Puts(a) <=> z \in Puts(l) \/ (x.op = "put" /\ z = x)
    BY <1>1, <2>1, <2>2, <2>3
  <2>5. CASE x.op = "put"
    BY <2>4, <2>5
  <2>6. CASE x.op # "put"
    BY <2>4, <2>6
  <2> QED
    BY <2>5, <2>6
<1> QED
  BY <1>1, <1>2, <1>3, <1>4, <1>5 DEF Named, PutJobs, a

LEMMA LinesAre ==
  ASSUME NEW l \in Seq(Line)
  PROVE  /\ PutJobs(l) \subseteq Named(l) /\ Named(l) \subseteq Jobs
         /\ \A x \in Puts(l) : x \in PutLine /\ x.job \in Named(l)
         /\ \A j \in PutJobs(l) : \E x \in Puts(l) : x.job = j
<1>1. \A i \in 1..Len(l) : l[i] \in Line
  OBVIOUS
<1>2. \A x \in Line : x.job \in Jobs /\ (x.op = "put" => x \in PutLine)
  BY DEF Line, PutLine, DelLine
<1>3. Named(l) \subseteq Jobs /\ PutJobs(l) \subseteq Named(l)
  BY <1>1, <1>2 DEF Named, NamedBy, PutJobs, PutBy
<1>4. \A x \in Puts(l) : x \in PutLine /\ x.job \in Named(l)
  BY <1>1, <1>2 DEF Named, NamedBy, Puts
<1>5. \A j \in PutJobs(l) : \E x \in Puts(l) : x.job = j
  BY DEF PutJobs, PutBy, Puts
<1> QED
  BY <1>3, <1>4, <1>5

\* When no line of the log can be applied, all of them delete jobs that are
\* not there.
LEMMA NothingApplies ==
  ASSUME disk \in JobMap, log \in Seq(Line), ~Applies
  PROVE  /\ Merged = disk /\ PutJobs(log) = {} /\ Puts(log) = {}
         /\ Named(log) \cap DOMAIN disk = {}
<1>1. /\ Len(log) \in Nat /\ DOMAIN log = 1..Len(log)
      /\ \A i \in 1..Len(log) : log[i] \in Line
  OBVIOUS
<1>2. \A i \in 1..Len(log) : /\ log[i].op # "put"
                             /\ log[i].job \notin DOMAIN Replay(disk, SubSeq(log, 1, i - 1))
  BY <1>1 DEF Applies
<1>3. PutJobs(log) = {} /\ Puts(log) = {}
  BY <1>2 DEF PutJobs, PutBy, Puts
<1>4. Named(log) \cap DOMAIN disk = {}
  <2> SUFFICES ASSUME NEW j \in Named(log), j \in DOMAIN disk PROVE FALSE
    OBVIOUS
  <2> DEFINE Places == {i \in 1..Len(log) : log[i].job = j}
  <2>1. Places # {} /\ Places \subseteq Nat
    BY DEF Named, NamedBy
  <2>2. PICK i \in Places : \A k \in Places : i <= k
    <3> HIDE DEF Places
    <3> QED
      BY <2>1, LeastExists
  <2> DEFINE l == SubSeq(log, 1, i - 1)
  <2>3. i \in 1..Len(log) /\ log[i].job = j
    BY <2>2
  <2>4. l \in Seq(Line) /\ Len(l) = i - 1 /\ \A k \in 1..(i - 1) : l[k] = log[k]
    <3>1. \A k \in 1..(i - 1) : log[k] \in Line
      BY <1>1, <2>3
    <3>2. SubSeq(log, 1, i - 1) \in Seq(Line)
      BY <1>1, <2>3, <3>1, SubSeqProperties
    <3> QED
      BY <1>1, <2>3, <3>2
  <2> HIDE DEF l
  <2>5. j \notin Named(l)
    <3>1. \A k \in 1..(i - 1) : log[k].job # j
      BY <1>1, <2>2, <2>3
    <3> QED
      BY <2>4, <3>1 DEF Named, NamedBy
  <2>6. j \in DOMAIN Replay(disk, l)
    BY <2>4, <2>5, ReplayIs
  <2> QED
    BY <1>2, <2>3, <2>6 DEF l
<1>5. Merged = disk
  <2>1. PICK m : m = Merged
    OBVIOUS
  <2>2. m \in JobMap /\ DOMAIN m = DOMAIN disk /\ \A j \in DOMAIN m : m[j] = disk[j]
    <3>1. /\ m \in JobMap /\ DOMAIN m = PutJobs(log) \cup (DOMAIN disk \ Named(log))
          /\ \A j \in DOMAIN m \ Named(log) : m[j] = disk[j]
      BY <2>1, ReplayIs DEF Merged
    <3> QED
      BY <1>3, <1>4, <3>1
  <2>3. m \in [DOMAIN m -> JobState] /\ disk \in [DOMAIN disk -> JobState]
    BY <2>2, JobMapIs
  <2> QED
    BY <2>1, <2>2, <2>3
<1> QED
  BY <1>3, <1>4, <1>5

-----------------------------------------------------------------------------
(***************************************************************************)
(* Loading and arming                                                      *)
(***************************************************************************)

LEMMA MergedIs ==
  ASSUME TypeInv
  PROVE  /\ Merged \in JobMap
         /\ DOMAIN Merged = PutJobs(log) \cup (DOMAIN disk \ Named(log))
         /\ \A j \in DOMAIN Merged \ Named(log) : Merged[j] = disk[j]
         /\ \A j \in DOMAIN Merged \cap Named(log) :
              \E x \in Puts(log) : x.job = j /\ Merged[j] = x.state
<1>1. disk \in JobMap /\ log \in Seq(Line)
  BY DEF TypeInv, StoreOK
<1> QED
  BY <1>1, ReplayIs DEF Merged

LEMMA LoadIs ==
  ASSUME TypeInv, NEW run \in BOOLEAN
  PROVE  /\ View \in JobMap /\ DiskAfter(run) \in JobMap /\ LogAfter(run) \in Seq(Line)
         /\ timerActive => View = mem /\ DiskAfter(run) = disk /\ LogAfter(run) = log
         /\ ~timerActive =>
              /\ View = Merged
              /\ \/ LogAfter(run) = <<>> /\ DiskAfter(run) = Merged
                 \/ /\ LogAfter(run) = log /\ DiskAfter(run) = disk
                    /\ run => ~Applies
<1>1. mem \in JobMap /\ disk \in JobMap /\ log \in Seq(Line) /\ timerActive \in BOOLEAN
  BY DEF TypeInv, StoreOK, CallsOK
<1>2. Merged \in JobMap
  BY <1>1, ReplayIs DEF Merged
<1>3. Applies => log # <<>>
  BY <1>1 DEF Applies
<1>4. CASE timerActive
  BY <1>1, <1>4 DEF View, LogAfter, DiskAfter
<1>5. CASE ~timerActive /\ run /\ Applies
  <2>1. LogAfter(run) = <<>> /\ LogAfter(run) # log
    BY <1>3, <1>5 DEF LogAfter
  <2> QED
    BY <1>2, <1>5, <2>1, NoLines DEF View, DiskAfter
<1>6. CASE ~timerActive /\ ~(run /\ Applies)
  <2>1. LogAfter(run) = log
    BY <1>6 DEF LogAfter
  <2> QED
    BY <1>1, <1>2, <1>6, <2>1 DEF View, DiskAfter
<1> QED
  BY <1>1, <1>4, <1>5, <1>6

\* What the executions hold after a load are jobs of the loaded store.
LEMMA HeldIs ==
  ASSUME TypeInv
  PROVE  /\ Attached \in [Runners -> SUBSET Jobs]
         /\ \A r \in Runners : Attached[r] \subseteq DOMAIN View
         /\ \A j : /\ AttachedWithout(j) \in [Runners -> SUBSET Jobs]
                   /\ \A r \in Runners : AttachedWithout(j)[r] \subseteq DOMAIN View \ {j}
         /\ timerActive => Attached = attached
<1>1. /\ attached \in [Runners -> SUBSET Jobs]
      /\ \A r \in Runners : attached[r] \subseteq DOMAIN mem
  BY DEF TypeInv, StoreOK
<1>2. /\ Attached \in [Runners -> SUBSET Jobs]
      /\ \A r \in Runners : Attached[r] \subseteq DOMAIN View
      /\ timerActive => Attached = attached
  <2>1. CASE timerActive
    BY <1>1, <2>1 DEF Attached, View
  <2>2. CASE ~timerActive
    BY <2>2 DEF Attached
  <2> QED
    BY <2>1, <2>2
<1> QED
  BY <1>2 DEF AttachedWithout

\* The delay never reaches past the next job.
LEMMA WakeIs ==
  ASSUME NEW jobs \in JobMap, now \in Nat
  PROVE  /\ Wake(jobs) \in Nat
         /\ \A j \in DOMAIN jobs : jobs[j].on /\ jobs[j].next # 0 =>
              Wake(jobs) <= jobs[j].next \/ Wake(jobs) <= now
<1> DEFINE Times == {jobs[j].next : j \in {x \in DOMAIN jobs :
                                            jobs[x].on /\ jobs[x].next # 0}}
           All == Times \cup {now + MaxSleep}
           First(w) == w \in All /\ \A v \in All : w <= v
           f == CHOOSE w \in All : \A v \in All : w <= v
<1>1. All \subseteq Nat /\ All # {}
  <2>1. \A j \in DOMAIN jobs : jobs[j].next \in Nat
    BY JobMapIs DEF JobState
  <2> QED
    BY <2>1, Constants
<1>2. f \in All /\ \A v \in All : f <= v
  <2>1. \E w \in All : \A v \in All : w <= v
    <3> HIDE DEF All
    <3> QED
      BY <1>1, LeastExists
  <2> HIDE DEF All
  <2> QED
    BY <2>1
<1>3. Wake(jobs) = IF f < now THEN now ELSE f
  BY DEF Wake
<1>4. \A j \in DOMAIN jobs : jobs[j].on /\ jobs[j].next # 0 => jobs[j].next \in All
  OBVIOUS
<1> HIDE DEF All, f
<1>5. f \in Nat
  BY <1>1, <1>2
<1>6. Wake(jobs) \in Nat
  BY <1>3, <1>5
<1>7. ASSUME NEW j \in DOMAIN jobs, jobs[j].on, jobs[j].next # 0
      PROVE  Wake(jobs) <= jobs[j].next \/ Wake(jobs) <= now
  <2>1. f <= jobs[j].next /\ jobs[j].next \in Nat
    BY <1>1, <1>2, <1>4, <1>7
  <2> QED
    BY <1>3, <1>5, <2>1
<1> QED
  BY <1>6, <1>7

LEMMA ArmIs ==
  ASSUME NEW run \in BOOLEAN, NEW jobs \in JobMap, NEW ticks,
         now \in Nat, timer \in Ticks \cup {None}, TicksOK(ticks, cancelled),
         Arm(run, jobs, ticks)
  PROVE  /\ timer' \in Ticks \cup {None} /\ TicksOK(tick', cancelled')
         /\ cancelled' = IF timer # None /\ ticks[timer].pc = "executing"
                         THEN cancelled \cup {timer} ELSE cancelled
         /\ \A t \in Ticks :
              /\ ticks[t].pc = "executing" => tick'[t] = ticks[t] /\ (run => t # timer')
              /\ t # timer /\ t # timer' => tick'[t] = ticks[t]
              /\ t = timer /\ (t # timer' \/ ~run) => tick'[t].pc # "sleeping"
              /\ tick'[t].pc = "executing" => tick'[t] = ticks[t]
         /\ run => /\ timer' \in Ticks /\ timer' \notin cancelled'
                   /\ tick'[timer'].pc = "sleeping" /\ tick'[timer'].wake = Wake(jobs)
         /\ ~run => timer' = timer
<1> DEFINE left == IF timer # None /\ ticks[timer].pc = "sleeping"
                   THEN [ticks EXCEPT ![timer] = Idle] ELSE ticks
           free == {t \in Ticks : left[t].pc = "none"}
           armed == CHOOSE t \in free : TRUE
           new == [Idle EXCEPT !.pc = "sleeping", !.wake = Wake(jobs)]
           dying == IF timer # None /\ ticks[timer].pc = "executing"
                    THEN cancelled \cup {timer} ELSE cancelled
<1>1. /\ cancelled' = dying
      /\ \/ ~run /\ tick' = left /\ timer' = timer
         \/ /\ run /\ free # {} /\ timer' = armed
            /\ tick' = [left EXCEPT ![timer'] = new]
  BY DEF Arm
<1>2. /\ ticks \in [Ticks -> Tick] /\ cancelled \subseteq Ticks
      /\ \A t \in Ticks :
           /\ ticks[t].pc = "executing" <=> ticks[t].job # None
           /\ ticks[t].due # {} => ticks[t].pc = "executing"
           /\ t \in cancelled => ticks[t].pc = "executing"
  BY DEF TicksOK
<1>3. None \notin Ticks
  BY Constants
<1>4. /\ Idle \in Tick /\ Idle.pc = "none" /\ Idle.job = None /\ Idle.due = {}
      /\ new \in Tick /\ new.pc = "sleeping" /\ new.job = None /\ new.due = {}
      /\ new.wake = Wake(jobs)
  BY WakeIs DEF Idle, Tick
<1>5. /\ left \in [Ticks -> Tick]
      /\ \A t \in Ticks :
           /\ left[t] = ticks[t] \/ (t = timer /\ ticks[t].pc = "sleeping" /\ left[t] = Idle)
           /\ t = timer => left[t].pc # "sleeping"
  BY <1>2, <1>3, <1>4
<1>6. run => armed \in Ticks /\ left[armed].pc = "none"
  BY <1>1
<1>7. dying \subseteq Ticks /\ \A t \in Ticks : t \in dying => ticks[t].pc = "executing"
  BY <1>2, <1>3
<1>8. dying = IF timer # None /\ ticks[timer].pc = "executing"
              THEN cancelled \cup {timer} ELSE cancelled
  OBVIOUS
<1> HIDE DEF left, free, armed, new, dying
<1>9. CASE ~run
  <2>1. tick' = left /\ timer' = timer
    BY <1>1, <1>9
  <2>2. TicksOK(tick', cancelled')
    BY <1>1, <1>2, <1>4, <1>5, <1>7, <2>1 DEF TicksOK
  <2> QED
    BY <1>1, <1>2, <1>4, <1>5, <1>8, <1>9, <2>1, <2>2
<1>10. CASE run
  <2>1. timer' = armed /\ armed \in Ticks /\ left[armed].pc = "none"
    BY <1>1, <1>6, <1>10
  <2>2. /\ tick' \in [Ticks -> Tick] /\ tick'[armed] = new
        /\ \A t \in Ticks : t # armed => tick'[t] = left[t]
    BY <1>1, <1>4, <1>5, <1>10, <2>1
  <2>3. ticks[armed].pc # "executing" /\ armed \notin dying
    BY <1>5, <1>7, <2>1
  <2>4. TicksOK(tick', cancelled')
    <3>1. \A t \in Ticks : t # armed =>
            /\ tick'[t].pc = "executing" <=> tick'[t].job # None
            /\ tick'[t].due # {} => tick'[t].pc = "executing"
            /\ t \in dying => tick'[t].pc = "executing"
      BY <1>2, <1>4, <1>5, <1>7, <2>2
    <3> QED
      BY <1>1, <1>4, <1>7, <2>2, <2>3, <3>1 DEF TicksOK
  <2>5. \A t \in Ticks :
          /\ ticks[t].pc = "executing" => tick'[t] = ticks[t] /\ t # timer'
          /\ t # timer /\ t # timer' => tick'[t] = ticks[t]
          /\ t = timer /\ t # timer' => tick'[t].pc # "sleeping"
          /\ tick'[t].pc = "executing" => tick'[t] = ticks[t]
    BY <1>4, <1>5, <2>1, <2>2, <2>3
  <2> QED
    BY <1>1, <1>4, <1>8, <1>10, <2>1, <2>2, <2>3, <2>4, <2>5
<1> QED
  BY <1>9, <1>10

LEMMA ArmTypes ==
  ASSUME NEW run \in BOOLEAN, NEW jobs \in JobMap, NEW ticks,
         now \in Nat, timer \in Ticks \cup {None}, TicksOK(ticks, cancelled),
         Arm(run, jobs, ticks)
  PROVE  TimersOK'
<1>1. timer' \in Ticks \cup {None} /\ TicksOK(tick', cancelled')
  BY ArmIs
<1> QED
  BY <1>1 DEF TimersOK

LEMMA ChangeIs ==
  ASSUME TypeInv, NEW jobs \in JobMap, NEW line \in Line,
         NEW held \in [Runners -> SUBSET Jobs],
         \A r \in Runners : held[r] \subseteq DOMAIN jobs,
         Change(jobs, held, line)
  PROVE  /\ StoreOK' /\ TimersOK' /\ timerActive' = timerActive
         /\ mem' = jobs /\ attached' = held
         /\ \/ running /\ disk' = jobs /\ log' = LogAfter(TRUE) /\ Arm(TRUE, jobs, tick)
            \/ ~running /\ disk' = disk /\ log' = Append(log, line) /\ UNCHANGED timers
<1>1. mem' = jobs /\ attached' = held
  BY DEF Change
<1>2. CASE running /\ disk' = jobs /\ log' = LogAfter(TRUE) /\ Arm(TRUE, jobs, tick) /\ UNCHANGED timerActive
  <2>1. LogAfter(TRUE) \in Seq(Line)
    BY LoadIs
  <2>2. TimersOK'
    <3>1. now \in Nat /\ timer \in Ticks \cup {None} /\ TicksOK(tick, cancelled)
      BY Constants DEF TypeInv, TimersOK, CallsOK
    <3>2. Arm(TRUE, jobs, tick)
      BY <1>2
    <3> QED
      BY <3>1, <3>2, ArmTypes
  <2> QED
    BY <1>1, <1>2, <2>1, <2>2 DEF StoreOK
<1>3. CASE ~running /\ log' = Append(log, line) /\ UNCHANGED <<disk, timers>>
  <2>1. Append(log, line) \in Seq(Line)
    BY DEF TypeInv, StoreOK
  <2>2. TimersOK' /\ disk' = disk /\ timerActive' = timerActive /\ UNCHANGED timers
    BY <1>3 DEF TypeInv, TimersOK, timers
  <2> QED
    BY <1>1, <1>3, <2>1, <2>2 DEF StoreOK, TypeInv
<1> QED
  BY <1>2, <1>3 DEF Change

LEMMA FreshIs ==
  ASSUME TypeInv, NEW j \in Jobs
  PROVE  FreshState(j) \in JobState /\ [op |-> "put", job |-> j, state |-> FreshState(j)] \in Line
<1>1. FreshState(j) \in JobState
  BY StatesOK, Constants DEF TypeInv, CallsOK
<1> QED
  BY <1>1 DEF Line, PutLine

\* Both ways of changing a job that is there.
LEMMA EditIs ==
  ASSUME TypeInv, NEW j \in DOMAIN View, NEW s \in JobState
  PROVE  /\ Put(View, j, s) \in JobMap /\ DOMAIN Put(View, j, s) = DOMAIN View
         /\ Put(View, j, s)[j] = s
         /\ \A x \in DOMAIN View : x # j => Put(View, j, s)[x] = View[x]
         /\ [op |-> "put", job |-> j, state |-> s] \in Line
         /\ \A on \in BOOLEAN : Enabled(View[j], j, on) \in JobState
         /\ View[j] \in JobState /\ j \in Jobs
<1>1. View \in JobMap
  BY LoadIs
<1>2. j \in Jobs /\ View[j] \in JobState
  BY <1>1, JobMapIs
<1>3. \A on \in BOOLEAN : Enabled(View[j], j, on) \in JobState
  BY <1>2, StatesOK, Constants DEF TypeInv, CallsOK
<1>4. [op |-> "put", job |-> j, state |-> s] \in Line
  BY <1>2 DEF Line, PutLine
<1>5. /\ Put(View, j, s) \in JobMap /\ DOMAIN Put(View, j, s) = DOMAIN View \cup {j}
      /\ Put(View, j, s)[j] = s
      /\ \A x \in DOMAIN View : x # j => Put(View, j, s)[x] = View[x]
  <2>1. PICK m : m = View
    OBVIOUS
  <2>2. m \in JobMap
    BY <1>1, <2>1
  <2> QED
    BY <1>2, <2>1, <2>2, PutIs
<1>6. DOMAIN View \cup {j} = DOMAIN View
  OBVIOUS
<1> QED
  BY <1>2, <1>3, <1>4, <1>5, <1>6

LEMMA IdleIs ==
  ASSUME NEW ticks, NEW dying, TicksOK(ticks, dying), NEW t \in Ticks, t \notin dying
  PROVE  TicksOK([ticks EXCEPT ![t] = Idle], dying)
<1>1. Idle \in Tick /\ Idle.pc = "none" /\ Idle.job = None /\ Idle.due = {}
  BY Constants DEF Idle, Tick
<1> QED
  BY <1>1 DEF TicksOK

\* The three outcomes of a tick that wakes.
WakesStopped(t) ==
  /\ ~running /\ timer' = None /\ tick' = [tick EXCEPT ![t] = Idle]
  /\ UNCHANGED <<mem, disk, log, cancelled, timerActive, attached>>

WakesEarly(t) ==
  /\ running /\ Due(View) = {} /\ timerActive' = FALSE
  /\ mem' = View /\ disk' = View /\ log' = LogAfter(TRUE) /\ attached' = Attached
  /\ Arm(TRUE, View, [tick EXCEPT ![t] = Idle])

WakesDue(t) ==
  /\ running /\ timerActive' = TRUE
  /\ mem' = View /\ disk' = DiskAfter(TRUE) /\ log' = LogAfter(TRUE)
  /\ attached' = [Attached EXCEPT ![t] = Due(View)]
  /\ UNCHANGED <<timer, cancelled>>
  /\ tick' \in [Ticks -> Tick]
  /\ tick'[t].pc = "executing" /\ tick'[t].job \in Due(View)
  /\ tick'[t].due = Due(View) \ {tick'[t].job}
  /\ \A u \in Ticks : u # t => tick'[u] = tick[u]

LEMMA DueIs ==
  ASSUME NEW jobs \in JobMap
  PROVE  Due(jobs) \subseteq DOMAIN jobs /\ Due(jobs) \subseteq Jobs
BY JobMapIs DEF Due

LEMMA TickWakeIs ==
  ASSUME TypeInv, NEW t \in Ticks, TickWake(t)
  PROVE  /\ tick[t].pc = "sleeping" /\ tick[t].wake <= now /\ t \notin cancelled
         /\ SlowCancel \/ cancelled = {}
         /\ WakesStopped(t) \/ WakesEarly(t) \/ WakesDue(t)
         /\ UNCHANGED <<now, calls, running, manual, other, wanted>>
         /\ UNCHANGED <<added, removed, completed, shot>>
<1>1. /\ tick[t].pc = "sleeping" /\ tick[t].wake <= now
      /\ SlowCancel \/ cancelled = {}
      /\ UNCHANGED <<now, calls, running, manual, other, wanted, history>>
  BY Zenon DEF TickWake
<1>2. /\ t \notin cancelled
      /\ UNCHANGED <<now, calls, running, manual, other, wanted>>
      /\ UNCHANGED <<added, removed, completed, shot>>
  BY <1>1 DEF TypeInv, TimersOK, TicksOK, history
<1>3. \/ /\ ~running /\ tick' = [tick EXCEPT ![t] = Idle] /\ timer' = None
         /\ UNCHANGED <<store, cancelled, timerActive, attached>>
      \/ WakesEarly(t)
      \/ /\ running
         /\ mem' = View /\ disk' = DiskAfter(TRUE) /\ log' = LogAfter(TRUE)
         /\ attached' = [Attached EXCEPT ![t] = Due(View)]
         /\ timerActive' = TRUE
         /\ \E j \in Due(View) :
              tick' = [tick EXCEPT ![t].pc = "executing", ![t].job = j,
                                   ![t].due = Due(View) \ {j}]
         /\ UNCHANGED <<timer, cancelled>>
  BY Zenon DEF TickWake, WakesEarly
<1>4. CASE /\ ~running /\ tick' = [tick EXCEPT ![t] = Idle] /\ timer' = None
           /\ UNCHANGED <<store, cancelled, timerActive, attached>>
  BY <1>1, <1>2, <1>4 DEF WakesStopped, store
<1>5. CASE /\ running
           /\ mem' = View /\ disk' = DiskAfter(TRUE) /\ log' = LogAfter(TRUE)
           /\ attached' = [Attached EXCEPT ![t] = Due(View)]
           /\ timerActive' = TRUE
           /\ \E j \in Due(View) :
                tick' = [tick EXCEPT ![t].pc = "executing", ![t].job = j,
                                     ![t].due = Due(View) \ {j}]
           /\ UNCHANGED <<timer, cancelled>>
  <2>1. PICK j \in Due(View) :
          tick' = [tick EXCEPT ![t].pc = "executing", ![t].job = j,
                               ![t].due = Due(View) \ {j}]
    BY <1>5, Zenon
  <2>2. Due(View) \subseteq Jobs
    BY LoadIs, DueIs
  <2>3. j \in Jobs /\ j \in Due(View) /\ Due(View) \ {j} \in SUBSET Jobs
    BY <2>1, <2>2
  <2>4. tick \in [Ticks -> Tick]
    BY DEF TypeInv, TimersOK, TicksOK
  <2>5. PICK rest \in SUBSET Jobs : rest = Due(View) \ {j}
    BY <2>3
  <2>6. tick' = [tick EXCEPT ![t].pc = "executing", ![t].job = j, ![t].due = rest]
    BY <2>1, <2>5
  <2>7. /\ tick' \in [Ticks -> Tick]
        /\ tick'[t].pc = "executing" /\ tick'[t].job = j /\ tick'[t].due = rest
        /\ \A u \in Ticks : u # t => tick'[u] = tick[u]
    BY ZenonT(40), <2>3, <2>4, <2>5, <2>6 DEF Tick
  <2> QED
    BY <1>1, <1>2, <1>5, <2>3, <2>5, <2>7 DEF WakesDue
<1> QED
  BY <1>1, <1>2, <1>3, <1>4, <1>5, Zenon

LEMMA TickWakeTypes ==
  ASSUME TypeInv, NEW t \in Ticks, TickWake(t) PROVE TypeInv'
<1>1. /\ t \notin cancelled /\ tick[t].pc = "sleeping"
      /\ WakesStopped(t) \/ WakesEarly(t) \/ WakesDue(t)
      /\ UNCHANGED <<now, calls, running, manual, other, wanted>>
      /\ UNCHANGED <<added, removed, completed, shot>>
  BY TickWakeIs
<1>2. CallsOK' /\ HistoryOK'
  <2>1. timerActive' \in BOOLEAN
    BY <1>1 DEF WakesStopped, WakesEarly, WakesDue, TypeInv, CallsOK
  <2> QED
    BY <1>1, <2>1 DEF TypeInv, CallsOK, HistoryOK
<1>3. TicksOK([tick EXCEPT ![t] = Idle], cancelled)
  BY <1>1, IdleIs DEF TypeInv, TimersOK
<1>4. View \in JobMap /\ LogAfter(TRUE) \in Seq(Line) /\ DiskAfter(TRUE) \in JobMap
  BY LoadIs
<1>5. /\ Attached \in [Runners -> SUBSET Jobs]
      /\ \A r \in Runners : Attached[r] \subseteq DOMAIN View
  BY HeldIs
<1>6. CASE WakesStopped(t)
  BY <1>2, <1>3, <1>6 DEF WakesStopped, TypeInv, StoreOK, TimersOK
<1>7. CASE WakesEarly(t)
  <2>1. now \in Nat /\ timer \in Ticks \cup {None}
    BY Constants DEF TypeInv, CallsOK, TimersOK
  <2>2. Arm(TRUE, View, [tick EXCEPT ![t] = Idle])
    BY <1>7 DEF WakesEarly
  <2>3. TimersOK'
    BY <1>3, <1>4, <2>1, <2>2, ArmTypes
  <2> QED
    BY <1>2, <1>4, <1>5, <1>7, <2>3 DEF WakesEarly, StoreOK, TypeInv
<1>8. CASE WakesDue(t)
  <2>1. Due(View) \subseteq DOMAIN View /\ Due(View) \subseteq Jobs
    BY <1>4, DueIs
  <2>2. StoreOK'
    <3>1. /\ attached' \in [Runners -> SUBSET Jobs]
          /\ \A r \in Runners : attached'[r] \subseteq DOMAIN View
      BY <1>5, <1>8, <2>1 DEF WakesDue
    <3> QED
      BY <1>4, <1>8, <3>1 DEF WakesDue, StoreOK
  <2>3. TimersOK'
    <3>1. tick'[t].job # None
      BY <1>8, <2>1, Constants DEF WakesDue
    <3> QED
      BY <1>1, <1>8, <3>1 DEF WakesDue, TypeInv, TimersOK, TicksOK
  <2> QED
    BY <1>2, <2>2, <2>3 DEF TypeInv
<1> QED
  BY <1>1, <1>6, <1>7, <1>8

\* After an execution the runner holds objects of jobs that are still there.
LEMMA ReleasedIs ==
  ASSUME TypeInv, NEW j \in Jobs, NEW r \in Runners, NEW done \in BOOLEAN
  PROVE  /\ AttachedAfter(j, r, done) \in [Runners -> SUBSET Jobs]
         /\ \A x \in Runners : AttachedAfter(j, r, done)[x] \subseteq
              DOMAIN Recorded(mem, j, j \in attached[r])
         /\ Recorded(mem, j, j \in attached[r]) \in JobMap
         /\ DOMAIN Recorded(mem, j, j \in attached[r]) =
              IF Kind[j] = "atDelete" THEN DOMAIN mem \ {j} ELSE DOMAIN mem
<1>1. /\ mem \in JobMap /\ now \in Nat
      /\ attached \in [Runners -> SUBSET Jobs]
      /\ \A x \in Runners : attached[x] \subseteq DOMAIN mem
  BY Constants DEF TypeInv, StoreOK, CallsOK
<1>2. /\ Recorded(mem, j, j \in attached[r]) \in JobMap
      /\ DOMAIN Recorded(mem, j, j \in attached[r]) =
              IF Kind[j] = "atDelete" THEN DOMAIN mem \ {j} ELSE DOMAIN mem
  <2>1. \A held \in BOOLEAN : (held => j \in DOMAIN mem) =>
          /\ Recorded(mem, j, held) \in JobMap
          /\ DOMAIN Recorded(mem, j, held) =
               IF Kind[j] = "atDelete" THEN DOMAIN mem \ {j} ELSE DOMAIN mem
    BY <1>1, RecordedIs, ZenonT(40)
  <2>2. (j \in attached[r]) \in BOOLEAN /\ (j \in attached[r] => j \in DOMAIN mem)
    BY <1>1
  <2> QED
    BY <2>1, <2>2, Zenon
<1> QED
  BY <1>1, <1>2 DEF AttachedAfter

\* The next due job is started, or the store is saved and the timer armed.
GoesOn(t) ==
  /\ UNCHANGED <<disk, timer, cancelled, timerActive>>
  /\ tick'[t].pc = "executing" /\ tick'[t].job \in tick[t].due
  /\ tick'[t].due = tick[t].due \ {tick'[t].job}
  /\ \A u \in Ticks : u # t => tick'[u] = tick[u]

Closes(t) ==
  /\ tick[t].due = {} /\ disk' = mem' /\ timerActive' = FALSE
  /\ Arm(running, mem', [tick EXCEPT ![t] = Idle])

LEMMA TickDoneIs ==
  ASSUME TypeInv, NEW t \in Ticks, TickJobDone(t)
  PROVE  /\ TypeInv'
         /\ tick[t].pc = "executing" /\ t \notin cancelled /\ tick[t].job \in Jobs
         /\ mem' = Recorded(mem, tick[t].job, tick[t].job \in attached[t])
         /\ attached' = AttachedAfter(tick[t].job, t, tick[t].due = {})
         /\ completed' = [completed EXCEPT ![tick[t].job] = @ + 1]
         /\ shot' = IF Kind[tick[t].job] = "every" THEN shot ELSE shot \cup {tick[t].job}
         /\ added' = IF Kind[tick[t].job] = "atDelete" THEN added \ {tick[t].job} ELSE added
         /\ UNCHANGED <<now, log, running, manual, other, removed>>
         /\ GoesOn(t) \/ Closes(t)
<1> DEFINE j == tick[t].job
           jobs == Recorded(mem, j, j \in attached[t])
           done == tick[t].due = {}
<1>1. /\ tick \in [Ticks -> Tick] /\ tick[t].pc = "executing" /\ t \notin cancelled
      /\ j \in Jobs /\ t \in Runners /\ done \in BOOLEAN /\ now \in Nat
  <2>1. tick \in [Ticks -> Tick] /\ tick[t].pc = "executing" /\ t \notin cancelled /\ j # None
    BY DEF TypeInv, TimersOK, TicksOK, TickJobDone
  <2> QED
    BY <2>1, Constants DEF Tick, Runners, TypeInv, CallsOK
<1>2. /\ mem' = jobs /\ attached' = AttachedAfter(j, t, done) /\ log' = log
      /\ completed' = [completed EXCEPT ![j] = @ + 1]
      /\ shot' = IF Kind[j] = "every" THEN shot ELSE shot \cup {j}
      /\ added' = IF Kind[j] = "atDelete" THEN added \ {j} ELSE added
      /\ UNCHANGED <<now, calls, log, running, manual, other, wanted, removed>>
  BY DEF TickJobDone
<1>3. \/ /\ \E i \in tick[t].due : tick' = [tick EXCEPT ![t].job = i, ![t].due = @ \ {i}]
         /\ UNCHANGED <<disk, timer, cancelled, timerActive>>
      \/ /\ done /\ disk' = jobs /\ timerActive' = FALSE
         /\ Arm(running, jobs, [tick EXCEPT ![t] = Idle])
  BY DEF TickJobDone
<1>4. /\ AttachedAfter(j, t, done) \in [Runners -> SUBSET Jobs]
      /\ \A x \in Runners : AttachedAfter(j, t, done)[x] \subseteq DOMAIN jobs
      /\ jobs \in JobMap
  <2> HIDE DEF j
  <2> QED
    BY <1>1, ReleasedIs
<1> HIDE DEF j, jobs, done
<1>5. HistoryOK'
  BY <1>1, <1>2 DEF TypeInv, HistoryOK
<1>6. CallsOK' /\ StoreOK'
  <2>1. timerActive' \in BOOLEAN /\ disk' \in JobMap
    BY <1>3, <1>4 DEF TypeInv, CallsOK, StoreOK
  <2> QED
    BY <1>2, <1>4, <2>1 DEF TypeInv, CallsOK, StoreOK
<1>7. TimersOK' /\ (GoesOn(t) \/ Closes(t))
  <2>1. CASE /\ \E i \in tick[t].due : tick' = [tick EXCEPT ![t].job = i, ![t].due = @ \ {i}]
             /\ UNCHANGED <<disk, timer, cancelled, timerActive>>
    <3>1. PICK i \in tick[t].due : tick' = [tick EXCEPT ![t].job = i, ![t].due = @ \ {i}]
      BY <2>1
    <3>2. i \in Jobs /\ i # None
      BY <1>1, <3>1, Constants DEF Tick
    <3>3. /\ tick' \in [Ticks -> Tick] /\ tick'[t].pc = "executing" /\ tick'[t].job = i
          /\ tick'[t].due = tick[t].due \ {i}
          /\ \A u \in Ticks : u # t => tick'[u] = tick[u]
      BY <1>1, <3>1, <3>2 DEF Tick
    <3>4. TimersOK'
      BY <2>1, <3>2, <3>3 DEF TypeInv, TimersOK, TicksOK
    <3> QED
      BY <2>1, <3>1, <3>3, <3>4 DEF GoesOn
  <2>2. CASE /\ done /\ disk' = jobs /\ timerActive' = FALSE
             /\ Arm(running, jobs, [tick EXCEPT ![t] = Idle])
    <3>1. Idle \in Tick /\ Idle.pc = "none" /\ Idle.job = None /\ Idle.due = {}
      BY Constants DEF Idle, Tick
    <3> DEFINE rest == [tick EXCEPT ![t] = Idle]
    <3>2. TicksOK(rest, cancelled)
      BY <1>1, <3>1 DEF TypeInv, TimersOK, TicksOK
    <3> HIDE DEF rest
    <3>3. Arm(running, jobs, rest)
      BY <2>2 DEF rest
    <3>4. running \in BOOLEAN /\ timer \in Ticks \cup {None}
      BY DEF TypeInv, CallsOK, TimersOK
    <3>5. TimersOK'
      BY <1>1, <1>4, <3>2, <3>3, <3>4, ArmTypes
    <3> QED
      BY <1>2, <2>2, <3>5 DEF Closes, done
  <2> QED
    BY <1>3, <2>1, <2>2
<1>8. TypeInv'
  BY <1>5, <1>6, <1>7 DEF TypeInv
<1> QED
  BY <1>1, <1>2, <1>7, <1>8 DEF j, jobs, done

LEMMA CallIs ==
  ASSUME TypeInv, NEW op, Call(op)
  PROVE  op \in Ops /\ calls' \in 0..MaxCalls
BY Constants DEF Call, TypeInv, CallsOK

\* What every call leaves alone but its own effect.
Quiet == /\ UNCHANGED <<now, manual, other>>
         /\ UNCHANGED <<completed, shot>>

LEMMA AddIs ==
  ASSUME TypeInv, NEW j \in Jobs, AddJob(j) \/ OtherAdd(j)
  PROVE  /\ TypeInv' /\ Quiet /\ running' = running /\ wanted' = wanted
         /\ OtherAdd(j) => "otherAdd" \in Ops
         /\ Fresh(j) /\ added' = added \cup {j} /\ removed' = removed
         /\ timerActive' = timerActive
         /\ \/ /\ running /\ mem' = Put(View, j, FreshState(j)) /\ disk' = mem'
               /\ log' = LogAfter(TRUE) /\ attached' = Attached
               /\ Arm(TRUE, Put(View, j, FreshState(j)), tick)
            \/ /\ ~running \/ OtherAdd(j)
               /\ log' = Append(log, [op |-> "put", job |-> j, state |-> FreshState(j)])
               /\ UNCHANGED <<mem, disk, attached, timer, tick, cancelled>>
<1> DEFINE line == [op |-> "put", job |-> j, state |-> FreshState(j)]
           jobs == Put(View, j, FreshState(j))
<1>1. line \in Line /\ FreshState(j) \in JobState
  BY FreshIs
<1>2. jobs \in JobMap /\ DOMAIN jobs = DOMAIN View \cup {j}
  BY <1>1, LoadIs, PutIs
<1>3. /\ Quiet /\ running' = running /\ wanted' = wanted /\ Fresh(j)
      /\ added' = added \cup {j} /\ removed' = removed
      /\ calls' \in 0..MaxCalls
      /\ OtherAdd(j) => "otherAdd" \in Ops
  BY CallIs DEF AddJob, OtherAdd, Quiet
<1>4. CASE running /\ Change(jobs, Attached, line)
  <2>1. /\ Attached \in [Runners -> SUBSET Jobs]
        /\ \A r \in Runners : Attached[r] \subseteq DOMAIN jobs
    BY <1>2, HeldIs
  <2> HIDE DEF jobs, line
  <2>2. /\ StoreOK' /\ TimersOK' /\ timerActive' = timerActive
        /\ mem' = jobs /\ attached' = Attached
        /\ disk' = jobs /\ log' = LogAfter(TRUE) /\ Arm(TRUE, jobs, tick)
    BY <1>1, <1>2, <1>4, <2>1, ChangeIs
  <2>3. CallsOK' /\ HistoryOK'
    BY <1>3, <2>2 DEF TypeInv, CallsOK, HistoryOK, Quiet
  <2> QED
    BY <1>3, <1>4, <2>2, <2>3 DEF TypeInv, jobs
<1>5. CASE /\ ~running \/ OtherAdd(j)
           /\ log' = Append(log, line) /\ UNCHANGED <<mem, disk, attached, timers>>
  <2>1. /\ UNCHANGED <<mem, disk, attached, timer, tick, cancelled>>
        /\ timerActive' = timerActive
    BY <1>5 DEF timers
  <2>2. Append(log, line) \in Seq(Line)
    BY <1>1 DEF TypeInv, StoreOK
  <2> HIDE DEF jobs
  <2>3. StoreOK' /\ TimersOK' /\ CallsOK' /\ HistoryOK'
    BY <1>3, <1>5, <2>1, <2>2 DEF TypeInv, StoreOK, TimersOK, CallsOK, HistoryOK, Quiet
  <2> QED
    BY <1>3, <1>5, <2>1, <2>3 DEF TypeInv
<1> HIDE DEF jobs, line
<1>6. \/ running /\ Change(jobs, Attached, line)
      \/ /\ ~running \/ OtherAdd(j)
         /\ log' = Append(log, line) /\ UNCHANGED <<mem, disk, attached, timers>>
  BY DEF AddJob, OtherAdd, jobs, line
<1> QED
  BY <1>4, <1>5, <1>6

LEMMA RemoveIs ==
  ASSUME TypeInv, NEW j \in Jobs, RemoveJob(j)
  PROVE  /\ TypeInv' /\ Quiet /\ running' = running /\ wanted' = wanted
         /\ j \in DOMAIN View \ System
         /\ added' = added \ {j} /\ removed' = removed \cup {j}
         /\ timerActive' = timerActive
         /\ mem' = Without(View, j) /\ attached' = AttachedWithout(j)
         /\ \/ /\ running /\ disk' = mem' /\ log' = LogAfter(TRUE)
               /\ Arm(TRUE, Without(View, j), tick)
            \/ /\ ~running /\ disk' = disk
               /\ log' = Append(log, [op |-> "del", job |-> j])
               /\ UNCHANGED <<timer, tick, cancelled>>
<1> DEFINE line == [op |-> "del", job |-> j]
           jobs == Without(View, j)
<1>1. line \in Line
  BY DEF Line, DelLine
<1>2. jobs \in JobMap /\ DOMAIN jobs = DOMAIN View \ {j}
  <2>1. View \in JobMap
    BY LoadIs
  <2> QED
    BY <2>1, WithoutIs, Zenon
<1>3. /\ Quiet /\ running' = running /\ wanted' = wanted
      /\ j \in DOMAIN View \ System
      /\ added' = added \ {j} /\ removed' = removed \cup {j}
      /\ calls' \in 0..MaxCalls
  BY CallIs DEF RemoveJob, Quiet
<1>4. Change(jobs, AttachedWithout(j), line)
  BY DEF RemoveJob
<1>5. /\ AttachedWithout(j) \in [Runners -> SUBSET Jobs]
      /\ \A r \in Runners : AttachedWithout(j)[r] \subseteq DOMAIN jobs
  BY <1>2, HeldIs
<1> HIDE DEF jobs, line
<1>6. /\ StoreOK' /\ TimersOK' /\ timerActive' = timerActive
      /\ mem' = jobs /\ attached' = AttachedWithout(j)
      /\ \/ running /\ disk' = jobs /\ log' = LogAfter(TRUE) /\ Arm(TRUE, jobs, tick)
         \/ ~running /\ disk' = disk /\ log' = Append(log, line) /\ UNCHANGED timers
  BY <1>1, <1>2, <1>4, <1>5, ChangeIs
<1>7. CallsOK' /\ HistoryOK'
  BY <1>3, <1>6 DEF TypeInv, CallsOK, HistoryOK, Quiet
<1> QED
  BY <1>3, <1>6, <1>7 DEF TypeInv, jobs, line, timers

\* enable and update: the schedule is computed again, or left as it was.
LEMMA RescheduleIs ==
  ASSUME TypeInv, NEW j \in Jobs, UpdateJob(j) \/ \E on \in BOOLEAN : EnableJob(j, on)
  PROVE  /\ TypeInv' /\ Quiet /\ running' = running /\ wanted' = wanted
         /\ added' = added /\ removed' = removed
         /\ timerActive' = timerActive /\ j \in DOMAIN View
         /\ \E s \in JobState :
              /\ s.runs = View[j].runs
              /\ s.on => s.next = NextRun(j, now)
              /\ s.next \in {0, NextRun(j, now)} \/ s = View[j]
              /\ mem' = Put(View, j, s) /\ attached' = Attached
              /\ \/ /\ running /\ disk' = mem' /\ log' = LogAfter(TRUE)
                    /\ Arm(TRUE, Put(View, j, s), tick)
                 \/ /\ ~running /\ disk' = disk
                    /\ log' = Append(log, [op |-> "put", job |-> j, state |-> s])
                    /\ UNCHANGED <<timer, tick, cancelled>>
<1>1. /\ Quiet /\ running' = running /\ wanted' = wanted
      /\ j \in DOMAIN View /\ added' = added /\ removed' = removed
      /\ calls' \in 0..MaxCalls
  BY CallIs DEF UpdateJob, EnableJob, Quiet, history
<1>2. /\ View[j] \in JobState /\ now \in Nat
      /\ \A on \in BOOLEAN : Enabled(View[j], j, on) \in JobState
  <2>1. View \in JobMap /\ now \in Nat
    BY LoadIs, Constants DEF TypeInv, CallsOK
  <2>2. View[j] \in JobState
    BY <1>1, <2>1, JobMapIs
  <2> QED
    BY <2>1, <2>2, StatesOK
<1>3. PICK s \in JobState :
        /\ s.runs = View[j].runs
        /\ s.on => s.next = NextRun(j, now)
        /\ s.next \in {0, NextRun(j, now)} \/ s = View[j]
        /\ Change(Put(View, j, s), Attached, [op |-> "put", job |-> j, state |-> s])
  <2>1. CASE UpdateJob(j)
    <3> DEFINE s == IF View[j].on THEN Enabled(View[j], j, TRUE) ELSE View[j]
    <3>1. s \in JobState
      BY <1>2
    <3>2. /\ s.runs = View[j].runs
          /\ s.on => s.next = NextRun(j, now)
          /\ s.next \in {0, NextRun(j, now)} \/ s = View[j]
      BY <1>2, StatesOK
    <3>3. Change(Put(View, j, s), Attached, [op |-> "put", job |-> j, state |-> s])
      BY <2>1 DEF UpdateJob
    <3> HIDE DEF s
    <3> QED
      BY <3>1, <3>2, <3>3
  <2>2. CASE \E on \in BOOLEAN : EnableJob(j, on)
    <3>1. PICK on \in BOOLEAN : EnableJob(j, on)
      BY <2>2
    <3> DEFINE s == Enabled(View[j], j, on)
    <3>2. s \in JobState
      BY <1>2, <3>1
    <3>3. /\ s.runs = View[j].runs
          /\ s.on => s.next = NextRun(j, now)
          /\ s.next \in {0, NextRun(j, now)}
      BY <1>2, <3>1, StatesOK
    <3>4. Change(Put(View, j, s), Attached, [op |-> "put", job |-> j, state |-> s])
      BY <3>1 DEF EnableJob
    <3> HIDE DEF s
    <3> QED
      BY <3>2, <3>3, <3>4
  <2> QED
    BY <2>1, <2>2
<1> DEFINE jobs == Put(View, j, s)
           line == [op |-> "put", job |-> j, state |-> s]
<1>4. jobs \in JobMap /\ DOMAIN jobs = DOMAIN View /\ line \in Line
  BY <1>1, <1>3, EditIs
<1>5. /\ Attached \in [Runners -> SUBSET Jobs]
      /\ \A r \in Runners : Attached[r] \subseteq DOMAIN jobs
  BY <1>4, HeldIs
<1>6. Change(jobs, Attached, line)
  BY <1>3
<1> HIDE DEF jobs, line
<1>7. /\ StoreOK' /\ TimersOK' /\ timerActive' = timerActive
      /\ mem' = jobs /\ attached' = Attached
      /\ \/ running /\ disk' = jobs /\ log' = LogAfter(TRUE) /\ Arm(TRUE, jobs, tick)
         \/ ~running /\ disk' = disk /\ log' = Append(log, line) /\ UNCHANGED timers
  BY <1>4, <1>5, <1>6, ChangeIs
<1>8. TypeInv'
  BY <1>1, <1>7 DEF TypeInv, CallsOK, HistoryOK, Quiet
<1>9. /\ mem' = Put(View, j, s) /\ attached' = Attached
      /\ \/ /\ running /\ disk' = mem' /\ log' = LogAfter(TRUE)
            /\ Arm(TRUE, Put(View, j, s), tick)
         \/ /\ ~running /\ disk' = disk
            /\ log' = Append(log, [op |-> "put", job |-> j, state |-> s])
            /\ UNCHANGED <<timer, tick, cancelled>>
  BY <1>7 DEF jobs, line, timers
<1> QED
  BY <1>1, <1>3, <1>7, <1>8, <1>9

LEMMA RegisterIs ==
  ASSUME TypeInv, NEW j \in Jobs, RegisterSystemJob(j)
  PROVE  /\ TypeInv' /\ Quiet /\ running' = running /\ wanted' = wanted
         /\ j \in System /\ added' = added \cup {j} /\ removed' = removed
         /\ timerActive' = timerActive
         /\ \E s \in JobState :
              /\ s.runs = IF j \in DOMAIN View THEN View[j].runs ELSE 0
              /\ s.next = NextRun(j, now)
              /\ mem' = Put(View, j, s) /\ disk' = mem' /\ log' = LogAfter(running)
              /\ attached' = AttachedWithout(j)
              /\ Arm(running, Put(View, j, s), tick)
<1> DEFINE s == [FreshState(j) EXCEPT !.runs = IF j \in DOMAIN View THEN View[j].runs ELSE 0]
           jobs == Put(View, j, s)
<1>1. View \in JobMap /\ LogAfter(running) \in Seq(Line) /\ now \in Nat /\ running \in BOOLEAN
  BY LoadIs, Constants DEF TypeInv, CallsOK
<1>2. /\ s \in JobState /\ s.next = NextRun(j, now)
      /\ s.runs = IF j \in DOMAIN View THEN View[j].runs ELSE 0
  <2>1. j \in DOMAIN View => View[j].runs \in Nat
    BY <1>1, JobMapIs DEF JobState
  <2>2. FreshState(j) \in JobState /\ FreshState(j).next = NextRun(j, now)
    BY <1>1, StatesOK
  <2> QED
    BY <2>1, <2>2 DEF JobState
<1>3. jobs \in JobMap /\ DOMAIN jobs = DOMAIN View \cup {j}
  <2> HIDE DEF s
  <2> QED
    BY <1>1, <1>2, PutIs
<1>4. /\ mem' = jobs /\ disk' = jobs /\ log' = LogAfter(running)
      /\ attached' = AttachedWithout(j) /\ Arm(running, jobs, tick)
  BY DEF RegisterSystemJob
<1>5. /\ Quiet /\ running' = running /\ wanted' = wanted /\ j \in System
      /\ added' = added \cup {j} /\ removed' = removed
      /\ timerActive' = timerActive /\ calls' \in 0..MaxCalls
  BY CallIs DEF RegisterSystemJob, Quiet
<1> HIDE DEF jobs
<1>6. TimersOK'
  <2>1. timer \in Ticks \cup {None} /\ TicksOK(tick, cancelled)
    BY DEF TypeInv, TimersOK
  <2> QED
    BY <1>1, <1>3, <1>4, <2>1, ArmTypes
<1>7. StoreOK'
  BY <1>1, <1>3, <1>4, HeldIs DEF StoreOK
<1>8. TypeInv'
  BY <1>5, <1>6, <1>7 DEF TypeInv, CallsOK, HistoryOK, Quiet
<1>9. mem' = Put(View, j, s) /\ Arm(running, Put(View, j, s), tick)
  BY <1>4 DEF jobs
<1> HIDE DEF s
<1> QED
  BY <1>2, <1>4, <1>5, <1>8, <1>9

\* start(): every enabled job is scheduled again.
Rescheduled(jobs) ==
  [j \in DOMAIN jobs |->
     IF jobs[j].on THEN [jobs[j] EXCEPT !.next = NextRun(j, now)] ELSE jobs[j]]

LEMMA RescheduledIs ==
  ASSUME NEW jobs \in JobMap, now \in Nat
  PROVE  /\ Rescheduled(jobs) \in JobMap /\ DOMAIN Rescheduled(jobs) = DOMAIN jobs
         /\ \A j \in DOMAIN jobs :
              /\ Rescheduled(jobs)[j].runs = jobs[j].runs
              /\ Rescheduled(jobs)[j].on => Rescheduled(jobs)[j].next = NextRun(j, now)
              /\ Rescheduled(jobs)[j].next \in {jobs[j].next, NextRun(j, now)}
<1>1. DOMAIN jobs \subseteq Jobs /\ jobs \in [DOMAIN jobs -> JobState]
  BY JobMapIs
<1>2. \A j \in DOMAIN jobs : Rescheduled(jobs)[j] =
        IF jobs[j].on THEN [jobs[j] EXCEPT !.next = NextRun(j, now)] ELSE jobs[j]
  BY DEF Rescheduled
<1>3. \A j \in DOMAIN jobs : jobs[j] \in JobState /\ NextRun(j, now) \in Nat
  BY <1>1, NextRunIs
<1>4. \A j \in DOMAIN jobs :
        /\ Rescheduled(jobs)[j] \in JobState
        /\ Rescheduled(jobs)[j].runs = jobs[j].runs
        /\ Rescheduled(jobs)[j].on => Rescheduled(jobs)[j].next = NextRun(j, now)
        /\ Rescheduled(jobs)[j].next \in {jobs[j].next, NextRun(j, now)}
  BY <1>2, <1>3 DEF JobState
<1>5. DOMAIN Rescheduled(jobs) = DOMAIN jobs
  BY DEF Rescheduled
<1>6. Rescheduled(jobs) \in [DOMAIN jobs -> JobState]
  BY <1>4 DEF Rescheduled
<1>7. Rescheduled(jobs) \in JobMap
  BY <1>1, <1>5, <1>6, JobMapIs
<1> QED
  BY <1>4, <1>5, <1>7

LEMMA StartIs ==
  ASSUME TypeInv, Start
  PROVE  /\ TypeInv' /\ Quiet /\ running' = TRUE
         /\ added' = added /\ removed' = removed /\ timerActive' = timerActive
         /\ mem' = Rescheduled(View) /\ disk' = mem' /\ log' = LogAfter(TRUE)
         /\ attached' = Attached
         /\ Arm(TRUE, Rescheduled(View), tick)
<1>1. View \in JobMap /\ LogAfter(TRUE) \in Seq(Line) /\ now \in Nat
  <2>1. now \in Nat
    BY Constants DEF TypeInv, CallsOK
  <2>2. \A run \in BOOLEAN : View \in JobMap /\ LogAfter(run) \in Seq(Line)
    BY LoadIs
  <2> QED
    BY <2>1, <2>2
<1>2. Rescheduled(View) \in JobMap /\ DOMAIN Rescheduled(View) = DOMAIN View
  BY <1>1, RescheduledIs
<1>3. /\ Quiet /\ running' = TRUE /\ wanted' = TRUE
      /\ added' = added /\ removed' = removed /\ timerActive' = timerActive
      /\ mem' = Rescheduled(View) /\ disk' = mem' /\ log' = LogAfter(TRUE)
      /\ attached' = Attached /\ Arm(TRUE, Rescheduled(View), tick)
      /\ calls' \in 0..MaxCalls
  BY CallIs DEF Start, Rescheduled, Quiet, history
<1>4. TimersOK'
  <2>1. timer \in Ticks \cup {None} /\ TicksOK(tick, cancelled)
    BY DEF TypeInv, TimersOK
  <2> QED
    BY <1>1, <1>2, <1>3, <2>1, ArmTypes
<1>5. StoreOK'
  BY <1>1, <1>2, <1>3, HeldIs DEF StoreOK
<1>6. TypeInv'
  BY <1>3, <1>4, <1>5 DEF TypeInv, CallsOK, HistoryOK, Quiet
<1> QED
  BY <1>3, <1>6

LEMMA ListIs ==
  ASSUME TypeInv, ListJobs
  PROVE  /\ TypeInv' /\ Quiet /\ running' = running
         /\ UNCHANGED <<added, removed, timer, tick, cancelled, timerActive>>
         /\ mem' = View /\ disk' = DiskAfter(running) /\ log' = LogAfter(running)
         /\ attached' = Attached
<1>1. /\ Quiet /\ running' = running /\ wanted' = wanted
      /\ UNCHANGED <<added, removed, timer, tick, cancelled, timerActive>>
      /\ mem' = View /\ disk' = DiskAfter(running) /\ log' = LogAfter(running)
      /\ attached' = Attached
      /\ calls' \in 0..MaxCalls
  BY CallIs DEF ListJobs, Quiet, history, timers
<1>2. /\ View \in JobMap /\ LogAfter(running) \in Seq(Line) /\ DiskAfter(running) \in JobMap
  <2>1. running \in BOOLEAN
    BY DEF TypeInv, CallsOK
  <2> QED
    BY <2>1, LoadIs
<1>3. StoreOK'
  BY <1>1, <1>2, HeldIs DEF StoreOK
<1>4. TypeInv'
  BY <1>1, <1>3 DEF TypeInv, TimersOK, CallsOK, HistoryOK, Quiet
<1> QED
  BY <1>1, <1>4

LEMMA StopIs ==
  ASSUME TypeInv, Stop
  PROVE  /\ TypeInv' /\ Quiet /\ "stop" \in Ops /\ running' = FALSE
         /\ UNCHANGED <<mem, disk, log, added, removed, timerActive, attached>>
         /\ timer' = None
         /\ cancelled' = IF timer # None /\ tick[timer].pc = "executing"
                         THEN cancelled \cup {timer} ELSE cancelled
         /\ \A t \in Ticks :
              \/ tick'[t] = tick[t] /\ (t = timer => tick[t].pc = "executing")
              \/ t = timer /\ tick'[t] = Idle /\ tick[t].pc # "executing"
<1>1. /\ Quiet /\ "stop" \in Ops /\ running' = FALSE /\ wanted' = FALSE
      /\ UNCHANGED <<mem, disk, log, added, removed, timerActive, attached>>
      /\ timer' = None /\ calls' \in 0..MaxCalls
  BY CallIs DEF Stop, Quiet, history, store
<1>2. /\ tick \in [Ticks -> Tick] /\ None \notin Ticks /\ timer \in Ticks \cup {None}
      /\ Idle \in Tick /\ Idle.pc = "none" /\ Idle.job = None /\ Idle.due = {}
  BY Constants DEF TypeInv, TimersOK, TicksOK, Idle, Tick
<1>3. CASE timer # None /\ tick[timer].pc = "executing"
  <2>1. cancelled' = cancelled \cup {timer} /\ tick' = tick
    BY <1>3 DEF Stop
  <2>2. TicksOK(tick', cancelled')
    BY <1>2, <1>3, <2>1 DEF TypeInv, TimersOK, TicksOK
  <2>3. TypeInv'
    BY <1>1, <2>2 DEF TypeInv, StoreOK, TimersOK, CallsOK, HistoryOK, Quiet
  <2> QED
    BY <1>1, <1>2, <1>3, <2>1, <2>3
<1>4. CASE ~(timer # None /\ tick[timer].pc = "executing")
  <2>1. /\ cancelled' = cancelled
        /\ tick' = IF timer = None THEN tick ELSE [tick EXCEPT ![timer] = Idle]
    BY <1>4 DEF Stop
  <2>2. TicksOK(tick', cancelled')
    <3>1. timer = None \/ timer \notin cancelled
      BY <1>2, <1>4 DEF TypeInv, TimersOK, TicksOK
    <3> QED
      BY <1>2, <2>1, <3>1, IdleIs DEF TypeInv, TimersOK
  <2>3. \A t \in Ticks :
       \/ tick'[t] = tick[t] /\ t # timer
       \/ t = timer /\ tick'[t] = Idle /\ tick[t].pc # "executing"
    BY <1>2, <1>4, <2>1
  <2>4. TypeInv'
    BY <1>1, <2>2 DEF TypeInv, StoreOK, TimersOK, CallsOK, HistoryOK, Quiet
  <2> QED
    BY <1>1, <1>4, <2>1, <2>3, <2>4
<1> QED
  BY <1>3, <1>4

LEMMA RunJobIs ==
  ASSUME TypeInv, NEW j \in Jobs, RunJob(j)
  PROVE  /\ TypeInv' /\ "run" \in Ops
         /\ UNCHANGED <<now, other, added, removed, completed, shot>>
         /\ timerActive' = timerActive
         /\ mem' = View /\ disk' = DiskAfter(TRUE) /\ log' = LogAfter(TRUE)
<1>1. /\ "run" \in Ops /\ j \in DOMAIN View /\ UNCHANGED <<now, other, wanted>>
      /\ UNCHANGED <<added, removed, completed, shot>> /\ timerActive' = timerActive
      /\ mem' = View /\ disk' = DiskAfter(TRUE) /\ log' = LogAfter(TRUE)
      /\ calls' \in 0..MaxCalls
  BY CallIs DEF RunJob, history, timers
<1>2. /\ View \in JobMap /\ LogAfter(TRUE) \in Seq(Line) /\ DiskAfter(TRUE) \in JobMap
  BY LoadIs
<1>3. /\ Attached \in [Runners -> SUBSET Jobs]
      /\ \A r \in Runners : Attached[r] \subseteq DOMAIN View
  BY HeldIs
<1>4. /\ manual' \in [job : Jobs, was : BOOLEAN] \cup {NoRun} /\ running' \in BOOLEAN
  <2>1. \/ manual' = [job |-> j, was |-> running] /\ running' = TRUE
        \/ manual' = manual /\ running' = running
    BY Zenon DEF RunJob
  <2>2. /\ running \in BOOLEAN
        /\ manual \in [job : Jobs, was : BOOLEAN] \cup {NoRun}
    BY DEF TypeInv, CallsOK
  <2>3. [job |-> j, was |-> running] \in [job : Jobs, was : BOOLEAN]
    BY <2>2
  <2> QED
    BY <2>1, <2>2, <2>3, Zenon
<1>5. /\ attached' \in [Runners -> SUBSET Jobs]
      /\ \A r \in Runners : attached'[r] \subseteq DOMAIN View
  <2>1. attached' = [Attached EXCEPT !["run_job"] = {j}] \/ attached' = Attached
    BY DEF RunJob
  <2> QED
    BY <1>1, <1>3, <2>1
<1>6. TimersOK'
  <2>1. now \in Nat /\ timer \in Ticks \cup {None} /\ TicksOK(tick, cancelled)
    BY Constants DEF TypeInv, TimersOK, CallsOK
  <2>2. UNCHANGED timers \/ Arm(TRUE, View, tick)
    BY DEF RunJob
  <2>3. CASE UNCHANGED timers
    BY <2>1, <2>3 DEF TimersOK, timers
  <2>4. CASE Arm(TRUE, View, tick)
    BY <1>2, <2>1, <2>4, ArmTypes
  <2> QED
    BY <2>2, <2>3, <2>4
<1>7. TypeInv'
  BY <1>1, <1>2, <1>4, <1>5, <1>6 DEF TypeInv, StoreOK, CallsOK, HistoryOK
<1> QED
  BY <1>1, <1>7

LEMMA RunDoneIs ==
  ASSUME TypeInv, RunJobDone
  PROVE  /\ TypeInv' /\ manual # NoRun
         /\ UNCHANGED <<now, other, removed, shot, log>> /\ timerActive' = timerActive
         /\ \E j \in Jobs :
              /\ added' = IF Kind[j] = "atDelete" THEN added \ {j} ELSE added
              /\ disk' = mem'
              /\ DOMAIN mem' = IF Kind[j] = "atDelete" THEN DOMAIN mem \ {j} ELSE DOMAIN mem
<1> DEFINE j == manual.job
           jobs == Recorded(mem, j, j \in attached["run_job"])
<1>1. manual # NoRun /\ j \in Jobs /\ manual.was \in BOOLEAN /\ "run_job" \in Runners
  BY DEF RunJobDone, TypeInv, CallsOK, Runners
<1>2. /\ mem' = jobs /\ disk' = jobs /\ attached' = AttachedAfter(j, "run_job", TRUE)
      /\ completed' = [completed EXCEPT ![j] = @ + 1]
      /\ added' = IF Kind[j] = "atDelete" THEN added \ {j} ELSE added
      /\ running' = manual.was /\ manual' = NoRun
      /\ UNCHANGED <<now, calls, log, other, wanted, removed, shot>>
  BY DEF RunJobDone, Restored
<1>3. IF manual.was THEN Arm(TRUE, jobs, tick) /\ UNCHANGED timerActive ELSE UNCHANGED timers
  BY DEF RunJobDone
<1>4. timerActive' = timerActive
  BY <1>3 DEF timers
<1>5. /\ AttachedAfter(j, "run_job", TRUE) \in [Runners -> SUBSET Jobs]
      /\ \A x \in Runners : AttachedAfter(j, "run_job", TRUE)[x] \subseteq DOMAIN jobs
      /\ jobs \in JobMap
      /\ DOMAIN jobs = IF Kind[j] = "atDelete" THEN DOMAIN mem \ {j} ELSE DOMAIN mem
  <2> HIDE DEF j
  <2> QED
    BY <1>1, ReleasedIs
<1> HIDE DEF j, jobs
<1>6. TimersOK'
  <2>1. now \in Nat /\ timer \in Ticks \cup {None} /\ TicksOK(tick, cancelled)
    BY Constants DEF TypeInv, TimersOK, CallsOK
  <2>2. CASE manual.was /\ Arm(TRUE, jobs, tick)
    BY <1>5, <2>1, <2>2, ArmTypes
  <2>3. CASE UNCHANGED timers
    BY <2>1, <2>3 DEF TimersOK, timers
  <2> QED
    BY <1>3, <2>2, <2>3
<1>7. StoreOK'
  BY <1>2, <1>5 DEF TypeInv, StoreOK
<1>8. completed' \in [Jobs -> Nat]
  BY <1>1, <1>2 DEF TypeInv, HistoryOK
<1>9. TypeInv'
  BY <1>1, <1>2, <1>4, <1>6, <1>7, <1>8 DEF TypeInv, CallsOK, HistoryOK
<1> QED
  BY <1>1, <1>2, <1>4, <1>5, <1>9

LEMMA CancelledIs ==
  ASSUME TypeInv, NEW t \in Ticks, CancelledTickEnds(t)
  PROVE  /\ TypeInv' /\ Quiet /\ running' = running
         /\ UNCHANGED <<mem, disk, log, added, removed>>
         /\ t \in cancelled /\ cancelled' = cancelled \ {t}
         /\ tick'[t] = Idle /\ \A u \in Ticks : u # t => tick'[u] = tick[u]
         /\ timer' = IF timer = t THEN None ELSE timer
         /\ timerActive' = FALSE
         /\ \A u \in Ticks : u # t => attached'[u] = attached[u]
<1>1. /\ Quiet /\ running' = running /\ wanted' = wanted /\ calls' = calls
      /\ UNCHANGED <<mem, disk, log, added, removed>>
      /\ t \in cancelled /\ cancelled' = cancelled \ {t}
      /\ tick' = [tick EXCEPT ![t] = Idle]
      /\ timer' = IF timer = t THEN None ELSE timer
      /\ timerActive' = FALSE /\ attached' = [attached EXCEPT ![t] = {}]
  BY DEF CancelledTickEnds, Quiet, history, store
<1>2. /\ Idle \in Tick /\ Idle.pc = "none" /\ Idle.job = None /\ Idle.due = {}
      /\ t \in Runners
  BY Constants DEF Idle, Tick, Runners
<1>3. TicksOK(tick', cancelled')
  BY <1>1, <1>2 DEF TypeInv, TimersOK, TicksOK
<1>4. /\ attached' \in [Runners -> SUBSET Jobs]
      /\ \A r \in Runners : attached'[r] \subseteq DOMAIN mem
      /\ \A u \in Ticks : u # t => attached'[u] = attached[u]
  BY <1>1, <1>2 DEF TypeInv, StoreOK, Runners
<1>5. tick'[t] = Idle /\ \A u \in Ticks : u # t => tick'[u] = tick[u]
  BY <1>1 DEF TypeInv, TimersOK, TicksOK
<1>6. TypeInv'
  BY <1>1, <1>3, <1>4 DEF TypeInv, StoreOK, TimersOK, CallsOK, HistoryOK, Quiet
<1> QED
  BY <1>1, <1>4, <1>5, <1>6

\* What every crash leaves.
Lost ==
  /\ running' = FALSE /\ timerActive' = FALSE /\ timer' = None /\ cancelled' = {}
  /\ \A t \in Ticks : tick'[t] = Idle
  /\ manual' = NoRun
  /\ mem' = disk /\ UNCHANGED <<now, disk, other, shot>>

LEMMA CrashIs ==
  ASSUME TypeInv, Crash \/ CrashInMerge
  PROVE  /\ TypeInv' /\ Lost
         /\ \/ /\ UNCHANGED <<log, added, removed>>
               /\ \A j \in Jobs : completed'[j] =
                    IF j \in DOMAIN Merged THEN Merged[j].runs ELSE completed[j]
            \/ /\ log' = <<>> /\ added' = (added \cup removed) \cap DOMAIN disk
               /\ removed' = removed \ DOMAIN disk
               /\ \A j \in Jobs : completed'[j] =
                    IF j \in DOMAIN disk THEN disk[j].runs ELSE completed[j]
<1>1. /\ mem \in JobMap /\ disk \in JobMap /\ log \in Seq(Line)
      /\ completed \in [Jobs -> Nat] /\ added \subseteq Jobs /\ removed \subseteq Jobs
  BY DEF TypeInv, StoreOK, HistoryOK
<1>2. LoseMemory /\ calls' \in 0..MaxCalls
  BY CallIs DEF Crash, CrashInMerge
<1>3. Lost
  BY <1>2 DEF LoseMemory, Lost
<1>4. TimersOK'
  <2>1. Idle \in Tick /\ Idle.pc = "none" /\ Idle.job = None /\ Idle.due = {}
    BY Constants DEF Idle, Tick
  <2>2. tick' = [t \in Ticks |-> Idle] /\ cancelled' = {} /\ timer' = None
    BY <1>2 DEF LoseMemory
  <2> QED
    BY <2>1, <2>2 DEF TimersOK, TicksOK
<1>5. /\ attached' \in [Runners -> SUBSET Jobs]
      /\ \A r \in Runners : attached'[r] \subseteq DOMAIN mem'
  BY <1>2 DEF LoseMemory
<1>6. CallsOK'
  BY <1>2 DEF LoseMemory, TypeInv, CallsOK
<1>7. ASSUME NEW m \in JobMap, Keeps(m)
      PROVE  /\ completed' \in [Jobs -> Nat]
             /\ \A j \in Jobs : completed'[j] = IF j \in DOMAIN m THEN m[j].runs ELSE completed[j]
  <2>1. \A j \in DOMAIN m : m[j].runs \in Nat
    BY JobMapIs DEF JobState
  <2>2. completed' = [j \in Jobs |-> IF j \in DOMAIN m THEN m[j].runs ELSE completed[j]]
    BY <1>7 DEF Keeps
  <2> QED
    BY <1>1, <2>1, <2>2
<1>8. CASE Crash
  <2>1. Merged \in JobMap
    BY <1>1, ReplayIs DEF Merged
  <2>2. Keeps(Merged) /\ UNCHANGED <<log, added, removed>>
    BY <1>8 DEF Crash
  <2>3. /\ completed' \in [Jobs -> Nat]
        /\ \A j \in Jobs : completed'[j] =
             IF j \in DOMAIN Merged THEN Merged[j].runs ELSE completed[j]
    BY <1>7, <2>1, <2>2
  <2>4. TypeInv'
    BY <1>1, <1>3, <1>4, <1>5, <1>6, <2>2, <2>3 DEF TypeInv, StoreOK, HistoryOK, Lost
  <2> QED
    BY <1>3, <2>2, <2>3, <2>4
<1>9. CASE CrashInMerge
  <2>1. /\ Keeps(disk) /\ log' = <<>> /\ added' = (added \cup removed) \cap DOMAIN disk
        /\ removed' = removed \ DOMAIN disk
    BY <1>9 DEF CrashInMerge
  <2>2. /\ completed' \in [Jobs -> Nat]
        /\ \A j \in Jobs : completed'[j] = IF j \in DOMAIN disk THEN disk[j].runs ELSE completed[j]
    BY <1>1, <1>7, <2>1
  <2>3. shot' = shot
    BY <1>3 DEF Lost
  <2>4. TypeInv'
    BY <1>1, <1>3, <1>4, <1>5, <1>6, <2>1, <2>2, <2>3, NoLines DEF TypeInv, StoreOK, HistoryOK, Lost
  <2> QED
    BY <1>3, <2>1, <2>2, <2>4
<1> QED
  BY <1>8, <1>9

LEMMA OtherIs ==
  ASSUME TypeInv, OtherAppend \/ \E j \in Jobs : OtherLoad(j)
  PROVE  TypeInv' /\ ("other" \in Ops \/ other # NoCall)
<1>1. CASE OtherAppend
  <2>1. other # NoCall /\ other \in Line
    BY <1>1 DEF OtherAppend, TypeInv, CallsOK
  <2>2. other.job \in Jobs
    BY <2>1 DEF Line, PutLine, DelLine
  <2>3. /\ log' = Append(log, other) /\ other' = NoCall
        /\ removed' = IF other.op = "del" THEN removed \cup {other.job} ELSE removed
        /\ added' = IF other.op = "del" THEN added \ {other.job} ELSE added
        /\ UNCHANGED <<now, calls, mem, disk, running, manual, attached, wanted, completed, shot>>
        /\ UNCHANGED <<timer, tick, cancelled, timerActive>>
    BY <1>1 DEF OtherAppend, timers
  <2> QED
    BY <2>1, <2>2, <2>3 DEF TypeInv, StoreOK, TimersOK, CallsOK, HistoryOK
<1>2. ASSUME NEW j \in Jobs, OtherLoad(j) PROVE TypeInv' /\ "other" \in Ops
  <2>1. "other" \in Ops /\ calls' \in 0..MaxCalls
    BY <1>2, CallIs DEF OtherLoad
  <2>2. /\ UNCHANGED <<now, mem, disk, log, running, manual, attached, wanted>>
        /\ UNCHANGED <<added, removed, completed, shot, timer, tick, cancelled, timerActive>>
    BY <1>2 DEF OtherLoad, store, timers, history
  <2>3. other' \in Line
    <3>1. \/ \E on \in BOOLEAN :
               other' = [op |-> "put", job |-> j, state |-> Enabled(Merged[j], j, on)]
          \/ other' = [op |-> "del", job |-> j]
      BY <1>2 DEF OtherLoad
    <3>2. Merged[j] \in JobState /\ now \in Nat
      <4>1. Merged \in JobMap /\ now \in Nat
        BY MergedIs, Constants DEF TypeInv, CallsOK
      <4> QED
        BY <1>2, <4>1, JobMapIs DEF OtherLoad
    <3>3. \A on \in BOOLEAN : Enabled(Merged[j], j, on) \in JobState
      BY <3>2, StatesOK
    <3> QED
      BY <3>1, <3>3 DEF Line, PutLine, DelLine
  <2> QED
    BY <2>1, <2>2, <2>3 DEF TypeInv, StoreOK, TimersOK, CallsOK, HistoryOK
<1> QED
  BY <1>1, <1>2

LEMMA PassIs ==
  ASSUME TypeInv, Clock \/ UNCHANGED vars
  PROVE  /\ TypeInv' /\ now <= now'
         /\ UNCHANGED <<mem, disk, log, running, manual, attached, other>>
         /\ UNCHANGED <<added, removed, completed, shot, timer, tick, cancelled, timerActive>>
<1>1. /\ UNCHANGED <<calls, wanted, mem, disk, log, running, manual, attached, other>>
      /\ UNCHANGED <<added, removed, completed, shot, timer, tick, cancelled, timerActive>>
  BY DEF Clock, vars, store, timers, history
<1>2. now' \in 0..MaxNow /\ now <= now'
  BY Constants DEF Clock, vars, TypeInv, CallsOK
<1> QED
  BY <1>1, <1>2 DEF TypeInv, StoreOK, TimersOK, CallsOK, HistoryOK

-----------------------------------------------------------------------------
(***************************************************************************)
(* Type correctness                                                        *)
(***************************************************************************)

LEMMA TypeInit == Init => TypeInv
<1> SUFFICES ASSUME Init PROVE TypeInv
  OBVIOUS
<1>1. /\ Idle \in Tick /\ Idle.pc = "none" /\ Idle.job = None /\ Idle.due = {}
      /\ 0 \in 0..MaxNow /\ 0 \in 0..MaxCalls
  BY Constants DEF Idle, Tick
<1>2. disk \in JobMap
  <2>1. \A j \in Stored : [on |-> TRUE, next |-> NextRun(j, 0), runs |-> 0] \in JobState
    BY Constants, NextRunIs DEF JobState
  <2>2. disk \in [Stored -> JobState]
    BY <2>1 DEF Init
  <2> QED
    BY <2>2, Constants DEF JobMap
<1>3. StoreOK
  BY <1>2, NoLines DEF Init, StoreOK
<1>4. TimersOK
  BY <1>1 DEF Init, TimersOK, TicksOK
<1> QED
  BY <1>1, <1>3, <1>4, Constants DEF Init, TypeInv, CallsOK, HistoryOK

LEMMA TypeStep == TypeInv /\ [Next]_vars => TypeInv'
<1> SUFFICES ASSUME TypeInv, [Next]_vars PROVE TypeInv'
  OBVIOUS
<1>1. ASSUME NEW t \in Ticks, TickWake(t) \/ TickJobDone(t) \/ CancelledTickEnds(t)
      PROVE  TypeInv'
  BY <1>1, TickWakeTypes, TickDoneIs, CancelledIs
<1>2. ASSUME NEW j \in Jobs,
             \/ AddJob(j) \/ RemoveJob(j) \/ UpdateJob(j) \/ RegisterSystemJob(j)
             \/ RunJob(j) \/ OtherAdd(j) \/ OtherLoad(j)
             \/ \E on \in BOOLEAN : EnableJob(j, on)
      PROVE  TypeInv'
  BY <1>2, AddIs, RemoveIs, RescheduleIs, RegisterIs, RunJobIs, OtherIs
<1>3. ListJobs \/ Start \/ Stop \/ RunJobDone => TypeInv'
  BY ListIs, StartIs, StopIs, RunDoneIs
<1>4. Crash \/ CrashInMerge \/ OtherAppend => TypeInv'
  BY CrashIs, OtherIs
<1>5. Clock \/ Finished \/ UNCHANGED vars => TypeInv'
  BY PassIs DEF Finished
<1> QED
  BY <1>1, <1>2, <1>3, <1>4, <1>5 DEF Next

\* The types: among the rest, an executing timer task has a job, only an
\* executing one is cancelled, and the executions hold objects of jobs in memory.
THEOREM TypeCorrect == Spec => []TypeOK
<1>1. TypeInv => TypeOK
  <2> SUFFICES ASSUME TypeInv PROVE TypeOK
    OBVIOUS
  <2>1. IsJobMap(mem) /\ IsJobMap(disk)
    BY JobMapIs DEF TypeInv, StoreOK, IsJobMap
  <2>2. \A i \in DOMAIN log : log[i].op \in {"put", "del"} /\ log[i].job \in Jobs
    <3>1. \A i \in DOMAIN log : log[i] \in Line
      BY DEF TypeInv, StoreOK
    <3> QED
      BY <3>1 DEF Line, PutLine, DelLine
  <2>3. /\ \A t \in Ticks :
             /\ tick[t].pc \in {"none", "sleeping", "executing"}
             /\ tick[t].pc = "executing" <=> tick[t].job # None
             /\ tick[t].due \subseteq Jobs
             /\ tick[t].due # {} => tick[t].pc = "executing"
        /\ \A t \in cancelled : tick[t].pc = "executing"
    BY DEF TypeInv, TimersOK, TicksOK, Tick
  <2>4. manual.job \in Jobs \cup {None} /\ manual.was \in BOOLEAN
    <3>1. \A m \in [job : Jobs, was : BOOLEAN] : m.job \in Jobs /\ m.was \in BOOLEAN
      OBVIOUS
    <3>2. NoRun.job = None /\ NoRun.was \in BOOLEAN
      BY DEF NoRun
    <3>3. manual \in [job : Jobs, was : BOOLEAN] \/ manual = NoRun
      BY DEF TypeInv, CallsOK
    <3> QED
      BY <3>1, <3>2, <3>3, Zenon
  <2>5. other.op \in {"none", "put", "del"}
    BY DEF TypeInv, CallsOK, NoCall, Line, PutLine, DelLine
  <2> QED
    BY <2>1, <2>2, <2>3, <2>4, <2>5 DEF TypeInv, StoreOK, TimersOK, CallsOK, HistoryOK, TypeOK
<1> QED
  BY <1>1, TypeInit, TypeStep, PTL DEF Spec

-----------------------------------------------------------------------------
(***************************************************************************)
(* Acknowledged edits are kept                                             *)
(***************************************************************************)

\* M and D are the jobs in memory and in the file, N the jobs the log names
\* and P those it puts; a and r the jobs acknowledged as added and removed.
\* A job is in the log or only in the file; while the timer runs jobs the
\* memory is pinned, and what the log puts is not there yet.
Kept(M, D, P, N, pinned, a, r) ==
  /\ a \subseteq P \cup (D \ N)
  /\ r \cap (P \cup (D \ N)) = {}
  /\ N \ P \subseteq r
  /\ pinned => P \cap (M \cup System) = {}
  /\ r \cap M \subseteq N
  /\ a \ M \subseteq N
  /\ r \cap System = {}

EditsInv ==
  /\ other = NoCall
  /\ Kept(DOMAIN mem, DOMAIN disk, PutJobs(log), Named(log), timerActive, added, removed)

\* The store is loaded: nothing happens to a pinned one; another is merged,
\* and then either the merge is saved or file and log stay.
LEMMA KeptLoad ==
  ASSUME NEW M, NEW D, NEW P, NEW N, NEW pinned \in BOOLEAN, NEW a, NEW r,
         Kept(M, D, P, N, pinned, a, r),
         NEW M1, NEW D1, NEW P1, NEW N1,
         pinned => M1 = M /\ D1 = D /\ P1 = P /\ N1 = N,
         ~pinned => /\ M1 = P \cup (D \ N)
                    /\ \/ D1 = M1 /\ P1 = {} /\ N1 = {}
                       \/ D1 = D /\ P1 = P /\ N1 = N
  PROVE  /\ Kept(M1, D1, P1, N1, pinned, a, r)
         /\ ~pinned => r \cap M1 = {}
BY DEF Kept

\* The memory is saved, with one new job, or without one it held.
LEMMA KeptSave ==
  ASSUME NEW M, NEW D, NEW P, NEW N, NEW pinned, NEW a, NEW r,
         Kept(M, D, P, N, pinned, a, r)
  PROVE  /\ Kept(M, M, P, N, pinned, a, r)
         /\ Kept(M, D, P, N, FALSE, a, r)
         /\ P = {} => Kept(M, D, P, N, TRUE, a, r)
BY DEF Kept

LEMMA KeptAdd ==
  ASSUME NEW M, NEW D, NEW P, NEW N, NEW pinned, NEW a, NEW r,
         Kept(M, D, P, N, pinned, a, r),
         NEW j, j \notin r \cup P
  PROVE  Kept(M \cup {j}, M \cup {j}, P, N, pinned, a \cup {j}, r)
BY DEF Kept

\* A system job is in the file from then on, whatever the log says of it.
LEMMA KeptRegister ==
  ASSUME NEW M, NEW D, NEW P, NEW N, NEW pinned, NEW a, NEW r,
         Kept(M, D, P, N, pinned, a, r),
         NEW j, j \in System
  PROVE  Kept(M \cup {j}, M \cup {j}, P, N, pinned, a \cup {j}, r)
BY DEF Kept

LEMMA KeptRemove ==
  ASSUME NEW M, NEW D, NEW P, NEW N, NEW pinned, NEW a, NEW r,
         Kept(M, D, P, N, pinned, a, r),
         NEW j, j \in M, j \notin System, j \notin P
  PROVE  Kept(M \ {j}, M \ {j}, P, N, pinned, a \ {j}, r \cup {j})
BY DEF Kept

\* A line is appended to the log.
LEMMA KeptPutLine ==
  ASSUME NEW M, NEW D, NEW P, NEW N, NEW pinned, NEW a, NEW r,
         Kept(M, D, P, N, pinned, a, r),
         NEW j, j \notin r, pinned => j \notin M \cup System
  PROVE  /\ Kept(M, D, P \cup {j}, N \cup {j}, pinned, a \cup {j}, r)
         /\ Kept(M, D, P \cup {j}, N \cup {j}, pinned, a, r)
BY DEF Kept

LEMMA KeptDelLine ==
  ASSUME NEW M, NEW D, NEW P, NEW N, NEW pinned, NEW a, NEW r,
         Kept(M, D, P, N, pinned, a, r),
         NEW j, j \notin System
  PROVE  Kept(M \ {j}, D, P \ {j}, N \cup {j}, pinned, a \ {j}, r \cup {j})
BY DEF Kept

\* An execution deletes its job.
LEMMA KeptDelete ==
  ASSUME NEW M, NEW D, NEW P, NEW N, NEW pinned, NEW a, NEW r,
         Kept(M, D, P, N, pinned, a, r), NEW j
  PROVE  /\ Kept(M \ {j}, D, P, N, pinned, a \ {j}, r)
         /\ Kept(M \ {j}, M \ {j}, P, N, pinned, a \ {j}, r)
BY DEF Kept

LEMMA KeptCrash ==
  ASSUME NEW M, NEW D, NEW P, NEW N, NEW pinned, NEW a, NEW r,
         Kept(M, D, P, N, pinned, a, r), P \subseteq N
  PROVE  /\ Kept(D, D, P, N, FALSE, a, r)
         /\ Kept(D, D, {}, {}, FALSE, (a \cup r) \cap D, r \ D)
BY DEF Kept

\* What a load makes of the jobs.
LEMMA LoadKept ==
  ASSUME TypeInv, EditsInv, NEW run \in BOOLEAN
  PROVE  /\ Kept(DOMAIN View, DOMAIN DiskAfter(run), PutJobs(LogAfter(run)),
                 Named(LogAfter(run)), timerActive, added, removed)
         /\ ~timerActive => removed \cap DOMAIN View = {}
         /\ ~timerActive /\ run => PutJobs(LogAfter(run)) = {}
<1>1. /\ disk \in JobMap /\ log \in Seq(Line) /\ timerActive \in BOOLEAN
      /\ Kept(DOMAIN mem, DOMAIN disk, PutJobs(log), Named(log), timerActive, added, removed)
  BY DEF TypeInv, StoreOK, CallsOK, EditsInv
<1>2. /\ timerActive => View = mem /\ DiskAfter(run) = disk /\ LogAfter(run) = log
      /\ ~timerActive =>
           /\ View = Merged
           /\ \/ LogAfter(run) = <<>> /\ DiskAfter(run) = Merged
              \/ /\ LogAfter(run) = log /\ DiskAfter(run) = disk
                 /\ run => ~Applies
  BY LoadIs
<1>3. ~timerActive => DOMAIN View = PutJobs(log) \cup (DOMAIN disk \ Named(log))
  BY <1>2, MergedIs
<1>4. /\ timerActive => /\ DOMAIN View = DOMAIN mem /\ DOMAIN DiskAfter(run) = DOMAIN disk
                        /\ PutJobs(LogAfter(run)) = PutJobs(log)
                        /\ Named(LogAfter(run)) = Named(log)
      /\ ~timerActive =>
            \/ /\ DOMAIN DiskAfter(run) = DOMAIN View
               /\ PutJobs(LogAfter(run)) = {} /\ Named(LogAfter(run)) = {}
            \/ /\ DOMAIN DiskAfter(run) = DOMAIN disk
               /\ PutJobs(LogAfter(run)) = PutJobs(log)
               /\ Named(LogAfter(run)) = Named(log)
  BY <1>2, NoLines
<1>5. ~timerActive /\ run => PutJobs(LogAfter(run)) = {}
  BY <1>1, <1>2, NoLines, NothingApplies
<1> DEFINE M == DOMAIN mem
           D == DOMAIN disk
           P == PutJobs(log)
           N == Named(log)
           M1 == DOMAIN View
           D1 == DOMAIN DiskAfter(run)
           P1 == PutJobs(LogAfter(run))
           N1 == Named(LogAfter(run))
<1>6. /\ Kept(M, D, P, N, timerActive, added, removed)
      /\ timerActive => M1 = M /\ D1 = D /\ P1 = P /\ N1 = N
      /\ ~timerActive => /\ M1 = P \cup (D \ N)
                         /\ \/ D1 = M1 /\ P1 = {} /\ N1 = {}
                            \/ D1 = D /\ P1 = P /\ N1 = N
  BY <1>1, <1>3, <1>4
<1>7. /\ Kept(M1, D1, P1, N1, timerActive, added, removed)
      /\ ~timerActive => removed \cap M1 = {}
  <2> HIDE DEF M, D, P, N, M1, D1, P1, N1
  <2> QED
    BY <1>1, <1>6, KeptLoad
<1> QED
  BY <1>5, <1>7

LEMMA LogShrinks ==
  ASSUME TypeInv, NEW run \in BOOLEAN
  PROVE  /\ PutJobs(LogAfter(run)) \subseteq PutJobs(log)
         /\ PutJobs(log) \subseteq DOMAIN Merged
         /\ PutJobs(log) \subseteq Named(log)
         /\ Puts(LogAfter(run)) \subseteq Puts(log)
         /\ LogAfter(FALSE) = log /\ DiskAfter(FALSE) = disk
<1>1. LogAfter(run) = log \/ LogAfter(run) = <<>>
  BY LoadIs
<1>2. PutJobs(log) \subseteq DOMAIN Merged /\ PutJobs(log) \subseteq Named(log)
  BY MergedIs, LinesAre DEF TypeInv, StoreOK
<1>3. LogAfter(FALSE) = log /\ DiskAfter(FALSE) = disk
  BY DEF LogAfter, DiskAfter
<1> QED
  BY <1>1, <1>2, <1>3, NoLines

LEMMA AddKeeps ==
  ASSUME TypeInv, EditsInv, NEW j \in Jobs, AddJob(j) \/ OtherAdd(j)
  PROVE  EditsInv'
<1>1. /\ Quiet /\ Fresh(j) /\ added' = added \cup {j} /\ removed' = removed
      /\ timerActive' = timerActive
  BY AddIs
<1>2. other' = NoCall
  BY <1>1 DEF EditsInv, Quiet
<1>3. /\ j \notin removed \cup System \cup DOMAIN mem \cup DOMAIN Merged
      /\ FreshState(j) \in JobState
      /\ [op |-> "put", job |-> j, state |-> FreshState(j)] \in Line
  BY <1>1, FreshIs DEF Fresh
<1>4. CASE /\ mem' = Put(View, j, FreshState(j)) /\ disk' = mem' /\ log' = LogAfter(TRUE)
  <2>1. Kept(DOMAIN View, DOMAIN DiskAfter(TRUE), PutJobs(LogAfter(TRUE)),
             Named(LogAfter(TRUE)), timerActive, added, removed)
    BY LoadKept
  <2>2. j \notin removed \cup PutJobs(LogAfter(TRUE))
    BY <1>3, LogShrinks
  <2>3. Kept(DOMAIN View \cup {j}, DOMAIN View \cup {j}, PutJobs(LogAfter(TRUE)),
             Named(LogAfter(TRUE)), timerActive, added \cup {j}, removed)
    BY <2>1, <2>2, KeptAdd, Zenon
  <2>4. DOMAIN mem' = DOMAIN View \cup {j} /\ DOMAIN disk' = DOMAIN View \cup {j}
    BY <1>3, <1>4, LoadIs, PutIs
  <2> QED
    BY <1>1, <1>2, <1>4, <2>3, <2>4, Zenon DEF EditsInv
<1>5. CASE /\ log' = Append(log, [op |-> "put", job |-> j, state |-> FreshState(j)])
           /\ mem' = mem /\ disk' = disk
  <2>1. Kept(DOMAIN mem, DOMAIN disk, PutJobs(log), Named(log), timerActive, added, removed)
    BY DEF EditsInv
  <2>2. Kept(DOMAIN mem, DOMAIN disk, PutJobs(log) \cup {j}, Named(log) \cup {j},
             timerActive, added \cup {j}, removed)
    BY <1>3, <2>1, KeptPutLine, Zenon
  <2>3. PutJobs(log') = PutJobs(log) \cup {j} /\ Named(log') = Named(log) \cup {j}
    BY <1>3, <1>5, AppendLine DEF TypeInv, StoreOK
  <2> QED
    BY <1>1, <1>2, <1>5, <2>2, <2>3, Zenon DEF EditsInv
<1>6. \/ mem' = Put(View, j, FreshState(j)) /\ disk' = mem' /\ log' = LogAfter(TRUE)
      \/ /\ log' = Append(log, [op |-> "put", job |-> j, state |-> FreshState(j)])
         /\ mem' = mem /\ disk' = disk
  BY AddIs
<1> QED
  BY <1>4, <1>5, <1>6

LEMMA RemoveKeeps ==
  ASSUME TypeInv, EditsInv, NEW j \in Jobs, RemoveJob(j)
  PROVE  EditsInv'
<1>1. /\ Quiet /\ j \in DOMAIN View /\ j \notin System
      /\ added' = added \ {j} /\ removed' = removed \cup {j}
      /\ timerActive' = timerActive /\ mem' = Without(View, j)
      /\ \/ running /\ disk' = mem' /\ log' = LogAfter(TRUE)
         \/ disk' = disk /\ log' = Append(log, [op |-> "del", job |-> j])
  BY RemoveIs
<1>2. other' = NoCall
  BY <1>1 DEF EditsInv, Quiet
<1>3. DOMAIN mem' = DOMAIN View \ {j}
  BY <1>1, LoadIs, WithoutIs
<1>4. CASE running /\ disk' = mem' /\ log' = LogAfter(TRUE)
  <2>1. /\ Kept(DOMAIN View, DOMAIN DiskAfter(TRUE), PutJobs(LogAfter(TRUE)),
                Named(LogAfter(TRUE)), timerActive, added, removed)
        /\ ~timerActive => PutJobs(LogAfter(TRUE)) = {}
    BY LoadKept
  <2>2. j \notin PutJobs(LogAfter(TRUE))
    BY <1>1, <2>1 DEF Kept
  <2>3. Kept(DOMAIN View \ {j}, DOMAIN View \ {j}, PutJobs(LogAfter(TRUE)),
             Named(LogAfter(TRUE)), timerActive, added \ {j}, removed \cup {j})
    BY <1>1, <2>1, <2>2, KeptRemove, Zenon
  <2> QED
    BY <1>1, <1>2, <1>3, <1>4, <2>3, Zenon DEF EditsInv
<1>5. CASE disk' = disk /\ log' = Append(log, [op |-> "del", job |-> j])
  <2>1. Kept(DOMAIN View, DOMAIN disk, PutJobs(log), Named(log), timerActive, added, removed)
    <3>1. Kept(DOMAIN View, DOMAIN DiskAfter(FALSE), PutJobs(LogAfter(FALSE)),
               Named(LogAfter(FALSE)), timerActive, added, removed)
      BY LoadKept
    <3>2. LogAfter(FALSE) = log /\ DiskAfter(FALSE) = disk
      BY LogShrinks
    <3> QED
      BY <3>1, <3>2, Zenon
  <2>2. Kept(DOMAIN View \ {j}, DOMAIN disk, PutJobs(log) \ {j}, Named(log) \cup {j},
             timerActive, added \ {j}, removed \cup {j})
    BY <1>1, <2>1, KeptDelLine, Zenon
  <2>3. PutJobs(log') = PutJobs(log) \ {j} /\ Named(log') = Named(log) \cup {j}
    <3> DEFINE line == [op |-> "del", job |-> j]
    <3>1. line \in Line /\ line.job = j /\ line.op # "put"
      BY DEF Line, DelLine
    <3>2. log' = Append(log, line)
      BY <1>5
    <3> HIDE DEF line
    <3> QED
      BY <3>1, <3>2, AppendLine DEF TypeInv, StoreOK
  <2> QED
    BY <1>1, <1>2, <1>3, <1>5, <2>2, <2>3, Zenon DEF EditsInv
<1> QED
  BY <1>1, <1>4, <1>5

\* While a cancelled execution of a stopped service has not ended, no job it
\* holds is changed: the log is not consumed before it ends, and until then
\* the memory does not show what the log says.
EditAtRest ==
  ~running /\ timerActive /\ log' # log /\ log'[Len(log')].op = "put"
    => log'[Len(log')].job \notin DOMAIN mem

LEMMA RescheduleKeeps ==
  ASSUME TypeInv, EditsInv, EditAtRest,
         NEW j \in Jobs, UpdateJob(j) \/ \E on \in BOOLEAN : EnableJob(j, on)
  PROVE  EditsInv'
<1>1. /\ Quiet /\ added' = added /\ removed' = removed
      /\ timerActive' = timerActive /\ j \in DOMAIN View
  BY RescheduleIs
<1>2. PICK s \in JobState :
        /\ mem' = Put(View, j, s)
        /\ \/ running /\ disk' = mem' /\ log' = LogAfter(TRUE)
           \/ /\ ~running /\ disk' = disk
              /\ log' = Append(log, [op |-> "put", job |-> j, state |-> s])
  BY RescheduleIs
<1>3. other' = NoCall
  BY <1>1 DEF EditsInv, Quiet
<1>4. DOMAIN mem' = DOMAIN View
  <2>1. s \in JobState
    BY <1>2
  <2>2. DOMAIN Put(View, j, s) = DOMAIN View
    BY <1>1, <2>1, EditIs
  <2> QED
    BY <1>2, <2>2
<1>5. CASE running /\ disk' = mem' /\ log' = LogAfter(TRUE)
  <2>1. Kept(DOMAIN View, DOMAIN DiskAfter(TRUE), PutJobs(LogAfter(TRUE)),
             Named(LogAfter(TRUE)), timerActive, added, removed)
    BY LoadKept
  <2>2. Kept(DOMAIN View, DOMAIN View, PutJobs(LogAfter(TRUE)),
             Named(LogAfter(TRUE)), timerActive, added, removed)
    BY <2>1, KeptSave, Zenon
  <2> QED
    BY <1>1, <1>3, <1>4, <1>5, <2>2, Zenon DEF EditsInv
<1>6. CASE /\ ~running /\ disk' = disk
           /\ log' = Append(log, [op |-> "put", job |-> j, state |-> s])
  <2> DEFINE line == [op |-> "put", job |-> j, state |-> s]
  <2>1. line \in Line /\ line.job = j /\ line.op = "put"
    BY <1>2 DEF Line, PutLine
  <2>2. log' = Append(log, line) /\ log \in Seq(Line)
    BY <1>6 DEF TypeInv, StoreOK
  <2> HIDE DEF line
  <2>3. log' # log /\ log'[Len(log')] = line
    <3>1. /\ Len(log) \in Nat /\ Len(Append(log, line)) = Len(log) + 1
          /\ Append(log, line)[Len(log) + 1] = line
      BY <2>1, <2>2
    <3> QED
      BY <2>2, <3>1
  <2>4. timerActive => j \notin DOMAIN mem
    BY <1>6, <2>1, <2>3 DEF EditAtRest
  <2>5. timerActive => View = mem
    BY LoadIs
  <2>6. ~timerActive
    BY <1>1, <2>4, <2>5
  <2>7. /\ Kept(DOMAIN View, DOMAIN disk, PutJobs(log), Named(log), timerActive, added, removed)
        /\ ~timerActive => removed \cap DOMAIN View = {}
    <3>1. /\ Kept(DOMAIN View, DOMAIN DiskAfter(FALSE), PutJobs(LogAfter(FALSE)),
                  Named(LogAfter(FALSE)), timerActive, added, removed)
          /\ ~timerActive => removed \cap DOMAIN View = {}
      BY LoadKept
    <3>2. LogAfter(FALSE) = log /\ DiskAfter(FALSE) = disk
      BY LogShrinks
    <3> QED
      BY <3>1, <3>2, Zenon
  <2>8. j \notin removed
    BY <1>1, <2>6, <2>7
  <2>9. Kept(DOMAIN View, DOMAIN disk, PutJobs(log) \cup {j}, Named(log) \cup {j},
             timerActive, added, removed)
    BY <2>6, <2>7, <2>8, KeptPutLine, Zenon
  <2>10. PutJobs(log') = PutJobs(log) \cup {j} /\ Named(log') = Named(log) \cup {j}
    BY <2>1, <2>2, AppendLine
  <2> QED
    BY <1>1, <1>3, <1>4, <1>6, <2>9, <2>10, Zenon DEF EditsInv
<1> QED
  BY <1>2, <1>5, <1>6

LEMMA RegisterKeeps ==
  ASSUME TypeInv, EditsInv, NEW j \in Jobs, RegisterSystemJob(j)
  PROVE  EditsInv'
<1>1. /\ Quiet /\ j \in System /\ added' = added \cup {j} /\ removed' = removed
      /\ timerActive' = timerActive
  BY RegisterIs
<1>2. PICK s \in JobState : /\ mem' = Put(View, j, s) /\ disk' = mem'
                            /\ log' = LogAfter(running)
  BY RegisterIs
<1>3. other' = NoCall
  BY <1>1 DEF EditsInv, Quiet
<1>4. DOMAIN mem' = DOMAIN View \cup {j} /\ DOMAIN disk' = DOMAIN View \cup {j}
  <2>1. s \in JobState /\ View \in JobMap
    BY <1>2, LoadIs
  <2>2. DOMAIN Put(View, j, s) = DOMAIN View \cup {j}
    BY <2>1, PutIs
  <2> QED
    BY <1>2, <2>2
<1>5. Kept(DOMAIN View, DOMAIN DiskAfter(running), PutJobs(LogAfter(running)),
           Named(LogAfter(running)), timerActive, added, removed)
  <2>1. running \in BOOLEAN
    BY DEF TypeInv, CallsOK
  <2> QED
    BY <2>1, LoadKept
<1>6. Kept(DOMAIN View \cup {j}, DOMAIN View \cup {j}, PutJobs(LogAfter(running)),
           Named(LogAfter(running)), timerActive, added \cup {j}, removed)
  BY <1>1, <1>5, KeptRegister, Zenon
<1> QED
  BY <1>1, <1>2, <1>3, <1>4, <1>6, Zenon DEF EditsInv

\* Loads alone, and start().
LEMMA ListKeeps ==
  ASSUME TypeInv, EditsInv, ListJobs \/ Start \/ \E j \in Jobs : RunJob(j)
  PROVE  EditsInv'
<1>1. /\ other' = other /\ added' = added /\ removed' = removed /\ timerActive' = timerActive
  BY ListIs, StartIs, RunJobIs DEF Quiet
<1>2. other' = NoCall
  BY <1>1 DEF EditsInv
<1>3. \A run \in BOOLEAN :
        Kept(DOMAIN View, DOMAIN DiskAfter(run), PutJobs(LogAfter(run)),
             Named(LogAfter(run)), timerActive, added, removed)
  BY LoadKept
<1>4. ASSUME NEW run \in BOOLEAN, mem' = View, disk' = DiskAfter(run), log' = LogAfter(run)
      PROVE  EditsInv'
  BY <1>1, <1>2, <1>3, <1>4, Zenon DEF EditsInv
<1>5. CASE Start
  <2>1. mem' = Rescheduled(View) /\ disk' = mem' /\ log' = LogAfter(TRUE)
    BY <1>5, StartIs
  <2>2. DOMAIN mem' = DOMAIN View /\ DOMAIN disk' = DOMAIN View
    BY <2>1 DEF Rescheduled
  <2>3. Kept(DOMAIN View, DOMAIN View, PutJobs(LogAfter(TRUE)),
             Named(LogAfter(TRUE)), timerActive, added, removed)
    BY <1>3, KeptSave, Zenon
  <2> QED
    BY <1>1, <1>2, <2>1, <2>2, <2>3, Zenon DEF EditsInv
<1>6. running \in BOOLEAN
  BY DEF TypeInv, CallsOK
<1> QED
  BY <1>4, <1>5, <1>6, ListIs, RunJobIs

LEMMA TickKeeps ==
  ASSUME TypeInv, EditsInv, NEW t \in Ticks, TickWake(t) \/ TickJobDone(t) \/ CancelledTickEnds(t)
  PROVE  EditsInv'
<1> DEFINE P == PutJobs(log)
           N == Named(log)
<1>1. /\ other = NoCall
      /\ Kept(DOMAIN mem, DOMAIN disk, P, N, timerActive, added, removed)
  BY DEF EditsInv
<1> HIDE DEF P, N
<1>2. CASE TickWake(t)
  <2>1. /\ WakesStopped(t) \/ WakesEarly(t) \/ WakesDue(t)
        /\ other' = NoCall /\ added' = added /\ removed' = removed
    BY <1>1, <1>2, TickWakeIs
  <2>2. /\ Kept(DOMAIN View, DOMAIN DiskAfter(TRUE), PutJobs(LogAfter(TRUE)),
                Named(LogAfter(TRUE)), timerActive, added, removed)
        /\ ~timerActive => PutJobs(LogAfter(TRUE)) = {}
    BY LoadKept
  <2>3. CASE WakesStopped(t)
    BY <1>1, <2>1, <2>3 DEF WakesStopped, EditsInv, P, N
  <2>4. CASE WakesEarly(t)
    <3>1. mem' = View /\ disk' = View /\ log' = LogAfter(TRUE) /\ timerActive' = FALSE
      BY <2>4 DEF WakesEarly
    <3>2. Kept(DOMAIN View, DOMAIN View, PutJobs(LogAfter(TRUE)),
               Named(LogAfter(TRUE)), timerActive, added, removed)
      BY <2>2, KeptSave, Zenon
    <3>3. Kept(DOMAIN View, DOMAIN View, PutJobs(LogAfter(TRUE)),
               Named(LogAfter(TRUE)), FALSE, added, removed)
      BY <3>2, KeptSave, Zenon
    <3> QED
      BY <2>1, <3>1, <3>3, Zenon DEF EditsInv
  <2>5. CASE WakesDue(t)
    <3>1. mem' = View /\ disk' = DiskAfter(TRUE) /\ log' = LogAfter(TRUE) /\ timerActive' = TRUE
      BY <2>5 DEF WakesDue
    <3>2. Kept(DOMAIN View, DOMAIN DiskAfter(TRUE), PutJobs(LogAfter(TRUE)),
               Named(LogAfter(TRUE)), TRUE, added, removed)
      <4>1. CASE timerActive
        BY <2>2, <4>1 DEF Kept
      <4>2. CASE ~timerActive
        BY <2>2, <4>2, KeptSave, Zenon
      <4> QED
        BY <4>1, <4>2
    <3> QED
      BY <2>1, <3>1, <3>2, Zenon DEF EditsInv
  <2> QED
    BY <2>1, <2>3, <2>4, <2>5
<1>3. CASE TickJobDone(t)
  <2> DEFINE j == tick[t].job
  <2>1. /\ mem' = Recorded(mem, j, j \in attached[t]) /\ j \in Jobs
        /\ added' = IF Kind[j] = "atDelete" THEN added \ {j} ELSE added
        /\ other' = NoCall /\ removed' = removed /\ log' = log
        /\ GoesOn(t) \/ Closes(t)
    BY <1>1, <1>3, TickDoneIs
  <2> HIDE DEF j
  <2>2. DOMAIN mem' = IF Kind[j] = "atDelete" THEN DOMAIN mem \ {j} ELSE DOMAIN mem
    <3>1. t \in Runners
      BY DEF Runners
    <3> QED
      BY <2>1, <3>1, ReleasedIs
  <2>3. /\ Kept(DOMAIN mem', DOMAIN disk, P, N, timerActive, added', removed)
        /\ Kept(DOMAIN mem', DOMAIN mem', P, N, timerActive, added', removed)
    <3>1. CASE Kind[j] = "atDelete"
      <4>1. DOMAIN mem' = DOMAIN mem \ {j} /\ added' = added \ {j}
        BY <2>1, <2>2, <3>1
      <4>2. /\ Kept(DOMAIN mem \ {j}, DOMAIN disk, P, N, timerActive, added \ {j}, removed)
            /\ Kept(DOMAIN mem \ {j}, DOMAIN mem \ {j}, P, N, timerActive, added \ {j}, removed)
        BY <1>1, KeptDelete, Zenon
      <4> QED
        BY <4>1, <4>2, Zenon
    <3>2. CASE Kind[j] # "atDelete"
      <4>1. DOMAIN mem' = DOMAIN mem /\ added' = added
        BY <2>1, <2>2, <3>2
      <4>2. Kept(DOMAIN mem, DOMAIN mem, P, N, timerActive, added, removed)
        BY <1>1, KeptSave, Zenon
      <4> QED
        BY <1>1, <4>1, <4>2, Zenon
    <3> QED
      BY <3>1, <3>2
  <2>4. CASE GoesOn(t)
    <3>1. disk' = disk /\ timerActive' = timerActive
      BY <2>4 DEF GoesOn
    <3> QED
      BY <2>1, <2>3, <3>1, Zenon DEF EditsInv, P, N
  <2>5. CASE Closes(t)
    <3>1. disk' = mem' /\ timerActive' = FALSE
      BY <2>5 DEF Closes
    <3>2. Kept(DOMAIN mem', DOMAIN mem', P, N, FALSE, added', removed)
      BY <2>3, KeptSave, Zenon
    <3> QED
      BY <2>1, <3>1, <3>2, Zenon DEF EditsInv, P, N
  <2> QED
    BY <2>1, <2>4, <2>5
<1>4. CASE CancelledTickEnds(t)
  <2>1. /\ other' = NoCall /\ UNCHANGED <<mem, disk, log, added, removed>> /\ timerActive' = FALSE
    BY <1>1, <1>4, CancelledIs DEF Quiet
  <2>2. Kept(DOMAIN mem, DOMAIN disk, P, N, FALSE, added, removed)
    BY <1>1, KeptSave, Zenon
  <2> QED
    BY <2>1, <2>2 DEF EditsInv, P, N
<1> QED
  BY <1>2, <1>3, <1>4

LEMMA RestKeeps ==
  ASSUME TypeInv, EditsInv, "other" \notin Ops,
         \/ Stop \/ RunJobDone \/ Crash \/ CrashInMerge \/ OtherAppend
         \/ (\E j \in Jobs : OtherLoad(j)) \/ Clock \/ UNCHANGED vars
  PROVE  EditsInv'
<1> DEFINE P == PutJobs(log)
           N == Named(log)
<1>1. /\ other = NoCall /\ P \subseteq N
      /\ Kept(DOMAIN mem, DOMAIN disk, P, N, timerActive, added, removed)
  BY LogShrinks DEF EditsInv
<1> HIDE DEF P, N
<1>2. CASE Stop \/ Clock \/ UNCHANGED vars
  <2>1. /\ other' = NoCall /\ UNCHANGED <<mem, disk, log, added, removed, timerActive>>
    BY <1>1, <1>2, StopIs, PassIs DEF Quiet
  <2> QED
    BY <1>1, <2>1 DEF EditsInv, P, N
<1>3. CASE RunJobDone
  <2>1. /\ other' = NoCall /\ removed' = removed /\ log' = log /\ timerActive' = timerActive
    BY <1>1, <1>3, RunDoneIs
  <2>2. PICK j \in Jobs :
          /\ added' = IF Kind[j] = "atDelete" THEN added \ {j} ELSE added
          /\ disk' = mem'
          /\ DOMAIN mem' = IF Kind[j] = "atDelete" THEN DOMAIN mem \ {j} ELSE DOMAIN mem
    BY <1>3, RunDoneIs
  <2>3. Kept(DOMAIN mem', DOMAIN mem', P, N, timerActive, added', removed)
    <3>1. CASE Kind[j] = "atDelete"
      <4>1. DOMAIN mem' = DOMAIN mem \ {j} /\ added' = added \ {j}
        BY <2>2, <3>1
      <4>2. Kept(DOMAIN mem \ {j}, DOMAIN mem \ {j}, P, N, timerActive, added \ {j}, removed)
        BY <1>1, KeptDelete, Zenon
      <4> QED
        BY <4>1, <4>2, Zenon
    <3>2. CASE Kind[j] # "atDelete"
      <4>1. DOMAIN mem' = DOMAIN mem /\ added' = added
        BY <2>2, <3>2
      <4>2. Kept(DOMAIN mem, DOMAIN mem, P, N, timerActive, added, removed)
        BY <1>1, KeptSave, Zenon
      <4> QED
        BY <4>1, <4>2, Zenon
    <3> QED
      BY <3>1, <3>2
  <2> QED
    BY <2>1, <2>2, <2>3, Zenon DEF EditsInv, P, N
<1>4. CASE Crash \/ CrashInMerge
  <2>1. /\ mem' = disk /\ disk' = disk /\ timerActive' = FALSE /\ other' = NoCall
        /\ \/ log' = log /\ added' = added /\ removed' = removed
           \/ /\ log' = <<>> /\ added' = (added \cup removed) \cap DOMAIN disk
              /\ removed' = removed \ DOMAIN disk
    BY <1>1, <1>4, CrashIs DEF Lost
  <2>2. /\ Kept(DOMAIN disk, DOMAIN disk, P, N, FALSE, added, removed)
        /\ Kept(DOMAIN disk, DOMAIN disk, {}, {}, FALSE, (added \cup removed) \cap DOMAIN disk,
                removed \ DOMAIN disk)
    BY <1>1, KeptCrash, Zenon
  <2>3. CASE log' = log /\ added' = added /\ removed' = removed
    BY <2>1, <2>2, <2>3, Zenon DEF EditsInv, P, N
  <2>4. CASE /\ log' = <<>> /\ added' = (added \cup removed) \cap DOMAIN disk
             /\ removed' = removed \ DOMAIN disk
    <3>1. PutJobs(log') = {} /\ Named(log') = {}
      BY <2>4, NoLines
    <3> QED
      BY <2>1, <2>2, <2>4, <3>1, Zenon DEF EditsInv
  <2> QED
    BY <2>1, <2>3, <2>4
<1>5. ~OtherAppend /\ ~\E j \in Jobs : OtherLoad(j)
  BY <1>1 DEF OtherAppend, OtherLoad, Call
<1> QED
  BY <1>2, <1>3, <1>4, <1>5

LEMMA EditsInit == Init => EditsInv
<1> SUFFICES ASSUME Init PROVE EditsInv
  OBVIOUS
<1>1. /\ DOMAIN mem = Stored /\ DOMAIN disk = Stored /\ log = <<>> /\ timerActive = FALSE
      /\ added = Stored /\ removed = {} /\ other = NoCall
  BY DEF Init
<1> QED
  BY <1>1, NoLines DEF EditsInv, Kept

LEMMA EditsStep ==
  ASSUME TypeInv, EditsInv, EditAtRest, "other" \notin Ops, [Next]_vars
  PROVE  EditsInv'
<1>1. ASSUME NEW t \in Ticks, TickWake(t) \/ TickJobDone(t) \/ CancelledTickEnds(t)
      PROVE  EditsInv'
  BY <1>1, TickKeeps
<1>2. ASSUME NEW j \in Jobs,
             \/ AddJob(j) \/ RemoveJob(j) \/ UpdateJob(j) \/ RegisterSystemJob(j)
             \/ RunJob(j) \/ OtherAdd(j) \/ OtherLoad(j)
             \/ \E on \in BOOLEAN : EnableJob(j, on)
      PROVE  EditsInv'
  BY <1>2, AddKeeps, RemoveKeeps, RescheduleKeeps, RegisterKeeps, ListKeeps, RestKeeps
<1>3. ListJobs \/ Start => EditsInv'
  BY ListKeeps
<1>4. ASSUME \/ Stop \/ RunJobDone \/ Crash \/ CrashInMerge \/ OtherAppend
             \/ Clock \/ Finished \/ UNCHANGED vars
      PROVE  EditsInv'
  BY <1>4, RestKeeps DEF Finished
<1> QED
  BY <1>1, <1>2, <1>3, <1>4 DEF Next

LEMMA EditsInvKeeps == TypeInv /\ EditsInv => EditsKept
<1> SUFFICES ASSUME TypeInv, EditsInv PROVE EditsKept
  OBVIOUS
<1>1. DOMAIN Merged = PutJobs(log) \cup (DOMAIN disk \ Named(log))
  BY MergedIs
<1> QED
  BY <1>1 DEF EditsInv, Kept, EditsKept

\* An acknowledged job stays in the file or in the log and a removed one does
\* not come back, whatever the service and its timer do, crashes between any
\* two steps and in a merge included, and whatever other instances add;
\* provided a stopped service is not told to change a job that it holds for
\* an execution whose cancellation has not come through, and no other instance
\* changes or deletes jobs.
THEOREM EditsNotLost ==
  ASSUME "other" \notin Ops
  PROVE  Spec /\ [][EditAtRest]_vars => []EditsKept
<1>1. TypeInv /\ EditsInv /\ [Next]_vars /\ [EditAtRest]_vars => EditsInv'
  <2> SUFFICES ASSUME TypeInv, EditsInv, [Next]_vars, [EditAtRest]_vars PROVE EditsInv'
    OBVIOUS
  <2>1. UNCHANGED vars => EditAtRest
    BY DEF vars, store, EditAtRest
  <2> QED
    BY <2>1, EditsStep
<1>2. TypeInv /\ EditsInv => EditsKept
  BY EditsInvKeeps
<1> QED
  BY <1>1, <1>2, TypeInit, TypeStep, EditsInit, PTL DEF Spec

\* Without stop() and run_job() the timer runs jobs only while the service runs.
ServedInv == manual = NoRun /\ (timerActive => running)

LEMMA ServedStep ==
  ASSUME TypeInv, ServedInv, {"stop", "run"} \cap Ops = {}, [Next]_vars
  PROVE  ServedInv'
<1>1. manual = NoRun /\ (timerActive => running)
  BY DEF ServedInv
<1>2. ASSUME NEW t \in Ticks, TickWake(t) \/ TickJobDone(t) \/ CancelledTickEnds(t)
      PROVE  ServedInv'
  <2>1. CASE TickWake(t)
    <3>1. /\ WakesStopped(t) \/ WakesEarly(t) \/ WakesDue(t)
          /\ running' = running /\ manual' = manual
      BY <2>1, TickWakeIs
    <3>2. timerActive' => running
      BY <1>1, <3>1 DEF WakesStopped, WakesEarly, WakesDue
    <3> QED
      BY <1>1, <3>1, <3>2 DEF ServedInv
  <2>2. CASE TickJobDone(t)
    <3>1. (GoesOn(t) \/ Closes(t)) /\ running' = running /\ manual' = manual
      BY <2>2, TickDoneIs
    <3>2. timerActive' => running
      BY <1>1, <3>1 DEF GoesOn, Closes
    <3> QED
      BY <1>1, <3>1, <3>2 DEF ServedInv
  <2>3. CASE CancelledTickEnds(t)
    <3>1. timerActive' = FALSE /\ manual' = manual
      BY <2>3, CancelledIs DEF Quiet
    <3> QED
      BY <1>1, <3>1 DEF ServedInv
  <2> QED
    BY <1>2, <2>1, <2>2, <2>3
<1>3. ASSUME manual' = manual, running' = running, timerActive' = timerActive
      PROVE  ServedInv'
  BY <1>1, <1>3 DEF ServedInv
<1>4. ASSUME NEW j \in Jobs,
             \/ AddJob(j) \/ RemoveJob(j) \/ UpdateJob(j) \/ RegisterSystemJob(j)
             \/ OtherAdd(j) \/ \E on \in BOOLEAN : EnableJob(j, on)
      PROVE  ServedInv'
  <2>1. Quiet /\ running' = running /\ timerActive' = timerActive
    BY <1>4, AddIs, RemoveIs, RescheduleIs, RegisterIs
  <2> QED
    BY <1>3, <2>1 DEF Quiet
<1>5. ASSUME OtherAppend \/ \E j \in Jobs : OtherLoad(j) PROVE ServedInv'
  BY <1>3, <1>5 DEF OtherAppend, OtherLoad, timers
<1>6. ASSUME ListJobs \/ Clock \/ Finished \/ UNCHANGED vars PROVE ServedInv'
  <2>1. ASSUME ListJobs PROVE ServedInv'
    BY <1>3, <2>1, ListIs DEF Quiet
  <2>2. ASSUME Clock \/ UNCHANGED vars PROVE ServedInv'
    BY <1>3, <2>2, PassIs
  <2> QED
    BY <1>6, <2>1, <2>2 DEF Finished
<1>7. ASSUME Start PROVE ServedInv'
  BY <1>1, <1>7, StartIs DEF Quiet, ServedInv
<1>8. ASSUME Crash \/ CrashInMerge PROVE ServedInv'
  BY <1>8, CrashIs DEF Lost, ServedInv
<1>9. ~Stop /\ ~RunJobDone /\ ~\E j \in Jobs : RunJob(j)
  BY <1>1 DEF Stop, RunJob, RunJobDone, Call
<1> QED
  BY <1>2, <1>4, <1>5, <1>6, <1>7, <1>8, <1>9 DEF Next

\* In an instance that is never stopped and runs no job by hand, the action
\* hypothesis holds: the edits are kept in every behaviour.
THEOREM EditsKeptServing ==
  ASSUME {"stop", "run", "other"} \cap Ops = {}
  PROVE  Spec => []EditsKept
<1>1. "other" \notin Ops /\ {"stop", "run"} \cap Ops = {}
  OBVIOUS
<1>2. Init => ServedInv
  BY DEF Init, ServedInv
<1>3. TypeInv /\ ServedInv /\ [Next]_vars => ServedInv'
  BY <1>1, ServedStep
<1>4. TypeInv /\ EditsInv /\ ServedInv /\ [Next]_vars => EditsInv'
  <2> SUFFICES ASSUME TypeInv, EditsInv, ServedInv, [Next]_vars PROVE EditsInv'
    OBVIOUS
  <2>1. EditAtRest
    BY DEF ServedInv, EditAtRest
  <2> QED
    BY <1>1, <2>1, EditsStep
<1>5. TypeInv /\ EditsInv => EditsKept
  BY EditsInvKeeps
<1> QED
  BY <1>2, <1>3, <1>4, <1>5, TypeInit, TypeStep, EditsInit, PTL DEF Spec

-----------------------------------------------------------------------------
(***************************************************************************)
(* Timer tasks                                                             *)
(***************************************************************************)

Live(t) == tick[t].pc = "executing" /\ t \notin cancelled

\* No timer task but the current one sleeps, or executes without having been
\* cancelled; there is a current one exactly while the service runs.
TickInv ==
  /\ manual = NoRun
  /\ \A t \in Ticks : tick[t].pc = "sleeping" \/ Live(t) => t = timer
  /\ timer # None <=> running
  /\ timer # None => timer \notin cancelled /\ tick[timer].pc # "none"

\* Arming leaves one sleeping task, the current one, and nothing uncancelled.
LEMMA ArmTicks ==
  ASSUME TypeInv, NEW jobs \in JobMap, NEW ticks, TicksOK(ticks, cancelled),
         \A t \in Ticks : ticks[t].pc = "sleeping" \/ (ticks[t].pc = "executing" /\ t \notin cancelled)
                          => t = timer,
         Arm(TRUE, jobs, ticks)
  PROVE  /\ \A t \in Ticks : tick'[t].pc = "sleeping" => t = timer'
         /\ \A t \in Ticks : ~Live(t)'
         /\ timer' \in Ticks /\ timer' # None /\ timer' \notin cancelled'
         /\ tick'[timer'].pc = "sleeping" /\ tick'[timer'].wake = Wake(jobs)
         /\ \A t \in Ticks : /\ tick'[t].pc = "executing" <=> ticks[t].pc = "executing"
                             /\ tick'[t].pc = "executing" => tick'[t] = ticks[t]
<1>1. now \in Nat /\ timer \in Ticks \cup {None} /\ None \notin Ticks
  BY Constants DEF TypeInv, CallsOK, TimersOK
<1>2. /\ cancelled' = IF timer # None /\ ticks[timer].pc = "executing"
                      THEN cancelled \cup {timer} ELSE cancelled
      /\ \A t \in Ticks :
           /\ ticks[t].pc = "executing" => tick'[t] = ticks[t] /\ t # timer'
           /\ t # timer /\ t # timer' => tick'[t] = ticks[t]
           /\ t = timer /\ t # timer' => tick'[t].pc # "sleeping"
           /\ tick'[t].pc = "executing" => tick'[t] = ticks[t]
      /\ timer' \in Ticks /\ timer' \notin cancelled'
      /\ tick'[timer'].pc = "sleeping" /\ tick'[timer'].wake = Wake(jobs)
  <2>1. /\ cancelled' = IF timer # None /\ ticks[timer].pc = "executing"
                        THEN cancelled \cup {timer} ELSE cancelled
        /\ \A t \in Ticks :
             /\ ticks[t].pc = "executing" => tick'[t] = ticks[t] /\ (TRUE => t # timer')
             /\ t # timer /\ t # timer' => tick'[t] = ticks[t]
             /\ t = timer /\ (t # timer' \/ ~TRUE) => tick'[t].pc # "sleeping"
             /\ tick'[t].pc = "executing" => tick'[t] = ticks[t]
        /\ TRUE => /\ timer' \in Ticks /\ timer' \notin cancelled'
                   /\ tick'[timer'].pc = "sleeping" /\ tick'[timer'].wake = Wake(jobs)
    <3>1. TRUE \in BOOLEAN
      OBVIOUS
    <3> QED
      BY <1>1, <3>1, ArmIs, Zenon
  <2> QED
    BY <2>1
<1>3. \A t \in Ticks : tick'[t].pc = "sleeping" => t = timer'
  BY <1>2
<1>4. \A t \in Ticks : ~Live(t)'
  <2> SUFFICES ASSUME NEW t \in Ticks, tick'[t].pc = "executing", t \notin cancelled'
               PROVE  FALSE
    BY DEF Live
  <2>1. ticks[t].pc = "executing"
    BY <1>2
  <2>2. t \notin cancelled
    BY <1>2
  <2>3. t = timer /\ timer # None
    BY <1>1, <2>1, <2>2
  <2> QED
    BY <1>2, <2>1, <2>3
<1>5. \A t \in Ticks : /\ tick'[t].pc = "executing" <=> ticks[t].pc = "executing"
                      /\ tick'[t].pc = "executing" => tick'[t] = ticks[t]
  BY <1>2
<1> QED
  BY <1>1, <1>2, <1>3, <1>4, <1>5

LEMMA TickInit == Init => TickInv
<1> SUFFICES ASSUME Init PROVE TickInv
  OBVIOUS
<1>1. \A t \in Ticks : tick[t].pc = "none"
  BY DEF Init, Idle
<1> QED
  BY <1>1 DEF Init, TickInv, Live

\* The steps that arm the timer of a running service, and with what.
Arms(jobs, ticks) ==
  /\ jobs \in JobMap /\ TicksOK(ticks, cancelled) /\ Arm(TRUE, jobs, ticks)
  /\ \A t \in Ticks : ticks[t] = tick[t] \/ (t = timer /\ ticks[t] = Idle)
  /\ mem' = jobs /\ disk' = jobs
  /\ manual' = manual /\ running' = TRUE /\ now' = now

LEMMA ArmsTicks ==
  ASSUME TypeInv, TickInv, NEW jobs, NEW ticks, Arms(jobs, ticks)
  PROVE  /\ TickInv' /\ \A t \in Ticks : ~Live(t)'
         /\ tick'[timer'].pc = "sleeping" /\ tick'[timer'].wake = Wake(jobs)
         /\ \A t \in Ticks : /\ tick'[t].pc = "executing" <=> ticks[t].pc = "executing"
                             /\ tick'[t].pc = "executing" => tick'[t] = ticks[t]
<1>1. Idle.pc = "none"
  BY DEF Idle
<1>2. \A t \in Ticks : ticks[t].pc = "sleeping" \/ (ticks[t].pc = "executing" /\ t \notin cancelled)
                      => t = timer
  BY <1>1 DEF Arms, TickInv, Live
<1>3. /\ \A t \in Ticks : tick'[t].pc = "sleeping" => t = timer'
      /\ \A t \in Ticks : ~Live(t)'
      /\ timer' \in Ticks /\ timer' # None /\ timer' \notin cancelled'
      /\ tick'[timer'].pc = "sleeping" /\ tick'[timer'].wake = Wake(jobs)
      /\ \A t \in Ticks : /\ tick'[t].pc = "executing" <=> ticks[t].pc = "executing"
                          /\ tick'[t].pc = "executing" => tick'[t] = ticks[t]
  <2>1. jobs \in JobMap /\ TicksOK(ticks, cancelled) /\ Arm(TRUE, jobs, ticks)
    BY DEF Arms
  <2> QED
    BY <1>2, <2>1, ArmTicks
<1>4. manual' = NoRun /\ running' = TRUE
  BY DEF Arms, TickInv
<1>5. TickInv'
  <2>1. \A t \in Ticks : (tick'[t].pc = "sleeping" \/ Live(t)') => t = timer'
    BY <1>3
  <2>2. timer' # None /\ timer' \notin cancelled' /\ tick'[timer'].pc # "none"
    BY <1>3
  <2> QED
    BY <1>4, <2>1, <2>2 DEF TickInv
<1> QED
  BY <1>3, <1>5

\* The steps of a service in which run_job() is not called, sorted by what
\* they do to the timer tasks.
Armed ==
  \E jobs, ticks : Arms(jobs, ticks)
Same ==
  /\ UNCHANGED <<running, manual, timer, timerActive, cancelled>>
  /\ \A t \in Ticks : tick'[t] = tick[t]

LEMMA RunningEdits ==
  ASSUME TypeInv, TickInv, NEW j \in Jobs,
         \/ AddJob(j) \/ OtherAdd(j) \/ RemoveJob(j) \/ UpdateJob(j)
         \/ RegisterSystemJob(j) \/ \E on \in BOOLEAN : EnableJob(j, on)
  PROVE  /\ timerActive' = timerActive /\ running' = running
         /\ running /\ ~OtherAdd(j) => Arms(mem', tick)
         /\ ~running \/ OtherAdd(j) => Same
<1>1. /\ running \in BOOLEAN /\ TicksOK(tick, cancelled) /\ tick \in [Ticks -> Tick]
      /\ timer \in Ticks \cup {None} /\ now \in Nat
  BY Constants DEF TypeInv, CallsOK, TimersOK, TicksOK
<1>2. /\ mem' \in JobMap /\ Quiet /\ running' = running /\ timerActive' = timerActive
      /\ TicksOK(tick', cancelled')
  <2>1. TypeInv' /\ Quiet /\ running' = running /\ timerActive' = timerActive
    BY AddIs, RemoveIs, RescheduleIs, RegisterIs
  <2> QED
    BY <2>1 DEF TypeInv, StoreOK, TimersOK
<1>3. \/ Arm(TRUE, mem', tick) /\ running /\ disk' = mem'
      \/ UNCHANGED <<timer, tick, cancelled>> /\ (~running \/ OtherAdd(j))
      \/ Arm(FALSE, mem', tick) /\ ~running
  <2>1. CASE AddJob(j) \/ OtherAdd(j)
    BY <2>1, AddIs
  <2>2. CASE RemoveJob(j)
    BY <2>2, RemoveIs
  <2>3. CASE UpdateJob(j) \/ \E on \in BOOLEAN : EnableJob(j, on)
    BY <2>3, RescheduleIs
  <2>4. CASE RegisterSystemJob(j)
    BY <1>1, <2>4, RegisterIs
  <2> QED
    BY <2>1, <2>2, <2>3, <2>4
<1>4. CASE Arm(TRUE, mem', tick) /\ running /\ disk' = mem'
  <2>1. Arms(mem', tick)
    BY <1>1, <1>2, <1>4 DEF Arms, Quiet
  <2>2. OtherAdd(j) => Same
    BY <1>2 DEF OtherAdd, Same, timers
  <2> QED
    BY <1>2, <1>4, <2>1, <2>2
<1>5. CASE UNCHANGED <<timer, tick, cancelled>> /\ (~running \/ OtherAdd(j))
  BY <1>2, <1>5 DEF Same, Quiet
<1>6. CASE Arm(FALSE, mem', tick) /\ ~running
  <2>1. timer = None
    BY <1>6 DEF TickInv
  <2>2. /\ timer' = timer /\ cancelled' = cancelled
        /\ \A t \in Ticks : t # timer /\ t # timer' => tick'[t] = tick[t]
    BY ZenonT(40), <1>1, <1>2, <1>6, <2>1, ArmIs
  <2> QED
    BY <1>2, <1>6, <2>1, <2>2, Constants DEF Same, Quiet
<1> QED
  BY <1>3, <1>4, <1>5, <1>6

LEMMA StartArms ==
  ASSUME TypeInv, TickInv, Start
  PROVE  Arms(mem', tick) /\ mem' = Rescheduled(View) /\ timerActive' = timerActive
<1>1. View \in JobMap /\ now \in Nat /\ TicksOK(tick, cancelled)
  BY LoadIs, Constants DEF TypeInv, CallsOK, TimersOK
<1>2. Rescheduled(View) \in JobMap
  BY <1>1, RescheduledIs
<1>3. /\ Quiet /\ running' = TRUE /\ timerActive' = timerActive
      /\ mem' = Rescheduled(View) /\ disk' = mem' /\ Arm(TRUE, Rescheduled(View), tick)
  BY StartIs, Zenon
<1> QED
  BY <1>1, <1>2, <1>3 DEF Arms, Quiet

\* Only the current task of a running service wakes or comes to the end of a job.
LEMMA WakeArms ==
  ASSUME TypeInv, TickInv, NEW t \in Ticks, TickWake(t)
  PROVE  /\ t = timer /\ running /\ tick[t].pc = "sleeping" /\ t \notin cancelled
         /\ running' = running /\ manual' = NoRun
         /\ \/ WakesEarly(t) /\ Arms(View, [tick EXCEPT ![t] = Idle])
            \/ WakesDue(t)
<1>1. /\ tick[t].pc = "sleeping" /\ t \notin cancelled /\ manual' = manual /\ now' = now
      /\ running' = running
      /\ WakesStopped(t) \/ WakesEarly(t) \/ WakesDue(t)
  BY TickWakeIs
<1>2. t = timer /\ timer # None /\ running /\ manual = NoRun
  BY <1>1, Constants DEF TickInv
<1>3. ~WakesStopped(t)
  BY <1>2 DEF WakesStopped
<1>4. CASE WakesEarly(t)
  <2>1. /\ mem' = View /\ disk' = View /\ Arm(TRUE, View, [tick EXCEPT ![t] = Idle])
    BY <1>4 DEF WakesEarly
  <2>2. View \in JobMap /\ TicksOK(tick, cancelled) /\ tick \in [Ticks -> Tick]
    BY LoadIs DEF TypeInv, TimersOK, TicksOK
  <2>3. TicksOK([tick EXCEPT ![t] = Idle], cancelled)
    BY <1>1, <2>2, IdleIs
  <2>4. \A u \in Ticks :
          \/ [tick EXCEPT ![t] = Idle][u] = tick[u]
          \/ u = timer /\ [tick EXCEPT ![t] = Idle][u] = Idle
    BY <1>2, <2>2
  <2>5. Arms(View, [tick EXCEPT ![t] = Idle])
    BY <1>1, <1>2, <2>1, <2>2, <2>3, <2>4 DEF Arms
  <2> QED
    BY <1>1, <1>2, <1>4, <2>5
<1> QED
  BY <1>1, <1>2, <1>3, <1>4

LEMMA DoneArms ==
  ASSUME TypeInv, TickInv, NEW t \in Ticks, TickJobDone(t)
  PROVE  /\ t = timer /\ running /\ Live(t) /\ running' = running /\ manual' = NoRun
         /\ GoesOn(t) \/ (Closes(t) /\ Arms(mem', [tick EXCEPT ![t] = Idle]))
<1>1. /\ TypeInv' /\ tick[t].pc = "executing" /\ t \notin cancelled /\ manual' = manual
      /\ running' = running /\ now' = now
      /\ GoesOn(t) \/ Closes(t)
  BY TickDoneIs
<1>2. t = timer /\ timer # None /\ running /\ manual = NoRun /\ Live(t)
  BY <1>1, Constants DEF TickInv, Live
<1>3. CASE Closes(t)
  <2>1. disk' = mem' /\ Arm(TRUE, mem', [tick EXCEPT ![t] = Idle])
    <3>1. running = TRUE
      BY <1>2 DEF TypeInv, CallsOK
    <3> QED
      BY <1>3, <3>1 DEF Closes
  <2>2. mem' \in JobMap /\ TicksOK(tick, cancelled) /\ tick \in [Ticks -> Tick]
    BY <1>1 DEF TypeInv, StoreOK, TimersOK, TicksOK
  <2>3. TicksOK([tick EXCEPT ![t] = Idle], cancelled)
    BY <1>1, <2>2, IdleIs
  <2>4. \A u \in Ticks :
          \/ [tick EXCEPT ![t] = Idle][u] = tick[u]
          \/ u = timer /\ [tick EXCEPT ![t] = Idle][u] = Idle
    BY <1>2, <2>2
  <2>5. running' = TRUE
    BY <1>1, <1>2 DEF TypeInv, CallsOK
  <2>6. Arms(mem', [tick EXCEPT ![t] = Idle])
    BY <1>1, <2>1, <2>2, <2>3, <2>4, <2>5 DEF Arms
  <2> QED
    BY <1>1, <1>2, <1>3, <2>6
<1> QED
  BY <1>1, <1>2, <1>3

LEMMA SameTicks ==
  ASSUME TypeInv,
         \/ ListJobs \/ OtherAppend \/ Clock \/ UNCHANGED vars
         \/ \E j \in Jobs : OtherLoad(j)
  PROVE  Same
<1>1. CASE ListJobs
  BY <1>1, ListIs DEF Same, Quiet
<1>2. CASE OtherAppend
  BY <1>2 DEF OtherAppend, Same, timers
<1>3. CASE Clock \/ UNCHANGED vars
  BY <1>3, PassIs DEF Same
<1>4. CASE \E j \in Jobs : OtherLoad(j)
  BY <1>4 DEF OtherLoad, Same, timers
<1> QED
  BY <1>1, <1>2, <1>3, <1>4

LEMMA SameKeeps ==
  ASSUME TypeInv, TickInv, Same PROVE TickInv' /\ \A t \in Ticks : Live(t)' <=> Live(t)
<1>1. /\ UNCHANGED <<running, manual, timer, cancelled>>
      /\ \A t \in Ticks : tick'[t] = tick[t]
      /\ timer = None \/ timer \in Ticks
  BY DEF Same, TypeInv, TimersOK
<1>2. \A t \in Ticks : Live(t)' <=> Live(t)
  BY <1>1 DEF Live
<1> QED
  BY <1>1, <1>2 DEF TickInv

LEMMA DueTicks ==
  ASSUME TypeInv, TickInv, NEW t \in Ticks, t = timer, t \notin cancelled, running' = running,
         manual' = NoRun, running, UNCHANGED <<timer, cancelled>>, tick'[t].pc = "executing",
         \A u \in Ticks : u # t => tick'[u] = tick[u]
  PROVE  TickInv'
BY DEF TickInv, Live

LEMMA CancelledTicks ==
  ASSUME TypeInv, TickInv, NEW t \in Ticks, CancelledTickEnds(t)
  PROVE  /\ TickInv' /\ t # timer /\ timer' = timer
         /\ \A u \in Ticks : Live(u)' <=> Live(u)
<1>1. /\ Quiet /\ running' = running /\ t \in cancelled /\ cancelled' = cancelled \ {t}
      /\ tick'[t] = Idle /\ \A u \in Ticks : u # t => tick'[u] = tick[u]
      /\ timer' = IF timer = t THEN None ELSE timer
  BY CancelledIs
<1>2. t # timer /\ timer' = timer /\ Idle.pc = "none"
  BY <1>1, Constants DEF TickInv, Idle
<1>3. timer = None \/ timer \in Ticks
  BY DEF TypeInv, TimersOK
<1>4. \A u \in Ticks : Live(u)' <=> Live(u)
  BY <1>1, <1>2 DEF Live
<1>5. \A u \in Ticks : tick'[u].pc = "sleeping" => tick[u].pc = "sleeping"
  BY <1>1, <1>2
<1>6. manual' = NoRun
  BY <1>1 DEF Quiet, TickInv
<1>7. timer # None => timer \notin cancelled' /\ tick'[timer].pc # "none"
  BY <1>1, <1>2, <1>3 DEF TickInv
<1> QED
  BY <1>1, <1>2, <1>4, <1>5, <1>6, <1>7 DEF TickInv

LEMMA StopTicks ==
  ASSUME TypeInv, TickInv, Stop
  PROVE  /\ TickInv' /\ \A t \in Ticks : ~Live(t)'
         /\ \A t \in Ticks : tick'[t].pc = "executing" <=> tick[t].pc = "executing"
<1>1. /\ Quiet /\ running' = FALSE /\ timer' = None
      /\ cancelled' = IF timer # None /\ tick[timer].pc = "executing"
                      THEN cancelled \cup {timer} ELSE cancelled
      /\ \A t \in Ticks :
           \/ tick'[t] = tick[t] /\ (t = timer => tick[t].pc = "executing")
           \/ t = timer /\ tick'[t] = Idle /\ tick[t].pc # "executing"
  BY StopIs
<1>2. Idle.pc = "none" /\ None \notin Ticks
  BY Constants DEF Idle
<1>3. \A t \in Ticks : tick'[t].pc # "sleeping"
  BY <1>1, <1>2 DEF TickInv
<1>4. \A t \in Ticks : ~Live(t)'
  <2> SUFFICES ASSUME NEW t \in Ticks, tick'[t].pc = "executing", t \notin cancelled' PROVE FALSE
    BY DEF Live
  <2>1. tick'[t] = tick[t] /\ t \notin cancelled
    BY <1>1, <1>2
  <2>2. t = timer /\ timer # None
    BY <1>2, <2>1 DEF TickInv, Live
  <2> QED
    BY <1>1, <2>1, <2>2
<1>5. \A t \in Ticks : tick'[t].pc = "executing" <=> tick[t].pc = "executing"
  BY <1>1, <1>2
<1> QED
  BY <1>1, <1>3, <1>4, <1>5 DEF TickInv, Quiet

LEMMA LostTicks ==
  ASSUME TypeInv, Crash \/ CrashInMerge
  PROVE  TickInv' /\ \A t \in Ticks : ~Live(t)' /\ tick'[t].pc = "none"
<1>1. Lost
  BY CrashIs
<1>2. \A t \in Ticks : tick'[t].pc = "none"
  BY <1>1 DEF Lost, Idle
<1> QED
  BY <1>1, <1>2 DEF Lost, TickInv, Live

LEMMA TickStep ==
  ASSUME TypeInv, TickInv, "run" \notin Ops, [Next]_vars PROVE TickInv'
<1>1. ASSUME NEW t \in Ticks, TickWake(t) PROVE TickInv'
  <2>1. /\ t = timer /\ running /\ t \notin cancelled /\ running' = running /\ manual' = NoRun
        /\ \/ WakesEarly(t) /\ Arms(View, [tick EXCEPT ![t] = Idle])
           \/ WakesDue(t)
    BY <1>1, WakeArms
  <2>2. CASE Arms(View, [tick EXCEPT ![t] = Idle])
    BY <2>2, ArmsTicks
  <2>3. CASE WakesDue(t)
    BY <2>1, <2>3, DueTicks DEF WakesDue
  <2> QED
    BY <2>1, <2>2, <2>3
<1>2. ASSUME NEW t \in Ticks, TickJobDone(t) PROVE TickInv'
  <2>1. /\ t = timer /\ running /\ Live(t) /\ running' = running /\ manual' = NoRun
        /\ GoesOn(t) \/ (Closes(t) /\ Arms(mem', [tick EXCEPT ![t] = Idle]))
    BY <1>2, DoneArms
  <2>2. CASE Arms(mem', [tick EXCEPT ![t] = Idle])
    BY <2>2, ArmsTicks
  <2>3. CASE GoesOn(t)
    BY <2>1, <2>3, DueTicks DEF GoesOn, Live
  <2> QED
    BY <2>1, <2>2, <2>3
<1>3. ASSUME NEW t \in Ticks, CancelledTickEnds(t) PROVE TickInv'
  BY <1>3, CancelledTicks
<1>4. ASSUME NEW j \in Jobs,
             \/ AddJob(j) \/ OtherAdd(j) \/ RemoveJob(j) \/ UpdateJob(j)
             \/ RegisterSystemJob(j) \/ \E on \in BOOLEAN : EnableJob(j, on)
      PROVE  TickInv'
  <2>1. Arms(mem', tick) \/ Same
    BY <1>4, RunningEdits DEF TypeInv, CallsOK
  <2> QED
    BY <2>1, ArmsTicks, SameKeeps
<1>5. ASSUME Start PROVE TickInv'
  BY <1>5, StartArms, ArmsTicks
<1>6. ASSUME \/ ListJobs \/ OtherAppend \/ Clock \/ Finished \/ UNCHANGED vars
             \/ \E j \in Jobs : OtherLoad(j)
      PROVE  TickInv'
  BY <1>6, SameTicks, SameKeeps DEF Finished
<1>7. Stop => TickInv'
  BY StopTicks
<1>8. Crash \/ CrashInMerge => TickInv'
  BY LostTicks
<1>9. ~RunJobDone /\ ~\E j \in Jobs : RunJob(j)
  BY DEF TickInv, RunJob, RunJobDone, Call
<1> QED
  BY <1>1, <1>2, <1>3, <1>4, <1>5, <1>6, <1>7, <1>8, <1>9 DEF Next

-----------------------------------------------------------------------------
(***************************************************************************)
(* The timer covers the next job                                           *)
(***************************************************************************)

Covers(jobs) ==
  \A j \in DOMAIN jobs :
    jobs[j].on /\ jobs[j].next # 0 =>
      tick[timer].wake <= jobs[j].next \/ tick[timer].wake <= now

\* The log of a running service has no job it does not know, and a sleeping
\* timer covers the jobs in memory and those a reload would put there.
CoverInv ==
  /\ running \/ timerActive => Puts(log) = {}
  /\ running /\ tick[timer].pc = "sleeping" => Covers(mem) /\ Covers(disk)

\* A stopped service is not changed while an execution it cancelled goes on.
QuietAtRest == ~running /\ timerActive => log' = log

LEMMA ArmsCovers ==
  ASSUME TypeInv, TickInv, NEW jobs, NEW ticks, Arms(jobs, ticks),
         Puts(log') = {}
  PROVE  CoverInv'
<1>1. jobs \in JobMap /\ mem' = jobs /\ disk' = jobs /\ now' = now /\ now \in Nat
  BY Constants DEF Arms, TypeInv, CallsOK
<1>2. tick'[timer'].wake = Wake(jobs)
  BY ArmsTicks
<1>3. \A j \in DOMAIN jobs : jobs[j].on /\ jobs[j].next # 0 =>
        Wake(jobs) <= jobs[j].next \/ Wake(jobs) <= now
  BY <1>1, WakeIs
<1>4. Covers(mem)' /\ Covers(disk)'
  BY <1>1, <1>2, <1>3 DEF Covers
<1> QED
  BY <1>4 DEF CoverInv

\* A running service that knows of no new job has none in what it loads.
LEMMA LoadPuts ==
  ASSUME TypeInv, NEW run \in BOOLEAN, ~timerActive \/ Puts(log) = {}
  PROVE  run => Puts(LogAfter(run)) = {}
<1>1. disk \in JobMap /\ log \in Seq(Line) /\ timerActive \in BOOLEAN
  BY DEF TypeInv, StoreOK, CallsOK
<1>2. CASE timerActive
  BY <1>2, LoadIs
<1>3. CASE ~timerActive
  <2>1. LogAfter(run) = <<>> \/ (LogAfter(run) = log /\ (run => ~Applies))
    BY <1>3, LoadIs
  <2> QED
    BY <1>1, <2>1, NoLines, NothingApplies
<1> QED
  BY <1>1, <1>2, <1>3

LEMMA CoverStep ==
  ASSUME TypeInv, TickInv, CoverInv, QuietAtRest, {"run", "other", "otherAdd"} \cap Ops = {},
         other = NoCall, [Next]_vars
  PROVE  CoverInv'
<1>1. /\ running \/ timerActive => Puts(log) = {}
      /\ running /\ tick[timer].pc = "sleeping" => Covers(mem) /\ Covers(disk)
      /\ running \in BOOLEAN /\ timer \in Ticks \cup {None}
      /\ running <=> timer # None
  BY DEF CoverInv, TypeInv, CallsOK, TimersOK, TickInv
<1>2. \A run \in BOOLEAN : run => Puts(LogAfter(run)) = {}
  BY <1>1, LoadPuts
<1>3. ASSUME NEW t \in Ticks, TickWake(t) PROVE CoverInv'
  <2>1. /\ t = timer /\ running
        /\ \/ WakesEarly(t) /\ Arms(View, [tick EXCEPT ![t] = Idle])
           \/ WakesDue(t)
    BY <1>3, WakeArms
  <2>2. log' = LogAfter(TRUE)
    BY <2>1 DEF WakesEarly, WakesDue
  <2>3. Puts(log') = {}
    BY <1>2, <2>2
  <2>4. CASE Arms(View, [tick EXCEPT ![t] = Idle])
    BY <2>3, <2>4, ArmsCovers
  <2>5. CASE WakesDue(t)
    BY <2>1, <2>3, <2>5 DEF WakesDue, CoverInv
  <2> QED
    BY <2>1, <2>4, <2>5
<1>4. ASSUME NEW t \in Ticks, TickJobDone(t) PROVE CoverInv'
  <2>1. /\ t = timer /\ running
        /\ GoesOn(t) \/ (Closes(t) /\ Arms(mem', [tick EXCEPT ![t] = Idle]))
    BY <1>4, DoneArms
  <2>2. log' = log
    BY <1>4, TickDoneIs
  <2>3. CASE Arms(mem', [tick EXCEPT ![t] = Idle])
    BY <1>1, <2>1, <2>2, <2>3, ArmsCovers
  <2>4. CASE GoesOn(t)
    BY <1>1, <2>1, <2>2, <2>4 DEF GoesOn, CoverInv
  <2> QED
    BY <2>1, <2>3, <2>4
<1>5. ASSUME NEW t \in Ticks, CancelledTickEnds(t) PROVE CoverInv'
  <2>1. /\ Quiet /\ running' = running /\ UNCHANGED <<mem, disk, log>> /\ timerActive' = FALSE
        /\ t # timer /\ timer' = timer
        /\ \A u \in Ticks : u # t => tick'[u] = tick[u]
    BY <1>5, CancelledIs, CancelledTicks
  <2> QED
    BY <1>1, <2>1 DEF CoverInv, Covers, Quiet
<1>6. ASSUME NEW j \in Jobs,
             \/ AddJob(j) \/ RemoveJob(j) \/ UpdateJob(j)
             \/ RegisterSystemJob(j) \/ \E on \in BOOLEAN : EnableJob(j, on)
      PROVE  CoverInv'
  <2>1. /\ timerActive' = timerActive /\ running' = running
        /\ running /\ ~OtherAdd(j) => Arms(mem', tick)
    BY <1>6, RunningEdits
  <2>2. ~OtherAdd(j)
    BY DEF OtherAdd, Call
  <2>3. CASE running
    <3>1. log' = LogAfter(TRUE)
      <4>1. running = TRUE
        BY <1>1, <2>3
      <4>2. CASE AddJob(j)
        BY <2>2, <2>3, <4>2, AddIs
      <4>3. CASE RemoveJob(j)
        BY <2>3, <4>3, RemoveIs
      <4>4. CASE UpdateJob(j) \/ \E on \in BOOLEAN : EnableJob(j, on)
        BY <2>3, <4>4, RescheduleIs
      <4>5. CASE RegisterSystemJob(j)
        BY <4>1, <4>5, RegisterIs
      <4> QED
        BY <1>6, <4>2, <4>3, <4>4, <4>5
    <3>2. Puts(log') = {}
      BY <1>2, <3>1
    <3> QED
      BY <2>1, <2>2, <2>3, <3>2, ArmsCovers
  <2>4. CASE ~running
    <3>1. CASE timerActive
      <4>1. log' = log
        BY <2>4, <3>1 DEF QuietAtRest
      <4> QED
        BY <1>1, <2>1, <2>4, <3>1, <4>1 DEF CoverInv
    <3>2. CASE ~timerActive
      BY <2>1, <2>4, <3>2 DEF CoverInv
    <3> QED
      BY <3>1, <3>2
  <2> QED
    BY <2>3, <2>4
<1>7. ASSUME Start PROVE CoverInv'
  <2>1. Arms(mem', tick) /\ log' = LogAfter(TRUE)
    BY <1>7, StartArms, StartIs
  <2> QED
    BY <1>2, <2>1, ArmsCovers
<1>8. ASSUME Clock \/ UNCHANGED vars PROVE CoverInv'
  <2>1. /\ now <= now' /\ UNCHANGED <<mem, disk, log, running>>
        /\ UNCHANGED <<timer, tick, timerActive>> /\ now \in Nat /\ now' \in Nat
    BY <1>8, PassIs, Constants DEF TypeInv, CallsOK
  <2>2. running => tick[timer].wake \in Nat
    BY <1>1 DEF TypeInv, TimersOK, TicksOK, Tick
  <2>3. \A m \in JobMap : running /\ Covers(m) => Covers(m)'
    <3> SUFFICES ASSUME NEW m \in JobMap, running, Covers(m),
                        NEW j \in DOMAIN m, m[j].on, m[j].next # 0
                 PROVE  tick'[timer'].wake <= m[j].next \/ tick'[timer'].wake <= now'
      BY DEF Covers
    <3>1. tick[timer].wake <= m[j].next \/ tick[timer].wake <= now
      BY DEF Covers
    <3> QED
      BY <2>1, <2>2, <3>1
  <2>4. mem \in JobMap /\ disk \in JobMap
    BY DEF TypeInv, StoreOK
  <2>5. running => (Covers(mem) => Covers(mem)') /\ (Covers(disk) => Covers(disk)')
    BY <2>1, <2>3, <2>4 DEF Covers
  <2> QED
    BY <1>1, <2>1, <2>5 DEF CoverInv
<1>9. ASSUME ListJobs PROVE CoverInv'
  <2>1. /\ Quiet /\ running' = running /\ UNCHANGED <<timer, tick, timerActive>>
        /\ mem' = View /\ disk' = DiskAfter(running) /\ log' = LogAfter(running)
    BY <1>9, ListIs
  <2>2. running \/ timerActive => Puts(log') = {}
    BY <1>1, <1>2, <2>1, LogShrinks
  <2>3. ASSUME running, Covers(mem), Covers(disk)
        PROVE  Covers(View) /\ Covers(DiskAfter(running))
    <3>1. \/ View = mem /\ DiskAfter(running) = disk
          \/ View = Merged /\ DiskAfter(running) \in {Merged, disk}
      BY <1>1, LoadIs
    <3>2. \A j \in DOMAIN Merged : j \in DOMAIN disk /\ Merged[j] = disk[j]
      <4>1. Puts(log) = {} /\ log \in Seq(Line)
        BY <1>1, <2>3 DEF TypeInv, StoreOK
      <4>2. PutJobs(log) = {}
        BY <4>1, LinesAre
      <4> QED
        BY <4>1, <4>2, MergedIs
    <3>3. Covers(Merged)
      BY <2>3, <3>2 DEF Covers
    <3> QED
      BY <2>3, <3>1, <3>3
  <2>4. running /\ tick[timer].pc = "sleeping" => Covers(mem)' /\ Covers(disk)'
    BY <1>1, <2>1, <2>3 DEF Covers, Quiet
  <2> QED
    BY <2>1, <2>2, <2>4 DEF CoverInv
<1>10. ASSUME Stop PROVE CoverInv'
  BY <1>1, <1>10, StopIs DEF CoverInv
<1>11. ASSUME Crash \/ CrashInMerge PROVE CoverInv'
  BY <1>11, CrashIs DEF CoverInv, Lost
<1>12. /\ ~RunJobDone /\ ~OtherAppend
       /\ \A j \in Jobs : ~RunJob(j) /\ ~OtherLoad(j) /\ ~OtherAdd(j)
  BY DEF TickInv, RunJob, RunJobDone, OtherAppend, OtherLoad, OtherAdd, Call
<1> QED
  BY <1>3, <1>4, <1>5, <1>6, <1>7, <1>8, <1>9, <1>10, <1>11, <1>12 DEF Next, Finished

\* Without a call of another instance none is under way.
Alone == other = NoCall

LEMMA NoOther ==
  ASSUME TypeInv, Alone, "other" \notin Ops, [Next]_vars PROVE Alone'
<1> USE DEF Alone
<1>1. ASSUME NEW t \in Ticks, TickWake(t) \/ TickJobDone(t) \/ CancelledTickEnds(t)
      PROVE  other' = NoCall
  BY <1>1, TickWakeIs, TickDoneIs, CancelledIs DEF Quiet
<1>2. ASSUME NEW j \in Jobs,
             \/ AddJob(j) \/ RemoveJob(j) \/ UpdateJob(j) \/ RegisterSystemJob(j)
             \/ RunJob(j) \/ OtherAdd(j) \/ \E on \in BOOLEAN : EnableJob(j, on)
      PROVE  other' = NoCall
  BY <1>2, AddIs, RemoveIs, RescheduleIs, RegisterIs, RunJobIs DEF Quiet
<1>3. ListJobs \/ Start \/ Stop \/ RunJobDone \/ Clock \/ Finished \/ UNCHANGED vars => other' = NoCall
  BY ListIs, StartIs, StopIs, RunDoneIs, PassIs DEF Quiet, Finished
<1>4. Crash \/ CrashInMerge => other' = NoCall
  BY CrashIs DEF Lost
<1>5. ~OtherAppend /\ ~\E j \in Jobs : OtherLoad(j)
  BY DEF OtherAppend, OtherLoad, Call
<1> QED
  BY <1>1, <1>2, <1>3, <1>4, <1>5 DEF Next

\* A running service always has a timer, which has not been cancelled and
\* sleeps no longer than until the next job in memory, whatever is added,
\* changed, run or cancelled; provided other instances keep out (a job found
\* in the log by a poll waits for max_sleep_ms) and a stopped service is not
\* changed while an execution it cancelled goes on.
THEOREM TimerCovers ==
  ASSUME {"run", "other", "otherAdd"} \cap Ops = {}
  PROVE  Spec /\ [][QuietAtRest]_vars => []TimerCoversNextJob
<1>1. Init => Alone /\ CoverInv
  BY NoLines DEF Init, Alone, CoverInv
<1>2. TypeInv /\ Alone /\ [Next]_vars => Alone'
  BY NoOther
<1>3. TypeInv /\ TickInv /\ [Next]_vars => TickInv'
  BY TickStep
<1>4. TypeInv /\ TickInv /\ CoverInv /\ Alone /\ [Next]_vars /\ [QuietAtRest]_vars => CoverInv'
  <2> SUFFICES ASSUME TypeInv, TickInv, CoverInv, Alone, [Next]_vars, [QuietAtRest]_vars
               PROVE  CoverInv'
    OBVIOUS
  <2>1. QuietAtRest
    BY DEF QuietAtRest, vars, store
  <2> QED
    BY <2>1, CoverStep DEF Alone
<1>5. TypeInv /\ TickInv /\ CoverInv => TimerCoversNextJob
  BY DEF TickInv, CoverInv, Covers, TimerCoversNextJob
<1> QED
  BY <1>1, <1>2, <1>3, <1>4, <1>5, TypeInit, TypeStep, TickInit, PTL DEF Spec

\* The same of a service that is never stopped, in every behaviour.
THEOREM TimerCoversServing ==
  ASSUME {"stop", "run", "other", "otherAdd"} \cap Ops = {}
  PROVE  Spec => []TimerCoversNextJob
<1>1. Init => Alone /\ CoverInv /\ ServedInv
  BY NoLines DEF Init, Alone, CoverInv, ServedInv
<1>2. TypeInv /\ Alone /\ [Next]_vars => Alone'
  BY NoOther
<1>3. TypeInv /\ TickInv /\ [Next]_vars => TickInv'
  BY TickStep
<1>4. TypeInv /\ TickInv /\ CoverInv /\ ServedInv /\ Alone /\ [Next]_vars
        => CoverInv' /\ ServedInv'
  <2> SUFFICES ASSUME TypeInv, TickInv, CoverInv, ServedInv, Alone, [Next]_vars
               PROVE  CoverInv' /\ ServedInv'
    OBVIOUS
  <2>1. QuietAtRest
    BY DEF QuietAtRest, ServedInv
  <2> QED
    BY <2>1, CoverStep, ServedStep DEF Alone
<1>5. TypeInv /\ TickInv /\ CoverInv => TimerCoversNextJob
  BY DEF TickInv, CoverInv, Covers, TimerCoversNextJob
<1> QED
  BY <1>1, <1>2, <1>3, <1>4, <1>5, TypeInit, TypeStep, TickInit, PTL DEF Spec

-----------------------------------------------------------------------------
(***************************************************************************)
(* One execution at a time, when a cancelled one ends at once              *)
(***************************************************************************)

\* At most one task executes, and the store is pinned exactly then.  What has
\* not been cancelled holds the objects of the jobs it has still to run, and
\* the log puts none of these.
OneTickInv ==
  /\ \A t, u \in Ticks : tick[t].pc = "executing" /\ tick[u].pc = "executing" => t = u
  /\ timerActive <=> \E t \in Ticks : tick[t].pc = "executing"
  /\ \A t \in Ticks : Live(t) =>
       /\ tick[t].due \cup {tick[t].job} \subseteq attached[t]
       /\ tick[t].job \notin tick[t].due
       /\ \A x \in Puts(log) : x.job \notin attached[t]

\* When a tick wakes nothing executes.
LEMMA WakeAlone ==
  ASSUME TypeInv, TickInv, OneTickInv, ~SlowCancel, NEW t \in Ticks, TickWake(t)
  PROVE  /\ \A u \in Ticks : tick[u].pc # "executing" /\ ~Live(u)
         /\ timerActive = FALSE
<1>1. cancelled = {} /\ tick[t].pc = "sleeping" /\ t = timer /\ timerActive \in BOOLEAN
  BY TickWakeIs, WakeArms DEF TypeInv, CallsOK
<1>2. \A u \in Ticks : tick[u].pc # "executing"
  BY <1>1 DEF TickInv, Live
<1> QED
  BY <1>1, <1>2 DEF OneTickInv, Live

LEMMA NoneExecutes ==
  ASSUME \A u \in Ticks : tick'[u].pc # "executing", timerActive' = FALSE
  PROVE  OneTickInv'
BY DEF OneTickInv, Live

LEMMA NoneLives ==
  ASSUME OneTickInv, \A u \in Ticks : tick'[u].pc = "executing" <=> tick[u].pc = "executing",
         timerActive' = timerActive, \A u \in Ticks : ~Live(u)'
  PROVE  OneTickInv'
BY DEF OneTickInv

LEMMA OneTickStep ==
  ASSUME TypeInv, TickInv, OneTickInv, Alone, ~SlowCancel, {"run", "other"} \cap Ops = {},
         [Next]_vars
  PROVE  OneTickInv'
<1>1. /\ \A t, u \in Ticks : tick[t].pc = "executing" /\ tick[u].pc = "executing" => t = u
      /\ timerActive <=> \E t \in Ticks : tick[t].pc = "executing"
      /\ \A t \in Ticks : Live(t) =>
           /\ tick[t].due \cup {tick[t].job} \subseteq attached[t]
           /\ tick[t].job \notin tick[t].due
           /\ \A x \in Puts(log) : x.job \notin attached[t]
  BY DEF OneTickInv
<1>2. /\ Idle.pc = "none" /\ tick \in [Ticks -> Tick] /\ log \in Seq(Line) /\ running \in BOOLEAN
      /\ attached \in [Runners -> SUBSET Jobs]
      /\ \A r \in Runners : attached[r] \subseteq DOMAIN mem
      /\ \A t \in Ticks : t \in Runners
  BY DEF Idle, TypeInv, TimersOK, TicksOK, StoreOK, CallsOK, Runners
<1>3. ASSUME NEW t \in Ticks, TickWake(t) PROVE OneTickInv'
  <2>1. /\ \A u \in Ticks : tick[u].pc # "executing"
        /\ timerActive = FALSE
    BY <1>3, WakeAlone
  <2>2. \/ WakesEarly(t) /\ Arms(View, [tick EXCEPT ![t] = Idle])
        \/ WakesDue(t)
    BY <1>3, WakeArms
  <2>3. CASE WakesEarly(t) /\ Arms(View, [tick EXCEPT ![t] = Idle])
    <3>1. PICK ticks : ticks = [tick EXCEPT ![t] = Idle]
      OBVIOUS
    <3>2. Arms(View, ticks)
      BY <2>3, <3>1
    <3>3. \A u \in Ticks : tick'[u].pc = "executing" <=> ticks[u].pc = "executing"
      BY <3>2, ArmsTicks
    <3>4. \A u \in Ticks : tick'[u].pc # "executing"
      BY <1>2, <2>1, <3>1, <3>3
    <3> QED
      BY <2>3, <3>4, NoneExecutes DEF WakesEarly
  <2>4. CASE WakesDue(t)
    <3>1. /\ timerActive' = TRUE /\ log' = LogAfter(TRUE)
          /\ attached' = [Attached EXCEPT ![t] = Due(View)]
          /\ tick'[t].pc = "executing" /\ tick'[t].job \in Due(View)
          /\ tick'[t].due = Due(View) \ {tick'[t].job}
          /\ \A u \in Ticks : u # t => tick'[u] = tick[u]
      BY <2>4 DEF WakesDue
    <3>2. Puts(log') = {}
      BY <2>1, <3>1, LoadPuts
    <3>3. attached'[t] = Due(View)
      BY <1>2, <3>1, HeldIs
    <3>4. \A u \in Ticks : tick'[u].pc = "executing" => u = t
      BY <2>1, <3>1
    <3>5. /\ tick'[t].due \cup {tick'[t].job} \subseteq attached'[t]
          /\ tick'[t].job \notin tick'[t].due
      BY <3>1, <3>3
    <3>6. timerActive' <=> \E u \in Ticks : tick'[u].pc = "executing"
      BY <3>1
    <3> QED
      BY <3>2, <3>4, <3>5, <3>6 DEF OneTickInv, Live
  <2> QED
    BY <2>2, <2>3, <2>4
<1>4. ASSUME NEW t \in Ticks, TickJobDone(t) PROVE OneTickInv'
  <2>1. /\ t = timer /\ Live(t)
        /\ GoesOn(t) \/ (Closes(t) /\ Arms(mem', [tick EXCEPT ![t] = Idle]))
        /\ log' = log /\ attached' = AttachedAfter(tick[t].job, t, tick[t].due = {})
    BY <1>4, DoneArms, TickDoneIs
  <2>2. \A u \in Ticks : u # t => tick[u].pc # "executing"
    BY <1>1, <2>1 DEF Live
  <2>3. CASE Closes(t) /\ Arms(mem', [tick EXCEPT ![t] = Idle])
    <3>1. PICK ticks : ticks = [tick EXCEPT ![t] = Idle]
      OBVIOUS
    <3>2. Arms(mem', ticks)
      BY <2>3, <3>1
    <3>3. \A u \in Ticks : tick'[u].pc = "executing" <=> ticks[u].pc = "executing"
      BY <3>2, ArmsTicks
    <3>4. \A u \in Ticks : tick'[u].pc # "executing"
      BY <1>2, <2>2, <3>1, <3>3
    <3> QED
      BY <2>3, <3>4, NoneExecutes DEF Closes
  <2>4. CASE GoesOn(t)
    <3>1. /\ timerActive' = timerActive /\ cancelled' = cancelled
          /\ tick'[t].pc = "executing" /\ tick'[t].job \in tick[t].due
          /\ tick'[t].due = tick[t].due \ {tick'[t].job}
          /\ \A u \in Ticks : u # t => tick'[u] = tick[u]
      BY <2>4 DEF GoesOn
    <3>2. /\ attached'[t] \subseteq attached[t]
          /\ attached[t] \ {tick[t].job} \subseteq attached'[t]
      <4>1. ~(tick[t].due = {})
        BY <3>1
      <4> QED
        BY <1>2, <2>1, <4>1 DEF AttachedAfter
    <3>3. /\ tick[t].pc = "executing"
          /\ tick[t].due \subseteq attached'[t]
          /\ \A x \in Puts(log') : x.job \notin attached'[t]
      BY <1>1, <2>1, <3>2 DEF Live
    <3>4. \A u \in Ticks : tick'[u].pc = "executing" => u = t
      BY <2>2, <3>1
    <3>5. timerActive' <=> \E u \in Ticks : tick'[u].pc = "executing"
      BY <1>1, <3>1, <3>3
    <3>6. /\ tick'[t].due \cup {tick'[t].job} \subseteq attached'[t]
          /\ tick'[t].job \notin tick'[t].due
      BY <3>1, <3>3
    <3> QED
      BY <3>3, <3>4, <3>5, <3>6 DEF OneTickInv, Live
  <2> QED
    BY <2>1, <2>3, <2>4
<1>5. ASSUME NEW t \in Ticks, CancelledTickEnds(t) PROVE OneTickInv'
  <2>1. /\ t \in cancelled /\ tick'[t] = Idle /\ \A u \in Ticks : u # t => tick'[u] = tick[u]
        /\ timerActive' = FALSE
    BY <1>5, CancelledIs
  <2>2. tick[t].pc = "executing"
    BY <2>1 DEF TypeInv, TimersOK, TicksOK
  <2>3. \A u \in Ticks : tick'[u].pc # "executing"
    BY <1>1, <1>2, <2>1, <2>2
  <2> QED
    BY <2>1, <2>3, NoneExecutes
<1>6. ASSUME NEW j \in Jobs,
             \/ AddJob(j) \/ OtherAdd(j) \/ RemoveJob(j) \/ UpdateJob(j)
             \/ RegisterSystemJob(j) \/ \E on \in BOOLEAN : EnableJob(j, on)
      PROVE  OneTickInv'
  <2>1. /\ timerActive' = timerActive /\ running' = running
        /\ running /\ ~OtherAdd(j) => Arms(mem', tick)
        /\ ~running \/ OtherAdd(j) => Same
    BY <1>6, RunningEdits
  <2>2. CASE running /\ ~OtherAdd(j)
    <3>1. /\ \A u \in Ticks : ~Live(u)'
          /\ \A u \in Ticks : tick'[u].pc = "executing" <=> tick[u].pc = "executing"
      BY <2>1, <2>2, ArmsTicks
    <3> QED
      BY <2>1, <3>1, NoneLives
  <2>3. CASE ~running
    <3>1. /\ \A u \in Ticks : tick'[u] = tick[u] /\ (Live(u)' <=> Live(u))
      BY <2>1, <2>3, SameKeeps DEF Same
    <3>2. \A u \in Ticks : ~Live(u)
      BY <2>3, Constants DEF TickInv
    <3> QED
      BY <2>1, <3>1, <3>2, NoneLives
  <2>4. CASE OtherAdd(j)
    <3> DEFINE line == [op |-> "put", job |-> j, state |-> FreshState(j)]
    <3>1. line \in Line /\ line.job = j /\ line.op = "put" /\ log' = Append(log, line)
      BY <2>4, FreshIs DEF OtherAdd
    <3> HIDE DEF line
    <3>2. Puts(log') = Puts(log) \cup {line}
      BY <1>2, <3>1, AppendLine
    <3>3. attached' = attached /\ j \notin DOMAIN mem
      BY <2>4 DEF OtherAdd, Fresh
    <3>4. \A u \in Ticks : tick'[u] = tick[u] /\ (Live(u)' <=> Live(u))
      BY <2>1, <2>4, SameKeeps DEF Same
    <3>5. \A u \in Ticks : j \notin attached[u]
      BY <1>2, <3>3
    <3>6. \A u \in Ticks : Live(u) => \A x \in Puts(log') : x.job \notin attached'[u]
      BY <1>1, <3>1, <3>2, <3>3, <3>5
    <3> QED
      BY <1>1, <2>1, <3>3, <3>4, <3>6 DEF OneTickInv
  <2> QED
    BY <2>2, <2>3, <2>4
<1>7. ASSUME Start PROVE OneTickInv'
  <2>1. /\ \A u \in Ticks : ~Live(u)'
        /\ \A u \in Ticks : tick'[u].pc = "executing" <=> tick[u].pc = "executing"
        /\ timerActive' = timerActive
    BY <1>7, StartArms, ArmsTicks
  <2> QED
    BY <2>1, NoneLives
<1>8. ASSUME ListJobs \/ Clock \/ UNCHANGED vars PROVE OneTickInv'
  <2>1. timerActive' = timerActive /\ \A u \in Ticks : tick'[u] = tick[u] /\ (Live(u)' <=> Live(u))
    BY <1>8, SameTicks, SameKeeps DEF Same
  <2>2. timerActive => attached' = attached /\ log' = log
    <3>1. CASE ListJobs
      <4>1. attached' = Attached /\ log' = LogAfter(running)
        BY <3>1, ListIs
      <4> QED
        BY <1>2, <4>1, LoadIs, HeldIs
    <3>2. CASE Clock \/ UNCHANGED vars
      BY <3>2, PassIs
    <3> QED
      BY <1>8, <3>1, <3>2
  <2>3. \A u \in Ticks : Live(u) => timerActive
    BY <1>1 DEF Live
  <2> QED
    BY <1>1, <2>1, <2>2, <2>3 DEF OneTickInv
<1>9. ASSUME Stop PROVE OneTickInv'
  BY <1>9, StopTicks, StopIs, NoneLives
<1>10. ASSUME Crash \/ CrashInMerge PROVE OneTickInv'
  BY <1>10, CrashIs, LostTicks, NoneExecutes DEF Lost
<1>11. /\ ~RunJobDone /\ ~OtherAppend
       /\ \A j \in Jobs : ~RunJob(j) /\ ~OtherLoad(j)
  BY DEF TickInv, RunJob, RunJobDone, OtherAppend, OtherLoad, Alone, Call
<1> QED
  BY <1>3, <1>4, <1>5, <1>6, <1>7, <1>8, <1>9, <1>10, <1>11 DEF Next, Finished

LEMMA OneTickInit == Init => OneTickInv
<1> SUFFICES ASSUME Init PROVE OneTickInv
  OBVIOUS
<1>1. timerActive = FALSE /\ \A t \in Ticks : tick[t].pc = "none"
  BY DEF Init, Idle
<1> QED
  BY <1>1 DEF OneTickInv, Live

-----------------------------------------------------------------------------
(***************************************************************************)
(* One-shots run once                                                      *)
(***************************************************************************)

OneShots == {j \in Jobs : Kind[j] # "every"}

\* A one-shot is scheduled at its time or not at all; one the timer has run
\* is disabled or has no time left.
SaneState(j, s) == j \in OneShots => s.next \in {0, At[j]}
SpentState(s) == ~s.on \/ s.next = 0
Sane(jobs) == \A j \in DOMAIN jobs : SaneState(j, jobs[j])
SpentIn(jobs, ran) == \A j \in DOMAIN jobs \cap ran : SpentState(jobs[j])
LogShot(l, ran) ==
  \A x \in Puts(l) : SaneState(x.job, x.state) /\ (x.job \in ran => SpentState(x.state))

\* What the timer has run is spent in the memory of a running service, and in
\* the file unless an execution has still to be saved.
ShotInv ==
  /\ shot \subseteq OneShots /\ \A j \in shot : At[j] <= now
  /\ Sane(mem) /\ Sane(disk) /\ LogShot(log, shot)
  /\ running => SpentIn(mem, shot)
  /\ running /\ (\A t \in Ticks : ~Live(t)) => SpentIn(disk, shot)
  /\ \A t \in Ticks : Live(t) =>
       /\ (tick[t].due \cup {tick[t].job}) \cap shot = {}
       /\ \A j \in attached[t] \cap OneShots : At[j] <= now

LEMMA PutShot ==
  ASSUME NEW m \in JobMap, NEW j \in Jobs, NEW s \in JobState, NEW ran
  PROVE  /\ Sane(m) /\ SaneState(j, s) => Sane(Put(m, j, s))
         /\ SpentIn(m, ran) /\ (j \in ran => SpentState(s)) => SpentIn(Put(m, j, s), ran)
<1>1. PICK n : n = Put(m, j, s)
  OBVIOUS
<1>2. DOMAIN n = DOMAIN m \cup {j} /\ n[j] = s /\ \A x \in DOMAIN m : x # j => n[x] = m[x]
  BY ZenonT(40), <1>1, PutIs
<1>3. Sane(m) /\ SaneState(j, s) => Sane(n)
  BY <1>2 DEF Sane
<1>4. SpentIn(m, ran) /\ (j \in ran => SpentState(s)) => SpentIn(n, ran)
  BY <1>2 DEF SpentIn
<1> QED
  BY <1>1, <1>3, <1>4

LEMMA WithoutShot ==
  ASSUME NEW m \in JobMap, NEW j, NEW ran
  PROVE  /\ Sane(m) => Sane(Without(m, j))
         /\ SpentIn(m, ran) => SpentIn(Without(m, j), ran)
<1>1. PICK n : n = Without(m, j)
  OBVIOUS
<1>2. DOMAIN n = DOMAIN m \ {j} /\ \A x \in DOMAIN m \ {j} : n[x] = m[x]
  BY <1>1, WithoutIs
<1>3. (Sane(m) => Sane(n)) /\ (SpentIn(m, ran) => SpentIn(n, ran))
  BY <1>2 DEF Sane, SpentIn
<1> QED
  BY <1>1, <1>3

\* A schedule computed now is in the past for what has run.
LEMMA NewStateShot ==
  ASSUME TypeInv, ShotInv, NEW j \in Jobs, NEW s
  PROVE  /\ s.next \in {0, NextRun(j, now)} => SaneState(j, s)
         /\ (s.on => s.next = NextRun(j, now)) /\ j \in shot => SpentState(s)
<1>1. now \in Nat
  BY Constants DEF TypeInv, CallsOK
<1>2. /\ j \in OneShots => NextRun(j, now) \in {0, At[j]}
      /\ j \in shot => NextRun(j, now) = 0
  BY <1>1, NextRunIs DEF ShotInv, OneShots
<1> QED
  BY <1>2 DEF SaneState, SpentState

LEMMA LoadShot ==
  ASSUME TypeInv, OneTickInv, ShotInv, NEW run \in BOOLEAN
  PROVE  /\ Sane(View) /\ Sane(DiskAfter(run)) /\ LogShot(LogAfter(run), shot)
         /\ running => SpentIn(View, shot)
         /\ running /\ (\A t \in Ticks : ~Live(t)) => SpentIn(DiskAfter(run), shot)
<1>1. /\ Sane(mem) /\ Sane(disk) /\ LogShot(log, shot)
      /\ running => SpentIn(mem, shot)
      /\ running /\ (\A t \in Ticks : ~Live(t)) => SpentIn(disk, shot)
      /\ timerActive \in BOOLEAN
  BY DEF ShotInv, TypeInv, CallsOK
<1>2. \A j \in DOMAIN Merged :
        \/ j \in DOMAIN disk /\ Merged[j] = disk[j]
        \/ \E x \in Puts(log) : x.job = j /\ Merged[j] = x.state
  <2>1. PutJobs(log) \subseteq Named(log)
    BY LogShrinks
  <2> QED
    BY <2>1, MergedIs
<1>3. Sane(Merged)
  BY <1>1, <1>2 DEF Sane, LogShot
<1>4. SpentIn(disk, shot) => SpentIn(Merged, shot)
  BY <1>1, <1>2 DEF SpentIn, LogShot
<1>5. LogShot(LogAfter(run), shot)
  BY <1>1, LogShrinks DEF LogShot
<1>6. CASE timerActive
  BY <1>1, <1>5, <1>6, LoadIs
<1>7. CASE ~timerActive
  <2>1. View = Merged /\ (DiskAfter(run) = Merged \/ DiskAfter(run) = disk)
    BY <1>7, LoadIs
  <2>2. \A t \in Ticks : ~Live(t)
    BY <1>7 DEF OneTickInv, Live
  <2> QED
    BY <1>1, <1>3, <1>4, <1>5, <2>1, <2>2
<1> QED
  BY <1>1, <1>6, <1>7

\* What a call leaves in the store.
LEMMA EditShot ==
  ASSUME TypeInv, OneTickInv, ShotInv, NEW j \in Jobs,
         \/ AddJob(j) \/ OtherAdd(j) \/ RemoveJob(j) \/ UpdateJob(j)
         \/ RegisterSystemJob(j) \/ \E on \in BOOLEAN : EnableJob(j, on)
  PROVE  /\ Quiet /\ Sane(mem') /\ Sane(disk') /\ LogShot(log', shot)
         /\ running => SpentIn(mem', shot)
<1>1. /\ Sane(mem) /\ Sane(disk) /\ LogShot(log, shot)
      /\ running => SpentIn(mem, shot)
      /\ running \in BOOLEAN /\ log \in Seq(Line) /\ now \in Nat
  BY Constants DEF ShotInv, TypeInv, CallsOK, StoreOK
<1>2. /\ Sane(View) /\ View \in JobMap
      /\ running => SpentIn(View, shot)
      /\ \A run \in BOOLEAN : LogShot(LogAfter(run), shot)
  BY LoadShot, LoadIs
<1>3. ASSUME NEW s \in JobState, SaneState(j, s), j \in shot => SpentState(s)
      PROVE  LogShot(Append(log, [op |-> "put", job |-> j, state |-> s]), shot)
  <2> DEFINE line == [op |-> "put", job |-> j, state |-> s]
  <2>1. line \in Line /\ line.job = j /\ line.state = s /\ line.op = "put"
    BY DEF Line, PutLine
  <2> HIDE DEF line
  <2>2. Puts(Append(log, line)) = Puts(log) \cup {line}
    BY <1>1, <2>1, AppendLine
  <2>3. LogShot(Append(log, line), shot)
    BY <1>1, <1>3, <2>1, <2>2 DEF LogShot
  <2> QED
    BY <2>3 DEF line
<1>4. ASSUME NEW s \in JobState, SaneState(j, s), j \in shot => SpentState(s)
      PROVE  /\ Sane(Put(View, j, s))
             /\ running => SpentIn(Put(View, j, s), shot)
  BY <1>2, <1>4, PutShot
<1>5. CASE AddJob(j) \/ OtherAdd(j)
  <2>1. FreshState(j) \in JobState /\ FreshState(j).next = NextRun(j, now)
    BY <1>1, StatesOK
  <2>2. j \notin shot /\ Quiet
    BY <1>5, AddIs DEF Fresh
  <2>3. SaneState(j, FreshState(j)) /\ (j \in shot => SpentState(FreshState(j)))
    BY <2>1, <2>2, NewStateShot
  <2>4. \/ mem' = Put(View, j, FreshState(j)) /\ disk' = mem' /\ log' = LogAfter(TRUE)
        \/ /\ log' = Append(log, [op |-> "put", job |-> j, state |-> FreshState(j)])
           /\ mem' = mem /\ disk' = disk
    BY <1>5, AddIs
  <2>5. CASE mem' = Put(View, j, FreshState(j)) /\ disk' = mem' /\ log' = LogAfter(TRUE)
    BY <1>2, <1>4, <2>1, <2>2, <2>3, <2>5
  <2>6. CASE /\ log' = Append(log, [op |-> "put", job |-> j, state |-> FreshState(j)])
             /\ mem' = mem /\ disk' = disk
    BY <1>1, <1>3, <2>1, <2>2, <2>3, <2>6
  <2> QED
    BY <2>4, <2>5, <2>6
<1>6. CASE RemoveJob(j)
  <2>1. /\ Quiet /\ mem' = Without(View, j)
        /\ \/ running /\ disk' = mem' /\ log' = LogAfter(TRUE)
           \/ ~running /\ disk' = disk /\ log' = Append(log, [op |-> "del", job |-> j])
    BY <1>6, RemoveIs
  <2>2. Sane(mem') /\ (running => SpentIn(mem', shot))
    BY <1>2, <2>1, WithoutShot
  <2>3. LogShot(Append(log, [op |-> "del", job |-> j]), shot)
    <3> DEFINE line == [op |-> "del", job |-> j]
    <3>1. line \in Line /\ line.op # "put"
      BY DEF Line, DelLine
    <3> HIDE DEF line
    <3>2. Puts(Append(log, line)) = Puts(log)
      BY <1>1, <3>1, AppendLine
    <3>3. LogShot(Append(log, line), shot)
      BY <1>1, <3>2 DEF LogShot
    <3> QED
      BY <3>3 DEF line
  <2> QED
    BY <1>1, <1>2, <2>1, <2>2, <2>3
<1>7. CASE UpdateJob(j) \/ \E on \in BOOLEAN : EnableJob(j, on)
  <2>1. Quiet /\ j \in DOMAIN View
    BY <1>7, RescheduleIs
  <2>2. PICK s \in JobState :
          /\ s.on => s.next = NextRun(j, now)
          /\ s.next \in {0, NextRun(j, now)} \/ s = View[j]
          /\ mem' = Put(View, j, s)
          /\ \/ running /\ disk' = mem' /\ log' = LogAfter(TRUE)
             \/ /\ disk' = disk
                /\ log' = Append(log, [op |-> "put", job |-> j, state |-> s])
    BY <1>7, RescheduleIs
  <2>3. s \in JobState /\ SaneState(j, s) /\ (j \in shot => SpentState(s))
    <3>1. SaneState(j, View[j])
      BY <1>2, <2>1 DEF Sane
    <3> QED
      BY <2>2, <3>1, NewStateShot
  <2>4. Sane(mem') /\ (running => SpentIn(mem', shot))
    BY <1>4, <2>2, <2>3
  <2> QED
    BY <1>1, <1>2, <1>3, <2>1, <2>2, <2>3, <2>4
<1>8. CASE RegisterSystemJob(j)
  <2>1. PICK s \in JobState :
          /\ s.next = NextRun(j, now)
          /\ mem' = Put(View, j, s) /\ disk' = mem' /\ log' = LogAfter(running)
    BY <1>8, RegisterIs
  <2>2. s \in JobState /\ SaneState(j, s) /\ (j \in shot => SpentState(s))
    BY <2>1, NewStateShot
  <2>3. Sane(mem') /\ (running => SpentIn(mem', shot))
    BY <1>4, <2>1, <2>2
  <2>4. Quiet
    BY <1>8, RegisterIs
  <2> QED
    BY <1>1, <1>2, <2>1, <2>3, <2>4
<1> QED
  BY <1>5, <1>6, <1>7, <1>8

LEMMA ShotFollows ==
  ASSUME shot' \subseteq OneShots, \A j \in shot' : At[j] <= now',
         Sane(mem'), Sane(disk'), LogShot(log', shot'),
         running' => SpentIn(mem', shot'),
         running' /\ (\A t \in Ticks : ~Live(t)') => SpentIn(disk', shot'),
         \A t \in Ticks : Live(t)' =>
           /\ (tick'[t].due \cup {tick'[t].job}) \cap shot' = {}
           /\ \A j \in attached'[t] \cap OneShots : At[j] <= now'
  PROVE  ShotInv'
<1>1. Sane(mem)' /\ Sane(disk)'
  BY DEF Sane, SaneState
<1>2. /\ SpentIn(mem, shot)' <=> SpentIn(mem', shot')
      /\ SpentIn(disk, shot)' <=> SpentIn(disk', shot')
  BY DEF SpentIn, SpentState
<1>3. LogShot(log, shot)'
  BY DEF LogShot, SaneState, SpentState, Puts
<1> QED
  BY <1>1, <1>2, <1>3 DEF ShotInv

\* After arming nothing uncancelled executes, and the store is saved.
LEMMA ArmsShot ==
  ASSUME TypeInv, TickInv, NEW jobs, NEW ticks, Arms(jobs, ticks),
         shot' \subseteq OneShots, \A j \in shot' : At[j] <= now,
         Sane(jobs), SpentIn(jobs, shot'), LogShot(log', shot')
  PROVE  ShotInv'
<1>1. mem' = jobs /\ disk' = jobs /\ now' = now
  BY DEF Arms
<1>2. \A t \in Ticks : ~Live(t)'
  BY ArmsTicks
<1> QED
  BY <1>1, <1>2, ShotFollows

LEMMA ShotInit == Init => ShotInv
<1> SUFFICES ASSUME Init PROVE ShotInv
  OBVIOUS
<1>1. /\ shot = {} /\ mem = disk /\ log = <<>> /\ running = FALSE
      /\ \A t \in Ticks : ~Live(t)
  BY DEF Init, Idle, Live
<1>2. LogShot(log, shot)
  BY <1>1, NoLines DEF LogShot
<1>3. DOMAIN disk = Stored /\ \A j \in Stored : disk[j].next = NextRun(j, 0)
  BY DEF Init
<1>4. Sane(disk)
  BY <1>3, Constants, NextRunIs DEF Sane, SaneState, OneShots
<1> QED
  BY <1>1, <1>2, <1>4 DEF ShotInv

\* What is due when the timer wakes has not been run by it.
LEMMA DueShot ==
  ASSUME TypeInv, OneTickInv, ShotInv, running, NEW j \in Due(View)
  PROVE  j \in Jobs /\ j \notin shot /\ (j \in OneShots => At[j] <= now)
<1>1. Sane(View) /\ SpentIn(View, shot) /\ View \in JobMap
  BY LoadShot, LoadIs
<1>2. j \in DOMAIN View /\ j \in Jobs /\ View[j].on /\ View[j].next \in 1..now
  BY <1>1, DueIs DEF Due
<1>3. SaneState(j, View[j]) /\ (j \in shot => SpentState(View[j]))
  BY <1>1, <1>2 DEF Sane, SpentIn
<1> QED
  BY <1>2, <1>3 DEF SaneState, SpentState

LEMMA WakeShot ==
  ASSUME TypeInv, TickInv, OneTickInv, ShotInv, ~SlowCancel, NEW t \in Ticks, TickWake(t)
  PROVE  ShotInv'
<1>1. /\ shot \subseteq OneShots /\ \A j \in shot : At[j] <= now
      /\ now' = now /\ shot' = shot
      /\ \A u \in Ticks : tick[u].pc # "executing" /\ ~Live(u)
  BY WakeAlone, TickWakeIs DEF ShotInv
<1>2. /\ running /\ running' = running
      /\ \/ WakesEarly(t) /\ Arms(View, [tick EXCEPT ![t] = Idle])
         \/ WakesDue(t)
  BY WakeArms
<1>3. /\ Sane(View) /\ Sane(DiskAfter(TRUE)) /\ LogShot(LogAfter(TRUE), shot)
      /\ SpentIn(View, shot)
  BY <1>2, LoadShot
<1>4. CASE WakesEarly(t) /\ Arms(View, [tick EXCEPT ![t] = Idle])
  <2>1. LogShot(log', shot') /\ SpentIn(View, shot')
    BY <1>1, <1>3, <1>4 DEF WakesEarly
  <2> QED
    BY <1>1, <1>3, <1>4, <2>1, ArmsShot
<1>5. CASE WakesDue(t)
  <2>1. /\ mem' = View /\ disk' = DiskAfter(TRUE) /\ log' = LogAfter(TRUE)
        /\ attached' = [Attached EXCEPT ![t] = Due(View)]
        /\ tick'[t].pc = "executing" /\ tick'[t].job \in Due(View)
        /\ tick'[t].due = Due(View) \ {tick'[t].job}
        /\ \A u \in Ticks : u # t => tick'[u] = tick[u]
        /\ cancelled' = cancelled
    BY <1>5 DEF WakesDue
  <2>2. attached'[t] = Due(View)
    BY <2>1, HeldIs DEF Runners
  <2>3. \A u \in Ticks : Live(u)' => u = t
    BY <1>1, <2>1 DEF Live
  <2>4. Live(t)'
    <3>1. t \notin cancelled
      BY TickWakeIs
    <3> QED
      BY <2>1, <3>1 DEF Live
  <2>5. \A j \in Due(View) : j \notin shot /\ (j \in OneShots => At[j] <= now)
    BY <1>2, DueShot
  <2>6. \A u \in Ticks : Live(u)' =>
          /\ (tick'[u].due \cup {tick'[u].job}) \cap shot = {}
          /\ \A j \in attached'[u] \cap OneShots : At[j] <= now
    BY <2>1, <2>2, <2>3, <2>5
  <2> QED
    BY <1>1, <1>3, <2>1, <2>4, <2>6, ShotFollows
<1> QED
  BY <1>2, <1>4, <1>5

LEMMA DoneShot ==
  ASSUME TypeInv, TickInv, OneTickInv, ShotInv, NEW t \in Ticks, TickJobDone(t)
  PROVE  ShotInv'
<1>1. /\ shot \subseteq OneShots /\ \A j \in shot : At[j] <= now
      /\ Sane(mem) /\ LogShot(log, shot) /\ Sane(disk)
      /\ running => SpentIn(mem, shot)
      /\ \A u \in Ticks : Live(u) =>
           /\ (tick[u].due \cup {tick[u].job}) \cap shot = {}
           /\ \A j \in attached[u] \cap OneShots : At[j] <= now
  BY DEF ShotInv
<1>2. /\ t = timer /\ running /\ Live(t) /\ running' = running
      /\ GoesOn(t) \/ (Closes(t) /\ Arms(mem', [tick EXCEPT ![t] = Idle]))
  BY DoneArms
<1>3. PICK j \in Jobs : j = tick[t].job
  BY TickDoneIs
<1>4. /\ j \in attached[t] /\ j \notin tick[t].due /\ tick[t].due \subseteq attached[t]
      /\ \A x \in Puts(log) : x.job # j
      /\ \A u \in Ticks : Live(u) => u = t
  BY <1>2, <1>3 DEF OneTickInv, Live
<1>5. j \in OneShots => At[j] <= now
  BY <1>1, <1>2, <1>4
<1>6. /\ mem \in JobMap /\ now \in Nat /\ attached[t] \subseteq DOMAIN mem
  BY Constants DEF TypeInv, StoreOK, CallsOK, Runners
<1>7. /\ mem' = Recorded(mem, j, TRUE)
      /\ attached' = AttachedAfter(j, t, tick[t].due = {})
      /\ shot' = IF Kind[j] = "every" THEN shot ELSE shot \cup {j}
      /\ now' = now /\ log' = log
  <2>1. (j \in attached[t]) = TRUE
    BY <1>4
  <2> QED
    BY <1>3, <2>1, TickDoneIs
<1>8. /\ DOMAIN mem' = IF Kind[j] = "atDelete" THEN DOMAIN mem \ {j} ELSE DOMAIN mem
      /\ \A x \in DOMAIN mem \ {j} : mem'[x] = mem[x]
      /\ Kind[j] = "at" => mem'[j].on = FALSE /\ mem'[j].next = 0
  <2>1. PICK n : n = Recorded(mem, j, TRUE)
    OBVIOUS
  <2>2. /\ DOMAIN n = IF Kind[j] = "atDelete" THEN DOMAIN mem \ {j} ELSE DOMAIN mem
        /\ \A x \in DOMAIN mem \ {j} : n[x] = mem[x]
        /\ Kind[j] # "atDelete" => (Kind[j] # "every" => n[j].on = FALSE /\ n[j].next = 0)
    BY <1>4, <1>6, <2>1, RecordedIs, Zenon
  <2> QED
    BY <1>7, <2>1, <2>2
<1>9. Kind[j] \in {"every", "at", "atDelete"} /\ (j \in OneShots <=> Kind[j] # "every")
  BY Constants DEF OneShots
<1>10. Sane(mem')
  <2> SUFFICES ASSUME NEW x \in DOMAIN mem' PROVE SaneState(x, mem'[x])
    BY DEF Sane
  <2>1. CASE x # j
    BY <1>1, <1>8, <2>1 DEF Sane
  <2>2. CASE x = j
    BY <1>8, <1>9, <2>2 DEF SaneState
  <2> QED
    BY <2>1, <2>2
<1>11. SpentIn(mem', shot')
  <2> SUFFICES ASSUME NEW x \in DOMAIN mem' \cap shot' PROVE SpentState(mem'[x])
    BY DEF SpentIn
  <2>1. CASE x # j
    BY <1>1, <1>2, <1>7, <1>8, <2>1 DEF SpentIn
  <2>2. CASE x = j
    <3>1. j \in OneShots
      BY <1>1, <1>7, <1>9, <2>2
    <3> QED
      BY <1>8, <1>9, <2>2, <3>1 DEF SpentState
  <2> QED
    BY <2>1, <2>2
<1>12. LogShot(log', shot') /\ shot' \subseteq OneShots /\ \A x \in shot' : At[x] <= now
  BY <1>1, <1>4, <1>5, <1>7, <1>9 DEF LogShot
<1>13. CASE Closes(t) /\ Arms(mem', [tick EXCEPT ![t] = Idle])
  BY <1>10, <1>11, <1>12, <1>13, ArmsShot
<1>14. CASE GoesOn(t)
  <2>1. /\ disk' = disk /\ cancelled' = cancelled
        /\ tick'[t].pc = "executing" /\ tick'[t].job \in tick[t].due
        /\ tick'[t].due = tick[t].due \ {tick'[t].job}
        /\ \A u \in Ticks : u # t => tick'[u] = tick[u]
    BY <1>14 DEF GoesOn
  <2>2. Live(t)' /\ \A u \in Ticks : Live(u)' => u = t
    BY <1>2, <1>4, <2>1 DEF Live
  <2>3. attached'[t] \subseteq attached[t]
    <3>1. ~(tick[t].due = {})
      BY <2>1
    <3> QED
      BY <1>7, <3>1 DEF AttachedAfter, Runners
  <2>4. (tick'[t].due \cup {tick'[t].job}) \cap shot' = {}
    BY <1>1, <1>2, <1>4, <1>7, <2>1
  <2>5. \A x \in attached'[t] \cap OneShots : At[x] <= now'
    BY <1>1, <1>2, <1>7, <2>3
  <2> QED
    BY <1>1, <1>7, <1>10, <1>11, <1>12, <2>1, <2>2, <2>4, <2>5, ShotFollows
<1> QED
  BY <1>2, <1>13, <1>14

LEMMA ShotStep ==
  ASSUME TypeInv, TickInv, OneTickInv, ShotInv, Alone, ~SlowCancel,
         {"run", "other"} \cap Ops = {}, [Next]_vars
  PROVE  ShotInv'
<1>1. /\ shot \subseteq OneShots /\ \A j \in shot : At[j] <= now
      /\ Sane(mem) /\ LogShot(log, shot) /\ Sane(disk)
      /\ running => SpentIn(mem, shot)
      /\ running /\ (\A t \in Ticks : ~Live(t)) => SpentIn(disk, shot)
      /\ \A u \in Ticks : Live(u) =>
           /\ (tick[u].due \cup {tick[u].job}) \cap shot = {}
           /\ \A j \in attached[u] \cap OneShots : At[j] <= now
  BY DEF ShotInv
<1>2. running \in BOOLEAN /\ now \in Nat /\ \A j \in Jobs : At[j] \in Nat
  BY Constants DEF TypeInv, CallsOK
<1>3. ASSUME NEW t \in Ticks, TickWake(t) \/ TickJobDone(t) PROVE ShotInv'
  BY <1>3, WakeShot, DoneShot
<1>4. ASSUME NEW t \in Ticks, CancelledTickEnds(t) PROVE ShotInv'
  <2>1. /\ t \in cancelled /\ Quiet /\ running' = running /\ UNCHANGED <<mem, disk, log>>
        /\ \A u \in Ticks : u # t => tick'[u] = tick[u] /\ attached'[u] = attached[u]
        /\ \A u \in Ticks : Live(u)' <=> Live(u)
    BY <1>4, CancelledIs, CancelledTicks
  <2>2. \A u \in Ticks : Live(u)' =>
          /\ (tick'[u].due \cup {tick'[u].job}) \cap shot' = {}
          /\ \A j \in attached'[u] \cap OneShots : At[j] <= now'
    BY <1>1, <2>1 DEF Live, Quiet
  <2> QED
    BY <1>1, <2>1, <2>2, ShotFollows DEF Quiet
<1>5. ASSUME NEW j \in Jobs,
             \/ AddJob(j) \/ OtherAdd(j) \/ RemoveJob(j) \/ UpdateJob(j)
             \/ RegisterSystemJob(j) \/ \E on \in BOOLEAN : EnableJob(j, on)
      PROVE  ShotInv'
  <2>1. /\ running' = running
        /\ running /\ ~OtherAdd(j) => Arms(mem', tick)
        /\ ~running \/ OtherAdd(j) => Same
    BY <1>5, RunningEdits
  <2>2. /\ Quiet /\ Sane(mem') /\ Sane(disk') /\ LogShot(log', shot)
        /\ running => SpentIn(mem', shot)
    BY <1>5, EditShot
  <2>3. CASE running /\ ~OtherAdd(j)
    BY <1>1, <2>1, <2>2, <2>3, ArmsShot DEF Quiet
  <2>4. CASE ~running
    <3>1. \A u \in Ticks : ~Live(u)
      BY <2>4, Constants DEF TickInv
    <3>2. \A u \in Ticks : ~Live(u)'
      BY <2>1, <2>4, <3>1, SameKeeps
    <3> QED
      BY <1>1, <2>1, <2>2, <2>4, <3>2, ShotFollows DEF Quiet
  <2>5. CASE OtherAdd(j)
    <3>1. UNCHANGED <<mem, disk, attached, tick>>
      BY <2>5 DEF OtherAdd, timers
    <3>2. \A u \in Ticks : Live(u)' <=> Live(u)
      BY <2>1, <2>5, SameKeeps
    <3> QED
      BY <1>1, <2>1, <2>2, <3>1, <3>2, ShotFollows DEF Quiet
  <2> QED
    BY <2>3, <2>4, <2>5
<1>6. ASSUME Start PROVE ShotInv'
  <2>1. /\ Arms(mem', tick) /\ mem' = Rescheduled(View) /\ log' = LogAfter(TRUE) /\ Quiet
    BY <1>6, StartArms, StartIs
  <2>2. Sane(View) /\ View \in JobMap /\ LogShot(LogAfter(TRUE), shot)
    BY LoadShot, LoadIs
  <2>3. /\ DOMAIN mem' = DOMAIN View
        /\ \A j \in DOMAIN View :
             /\ mem'[j].on => mem'[j].next = NextRun(j, now)
             /\ mem'[j].next \in {View[j].next, NextRun(j, now)}
    BY <1>2, <2>1, <2>2, RescheduledIs
  <2>4. Sane(mem') /\ SpentIn(mem', shot)
    <3> SUFFICES ASSUME NEW j \in DOMAIN mem'
                 PROVE  SaneState(j, mem'[j]) /\ (j \in shot => SpentState(mem'[j]))
      BY DEF Sane, SpentIn
    <3>1. j \in Jobs /\ SaneState(j, View[j])
      BY <2>2, <2>3, JobMapIs DEF Sane
    <3>2. mem'[j].next = View[j].next => SaneState(j, mem'[j])
      BY <3>1 DEF SaneState
    <3> QED
      BY <2>3, <3>1, <3>2, NewStateShot
  <2> QED
    BY <1>1, <2>1, <2>2, <2>4, ArmsShot DEF Quiet
<1>7. ASSUME ListJobs PROVE ShotInv'
  <2>1. /\ Quiet /\ running' = running /\ tick' = tick /\ attached' = Attached
        /\ mem' = View /\ disk' = DiskAfter(running) /\ log' = LogAfter(running)
        /\ \A u \in Ticks : Live(u)' <=> Live(u)
    BY <1>7, ListIs, SameTicks, SameKeeps
  <2>2. /\ Sane(View) /\ Sane(DiskAfter(running)) /\ LogShot(LogAfter(running), shot)
        /\ running => SpentIn(View, shot)
        /\ running /\ (\A t \in Ticks : ~Live(t)) => SpentIn(DiskAfter(running), shot)
    BY <1>2, LoadShot
  <2>3. \A u \in Ticks : Live(u) => timerActive
    BY DEF OneTickInv, Live
  <2>4. \A u \in Ticks : Live(u)' =>
          /\ (tick'[u].due \cup {tick'[u].job}) \cap shot' = {}
          /\ \A j \in attached'[u] \cap OneShots : At[j] <= now'
    BY <1>1, <2>1, <2>3, HeldIs DEF Quiet
  <2> QED
    BY <1>1, <2>1, <2>2, <2>4, ShotFollows DEF Quiet
<1>8. ASSUME Clock \/ UNCHANGED vars PROVE ShotInv'
  <2>1. /\ now <= now' /\ now' \in Nat
        /\ UNCHANGED <<mem, disk, log, running, attached, shot, tick, cancelled>>
    BY <1>8, PassIs, Constants DEF TypeInv, CallsOK
  <2>2. \A u \in Ticks : Live(u)' <=> Live(u)
    BY <2>1 DEF Live
  <2>3. \A j \in Jobs : At[j] <= now => At[j] <= now'
    BY <1>2, <2>1
  <2>4. OneShots \subseteq Jobs
    BY DEF OneShots
  <2>5. \A j \in shot' : At[j] <= now'
    BY <1>1, <2>1, <2>3, <2>4
  <2>6. \A u \in Ticks : Live(u)' =>
          /\ (tick'[u].due \cup {tick'[u].job}) \cap shot' = {}
          /\ \A j \in attached'[u] \cap OneShots : At[j] <= now'
    BY <1>1, <2>1, <2>2, <2>3, <2>4
  <2> QED
    BY <1>1, <2>1, <2>2, <2>5, <2>6, ShotFollows
<1>9. ASSUME Stop PROVE ShotInv'
  <2>1. /\ Quiet /\ running' = FALSE /\ UNCHANGED <<mem, disk, log>>
        /\ \A t \in Ticks : ~Live(t)'
    BY <1>9, StopIs, StopTicks
  <2> QED
    BY <1>1, <2>1, ShotFollows DEF Quiet
<1>10. ASSUME Crash \/ CrashInMerge PROVE ShotInv'
  <2>1. /\ running' = FALSE /\ mem' = disk /\ disk' = disk /\ shot' = shot /\ now' = now
        /\ log' = log \/ log' = <<>>
        /\ \A t \in Ticks : ~Live(t)'
    BY <1>10, CrashIs, LostTicks DEF Lost
  <2>2. LogShot(<<>>, shot)
    BY NoLines DEF LogShot
  <2> QED
    BY <1>1, <2>1, <2>2, ShotFollows
<1>11. /\ ~RunJobDone /\ ~OtherAppend
       /\ \A j \in Jobs : ~RunJob(j) /\ ~OtherLoad(j)
  BY DEF TickInv, RunJob, RunJobDone, OtherAppend, OtherLoad, Alone, Call
<1> QED
  BY <1>3, <1>4, <1>5, <1>6, <1>7, <1>8, <1>9, <1>10, <1>11 DEF Next, Finished

\* A job begins to run only out of what was due when the timer woke.
LEMMA BeginsDue ==
  ASSUME TypeInv, TickInv, OneTickInv, Alone, {"run", "other"} \cap Ops = {},
         [Next]_vars, NEW t \in Ticks, tick'[t].pc = "executing", tick'[t].job # tick[t].job
  PROVE  \/ running /\ tick'[t].job \in Due(View)
         \/ Live(t) /\ tick'[t].job \in tick[t].due
<1>1. ASSUME NEW jobs, NEW ticks, Arms(jobs, ticks) PROVE FALSE
  <2>1. tick'[t] = ticks[t] /\ ticks[t].pc = "executing"
    BY <1>1, ArmsTicks
  <2> QED
    BY <1>1, <2>1 DEF Arms, Idle
<1>2. ASSUME NEW u \in Ticks, TickWake(u)
      PROVE  running /\ tick'[t].job \in Due(View)
  <2>1. /\ running
        /\ \/ Arms(View, [tick EXCEPT ![u] = Idle])
           \/ WakesDue(u)
    BY <1>2, WakeArms
  <2> QED
    BY <1>1, <2>1 DEF WakesDue
<1>3. ASSUME NEW u \in Ticks, TickJobDone(u)
      PROVE  Live(t) /\ tick'[t].job \in tick[t].due
  <2>1. Live(u) /\ (GoesOn(u) \/ Arms(mem', [tick EXCEPT ![u] = Idle]))
    BY <1>3, DoneArms
  <2> QED
    BY <1>1, <2>1 DEF GoesOn
<1>4. ASSUME NEW u \in Ticks, CancelledTickEnds(u) PROVE FALSE
  <2>1. tick'[u] = Idle /\ \A v \in Ticks : v # u => tick'[v] = tick[v]
    BY <1>4, CancelledIs
  <2> QED
    BY <2>1 DEF Idle
<1>5. ASSUME NEW j \in Jobs,
             \/ AddJob(j) \/ OtherAdd(j) \/ RemoveJob(j) \/ UpdateJob(j)
             \/ RegisterSystemJob(j) \/ \E on \in BOOLEAN : EnableJob(j, on)
      PROVE  FALSE
  BY <1>1, <1>5, RunningEdits DEF Same
<1>6. ASSUME Start PROVE FALSE
  BY <1>1, <1>6, StartArms
<1>7. ASSUME ListJobs \/ Clock \/ UNCHANGED vars PROVE FALSE
  BY <1>7, SameTicks DEF Same
<1>8. ASSUME Stop PROVE FALSE
  BY <1>8, StopIs DEF Idle
<1>9. ASSUME Crash \/ CrashInMerge PROVE FALSE
  BY <1>9, LostTicks
<1>10. /\ ~RunJobDone /\ ~OtherAppend
       /\ \A j \in Jobs : ~RunJob(j) /\ ~OtherLoad(j)
  BY DEF TickInv, RunJob, RunJobDone, OtherAppend, OtherLoad, Alone, Call
<1> QED
  BY <1>2, <1>3, <1>4, <1>5, <1>6, <1>7, <1>8, <1>9, <1>10 DEF Next, Finished

\* The timer never begins a one-shot that it has already run to its end,
\* whatever is rescheduled, re-enabled, restarted or lost in a crash.
THEOREM OneShotsOnce ==
  ASSUME ~SlowCancel, {"run", "other"} \cap Ops = {}
  PROVE  Spec => OneShotOnce
<1>1. Init => Alone
  BY DEF Init, Alone
<1>2. TypeInv /\ Alone /\ [Next]_vars => Alone'
  BY NoOther
<1>3. TypeInv /\ TickInv /\ [Next]_vars => TickInv'
  BY TickStep
<1>4. TypeInv /\ TickInv /\ OneTickInv /\ Alone /\ [Next]_vars => OneTickInv'
  BY OneTickStep
<1>5. TypeInv /\ TickInv /\ OneTickInv /\ ShotInv /\ Alone /\ [Next]_vars => ShotInv'
  BY ShotStep
<1>6. TypeInv /\ TickInv /\ OneTickInv /\ ShotInv /\ Alone /\ [Next]_vars
        => [\A t \in Ticks :
              tick'[t].pc = "executing" /\ tick'[t].job # tick[t].job
                => tick'[t].job \notin shot]_vars
  <2> SUFFICES ASSUME TypeInv, TickInv, OneTickInv, ShotInv, Alone, [Next]_vars,
                      NEW t \in Ticks, tick'[t].pc = "executing", tick'[t].job # tick[t].job
               PROVE  tick'[t].job \notin shot
    OBVIOUS
  <2>1. \/ running /\ tick'[t].job \in Due(View)
        \/ Live(t) /\ tick'[t].job \in tick[t].due
    BY BeginsDue
  <2> QED
    BY <2>1, DueShot DEF ShotInv
<1> QED
  BY <1>1, <1>2, <1>3, <1>4, <1>5, <1>6, TypeInit, TypeStep, TickInit, OneTickInit, ShotInit,
     PTL DEF Spec, OneShotOnce

-----------------------------------------------------------------------------
(***************************************************************************)
(* Every run that ended is recorded                                        *)
(***************************************************************************)

\* Jobs that may be missing from the store for good.
Gone == removed \cup {j \in shot : Kind[j] = "atDelete"}

Records(jobs) == \A j \in DOMAIN jobs : jobs[j].runs = completed[j]
LogRecords(l) == \A x \in Puts(l) : x.state.runs = completed[x.job]
Survive(jobs) == \A j \in Jobs : completed[j] # 0 => j \in Gone \cup DOMAIN jobs

\* The pinned memory counts every run that ended; the file counts them
\* too unless an execution has still to be saved, the lines of the log always.
RunsInv ==
  /\ timerActive => /\ Records(mem)
                    /\ DOMAIN disk \subseteq DOMAIN mem \cup Gone
                    /\ DOMAIN mem \subseteq DOMAIN disk
  /\ (\A t \in Ticks : ~Live(t)) =>
       \A j \in DOMAIN disk \ Named(log) : disk[j].runs = completed[j]
  /\ LogRecords(log)
  /\ Survive(disk)

LEMMA RunsInit == Init => RunsInv
<1> SUFFICES ASSUME Init PROVE RunsInv
  OBVIOUS
<1>1. /\ timerActive = FALSE /\ log = <<>> /\ \A j \in Jobs : completed[j] = 0
      /\ \A j \in DOMAIN disk : j \in Jobs /\ disk[j].runs = 0
  BY Constants DEF Init
<1>2. LogRecords(log)
  BY <1>1, NoLines DEF LogRecords
<1> QED
  BY <1>1, <1>2 DEF RunsInv, Survive

\* What a load returns counts every run that ended, whether it is pinned or
\* merged from the file and the log; and it holds every job that ever ran and
\* is not gone.
LEMMA ViewRuns ==
  ASSUME TypeInv, OneTickInv, EditsInv, RunsInv
  PROVE  /\ Records(View) /\ Survive(View)
         /\ DOMAIN disk \subseteq DOMAIN View \cup Gone
<1>1. /\ timerActive => Records(mem) /\ DOMAIN disk \subseteq DOMAIN mem \cup Gone
      /\ (\A t \in Ticks : ~Live(t)) =>
           \A j \in DOMAIN disk \ Named(log) : disk[j].runs = completed[j]
      /\ LogRecords(log) /\ Survive(disk) /\ timerActive \in BOOLEAN
  BY DEF RunsInv, TypeInv, CallsOK
<1>2. /\ DOMAIN Merged = PutJobs(log) \cup (DOMAIN disk \ Named(log))
      /\ \A j \in DOMAIN Merged \ Named(log) : Merged[j] = disk[j]
      /\ \A j \in DOMAIN Merged \cap Named(log) :
           \E x \in Puts(log) : x.job = j /\ Merged[j] = x.state
      /\ PutJobs(log) \subseteq Named(log)
  BY MergedIs, LogShrinks
<1>3. Named(log) \ PutJobs(log) \subseteq removed
  BY DEF EditsInv, Kept
<1>4. DOMAIN disk \subseteq DOMAIN View \cup Gone
  <2>1. CASE timerActive
    BY <1>1, <2>1, LoadIs
  <2>2. CASE ~timerActive
    BY <1>2, <1>3, <2>2, LoadIs DEF Gone
  <2> QED
    BY <2>1, <2>2
<1>5. Records(View)
  <2>1. CASE timerActive
    BY <1>1, <2>1, LoadIs
  <2>2. CASE ~timerActive
    <3>1. \A t \in Ticks : ~Live(t)
      BY <2>2 DEF OneTickInv, Live
    <3>2. Records(Merged)
      BY <1>1, <1>2, <3>1 DEF Records, LogRecords
    <3> QED
      BY <2>2, <3>2, LoadIs
  <2> QED
    BY <2>1, <2>2
<1> QED
  BY <1>1, <1>4, <1>5 DEF Survive

\* A load by a running instance that is not pinned leaves the file equal to
\* what it returns.
LEMMA ConsumedRuns ==
  ASSUME TypeInv, ~timerActive
  PROVE  DiskAfter(TRUE) = View /\ View = Merged
<1>1. /\ View = Merged
      /\ DiskAfter(TRUE) = Merged \/ (DiskAfter(TRUE) = disk /\ ~Applies)
  BY LoadIs
<1>2. ~Applies => Merged = disk
  BY NothingApplies DEF TypeInv, StoreOK
<1> QED
  BY <1>1, <1>2

\* A job that is new, or a system job that is not in the store, has not run.
LEMMA NotRun ==
  ASSUME TypeInv, OneTickInv, EditsInv, RunsInv, \A j \in System : Kind[j] # "atDelete",
         NEW j \in Jobs, Fresh(j) \/ (j \in System /\ j \notin DOMAIN View)
  PROVE  completed[j] = 0
<1>1. j \in Gone \cup DOMAIN disk \/ completed[j] = 0
  BY DEF RunsInv, Survive
<1>2. /\ DOMAIN disk \subseteq DOMAIN View \cup Gone
      /\ removed \cap System = {}
  BY ViewRuns DEF EditsInv, Kept
<1>3. CASE Fresh(j)
  <2>1. /\ j \notin removed /\ j \notin shot /\ j \notin DOMAIN mem
        /\ j \notin DOMAIN Merged
    BY <1>3 DEF Fresh
  <2>2. j \notin DOMAIN View
    BY <2>1 DEF View
  <2> QED
    BY <1>1, <1>2, <2>1, <2>2 DEF Gone
<1>4. CASE j \in System /\ j \notin DOMAIN View
  BY <1>1, <1>2, <1>4 DEF Gone
<1> QED
  BY <1>3, <1>4

\* After arming the file is the memory.
LEMMA ArmsRuns ==
  ASSUME TypeInv, TickInv, NEW jobs, NEW ticks, Arms(jobs, ticks),
         \A j \in DOMAIN jobs : jobs[j].runs = completed'[j],
         \A x \in Puts(log') : x.state.runs = completed'[x.job],
         \A j \in Jobs : completed'[j] # 0 => j \in Gone' \cup DOMAIN jobs
  PROVE  RunsInv'
<1>1. mem' = jobs /\ disk' = jobs
  BY DEF Arms
<1>2. Records(mem)' /\ LogRecords(log)' /\ Survive(disk)'
  BY <1>1 DEF Records, LogRecords, Survive, Puts
<1>3. \A j \in DOMAIN disk' : disk'[j].runs = completed'[j]
  BY <1>1
<1> QED
  BY <1>1, <1>2, <1>3 DEF RunsInv

LEMMA RunsFollow ==
  ASSUME timerActive' => /\ \A j \in DOMAIN mem' : mem'[j].runs = completed'[j]
                         /\ DOMAIN disk' \subseteq DOMAIN mem' \cup Gone'
                         /\ DOMAIN mem' \subseteq DOMAIN disk',
         (\A t \in Ticks : ~Live(t)') =>
           \A j \in DOMAIN disk' \ Named(log') : disk'[j].runs = completed'[j],
         \A x \in Puts(log') : x.state.runs = completed'[x.job],
         \A j \in Jobs : completed'[j] # 0 => j \in Gone' \cup DOMAIN disk'
  PROVE  RunsInv'
<1>1. Named(log)' = Named(log')
  BY DEF Named, NamedBy
<1>2. LogRecords(log)' /\ Survive(disk)'
  BY DEF LogRecords, Survive, Puts
<1>3. timerActive' => Records(mem)'
  BY DEF Records
<1> QED
  BY <1>1, <1>2, <1>3 DEF RunsInv

LEMMA WakeRuns ==
  ASSUME TypeInv, TickInv, OneTickInv, EditsInv, RunsInv, ~SlowCancel,
         NEW t \in Ticks, TickWake(t)
  PROVE  RunsInv'
<1>1. /\ completed' = completed /\ Gone' = Gone
      /\ timerActive = FALSE /\ \A u \in Ticks : ~Live(u)
  BY WakeAlone, TickWakeIs DEF Gone
<1>2. /\ running
      /\ \/ WakesEarly(t) /\ Arms(View, [tick EXCEPT ![t] = Idle])
         \/ WakesDue(t)
  BY WakeArms
<1>3. /\ \A j \in DOMAIN View : View[j].runs = completed[j]
      /\ \A j \in Jobs : completed[j] # 0 => j \in Gone \cup DOMAIN View
  BY ViewRuns DEF Records, Survive
<1>4. /\ mem' = View /\ disk' = View /\ log' = LogAfter(TRUE)
  BY <1>1, <1>2, ConsumedRuns DEF WakesEarly, WakesDue
<1>5. Puts(log') = {}
  BY <1>1, <1>4, LoadPuts
<1> QED
  BY <1>1, <1>3, <1>4, <1>5, RunsFollow

LEMMA DoneRuns ==
  ASSUME TypeInv, TickInv, OneTickInv, RunsInv, NEW t \in Ticks, TickJobDone(t)
  PROVE  RunsInv'
<1>1. /\ Live(t) /\ timerActive
      /\ GoesOn(t) \/ (Closes(t) /\ Arms(mem', [tick EXCEPT ![t] = Idle]))
  BY DoneArms DEF OneTickInv, Live
<1>2. /\ \A j \in DOMAIN mem : mem[j].runs = completed[j]
      /\ DOMAIN disk \subseteq DOMAIN mem \cup Gone /\ DOMAIN mem \subseteq DOMAIN disk
      /\ \A x \in Puts(log) : x.state.runs = completed[x.job]
      /\ \A j \in Jobs : completed[j] # 0 => j \in Gone \cup DOMAIN disk
  BY <1>1 DEF RunsInv, Records, LogRecords, Survive
<1>3. PICK j \in Jobs : j = tick[t].job
  BY TickDoneIs
<1>4. /\ j \in attached[t] /\ \A x \in Puts(log) : x.job # j
  BY <1>1, <1>3 DEF OneTickInv
<1>5. /\ mem \in JobMap /\ now \in Nat /\ attached[t] \subseteq DOMAIN mem
      /\ completed \in [Jobs -> Nat] /\ log \in Seq(Line)
  BY Constants DEF TypeInv, StoreOK, CallsOK, Runners, HistoryOK
<1>6. /\ mem' = Recorded(mem, j, TRUE)
      /\ completed' = [completed EXCEPT ![j] = @ + 1]
      /\ shot' = IF Kind[j] = "every" THEN shot ELSE shot \cup {j}
      /\ log' = log /\ removed' = removed
  <2>1. (j \in attached[t]) = TRUE
    BY <1>4
  <2> QED
    BY <1>3, <2>1, TickDoneIs
<1>7. /\ DOMAIN mem' = IF Kind[j] = "atDelete" THEN DOMAIN mem \ {j} ELSE DOMAIN mem
      /\ \A x \in DOMAIN mem \ {j} : mem'[x] = mem[x]
      /\ Kind[j] # "atDelete" => mem'[j].runs = mem[j].runs + 1
  <2>1. PICK n : n = Recorded(mem, j, TRUE)
    OBVIOUS
  <2>2. /\ DOMAIN n = IF Kind[j] = "atDelete" THEN DOMAIN mem \ {j} ELSE DOMAIN mem
        /\ \A x \in DOMAIN mem \ {j} : n[x] = mem[x]
        /\ Kind[j] # "atDelete" => n[j].runs = mem[j].runs + 1
    BY <1>4, <1>5, <2>1, RecordedIs, Zenon
  <2> QED
    BY <1>6, <2>1, <2>2
<1>8. /\ completed'[j] = completed[j] + 1
      /\ \A x \in Jobs : x # j => completed'[x] = completed[x]
      /\ Gone \subseteq Gone' /\ (Kind[j] = "atDelete" => j \in Gone')
  BY <1>5, <1>6 DEF Gone
<1>9. DOMAIN mem \subseteq Jobs /\ \A x \in Puts(log) : x.job \in Jobs
  BY <1>5, JobMapIs, LinesAre DEF PutLine
<1>10. \A x \in DOMAIN mem' : mem'[x].runs = completed'[x]
  <2> SUFFICES ASSUME NEW x \in DOMAIN mem' PROVE mem'[x].runs = completed'[x]
    OBVIOUS
  <2>1. CASE x # j
    BY <1>2, <1>7, <1>8, <1>9, <2>1
  <2>2. CASE x = j
    BY <1>2, <1>4, <1>5, <1>7, <1>8, <2>2
  <2> QED
    BY <2>1, <2>2
<1>11. \A x \in Puts(log') : x.state.runs = completed'[x.job]
  BY <1>2, <1>4, <1>6, <1>8, <1>9
<1>12. \A x \in Jobs : completed'[x] # 0 => x \in Gone' \cup DOMAIN mem'
  BY <1>2, <1>4, <1>5, <1>7, <1>8
<1>13. CASE Closes(t) /\ Arms(mem', [tick EXCEPT ![t] = Idle])
  BY <1>10, <1>11, <1>12, <1>13, ArmsRuns
<1>14. CASE GoesOn(t)
  <2>1. Live(t)' /\ disk' = disk
    BY <1>1, <1>14 DEF GoesOn, Live
  <2>2. /\ DOMAIN disk' \subseteq DOMAIN mem' \cup Gone'
        /\ DOMAIN mem' \subseteq DOMAIN disk'
    BY <1>2, <1>7, <1>8, <2>1
  <2> QED
    BY <1>10, <1>11, <1>12, <2>1, <2>2, RunsFollow
<1> QED
  BY <1>1, <1>13, <1>14

\* What a call of the API leaves in the memory counts every run that ended,
\* and so does the line it appends to the log.
LEMMA EditRuns ==
  ASSUME TypeInv, OneTickInv, EditsInv, RunsInv, \A x \in System : Kind[x] # "atDelete",
         NEW j \in Jobs,
         \/ AddJob(j) \/ OtherAdd(j) \/ RemoveJob(j) \/ UpdateJob(j)
         \/ RegisterSystemJob(j) \/ \E on \in BOOLEAN : EnableJob(j, on)
  PROVE  /\ Quiet /\ Gone \subseteq Gone'
         /\ LogRecords(log')
         /\ \/ /\ Records(mem')
               /\ \A x \in Jobs : completed[x] # 0 => x \in Gone' \cup DOMAIN mem'
               /\ disk' = mem'
            \/ /\ ~running \/ (OtherAdd(j) /\ mem' = mem)
               /\ disk' = disk /\ \E x \in Line : log' = Append(log, x)
<1>1. /\ Records(View) /\ Survive(View) /\ View \in JobMap
      /\ \A run \in BOOLEAN : LogRecords(LogAfter(run))
      /\ LogRecords(log) /\ log \in Seq(Line) /\ now \in Nat /\ running \in BOOLEAN
  <2>1. LogRecords(log) /\ log \in Seq(Line) /\ now \in Nat /\ running \in BOOLEAN
    BY Constants DEF RunsInv, TypeInv, StoreOK, CallsOK
  <2>2. \A run \in BOOLEAN : Puts(LogAfter(run)) \subseteq Puts(log) /\ View \in JobMap
    BY LoadIs, LogShrinks
  <2> QED
    BY <2>1, <2>2, ViewRuns DEF LogRecords
<1>2. ASSUME NEW s \in JobState, s.runs = completed[j]
      PROVE  /\ Records(Put(View, j, s)) /\ Survive(Put(View, j, s))
             /\ LogRecords(Append(log, [op |-> "put", job |-> j, state |-> s]))
             /\ [op |-> "put", job |-> j, state |-> s] \in Line
  <2>1. PICK n : n = Put(View, j, s)
    OBVIOUS
  <2>2. /\ DOMAIN n = DOMAIN View \cup {j} /\ n[j] = s
        /\ \A x \in DOMAIN View : x # j => n[x] = View[x]
    BY ZenonT(40), <1>1, <2>1, PutIs
  <2>3. Records(n) /\ Survive(n)
    BY <1>1, <1>2, <2>2 DEF Records, Survive
  <2>4. PICK line : line = [op |-> "put", job |-> j, state |-> s]
    OBVIOUS
  <2>5. line \in Line /\ line.op = "put" /\ line.job = j /\ line.state = s
    BY <2>4 DEF Line, PutLine
  <2>6. Puts(Append(log, line)) = Puts(log) \cup {line}
    BY <1>1, <2>5, AppendLine
  <2>7. LogRecords(Append(log, line))
    BY <1>1, <1>2, <2>5, <2>6 DEF LogRecords
  <2> QED
    BY <2>1, <2>3, <2>4, <2>5, <2>7
<1>3. CASE AddJob(j) \/ OtherAdd(j)
  <2>1. /\ Quiet /\ removed' = removed /\ Fresh(j)
        /\ \/ mem' = Put(View, j, FreshState(j)) /\ disk' = mem' /\ log' = LogAfter(TRUE)
           \/ /\ ~running \/ OtherAdd(j)
              /\ log' = Append(log, [op |-> "put", job |-> j, state |-> FreshState(j)])
              /\ mem' = mem /\ disk' = disk
    BY <1>3, AddIs
  <2>2. FreshState(j) \in JobState /\ FreshState(j).runs = completed[j]
    BY <1>1, <2>1, StatesOK, NotRun
  <2>3. Gone' = Gone
    BY <2>1 DEF Gone, Quiet
  <2>4. PICK s \in JobState : s = FreshState(j)
    BY <2>2
  <2>5. /\ Records(Put(View, j, s)) /\ Survive(Put(View, j, s))
        /\ LogRecords(Append(log, [op |-> "put", job |-> j, state |-> s]))
        /\ [op |-> "put", job |-> j, state |-> s] \in Line
    BY <1>2, <2>2, <2>4
  <2>6. CASE mem' = Put(View, j, s) /\ disk' = mem' /\ log' = LogAfter(TRUE)
    BY <1>1, <2>1, <2>3, <2>5, <2>6 DEF Survive
  <2>7. CASE /\ ~running \/ OtherAdd(j)
             /\ log' = Append(log, [op |-> "put", job |-> j, state |-> s])
             /\ mem' = mem /\ disk' = disk
    BY <2>1, <2>3, <2>5, <2>7
  <2> QED
    BY <2>1, <2>4, <2>6, <2>7
<1>4. CASE RemoveJob(j)
  <2>1. /\ Quiet /\ mem' = Without(View, j) /\ removed' = removed \cup {j}
        /\ \/ running /\ disk' = mem' /\ log' = LogAfter(TRUE)
           \/ ~running /\ disk' = disk /\ log' = Append(log, [op |-> "del", job |-> j])
    BY <1>4, RemoveIs
  <2>2. DOMAIN mem' = DOMAIN View \ {j} /\ \A x \in DOMAIN View \ {j} : mem'[x] = View[x]
    BY <1>1, <2>1, WithoutIs
  <2>3. Gone' = Gone \cup {j}
    BY <2>1 DEF Gone, Quiet
  <2>4. /\ Records(mem')
        /\ \A x \in Jobs : completed[x] # 0 => x \in Gone' \cup DOMAIN mem'
    BY <1>1, <2>2, <2>3 DEF Records, Survive
  <2>5. CASE running /\ disk' = mem' /\ log' = LogAfter(TRUE)
    BY <1>1, <2>1, <2>3, <2>4, <2>5
  <2>6. CASE ~running /\ disk' = disk /\ log' = Append(log, [op |-> "del", job |-> j])
    <3>1. PICK line : line = [op |-> "del", job |-> j]
      OBVIOUS
    <3>2. line \in Line /\ line.op # "put"
      BY <3>1 DEF Line, DelLine
    <3>3. Puts(Append(log, line)) = Puts(log)
      BY <1>1, <3>2, AppendLine
    <3>4. LogRecords(log')
      BY <1>1, <2>6, <3>1, <3>3 DEF LogRecords
    <3> QED
      BY <2>1, <2>3, <2>6, <3>1, <3>2, <3>4
  <2> QED
    BY <2>1, <2>5, <2>6
<1>5. CASE UpdateJob(j) \/ \E on \in BOOLEAN : EnableJob(j, on)
  <2>1. Quiet /\ j \in DOMAIN View /\ removed' = removed
    BY <1>5, RescheduleIs
  <2>2. PICK s \in JobState :
          /\ s.runs = View[j].runs
          /\ mem' = Put(View, j, s)
          /\ \/ running /\ disk' = mem' /\ log' = LogAfter(TRUE)
             \/ /\ ~running /\ disk' = disk
                /\ log' = Append(log, [op |-> "put", job |-> j, state |-> s])
    BY <1>5, RescheduleIs
  <2>3. s \in JobState /\ s.runs = completed[j]
    BY <1>1, <2>1, <2>2 DEF Records
  <2>4. Gone' = Gone
    BY <2>1 DEF Gone, Quiet
  <2>5. /\ Records(Put(View, j, s)) /\ Survive(Put(View, j, s))
        /\ LogRecords(Append(log, [op |-> "put", job |-> j, state |-> s]))
        /\ [op |-> "put", job |-> j, state |-> s] \in Line
    BY <1>2, <2>3
  <2>6. CASE running /\ disk' = mem' /\ log' = LogAfter(TRUE)
    BY <1>1, <2>1, <2>2, <2>4, <2>5, <2>6 DEF Survive
  <2>7. CASE /\ ~running /\ disk' = disk
             /\ log' = Append(log, [op |-> "put", job |-> j, state |-> s])
    BY <2>1, <2>4, <2>5, <2>7
  <2> QED
    BY <2>2, <2>6, <2>7
<1>6. CASE RegisterSystemJob(j)
  <2>1. Quiet /\ j \in System /\ removed' = removed
    BY <1>6, RegisterIs
  <2>2. PICK s \in JobState :
          /\ s.runs = IF j \in DOMAIN View THEN View[j].runs ELSE 0
          /\ mem' = Put(View, j, s) /\ disk' = mem' /\ log' = LogAfter(running)
    BY <1>6, RegisterIs
  <2>3. s \in JobState /\ s.runs = completed[j]
    BY <1>1, <2>1, <2>2, NotRun DEF Records
  <2>4. Gone' = Gone
    BY <2>1 DEF Gone, Quiet
  <2>5. Records(Put(View, j, s)) /\ Survive(Put(View, j, s))
    BY <1>2, <2>3
  <2> QED
    BY <1>1, <2>1, <2>2, <2>4, <2>5 DEF Survive
<1> QED
  BY <1>3, <1>4, <1>5, <1>6

LEMMA CrashRuns ==
  ASSUME TypeInv, RunsInv, Crash \/ CrashInMerge
  PROVE  RunsInv'
<1>1. /\ LogRecords(log) /\ Survive(disk) /\ timerActive' = FALSE /\ disk' = disk
      /\ shot' = shot
  BY CrashIs DEF RunsInv, Lost
<1>2. /\ Merged \in JobMap
      /\ DOMAIN Merged = PutJobs(log) \cup (DOMAIN disk \ Named(log))
      /\ \A j \in DOMAIN Merged \ Named(log) : Merged[j] = disk[j]
      /\ \A j \in DOMAIN Merged \cap Named(log) :
           \E x \in Puts(log) : x.job = j /\ Merged[j] = x.state
      /\ PutJobs(log) \subseteq Named(log)
      /\ disk \in JobMap /\ log \in Seq(Line)
  BY MergedIs, LogShrinks DEF TypeInv, StoreOK
<1>3. DOMAIN disk \subseteq Jobs /\ \A x \in Puts(log) : x.job \in Named(log) /\ x.job \in Jobs
  BY <1>2, JobMapIs, LinesAre DEF PutLine
<1>4. CASE /\ UNCHANGED <<log, added, removed>>
           /\ \A j \in Jobs : completed'[j] =
                IF j \in DOMAIN Merged THEN Merged[j].runs ELSE completed[j]
  <2>1. \A j \in Named(log) \cap Jobs : completed'[j] = completed[j]
    <3> SUFFICES ASSUME NEW j \in Named(log) \cap Jobs, j \in DOMAIN Merged
                 PROVE  Merged[j].runs = completed[j]
      BY <1>4
    <3>1. PICK x \in Puts(log) : x.job = j /\ Merged[j] = x.state
      BY <1>2
    <3> QED
      BY <1>1, <3>1 DEF LogRecords
  <2>2. \A j \in DOMAIN disk \ Named(log) : disk[j].runs = completed'[j]
    BY <1>2, <1>3, <1>4
  <2>3. \A x \in Puts(log) : x.state.runs = completed'[x.job]
    BY <1>1, <1>3, <2>1 DEF LogRecords
  <2>4. Gone' = Gone
    BY <1>1, <1>4 DEF Gone
  <2>5. \A j \in Jobs : completed'[j] # 0 => j \in Gone \cup DOMAIN disk
    <3> SUFFICES ASSUME NEW j \in Jobs, completed'[j] # 0, j \notin DOMAIN disk
                 PROVE  completed[j] # 0
      BY <1>1 DEF Survive
    <3> QED
      BY <1>2, <1>4, <2>1
  <2> QED
    BY <1>1, <1>4, <2>2, <2>3, <2>4, <2>5, RunsFollow
<1>5. CASE /\ log' = <<>> /\ removed' = removed \ DOMAIN disk
           /\ \A j \in Jobs : completed'[j] =
                IF j \in DOMAIN disk THEN disk[j].runs ELSE completed[j]
  <2>1. Gone' = (removed \ DOMAIN disk) \cup {j \in shot : Kind[j] = "atDelete"}
    BY <1>1, <1>5 DEF Gone
  <2>2. \A j \in Jobs : completed'[j] # 0 => j \in Gone' \cup DOMAIN disk'
    BY <1>1, <1>5, <2>1 DEF Gone, Survive
  <2>3. \A j \in DOMAIN disk' : disk'[j].runs = completed'[j]
    BY <1>1, <1>3, <1>5
  <2>4. Puts(log') = {}
    BY <1>5, NoLines
  <2> QED
    BY <1>1, <2>2, <2>3, <2>4, RunsFollow
<1> QED
  BY <1>4, <1>5, CrashIs

LEMMA RunsStep ==
  ASSUME TypeInv, TickInv, OneTickInv, ServedInv, EditsInv, RunsInv, ~SlowCancel,
         {"run", "stop", "other"} \cap Ops = {}, \A j \in System : Kind[j] # "atDelete",
         [Next]_vars
  PROVE  RunsInv'
<1>1. /\ timerActive => /\ \A j \in DOMAIN mem : mem[j].runs = completed[j]
                        /\ DOMAIN disk \subseteq DOMAIN mem \cup Gone
                        /\ DOMAIN mem \subseteq DOMAIN disk
      /\ (\A t \in Ticks : ~Live(t)) =>
           \A j \in DOMAIN disk \ Named(log) : disk[j].runs = completed[j]
      /\ \A x \in Puts(log) : x.state.runs = completed[x.job]
      /\ \A j \in Jobs : completed[j] # 0 => j \in Gone \cup DOMAIN disk
      /\ running \in BOOLEAN /\ log \in Seq(Line) /\ now \in Nat
  BY Constants DEF RunsInv, Records, LogRecords, Survive, TypeInv, CallsOK, StoreOK
<1>2. /\ \A j \in DOMAIN View : View[j].runs = completed[j]
      /\ \A j \in Jobs : completed[j] # 0 => j \in Gone \cup DOMAIN View
      /\ \A run \in BOOLEAN : \A x \in Puts(LogAfter(run)) : x.state.runs = completed[x.job]
  BY <1>1, ViewRuns, LogShrinks DEF Records, Survive
<1>3. ASSUME NEW t \in Ticks, TickWake(t) \/ TickJobDone(t) PROVE RunsInv'
  BY <1>3, WakeRuns, DoneRuns
<1>4. ASSUME NEW t \in Ticks, CancelledTickEnds(t) PROVE RunsInv'
  <2>1. /\ Quiet /\ UNCHANGED <<mem, disk, log, removed>> /\ timerActive' = FALSE
        /\ \A u \in Ticks : Live(u)' <=> Live(u)
    BY <1>4, CancelledIs, CancelledTicks
  <2>2. Gone' = Gone
    BY <2>1 DEF Gone, Quiet
  <2> QED
    BY <1>1, <2>1, <2>2, RunsFollow DEF Quiet
<1>5. ASSUME NEW j \in Jobs,
             \/ AddJob(j) \/ OtherAdd(j) \/ RemoveJob(j) \/ UpdateJob(j)
             \/ RegisterSystemJob(j) \/ \E on \in BOOLEAN : EnableJob(j, on)
      PROVE  RunsInv'
  <2>1. /\ timerActive' = timerActive /\ running' = running
        /\ ~running \/ OtherAdd(j) => \A u \in Ticks : Live(u)' <=> Live(u)
    BY <1>5, RunningEdits, SameKeeps
  <2>2. /\ Quiet /\ Gone \subseteq Gone' /\ LogRecords(log')
        /\ \/ /\ Records(mem')
              /\ \A x \in Jobs : completed[x] # 0 => x \in Gone' \cup DOMAIN mem'
              /\ disk' = mem'
           \/ /\ ~running \/ (OtherAdd(j) /\ mem' = mem)
              /\ disk' = disk /\ \E x \in Line : log' = Append(log, x)
    BY <1>5, EditRuns
  <2>3. completed' = completed /\ \A x \in Puts(log') : x.state.runs = completed[x.job]
    BY <2>2 DEF Quiet, LogRecords
  <2>4. CASE /\ Records(mem') /\ disk' = mem'
             /\ \A x \in Jobs : completed[x] # 0 => x \in Gone' \cup DOMAIN mem'
    BY <2>3, <2>4, RunsFollow DEF Records
  <2>5. CASE /\ ~running \/ (OtherAdd(j) /\ mem' = mem)
             /\ disk' = disk /\ \E x \in Line : log' = Append(log, x)
    <3>1. Named(log) \subseteq Named(log')
      BY <1>1, <2>5, AppendLine
    <3>2. timerActive' => timerActive /\ mem' = mem
      BY <2>1, <2>5 DEF ServedInv
    <3> QED
      BY <1>1, <2>1, <2>2, <2>3, <2>5, <3>1, <3>2, RunsFollow
  <2> QED
    BY <2>2, <2>4, <2>5
<1>6. ASSUME Start PROVE RunsInv'
  <2>1. /\ Arms(mem', tick) /\ mem' = Rescheduled(View) /\ log' = LogAfter(TRUE)
        /\ Quiet /\ removed' = removed /\ View \in JobMap
    BY <1>6, StartArms, StartIs, LoadIs
  <2>2. DOMAIN mem' = DOMAIN View /\ \A j \in DOMAIN View : mem'[j].runs = View[j].runs
    BY <1>1, <2>1, RescheduledIs
  <2>3. Gone' = Gone
    BY <2>1 DEF Gone, Quiet
  <2> QED
    BY <1>2, <2>1, <2>2, <2>3, ArmsRuns DEF Quiet
<1>7. ASSUME ListJobs PROVE RunsInv'
  <2>1. /\ Quiet /\ removed' = removed /\ timerActive' = timerActive
        /\ mem' = View /\ disk' = DiskAfter(running) /\ log' = LogAfter(running)
        /\ \A u \in Ticks : Live(u)' <=> Live(u)
    BY <1>7, ListIs, SameTicks, SameKeeps
  <2>2. Gone' = Gone
    BY <2>1 DEF Gone, Quiet
  <2>3. CASE timerActive
    <3>1. mem' = mem /\ disk' = disk /\ log' = log
      BY <1>1, <2>1, <2>3, LoadIs
    <3> QED
      BY <1>1, <2>1, <2>2, <3>1, RunsFollow DEF Quiet
  <2>4. CASE ~timerActive
    <3>1. \/ disk' = View
          \/ disk' = disk /\ log' = log
      BY <1>1, <2>1, <2>4, LoadIs
    <3> QED
      BY <1>1, <1>2, <2>1, <2>2, <2>4, <3>1, RunsFollow DEF Quiet
  <2> QED
    BY <2>3, <2>4
<1>8. ASSUME Clock \/ UNCHANGED vars PROVE RunsInv'
  <2>1. /\ UNCHANGED <<mem, disk, log, shot, tick, cancelled, removed, completed, timerActive>>
    BY <1>8, PassIs
  <2>2. Gone' = Gone /\ \A u \in Ticks : Live(u)' <=> Live(u)
    BY <2>1 DEF Live, Gone
  <2> QED
    BY <1>1, <2>1, <2>2, RunsFollow
<1>9. ASSUME Crash \/ CrashInMerge PROVE RunsInv'
  BY <1>9, CrashRuns
<1>10. /\ ~RunJobDone /\ ~OtherAppend /\ ~Stop
       /\ \A j \in Jobs : ~RunJob(j) /\ ~OtherLoad(j)
  BY DEF TickInv, RunJob, RunJobDone, OtherAppend, OtherLoad, EditsInv, Stop, Call
<1> QED
  BY <1>3, <1>4, <1>5, <1>6, <1>7, <1>8, <1>9, <1>10 DEF Next, Finished

\* Whenever nothing runs, what list_jobs() shows counts every run that ended
\* and survived the crashes: no poll, call of the API, cancelled timer, restart
\* or line of another instance's log rolls a recorded run back.
THEOREM EveryRunRecorded ==
  ASSUME ~SlowCancel, {"stop", "run", "other"} \cap Ops = {},
         \A j \in System : Kind[j] # "atDelete"
  PROVE  Spec => []RunsRecorded
<1>1. Init => ServedInv /\ Alone
  BY DEF Init, ServedInv, Alone
<1>2. TypeInv /\ Alone /\ [Next]_vars => Alone'
  BY NoOther
<1>3. TypeInv /\ TickInv /\ [Next]_vars => TickInv'
  BY TickStep
<1>4. TypeInv /\ TickInv /\ OneTickInv /\ Alone /\ [Next]_vars => OneTickInv'
  BY OneTickStep
<1>5. TypeInv /\ ServedInv /\ [Next]_vars => ServedInv'
  BY ServedStep
<1>6. TypeInv /\ ServedInv /\ EditsInv /\ [Next]_vars => EditsInv'
  BY EditsStep DEF ServedInv, EditAtRest
<1>7. TypeInv /\ TickInv /\ OneTickInv /\ ServedInv /\ EditsInv /\ RunsInv /\ [Next]_vars
        => RunsInv'
  BY RunsStep
<1>8. TypeInv /\ OneTickInv /\ EditsInv /\ RunsInv => RunsRecorded
  BY ViewRuns DEF RunsRecorded, Records
<1> QED
  BY <1>1, <1>2, <1>3, <1>4, <1>5, <1>6, <1>7, <1>8, TypeInit, TypeStep, TickInit, OneTickInit,
     EditsInit, RunsInit, PTL DEF Spec

=============================================================================
