--------------------------- MODULE Runtime_proofs ---------------------------
(***************************************************************************)
(* Proofs about the runtime and about the chain of providers it asks.      *)
(*                                                                         *)
(* RuntimeLifecycle, for all sets of agents and rooms, any number of       *)
(* changes of files and of calls of the console, whatever passes fail and  *)
(* whether or not profiles come back: between two passes no agent has two  *)
(* loops, and after stop() nothing runs.                                   *)
(*                                                                         *)
(* ProviderFailover, for all workspaces of instances, all orders of errors *)
(* and all limits: a standard request makes a bounded number of calls, and *)
(* every usable instance of the chain is asked before a trigger error is   *)
(* returned. The specifications stand side by side, each theorem is of one *)
(* of them.                                                                *)
(***************************************************************************)
EXTENDS RuntimeLifecycle, ProviderFailover, SequenceTheorems, FiniteSetTheorems,
        NaturalsInduction, WellFoundedInduction, TLAPS

-----------------------------------------------------------------------------
(***************************************************************************)
(* The sequence of victims                                                 *)
(***************************************************************************)

\* SetToSeq lists every element of a finite set.
LEMMA SetToSeqProperties ==
  ASSUME NEW S, IsFiniteSet(S)
  PROVE  SetToSeq(S) \in Seq(S) /\ Range(SetToSeq(S)) = S
<1> DEFINE n == Cardinality(S)
           Lists == {f \in [1..n -> S] : IsInjective(f)}
<1>1. n \in Nat /\ ExistsBijection(1..n, S)
  BY FS_CardinalityType
<1>2. \E f \in [1..n -> S] : IsInjective(f)
  BY <1>1 DEF ExistsBijection, Bijection, Injection
<1>3. SetToSeq(S) \in [1..n -> S] /\ IsInjective(SetToSeq(S))
  BY <1>2, Zenon DEF SetToSeq
<1>4. SetToSeq(S) \in Injection(1..n, S)
  BY <1>3 DEF Injection
<1>5. IsFiniteSet(1..n) /\ Cardinality(1..n) = n
  BY <1>1, FS_Interval
<1>6. SetToSeq(S) \in Surjection(1..n, S)
  BY <1>4, <1>5, FS_Injection
<1>7. Range(SetToSeq(S)) = S
  BY <1>6, <1>3 DEF Surjection, Range
<1>8. SetToSeq(S) \in Seq(S)
  BY <1>1, <1>3
<1> QED
  BY <1>7, <1>8

LEMMA SetToSeqOfAgents ==
  ASSUME NEW S, S \subseteq Agents
  PROVE  SetToSeq(S) \in Seq(Agents) /\ Range(SetToSeq(S)) = S
<1>1. IsFiniteSet(S)
  BY FS_Subset, ConstantsAssumption
<1> QED
  BY <1>1, SetToSeqProperties

LEMMA RangeOfConcat ==
  ASSUME NEW S, NEW s \in Seq(S), NEW t \in Seq(S)
  PROVE  s \o t \in Seq(S) /\ Range(s \o t) = Range(s) \cup Range(t)
<1>1. /\ s \o t \in Seq(S) /\ Len(s) \in Nat /\ Len(t) \in Nat
      /\ DOMAIN s = 1..Len(s) /\ DOMAIN t = 1..Len(t)
      /\ DOMAIN (s \o t) = 1..(Len(s) + Len(t))
  OBVIOUS
<1>2. \A i \in 1..(Len(s) + Len(t)) :
        (s \o t)[i] = IF i <= Len(s) THEN s[i] ELSE t[i - Len(s)]
  OBVIOUS
<1>3. Range(s \o t) \subseteq Range(s) \cup Range(t)
  <2> SUFFICES ASSUME NEW i \in 1..(Len(s) + Len(t))
               PROVE  (s \o t)[i] \in Range(s) \cup Range(t)
    BY <1>1 DEF Range
  <2> QED
    BY <1>1, <1>2 DEF Range
<1>4. Range(s) \subseteq Range(s \o t)
  BY <1>1, <1>2 DEF Range
<1>5. ASSUME NEW i \in DOMAIN t PROVE t[i] \in Range(s \o t)
  <2>1. i + Len(s) \in 1..(Len(s) + Len(t)) /\ (s \o t)[i + Len(s)] = t[i]
    BY <1>1, <1>2, <1>5
  <2> QED
    BY <2>1, <1>1 DEF Range
<1>6. Range(t) \subseteq Range(s \o t)
  BY <1>5 DEF Range
<1> QED
  BY <1>1, <1>3, <1>4, <1>6

LEMMA RangeOfTail ==
  ASSUME NEW S, NEW s \in Seq(S), s # <<>>
  PROVE  /\ Head(s) \in S /\ Tail(s) \in Seq(S)
         /\ Range(s) \subseteq {Head(s)} \cup Range(Tail(s))
<1>1. /\ Head(s) \in S /\ Tail(s) \in Seq(S) /\ Len(s) \in Nat \ {0}
      /\ DOMAIN s = 1..Len(s) /\ DOMAIN Tail(s) = 1..(Len(s) - 1)
      /\ \A i \in 1..(Len(s) - 1) : Tail(s)[i] = s[i + 1]
      /\ Head(s) = s[1]
  BY HeadTailProperties
<1>2. ASSUME NEW i \in DOMAIN s PROVE s[i] \in {Head(s)} \cup Range(Tail(s))
  <2>1. CASE i = 1
    BY <2>1, <1>1
  <2>2. CASE i # 1
    <3>1. i - 1 \in 1..(Len(s) - 1) /\ Tail(s)[i - 1] = s[i]
      BY <1>1, <1>2, <2>2
    <3> QED
      BY <3>1, <1>1 DEF Range
  <2> QED
    BY <2>1, <2>2
<1> QED
  BY <1>1, <1>2 DEF Range

-----------------------------------------------------------------------------
(***************************************************************************)
(* The invariant                                                           *)
(***************************************************************************)

\* A pass has victims only while it stops loops; the flag of the main agent is
\* set by a task, so there is one.
VictimsInv ==
  /\ pass.victims # <<>> => pass.stage \in {"team", "solo"}
  /\ running => main # <<>>

\* A task belongs to a loop, and the victim that a pass waits for has none.
TasksInv ==
  /\ \A a \in Agents : teamTask[a] # None => a \in teamLoops
  /\ soloTask \subseteq HasLoop
  /\ pass.victims # <<>> => ~HasTask(pass.stage, Head(pass.victims))

\* In the standalone part of a pass, what a member of a team still has of a
\* standalone loop is going to be stopped, and none will be built for it.
SoloInv ==
  pass.stage = "solo" =>
    /\ pass.desired \cap teamLoops = {}
    /\ HasLoop \cap teamLoops \subseteq Range(pass.victims)

\* What stop() has stopped so far.
StopInv ==
  /\ stop # "no" => pass.by = "reconciler"
  /\ stop = "reconciler" => pass.stage = "asleep" \/ pass.victims # <<>>
  /\ stop \in {"team", "solo", "main", "done"} =>
       pass.stage = "ended" /\ \A a \in Agents : teamTask[a] = None
  /\ stop \in {"solo", "main", "done"} => soloTask = {} /\ Ended("team")
  /\ stop \in {"main", "done"} =>
       /\ Ended("solo")
       /\ \A i \in DOMAIN main : main[i] \in {"cancelled", "done"}
  /\ stop = "done" => \A i \in DOMAIN main : main[i] = "done"

RuntimeInv == TypeOK /\ VictimsInv /\ TasksInv /\ SoloInv /\ OneLoopAtRest /\ StopInv

-----------------------------------------------------------------------------
(***************************************************************************)
(* Steps                                                                   *)
(***************************************************************************)

\* A pass goes on only until stop() cancels it.
LEMMA PassGoesOn ==
  ASSUME TypeOK, StopInv, VictimsInv
  PROVE  /\ TeamPassDue \/ IsAsleep => stop = "no"
         /\ pass.stage = "between" => stop = "no"
         /\ pass.stage \in {"team", "solo"} /\ pass.victims = <<>> => stop = "no"
<1>1. stop \in {"no", "reconciler", "team", "solo", "main", "done"}
  BY DEF TypeOK, StopStages
<1> QED
  BY <1>1 DEF StopInv, VictimsInv, TeamPassDue, IsAsleep

\* Cancelling a victim leaves it without a task and changes no other task.
LEMMA CancelFirstProperties ==
  ASSUME TypeOK, NEW k \in {"team", "solo"}, NEW victims \in Seq(Agents),
         CancelFirst(k, victims)
  PROVE  /\ teamTask' \in [Agents -> Rooms \cup {None}]
         /\ soloTask' \subseteq Agents /\ dying' \subseteq Task
         /\ \A a \in Agents : teamTask'[a] # None => teamTask[a] # None
         /\ soloTask' \subseteq soloTask
         /\ victims # <<>> => /\ k = "team" => teamTask'[Head(victims)] = None
                              /\ k = "solo" => Head(victims) \notin soloTask'
<1>1. /\ teamTask \in [Agents -> Rooms \cup {None}]
      /\ soloTask \subseteq Agents /\ dying \subseteq Task
  BY DEF TypeOK
<1>2. CASE victims = <<>>
  BY <1>1, <1>2 DEF CancelFirst
<1>3. CASE victims # <<>>
  <2> DEFINE a == Head(victims)
  <2>1. a \in Agents
    BY <1>3, RangeOfTail
  <2>2. <<k, a>> \in Task
    BY <2>1 DEF Task
  <2>3. dying' = dying \cup {t \in {<<k, a>>} : HasTask(k, a)}
    BY <1>3 DEF CancelFirst
  <2>4. dying' \subseteq Task
    BY <1>1, <2>2, <2>3
  <2>5. CASE k = "team"
    <3>1. teamTask' = [teamTask EXCEPT ![a] = None] /\ soloTask' = soloTask
      BY <1>3, <2>5 DEF CancelFirst
    <3> QED
      BY <1>1, <2>1, <2>4, <2>5, <3>1
  <2>6. CASE k = "solo"
    <3>1. soloTask' = soloTask \ {a} /\ teamTask' = teamTask
      BY <1>3, <2>6 DEF CancelFirst
    <3> QED
      BY <1>1, <2>1, <2>4, <2>6, <3>1
  <2> QED
    BY <2>5, <2>6
<1> QED
  BY <1>2, <1>3

\* The actions grouped by the variables they leave alone.
FileStep == EditTeams \/ EditProfile
PassStep == TeamPass \/ TeamPassFails \/ VictimStopped \/ TeamSpawn \/ SoloPass \/ SoloSpawn
StopStep == Stop \/ ReconcilerEnds \/ TeamTasksEnded \/ SoloTasksEnded \/ Stopped
MainStep ==
  \/ StartMain \/ StopMain \/ StopMainReturns \/ StopMainTimesOut
  \/ \E i \in DOMAIN main : MainStarts(i) \/ MainEnds(i)

\* A pass that has read nothing.
LEMMA NoPassType == NoPass \in Passes
<1>1. MaxEdits \in Nat
  BY ConstantsAssumption
<1>2. [a \in Agents |-> 1] \in [Agents -> Versions]
      /\ [a \in Agents |-> None] \in [Agents -> Rooms \cup {None}]
  BY <1>1 DEF Versions
<1>3. <<>> \in Seq(Agents) /\ 0 \in 0..MaxEdits
  BY <1>1
<1> QED
  BY <1>2, <1>3 DEF NoPass, Passes, Stages

LEMMA NoPassAt ==
  ASSUME NEW by \in {"start", "reconciler"}, NEW stage \in Stages, NEW p,
         p = [NoPass EXCEPT !.by = by, !.stage = stage]
  PROVE  /\ p \in Passes /\ p.by = by /\ p.stage = stage
         /\ p.victims = <<>> /\ p.desired = {}
BY NoPassType DEF NoPass, Passes

LEMMA InitialType == Init => TypeOK
<1> SUFFICES ASSUME Init PROVE TypeOK
  OBVIOUS
<1>1. MaxEdits \in Nat /\ MaxControls \in Nat
  BY ConstantsAssumption
<1>2. NoPass \in Passes
  BY NoPassType
<1>3. /\ room \in [Agents -> Rooms \cup {None}] /\ enabled \subseteq Agents
      /\ version \in [Agents -> Versions]
      /\ teamSig \in 0..MaxEdits /\ agentsSig \in 0..MaxEdits
  BY <1>1 DEF Init, Versions
<1>4. /\ teamLoops \subseteq Agents /\ teamTask \in [Agents -> Rooms \cup {None}]
      /\ soloLoop \in [Agents -> Versions \cup {0}] /\ soloFp = soloLoop
      /\ soloTask \subseteq Agents /\ dying \subseteq Task
  BY DEF Init
<1>5. lastTeam \in -1..MaxEdits /\ lastAgents \in -1..MaxEdits
  BY <1>1 DEF Init
<1>6. /\ main \in Seq({"new", "run", "cancelled", "done"}) /\ running \in BOOLEAN
      /\ waiting \in 0..Len(main) /\ controls \in 0..MaxControls
  <2>1. main = <<>> /\ running = FALSE /\ waiting = 0 /\ controls = 0
    BY DEF Init
  <2>2. main \in Seq({"new", "run", "cancelled", "done"}) /\ Len(main) = 0
    BY <2>1
  <2>3. 0 \in 0..MaxControls /\ 0 \in 0..0
    BY <1>1
  <2>4. waiting \in 0..Len(main) /\ controls \in 0..MaxControls
    BY <2>1, <2>2, <2>3, Zenon
  <2> QED
    BY <2>1, <2>2, <2>4
<1>7. pass \in Passes /\ stop \in StopStages
  BY <1>2 DEF Init, StopStages
<1> QED
  BY <1>3, <1>4, <1>5, <1>6, <1>7 DEF TypeOK

LEMMA FileType ==
  ASSUME TypeOK, FileStep
  PROVE  TypeOK'
<1>1. MaxEdits \in Nat /\ teamSig \in 0..MaxEdits /\ agentsSig \in 0..MaxEdits
  BY ConstantsAssumption DEF TypeOK
<1>2. UNCHANGED <<loops, pass, lastTeam, lastAgents, stop, mainVars>>
  BY DEF FileStep, EditTeams, EditProfile
<1>3. teamSig' \in 0..MaxEdits /\ agentsSig' \in 0..MaxEdits
  BY <1>1 DEF FileStep, EditTeams, EditProfile, MayEdit
<1>4. room' \in [Agents -> Rooms \cup {None}]
  BY DEF TypeOK, FileStep, EditTeams, EditProfile
<1>5. enabled' \subseteq Agents
  BY DEF TypeOK, FileStep, EditTeams, EditProfile, SymDiff
<1>6. version' \in [Agents -> Versions]
  BY DEF TypeOK, FileStep, EditTeams, EditProfile
<1> QED
  BY <1>2, <1>3, <1>4, <1>5, <1>6 DEF TypeOK, loops, mainVars

LEMMA TeamPassType ==
  ASSUME TypeOK, TeamPass
  PROVE  /\ TypeOK' /\ pass'.stage = "team"
         /\ CancelFirst("team", pass'.victims)
<1> DEFINE victims == SetToSeq(teamLoops \ Bound)
<1>1. teamLoops \subseteq Agents /\ pass \in Passes
      /\ room \in [Agents -> Rooms \cup {None}]
      /\ teamSig \in 0..MaxEdits /\ agentsSig \in 0..MaxEdits
  BY DEF TypeOK
<1>2. victims \in Seq(Agents)
  BY <1>1, SetToSeqOfAgents
<1>3. /\ pass' = [pass EXCEPT !.stage = "team", !.victims = victims, !.room = room,
                              !.teamSig = teamSig, !.agentsSig = agentsSig]
      /\ CancelFirst("team", victims)
      /\ teamLoops' = teamLoops \cup Bound
      /\ UNCHANGED <<files, soloLoop, soloFp, lastTeam, lastAgents, stop, mainVars>>
  BY DEF TeamPass
<1>4. PICK vs \in Seq(Agents) : vs = victims
  BY <1>2
<1>5. pass' = [pass EXCEPT !.stage = "team", !.victims = vs, !.room = room,
                           !.teamSig = teamSig, !.agentsSig = agentsSig]
      /\ CancelFirst("team", vs)
  BY <1>3, <1>4
<1>6. pass' \in Passes /\ pass'.stage = "team" /\ pass'.victims = vs
  BY <1>1, <1>5 DEF Passes, Stages
<1>7. teamTask' \in [Agents -> Rooms \cup {None}] /\ soloTask' \subseteq Agents
      /\ dying' \subseteq Task
  BY <1>5, CancelFirstProperties
<1>8. teamLoops' \subseteq Agents
  BY <1>1, <1>3 DEF Bound
<1> QED
  BY <1>3, <1>5, <1>6, <1>7, <1>8 DEF TypeOK, files, mainVars

LEMMA SoloPassType ==
  ASSUME TypeOK, SoloPass
  PROVE  /\ TypeOK' /\ pass'.stage = "solo" /\ pass'.by = pass.by
         /\ CancelFirst("solo", pass'.victims)
         /\ pass'.desired = SoloDesired
         /\ HasLoop \ SoloDesired \subseteq Range(pass'.victims)
<1> DEFINE drifted == {a \in SoloDesired \cap HasLoop : soloFp[a] # version[a]}
           first == SetToSeq(HasLoop \ SoloDesired)
           second == SetToSeq(drifted)
<1>1. /\ enabled \subseteq Agents /\ pass \in Passes
      /\ version \in [Agents -> Versions]
      /\ teamSig \in 0..MaxEdits /\ agentsSig \in 0..MaxEdits
  BY DEF TypeOK
<1>2. SoloDesired \subseteq Agents /\ HasLoop \subseteq Agents
  BY <1>1 DEF SoloDesired, HasLoop
<1>3. first \in Seq(Agents) /\ Range(first) = HasLoop \ SoloDesired /\ second \in Seq(Agents)
  BY <1>2, SetToSeqOfAgents
<1> HIDE DEF first, second
<1>9. first \o second \in Seq(Agents) /\ HasLoop \ SoloDesired \subseteq Range(first \o second)
  BY <1>3, RangeOfConcat
<1>4. PICK vs \in Seq(Agents) :
        vs = first \o second /\ HasLoop \ SoloDesired \subseteq Range(vs)
  BY <1>9
<1>5. PICK ts \in 0..MaxEdits, as \in 0..MaxEdits :
        /\ ts = IF pass.stage = "between" THEN pass.teamSig ELSE teamSig
        /\ as = IF pass.stage = "between" THEN pass.agentsSig ELSE agentsSig
  BY <1>1 DEF Passes
<1>6. /\ pass' = [pass EXCEPT !.stage = "solo", !.victims = vs,
                              !.desired = SoloDesired, !.version = version,
                              !.teamSig = ts, !.agentsSig = as]
      /\ CancelFirst("solo", vs)
      /\ UNCHANGED <<files, teamLoops, soloLoop, soloFp, lastTeam, lastAgents, stop, mainVars>>
  BY <1>4, <1>5 DEF SoloPass, first, second
<1>7. /\ pass' \in Passes /\ pass'.stage = "solo" /\ pass'.victims = vs
      /\ pass'.by = pass.by /\ pass'.desired = SoloDesired
  BY <1>1, <1>2, <1>6 DEF Passes, Stages
<1>8. teamTask' \in [Agents -> Rooms \cup {None}] /\ soloTask' \subseteq Agents
      /\ dying' \subseteq Task
  BY <1>6, CancelFirstProperties
<1> QED
  BY <1>4, <1>6, <1>7, <1>8 DEF TypeOK, files, mainVars

LEMMA VictimStoppedType ==
  ASSUME TypeOK, VictimStopped
  PROVE  /\ TypeOK'
         /\ pass'.stage = pass.stage /\ pass'.by = pass.by /\ pass'.desired = pass.desired
         /\ pass'.victims = Tail(pass.victims)
         /\ pass'.victims \in Seq(Agents)
         /\ CancelFirst(pass.stage, pass'.victims)
<1>1. /\ pass \in Passes /\ pass.victims \in Seq(Agents) /\ pass.victims # <<>>
      /\ pass.stage \in {"team", "solo"}
  BY DEF TypeOK, Passes, VictimStopped
<1>2. Head(pass.victims) \in Agents /\ Tail(pass.victims) \in Seq(Agents)
  BY <1>1, RangeOfTail
<1>3. PICK vs \in Seq(Agents) : vs = Tail(pass.victims)
  BY <1>2
<1>4. /\ pass' = [pass EXCEPT !.victims = vs]
      /\ CancelFirst(pass.stage, vs)
      /\ UNCHANGED <<files, lastTeam, lastAgents, stop, mainVars>>
  BY <1>3 DEF VictimStopped
<1>5. /\ pass' \in Passes /\ pass'.stage = pass.stage /\ pass'.by = pass.by
      /\ pass'.desired = pass.desired /\ pass'.victims = vs
  BY <1>1, <1>4 DEF Passes
<1>6. teamTask' \in [Agents -> Rooms \cup {None}] /\ soloTask' \subseteq Agents
      /\ dying' \subseteq Task
  BY <1>1, <1>4, CancelFirstProperties
<1>7. /\ teamLoops' \subseteq Agents
      /\ soloLoop' \in [Agents -> Versions \cup {0}]
      /\ soloFp' \in [Agents -> Versions \cup {0}]
  BY <1>2 DEF TypeOK, VictimStopped
<1> QED
  BY <1>3, <1>4, <1>5, <1>6, <1>7 DEF TypeOK, files, mainVars

LEMMA TeamSpawnType ==
  ASSUME TypeOK, TeamSpawn
  PROVE  /\ TypeOK' /\ pass'.stage = "between" /\ pass'.by = pass.by
         /\ pass'.victims = <<>>
<1>1. pass \in Passes
  BY DEF TypeOK
<1>2. /\ pass' \in Passes /\ pass'.stage = "between" /\ pass'.by = pass.by
      /\ pass'.victims = <<>>
  BY <1>1 DEF TeamSpawn, Passes, Stages
<1>3. teamTask' \in [Agents -> Rooms \cup {None}]
  BY DEF TypeOK, TeamSpawn, Passes
<1> QED
  BY <1>2, <1>3 DEF TeamSpawn, TypeOK, files, mainVars

LEMMA SoloSpawnType ==
  ASSUME TypeOK, SoloSpawn
  PROVE  /\ TypeOK' /\ pass' = [NoPass EXCEPT !.by = "reconciler", !.stage = "asleep"]
         /\ main # <<>> => main' # <<>>
<1>1. /\ pass \in Passes /\ main \in Seq({"new", "run", "cancelled", "done"})
      /\ version \in [Agents -> Versions] /\ waiting \in 0..Len(main)
  BY DEF TypeOK
<1>2. pass' = [NoPass EXCEPT !.by = "reconciler", !.stage = "asleep"]
  BY DEF SoloSpawn
<1>3. pass' \in Passes
  BY <1>2, NoPassAt DEF Stages
<1>4. /\ main' \in Seq({"new", "run", "cancelled", "done"}) /\ waiting' \in 0..Len(main')
      /\ main # <<>> => main' # <<>>
  <2>1. UNCHANGED waiting /\ (main' = Append(main, "new") \/ main' = main)
    BY DEF SoloSpawn
  <2> QED
    BY <1>1, <2>1
<1>5. lastTeam' \in -1..MaxEdits /\ lastAgents' \in -1..MaxEdits
  <2>1. \/ UNCHANGED <<lastTeam, lastAgents>>
        \/ lastTeam' = pass.teamSig /\ lastAgents' = pass.agentsSig
    BY DEF SoloSpawn, PassSignatures
  <2> QED
    BY SMTT(30), <1>1, <2>1, ConstantsAssumption DEF TypeOK, Passes
<1>6. /\ soloLoop' \in [Agents -> Versions \cup {0}]
      /\ soloFp' \in [Agents -> Versions \cup {0}]
      /\ soloTask' \subseteq Agents
  BY SMTT(30) DEF TypeOK, SoloSpawn, Passes, HasLoop
<1> QED
  BY <1>2, <1>3, <1>4, <1>5, <1>6 DEF SoloSpawn, TypeOK, files

LEMMA PassType ==
  ASSUME TypeOK, PassStep
  PROVE  TypeOK'
<1>1. CASE TeamPassFails
  BY <1>1, ConstantsAssumption DEF TeamPassFails, TypeOK, Bound, files, mainVars
<1> QED
  BY <1>1, TeamPassType, SoloPassType, VictimStoppedType, TeamSpawnType, SoloSpawnType
     DEF PassStep

LEMMA StopType ==
  ASSUME TypeOK, StopStep
  PROVE  TypeOK'
<1>1. CASE Stop
  BY <1>1 DEF Stop, TypeOK, StopStages, files, loops, mainVars
<1>2. CASE ReconcilerEnds
  <2>1. pass' \in Passes
    BY <1>2, NoPassAt DEF ReconcilerEnds, Stages
  <2>2. dying' \subseteq Task /\ teamTask' \in [Agents -> Rooms \cup {None}]
    BY <1>2 DEF ReconcilerEnds, TypeOK, AllTasks, Task
  <2> QED
    BY <1>2, <2>1, <2>2 DEF ReconcilerEnds, TypeOK, StopStages, files, mainVars
<1>3. CASE TeamTasksEnded
  <2>1. dying' \subseteq Task /\ soloTask' \subseteq Agents
    BY <1>3 DEF TeamTasksEnded, TypeOK, AllTasks, Task
  <2> QED
    BY <1>3, <2>1 DEF TeamTasksEnded, TypeOK, StopStages, files, mainVars
<1>4. CASE SoloTasksEnded
  <2>1. main' \in Seq({"new", "run", "cancelled", "done"}) /\ Len(main') = Len(main)
    <3>1. main \in [1..Len(main) -> {"new", "run", "cancelled", "done"}] /\ Len(main) \in Nat
      BY DEF TypeOK
    <3>2. main' = [i \in 1..Len(main) |-> IF main[i] = "done" THEN "done" ELSE "cancelled"]
      BY <1>4, <3>1 DEF SoloTasksEnded
    <3> QED
      BY <3>1, <3>2
  <2>2. teamLoops' \subseteq Agents /\ soloLoop' \in [Agents -> Versions \cup {0}]
    BY <1>4 DEF SoloTasksEnded
  <2> QED
    BY <1>4, <2>1, <2>2 DEF SoloTasksEnded, TypeOK, StopStages, files
<1>5. CASE Stopped
  BY <1>5 DEF Stopped, TypeOK, StopStages, files, loops, mainVars
<1> QED
  BY <1>1, <1>2, <1>3, <1>4, <1>5 DEF StopStep

LEMMA MainType ==
  ASSUME TypeOK, VictimsInv, MainStep
  PROVE  TypeOK'
<1>1. /\ main \in Seq({"new", "run", "cancelled", "done"}) /\ running \in BOOLEAN
      /\ waiting \in 0..Len(main) /\ controls \in 0..MaxControls /\ MaxControls \in Nat
      /\ Len(main) \in Nat
  BY ConstantsAssumption DEF TypeOK
<1>2. UNCHANGED <<files, loops, pass, lastTeam, lastAgents, stop>>
  BY DEF MainStep, StartMain, StopMain, StopMainReturns, StopMainTimesOut, MainStarts, MainEnds
<1>3. running' \in BOOLEAN
  BY <1>1 DEF MainStep, StartMain, StopMain, StopMainReturns, StopMainTimesOut, MainStarts,
              MainEnds
<1>4. controls' \in 0..MaxControls
  BY <1>1 DEF MainStep, StartMain, StopMain, StopMainReturns, StopMainTimesOut, MainStarts,
              MainEnds, MayControl
<1>5. /\ main' \in Seq({"new", "run", "cancelled", "done"}) /\ waiting' \in 0..Len(main')
  <2>1. CASE StartMain
    BY <1>1, <2>1 DEF StartMain
  <2>2. CASE StopMain
    <3>1. main' = main /\ main # <<>> /\ waiting' \in {0, 1}
      BY <2>2 DEF StopMain, IsMainRunning, VictimsInv
    <3> QED
      BY <1>1, <3>1
  <2>3. CASE StopMainReturns
    BY <1>1, <2>3 DEF StopMainReturns
  <2>4. CASE StopMainTimesOut
    BY <1>1, <2>4 DEF StopMainTimesOut
  <2>5. ASSUME NEW i \in DOMAIN main, MainStarts(i) \/ MainEnds(i)
        PROVE  /\ main' \in Seq({"new", "run", "cancelled", "done"})
               /\ waiting' \in 0..Len(main')
    BY <1>1, <2>5 DEF MainStarts, MainEnds
  <2> QED
    BY <2>1, <2>2, <2>3, <2>4, <2>5 DEF MainStep
<1> QED
  BY <1>2, <1>3, <1>4, <1>5 DEF TypeOK, files, loops

-----------------------------------------------------------------------------
(***************************************************************************)
(* The invariant is kept                                                   *)
(***************************************************************************)

LEMMA FileKeeps ==
  ASSUME RuntimeInv, FileStep
  PROVE  RuntimeInv'
<1>1. TypeOK'
  BY FileType DEF RuntimeInv
<1>2. UNCHANGED <<loops, pass, lastTeam, lastAgents, stop, mainVars>>
  BY DEF FileStep, EditTeams, EditProfile
<1> QED
  BY <1>1, <1>2 DEF RuntimeInv, VictimsInv, TasksInv, SoloInv, OneLoopAtRest, StopInv,
                    HasLoop, HasTask, Ended, loops, mainVars

LEMMA TeamPassKeeps ==
  ASSUME RuntimeInv, TeamPass
  PROVE  RuntimeInv'
<1>1. TypeOK' /\ pass'.stage = "team" /\ CancelFirst("team", pass'.victims)
  BY TeamPassType DEF RuntimeInv
<1>2. pass'.victims \in Seq(Agents) /\ "team" \in {"team", "solo"}
  BY <1>1 DEF TypeOK, Passes
<1>3. stop' = "no"
  BY PassGoesOn DEF RuntimeInv, TeamPass
<1>4. /\ \A a \in Agents : teamTask'[a] # None => teamTask[a] # None
      /\ soloTask' \subseteq soloTask
      /\ pass'.victims # <<>> => teamTask'[Head(pass'.victims)] = None
  BY <1>1, <1>2, CancelFirstProperties DEF RuntimeInv
<1>5. teamLoops \subseteq teamLoops' /\ HasLoop' = HasLoop /\ UNCHANGED <<running, main>>
  BY DEF TeamPass, HasLoop, mainVars
<1>6. VictimsInv'
  BY <1>1, <1>5 DEF VictimsInv, RuntimeInv
<1>7. TasksInv'
  BY <1>1, <1>4, <1>5 DEF TasksInv, RuntimeInv, HasTask
<1>8. SoloInv' /\ OneLoopAtRest' /\ StopInv'
  BY <1>1, <1>3 DEF SoloInv, OneLoopAtRest, StopInv
<1> QED
  BY <1>1, <1>6, <1>7, <1>8 DEF RuntimeInv

LEMMA TeamPassFailsKeeps ==
  ASSUME RuntimeInv, TeamPassFails
  PROVE  RuntimeInv'
<1>1. TypeOK'
  BY PassType DEF RuntimeInv, PassStep
<1>2. /\ teamLoops \subseteq teamLoops' /\ pass.stage = "asleep"
      /\ UNCHANGED <<teamTask, soloLoop, soloFp, soloTask, dying, pass, stop, mainVars>>
  BY DEF TeamPassFails, IsAsleep
<1> QED
  BY <1>1, <1>2 DEF RuntimeInv, VictimsInv, TasksInv, SoloInv, OneLoopAtRest, StopInv,
                    HasLoop, HasTask, Ended, mainVars

LEMMA VictimStoppedKeeps ==
  ASSUME RuntimeInv, VictimStopped
  PROVE  RuntimeInv'
<1> DEFINE a == Head(pass.victims)
<1>1. /\ TypeOK' /\ pass'.stage = pass.stage /\ pass'.by = pass.by
      /\ pass'.desired = pass.desired /\ pass'.victims = Tail(pass.victims)
      /\ pass'.victims \in Seq(Agents) /\ CancelFirst(pass.stage, pass'.victims)
  BY VictimStoppedType DEF RuntimeInv
<1>2. /\ stop' = "no" /\ pass.stage \in {"team", "solo"} /\ pass.victims # <<>>
      /\ pass.victims \in Seq(Agents) /\ UNCHANGED <<running, main>>
  BY DEF VictimStopped, RuntimeInv, TypeOK, Passes, mainVars
<1>3. /\ \A b \in Agents : teamTask'[b] # None => teamTask[b] # None
      /\ soloTask' \subseteq soloTask
      /\ pass'.victims # <<>> =>
           /\ pass.stage = "team" => teamTask'[Head(pass'.victims)] = None
           /\ pass.stage = "solo" => Head(pass'.victims) \notin soloTask'
  BY <1>1, <1>2, CancelFirstProperties DEF RuntimeInv
<1>4. a \in Agents /\ Range(pass.victims) \subseteq {a} \cup Range(pass'.victims)
  BY <1>1, <1>2, RangeOfTail
<1>5. VictimsInv' /\ OneLoopAtRest' /\ StopInv'
  BY <1>1, <1>2 DEF VictimsInv, RuntimeInv, OneLoopAtRest, StopInv
<1>6. CASE pass.stage = "team"
  <2>1. teamLoops' = teamLoops \ {a} /\ HasLoop' = HasLoop /\ teamTask[a] = None
    BY <1>2, <1>6 DEF VictimStopped, HasLoop, RuntimeInv, TasksInv, HasTask
  <2>2. TasksInv'
    BY <1>1, <1>2, <1>3, <1>4, <1>6, <2>1 DEF RuntimeInv, TasksInv, HasTask
  <2>3. SoloInv'
    BY <1>1, <1>6 DEF SoloInv
  <2> QED
    BY <1>1, <1>5, <2>2, <2>3 DEF RuntimeInv
<1>7. CASE pass.stage = "solo"
  <2>1. teamLoops' = teamLoops /\ soloLoop' = [soloLoop EXCEPT ![a] = 0] /\ a \notin soloTask
    BY <1>2, <1>7 DEF VictimStopped, RuntimeInv, TasksInv, HasTask
  <2>2. HasLoop' = HasLoop \ {a}
    BY <1>4, <2>1 DEF HasLoop, RuntimeInv, TypeOK
  <2>3. TasksInv'
    BY <1>1, <1>2, <1>3, <1>4, <1>7, <2>1, <2>2 DEF RuntimeInv, TasksInv, HasTask
  <2>4. SoloInv'
    BY <1>1, <1>4, <1>7, <2>1, <2>2 DEF SoloInv, RuntimeInv
  <2> QED
    BY <1>1, <1>5, <2>3, <2>4 DEF RuntimeInv
<1> QED
  BY <1>2, <1>6, <1>7

LEMMA TeamSpawnKeeps ==
  ASSUME RuntimeInv, TeamSpawn
  PROVE  RuntimeInv'
<1>1. TypeOK' /\ pass'.stage = "between" /\ pass'.by = pass.by /\ pass'.victims = <<>>
  BY TeamSpawnType DEF RuntimeInv
<1>2. stop' = "no"
  BY PassGoesOn DEF RuntimeInv, TeamSpawn
<1>3. /\ \A a \in Agents : teamTask'[a] # None => teamTask[a] # None \/ a \in teamLoops
      /\ UNCHANGED <<teamLoops, soloTask, running, main>> /\ HasLoop' = HasLoop
  BY DEF TeamSpawn, HasLoop, mainVars
<1> QED
  BY <1>1, <1>2, <1>3 DEF RuntimeInv, VictimsInv, TasksInv, SoloInv, OneLoopAtRest, StopInv

LEMMA SoloPassKeeps ==
  ASSUME RuntimeInv, SoloPass
  PROVE  RuntimeInv'
<1>1. /\ TypeOK' /\ pass'.stage = "solo" /\ CancelFirst("solo", pass'.victims)
      /\ pass'.desired = SoloDesired
      /\ HasLoop \ SoloDesired \subseteq Range(pass'.victims)
  BY SoloPassType DEF RuntimeInv
<1>2. pass'.victims \in Seq(Agents) /\ "solo" \in {"team", "solo"}
  BY <1>1 DEF TypeOK, Passes
<1>3. stop' = "no"
  BY PassGoesOn DEF RuntimeInv, SoloPass
<1>4. /\ \A a \in Agents : teamTask'[a] # None => teamTask[a] # None
      /\ soloTask' \subseteq soloTask
      /\ pass'.victims # <<>> => Head(pass'.victims) \notin soloTask'
  BY <1>1, <1>2, CancelFirstProperties DEF RuntimeInv
<1>5. UNCHANGED <<teamLoops, running, main>> /\ HasLoop' = HasLoop
  BY DEF SoloPass, HasLoop, mainVars
<1>6. TasksInv'
  BY <1>1, <1>4, <1>5 DEF TasksInv, RuntimeInv, HasTask
<1>7. SoloInv'
  BY <1>1, <1>5 DEF SoloInv, SoloDesired
<1>8. VictimsInv' /\ OneLoopAtRest' /\ StopInv'
  BY <1>1, <1>3, <1>5 DEF VictimsInv, RuntimeInv, OneLoopAtRest, StopInv
<1> QED
  BY <1>1, <1>6, <1>7, <1>8 DEF RuntimeInv

\* The loops that start to run are not those of members of teams: the loops of
\* members are stopped, and none has been built.
LEMMA SoloSpawnKeeps ==
  ASSUME RuntimeInv, SoloSpawn
  PROVE  RuntimeInv'
<1>1. /\ TypeOK'
      /\ main # <<>> => main' # <<>>
      /\ pass' = [NoPass EXCEPT !.by = "reconciler", !.stage = "asleep"]
  BY SoloSpawnType DEF RuntimeInv
<1>2. pass'.stage = "asleep" /\ pass'.by = "reconciler" /\ pass'.victims = <<>>
  BY ZenonT(40), <1>1, NoPassAt DEF Stages
<1>3. stop' = "no"
  BY PassGoesOn DEF RuntimeInv, SoloSpawn
<1>4. PICK built \in SUBSET (pass.desired \ HasLoop) :
        /\ soloLoop' = [a \in Agents |-> IF a \in built THEN version[a] ELSE soloLoop[a]]
        /\ soloTask' = soloTask \cup HasLoop \cup built
  BY DEF SoloSpawn
<1>5. UNCHANGED <<teamLoops, teamTask, running>>
  BY DEF SoloSpawn
<1>6. built \subseteq Agents /\ \A a \in Agents : version[a] # 0
  BY ConstantsAssumption DEF RuntimeInv, TypeOK, Passes, Versions
<1>7. HasLoop' = HasLoop \cup built
  BY <1>4, <1>6 DEF HasLoop
<1>8. Range(pass.victims) = {}
  BY DEF SoloSpawn, Range
<1>9. soloTask' = HasLoop' /\ HasLoop' \cap teamLoops = {}
  BY <1>4, <1>7, <1>8 DEF RuntimeInv, TasksInv, SoloInv, SoloSpawn
<1>10. TasksInv'
  BY <1>2, <1>5, <1>9 DEF RuntimeInv, TasksInv
<1>11. OneLoopAtRest'
  BY <1>5, <1>9 DEF RuntimeInv, TasksInv, OneLoopAtRest
<1>12. VictimsInv' /\ SoloInv' /\ StopInv'
  <2>1. VictimsInv'
    <3>1. pass'.victims = <<>> /\ (main # <<>> => main' # <<>>) /\ running' = running
      BY <1>2, <1>5, SoloSpawnType DEF RuntimeInv
    <3> QED
      BY <3>1 DEF RuntimeInv, VictimsInv
  <2>2. SoloInv'
    BY <1>2 DEF SoloInv
  <2>3. StopInv'
    BY <1>2, <1>3 DEF StopInv
  <2> QED
    BY <2>1, <2>2, <2>3
<1>13. TypeOK'
  BY <1>1
<1> QED
  BY <1>10, <1>11, <1>12, <1>13 DEF RuntimeInv

LEMMA StopKeeps ==
  ASSUME RuntimeInv, StopStep
  PROVE  RuntimeInv'
<1>1. TypeOK'
  BY StopType DEF RuntimeInv
<1>2. CASE Stop
  BY <1>1, <1>2 DEF Stop, RuntimeInv, VictimsInv, TasksInv, SoloInv, OneLoopAtRest, StopInv,
                    HasLoop, HasTask, loops, mainVars
<1>3. CASE ReconcilerEnds
  <2>1. pass'.victims = <<>> /\ pass'.stage = "ended" /\ pass'.by = "reconciler"
    BY ZenonT(40), <1>3, NoPassAt DEF ReconcilerEnds, Stages
  <2>2. /\ \A a \in Agents : teamTask'[a] = None
        /\ stop' = "team" /\ UNCHANGED <<soloTask, main, running>> /\ HasLoop' = HasLoop
    BY <1>3 DEF ReconcilerEnds, HasLoop, mainVars
  <2> QED
    BY <1>1, <2>1, <2>2 DEF RuntimeInv, VictimsInv, TasksInv, SoloInv, OneLoopAtRest, StopInv
<1>4. CASE TeamTasksEnded
  <2>1. pass.stage = "ended" /\ \A a \in Agents : teamTask[a] = None
    BY <1>4 DEF TeamTasksEnded, RuntimeInv, StopInv
  <2>2. Ended("team")'
    BY <1>4 DEF TeamTasksEnded, Ended, AllTasks
  <2>3. /\ soloTask' = {} /\ stop' = "solo" /\ HasLoop' = HasLoop
        /\ UNCHANGED <<teamLoops, teamTask, pass, main, running>> /\ stop # "no"
    BY <1>4 DEF TeamTasksEnded, HasLoop, mainVars
  <2>4. pass.victims = <<>> /\ pass.by = "reconciler"
    BY <2>1, <2>3 DEF RuntimeInv, VictimsInv, StopInv
  <2> QED
    BY <1>1, <2>1, <2>2, <2>3, <2>4
       DEF RuntimeInv, VictimsInv, TasksInv, SoloInv, OneLoopAtRest, StopInv
<1>5. CASE SoloTasksEnded
  <2>1. /\ pass.stage = "ended" /\ \A a \in Agents : teamTask[a] = None
        /\ soloTask = {} /\ Ended("team") /\ Ended("solo")
    BY <1>5 DEF SoloTasksEnded, RuntimeInv, StopInv
  <2>2. /\ UNCHANGED <<teamTask, soloTask, dying, pass>> /\ stop' = "main" /\ running' = FALSE
        /\ stop # "no"
        /\ \A i \in DOMAIN main' : main'[i] \in {"cancelled", "done"}
    BY <1>5 DEF SoloTasksEnded
  <2>3. pass.victims = <<>> /\ pass.by = "reconciler"
    BY <2>1, <2>2 DEF RuntimeInv, VictimsInv, StopInv
  <2>4. Ended("team")' /\ Ended("solo")'
    BY <2>1, <2>2 DEF Ended
  <2> QED
    BY <1>1, <2>1, <2>2, <2>3, <2>4
       DEF RuntimeInv, VictimsInv, TasksInv, SoloInv, OneLoopAtRest, StopInv
<1>6. CASE Stopped
  <2>1. \A i \in DOMAIN main : main[i] = "done"
    BY <1>6 DEF Stopped, RuntimeInv, StopInv
  <2>2. stop = "main" /\ stop' = "done" /\ UNCHANGED <<loops, pass, main, running>>
    BY <1>6 DEF Stopped, mainVars
  <2> QED
    BY <1>1, <2>1, <2>2 DEF RuntimeInv, VictimsInv, TasksInv, SoloInv, OneLoopAtRest, StopInv,
                            HasLoop, HasTask, Ended, loops
<1> QED
  BY <1>2, <1>3, <1>4, <1>5, <1>6 DEF StopStep

LEMMA MainKeeps ==
  ASSUME RuntimeInv, MainStep
  PROVE  RuntimeInv'
<1>1. TypeOK'
  BY MainType DEF RuntimeInv
<1>2. UNCHANGED <<loops, pass, stop>>
  BY DEF MainStep, StartMain, StopMain, StopMainReturns, StopMainTimesOut, MainStarts, MainEnds
<1>3. TasksInv' /\ SoloInv' /\ OneLoopAtRest'
  BY <1>2 DEF RuntimeInv, TasksInv, SoloInv, OneLoopAtRest, HasLoop, HasTask, loops
<1>4. main \in [1..Len(main) -> {"new", "run", "cancelled", "done"}] /\ Len(main) \in Nat
      /\ main # <<>> => 1 \in DOMAIN main /\ Head(main) = main[1]
  BY DEF RuntimeInv, TypeOK
<1>5. running' => main' # <<>>
  <2> USE DEF RuntimeInv, VictimsInv
  <2>0. main \in Seq({"new", "run", "cancelled", "done"})
    BY DEF TypeOK
  <2>1. CASE StartMain
    BY <2>0, <2>1 DEF StartMain
  <2>3. CASE StopMain \/ StopMainReturns
    BY <2>3 DEF StopMain, StopMainReturns
  <2>4. CASE StopMainTimesOut
    <3>1. Len(main') = Len(main) /\ running' = running
      BY <2>0, <2>4 DEF StopMainTimesOut
    <3> QED
      BY <2>0, <3>1
  <2>2. ASSUME NEW i \in DOMAIN main, MainStarts(i) \/ MainEnds(i) PROVE main' # <<>>
    BY <1>4, <2>2 DEF MainStarts, MainEnds
  <2> QED
    BY <2>1, <2>2, <2>3, <2>4 DEF MainStep
\* A task that has ended or is cancelled does not start again, and none is
\* created any more.
<1>6. ASSUME stop \in {"main", "done"}
      PROVE  /\ \A i \in DOMAIN main' : main'[i] \in {"cancelled", "done"}
             /\ stop = "done" => \A i \in DOMAIN main' : main'[i] = "done"
  <2>1. /\ \A i \in DOMAIN main : main[i] \in {"cancelled", "done"}
        /\ stop = "done" => \A i \in DOMAIN main : main[i] = "done"
    BY <1>6 DEF RuntimeInv, StopInv
  <2>2. ~StartMain
    BY <1>6 DEF StartMain, NotStopping
  <2>3. CASE StopMain \/ StopMainReturns
    BY <2>1, <2>3 DEF StopMain, StopMainReturns
  <2>4. ~StopMainTimesOut
    <3>1. StopMainTimesOut => main # <<>>
      BY <1>1 DEF StopMainTimesOut, RuntimeInv, TypeOK
    <3> QED
      BY <1>4, <2>1, <3>1 DEF StopMainTimesOut
  <2>5. ASSUME NEW i \in DOMAIN main, MainStarts(i) \/ MainEnds(i)
        PROVE  main' = [main EXCEPT ![i] = "done"]
    BY <2>1, <2>5 DEF MainStarts, MainEnds
  <2> QED
    BY <1>4, <2>1, <2>2, <2>3, <2>4, <2>5 DEF MainStep
<1>8. StopInv'
  BY <1>2, <1>6 DEF RuntimeInv, StopInv, Ended, HasTask, loops
<1>9. VictimsInv'
  BY <1>2, <1>5 DEF RuntimeInv, VictimsInv
<1> QED
  BY <1>1, <1>3, <1>8, <1>9 DEF RuntimeInv

LEMMA TaskEndsKeeps ==
  ASSUME RuntimeInv, NEW t \in Task, TaskEnds(t)
  PROVE  RuntimeInv'
<1>1. /\ dying' \subseteq dying
      /\ UNCHANGED <<files, teamLoops, teamTask, soloLoop, soloFp, soloTask, pass, lastTeam,
                     lastAgents, stop, mainVars>>
  BY DEF TaskEnds
<1>2. TypeOK'
  BY <1>1 DEF RuntimeInv, TypeOK, files, mainVars
<1> QED
  BY <1>1, <1>2 DEF RuntimeInv, VictimsInv, TasksInv, SoloInv, OneLoopAtRest, StopInv,
                    HasLoop, HasTask, Ended, mainVars

LEMMA Initially == Init => RuntimeInv
<1> SUFFICES ASSUME Init PROVE RuntimeInv
  OBVIOUS
<1>1. TypeOK
  BY InitialType
<1>2. /\ pass.stage = "off" /\ pass.victims = <<>> /\ running = FALSE /\ stop = "no"
      /\ soloTask = {} /\ \A a \in Agents : teamTask[a] = None
  BY DEF Init, NoPass
<1> QED
  BY <1>1, <1>2 DEF RuntimeInv, VictimsInv, TasksInv, SoloInv, OneLoopAtRest, StopInv

LEMMA Inductive == RuntimeInv /\ [Next]_vars => RuntimeInv'
<1> SUFFICES ASSUME RuntimeInv, [Next]_vars PROVE RuntimeInv'
  OBVIOUS
<1>1. CASE UNCHANGED vars
  BY <1>1 DEF RuntimeInv, TypeOK, VictimsInv, TasksInv, SoloInv, OneLoopAtRest, StopInv,
              HasLoop, HasTask, Ended, vars, files, loops, mainVars
<1>2. CASE Next
  <2>1. \/ FileStep \/ PassStep \/ StopStep \/ MainStep \/ UNCHANGED vars
        \/ \E t \in Task : TaskEnds(t)
    BY <1>2 DEF Next, FileStep, PassStep, StopStep, MainStep, Quiescent
  <2>2. CASE PassStep
    BY <2>2, TeamPassKeeps, TeamPassFailsKeeps, VictimStoppedKeeps, TeamSpawnKeeps,
       SoloPassKeeps, SoloSpawnKeeps DEF PassStep
  <2> QED
    BY <1>1, <2>1, <2>2, FileKeeps, StopKeeps, MainKeeps, TaskEndsKeeps
<1> QED
  BY <1>1, <1>2

LEMMA Invariance == Spec => []RuntimeInv
<1> QED
  BY Initially, Inductive, PTL DEF Spec

-----------------------------------------------------------------------------
(***************************************************************************)
(* Theorems                                                                *)
(***************************************************************************)

\* The types of all variables, among them what a pass has read of the files
\* (_reconcile_once) and the tasks of the main agent (agent_manager.py).
THEOREM TypeCorrect == Spec => []TypeOK
<1>1. RuntimeInv => TypeOK
  BY DEF RuntimeInv
<1> QED
  BY <1>1, Invariance, PTL

\* Between two passes of the reconciler no agent has a team task and a
\* standalone task, although agents join and leave teams, are enabled and
\* disabled in the middle of a pass, and loops fail to be built.
THEOREM OneLoopPerAgent == Spec => []OneLoopAtRest
<1>1. RuntimeInv => OneLoopAtRest
  BY DEF RuntimeInv
<1> QED
  BY <1>1, Invariance, PTL

\* When stop() has returned, no task of a member, of a standalone agent or of the
\* main agent is left, whatever the reconciler and the console were doing.
THEOREM StopIsFinal == Spec => []NothingRunsAfterStop
<1>1. RuntimeInv => NothingRunsAfterStop
  <2> SUFFICES ASSUME RuntimeInv, stop = "done"
               PROVE  /\ dying = {} /\ soloTask = {} /\ \A a \in Agents : teamTask[a] = None
                      /\ \A i \in DOMAIN main : main[i] = "done"
    BY DEF NothingRunsAfterStop
  <2>1. Ended("team") /\ Ended("solo") /\ dying \subseteq Task
    BY DEF RuntimeInv, StopInv, TypeOK
  <2>2. dying = {}
    BY <2>1 DEF Ended, Task
  <2> QED
    BY <2>2 DEF RuntimeInv, StopInv
<1> QED
  BY <1>1, Invariance, PTL

-----------------------------------------------------------------------------
(***************************************************************************)
(* A request to the providers                                              *)
(***************************************************************************)

\* Induction for a set, from the order of the natural numbers.
LEMMA SetInduction ==
  ASSUME NEW S, 0 \in S, \A n \in Nat : n \in S => n + 1 \in S
  PROVE  Nat \subseteq S
<1> DEFINE R == OpToRel(<, Nat)
           T == Nat \ S
<1> SUFFICES ASSUME T # {} PROVE FALSE
  OBVIOUS
<1>1. IsWellFoundedOn(R, Nat)
  BY NatLessThanWellFounded
<1>2. \A x, y \in Nat : y < x => <<y, x>> \in R
  BY DEF OpToRel
<1>3. PICK x \in T : \A y \in T : ~(<<y, x>> \in R)
  <2>1. T \subseteq Nat
    OBVIOUS
  <2> HIDE DEF R, T
  <2> QED
    BY <1>1, <2>1, WFMin
<1>4. x \in Nat /\ x \notin S
  OBVIOUS
<1>5. x # 0
  BY <1>4
<1>6. x - 1 \in Nat /\ x - 1 < x /\ (x - 1) + 1 = x
  BY <1>4, <1>5
<1>7. x - 1 \in S
  BY <1>2, <1>3, <1>4, <1>6
<1> QED
  BY <1>4, <1>6, <1>7

-----------------------------------------------------------------------------
(***************************************************************************)
(* The chain, by induction on its length                                   *)
(***************************************************************************)

\* The equations of ChainOf have a solution of every length ...
LEMMA ChainOfExists ==
  ASSUME NEW m \in Nat
  PROVE  \E f : f = [n \in 1..m |-> IF n = 1 THEN <<Primary>> ELSE Longer(f[n - 1])]
<1> DEFINE Solved == {k \in Nat :
             \E f : f = [n \in 1..k |-> IF n = 1 THEN <<Primary>> ELSE Longer(f[n - 1])]}
<1>1. 0 \in Solved
  <2>1. [n \in {} |-> Primary] =
          [n \in 1..0 |-> IF n = 1 THEN <<Primary>> ELSE Longer([k \in {} |-> Primary][n - 1])]
    OBVIOUS
  <2> QED
    BY <2>1
<1>2. ASSUME NEW k \in Nat, k \in Solved
      PROVE  k + 1 \in Solved
  <2>1. PICK f : f = [n \in 1..k |-> IF n = 1 THEN <<Primary>> ELSE Longer(f[n - 1])]
    BY <1>2
  <2> DEFINE g == [n \in 1..(k + 1) |-> IF n = 1 THEN <<Primary>> ELSE Longer(f[n - 1])]
             h == [n \in 1..(k + 1) |-> IF n = 1 THEN <<Primary>> ELSE Longer(g[n - 1])]
  <2>2. ASSUME NEW n \in 1..(k + 1), n # 1 PROVE g[n - 1] = f[n - 1]
    <3>1. n - 1 \in 1..k /\ n - 1 \in 1..(k + 1)
      BY <2>2
    <3>2. f[n - 1] = IF n - 1 = 1 THEN <<Primary>> ELSE Longer(f[n - 1 - 1])
      BY <2>1, <3>1
    <3> QED
      BY <3>1, <3>2
  <2>3. \A n \in 1..(k + 1) : g[n] = h[n]
    BY <2>2
  <2>4. g = h
    BY <2>3
  <2> HIDE DEF g
  <2> QED
    BY <2>4
<1> HIDE DEF Solved
<1>3. Nat \subseteq Solved
  BY <1>1, <1>2, SetInduction
<1> QED
  BY <1>3 DEF Solved

\* ... so that it is what they say.
LEMMA ChainOfUnfolds ==
  ChainOf = [n \in 1..MaxHops |-> IF n = 1 THEN <<Primary>> ELSE Longer(ChainOf[n - 1])]
<1>1. \E f : f = [n \in 1..MaxHops |-> IF n = 1 THEN <<Primary>> ELSE Longer(f[n - 1])]
  BY ChainOfExists, ProviderAssumption
<1> QED
  BY <1>1, Zenon DEF ChainOf

NoRepeat(s) == \A p, q \in DOMAIN s : s[p] = s[q] => p = q

\* A chain of at most n instances that begins with the primary one.
IsChain(s, n) ==
  /\ s \in Seq(Instances) /\ Len(s) \in 1..n
  /\ s[1] = Primary /\ NoRepeat(s)

LEMMA LongerIsChain ==
  ASSUME setup \in Setups, NEW n \in Nat, NEW s, IsChain(s, n)
  PROVE  IsChain(Longer(s), n + 1)
<1>1. /\ s \in Seq(Instances) /\ Len(s) \in Nat /\ Len(s) >= 1 /\ Len(s) <= n
      /\ DOMAIN s = 1..Len(s) /\ s[1] = Primary /\ NoRepeat(s)
  BY DEF IsChain
<1>2. PICK follower : follower = FailoverOf(Last(s))
  OBVIOUS
<1>3. CASE follower \in Range(s) \cup {NoInstance}
  <2>1. Longer(s) = s
    BY <1>2, <1>3 DEF Longer
  <2> QED
    BY <1>1, <2>1 DEF IsChain
<1>4. CASE follower \notin Range(s) \cup {NoInstance}
  <2>1. Longer(s) = Append(s, follower)
    BY <1>2, <1>4 DEF Longer
  <2>2. Last(s) \in Instances
    BY <1>1 DEF Last
  <2>3. setup.failover[Last(s)] \in Seq(Instances)
    BY <2>2, ProviderAssumption DEF Setup
  <2>4. follower \in Instances
    BY <1>2, <1>4, <2>3 DEF FailoverOf
  <2>5. /\ Append(s, follower) \in Seq(Instances)
        /\ Len(Append(s, follower)) = Len(s) + 1
        /\ DOMAIN Append(s, follower) = 1..(Len(s) + 1)
        /\ \A p \in 1..Len(s) : Append(s, follower)[p] = s[p]
        /\ Append(s, follower)[Len(s) + 1] = follower
    BY <1>1, <2>4
  <2>6. \A p \in 1..Len(s) : s[p] # follower
    BY <1>1, <1>4 DEF Range
  <2>7. NoRepeat(Append(s, follower))
    BY <1>1, <2>5, <2>6 DEF NoRepeat
  <2> QED
    BY <1>1, <2>1, <2>5, <2>7 DEF IsChain
<1> QED
  BY <1>3, <1>4

\* The chain starts with the primary instance, repeats none and is bounded,
\* also when instances name each other in a circle.
THEOREM FailoverChainProperties ==
  ASSUME setup \in Setups
  PROVE  IsChain(FailoverChain, MaxHops)
<1> DEFINE Fine == {k \in Nat : k + 1 \in 1..MaxHops => IsChain(ChainOf[k + 1], k + 1)}
<1>1. MaxHops \in Nat \ {0} /\ Primary \in Instances
  BY ProviderAssumption
<1>2. 0 \in Fine
  <2>1. ChainOf[1] = <<Primary>>
    BY <1>1, ChainOfUnfolds
  <2>2. IsChain(<<Primary>>, 1)
    BY <1>1 DEF IsChain, NoRepeat
  <2> QED
    BY <2>1, <2>2
<1>3. ASSUME NEW k \in Nat, k \in Fine
      PROVE  k + 1 \in Fine
  <2> SUFFICES ASSUME (k + 1) + 1 \in 1..MaxHops
               PROVE  IsChain(ChainOf[(k + 1) + 1], (k + 1) + 1)
    OBVIOUS
  <2>1. IsChain(ChainOf[k + 1], k + 1)
    BY <1>1, <1>3
  <2>2. ChainOf[(k + 1) + 1] = Longer(ChainOf[k + 1])
    <3>1. ((k + 1) + 1) - 1 = k + 1 /\ (k + 1) + 1 # 1
      OBVIOUS
    <3> QED
      BY <3>1, ChainOfUnfolds
  <2> QED
    BY <2>1, <2>2, LongerIsChain
<1> HIDE DEF Fine
<1>4. MaxHops - 1 \in Fine
  BY <1>1, <1>2, <1>3, SetInduction
<1>5. (MaxHops - 1) + 1 = MaxHops /\ MaxHops \in 1..MaxHops
  BY <1>1
<1> QED
  BY <1>4, <1>5 DEF Fine, FailoverChain

-----------------------------------------------------------------------------
(***************************************************************************)
(* The invariant                                                           *)
(***************************************************************************)

\* The chain is that of the configuration, and what is called can serve.
ChainInv ==
  /\ chain = FailoverChain \/ (phase = "idle" /\ chain = <<Primary>>)
  /\ Current \in setup.usable

\* The usable instances of the chain before a place in it.
UsableBefore(p) == {chain[q] : q \in {r \in DOMAIN chain : r < p}} \cap setup.usable

\* Nothing that can serve is passed over.
AskedInv ==
  /\ asked \subseteq setup.usable
  /\ phase = "call" => asked = UsableBefore(pos)

AttemptInv ==
  /\ phase = "idle" => ~plain
  /\ phase # "idle" => attempt >= 1
  /\ phase = "wait" => ~plain /\ (mode = "standard" => attempt <= Retries)

\* The rounds begun so far, the retry without images included, and the most that
\* each may call.
Rounds == attempt + IF plain THEN 1 ELSE 0
NumUsable == Cardinality(setup.usable)

\* In a round, the calls are those of the rounds before and one for each
\* instance asked.
CallsInv ==
  mode = "standard" =>
    /\ phase = "idle" => calls = 0
    /\ phase = "call" => calls + NumUsable <= Rounds * NumUsable + Cardinality(asked)
    /\ phase # "idle" => calls <= Rounds * NumUsable

RequestInv == RequestTypeOK /\ ChainInv /\ AskedInv /\ WholeChainAsked /\ AttemptInv /\ CallsInv

-----------------------------------------------------------------------------
(***************************************************************************)
(* A call                                                                  *)
(***************************************************************************)

LEMMA UsableIsFinite ==
  ASSUME RequestTypeOK
  PROVE  IsFiniteSet(setup.usable) /\ NumUsable \in Nat
<1>1. setup.usable \subseteq Instances
  BY ProviderAssumption DEF RequestTypeOK, Setup
<1> QED
  BY <1>1, FS_Subset, FS_CardinalityType, ProviderAssumption DEF NumUsable

LEMMA ChainNow ==
  ASSUME RequestTypeOK, ChainInv
  PROVE  /\ chain \in Seq(Instances) /\ DOMAIN chain = 1..Len(chain) /\ Len(chain) \in Nat
         /\ pos \in DOMAIN chain /\ Current \in Instances /\ Current = chain[pos]
         /\ phase # "idle" => NoRepeat(chain)
<1>1. phase # "idle" => NoRepeat(chain)
  BY FailoverChainProperties DEF ChainInv, RequestTypeOK, IsChain
<1> QED
  BY <1>1 DEF RequestTypeOK, Current

\* The instance that is called has not been asked in this round.
LEMMA CurrentIsNew ==
  ASSUME RequestTypeOK, ChainInv, AskedInv, phase = "call"
  PROVE  /\ Cardinality(asked) \in Nat
         /\ Cardinality(asked \cup {Current}) = Cardinality(asked) + 1
         /\ Cardinality(asked) + 1 <= NumUsable
<1>1. IsFiniteSet(setup.usable) /\ NumUsable \in Nat
  BY UsableIsFinite
<1>2. IsFiniteSet(asked) /\ Cardinality(asked) \in Nat
  BY <1>1, FS_Subset, FS_CardinalityType DEF AskedInv
<1>3. Current \notin asked
  BY ChainNow DEF AskedInv, UsableBefore, NoRepeat
<1>4. Cardinality(asked \cup {Current}) = Cardinality(asked) + 1
  BY <1>2, <1>3, FS_AddElement
<1>5. Cardinality(asked \cup {Current}) <= NumUsable
  <2>1. asked \cup {Current} \subseteq setup.usable
    BY DEF AskedInv, ChainInv
  <2> QED
    BY <1>1, <2>1, FS_Subset DEF NumUsable
<1> QED
  BY <1>2, <1>4, <1>5

\* The types of what a call changes.
LEMMA CallEndsType ==
  ASSUME RequestTypeOK, ChainInv, NEW o \in Outcomes, CallEnds(o)
  PROVE  /\ rotation' \in [Instances -> Nat] /\ failedKey' \in [Instances -> Nat]
         /\ calls' \in Nat
         /\ mode = "standard" => calls' = calls + 1
<1>1. Current \in Instances
  BY ChainNow
<1>2. setup.keys[Current] \in Nat \ {0}
  BY <1>1, ProviderAssumption DEF RequestTypeOK, Setup
<1>3. rotation \in [Instances -> Nat] /\ failedKey \in [Instances -> Nat] /\ calls \in Nat
  BY DEF RequestTypeOK
<1>4. (rotation[Current] + 1) % setup.keys[Current] \in Nat
  BY <1>1, <1>2, <1>3
<1>5. rotation' \in [Instances -> Nat]
  BY <1>1, <1>3, <1>4 DEF CallEnds
<1>6. failedKey' \in [Instances -> Nat]
  BY <1>1, <1>3 DEF CallEnds, ClientKey
<1> QED
  BY <1>3, <1>5, <1>6 DEF CallEnds

\* A round starts at the primary instance.
LEMMA StartRoundProperties ==
  ASSUME RequestTypeOK, StartRound, UNCHANGED setup
  PROVE  /\ phase' = "call" /\ chain' \in Seq(Instances) /\ pos' \in DOMAIN chain'
         /\ ChainInv' /\ AskedInv' /\ WholeChainAsked' /\ asked' = {}
<1>1. IsChain(FailoverChain, MaxHops)
  BY FailoverChainProperties DEF RequestTypeOK
<1>2. FailoverChain' = FailoverChain
  BY DEF FailoverChain, ChainOf, Longer, FailoverOf
<1>3. /\ chain' = FailoverChain /\ pos' = 1 /\ asked' = {} /\ phase' = "call"
  BY DEF StartRound
<1>4. chain' \in Seq(Instances) /\ pos' \in DOMAIN chain' /\ chain'[1] = Primary
  BY <1>1, <1>3, ProviderAssumption DEF IsChain
<1>5. Primary \in setup.usable
  BY ProviderAssumption DEF RequestTypeOK
<1>6. ChainInv'
  BY <1>2, <1>3, <1>4, <1>5 DEF ChainInv, Current
<1>7. UsableBefore(pos)' = {}
  BY <1>3, <1>4 DEF UsableBefore
<1> QED
  BY <1>3, <1>4, <1>6, <1>7 DEF AskedInv, WholeChainAsked

LEMMA MinOfNaturals ==
  ASSUME NEW S, S \subseteq Nat, S # {}
  PROVE  Min(S) \in S /\ \A x \in S : Min(S) <= x
<1> DEFINE R == OpToRel(<, Nat)
<1>1. IsWellFoundedOn(R, Nat)
  BY NatLessThanWellFounded
<1>2. \A x, y \in Nat : y < x => <<y, x>> \in R
  BY DEF OpToRel
<1> HIDE DEF R
<1>3. \E x \in S : \A y \in S : ~(<<y, x>> \in R)
  BY <1>1, WFMin
<1>4. \E x \in S : \A y \in S : x <= y
  <2>1. PICK x \in S : \A y \in S : ~(<<y, x>> \in R)
    BY <1>3
  <2>2. \A y \in S : ~(y < x) /\ x \in Nat /\ y \in Nat
    BY <1>2, <2>1
  <2>3. \A y \in S : x <= y
    BY <2>2
  <2> QED
    BY <2>3
<1> QED
  BY <1>4 DEF Min

\* Between the instance that is called and the next one nothing can serve.
LEMMA NextPlace ==
  ASSUME RequestTypeOK, ChainInv, AskedInv, phase = "call", LaterUsable # {}
  PROVE  /\ Min(LaterUsable) \in DOMAIN chain
         /\ chain[Min(LaterUsable)] \in setup.usable
         /\ UsableBefore(Min(LaterUsable)) = asked \cup {Current}
<1> DEFINE m == Min(LaterUsable)
<1>1. /\ DOMAIN chain = 1..Len(chain) /\ Len(chain) \in Nat /\ pos \in DOMAIN chain
      /\ Current = chain[pos] /\ Current \in setup.usable
  BY ChainNow DEF ChainInv
<1>2. LaterUsable \subseteq Nat
  BY <1>1 DEF LaterUsable
<1>3. m \in LaterUsable /\ \A q \in LaterUsable : m <= q
  BY <1>2, MinOfNaturals
<1>4. m \in DOMAIN chain /\ m > pos /\ chain[m] \in setup.usable
  BY <1>3 DEF LaterUsable
<1> HIDE DEF m
<1>5. ASSUME NEW q \in DOMAIN chain, q < m, chain[q] \in setup.usable
      PROVE  q < pos \/ q = pos
  BY <1>1, <1>3, <1>4, <1>5 DEF LaterUsable
<1>6. \A q \in DOMAIN chain : q <= pos => q < m
  BY <1>1, <1>4
<1>7. UsableBefore(m) \subseteq UsableBefore(pos) \cup {Current}
  BY <1>1, <1>5 DEF UsableBefore
<1>8. UsableBefore(pos) \cup {Current} \subseteq UsableBefore(m)
  BY <1>1, <1>6 DEF UsableBefore
<1> QED
  BY <1>4, <1>7, <1>8 DEF AskedInv, m

\* What an answer or an error leaves that ends the round: all that can serve was
\* asked, if it is a trigger.
LEMMA RoundIsComplete ==
  ASSUME RequestTypeOK, ChainInv, AskedInv, NEW o \in Outcomes, Returns(o)
  PROVE  MatchesTrigger(Current, o) => Range(chain) \cap setup.usable \subseteq asked \cup {Current}
<1> SUFFICES ASSUME MatchesTrigger(Current, o)
             PROVE  Range(chain) \cap setup.usable \subseteq asked \cup {Current}
  OBVIOUS
<1>1. phase = "call" /\ LaterUsable = {}
  BY DEF Returns
<1>2. /\ DOMAIN chain = 1..Len(chain) /\ Len(chain) \in Nat /\ pos \in DOMAIN chain
      /\ Current = chain[pos]
  BY ChainNow
<1>3. ASSUME NEW q \in DOMAIN chain, chain[q] \in setup.usable
      PROVE  q < pos \/ q = pos
  BY <1>1, <1>2, <1>3 DEF LaterUsable
<1> QED
  BY <1>1, <1>2, <1>3 DEF AskedInv, UsableBefore, Range

-----------------------------------------------------------------------------
(***************************************************************************)
(* Numbers                                                                 *)
(***************************************************************************)

LEMMA NextRound ==
  ASSUME NEW r \in Nat, NEW u \in Nat
  PROVE  r * u \in Nat /\ (r + 1) * u = r * u + u
OBVIOUS

LEMMA MoreRounds ==
  ASSUME NEW r \in Nat, NEW s \in Nat, NEW u \in Nat, r <= s
  PROVE  r * u <= s * u
<1>1. s - r \in Nat /\ s = r + (s - r)
  OBVIOUS
<1>2. s * u = r * u + (s - r) * u
  BY <1>1
<1>3. (s - r) * u \in Nat /\ r * u \in Nat
  BY <1>1
<1> QED
  BY <1>1, <1>2, <1>3

-----------------------------------------------------------------------------
(***************************************************************************)
(* The invariant is kept                                                   *)
(***************************************************************************)

\* The first attempt, the retry after a delay and the retry without images: a
\* round more, in which nothing has been called.
LEMMA RoundStarts ==
  ASSUME RequestInv, StartRound, UNCHANGED <<setup, mode>>,
         attempt' \in 1..Retries + 1, plain' \in BOOLEAN, calls' \in Nat,
         mode = "standard" => calls' + NumUsable <= Rounds' * NumUsable
  PROVE  ChainInv' /\ AskedInv' /\ WholeChainAsked' /\ AttemptInv' /\ CallsInv'
<1>1. /\ phase' = "call" /\ ChainInv' /\ AskedInv' /\ WholeChainAsked' /\ asked' = {}
  BY StartRoundProperties DEF RequestInv
<1>2. AttemptInv'
  BY <1>1, ProviderAssumption DEF AttemptInv
<1>3. NumUsable' = NumUsable /\ NumUsable \in Nat
  BY UsableIsFinite DEF RequestInv, NumUsable
<1>4. Rounds' \in Nat
  <2>1. Retries \in Nat /\ attempt' \in Nat
    BY ProviderAssumption
  <2>2. Rounds' = attempt' + 1 \/ Rounds' = attempt' + 0
    BY Zenon DEF Rounds
  <2> QED
    BY <2>1, <2>2
<1>5. Cardinality(asked') = 0
  BY <1>1, FS_EmptySet
<1>6. CallsInv'
  <2> SUFFICES ASSUME mode' = "standard"
               PROVE  /\ calls' + NumUsable <= Rounds' * NumUsable + 0
                      /\ calls' <= Rounds' * NumUsable
    BY <1>1, <1>3, <1>5 DEF CallsInv
  <2>1. Rounds' * NumUsable \in Nat
    BY <1>3, <1>4, NextRound
  <2> QED
    BY <1>3, <2>1
<1> QED
  BY <1>1, <1>2, <1>6

\* The call that ends a round: the request returns, or waits before it goes on.
LEMMA RoundEnds ==
  ASSUME RequestInv, NEW o \in Outcomes, Returns(o), UNCHANGED <<setup, mode, attempt, plain>>,
         chain' = chain, pos' = pos,
         \/ phase' = "done" /\ result' = o /\ asked' = asked \cup {Current}
         \/ /\ phase' = "wait" /\ asked' = asked
            /\ ~plain /\ (mode = "standard" => attempt <= Retries)
  PROVE  ChainInv' /\ AskedInv' /\ WholeChainAsked' /\ AttemptInv' /\ CallsInv'
<1>1. RequestTypeOK /\ ChainInv /\ AskedInv /\ phase = "call" /\ CallEnds(o)
  BY DEF RequestInv, Returns
<1>2. Current' = Current /\ FailoverChain' = FailoverChain
  BY DEF Current, FailoverChain, ChainOf, Longer, FailoverOf
<1>3. ChainInv'
  BY <1>1, <1>2 DEF ChainInv
<1>4. AskedInv'
  BY <1>1 DEF AskedInv, ChainInv
<1>5. WholeChainAsked'
  <2>1. CASE phase' = "wait"
    BY <2>1 DEF WholeChainAsked
  <2>2. CASE phase' = "done"
    <3>1. result' = o /\ asked' = asked \cup {Current}
      BY <2>2
    <3>2. MatchesTrigger(Current, o)' <=> MatchesTrigger(Current, o)
      BY <1>2 DEF MatchesTrigger
    <3>3. MatchesTrigger(Current, result)' => Range(chain) \cap setup.usable \subseteq asked'
      BY <1>1, <1>2, <3>1, RoundIsComplete DEF MatchesTrigger
    <3> QED
      BY <3>3 DEF WholeChainAsked
  <2> QED
    BY <2>1, <2>2
<1>6. AttemptInv'
  BY <1>1 DEF RequestInv, AttemptInv
<1>7. CallsInv'
  <2> SUFFICES ASSUME mode = "standard"
               PROVE  calls' <= Rounds * NumUsable
    BY DEF CallsInv, Rounds, NumUsable
  <2>1. calls' = calls + 1 /\ calls \in Nat
    BY <1>1, CallEndsType DEF RequestTypeOK
  <2>2. calls + NumUsable <= Rounds * NumUsable + Cardinality(asked)
    BY <1>1 DEF RequestInv, CallsInv
  <2>3. Cardinality(asked) + 1 <= NumUsable /\ Cardinality(asked) \in Nat
    BY <1>1, CurrentIsNew
  <2>4. NumUsable \in Nat /\ Rounds \in Nat
    BY <1>1, UsableIsFinite, ProviderAssumption DEF Rounds, RequestTypeOK
  <2>5. Rounds * NumUsable \in Nat
    BY <2>4, NextRound
  <2> QED
    BY <2>1, <2>2, <2>3, <2>4, <2>5
<1> QED
  BY <1>3, <1>4, <1>5, <1>6, <1>7

LEMMA FailOverKeeps ==
  ASSUME RequestInv, NEW o \in Outcomes, FailOver(o)
  PROVE  RequestInv'
<1>1. /\ RequestTypeOK /\ ChainInv /\ AskedInv /\ phase = "call" /\ CallEnds(o)
      /\ LaterUsable # {} /\ pos' = Min(LaterUsable) /\ asked' = asked \cup {Current}
      /\ UNCHANGED <<setup, mode, phase, chain, loop, result>>
  BY DEF RequestInv, FailOver
<1>2. /\ pos' \in DOMAIN chain /\ chain[pos'] \in setup.usable
      /\ UsableBefore(pos') = asked'
  BY <1>1, NextPlace
<1>3. RequestTypeOK'
  <2>1. asked' \subseteq Instances
    BY <1>1, ChainNow DEF RequestTypeOK
  <2> QED
    BY <1>1, <1>2, <2>1, CallEndsType DEF RequestTypeOK, loop
<1>4. ChainInv'
  <2>1. FailoverChain' = FailoverChain
    BY <1>1 DEF FailoverChain, ChainOf, Longer, FailoverOf
  <2> QED
    BY <1>1, <1>2, <2>1 DEF ChainInv, Current
<1>5. AskedInv'
  <2>1. UsableBefore(pos)' = UsableBefore(pos')
    BY <1>1 DEF UsableBefore
  <2> QED
    BY <1>1, <1>2, <2>1 DEF AskedInv, ChainInv
<1>6. WholeChainAsked' /\ AttemptInv'
  BY <1>1 DEF RequestInv, WholeChainAsked, AttemptInv, loop
<1>7. CallsInv'
  <2> SUFFICES ASSUME mode = "standard"
               PROVE  /\ calls' + NumUsable <= Rounds * NumUsable + Cardinality(asked')
                      /\ calls' <= Rounds * NumUsable
    BY <1>1 DEF CallsInv, Rounds, NumUsable, loop
  <2>1. calls' = calls + 1 /\ calls \in Nat
    BY <1>1, CallEndsType DEF RequestTypeOK
  <2>2. calls + NumUsable <= Rounds * NumUsable + Cardinality(asked)
    BY <1>1 DEF RequestInv, CallsInv
  <2>3. /\ Cardinality(asked) + 1 <= NumUsable /\ Cardinality(asked) \in Nat
        /\ Cardinality(asked') = Cardinality(asked) + 1
    BY <1>1, CurrentIsNew
  <2>4. NumUsable \in Nat /\ Rounds \in Nat
    BY <1>1, UsableIsFinite, ProviderAssumption DEF Rounds, RequestTypeOK
  <2>5. Rounds * NumUsable \in Nat
    BY <2>4, NextRound
  <2> QED
    BY <2>1, <2>2, <2>3, <2>4, <2>5
<1> QED
  BY <1>3, <1>4, <1>5, <1>6, <1>7 DEF RequestInv

LEMMA AskKeeps ==
  ASSUME RequestInv, Ask
  PROVE  RequestInv'
<1>1. /\ phase = "idle" /\ StartRound /\ attempt' = 1
      /\ UNCHANGED <<setup, mode, plain, images, lastError, same, result, rotation, calls,
                     failedKey>>
  BY DEF Ask
<1>2. ~plain /\ NumUsable \in Nat /\ calls \in Nat /\ (mode = "standard" => calls = 0)
  BY <1>1, UsableIsFinite DEF RequestInv, AttemptInv, CallsInv, RequestTypeOK
<1>3. attempt' \in 1..Retries + 1 /\ Rounds' = 1 /\ plain' \in BOOLEAN
  BY <1>1, <1>2, ProviderAssumption DEF Rounds, RequestInv, RequestTypeOK
<1>4. mode = "standard" => calls' + NumUsable <= Rounds' * NumUsable
  BY <1>1, <1>2, <1>3
<1>5. ChainInv' /\ AskedInv' /\ WholeChainAsked' /\ AttemptInv' /\ CallsInv'
  BY <1>1, <1>2, <1>3, <1>4, RoundStarts
<1>6. RequestTypeOK'
  <2>1. /\ phase' = "call" /\ chain' \in Seq(Instances) /\ pos' \in DOMAIN chain' /\ asked' = {}
    BY <1>1, StartRoundProperties DEF RequestInv
  <2>2. attempt' \in 0..Retries + 1
    BY <1>3, ProviderAssumption
  <2> QED
    BY <1>1, <2>1, <2>2 DEF RequestInv, RequestTypeOK
<1> QED
  BY <1>5, <1>6 DEF RequestInv

LEMMA RetryKeeps ==
  ASSUME RequestInv, Retry
  PROVE  RequestInv'
<1>1. /\ phase = "wait" /\ StartRound
      /\ attempt' = IF mode = "persistent" /\ attempt > Retries THEN attempt ELSE attempt + 1
      /\ UNCHANGED <<setup, mode, plain, images, lastError, same, result, rotation, calls,
                     failedKey>>
  BY DEF Retry
<1>2. /\ ~plain /\ plain \in BOOLEAN /\ (mode = "standard" => attempt <= Retries)
      /\ attempt \in 0..Retries + 1 /\ attempt >= 1 /\ Retries \in Nat /\ calls \in Nat
      /\ mode \in {"standard", "persistent"} /\ NumUsable \in Nat
  BY <1>1, UsableIsFinite, ProviderAssumption DEF RequestInv, AttemptInv, RequestTypeOK
<1>3. attempt' \in 1..Retries + 1
  BY <1>1, <1>2
<1>4. ASSUME mode = "standard" PROVE calls' + NumUsable <= Rounds' * NumUsable
  <2>1. calls <= attempt * NumUsable
    BY <1>1, <1>2, <1>4 DEF RequestInv, CallsInv, Rounds
  <2>2. Rounds' = attempt + 1
    BY <1>1, <1>2, <1>4 DEF Rounds
  <2>3. attempt * NumUsable \in Nat /\ (attempt + 1) * NumUsable = attempt * NumUsable + NumUsable
    BY <1>2, NextRound
  <2> QED
    BY <1>1, <1>2, <2>1, <2>2, <2>3
<1>5. ChainInv' /\ AskedInv' /\ WholeChainAsked' /\ AttemptInv' /\ CallsInv'
  BY <1>1, <1>2, <1>3, <1>4, RoundStarts
<1>6. RequestTypeOK'
  <2>1. /\ phase' = "call" /\ chain' \in Seq(Instances) /\ pos' \in DOMAIN chain' /\ asked' = {}
    BY <1>1, StartRoundProperties DEF RequestInv
  <2>2. attempt' \in 0..Retries + 1
    BY <1>2, <1>3
  <2> QED
    BY <1>1, <2>1, <2>2 DEF RequestInv, RequestTypeOK
<1> QED
  BY <1>5, <1>6 DEF RequestInv

LEMMA RetryWithoutImagesKeeps ==
  ASSUME RequestInv, NEW o \in Outcomes, RetryWithoutImages(o)
  PROVE  RequestInv'
<1>1. /\ phase = "call" /\ CallEnds(o) /\ ~plain /\ StartRound /\ plain' = TRUE
      /\ UNCHANGED <<setup, mode, attempt, images, lastError, same, result>>
      /\ RequestTypeOK /\ ChainInv /\ AskedInv
  BY DEF RetryWithoutImages, Returns, RequestInv
<1>2. /\ attempt \in 0..Retries + 1 /\ attempt >= 1 /\ Retries \in Nat /\ NumUsable \in Nat
  BY <1>1, UsableIsFinite, ProviderAssumption DEF RequestInv, AttemptInv, RequestTypeOK
<1>3. attempt' \in 1..Retries + 1 /\ plain' \in BOOLEAN
  BY <1>1, <1>2
<1>4. /\ rotation' \in [Instances -> Nat] /\ failedKey' \in [Instances -> Nat]
      /\ calls' \in Nat /\ (mode = "standard" => calls' = calls + 1)
  BY <1>1, CallEndsType
<1>5. ASSUME mode = "standard" PROVE calls' + NumUsable <= Rounds' * NumUsable
  <2>1. calls + NumUsable <= attempt * NumUsable + Cardinality(asked)
    BY <1>1, <1>2, <1>5 DEF RequestInv, CallsInv, Rounds
  <2>2. Rounds' = attempt + 1
    BY <1>1 DEF Rounds
  <2>3. attempt * NumUsable \in Nat /\ (attempt + 1) * NumUsable = attempt * NumUsable + NumUsable
    BY <1>2, NextRound
  <2>4. Cardinality(asked) + 1 <= NumUsable /\ Cardinality(asked) \in Nat
    BY <1>1, CurrentIsNew
  <2>5. calls \in Nat
    BY <1>1 DEF RequestTypeOK
  <2> QED
    BY <1>2, <1>4, <1>5, <2>1, <2>2, <2>3, <2>4, <2>5
<1>6. ChainInv' /\ AskedInv' /\ WholeChainAsked' /\ AttemptInv' /\ CallsInv'
  BY <1>1, <1>3, <1>4, <1>5, RoundStarts
<1>7. RequestTypeOK'
  <2>1. /\ phase' = "call" /\ chain' \in Seq(Instances) /\ pos' \in DOMAIN chain' /\ asked' = {}
    BY <1>1, StartRoundProperties
  <2> QED
    BY <1>1, <1>4, <2>1 DEF RequestTypeOK
<1> QED
  BY <1>6, <1>7 DEF RequestInv

\* The answers and errors that end the request or make it wait.
LEMMA LastCallKeeps ==
  ASSUME RequestInv,
         NEW o \in Outcomes, \/ Succeed /\ o = "ok"
                             \/ Fail(o)
                             \/ \E t \in Texts : TransientError(o, t)
  PROVE  RequestInv'
<1>1. /\ Returns(o) /\ CallEnds(o) /\ RequestTypeOK /\ ChainInv
      /\ UNCHANGED <<setup, mode, attempt, plain>>
      /\ chain' = chain /\ pos' = pos
  BY DEF Returns, Succeed, Fail, TransientError, RequestInv, Return, loop
<1>2. \/ phase' = "done" /\ result' = o /\ asked' = asked \cup {Current}
      \/ /\ phase' = "wait" /\ asked' = asked /\ result' = result
         /\ ~plain /\ (mode = "standard" => attempt <= Retries)
  <2>1. CASE Succeed /\ o = "ok"
    BY <2>1 DEF Succeed, Return
  <2>2. CASE Fail(o)
    BY <2>2 DEF Fail, Return
  <2>3. ASSUME NEW t \in Texts, TransientError(o, t), GivesUp(<<o, t>>)
        PROVE  phase' = "done" /\ result' = o /\ asked' = asked \cup {Current}
    BY <2>3 DEF TransientError, Return
  <2>4. ASSUME NEW t \in Texts, TransientError(o, t), ~GivesUp(<<o, t>>)
        PROVE  /\ phase' = "wait" /\ asked' = asked /\ result' = result
               /\ ~plain /\ (mode = "standard" => attempt <= Retries)
    <3>1. phase' = "wait" /\ asked' = asked /\ result' = result /\ ~plain
      BY <2>4 DEF TransientError
    <3>2. mode = "standard" => ~(attempt > Retries)
      BY <2>4 DEF GivesUp
    <3>3. attempt \in Int /\ Retries \in Int
      BY <1>1, ProviderAssumption DEF RequestTypeOK
    <3> QED
      BY <3>1, <3>2, <3>3
  <2> QED
    BY <2>1, <2>2, <2>3, <2>4
<1>3. ChainInv' /\ AskedInv' /\ WholeChainAsked' /\ AttemptInv' /\ CallsInv'
  BY <1>1, <1>2, RoundEnds
<1>4. /\ rotation' \in [Instances -> Nat] /\ failedKey' \in [Instances -> Nat] /\ calls' \in Nat
  BY <1>1, CallEndsType
<1>5. asked' \subseteq Instances
  BY <1>1, <1>2, ChainNow DEF RequestTypeOK
<1>6. /\ images' \in BOOLEAN /\ same' \in Nat
      /\ lastError' \in (Outcomes \X Texts) \cup {NoError}
  <2>1. CASE Succeed \/ Fail(o)
    BY <1>1, <2>1 DEF RequestTypeOK, Succeed, Fail, loop
  <2>2. ASSUME NEW t \in Texts, TransientError(o, t)
        PROVE  /\ images' \in BOOLEAN /\ same' \in Nat
               /\ lastError' \in (Outcomes \X Texts) \cup {NoError}
    BY <1>1, <2>2 DEF RequestTypeOK, TransientError, SameCount
  <2> QED
    BY <2>1, <2>2
<1>7. phase' \in {"idle", "call", "wait", "done"} /\ result' \in Outcomes \cup Unanswered
  BY <1>1, <1>2 DEF RequestTypeOK
<1>8. RequestTypeOK'
  BY <1>1, <1>4, <1>5, <1>6, <1>7 DEF RequestTypeOK
<1> QED
  BY <1>3, <1>8 DEF RequestInv

LEMMA TimeLimitKeeps ==
  ASSUME RequestInv, TimeLimit
  PROVE  RequestInv'
<1>1. /\ phase \in {"call", "wait"} /\ phase' = "done" /\ result' = "abandoned"
      /\ UNCHANGED <<setup, mode, chain, pos, loop, rotation, asked, calls, failedKey>>
  BY DEF TimeLimit
<1>2. RequestTypeOK'
  BY <1>1 DEF RequestInv, RequestTypeOK, Unanswered, loop
<1>3. ChainInv'
  <2>1. FailoverChain' = FailoverChain /\ Current' = Current
    BY <1>1 DEF FailoverChain, ChainOf, Longer, FailoverOf, Current
  <2> QED
    BY <1>1, <2>1 DEF RequestInv, ChainInv
<1>4. AskedInv' /\ WholeChainAsked' /\ AttemptInv'
  BY <1>1 DEF RequestInv, AskedInv, WholeChainAsked, AttemptInv, Unanswered, loop
<1>5. CallsInv'
  BY <1>1 DEF RequestInv, CallsInv, Rounds, NumUsable, loop
<1> QED
  BY <1>2, <1>3, <1>4, <1>5 DEF RequestInv

\* An idle request: nothing has been called.
LEMMA IdleIsFine ==
  ASSUME setup \in Setups, phase = "idle", chain = <<Primary>>, pos = 1, asked = {}, ~plain,
         calls = 0
  PROVE  ChainInv /\ AskedInv /\ WholeChainAsked /\ AttemptInv /\ CallsInv
<1>1. Current = Primary
  BY DEF Current
<1> QED
  BY <1>1, ProviderAssumption DEF ChainInv, AskedInv, WholeChainAsked, AttemptInv, CallsInv

LEMMA AskAgainKeeps ==
  ASSUME RequestInv, AskAgain
  PROVE  RequestInv'
<1>1. /\ phase' = "idle" /\ attempt' = 0 /\ pos' = 1 /\ plain' = FALSE
      /\ lastError' = NoError /\ same' = 0 /\ result' = "none" /\ asked' = {} /\ calls' = 0
      /\ chain' = <<Primary>> /\ UNCHANGED <<setup, mode, images, rotation, failedKey>>
  BY DEF AskAgain
<1>2. ChainInv' /\ AskedInv' /\ WholeChainAsked' /\ AttemptInv' /\ CallsInv'
  <2>1. Current' = Primary
    BY <1>1 DEF Current
  <2> QED
    BY <1>1, <2>1, ProviderAssumption
       DEF ChainInv, AskedInv, WholeChainAsked, AttemptInv, CallsInv, RequestInv, RequestTypeOK
<1>3. 0 \in 0..Retries + 1 /\ <<Primary>> \in Seq(Instances) /\ 1 \in DOMAIN <<Primary>>
  BY ProviderAssumption
<1>4. RequestTypeOK'
  BY <1>1, <1>3 DEF RequestInv, RequestTypeOK, Unanswered
<1> QED
  BY <1>2, <1>4 DEF RequestInv

LEMMA RequestInitially == RequestInit => RequestInv
<1> SUFFICES ASSUME RequestInit PROVE RequestInv
  OBVIOUS
<1>1. 0 \in 0..Retries + 1 /\ <<Primary>> \in Seq(Instances) /\ 1 \in DOMAIN <<Primary>>
  BY ProviderAssumption
<1>2. RequestTypeOK
  BY <1>1 DEF RequestInit, RequestTypeOK, Unanswered
<1>3. ChainInv /\ AskedInv /\ WholeChainAsked /\ AttemptInv /\ CallsInv
  BY IdleIsFine DEF RequestInit
<1> QED
  BY <1>2, <1>3 DEF RequestInv

LEMMA RequestInductive == RequestInv /\ [RequestNext]_requestVars => RequestInv'
<1> SUFFICES ASSUME RequestInv, [RequestNext]_requestVars PROVE RequestInv'
  OBVIOUS
<1>1. CASE UNCHANGED requestVars
  <2>1. FailoverChain' = FailoverChain /\ Current' = Current
    BY <1>1 DEF FailoverChain, ChainOf, Longer, FailoverOf, Current, requestVars
  <2>2. UsableBefore(pos)' = UsableBefore(pos)
    BY <1>1 DEF UsableBefore, requestVars
  <2>3. RequestTypeOK'
    BY <1>1 DEF RequestInv, RequestTypeOK, requestVars, loop
  <2>4. ChainInv' /\ AskedInv' /\ AttemptInv'
    BY <1>1, <2>1, <2>2 DEF RequestInv, ChainInv, AskedInv, AttemptInv, requestVars, loop
  <2>5. WholeChainAsked'
    BY <1>1, <2>1 DEF RequestInv, WholeChainAsked, MatchesTrigger, requestVars
  <2>6. CallsInv'
    BY <1>1 DEF RequestInv, CallsInv, Rounds, NumUsable, requestVars, loop
  <2> QED
    BY <2>3, <2>4, <2>5, <2>6 DEF RequestInv
<1>2. CASE RequestNext
  <2>1. CASE Succeed
    <3>1. "ok" \in Outcomes
      BY ProviderAssumption
    <3> QED
      BY <2>1, <3>1, LastCallKeeps
  <2> QED
    BY <1>2, <2>1, AskKeeps, RetryKeeps, TimeLimitKeeps, AskAgainKeeps, FailOverKeeps,
       RetryWithoutImagesKeeps, LastCallKeeps DEF RequestNext
<1> QED
  BY <1>1, <1>2

LEMMA RequestInvariance == RequestSpec => []RequestInv
<1> QED
  BY RequestInitially, RequestInductive, PTL DEF RequestSpec

-----------------------------------------------------------------------------
(***************************************************************************)
(* Theorems                                                                *)
(***************************************************************************)

\* The types; among them, that the place of the instance that is called lies in
\* the chain whenever the wrapper calls one (_dispatch).
THEOREM RequestTypeCorrect == RequestSpec => []RequestTypeOK
<1>1. RequestInv => RequestTypeOK
  BY DEF RequestInv
<1> QED
  BY <1>1, RequestInvariance, PTL

\* A standard request makes at most Retries + 2 calls for each usable instance,
\* whatever circles the instances form and whatever errors come back
\* (_run_with_retry around _dispatch).
THEOREM BoundedCalls == RequestSpec => []CallsBounded
<1>1. RequestInv => CallsBounded
  <2> SUFFICES ASSUME RequestInv, mode = "standard"
               PROVE  calls <= (Retries + 2) * NumUsable
    BY DEF CallsBounded, NumUsable
  <2>1. /\ attempt \in 0..Retries + 1 /\ Retries \in Nat /\ calls \in Nat /\ NumUsable \in Nat
        /\ plain \in BOOLEAN
    BY UsableIsFinite, ProviderAssumption DEF RequestInv, RequestTypeOK
  <2>2. Rounds \in Nat /\ Rounds <= Retries + 2
    BY <2>1 DEF Rounds
  <2>3. Rounds * NumUsable <= (Retries + 2) * NumUsable
    BY <2>1, <2>2, MoreRounds
  <2>4. Rounds * NumUsable \in Nat /\ (Retries + 2) * NumUsable \in Nat
    BY <2>1, <2>2, NextRound
  <2>5. calls <= Rounds * NumUsable
    BY <2>1, <2>4 DEF RequestInv, CallsInv
  <2> QED
    BY <2>1, <2>3, <2>4, <2>5
<1> QED
  BY <1>1, RequestInvariance, PTL

\* When a request returns a trigger error, every instance of the chain that can
\* serve was called in the last round, also behind one that cannot be built
\* (_dispatch).
THEOREM NoneLeftOut == RequestSpec => []WholeChainAsked
<1>1. RequestInv => WholeChainAsked
  BY DEF RequestInv
<1> QED
  BY <1>1, RequestInvariance, PTL

=============================================================================
