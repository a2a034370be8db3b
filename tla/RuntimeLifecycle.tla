-------------------------- MODULE RuntimeLifecycle --------------------------
(***************************************************************************)
(* The embedded runtime (openpawlet/runtime/embedded.py) as the owner of   *)
(* agent loops: start() and stop(), the reconciler that follows teams.json *)
(* and the profiles of the agents every two seconds, and the control of    *)
(* the main agent from the console (runtime/agent_manager.py).             *)
(*                                                                         *)
(* Every coroutine runs to its next await in one step. The awaits of a     *)
(* reconcile pass are those that stop a loop: its task is cancelled, ends  *)
(* some time later, and the MCP connections are closed. Meanwhile files    *)
(* change and stop() may begin.                                            *)
(***************************************************************************)
EXTENDS Integers, SequencesExt, FiniteSetsExt

CONSTANTS
  Agents,      \* agents with a profile, the primary one excluded
  Rooms,       \* the sessions a team gives its members
  BuildFails,  \* the passes in which building a loop may fail
  Reverts,     \* TRUE: a profile may get a content again that it had before
  MaxEdits,    \* bound: number of changes of files
  MaxControls, \* bound: number of calls of start_main and stop_main
  None         \* no room, and no agent

ASSUME ConstantsAssumption ==
  /\ IsFiniteSet(Agents) /\ None \notin Rooms \cup Agents
  /\ BuildFails \subseteq {"team", "solo"}
  /\ Reverts \in BOOLEAN
  /\ MaxEdits \in Nat /\ MaxControls \in Nat

VARIABLES
  \* The files.
  room,        \* [Agents -> the room of teams.json it is bound to, or None]
  enabled,     \* the enabled profiles
  version,     \* [Agents -> the content of its profile]
  teamSig,     \* the modification time of teams.json
  agentsSig,   \* the signature of the directory of agents
  \* The loops of the runtime.
  teamLoops,   \* the agents with an entry in _team_loops_by_agent
  teamTask,    \* [Agents -> the room its team task serves, or None]
  soloLoop,    \* [Agents -> the version its standalone loop was built from, 0: none]
  soloFp,      \* [Agents -> _standalone_profile_fp, 0: none]
  soloTask,    \* the agents with an entry in _standalone_tasks_by_agent
  dying,       \* the cancelled tasks that have not ended
  \* The control of the runtime.
  pass,        \* who reconciles, where it is, and what it has read
  lastTeam,    \* last_team_mtime_ns
  lastAgents,  \* last_agents_sig
  stop,        \* where stop() is
  main,        \* the tasks of agent.run() in the order of _tasks
  running,     \* agent._running
  waiting,     \* stop_main waits for this task, or 0
  controls     \* number of calls of start_main and stop_main

files == <<room, enabled, version, teamSig, agentsSig>>
loops == <<teamLoops, teamTask, soloLoop, soloFp, soloTask, dying>>
mainVars == <<main, running, waiting, controls>>
vars == <<files, loops, pass, lastTeam, lastAgents, stop, mainVars>>

\* The contents of a profile that matter to its loop.
Versions == 1..MaxEdits + 1

\* A task of a team member or of a standalone agent.
Task == {"team", "solo"} \X Agents
Stages == {"off", "asleep", "team", "between", "solo", "ended"}
StopStages == {"no", "reconciler", "team", "solo", "main", "done"}

\* A pass: the victims it still has to stop, and what it has read.
Passes == [by : {"start", "reconciler"}, stage : Stages, victims : Seq(Agents),
           room : [Agents -> Rooms \cup {None}], desired : SUBSET Agents,
           version : [Agents -> Versions], teamSig : 0..MaxEdits, agentsSig : 0..MaxEdits]

NoPass == [by |-> "start", stage |-> "off", victims |-> <<>>,
           room |-> [a \in Agents |-> None], desired |-> {},
           version |-> [a \in Agents |-> 1], teamSig |-> 0, agentsSig |-> 0]

TypeOK ==
  /\ room \in [Agents -> Rooms \cup {None}] /\ enabled \subseteq Agents
  /\ version \in [Agents -> Versions]
  /\ teamSig \in 0..MaxEdits /\ agentsSig \in 0..MaxEdits
  /\ teamLoops \subseteq Agents /\ teamTask \in [Agents -> Rooms \cup {None}]
  /\ {soloLoop, soloFp} \subseteq [Agents -> Versions \cup {0}] /\ soloTask \subseteq Agents
  /\ dying \subseteq Task
  /\ pass \in Passes
  /\ {lastTeam, lastAgents} \subseteq -1..MaxEdits
  /\ stop \in StopStages
  /\ main \in Seq({"new", "run", "cancelled", "done"})
  /\ running \in BOOLEAN /\ waiting \in 0..Len(main) /\ controls \in 0..MaxControls

\* The constructor builds the loops of the team members.
Init ==
  /\ room \in [Agents -> Rooms \cup {None}] /\ enabled \in SUBSET Agents
  /\ version = [a \in Agents |-> 1] /\ teamSig = 0 /\ agentsSig = 0
  /\ teamLoops = {a \in Agents : room[a] # None}
  /\ teamTask = [a \in Agents |-> None]
  /\ soloLoop = [a \in Agents |-> 0] /\ soloFp = soloLoop
  /\ soloTask = {} /\ dying = {}
  /\ pass = NoPass /\ lastTeam = -1 /\ lastAgents = -1
  /\ stop = "no"
  /\ main = <<>> /\ running = FALSE /\ waiting = 0 /\ controls = 0

(***************************************************************************)
(* The files, changed by the console or by hand                            *)
(***************************************************************************)

MayEdit == teamSig + agentsSig < MaxEdits

EditTeams ==
  /\ MayEdit /\ teamSig' = teamSig + 1
  /\ \E a \in Agents, r \in Rooms \cup {None} :
       r # room[a] /\ room' = [room EXCEPT ![a] = r]
  /\ UNCHANGED <<enabled, version, agentsSig, loops, pass, lastTeam, lastAgents, stop,
                 mainVars>>

EditProfile ==
  /\ MayEdit /\ agentsSig' = agentsSig + 1
  /\ \E a \in Agents :
       \/ /\ enabled' = SymDiff(enabled, {a}) /\ UNCHANGED version
       \/ /\ \E v \in Versions : /\ v > version[a] \/ (Reverts /\ v < version[a])
                                 /\ version' = [version EXCEPT ![a] = v]
          /\ UNCHANGED enabled
  /\ UNCHANGED <<room, teamSig, loops, pass, lastTeam, lastAgents, stop, mainVars>>

(***************************************************************************)
(* A reconcile pass                                                        *)
(***************************************************************************)

IsAsleep == pass.by = "reconciler" /\ pass.stage = "asleep" /\ stop = "no"

HasTask(k, a) == IF k = "team" THEN teamTask[a] # None ELSE a \in soloTask

\* The first of the victims has its task cancelled.
CancelFirst(k, victims) ==
  IF victims = <<>> THEN UNCHANGED <<teamTask, soloTask, dying>>
  ELSE /\ dying' = dying \cup {t \in {<<k, Head(victims)>>} : HasTask(k, Head(victims))}
       /\ IF k = "team"
          THEN teamTask' = [teamTask EXCEPT ![Head(victims)] = None] /\ UNCHANGED soloTask
          ELSE soloTask' = soloTask \ {Head(victims)} /\ UNCHANGED teamTask

TaskEnds(t) ==
  /\ t \in dying /\ dying' = dying \ {t}
  /\ UNCHANGED <<files, teamLoops, teamTask, soloLoop, soloFp, soloTask, pass, lastTeam,
                 lastAgents, stop, mainVars>>

Bound == {a \in Agents : room[a] # None}

TeamPassDue ==
  \/ pass.by = "start" /\ pass.stage = "off"
  \/ IsAsleep /\ teamSig # lastTeam

\* _ensure_team_runtime: the loops that are missing are built, and the first
\* that has no binding any more is stopped.
TeamPass ==
  /\ TeamPassDue
  /\ LET victims == SetToSeq(teamLoops \ Bound) IN
     /\ pass' = [pass EXCEPT !.stage = "team", !.victims = victims, !.room = room,
                             !.teamSig = teamSig, !.agentsSig = agentsSig]
     /\ CancelFirst("team", victims)
  /\ teamLoops' = teamLoops \cup Bound
  /\ UNCHANGED <<files, soloLoop, soloFp, lastTeam, lastAgents, stop, mainVars>>

\* A loop cannot be built: the next pass does it all again.
TeamPassFails ==
  /\ "team" \in BuildFails
  /\ IsAsleep /\ teamSig # lastTeam
  /\ \E built \in SUBSET (Bound \ teamLoops) :
       built # Bound \ teamLoops /\ teamLoops' = teamLoops \cup built
  /\ lastTeam' = -1 /\ lastAgents' = -1
  /\ UNCHANGED <<files, teamTask, soloLoop, soloFp, soloTask, dying, pass, stop, mainVars>>

\* The task has ended and the connections are closed.
VictimStopped ==
  /\ stop = "no" /\ pass.stage \in {"team", "solo"} /\ pass.victims # <<>>
  /\ LET a == Head(pass.victims) IN
     /\ <<pass.stage, a>> \notin dying
     /\ IF pass.stage = "team"
        THEN teamLoops' = teamLoops \ {a} /\ UNCHANGED <<soloLoop, soloFp>>
        ELSE /\ soloLoop' = [soloLoop EXCEPT ![a] = 0] /\ soloFp' = [soloFp EXCEPT ![a] = 0]
             /\ UNCHANGED teamLoops
  /\ pass' = [pass EXCEPT !.victims = Tail(@)]
  /\ CancelFirst(pass.stage, Tail(pass.victims))
  /\ UNCHANGED <<files, lastTeam, lastAgents, stop, mainVars>>

\* Every member that has no task gets one.
TeamSpawn ==
  /\ pass.stage = "team" /\ pass.victims = <<>>
  /\ teamTask' = [a \in Agents |-> IF teamTask[a] = None /\ a \in teamLoops
                                   THEN pass.room[a] ELSE teamTask[a]]
  /\ pass' = [pass EXCEPT !.stage = "between"]
  /\ UNCHANGED <<files, teamLoops, soloLoop, soloFp, soloTask, dying, lastTeam, lastAgents,
                 stop, mainVars>>

\* Fault: the members of teams are not left out.
SoloDesiredAll == enabled

\* _list_enabled_standalone_agents
SoloDesired == enabled \ teamLoops

HasLoop == {a \in Agents : soloLoop[a] # 0}

\* _ensure_standalone_runtime: loops that are not wanted any more, and those
\* whose profile has changed, are stopped.
SoloPass ==
  /\ pass.stage = "between" \/ (IsAsleep /\ teamSig = lastTeam /\ agentsSig # lastAgents)
  /\ LET drifted == {a \in SoloDesired \cap HasLoop : soloFp[a] # version[a]}
         victims == SetToSeq(HasLoop \ SoloDesired) \o SetToSeq(drifted) IN
     /\ pass' = [pass EXCEPT !.stage = "solo", !.victims = victims,
                             !.desired = SoloDesired, !.version = version,
                             !.teamSig = IF pass.stage = "between" THEN @ ELSE teamSig,
                             !.agentsSig = IF pass.stage = "between" THEN @ ELSE agentsSig]
     /\ CancelFirst("solo", victims)
  /\ UNCHANGED <<files, teamLoops, soloLoop, soloFp, lastTeam, lastAgents, stop, mainVars>>

\* Fault: the signatures are those of the end of the pass.
PassSignaturesLate == [team |-> teamSig, agents |-> agentsSig]

\* What the reconciler remembers: the signatures it read before the pass.
PassSignatures == [team |-> pass.teamSig, agents |-> pass.agentsSig]

\* The loops are built from the profile as it is now; one that cannot be built
\* is left out. start() then creates the reconciler and the main agent's task.
SoloSpawn ==
  /\ pass.stage = "solo" /\ pass.victims = <<>>
  /\ \E failed \in SUBSET (IF "solo" \in BuildFails THEN pass.desired \ HasLoop ELSE {}) :
       LET built == (pass.desired \ HasLoop) \ failed IN
       /\ soloLoop' = [a \in Agents |-> IF a \in built THEN version[a] ELSE soloLoop[a]]
       /\ soloFp' = [a \in Agents |-> IF a \in built THEN pass.version[a] ELSE soloFp[a]]
       /\ soloTask' = soloTask \cup HasLoop \cup built
  /\ pass' = [NoPass EXCEPT !.by = "reconciler", !.stage = "asleep"]
  /\ IF pass.by = "start"
     THEN main' = Append(main, "new") /\ UNCHANGED <<lastTeam, lastAgents>>
     ELSE /\ lastTeam' = PassSignatures.team /\ lastAgents' = PassSignatures.agents
          /\ UNCHANGED main
  /\ UNCHANGED <<files, teamLoops, teamTask, dying, stop, running, waiting, controls>>

(***************************************************************************)
(* stop()                                                                  *)
(***************************************************************************)

\* The reconciler is cancelled where it awaits.
Stop ==
  /\ stop = "no" /\ pass.by = "reconciler"
  /\ pass.stage = "asleep" \/ pass.victims # <<>>
  /\ stop' = "reconciler"
  /\ UNCHANGED <<files, loops, pass, lastTeam, lastAgents, mainVars>>

AllTasks(k) == {<<k, a>> : a \in {b \in Agents : HasTask(k, b)}}
Ended(k) == \A a \in Agents : <<k, a>> \notin dying

\* It ends with the task it waits for; the team tasks are cancelled.
ReconcilerEnds ==
  /\ stop = "reconciler"
  /\ ~(pass.victims # <<>> /\ <<pass.stage, Head(pass.victims)>> \in dying)
  /\ pass' = [NoPass EXCEPT !.by = "reconciler", !.stage = "ended"]
  /\ stop' = "team"
  /\ dying' = dying \cup AllTasks("team") /\ teamTask' = [a \in Agents |-> None]
  /\ UNCHANGED <<files, teamLoops, soloLoop, soloFp, soloTask, lastTeam, lastAgents, mainVars>>

\* Then the standalone ones.
TeamTasksEnded ==
  /\ stop = "team" /\ Ended("team")
  /\ stop' = "solo"
  /\ dying' = dying \cup AllTasks("solo") /\ soloTask' = {}
  /\ UNCHANGED <<files, teamLoops, teamTask, soloLoop, soloFp, pass, lastTeam, lastAgents,
                 mainVars>>

\* The loops are closed and the main agent is told to stop, then cancelled.
SoloTasksEnded ==
  /\ stop = "solo" /\ Ended("solo")
  /\ stop' = "main"
  /\ teamLoops' = {} /\ soloLoop' = [a \in Agents |-> 0]
  /\ running' = FALSE
  /\ main' = [i \in DOMAIN main |-> IF main[i] = "done" THEN "done" ELSE "cancelled"]
  /\ UNCHANGED <<files, teamTask, soloFp, soloTask, dying, pass, lastTeam, lastAgents,
                 waiting, controls>>

\* gather() waits for the tasks that were cancelled.
Stopped ==
  /\ stop = "main" /\ \A i \in DOMAIN main : main[i] # "cancelled"
  /\ stop' = "done"
  /\ UNCHANGED <<files, loops, pass, lastTeam, lastAgents, mainVars>>

(***************************************************************************)
(* The main agent                                                          *)
(***************************************************************************)

\* _is_main_running: the first task of that name, or the flag.
IsMainRunning == (main # <<>> /\ Head(main) # "done") \/ running

MayControl == pass.by = "reconciler" /\ waiting = 0 /\ controls < MaxControls

\* Fault: a runtime that stops does not refuse.
NotStoppingEver == TRUE

NotStopping == stop = "no"

StartMain ==
  /\ MayControl /\ NotStopping /\ ~IsMainRunning
  /\ main' = Append(main, "new") /\ controls' = controls + 1
  /\ UNCHANGED <<files, loops, pass, lastTeam, lastAgents, stop, running, waiting>>

StopMain ==
  /\ MayControl /\ stop # "done" /\ IsMainRunning
  /\ running' = FALSE /\ controls' = controls + 1
  /\ waiting' = IF Head(main) = "done" THEN 0 ELSE 1
  /\ UNCHANGED <<files, loops, pass, lastTeam, lastAgents, stop, main>>

StopMainReturns ==
  /\ waiting = 1 /\ Head(main) = "done" /\ waiting' = 0
  /\ UNCHANGED <<files, loops, pass, lastTeam, lastAgents, stop, main, running, controls>>

StopMainTimesOut ==
  /\ waiting = 1 /\ Head(main) \in {"new", "run"}
  /\ main' = [main EXCEPT ![1] = "cancelled"]
  /\ UNCHANGED <<files, loops, pass, lastTeam, lastAgents, stop, running, waiting, controls>>

\* A task of agent.run(): it sets the flag, and ends when it is not set.
MainStarts(i) ==
  /\ main[i] = "new" /\ main' = [main EXCEPT ![i] = "run"] /\ running' = TRUE
  /\ UNCHANGED <<files, loops, pass, lastTeam, lastAgents, stop, waiting, controls>>

MainEnds(i) ==
  /\ main[i] = "cancelled" \/ (main[i] = "run" /\ ~running)
  /\ main' = [main EXCEPT ![i] = "done"]
  /\ UNCHANGED <<files, loops, pass, lastTeam, lastAgents, stop, running, waiting, controls>>

Quiescent ==
  /\ stop = "done" /\ waiting = 0
  /\ UNCHANGED vars

Next ==
  \/ EditTeams \/ EditProfile
  \/ TeamPass \/ TeamPassFails \/ VictimStopped \/ TeamSpawn \/ SoloPass \/ SoloSpawn
  \/ Stop \/ ReconcilerEnds \/ TeamTasksEnded \/ SoloTasksEnded \/ Stopped
  \/ StartMain \/ StopMain \/ StopMainReturns \/ StopMainTimesOut
  \/ \E t \in Task : TaskEnds(t)
  \/ \E i \in DOMAIN main : MainStarts(i) \/ MainEnds(i)
  \/ Quiescent

Spec == Init /\ [][Next]_vars

\* The reconciler comes every two seconds and a cancelled task ends; a loop can
\* be built at last.
Fairness ==
  /\ WF_vars(TeamPass) /\ WF_vars(SoloPass)
  /\ WF_vars(VictimStopped) /\ WF_vars(TeamSpawn) /\ WF_vars(SoloSpawn)
  /\ \A t \in Task : WF_vars(TaskEnds(t))

FairSpec == Spec /\ Fairness

(***************************************************************************)
(* Properties                                                              *)
(***************************************************************************)

Settled ==
  \A a \in Agents :
    /\ teamTask[a] # None <=> room[a] # None
    /\ a \in soloTask <=> a \in enabled /\ room[a] = None
    /\ a \in soloTask => soloLoop[a] = version[a]

\* The runtime catches up with the files: when they change no more, the members
\* of teams and the enabled agents run, nobody else does, and the standalone
\* loops are those of the profiles, although files change in the middle of a
\* pass and a pass may fail.
CatchesUp == <>[](stop = "no" => Settled)

\* Between two passes no agent has a team loop and a standalone loop ("so we
\* never spin two loops for the same agent", embedded.py).
OneLoopAtRest ==
  pass.stage = "asleep" =>
    \A a \in Agents : ~(teamTask[a] # None /\ a \in soloTask)

\* After stop() nothing runs, wherever it found the reconciler and whatever the
\* console did with the main agent in the meantime.
NothingRunsAfterStop ==
  stop = "done" =>
    /\ dying = {} /\ soloTask = {} /\ \A a \in Agents : teamTask[a] = None
    /\ \A i \in DOMAIN main : main[i] = "done"

\* "Start the main agent loop if it is not running" (agent_manager.py): there
\* are never two.
OneMainLoop == Cardinality({i \in DOMAIN main : main[i] \in {"new", "run"}}) <= 1

\* A member's task serves the room the agent is bound to.
ServesItsRoom ==
  <>[](stop = "no" => \A a \in Agents : room[a] # None => teamTask[a] = room[a])

=============================================================================
