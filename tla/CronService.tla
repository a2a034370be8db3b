---------------------------- MODULE CronService ----------------------------
(***************************************************************************)
(* CronService (openpawlet/cron/service.py): a job store kept in memory    *)
(* and in jobs.json, an action log (action.jsonl) through which other      *)
(* instances hand their changes to the running one, a timer task that runs *)
(* the due jobs, and run_job(), which runs one by hand.                    *)
(*                                                                         *)
(* One instance is the service; "the other instance" is a CronService that *)
(* is not running (the console's disk-bound fallback, another process).    *)
(* on_job() awaits a whole agent turn, so everything else happens while a  *)
(* job runs.  A reload of the store replaces the job OBJECTS: an execution *)
(* that still holds the old ones is no longer "attached" and what it       *)
(* records is lost.                                                        *)
(***************************************************************************)
EXTENDS Naturals, FiniteSets, Sequences, Functions

CONSTANTS
  Jobs,        \* job ids
  Kind,        \* [Jobs -> {"every", "at", "atDelete"}]: the schedule's kind,
               \* "atDelete" a one-shot with delete_after_run
  At,          \* [Jobs -> Nat]: at_ms, or the period of a repeating job
  System,      \* jobs whose payload kind is "system_event"
  Stored,      \* jobs in jobs.json at the beginning
  Ops,         \* the operations this instance of the model performs
  Ticks,       \* identities of timer tasks
  SlowCancel,  \* TRUE: a cancelled on_job may go on cleaning up for a while
               \* (a shell tool waits for the process it kills); FALSE: it
               \* ends before anything else runs
  MaxSleep,    \* max_sleep_ms
  MaxNow,      \* bound: last instant
  MaxCalls,    \* bound: number of API calls
  None         \* no task, no job

ASSUME ConstantsAssumption ==
  /\ Kind \in [Jobs -> {"every", "at", "atDelete"}]
  /\ At \in [Jobs -> Nat \ {0}]
  /\ System \subseteq Jobs /\ Stored \subseteq Jobs
  /\ SlowCancel \in BOOLEAN
  /\ MaxSleep \in Nat \ {0} /\ MaxNow \in Nat /\ MaxCalls \in Nat
  /\ None \notin Jobs \cup Ticks

VARIABLES
  now,          \* _now_ms()
  calls,        \* number of API calls so far
  mem,          \* self._store: the jobs in memory
  disk,         \* jobs.json
  log,          \* action.jsonl
  running,      \* self._running
  timerActive,  \* self._timer_active
  timer,        \* self._timer_task
  tick,         \* [Ticks -> state of that timer task]
  cancelled,    \* timer tasks cancelled while they run a job
  manual,       \* the run_job() call under way
  attached,     \* [Ticks \cup {"run_job"} -> jobs it holds the current object of]
  other,        \* the call under way in the other instance
  wanted,       \* history: start() was called and stop() was not
  added,        \* history: jobs whose creation was acknowledged
  removed,      \* history: jobs whose removal was acknowledged
  completed,    \* history: [Jobs -> times on_job() ran to its end]
  shot          \* history: one-shots the timer has run

store == <<mem, disk, log>>
timers == <<timer, tick, cancelled, timerActive>>
history == <<added, removed, completed, shot>>
vars == <<now, calls, store, running, timers, manual, attached, other, wanted,
          history>>

JobState == [on : BOOLEAN, next : Nat, runs : Nat]   \* next = 0: none
IsJobMap(jobs) ==
  DOMAIN jobs \subseteq Jobs /\ \A j \in DOMAIN jobs : jobs[j] \in JobState
Runners == Ticks \cup {"run_job"}
Idle == [pc |-> "none", job |-> None, due |-> {}, wake |-> 0]
NoRun == [job |-> None, was |-> FALSE]
NoCall == [op |-> "none", job |-> None]

TypeOK ==
  /\ now \in 0..MaxNow /\ calls \in 0..MaxCalls
  /\ IsJobMap(mem) /\ IsJobMap(disk)
  /\ \A i \in DOMAIN log : log[i].op \in {"put", "del"} /\ log[i].job \in Jobs
  /\ {running, timerActive, wanted} \subseteq BOOLEAN
  /\ timer \in Ticks \cup {None}
  /\ \A t \in Ticks :
       /\ tick[t].pc \in {"none", "sleeping", "executing"}
       /\ tick[t].pc = "executing" <=> tick[t].job # None
       /\ tick[t].due \subseteq Jobs
       /\ tick[t].due # {} => tick[t].pc = "executing"
  /\ \A t \in cancelled : tick[t].pc = "executing"
  /\ manual.job \in Jobs \cup {None} /\ manual.was \in BOOLEAN
  /\ attached \in [Runners -> SUBSET Jobs]
  /\ \A r \in Runners : attached[r] \subseteq DOMAIN mem
  /\ other.op \in {"none", "put", "del"}
  /\ {added, removed, shot} \subseteq SUBSET Jobs
  /\ completed \in [Jobs -> Nat]

Put(jobs, j, state) ==
  [x \in DOMAIN jobs \cup {j} |-> IF x = j THEN state ELSE jobs[x]]
Without(jobs, j) == Restrict(jobs, DOMAIN jobs \ {j})

\* _compute_next_run at instant t; 0 when the one-shot is in the past.
NextRun(j, t) ==
  IF Kind[j] = "every" THEN t + At[j] ELSE IF At[j] > t THEN At[j] ELSE 0

FreshState(j) == [on |-> TRUE, next |-> NextRun(j, now), runs |-> 0]

Init ==
  /\ now = 0 /\ calls = 0
  /\ disk = [j \in Stored |-> [on |-> TRUE, next |-> NextRun(j, 0), runs |-> 0]]
  /\ mem = disk
  /\ log = <<>>
  /\ running = FALSE /\ timerActive = FALSE /\ wanted = FALSE
  /\ timer = None
  /\ tick = [t \in Ticks |-> Idle]
  /\ cancelled = {}
  /\ manual = NoRun
  /\ attached = [r \in Runners |-> {}]
  /\ other = NoCall
  /\ added = Stored /\ removed = {} /\ shot = {}
  /\ completed = [j \in Jobs |-> 0]

(***************************************************************************)
(* Loading and saving                                                      *)
(***************************************************************************)

\* One line of the action log: add and update overwrite the job, del of an
\* unknown job raises and is skipped.
ApplyLine(jobs, line) ==
  IF line.op = "put" THEN Put(jobs, line.job, line.state)
  ELSE Without(jobs, line.job)

\* The loop of _merge_action over the lines of the log.
Replay(jobs, lines) ==
  LET upTo[n \in 0..Len(lines)] ==
        IF n = 0 THEN jobs ELSE ApplyLine(upTo[n - 1], lines[n])
  IN upTo[Len(lines)]

\* _merge_action: the store on disk with the log applied to it.
Merged == Replay(disk, log)

\* "changed": some line of the log could be applied.
Applies ==
  \E i \in DOMAIN log :
    \/ log[i].op = "put"
    \/ log[i].job \in DOMAIN Replay(disk, SubSeq(log, 1, i - 1))

\* Fault: the store is reloaded under the timer's feet.
ViewUnpinned == Merged

\* What _load_store returns: the store is pinned while the timer runs jobs.
View == IF timerActive THEN mem ELSE Merged

\* The objects executions hold after _load_store, and after job j's object
\* was replaced or dropped.
Attached == IF timerActive THEN attached ELSE [r \in Runners |-> {}]
AttachedWithout(j) == [r \in Runners |-> Attached[r] \ {j}]

\* Only a running instance consumes the log.
LogAfter(run) == IF run /\ ~timerActive /\ Applies THEN <<>> ELSE log
DiskAfter(run) == IF LogAfter(run) # log THEN Merged ELSE disk

(***************************************************************************)
(* The timer                                                               *)
(***************************************************************************)

\* _get_next_wake_ms and the delay computed from it.
Wake(jobs) ==
  LET times == {jobs[j].next : j \in {x \in DOMAIN jobs :
                                       jobs[x].on /\ jobs[x].next # 0}}
      first == CHOOSE w \in times \cup {now + MaxSleep} :
                 \A v \in times \cup {now + MaxSleep} : w <= v
  IN IF first < now THEN now ELSE first

\* Fault: a timer task that exists, finished or not, is never replaced.
ArmOnlyOnce(run, jobs, ticks) ==
  LET free == {t \in Ticks : ticks[t].pc = "none"} IN
  /\ UNCHANGED cancelled
  /\ IF run /\ timer = None /\ free # {}
     THEN /\ timer' = CHOOSE t \in free : TRUE
          /\ tick' = [ticks EXCEPT ![timer'] =
                        [Idle EXCEPT !.pc = "sleeping", !.wake = Wake(jobs)]]
     ELSE timer' = timer /\ tick' = ticks

\* _arm_timer: the timer task is cancelled, whatever it is doing, and unless
\* the service is stopped a new one sleeps until the next job is due.
Arm(run, jobs, ticks) ==
  LET left == IF timer # None /\ ticks[timer].pc = "sleeping"
              THEN [ticks EXCEPT ![timer] = Idle] ELSE ticks
      free == {t \in Ticks : left[t].pc = "none"}
  IN /\ cancelled' = IF timer # None /\ ticks[timer].pc = "executing"
                     THEN cancelled \cup {timer} ELSE cancelled
     /\ \/ ~run /\ tick' = left /\ timer' = timer
        \/ /\ run /\ free # {}
           /\ timer' = CHOOSE t \in free : TRUE
           /\ tick' = [left EXCEPT ![timer'] =
                         [Idle EXCEPT !.pc = "sleeping", !.wake = Wake(jobs)]]

\* Fault: a one-shot is not disabled once it has run.
RecordedStillDue(jobs, j, isAttached) ==
  IF isAttached THEN [jobs EXCEPT ![j].runs = @ + 1] ELSE jobs

\* _execute_job after on_job() returned or raised: the run is recorded on the
\* object the execution holds; a one-shot is disabled, or deleted by its id.
Recorded(jobs, j, isAttached) ==
  IF Kind[j] = "atDelete" THEN Without(jobs, j)
  ELSE IF isAttached
  THEN [jobs EXCEPT ![j] =
          [on |-> @.on /\ Kind[j] = "every",
           next |-> IF Kind[j] = "every" THEN NextRun(j, now) ELSE 0,
           runs |-> @.runs + 1]]
  ELSE jobs

Due(jobs) == {j \in DOMAIN jobs : jobs[j].on /\ jobs[j].next \in 1..now}

\* _on_timer of tick t: the due jobs run one after the other, the store is
\* saved and the timer armed again.
TickWake(t) ==
  /\ tick[t].pc = "sleeping" /\ tick[t].wake <= now
  /\ SlowCancel \/ cancelled = {}
  /\ \/ /\ ~running
        /\ tick' = [tick EXCEPT ![t] = Idle]
        /\ timer' = None
        /\ UNCHANGED <<store, cancelled, timerActive, attached>>
     \/ /\ running
        /\ Due(View) = {}
        /\ mem' = View /\ disk' = View /\ log' = LogAfter(TRUE)
        /\ attached' = Attached
        /\ timerActive' = FALSE
        /\ Arm(TRUE, View, [tick EXCEPT ![t] = Idle])
     \/ /\ running
        /\ mem' = View /\ disk' = DiskAfter(TRUE) /\ log' = LogAfter(TRUE)
        /\ attached' = [Attached EXCEPT ![t] = Due(View)]
        /\ timerActive' = TRUE
        /\ \E j \in Due(View) :
             tick' = [tick EXCEPT ![t].pc = "executing", ![t].job = j,
                                  ![t].due = Due(View) \ {j}]
        /\ UNCHANGED <<timer, cancelled>>
  /\ UNCHANGED <<now, calls, running, manual, other, wanted, history>>

\* What an execution by runner r leaves attached.
AttachedAfter(j, r, done) ==
  [x \in Runners |->
     (IF x = r /\ done THEN {} ELSE attached[x])
       \ (IF Kind[j] = "atDelete" THEN {j} ELSE {})]

TickJobDone(t) ==
  LET j == tick[t].job
      jobs == Recorded(mem, j, j \in attached[t])
  IN /\ tick[t].pc = "executing" /\ t \notin cancelled
     /\ mem' = jobs
     /\ completed' = [completed EXCEPT ![j] = @ + 1]
     /\ shot' = IF Kind[j] = "every" THEN shot ELSE shot \cup {j}
     /\ added' = IF Kind[j] = "atDelete" THEN added \ {j} ELSE added
     /\ attached' = AttachedAfter(j, t, tick[t].due = {})
     /\ \/ /\ \E i \in tick[t].due :
               tick' = [tick EXCEPT ![t].job = i, ![t].due = @ \ {i}]
           /\ UNCHANGED <<disk, timer, cancelled, timerActive>>
        \/ /\ tick[t].due = {}
           /\ disk' = jobs
           /\ timerActive' = FALSE
           /\ Arm(running, jobs, [tick EXCEPT ![t] = Idle])
     /\ UNCHANGED <<now, calls, log, running, manual, other, wanted, removed>>

\* CancelledError out of on_job(): nothing is recorded, saved or armed.
CancelledTickEnds(t) ==
  /\ t \in cancelled
  /\ tick' = [tick EXCEPT ![t] = Idle]
  /\ cancelled' = cancelled \ {t}
  /\ timer' = IF timer = t THEN None ELSE timer
  /\ timerActive' = FALSE
  /\ attached' = [attached EXCEPT ![t] = {}]
  /\ UNCHANGED <<now, calls, store, running, manual, other, wanted, history>>

(***************************************************************************)
(* The service's API                                                       *)
(***************************************************************************)

Call(op) == op \in Ops /\ calls < MaxCalls /\ calls' = calls + 1

\* list_jobs, get_job, status, and every call that is refused.
ListJobs ==
  /\ Call("list")
  /\ mem' = View /\ disk' = DiskAfter(running) /\ log' = LogAfter(running)
  /\ attached' = Attached
  /\ UNCHANGED <<now, running, timers, manual, other, wanted, history>>

\* Faults: the running service forgets to arm the timer; it forgets to save.
ChangeUnarmed(jobs, stillAttached, line) ==
  /\ mem' = jobs
  /\ attached' = stillAttached
  /\ \/ running /\ disk' = jobs /\ log' = LogAfter(TRUE)
     \/ ~running /\ log' = Append(log, line) /\ UNCHANGED disk
  /\ UNCHANGED timers

ChangeUnsaved(jobs, stillAttached, line) ==
  /\ mem' = jobs
  /\ attached' = stillAttached
  /\ \/ /\ running
        /\ disk' = DiskAfter(TRUE)
        /\ log' = LogAfter(TRUE)
        /\ Arm(TRUE, jobs, tick)
        /\ UNCHANGED timerActive
     \/ /\ ~running
        /\ log' = Append(log, line)
        /\ UNCHANGED <<disk, timers>>

\* A change of the store by the API: a running service saves it and arms the
\* timer, a stopped one only appends it to the action log.
Change(jobs, stillAttached, line) ==
  /\ mem' = jobs
  /\ attached' = stillAttached
  /\ \/ /\ running
        /\ disk' = jobs
        /\ log' = LogAfter(TRUE)
        /\ Arm(TRUE, jobs, tick)
        /\ UNCHANGED timerActive
     \/ /\ ~running
        /\ log' = Append(log, line)
        /\ UNCHANGED <<disk, timers>>

\* The id of a new job is a new uuid.
Fresh(j) ==
  j \notin added \cup removed \cup shot \cup System \cup DOMAIN mem \cup DOMAIN Merged

AddJob(j) ==
  LET line == [op |-> "put", job |-> j, state |-> FreshState(j)] IN
  /\ Call("add")
  /\ Fresh(j)
  /\ added' = added \cup {j}
  /\ \/ running /\ Change(Put(View, j, FreshState(j)), Attached, line)
     \/ /\ ~running
        /\ log' = Append(log, line)
        /\ UNCHANGED <<mem, disk, attached, timers>>
  /\ UNCHANGED <<now, running, manual, other, wanted, removed, completed, shot>>

RemoveJob(j) ==
  /\ Call("remove")
  /\ j \in DOMAIN View \ System
  /\ Change(Without(View, j), AttachedWithout(j), [op |-> "del", job |-> j])
  /\ removed' = removed \cup {j}
  /\ added' = added \ {j}
  /\ UNCHANGED <<now, running, manual, other, wanted, completed, shot>>

Enabled(state, j, on) ==
  [state EXCEPT !.on = on, !.next = IF on THEN NextRun(j, now) ELSE 0]

EnableJob(j, on) ==
  /\ Call("enable")
  /\ j \in DOMAIN View
  /\ LET state == Enabled(View[j], j, on) IN
       Change(Put(View, j, state), Attached,
              [op |-> "put", job |-> j, state |-> state])
  /\ UNCHANGED <<now, running, manual, other, wanted, history>>

\* update_job (the schedule stays what it was): an enabled job is rescheduled.
UpdateJob(j) ==
  /\ Call("update")
  /\ j \in DOMAIN View \ System
  /\ LET state == IF View[j].on THEN Enabled(View[j], j, TRUE) ELSE View[j] IN
       Change(Put(View, j, state), Attached,
              [op |-> "put", job |-> j, state |-> state])
  /\ UNCHANGED <<now, running, manual, other, wanted, history>>

\* A new object replaces the old one; only its history is carried over.
RegisterSystemJob(j) ==
  LET state == [FreshState(j) EXCEPT
                  !.runs = IF j \in DOMAIN View THEN View[j].runs ELSE 0]
      jobs == Put(View, j, state)
  IN /\ Call("register")
     /\ j \in System
     /\ mem' = jobs /\ disk' = jobs /\ log' = LogAfter(running)
     /\ attached' = AttachedWithout(j)
     /\ Arm(running, jobs, tick)
     /\ added' = added \cup {j}
     /\ UNCHANGED <<now, running, timerActive, manual, other, wanted, removed,
                    completed, shot>>

Start ==
  LET jobs == [j \in DOMAIN View |->
                 IF View[j].on THEN [View[j] EXCEPT !.next = NextRun(j, now)]
                 ELSE View[j]]
  IN /\ Call("start") /\ ~wanted
     /\ wanted' = TRUE
     /\ running' = TRUE
     /\ mem' = jobs /\ disk' = jobs /\ log' = LogAfter(TRUE)
     /\ attached' = Attached
     /\ Arm(TRUE, jobs, tick)
     /\ UNCHANGED <<now, timerActive, manual, other, history>>

\* The timer is cancelled; nothing is saved.
Stop ==
  /\ Call("stop") /\ wanted
  /\ wanted' = FALSE
  /\ running' = FALSE
  /\ timer' = None
  /\ IF timer # None /\ tick[timer].pc = "executing"
     THEN cancelled' = cancelled \cup {timer} /\ UNCHANGED tick
     ELSE /\ tick' = IF timer = None THEN tick ELSE [tick EXCEPT ![timer] = Idle]
          /\ UNCHANGED cancelled
  /\ UNCHANGED <<now, store, timerActive, manual, attached, other, history>>

\* run_job() up to the await of on_job(): _running is set for the duration,
\* so the action log is consumed even by a stopped service.  A disabled job is
\* refused unless forced, and the timer is armed in either case.
RunJob(j) ==
  /\ Call("run")
  /\ manual = NoRun
  /\ j \in DOMAIN View
  /\ mem' = View /\ disk' = DiskAfter(TRUE) /\ log' = LogAfter(TRUE)
  /\ \/ /\ manual' = [job |-> j, was |-> running]
        /\ running' = TRUE
        /\ attached' = [Attached EXCEPT !["run_job"] = {j}]
        /\ UNCHANGED timers
     \/ /\ ~View[j].on
        /\ attached' = Attached
        /\ IF running THEN Arm(TRUE, View, tick) /\ UNCHANGED timerActive
           ELSE UNCHANGED timers
        /\ UNCHANGED <<manual, running>>
  /\ UNCHANGED <<now, other, wanted, history>>

\* The finally block of run_job.
Restored == manual.was

RunJobDone ==
  LET j == manual.job
      jobs == Recorded(mem, j, j \in attached["run_job"])
  IN /\ manual # NoRun
     /\ mem' = jobs /\ disk' = jobs
     /\ attached' = AttachedAfter(j, "run_job", TRUE)
     /\ completed' = [completed EXCEPT ![j] = @ + 1]
     /\ added' = IF Kind[j] = "atDelete" THEN added \ {j} ELSE added
     /\ running' = Restored
     /\ IF manual.was THEN Arm(TRUE, jobs, tick) /\ UNCHANGED timerActive
        ELSE UNCHANGED timers
     /\ manual' = NoRun
     /\ UNCHANGED <<now, calls, log, other, wanted, removed, shot>>

(***************************************************************************)
(* Crashes, the other instance, time                                       *)
(***************************************************************************)

LoseMemory ==
  /\ running' = FALSE /\ wanted' = FALSE /\ timerActive' = FALSE
  /\ timer' = None /\ tick' = [t \in Ticks |-> Idle] /\ cancelled' = {}
  /\ manual' = NoRun
  /\ attached' = [r \in Runners |-> {}]
  /\ mem' = disk
  /\ UNCHANGED <<now, disk, other, shot>>

\* What a crash leaves behind: the records of the runs that were saved.
Keeps(saved) ==
  completed' = [j \in Jobs |-> IF j \in DOMAIN saved THEN saved[j].runs
                                                     ELSE completed[j]]

Crash ==
  /\ Call("crash")
  /\ LoseMemory
  /\ Keeps(Merged)
  /\ UNCHANGED <<log, added, removed>>

\* Between the truncation of the log and the save of the merged store, in any
\* load by a running service or in start().
CrashInMerge ==
  /\ Call("crashInMerge")
  /\ LogAfter(TRUE) # log
  /\ log' = <<>>
  /\ LoseMemory
  /\ Keeps(disk)
  /\ added' = (added \cup removed) \cap DOMAIN disk
  /\ removed' = removed \ DOMAIN disk

OtherAdd(j) ==
  /\ Call("otherAdd")
  /\ Fresh(j)
  /\ added' = added \cup {j}
  /\ log' = Append(log, [op |-> "put", job |-> j, state |-> FreshState(j)])
  /\ UNCHANGED <<now, mem, disk, running, timers, manual, attached, other,
                 wanted, removed, completed, shot>>

\* The other instance reads the store and the log (it never consumes it) ...
OtherLoad(j) ==
  /\ Call("other")
  /\ other = NoCall
  /\ j \in DOMAIN Merged
  /\ \/ \E on \in BOOLEAN :
          other' = [op |-> "put", job |-> j, state |-> Enabled(Merged[j], j, on)]
     \/ j \notin System /\ other' = [op |-> "del", job |-> j]
  /\ UNCHANGED <<now, store, running, timers, manual, attached, wanted, history>>

\* ... and appends its change; the file lock covers only this step.
OtherAppend ==
  /\ other # NoCall
  /\ log' = Append(log, other)
  /\ other' = NoCall
  /\ removed' = IF other.op = "del" THEN removed \cup {other.job} ELSE removed
  /\ added' = IF other.op = "del" THEN added \ {other.job} ELSE added
  /\ UNCHANGED <<now, calls, mem, disk, running, timers, manual, attached,
                 wanted, completed, shot>>

Clock ==
  /\ now < MaxNow
  /\ now' = now + 1
  /\ UNCHANGED <<calls, store, running, timers, manual, attached, other,
                 wanted, history>>

\* The bounds are reached and nothing is left to do.
Finished ==
  /\ now = MaxNow /\ cancelled = {} /\ manual = NoRun /\ other = NoCall
  /\ \A t \in Ticks : tick[t].pc # "executing" /\
                      (tick[t].pc = "sleeping" => tick[t].wake > now)
  /\ UNCHANGED vars

Next ==
  \/ \E t \in Ticks : TickWake(t) \/ TickJobDone(t) \/ CancelledTickEnds(t)
  \/ ListJobs
  \/ \E j \in Jobs :
       \/ AddJob(j) \/ RemoveJob(j) \/ UpdateJob(j) \/ RegisterSystemJob(j)
       \/ RunJob(j) \/ OtherAdd(j) \/ OtherLoad(j)
       \/ \E on \in BOOLEAN : EnableJob(j, on)
  \/ Start \/ Stop \/ RunJobDone
  \/ Crash \/ CrashInMerge \/ OtherAppend
  \/ Clock \/ Finished

\* The event loop runs every ready task and every job ends (the turn it runs
\* is made of awaits with timeouts).
Fairness ==
  /\ \A t \in Ticks :
       /\ WF_vars(TickWake(t))
       /\ WF_vars(TickJobDone(t))
       /\ WF_vars(CancelledTickEnds(t))
  /\ WF_vars(RunJobDone)

Spec == Init /\ [][Next]_vars
FairSpec == Spec /\ Fairness

-----------------------------------------------------------------------------
(***************************************************************************)
(* Properties                                                              *)
(***************************************************************************)

Executing == {t \in Ticks : tick[t].pc = "executing"}

\* Whenever no job runs, the store every caller of list_jobs() is shown holds
\* one record for each execution that ran to its end: neither a poll during a
\* run nor an API call that cancels the timer rolls a finished run back.
RunsRecorded ==
  Executing = {} /\ manual = NoRun =>
    \A j \in DOMAIN View : View[j].runs = completed[j]

\* A one-shot the timer has run to its end is never run by the timer again.
OneShotOnce ==
  [][\A t \in Ticks :
       tick'[t].pc = "executing" /\ tick'[t].job # tick[t].job
         => tick'[t].job \notin shot]_vars

\* While the service runs, its timer exists and sleeps no longer than until
\* the next job known to it: no sequence of calls leaves the service without a
\* tick, or with one that wakes too late.
TimerCoversNextJob ==
  running /\ manual = NoRun =>
    /\ timer # None /\ timer \notin cancelled
    /\ tick[timer].pc = "sleeping" =>
         \A j \in DOMAIN mem :
           mem[j].on /\ mem[j].next # 0 =>
             tick[timer].wake <= mem[j].next \/ tick[timer].wake <= now

\* Outside a run_job() call the service runs exactly if it was started and
\* not stopped since ("without disturbing the service's running state").
RunningAsRequested == manual = NoRun => running = wanted

\* A job whose creation was acknowledged, by the service or by the other
\* instance, stays in the file or in the log until it is removed or deletes
\* itself, whatever is loaded, merged, saved or cancelled meanwhile; and a job
\* whose removal was acknowledged does not come back.
EditsKept == added \subseteq DOMAIN Merged /\ removed \cap DOMAIN Merged = {}

\* A job that is due while the service runs is run, or is not due any more
\* (it was run by hand, rescheduled or removed), or the service stops.
DueJobRuns ==
  \A j \in Jobs :
    running /\ j \in Due(mem) ~>
      \/ \E t \in Executing : tick[t].job = j
      \/ j \notin Due(mem) \/ ~running

=============================================================================
