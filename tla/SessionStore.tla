---------------------------- MODULE SessionStore ----------------------------
(***************************************************************************)
(* The life of one session's rows (openpawlet/session/manager.py): the     *)
(* cached session object beside the session file, the turns that append to *)
(* it, and everything that moves rows out of it: consolidation by tokens   *)
(* (Consolidator in agent/memory.py), compaction of idle sessions          *)
(* (agent/autocompact.py), the /new command (command/builtin.py), the trim *)
(* after a heartbeat (runtime/embedded.py) and deletion by the console     *)
(* (console/server/session_store.py).                                      *)
(*                                                                         *)
(* All of it runs on one asyncio event loop, so what lies between two      *)
(* awaits is one step.  Each activity keeps the session OBJECT it began    *)
(* with over its awaits; the cache may hold another one by then.           *)
(***************************************************************************)
EXTENDS Naturals, Sequences, FiniteSets, SequencesExt, FiniteSetsExt

CONSTANTS
  Lanes,       \* turns that may run at once: "dispatch" holds the session's
               \* lock, "direct" (process_direct) takes none
  Jobs,        \* bound: background tasks at a time
  Plans,       \* what a behaviour does, as records [ops, lanes, budget, quiet]:
               \* budget is the consolidation's budget, in rows, and quiet says
               \* that nothing is begun while something else is at work
  Keep,        \* rows kept by a compaction or a trim
  MaxRounds,   \* _MAX_CONSOLIDATION_ROUNDS
  MaxRows,     \* bound: rows written by the turns
  MaxOps,      \* bound: uses of each operation that is not a turn
  None         \* no object

Operations == {"cancel", "new", "compact", "trim", "delete", "create", "stop", "crash"}

ASSUME ConstantsAssumption ==
  /\ Lanes = {"dispatch", "direct"} /\ Lanes \cap Jobs = {}
  /\ \A p \in Plans : p.ops \subseteq Operations /\ p.lanes \subseteq Lanes /\ p.budget \in Nat
                    /\ p.quiet \in BOOLEAN
  /\ Keep \in Nat /\ MaxRounds \in Nat \ {0} /\ MaxRows \in Nat /\ MaxOps \in Nat
  /\ None \notin Nat

VARIABLES
  plan,       \* one of Plans, chosen at the start
  store,      \* [heap: the session objects of this process, cache: the cached
              \* one, file: the content of the session file or NoFile]
  turn,       \* [Lanes -> the turn's step and session object]
  task,       \* [Lanes and Jobs -> a consolidation or another archiving task]
  lock,       \* the session's consolidation lock: its holder, if it has the model
              \* work, and those that wait for it, in order
  archiving,  \* AutoCompact._archiving holds the session's key
  summaries,  \* AutoCompact._summaries holds a summary of the session
  history,    \* rows archived into history.jsonl, summarised or raw
  evicted,    \* rows a trim moved to the transcript
  next,       \* the next row's number
  used,       \* [Operations -> how often it was used]
  said,       \* history: the rows the file has held
  deleted     \* history: the rows the file held when it was deleted

work == <<turn, task, lock, archiving, summaries>>
vars == <<plan, store, work, history, evicted, next, used, said, deleted>>

Row == [role : {"user", "assistant"}, n : 1..MaxRows]
NoFile == [rows |-> <<>>, last |-> 0, pending |-> FALSE, summary |-> FALSE, exists |-> FALSE]
EmptyFile == [NoFile EXCEPT !.exists = TRUE]
\* An object's exists says that it is anchored to a file on disk.
Contents == [rows : Seq(Row), last : 0..MaxRows, pending : BOOLEAN, summary : BOOLEAN,
             exists : BOOLEAN]
Objects == Nat \cup {None}
Stores == [heap : Seq(Contents), cache : Objects, file : Contents]
Turns == [pc : {"idle", "consolidating", "running", "new"}, obj : Objects]
Tasks == [kind : {"off", "consolidate", "compact", "archive"}, pc : {"off", "lock", "start", "llm"},
          obj : Objects, chunk : Seq(Row), end : 0..MaxRows, kept : Seq(Row),
          round : 0..MaxRounds, summary : BOOLEAN]

Off == [kind |-> "off", pc |-> "off", obj |-> None, chunk |-> <<>>, end |-> 0, kept |-> <<>>,
        round |-> 0, summary |-> FALSE]
Idle == [pc |-> "idle", obj |-> None]

TypeOK ==
  /\ plan \in Plans
  /\ store \in Stores
  /\ turn \in [Lanes -> Turns] /\ task \in [Lanes \cup Jobs -> Tasks]
  /\ {store.cache} \cup {turn[l].obj : l \in Lanes} \cup {task[p].obj : p \in Lanes \cup Jobs}
       \subseteq {None} \cup DOMAIN store.heap
  /\ lock \in Seq(Lanes \cup Jobs)
  /\ archiving \in BOOLEAN /\ summaries \in BOOLEAN
  /\ history \in Seq(Row)
  /\ evicted \in SUBSET Row /\ said \in SUBSET Row /\ deleted \in SUBSET Row
  /\ next \in 1..(MaxRows + 1)
  /\ used \in [Operations -> 0..MaxOps]

Init ==
  /\ plan \in Plans
  /\ store = [heap |-> <<>>, cache |-> None, file |-> NoFile]
  /\ turn = [l \in Lanes |-> Idle]
  /\ task = [p \in Lanes \cup Jobs |-> Off]
  /\ lock = <<>> /\ archiving = FALSE /\ summaries = FALSE
  /\ history = <<>> /\ evicted = {} /\ said = {} /\ deleted = {}
  /\ next = 1
  /\ used = [o \in Operations |-> 0]

(***************************************************************************)
(* The session manager, as functions of the store.                         *)
(***************************************************************************)
\* get_or_create(): the cached object, unless its file was removed, or a new
\* one with what the file holds.  The session's object is then the cached one.
Opened(st) ==
  IF st.cache # None /\ (st.file.exists \/ ~st.heap[st.cache].exists) THEN st
  ELSE [heap |-> Append(st.heap, st.file), cache |-> Len(st.heap) + 1, file |-> st.file]

\* Fault: an anchored object whose file is gone is written all the same.
SavedAlways(st, o) ==
  LET anchored == [st.heap[o] EXCEPT !.exists = TRUE]
  IN [heap |-> [st.heap EXCEPT ![o] = anchored], cache |-> o, file |-> anchored]

\* save(): whatever the cache holds, the object is written and becomes the
\* cached one, unless it was on disk before and its file is gone.
Saved(st, o) ==
  IF st.heap[o].exists /\ ~st.file.exists THEN [st EXCEPT !.cache = None]
  ELSE LET anchored == [st.heap[o] EXCEPT !.exists = TRUE]
       IN [heap |-> [st.heap EXCEPT ![o] = anchored], cache |-> o, file |-> anchored]

\* flush_all() at the end of a shutdown.
Flushed(st) ==
  LET o == st.cache
      empty == st.heap[o].rows = <<>> /\ ~st.heap[o].pending /\ ~st.heap[o].summary
  IN IF o = None \/ empty THEN st ELSE Saved(st, o)

Invalidated(st) == [st EXCEPT !.cache = None]
With(st, o, content) == [st EXCEPT !.heap[o] = content]
Session(st, o) == st.heap[o]
Unconsolidated(s) == SubSeq(s.rows, s.last + 1, Len(s.rows))

\* retain_recent_legal_suffix(): the newest rows, from the beginning of a turn.
Recent(rows) ==
  LET starts == {i \in DOMAIN rows : i = 1 \/ rows[i].role = "user"}
  IN IF Len(rows) <= Keep THEN rows
     ELSE SubSeq(rows, Max({i \in starts : i <= Len(rows) - Keep + 1}), Len(rows))

Older(rows) == SubSeq(rows, 1, Len(rows) - Len(Recent(rows)))

(***************************************************************************)
(* Book-keeping of the actions                                             *)
(***************************************************************************)
Put(st) ==
  /\ store' = st
  /\ said' = said \cup ToSet(st.file.rows)

AtRest == (\A p \in Lanes \cup Jobs : task[p] = Off) /\ (\A l \in Lanes : turn[l].pc = "idle")
Undisturbed == plan.quiet => AtRest

May(op) ==
  /\ op \in plan.ops /\ used[op] < MaxOps
  /\ op \notin {"cancel", "stop", "crash"} => Undisturbed
Use(op) == used' = [used EXCEPT ![op] = @ + 1]

(***************************************************************************)
(* Consolidation by tokens: maybe_consolidate_by_tokens(), awaited by a    *)
(* turn before its prompt and scheduled in the background after it.        *)
(***************************************************************************)
Estimate(s) == Len(s.rows) - s.last
Target == Max({1, plan.budget \div 2})

\* Fault: any row may be the boundary, also one within a turn.
BoundariesAnywhere(s) == (s.last + 1)..(Len(s.rows) - 1)

\* pick_consolidation_boundary(): the rows before a user's row, at least one.
Boundaries(s) ==
  {e \in (s.last + 1)..(Len(s.rows) - 1) : s.rows[e + 1].role = "user"}

Boundary(s) ==
  LET enough == {e \in Boundaries(s) : e - s.last >= Estimate(s) - Target}
  IN IF enough # {} THEN Min(enough) ELSE Max(Boundaries(s))

NextRound(s, round) == Estimate(s) > Target /\ Boundaries(s) # {} /\ round < MaxRounds

Consolidating(o) == [Off EXCEPT !.kind = "consolidate", !.pc = "lock", !.obj = o]

\* The next chunk of p's session is sent to the model.
Chunk(p, s, round, summary) ==
  [task[p] EXCEPT !.pc = "llm", !.end = Boundary(s), !.round = round, !.summary = summary,
                  !.chunk = SubSeq(s.rows, s.last + 1, Boundary(s))]

\* Fault: one that waits for the lock keeps its place when it is cancelled.
ReleaseHeld(p) == lock' = IF lock # <<>> /\ Head(lock) = p THEN Tail(lock) ELSE lock

\* The lock is an asyncio.Lock: first come, first served.
Release(p) ==
  lock' = IF Contains(lock, p) THEN RemoveAt(lock, CHOOSE i \in DOMAIN lock : lock[i] = p)
          ELSE lock

\* The lock is taken; the session is left alone while it fits into the budget.
Acquire(p) ==
  LET s == Session(store, task[p].obj) IN
  /\ task[p].kind = "consolidate" /\ task[p].pc = "lock"
  /\ s.rows = <<>> \/ Head(lock) = p
  /\ IF s.rows # <<>> /\ Estimate(s) >= plan.budget /\ NextRound(s, 0)
     THEN /\ task' = [task EXCEPT ![p] = Chunk(p, s, 0, FALSE)]
          /\ UNCHANGED lock
     ELSE /\ task' = [task EXCEPT ![p] = Off]
          /\ Release(p)
  /\ UNCHANGED <<plan, store, turn, archiving, summaries, history, evicted, next, used, said,
                 deleted>>

\* archive() returns: a summary, or the raw rows when the model failed.  The
\* cursor advances either way, and the session is saved; after a failure, or
\* when the rest fits, the last summary is saved with the session.
Consolidated(p, ok) ==
  LET o == task[p].obj
      advanced == Saved(With(store, o, [Session(store, o) EXCEPT !.last = task[p].end]), o)
      s == Session(advanced, o)
      summary == ok \/ task[p].summary
      more == ok /\ NextRound(s, task[p].round + 1)
      noted == Saved(With(advanced, o, [s EXCEPT !.summary = TRUE]), o)
  IN
  /\ task[p].kind = "consolidate" /\ task[p].pc = "llm"
  /\ history' = history \o task[p].chunk
  /\ IF more
     THEN /\ task' = [task EXCEPT ![p] = Chunk(p, s, task[p].round + 1, summary)]
          /\ Put(advanced)
          /\ UNCHANGED lock
     ELSE /\ task' = [task EXCEPT ![p] = Off]
          /\ Put(IF summary THEN noted ELSE advanced)
          /\ Release(p)
  /\ UNCHANGED <<plan, turn, archiving, summaries, evicted, next, used, deleted>>

(***************************************************************************)
(* Turns: _process_message(), as far as it touches the session.  The steps *)
(* within a turn are TurnPersistence's.                                    *)
(***************************************************************************)
AddRow(st, o, role, pending) ==
  Saved(With(st, o, [Session(st, o) EXCEPT
                       !.rows = Append(@, [role |-> role, n |-> next]), !.pending = pending]), o)

\* A user's row without an answer: _restore_pending_user_turn() closes it.
Interrupted(s) == s.pending /\ s.rows # <<>> /\ Last(s.rows).role = "user"

\* The session is fetched, an interrupted turn is closed, and prepare_session()
\* takes a summary for the prompt.
Prepared ==
  LET opened == Opened(store)
      o == opened.cache
      s == Session(opened, o)
      restored == IF Interrupted(s) THEN AddRow(opened, o, "assistant", FALSE)
                  ELSE IF s.pending THEN Saved(With(opened, o, [s EXCEPT !.pending = FALSE]), o)
                  ELSE opened
      t == Session(restored, o)
      taken == With(restored, o, [t EXCEPT !.summary = FALSE])
  IN IF summaries \/ ~t.summary THEN taken ELSE Saved(taken, o)

Closes == LET s == Session(Opened(store), Opened(store).cache) IN Interrupted(s)

Fetches ==
  /\ next + 2 <= MaxRows \/ (~Closes /\ next + 1 <= MaxRows)
  /\ next' = IF Closes THEN next + 1 ELSE next
  /\ summaries' = FALSE

Begin(l) ==
  /\ l \in plan.lanes /\ turn[l].pc = "idle" /\ Undisturbed
  /\ Fetches
  /\ Put(Prepared)
  /\ turn' = [turn EXCEPT ![l] = [pc |-> "consolidating", obj |-> Prepared.cache]]
  /\ task' = [task EXCEPT ![l] = Consolidating(Prepared.cache)]
  /\ lock' = Append(lock, l)
  /\ UNCHANGED <<plan, archiving, history, evicted, used, deleted>>

\* The user's row is saved before the model is asked.
Prompt(l) ==
  /\ turn[l].pc = "consolidating" /\ task[l] = Off
  /\ next < MaxRows
  /\ Put(AddRow(store, turn[l].obj, "user", TRUE))
  /\ next' = next + 1
  /\ turn' = [turn EXCEPT ![l].pc = "running"]
  /\ UNCHANGED <<plan, task, lock, archiving, summaries, history, evicted, used, deleted>>

\* Fault: the cursor stays where it was.
TrimmedOnly(st) ==
  LET o == Opened(st).cache
      s == Session(Opened(st), o)
  IN Saved(With(Opened(st), o, [s EXCEPT !.rows = Recent(s.rows)]), o)

\* _on_heartbeat_execute() trims the session once its turn has returned.
Trimmed(st) ==
  LET o == Opened(st).cache
      s == Session(Opened(st), o)
      dropped == Len(Older(s.rows))
  IN Saved(With(Opened(st), o, [s EXCEPT !.rows = Recent(s.rows),
                                         !.last = IF @ > dropped THEN @ - dropped ELSE 0]), o)

\* The answer is saved, and a consolidation of this object is scheduled.
End(l) ==
  LET answered == AddRow(store, turn[l].obj, "assistant", FALSE)
      trims == "trim" \in plan.ops
  IN
  /\ turn[l].pc = "running" /\ next <= MaxRows
  /\ \E j \in Jobs :
       /\ task[j] = Off
       /\ task' = [task EXCEPT ![j] = Consolidating(turn[l].obj)]
       /\ lock' = Append(lock, j)
  /\ store' = IF trims THEN Trimmed(answered) ELSE answered
  /\ said' = said \cup ToSet(answered.file.rows)
  /\ evicted' = IF trims
                THEN evicted \cup ToSet(Older(Session(Opened(answered), Opened(answered).cache).rows))
                ELSE evicted
  /\ next' = next + 1
  /\ turn' = [turn EXCEPT ![l] = Idle]
  /\ UNCHANGED <<plan, archiving, summaries, history, used, deleted>>

\* A turn cancelled or failed; a model call it awaits is given up without a
\* trace, since archive() does not catch the cancellation.
Cancel(l) ==
  /\ May("cancel") /\ Use("cancel")
  /\ turn[l].pc \in {"consolidating", "running"}
  /\ turn' = [turn EXCEPT ![l] = Idle]
  /\ task' = [task EXCEPT ![l] = Off]
  /\ Release(l)
  /\ UNCHANGED <<plan, store, archiving, summaries, history, evicted, next, said, deleted>>

(***************************************************************************)
(* /new: cmd_new() cancels the session's dispatched turn, waits for it,    *)
(* empties the session, and archives what was not consolidated yet.        *)
(***************************************************************************)
\* Fault: every row is archived again, whatever the cursor says.
SnapshotAll(s) == s.rows

\* Fault: the rows are copied once the session is empty.
SnapshotCleared(s) == SubSeq(s.rows, 1, 0)

Snapshot(s) == Unconsolidated(s)

Emptied(st, o) ==
  Invalidated(Saved(With(st, o, [Session(st, o) EXCEPT !.rows = <<>>, !.last = 0]), o))

ArchivesSnapshot(tasks, s) ==
  IF Snapshot(s) = <<>> THEN task' = tasks
  ELSE \E j \in Jobs :
         /\ task[j] = Off
         /\ task' = [tasks EXCEPT ![j] =
                       [Off EXCEPT !.kind = "archive", !.pc = "llm", !.chunk = Snapshot(s)]]

\* While no turn runs the command is a turn of its own, which never waits.
NewTurn ==
  LET o == Prepared.cache IN
  /\ May("new") /\ Use("new")
  /\ "dispatch" \in plan.lanes /\ turn["dispatch"].pc = "idle"
  /\ Fetches
  /\ Put(Emptied(Prepared, o))
  /\ ArchivesSnapshot(task, Session(Prepared, o))
  /\ UNCHANGED <<plan, turn, lock, archiving, history, evicted, deleted>>

\* While a turn runs it is handled beside it: the turn is cancelled first...
NewCancels ==
  /\ May("new") /\ Use("new")
  /\ turn["dispatch"].pc \in {"consolidating", "running"}
  /\ turn' = [turn EXCEPT !["dispatch"] = [pc |-> "new", obj |-> None]]
  /\ task' = [task EXCEPT !["dispatch"] = Off]
  /\ Release("dispatch")
  /\ UNCHANGED <<plan, store, archiving, summaries, history, evicted, next, said, deleted>>

\* ... and when it has ended the session is fetched.
NewClears ==
  LET o == Opened(store).cache IN
  /\ turn["dispatch"].pc = "new"
  /\ Put(Emptied(Opened(store), o))
  /\ ArchivesSnapshot(task, Session(Opened(store), o))
  /\ turn' = [turn EXCEPT !["dispatch"] = Idle]
  /\ UNCHANGED <<plan, lock, archiving, summaries, history, evicted, next, used, deleted>>

Archived(j) ==
  /\ task[j].kind = "archive"
  /\ history' = history \o task[j].chunk
  /\ task' = [task EXCEPT ![j] = Off]
  /\ UNCHANGED <<plan, store, turn, lock, archiving, summaries, evicted, next, used, said, deleted>>

(***************************************************************************)
(* Compaction of an idle session                                           *)
(***************************************************************************)
\* check_expired(), on an idle tick of the agent's loop: no dispatched turn.
Compact(j) ==
  /\ May("compact") /\ Use("compact")
  /\ store.file.exists /\ ~archiving /\ turn["dispatch"].pc = "idle"
  /\ task[j] = Off
  /\ archiving' = TRUE
  /\ task' = [task EXCEPT ![j] = [Off EXCEPT !.kind = "compact", !.pc = "start"]]
  /\ UNCHANGED <<plan, store, turn, lock, summaries, history, evicted, next, said, deleted>>

\* _archive() up to the model call: reload, and choose the rows to keep.
CompactReads(j) ==
  LET opened == Opened(Invalidated(store))
      o == opened.cache
      tail == Unconsolidated(Session(opened, o))
  IN
  /\ task[j].kind = "compact" /\ task[j].pc = "start"
  /\ IF tail = <<>>
     THEN /\ Put(Saved(opened, o))
          /\ archiving' = FALSE
          /\ task' = [task EXCEPT ![j] = Off]
     ELSE /\ Put(opened)
          /\ task' = [task EXCEPT ![j] = [@ EXCEPT !.pc = "llm", !.obj = o, !.chunk = Older(tail),
                                                   !.kept = Recent(tail)]]
          /\ UNCHANGED archiving
  /\ UNCHANGED <<plan, turn, lock, summaries, history, evicted, next, used, deleted>>

Compacted(s, kept, ok) == [s EXCEPT !.rows = kept, !.last = 0, !.summary = @ \/ ok]

CompactWrites(j, ok) ==
  LET o == task[j].obj
      summary == ok /\ task[j].chunk # <<>>
  IN
  /\ task[j].kind = "compact" /\ task[j].pc = "llm"
  /\ history' = history \o task[j].chunk
  /\ summaries' = (summaries \/ summary)
  /\ Put(Saved(With(store, o, Compacted(Session(store, o), task[j].kept, summary)), o))
  /\ archiving' = FALSE
  /\ task' = [task EXCEPT ![j] = Off]
  /\ UNCHANGED <<plan, turn, lock, evicted, next, used, deleted>>

(***************************************************************************)
(* The console, and the end of the process                                 *)
(***************************************************************************)
\* delete_session_files(): the file goes, and the runtime's cache entry.
Delete ==
  /\ May("delete") /\ Use("delete")
  /\ store.file.exists
  /\ store' = [heap |-> store.heap, cache |-> None, file |-> NoFile]
  /\ deleted' = deleted \cup ToSet(store.file.rows)
  /\ UNCHANGED <<plan, work, history, evicted, next, said>>

\* save_empty_session(), through a manager of the console's own.
Create ==
  /\ May("create") /\ Use("create")
  /\ ~store.file.exists
  /\ store' = [store EXCEPT !.file = EmptyFile]
  /\ UNCHANGED <<plan, work, history, evicted, next, said, deleted>>

ProcessEnds ==
  /\ turn' = [l \in Lanes |-> Idle]
  /\ task' = [p \in Lanes \cup Jobs |-> Off]
  /\ lock' = <<>> /\ archiving' = FALSE /\ summaries' = FALSE
  /\ UNCHANGED <<plan, history, evicted, next, deleted>>

\* A shutdown drains the background tasks (close_mcp) and flushes the cache;
\* turns still running are lost with the process.
Stop ==
  /\ May("stop") /\ Use("stop")
  /\ \A j \in Jobs : task[j] = Off
  /\ Put([heap |-> <<>>, cache |-> None, file |-> Flushed(store).file])
  /\ ProcessEnds

Crash ==
  /\ May("crash") /\ Use("crash")
  /\ Put([heap |-> <<>>, cache |-> None, file |-> store.file])
  /\ ProcessEnds

-----------------------------------------------------------------------------
\* Every turn has ended, or waits for a bound; nothing is left to archive.
Quiescent ==
  /\ \A p \in Lanes \cup Jobs : task[p] = Off
  /\ \A l \in Lanes : turn[l].pc # "new"
  /\ UNCHANGED vars

LaneNext(l) == Begin(l) \/ Prompt(l) \/ End(l) \/ Cancel(l)
TaskNext(p) == Acquire(p) \/ \E ok \in BOOLEAN : Consolidated(p, ok)
JobNext(j) ==
  \/ Archived(j)
  \/ Compact(j) \/ CompactReads(j)
  \/ \E ok \in BOOLEAN : CompactWrites(j, ok)

Next ==
  \/ \E l \in Lanes : LaneNext(l)
  \/ \E p \in Lanes \cup Jobs : TaskNext(p)
  \/ \E j \in Jobs : JobNext(j)
  \/ NewTurn \/ NewCancels \/ NewClears
  \/ Delete \/ Create \/ Stop \/ Crash
  \/ Quiescent

Spec == Init /\ [][Next]_vars

\* A model call returns or times out, so tasks go on.
FairSpec ==
  /\ Spec
  /\ \A p \in Lanes \cup Jobs : WF_vars(TaskNext(p))
  /\ \A j \in Jobs : WF_vars(Archived(j))

(***************************************************************************)
(* Properties                                                              *)
(***************************************************************************)
Archiving == UNION {ToSet(task[j].chunk) : j \in {k \in Jobs : task[k].kind = "archive"}}

\* A row that reached the session file stays there until it is archived into
\* history.jsonl, kept in the transcript, or deleted by the user; after /new a
\* background task has it.
RowsKept ==
  said \subseteq ToSet(store.file.rows) \cup ToSet(history) \cup evicted \cup deleted \cup Archiving

\* The rows before the file's cursor, which no prompt shows any more, have been
\* archived: the cursor never runs ahead of the archive, nor beyond the rows.
HiddenRowsAreArchived ==
  /\ store.file.last <= Len(store.file.rows)
  /\ \A i \in 1..store.file.last : store.file.rows[i] \in ToSet(history)

\* No row is archived twice, by two tasks or after a restart.
ArchivedOnce == IsInjective(history)

\* The rows of a session deleted in the console never come back, neither with
\* the end of a turn nor with the flush of a shutdown.
DeletedStaysDeleted == ToSet(store.file.rows) \cap deleted = {}

\* What a prompt shows of the session starts with a user's row: consolidation and trims cut
\* the rows between turns.
CutsBetweenTurns ==
  LET visible == Unconsolidated(store.file)
  IN visible # <<>> => visible[1].role = "user"

\* A turn that waits for a consolidation goes on, whatever becomes of the tasks
\* that hold the lock.
TurnsProceed == \A l \in Lanes : task[l].pc = "lock" ~> task[l].pc # "lock"
=============================================================================
