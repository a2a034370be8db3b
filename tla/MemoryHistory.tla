--------------------------- MODULE MemoryHistory ---------------------------
(***************************************************************************)
(* The history of what was archived and Dream, which reads it              *)
(* (openpawlet/agent/memory.py): history.jsonl with one numbered entry per *)
(* summary, the file .cursor with the number of the last entry, the file   *)
(* .dream_cursor with the last entry Dream has read, the migration of the  *)
(* legacy HISTORY.md, and Dream.run, which the cron job and /dream start   *)
(* independently of each other.                                            *)
(*                                                                         *)
(* All file operations are synchronous, so between two awaits only a crash *)
(* separates them. A file that is being overwritten when the process dies  *)
(* is left empty, except history.jsonl, which is replaced by a rename.     *)
(***************************************************************************)
EXTENDS Integers, SequencesExt, FiniteSetsExt

CONSTANTS
  Runs,        \* who runs Dream: the cron job and /dream
  CronRun,     \* the one of Runs that comes again and again
  Legacy,      \* number of entries HISTORY.md may hold
  MaxEntries,  \* bound: number of entries, the legacy ones included
  MaxHistory,  \* max_history_entries
  BatchSize,   \* max_batch_size
  Backlog,     \* bound: entries Dream has not read yet
  Faults,      \* where a crash may hit: see Crash
  MaxCrashes,  \* bound: number of crashes
  Empty        \* a file without a number, and one that does not exist

ASSUME ConstantsAssumption ==
  /\ CronRun \in Runs
  /\ MaxEntries \in Nat /\ Legacy \in 0..MaxEntries /\ MaxCrashes \in Nat
  /\ MaxHistory \in Nat \ {0} /\ BatchSize \in Nat \ {0}
  /\ Backlog \in 1..MaxHistory
  /\ Faults \subseteq {"append", "counter", "dreamCursor", "migration"}
  /\ Empty \notin Nat

VARIABLES
  up,           \* the process runs
  legacy,       \* HISTORY.md exists
  history,      \* history.jsonl
  counter,      \* .cursor
  dreamCursor,  \* .dream_cursor
  run,          \* [Runs -> the Dream run: its phase and its batch]
  entries,      \* history: number of entries written so far
  dreamt,       \* history: entries of the batches that were completed
  crashes       \* history: number of crashes

files == <<legacy, history, counter, dreamCursor>>
vars == <<up, files, run, entries, dreamt, crashes>>

Entry == [cursor : Nat \ {0}, id : Nat \ {0}]
DreamRun == [phase : {"idle", "analyze", "edit"}, batch : Seq(Entry)]
Idle == [phase |-> "idle", batch |-> <<>>]

TypeOK ==
  /\ {up, legacy} \subseteq BOOLEAN
  /\ history \in Seq(Entry)
  /\ {counter, dreamCursor} \subseteq Nat \cup {Empty}
  /\ run \in [Runs -> DreamRun]
  /\ \A r \in Runs : run[r].phase = "idle" <=> run[r].batch = <<>>
  /\ entries \in 0..MaxEntries /\ dreamt \subseteq 1..entries
  /\ crashes \in 0..MaxCrashes

\* An installation with a HISTORY.md to migrate, or a new one.
Init ==
  /\ up = FALSE
  /\ legacy \in IF Legacy > 0 THEN BOOLEAN ELSE {FALSE}
  /\ history = <<>> /\ counter = Empty /\ dreamCursor = Empty
  /\ run = [r \in Runs |-> Idle]
  /\ entries = 0 /\ dreamt = {} /\ crashes = 0

(***************************************************************************)
(* The store                                                               *)
(***************************************************************************)

LastDreamt == IF dreamCursor = Empty THEN 0 ELSE dreamCursor

\* _next_cursor: the counter, else the number of the last entry.
NextCursor ==
  IF counter # Empty THEN counter + 1
  ELSE IF history # <<>> THEN Last(history).cursor + 1 ELSE 1

\* read_unprocessed_history of the first k entries, in the order of the file.
UnprocessedOf[k \in 0..Len(history)] ==
  IF k = 0 THEN <<>>
  ELSE IF history[k].cursor > LastDreamt THEN Append(UnprocessedOf[k - 1], history[k])
  ELSE UnprocessedOf[k - 1]

Unprocessed == UnprocessedOf[Len(history)]

\* compact_history: the newest entries stay.
Compacted(h) ==
  IF Len(h) <= MaxHistory THEN h ELSE SubSeq(h, Len(h) - MaxHistory + 1, Len(h))

NewEntry == [cursor |-> NextCursor, id |-> entries + 1]

MayAppend ==
  /\ up /\ entries < MaxEntries
  /\ Cardinality((1..entries) \ dreamt) < Backlog

\* append_history, called by archive() and raw_archive().
AppendHistory ==
  /\ MayAppend
  /\ history' = Append(history, NewEntry)
  /\ counter' = NewEntry.cursor
  /\ entries' = entries + 1
  /\ UNCHANGED <<up, legacy, dreamCursor, run, dreamt, crashes>>

(***************************************************************************)
(* Start, with the migration                                               *)
(***************************************************************************)

LegacyEntries == [i \in 1..Legacy |-> [cursor |-> i, id |-> i]]
Migrates == legacy /\ history = <<>>

\* _maybe_migrate_legacy_history: the old entries count as read by Dream.
Boot ==
  /\ ~up
  /\ up' = TRUE
  /\ IF Migrates
     THEN /\ history' = LegacyEntries
          /\ counter' = Legacy /\ dreamCursor' = Legacy
          /\ legacy' = FALSE
          /\ entries' = Legacy /\ dreamt' = 1..Legacy
     ELSE UNCHANGED <<files, entries, dreamt>>
  /\ UNCHANGED <<run, crashes>>

(***************************************************************************)
(* Dream.run                                                               *)
(***************************************************************************)

\* Fault: the newest entries that are not processed yet.
BatchNewest ==
  SubSeq(Unprocessed, IF Len(Unprocessed) < BatchSize
                      THEN 1 ELSE Len(Unprocessed) - BatchSize + 1,
         Len(Unprocessed))

\* The oldest entries that are not processed yet.
Batch == SubSeq(Unprocessed, 1, IF Len(Unprocessed) < BatchSize
                                THEN Len(Unprocessed) ELSE BatchSize)

StartDream(r) ==
  /\ up /\ run[r].phase = "idle"
  /\ Batch # <<>>
  /\ run' = [run EXCEPT ![r] = [phase |-> "analyze", batch |-> Batch]]
  /\ UNCHANGED <<up, files, entries, dreamt, crashes>>

\* Phase 1 returns, with an analysis or with an error for one.
Analyzed(r) ==
  /\ run[r].phase = "analyze"
  /\ run' = [run EXCEPT ![r].phase = "edit"]
  /\ UNCHANGED <<up, files, entries, dreamt, crashes>>

\* Phase 1 raises: the batch stays unprocessed.
AnalysisFails(r) ==
  /\ run[r].phase = "analyze"
  /\ run' = [run EXCEPT ![r] = Idle]
  /\ UNCHANGED <<up, files, entries, dreamt, crashes>>

\* Fault: the position that was read at the start is written back.
FinishDreamUnmoved(r) ==
  /\ run[r].phase = "edit"
  /\ dreamCursor' = run[r].batch[1].cursor - 1
  /\ history' = Compacted(history)
  /\ dreamt' = dreamt \cup {e.id : e \in Range(run[r].batch)}
  /\ run' = [run EXCEPT ![r] = Idle]
  /\ UNCHANGED <<up, legacy, counter, entries, crashes>>

\* Phase 2 is over, whatever its result: "Advance cursor - always".
FinishDream(r) ==
  /\ run[r].phase = "edit"
  /\ dreamCursor' = Last(run[r].batch).cursor
  /\ history' = Compacted(history)
  /\ dreamt' = dreamt \cup {e.id : e \in Range(run[r].batch)}
  /\ run' = [run EXCEPT ![r] = Idle]
  /\ UNCHANGED <<up, legacy, counter, entries, crashes>>

(***************************************************************************)
(* Crashes                                                                 *)
(***************************************************************************)

Dies ==
  /\ crashes < MaxCrashes /\ crashes' = crashes + 1
  /\ up' = FALSE
  /\ run' = [r \in Runs |-> Idle]

\* Between two operations.
Crash == up /\ Dies /\ UNCHANGED <<files, entries, dreamt>>

\* In append_history: before .cursor is written, or while it is.
CrashInAppend ==
  /\ MayAppend /\ Dies
  /\ \/ "append" \in Faults /\ counter' = counter
     \/ "counter" \in Faults /\ counter' = Empty
  /\ history' = Append(history, NewEntry)
  /\ entries' = entries + 1
  /\ UNCHANGED <<legacy, dreamCursor, dreamt>>

\* In set_last_dream_cursor.
CrashInFinish(r) ==
  /\ run[r].phase = "edit" /\ Dies
  /\ "dreamCursor" \in Faults
  /\ dreamCursor' = Empty
  /\ dreamt' = dreamt \cup {e.id : e \in Range(run[r].batch)}
  /\ UNCHANGED <<legacy, history, counter, entries>>

\* In the migration, after history.jsonl or after .cursor: HISTORY.md stays,
\* but is not migrated again.
CrashInMigration ==
  /\ ~up /\ Migrates /\ Dies
  /\ "migration" \in Faults
  /\ history' = LegacyEntries
  /\ counter' \in {Empty, Legacy}
  /\ entries' = Legacy /\ dreamt' = 1..Legacy
  /\ UNCHANGED <<legacy, dreamCursor>>

Quiescent ==
  /\ up /\ Unprocessed = <<>> /\ \A r \in Runs : run[r].phase = "idle"
  /\ UNCHANGED vars

Next ==
  \/ Boot \/ AppendHistory \/ Crash \/ CrashInAppend \/ CrashInMigration
  \/ \E r \in Runs : \/ StartDream(r) \/ Analyzed(r) \/ AnalysisFails(r)
                     \/ FinishDream(r) \/ CrashInFinish(r)
  \/ Quiescent

Spec == Init /\ [][Next]_vars

\* The process is restarted, the cron job comes again and again, every call of
\* the model returns, and it does not fail for ever.
Fairness ==
  /\ WF_vars(Boot)
  /\ WF_vars(StartDream(CronRun))
  /\ SF_vars(Analyzed(CronRun))
  /\ WF_vars(FinishDream(CronRun))

FairSpec == Spec /\ Fairness

(***************************************************************************)
(* Properties                                                              *)
(***************************************************************************)

\* No entry is passed over: as long as no more than max_history_entries wait,
\* an entry that was in no completed batch is still in the file with a number
\* above .dream_cursor, although two runs may overlap and move the cursor back,
\* compaction drops entries, and crashes empty the cursor files.
NothingPassedOver ==
  \A i \in (1..entries) \ dreamt :
    \E k \in DOMAIN history : history[k].id = i /\ history[k].cursor > LastDreamt

\* The entries of the file have different, growing numbers: Dream's position is
\* one number (test_cursor_recovery.py: the next cursor is above all others).
CursorsGrow ==
  \A i, j \in DOMAIN history : i < j => history[i].cursor < history[j].cursor

\* What is archived is dreamt about at last.
EveryEntryDreamt == \A i \in 1..MaxEntries : i <= entries ~> i \in dreamt

\* An upgrade does not replay the old archive ("so upgrades do not replay the
\* user's entire historical archive into Dream on first start").
LegacyNotReplayed ==
  legacy => \A r \in Runs : \A e \in Range(run[r].batch) : e.id > Legacy

=============================================================================
