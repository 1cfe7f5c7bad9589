------------------------------ MODULE Backups -------------------------------
(***************************************************************************)
(* The two writers of database dumps, deploy/backup_loop.sh (a service of  *)
(* the stack) and scripts/backup_postgres.py (run by hand), each with file *)
(* names of its own in the backups directory.  A dump grows in a temporary *)
(* file, is renamed, and only then old ones are deleted.  A writer may be  *)
(* killed between any two steps.                                           *)
(***************************************************************************)
EXTENDS Naturals

CONSTANTS
  Writers,
  KeepDays,       \* BACKUP_KEEP_DAYS, retention_days
  LastDay         \* bound: days 0..LastDay

ASSUME BackupsAssumption == KeepDays \in Nat /\ LastDay \in Nat

VARIABLES
  day,
  dumps,      \* files under a final name: writer, day, and whether complete
  temp,       \* each writer's temporary file
  busy,       \* what each writer is at
  everGood    \* history: writers that have had a complete dump

backupVars == <<day, dumps, temp, busy, everGood>>

Dump(w, d, complete) == [writer |-> w, day |-> d, complete |-> complete]
Of(w) == {f \in dumps : f.writer = w}

BackupInit ==
  /\ day = 0 /\ dumps = {} /\ everGood = {}
  /\ temp = [w \in Writers |-> "none"] /\ busy = [w \in Writers |-> "asleep"]

\* pg_dump opens the .partial (.tmp) file.
StartDump(w) ==
  /\ busy[w] = "asleep" /\ busy' = [busy EXCEPT ![w] = "dumping"]
  /\ temp' = [temp EXCEPT ![w] = "truncated"]
  /\ UNCHANGED <<day, dumps, everGood>>

DumpEnds(w) ==
  /\ busy[w] = "dumping" /\ busy' = [busy EXCEPT ![w] = "renaming"]
  /\ temp' = [temp EXCEPT ![w] = "complete"]
  /\ UNCHANGED <<day, dumps, everGood>>

\* Mutant: a failed dump goes on to the pruning.
DumpFailsAndPrunes(w) ==
  /\ busy[w] = "dumping" /\ busy' = [busy EXCEPT ![w] = "pruning"]
  /\ temp' = [temp EXCEPT ![w] = "none"]
  /\ UNCHANGED <<day, dumps, everGood>>

\* Mutant: the exit status of a pipeline into gzip, which is gzip's.
DumpFailsUnseen(w) ==
  /\ busy[w] = "dumping" /\ busy' = [busy EXCEPT ![w] = "renaming"]
  /\ UNCHANGED <<day, dumps, temp, everGood>>

\* The file is removed and nothing is pruned.
DumpFails(w) ==
  /\ busy[w] = "dumping" /\ busy' = [busy EXCEPT ![w] = "asleep"]
  /\ temp' = [temp EXCEPT ![w] = "none"]
  /\ UNCHANGED <<day, dumps, everGood>>

Rename(w) ==
  /\ busy[w] = "renaming" /\ busy' = [busy EXCEPT ![w] = "pruning"]
  /\ dumps' = dumps \cup {Dump(w, day, temp[w] = "complete")}
  /\ temp' = [temp EXCEPT ![w] = "none"]
  /\ everGood' = everGood \cup (IF temp[w] = "complete" THEN {w} ELSE {})
  /\ UNCHANGED day

\* find -mtime +KeepDays -delete; f.unlink() under the cutoff.
Prune(w) ==
  /\ busy[w] = "pruning" /\ busy' = [busy EXCEPT ![w] = "asleep"]
  /\ dumps' = {f \in dumps : f.writer = w => day - f.day <= KeepDays}
  /\ UNCHANGED <<day, temp, everGood>>

\* A container stop or a kill; the temporary file stays until the same name
\* is written again.
Die(w) ==
  /\ busy[w] # "asleep" /\ busy' = [busy EXCEPT ![w] = "asleep"]
  /\ UNCHANGED <<day, dumps, temp, everGood>>

\* An offsite copy, between the rename and the pruning, takes less than the
\* days a dump is kept.
DayPasses ==
  /\ day < LastDay /\ day' = day + 1
  /\ \A w \in Writers : busy[w] \notin {"renaming", "pruning"}
  /\ UNCHANGED <<dumps, temp, busy, everGood>>

BackupNext ==
  \/ DayPasses
  \/ \E w \in Writers : StartDump(w) \/ DumpEnds(w) \/ DumpFails(w) \/ Rename(w) \/ Prune(w) \/ Die(w)

BackupSpec == BackupInit /\ [][BackupNext]_backupVars

-----------------------------------------------------------------------------
\* backup_loop.sh:30-39: however a dump ends, no truncated file is left under
\* the name of a backup.
NoTruncatedDump == \A f \in dumps : f.complete

\* backup_loop.sh:64-65: "a run of failures can never age out the last
\* known-good dump": once a writer has a complete dump it always has one.
AGoodDumpRemains == \A w \in everGood : \E f \in Of(w) : f.complete

\* The dumps on disk are whole, and there always is one.
DumpsAreGood == NoTruncatedDump /\ AGoodDumpRemains
=============================================================================
