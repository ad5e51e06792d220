----------------------------- MODULE BinlogBackup -----------------------------
(***************************************************************************)
(* The scheduled backup of one MySQL 8.4 instance (mysql_ansible/roles/    *)
(* backup_script_84/templates): backup_schedule.sh runs backup_clone.sh,   *)
(* which clones the data directory, notes the current binlog file in a     *)
(* meta file and copies the closed binlogs, and on success                 *)
(* backup_purge.sh, which drops old snapshots and old binlog copies.       *)
(*                                                                         *)
(* A transaction is its place in the server's commit order.  A clone is    *)
(* the number of transactions it holds, a binlog copy the set of those it  *)
(* holds.  Every query and file operation is a step of its own, because    *)
(* the server commits and rotates between them.  Nothing takes a lock;     *)
(* one run at a time is assumed here.                                      *)
(***************************************************************************)
EXTENDS Naturals, Sequences, FiniteSets

CONSTANTS
  MaxTrx, MaxFile, MaxRun, MaxDay,  \* bounds: transactions, binlogs, runs, days
  ServerDays,   \* binlog_expire_logs_seconds, in days
  Keep,         \* KEEP_FULL_BACKUP_LAST_COPYS
  ExpireDays,   \* EXPIRE_BINLOG_DAYS
  Faults,       \* what may go wrong, see FaultKind
  NoClone,      \* there is no clone directory
  Torn,         \* a clone directory whose removal was cut short
  NoMeta        \* there is no meta file

(* busy: the server rotates by itself while a backup runs; query: a query of *)
(* the script fails; clone: CLONE fails; copy: cp fails; crash: the run is   *)
(* killed; missed: a day may pass without a completed run.                   *)
FaultKind == {"busy", "query", "clone", "copy", "crash", "missed"}

ASSUME BackupAssumption ==
  /\ MaxTrx \in Nat /\ MaxFile \in Nat \ {0} /\ MaxRun \in Nat /\ MaxDay \in Nat
  /\ ServerDays \in Nat /\ ExpireDays \in Nat
  /\ Keep \in Nat \ {0}
  /\ Faults \subseteq FaultKind
  /\ NoClone \notin Nat /\ Torn \notin Nat /\ NoMeta \notin Nat
  /\ NoClone # Torn

VARIABLES
  placed,   \* the server: by transaction, the binlog it was committed to
  active,   \* the server: the binlog being written
  oldest,   \* the server: the oldest binlog it still has
  closed,   \* the server: by binlog, the day it was closed
  day,      \* the calendar
  ran,      \* the last day on which a run completed
  dirs,     \* INSTANCE_DIR: the snapshot directories, by START_TIME
  clone,    \* by snapshot: what clone/ holds
  meta,     \* by snapshot: binlog_file in its meta file
  copy,     \* by binlog: what its copy in INSTANCE_DIR/binlog holds
  mtime,    \* by binlog: the day of that copy
  index,    \* INSTANCE_DIR/binlog.txt, as the set of binlogs it lists
  pc,       \* where the run stands, "idle" when none runs
  run,      \* START_TIME of the running (or last) run
  binlog_active,  \* BINLOG_ACTIVE
  missing         \* TMP_DIR/missing.txt

server == <<placed, active, oldest, closed>>
snaps  == <<dirs, clone, meta>>
copies == <<copy, mtime>>
local  == <<run, binlog_active, missing>>
vars   == <<placed, active, oldest, closed, day, ran, dirs, clone, meta, copy, mtime, index,
            pc, run, binlog_active, missing>>

Trx  == 1 .. MaxTrx
File == 1 .. MaxFile
Run  == 1 .. MaxRun

NoFile == 0      \* an empty BINLOG_FILE or BINLOG_ACTIVE
NoCopy == {0}    \* there is no copy of a binlog

Label == {"idle", "prepare", "check", "clone", "position", "flush", "active", "list", "copy", "append",
          "purgeSnapshots", "purgeBinlogs", "rebuild"}

Committed   == Len(placed)
Contents(f) == {t \in 1 .. Committed : placed[t] = f}
OnServer    == oldest .. active

Least(S)    == CHOOSE x \in S : \A y \in S : x <= y
Copied      == {f \in File : copy[f] # NoCopy}
Archived    == index \cap Copied
Restorable  == {s \in dirs : meta[s] # NoMeta /\ clone[s] \notin {NoClone, Torn}}

-----------------------------------------------------------------------------
(* The server.  Rotating also drops the binlogs that have expired.           *)

Rotated ==
  LET now_closed == [closed EXCEPT ![active] = day]
      expired == {f \in OnServer : day > now_closed[f] + ServerDays}
  IN  /\ active' = active + 1
      /\ closed' = now_closed
      /\ oldest' = Least((oldest .. active + 1) \ expired)
      /\ placed' = placed

Commit ==
  /\ Committed < MaxTrx
  /\ placed' = Append(placed, active)
  /\ UNCHANGED <<active, oldest, closed, day, ran, snaps, copies, index, pc, local>>

(* The bound leaves the running backup a binlog to flush to.                 *)
Rotate ==
  /\ pc = "idle" \/ "busy" \in Faults
  /\ active + (IF pc \in {"prepare", "check", "clone", "position", "flush"} THEN 1 ELSE 0) < MaxFile
  /\ Rotated
  /\ UNCHANGED <<day, ran, snaps, copies, index, pc, local>>

NewDay ==
  /\ day < MaxDay
  /\ ran = day \/ "missed" \in Faults
  /\ day' = day + 1
  /\ UNCHANGED <<server, ran, snaps, copies, index, pc, local>>

-----------------------------------------------------------------------------
(* backup_schedule.sh and backup_clone.sh.                                   *)

Goto(l) == pc' = l

(* The instance is up and this host is the one to back it up.                *)
ScheduleStart ==
  /\ pc = "idle" /\ run < MaxRun /\ active < MaxFile
  /\ Goto("prepare")
  /\ UNCHANGED <<server, day, ran, snaps, copies, index, local>>

(* A snapshot directory named after the second, with a meta directory in it. *)
Prepare ==
  /\ pc = "prepare"
  /\ run' = run + 1
  /\ dirs' = dirs \cup {run + 1}
  /\ Goto("check")
  /\ UNCHANGED <<server, day, ran, clone, meta, copies, index, binlog_active, missing>>

\* Mutant of RunFails: the schedule purges whatever the backup returned.
RunFailsPurging ==
  /\ Goto("purgeSnapshots")
  /\ binlog_active' = NoFile /\ missing' = {}
  /\ UNCHANGED <<server, day, ran, copies, index, run>>

(* A run that exits before its end: the schedule then skips the purge.       *)
RunFails ==
  /\ Goto("idle")
  /\ binlog_active' = NoFile /\ missing' = {}
  /\ UNCHANGED <<server, day, ran, copies, index, run>>

CheckMysql ==
  /\ pc = "check"
  /\ Goto("clone")
  /\ UNCHANGED <<server, day, ran, snaps, copies, index, local>>

CheckFails ==
  /\ pc = "check" /\ "query" \in Faults
  /\ RunFails
  /\ UNCHANGED snaps

(* A clone is consistent as of its end.                                      *)
Clone ==
  /\ pc = "clone"
  /\ clone' = [clone EXCEPT ![run] = Committed]
  /\ Goto("position")
  /\ UNCHANGED <<server, day, ran, dirs, meta, copies, index, local>>

(* The clone directory is removed; the snapshot directory stays.             *)
CloneFails ==
  /\ pc = "clone" /\ "clone" \in Faults
  /\ RunFails
  /\ UNCHANGED snaps

\* Mutant of WriteMeta: the binlogs are flushed before the position is read.
WriteMetaFlushed ==
  /\ pc = "position"
  /\ Rotated
  /\ meta' = [meta EXCEPT ![run] = active']
  /\ Goto("flush")
  /\ UNCHANGED <<day, ran, dirs, clone, copies, index, local>>

(* SHOW BINARY LOG STATUS, after the clone, and the meta file.  A failing    *)
(* query is only logged.                                                     *)
WriteMeta ==
  /\ pc = "position"
  /\ \E f \in {active} \cup (IF "query" \in Faults THEN {NoFile} ELSE {}) :
       meta' = [meta EXCEPT ![run] = f]
  /\ Goto("flush")
  /\ UNCHANGED <<server, day, ran, dirs, clone, copies, index, local>>

(* FLUSH BINARY LOGS; its failure is ignored.                                *)
Flush ==
  /\ pc = "flush"
  /\ \/ Rotated
     \/ "query" \in Faults /\ UNCHANGED server
  /\ Goto("active")
  /\ UNCHANGED <<day, ran, snaps, copies, index, local>>

(* log_bin_index or log_bin_basename comes back empty: no binlog backup.     *)
BinlogSkipped ==
  /\ pc = "flush" /\ "query" \in Faults
  /\ Goto("purgeSnapshots")
  /\ UNCHANGED <<server, day, ran, snaps, copies, index, local>>

ReadActive ==
  /\ pc = "active"
  /\ \E f \in {active} \cup (IF "query" \in Faults THEN {NoFile} ELSE {}) :
       binlog_active' = f
  /\ Goto("list")
  /\ UNCHANGED <<server, day, ran, snaps, copies, index, run, missing>>

\* Mutant of ListMissing: the active binlog is not taken out.
ListMissingActive ==
  /\ pc = "list"
  /\ missing' = OnServer \ index
  /\ Goto(IF missing' = {} THEN "purgeSnapshots" ELSE "copy")
  /\ UNCHANGED <<server, day, ran, snaps, copies, index, run, binlog_active>>

(* The binlogs the server lists, without those in binlog.txt and without the *)
(* one that was active a moment ago.                                         *)
ListMissing ==
  /\ pc = "list"
  /\ missing' = (OnServer \ index) \ {binlog_active}
  /\ Goto(IF missing' = {} THEN "purgeSnapshots" ELSE "copy")
  /\ UNCHANGED <<server, day, ran, snaps, copies, index, run, binlog_active>>

\* Mutant of NextMissing: the loop does not notice the end of the list.
NextMissingEndless ==
  /\ missing' = missing \ {Least(missing)}
  /\ Goto("copy")

NextMissing ==
  /\ missing' = missing \ {Least(missing)}
  /\ Goto(IF missing' = {} THEN "purgeSnapshots" ELSE "copy")

CopyBinlog ==
  /\ pc = "copy"
  /\ LET f == Least(missing) IN
       /\ f \in OnServer
       /\ copy' = [copy EXCEPT ![f] = Contents(f)]
       /\ mtime' = [mtime EXCEPT ![f] = day]
  /\ Goto("append")
  /\ UNCHANGED <<server, day, ran, snaps, index, local>>

AppendIndex ==
  /\ pc = "append"
  /\ index' = index \cup {Least(missing)}
  /\ NextMissing
  /\ UNCHANGED <<server, day, ran, snaps, copies, run, binlog_active>>

(* cp fails, perhaps after writing a part, or the binlog has expired since.  *)
(* The loop goes on and the run still succeeds.                              *)
CopyFails ==
  /\ pc = "copy"
  /\ LET f == Least(missing) IN
       \/ /\ f \notin OnServer \/ "copy" \in Faults
          /\ UNCHANGED copies
       \/ /\ f \in OnServer /\ "copy" \in Faults
          /\ copy' = [copy EXCEPT ![f] = {}]
          /\ mtime' = [mtime EXCEPT ![f] = day]
  /\ NextMissing
  /\ UNCHANGED <<server, day, ran, snaps, index, run, binlog_active>>

-----------------------------------------------------------------------------
(* backup_purge.sh.                                                          *)

\* Mutant of Surplus: one snapshot too many.
SurplusAtLimit == Cardinality(dirs) >= Keep

Surplus == Cardinality(dirs) > Keep
Old     == {f \in Copied : day > mtime[f] + ExpireDays}

PurgeSnapshot ==
  /\ pc = "purgeSnapshots" /\ Surplus
  /\ LET s == Least(dirs) IN
       /\ dirs' = dirs \ {s}
       /\ clone' = [clone EXCEPT ![s] = NoClone]
       /\ meta' = [meta EXCEPT ![s] = NoMeta]
  /\ UNCHANGED <<server, day, ran, copies, index, pc, local>>

PurgeSnapshotsDone ==
  /\ pc = "purgeSnapshots" /\ ~Surplus
  /\ Goto("purgeBinlogs")
  /\ UNCHANGED <<server, day, ran, snaps, copies, index, local>>

\* Mutant of PurgeBinlog: the list of old binlogs is not sorted.
PurgeBinlogUnsorted ==
  /\ pc = "purgeBinlogs" /\ Old # {}
  /\ \E f \in Old : copy' = [copy EXCEPT ![f] = NoCopy]
  /\ UNCHANGED <<server, day, ran, snaps, mtime, index, pc, local>>

(* find ... | sort, then rm in that order.                                   *)
PurgeBinlog ==
  /\ pc = "purgeBinlogs" /\ Old # {}
  /\ copy' = [copy EXCEPT ![Least(Old)] = NoCopy]
  /\ UNCHANGED <<server, day, ran, snaps, mtime, index, pc, local>>

PurgeBinlogsDone ==
  /\ pc = "purgeBinlogs" /\ Old = {}
  /\ Goto("rebuild")
  /\ UNCHANGED <<server, day, ran, snaps, copies, index, local>>

(* The new binlog.txt is moved into place: all of it or nothing.             *)
RebuildIndex ==
  /\ pc = "rebuild"
  /\ index' = Archived
  /\ ran' = day
  /\ Goto("idle")
  /\ binlog_active' = NoFile /\ missing' = {}
  /\ UNCHANGED <<server, day, snaps, copies, run>>

-----------------------------------------------------------------------------
(* The run is killed: a copy may be left in part, a snapshot that was being  *)
(* purged may have lost a part of its clone and still have its meta, or have *)
(* lost both and still be counted.                                           *)
Crash ==
  /\ "crash" \in Faults /\ pc # "idle"
  /\ Goto("idle")
  /\ binlog_active' = NoFile /\ missing' = {}
  /\ \/ UNCHANGED <<copies, clone, meta>>
     \/ /\ pc = "copy" /\ Least(missing) \in OnServer
        /\ copy' = [copy EXCEPT ![Least(missing)] = {}]
        /\ mtime' = [mtime EXCEPT ![Least(missing)] = day]
        /\ UNCHANGED <<clone, meta>>
     \/ /\ pc = "purgeSnapshots" /\ Surplus /\ clone[Least(dirs)] # NoClone
        /\ clone' = [clone EXCEPT ![Least(dirs)] = Torn]
        /\ UNCHANGED <<copies, meta>>
     \/ /\ pc = "purgeSnapshots" /\ Surplus
        /\ clone' = [clone EXCEPT ![Least(dirs)] = NoClone]
        /\ meta' = [meta EXCEPT ![Least(dirs)] = NoMeta]
        /\ UNCHANGED copies
  /\ UNCHANGED <<server, day, ran, dirs, index, run>>

Init ==
  /\ placed = <<>> /\ active = 1 /\ oldest = 1 /\ closed = [f \in File |-> 0]
  /\ day = 0 /\ ran = 0
  /\ dirs = {} /\ clone = [s \in Run |-> NoClone] /\ meta = [s \in Run |-> NoMeta]
  /\ copy = [f \in File |-> NoCopy] /\ mtime = [f \in File |-> 0] /\ index = {}
  /\ pc = "idle" /\ run = 0 /\ binlog_active = NoFile /\ missing = {}

BackupStep ==
  \/ Prepare \/ CheckMysql \/ CheckFails \/ Clone \/ CloneFails \/ WriteMeta \/ Flush \/ BinlogSkipped
  \/ ReadActive \/ ListMissing \/ CopyBinlog \/ AppendIndex \/ CopyFails
  \/ PurgeSnapshot \/ PurgeSnapshotsDone \/ PurgeBinlog \/ PurgeBinlogsDone \/ RebuildIndex

Next == Commit \/ Rotate \/ NewDay \/ ScheduleStart \/ BackupStep \/ Crash

Spec == Init /\ [][Next]_vars
-----------------------------------------------------------------------------
(* Every variable has its type, and there is something to copy exactly in    *)
(* the copy loop.                                                            *)
TypeOK ==
  /\ placed \in Seq(File) /\ Committed <= MaxTrx
  /\ active \in File /\ oldest \in 1 .. active /\ closed \in [File -> 0 .. MaxDay]
  /\ day \in 0 .. MaxDay /\ ran \in 0 .. MaxDay
  /\ dirs \subseteq Run
  /\ clone \in [Run -> (0 .. MaxTrx) \cup {NoClone, Torn}]
  /\ meta \in [Run -> File \cup {NoFile, NoMeta}]
  /\ copy \in [File -> (SUBSET Trx) \cup {NoCopy}] /\ mtime \in [File -> 0 .. MaxDay]
  /\ index \subseteq File
  /\ pc \in Label /\ run \in 0 .. MaxRun
  /\ binlog_active \in File \cup {NoFile} /\ missing \subseteq File
  /\ missing # {} <=> pc \in {"copy", "append"}

(* The meta file of a snapshot names a binlog at or before the first         *)
(* transaction its clone lacks, so that a recovery which starts there skips  *)
(* nothing: CLONE, FLUSH and the status query are not one step.              *)
MetaCoversClone ==
  \A s \in dirs : meta[s] \in File /\ clone[s] \in Nat =>
    \A t \in 1 .. Committed : t > clone[s] => placed[t] >= meta[s]

(* A binlog listed in binlog.txt is never copied again, so its copy, as long *)
(* as it is kept, holds all that was and all that will be written to it.     *)
IndexedAreWhole ==
  \A f \in Archived : f < active /\ copy[f] = Contents(f)

(* Between two archived binlogs none is absent, whatever the run and the     *)
(* purge were doing when they were killed, as long as a run completes on     *)
(* every day and the server keeps its binlogs no longer than the archive.    *)
NoHole ==
  \A f, h \in Archived : f .. h \subseteq Archived

(* No step takes the last snapshot that can be restored: the purge runs only *)
(* after a clone has succeeded and removes the oldest first.                 *)
AlwaysRestorable ==
  [][Restorable # {} => Restorable' # {}]_vars

(* A snapshot that has a meta file has its whole clone, except one that the  *)
(* purge was removing as surplus.                                            *)
KeptAreWhole ==
  \A s \in dirs : meta[s] # NoMeta /\ Cardinality({d \in dirs : d > s}) < Keep =>
    clone[s] \notin {NoClone, Torn}
=============================================================================
