# dbbot: specifications, model checking and proofs

dbbot delivers and operates MySQL, ClickHouse and Prometheus with Ansible and
shell. Its own logic, as opposed to the vendored `portable-ansible/` and the
declarative roles, is in a few programs that change things that are hard to
put back: the release commands that replace the installation, the backup and
recovery programs, and the exporter registrar. This directory specifies them
in TLA+, checks the specifications with TLC on small instances and proves the
most important properties with TLAPS.

## Inventory

| component | source | state it keeps | operations |
|---|---|---|---|
| release upgrade / rollback | `libexec/dbbotctl/commands/release.sh`, `common.sh` | installation root, `.dbbotctl/snapshots/*` (archive, `metadata.env`), `history.tsv` | `release upgrade`, `release rollback`, automatic rollback |
| release packaging | `.github/scripts` | none on the host | builds the package an upgrade installs |
| MySQL 8.4 backup | `roles/backup_script_84/templates` | snapshot directories with meta files, binlog copies, `binlog.txt` index, shared list files | every host decides whether it is the one; clone, copy binlogs, purge |
| MySQL 8.4 recovery | `roles/restore_pitr_84` | data directory, relay logs, replica SQL thread | restore a clone, apply binlogs up to a GTID or a time |
| ClickHouse backup / restore | `clickhouse_ansible/playbooks` | backups on a shared disk, checkpoint table, manifests in two places; the servers' `system.backups` | cluster backup with a common safe time, two-phase restore |
| exporter registrar | `mysql_ansible/exporterregistrar` | Prometheus target files | register (read, change, write back) |
| front end, support matrix | `bin/dbbotctl`, `support.py`, other commands | none | dispatch, table lookups, diagnosis |
| deployment roles | `mysql_ansible/roles`, `clickhouse_ansible/roles` | hosts | declarative configuration |

They interact through files: the release commands replace the program and
playbook files every other component runs from, and keep the operator's
inventory and variables; backup writes the directories recovery reads; purge
deletes from them; the registrar edits a file Prometheus reads. Nothing in the
repository takes a lock, so any two of them, or two runs of one, may overlap.

What is hard, by component:

- *release*: a command is a sequence of several hundred file operations and may
  fail or be killed between any two; the automatic rollback may fail too; the
  metadata is rewritten in place; commands may overlap; snapshot names come
  from a clock with a resolution of one second. Correct means that the user's
  files survive, that a command changes the installation completely or not at
  all, and that a complete release can always be recovered.
- *MySQL backup and recovery*: the position of a snapshot, the list of binlogs
  and their copies are read at different times while the server rotates;
  retention may delete what a kept snapshot needs. Correct means that what
  recovery applies has no gap and stops where it was told.
  Every host decides by itself whether to back up: one must, two must not.
- *ClickHouse*: every shard is backed up on one of its replicas, which may lag,
  and the cluster has one safe time; BACKUP and RESTORE run on the servers and
  outlive a play that is killed or gives up polling, while a server that
  restarts forgets them; a batch may be run again; a restore goes through phases
  on all hosts. Correct means that a manifest names whole backups in which
  nothing up to the safe time is missing, and that a restore which reports
  success has brought all of it back, once, and dropped no object asked for.
- *registrar*: read-modify-write without a lock, in a file that is emptied
  before it is written. Correct means that no target is lost or listed twice.

`PROJECT.json` lists the hazards at their lines.

## Modules

| module | what it is |
|---|---|
| `InstallRoot` | the installation root as a function from managed paths to contents; what a package installs, what counts as one complete release |
| `ReleaseUpgrade` | both release commands and the automatic rollback, one action per step of the scripts; properties |
| `ReleaseInvariants` | the inductive invariant `IInv`, in named parts |
| `AtomicRelease` | what the release commands promise: changes at once or not at all |
| `ReleaseRefinement` | the refinement mapping from `ReleaseUpgrade` to `AtomicRelease` |
| `ReleaseConcurrent` | two release commands over one disk: two instances of `ReleaseUpgrade` |
| `ReleaseUpgrade_proofs`, `ReleaseConcurrent_proofs` | proofs: metadata and history, the invariant, the refinement; two commands at once |
| `BinlogBackup` | the MySQL server's binlogs, the scheduled backup and the purge, one action per query or file operation; properties |
| `BinlogBackup_proofs` | its inductive invariants and proofs |
| `ReplicaSelection` | how a host decides whether it backs up, as operators |
| `BinlogScan` | the search of a recovery for the last transaction before a time, as operators |
| `PitrRestore` | a point-in-time recovery over what `BinlogBackup` leaves, while backups go on; properties |
| `PitrRestore_proofs` | its inductive invariants and proofs, over those of `BinlogBackup_proofs` |
| `ClusterBackup` | a ClickHouse cluster whose replicas lag, and the backup play over it, one action per task and host; properties |
| `ClusterRestore` | the loss of that cluster and the restore play on new hosts, over what `ClusterBackup` leaves; properties |
| `Cluster_proofs` | their inductive invariants and proofs |
| `RestorePlan` | the object clause of a restore split into phases, as operators |
| `ExporterTargets`, `ExporterTargets_proofs` | registrations that overlap over one target file; proofs |
| `MCDecisions`, `MCDecisions_proofs` | the algorithms (scan, selection, plan) on all small inputs against their definitions; proofs that they compute these for inputs of any size |
| `LeftFold` | what a left fold over a sequence computes, for any operator; proofs |
| `MCReleaseUpgrade`, `MCReleaseConcurrent`, `MCPitrRestore`, `MCCluster`, `MCExporterTargets` | values of the constants for TLC |

### ReleaseUpgrade

A path stands for one file under the root. `Preserve` is `DBBOT_PRESERVE_PATHS`,
`RootFile` is `DBBOT_MANAGED_ROOT_FILES`, `Tool` stands for `bin/` and
`libexec/`, without which no command runs, `Ships` is what packages contain.
The content of a path is the release that shipped it, something the user
wrote, or `Gone`. A package is then the function `Installed(v)`, and an archive
is a function too.

On disk: `root`, `history`, and by snapshot id the directory (`dirs`), the state
of the archive (`tar`: none, partial, whole), what a whole one holds (`image`)
and `metadata.env` (`meta`; `torn` is a file cut short, of which nothing is
relied on). `pc` is the label of the running command, `todo` the paths its
current loop has still to visit, in any order: `tar`, `cp -a` and `rm -rf`
promise none, except that `dbbot_remove_managed_paths` removes the directories
before the files. `stream` is what tar has read so far, `stage` the directory
from `mktemp -d`. `cmd` holds the shell variables that are read later. `before`
is a ghost: the root when the command started.

An upgrade goes through the labels
`open, snapshot, archive, capture, remove, extract, overlay, check, succeed,
record`; a failure in the transaction (`release.sh:390-448`) leads to
`restore, restoreRemove, restoreExtract, verify, verdict, recordFailure`; a
failing archive to `snapshotFailed, recordSnapshotFailed`; a rollback command
shares the restore labels and ends in `recordRollback`. `Killed` may end any of
them anywhere, with the file being written torn.

`Faults` says what the environment may do: `crash` (a kill at any step),
`snapshot` (tar fails), `upgrade` (a command of the transaction fails),
`restore` (a command of a restore fails), `record` (metadata or history cannot
be written). The post-upgrade checks are modelled by what they need: they can
only pass on a complete release, and they may always fail.

`DistinctSeconds` is the one assumption about the clock: no two upgrades to one
release name their snapshot in the same second. Without it `mkdir -p` reuses
the directory and the archive is written over.

### BinlogBackup

A transaction is its place in the commit order of the server. `placed` says
which binlog each was written to, `active` is the binlog being written and
`oldest` the first the server still has; a rotation drops what has expired. In
the backup directory of the instance: the snapshot directories (`dirs`, named
after the start of the run), by snapshot the clone (`clone`, the number of
transactions it holds) and the `binlog_file` of its meta file (`meta`), by
binlog the copy (`copy`, the transactions in it, `mtime`, its age) and
`binlog.txt` (`index`). `pc`, `run`, `binlog_active` and `missing` are the
running script.

A run goes through the labels `prepare, check, clone, position, flush, active,
list, copy, append` of `backup_clone.sh` and `purgeSnapshots, purgeBinlogs,
rebuild` of `backup_purge.sh`. Each query and each file operation that another
actor can get in between is a step; `Commit` is possible between any two. A
clone is consistent as of the end of `CLONE`, and the position is a later query.

`Faults` says what may go wrong: `busy` (the server rotates by itself while a
backup runs: `max_binlog_size`, or a `FLUSH` of somebody else), `query` (a query
returns nothing or fails), `clone` (`CLONE` fails), `copy` (`cp` fails, with or
without a partial file), `crash` (the script is killed), `missed` (a day without
a completed run). A `Torn` clone is what a killed `rm -rf` leaves; a recovery
does not start from one in the model, since the server that starts on it would
notice.

Age is counted in days. `NoHole` is about a server that keeps its binlogs no
longer than the archive does and a run on every day, which is what the defaults
amount to.

### PitrRestore and BinlogScan

One recovery: the copy of the clone (`RestoreClone`), the selection from the
index, the target, the copy into the relay log directory, the SQL thread, the
wait. `BinlogBackup` goes on between any two of its steps, so that the archive a
recovery reads may change under it. The relay log directory, `data` and the
thread belong to the restored server; `until` is the transaction in
`SQL_AFTER_GTIDS`. Transaction `t` commits at time `t`, so a target time is a
number too. `GNO` numbers the transactions within the source's UUID:
consecutively, or with a gap as the blocks of group replication leave.
`RestoreFaults = {"apply"}` lets the SQL thread stop on an error.

`BinlogScan` has the two functions that look for the last GTID before a time, on
files as sequences of events; `MCDecisions` compares them with the definition
they are meant to compute. `ScanEvent` and `ScanFile` are the bodies of their
loops, `ScanStart` and `FindStart` what the variables hold before.

### AtomicRelease and ReleaseRefinement

`AtomicRelease` has the installation (`inst`), the roots archived so far
(`taken`) and `broken`: the last command was killed or says that its restore
failed. An upgrade replaces an archived `inst` by its `Merge` with the package,
a rollback by an archived one; `Wreck` leaves anything, must set `broken`, and is
only possible when a complete release is archived. Under the mapping, `inst` is
the root between commands and `before` while one replaces it; `taken` are the
whole archives; `broken` is read off the outcome and the metadata. `UpgradeIsAtomic`
says that every behaviour of `ReleaseUpgrade` is one of these, under all faults.

### ReplicaSelection

A `view` is what one host learns from the servers in its queries. `BestReplica`
is the loop over the replicas the primary names, which keeps the best so far by
lag and then by name (`Consider` is its body); `ShouldBackup` is the case distinction over the role and
`BACKUP_SCOPE`. In `MCDecisions` all hosts decide in any order on one state of
the topology, but the primary names the replicas to each in an order of its own.

### ClusterBackup and ClusterRestore

A row is the time at which it was inserted (`now` counts them). A replica holds
rows (`held`), has taken others into its replication queue (`queued`) and may
not know of the rest; `quorum` is a ghost, the rows all replicas of a shard took
at once. `stat` is what a server says of a backup in `system.backups`, in memory
only; `disk` is what lies at a path of the backup disk; `checkpoint` the table of
markers; `nfs` and `control` the manifests. `play` holds the facts of the running
play, among them the marker of every shard and the ghost `due`.

Ansible runs a play in lockstep, and that is what `pc`, `todo` and `failed` are:
all hosts do one task, in any order, before one does the next, and with
`any_errors_fatal` the failure of one ends the play after the others have done
that task (`Done`, `RDone`). BACKUP and RESTORE are asynchronous: `Start` only
submits, the server goes on by itself (`Complete`, `ServerFails`), `Await` ends
with a verdict or with the last retry, which can be at any time. A `Kill` ends a
play between two tasks and leaves the servers to it. A second play may use the
same batch id: a task id that runs is refused, a path that holds something makes
the BACKUP fail. The rows of a BACKUP are those the replica has when it is
submitted, the fewest it can be.

`Lose` ends the source cluster: the disk and the manifests remain. A restore
loads the data of a shard on one host and the structure on the others, phase 1
before phase 2, then checks health and writes its manifest (`reports`).
`content` counts how often a row has been attached: RESTORE checks that the
tables are empty (`Create`) and then attaches (`Load`); one that fails leaves
what it had attached (`LoadFails`).

Fault constants: `lag` (a row may reach some replicas first), `kill`, `server`
(BACKUP or RESTORE fails, a server restarts). `Pick` takes any replica of a shard
for it: an override in `backup_shard_host_override` is assumed to name a host of
its shard, as the play does not check that well (a host of another shard passes
the assertion that counts them, and leaves a shard out). RESTOREs of an earlier
play that still run when the next begins are left out (`RestoreBegin`).

### RestorePlan

A clause is a set of items: an object, a database, or everything. `Scan` picks
from the backup's metadata, and `Plan` makes one clause, or the rest before the
views, or refuses. `PhasesWhole` is the reference: what comes back is what the
clause names, each object in one phase, no view before or with a table.

### ExporterTargets

`Download` reads the target file and computes the new text, `Open` is the
emptying by `echo > file`, `Write` the rest of it. What does not parse counts as
empty, as in the code. Two writers leave the longer text's tail under the other
(`Beneath`). A killed process leaves the remote shell, which writes on; `Cut` is
a write that stops half way. `disturbed` and `tangled` are ghosts: registrations
have overlapped or a write was cut; two have written at a time.

## Runs

| run | question | bounds |
|---|---|---|
| `release_once` | does a success keep the user's files, is a restore exact, do the commands implement `AtomicRelease`, does every upgrade get a verdict? | one snapshot; the archive, the transaction and the restore may fail; files of the user, one of which no release ships; weak fairness of the running command |
| `release_crash` | is anything ever lost, can a complete release always be recovered, do metadata, archives and history agree, do the commands implement `AtomicRelease`, does `IInv` hold? | two snapshots, kills anywhere, failing archives, transactions and records, any number of rollbacks |
| `release_overlap` | do overlapping commands keep archives, verdicts and history apart? | an upgrade or rollback against an upgrade, kills |
| `archive_retention` | does the purge leave gaps, break a snapshot it keeps, take the last one? | four runs, four days, six binlogs, one snapshot kept; clones fail, kills anywhere |
| `archive_faults` | does the position of a snapshot cover its clone? | two runs, two transactions, four binlogs; failing queries, clones and copies, kills anywhere |
| `pitr_recover` | are listed copies whole, does a recovery yield a state the server had, never one past the target, and does it end? | any target and snapshot; two runs, two days, two transactions, three binlogs; missed days, kills, an erring SQL thread, a purge that takes binlogs while the recovery runs; fairness of the recovery's steps |
| `pitr_damaged` | what holds when the archive is damaged? | one run, two transactions, four binlogs; rotations at any time, failing queries and copies |
| `decisions` | do the search by time, the selection of a replica and the restore plan compute what they are meant to? | three binlogs of two events; three replicas; two databases of two names, objects of three kinds; some half a million inputs |
| `cluster` | do manifests name whole backups with all up to the safe time, and does a restore bring it back, once and in order? | a shard of two replicas and one of one, one batch id, two backup plays, two restore plays, one row; all faults |
| `exporter` | is a target lost, listed twice or mislabelled? | three targets, two processes, four registrations, two label sets; kills, cut writes; a file that is empty or written by hand |
| `release_usage_rollback`, `archive_open_binlog` | statements of the program's texts that the code does not keep | the smallest instance with the case |

Three paths (the tool, `VERSION`, one file of the user) are enough for the
questions asked: the order of removal, a half-replaced root, a user's file that
was captured, deleted or edited, and a mixture of two releases each need no
more; a fourth path adds the files of the user that no release ships. Two
releases and two snapshots let a second upgrade follow a failed one, and
rollbacks go to either. `MaxTime` bounds the number of seconds in which an
upgrade may start and thereby the snapshots; the number of commands is not
bounded.

In the backup model, two runs with one snapshot kept let a purge meet the
snapshot of the run before, and four let it meet those of failed ones; a binlog
closed by each run and the active one make every position of a transaction
relative to a rotation appear; two days let a copy expire under a recovery that
has selected it, and four let one expire with older and younger ones left. A
position is wrong, or a copy incomplete, by one transaction as by many.

In the cluster, two shards make the safe time a minimum and two replicas let the
chosen one lag; a second play with the same batch id meets the tasks, paths and
markers of the first; a second restore meets what the first has left. One row is
before, between or after the markers and on one replica or both; a loss is the
loss of one. The proofs are for any number of all of these.

Symmetry: the two replicas of shard 1 in `cluster`, processes and label sets in
`exporter`; both runs check only invariants.

`CHECK_DEADLOCK FALSE` is set where a behaviour may stop because a bound is
used up: each process of `ReleaseConcurrent` runs one command, the backups end
with the last run, day and binlog, there is one recovery, plays, restores and
registrations are counted, and a decision is made once.

Fairness: `FairSpec` asks for `WF_vars(Step)`, that a running command is
scheduled, `AllFairSpec` for weak fairness of the recovery's own steps, which
one process (the playbook) and the SQL thread take and which include the end of
the wait after 3600 seconds. Failures, backups and the operator are never forced.

With a kill or a failing restore the root may be left half replaced:
`AtomicRelease` names that step `Wreck`, and asks that the command was killed or
says so and that a complete release is archived.

## Findings

1. `release.sh:32` says failures after snapshot creation trigger an automatic
   rollback. The history append of a finished upgrade (`release.sh:477`) is
   outside the transaction: when it fails the command returns an error and the
   new release stays (`release_usage_rollback`).
2. The index of the server is read after the name of its active binlog; a
   rotation in between has an unfinished binlog copied and listed, and it is
   never copied again (`archive_open_binlog`). An empty answer to the query for
   the name does the same (`backup_clone.sh.j2:367-384`).

Other behaviours that the models have, faithful to the code, and that no
property excludes:

- `dbbot_latest_snapshot_id` takes the newest snapshot directory, also one whose
  archive was never written; a rollback without an id is then refused.
- Of two overlapping upgrades one may capture the user's files while the other
  has removed them, and report success without them.
- The position of a snapshot is queried after the clone has ended; a rotation in
  between (`busy`) makes a recovery skip what the clone lacks of the binlog
  before. This is why `MetaCoversClone` is checked and proved without `busy`.
- Retention counts the directories of failed runs as full backups, so fewer than
  `backup_keep_full` restorable ones may be kept. The last one stays
  (`AlwaysRestorable`).
- A binlog that failed to be copied leaves a hole that a recovery to a GTID does
  not notice, so `RecoveredIsPrefix` is checked without `copy`. A recovery to a
  time does notice (`TimeRecoveryIsPrefix`): it waits for all GTIDs up to its
  target.
- A SQL thread that stopped on an error is taken for one that is done, since
  `SHOW REPLICA STATUS` is empty without a source host; `GtidReached` is checked
  without `apply`.
- `pitr_target_gtid_inclusive: false` has no effect: a recovery stops after its
  target, never before it.
- A target time before the snapshot ends in success with all of the clone.
- A GTID `uuid:seq` found by time is widened to `uuid:1-seq`
  (`restore_pitr_84.py:868`), which is never reached where the numbers have
  gaps, as the blocks of group replication leave: all there is gets applied,
  also past the target, and the wait then times out. `NeverPastTarget` is
  checked with consecutive numbers.
- The replication queue is looked at before the marker is taken
  (`backup_cluster.yml:323`): what a replica has not even queued by then is not
  waited for, so rows older than the safe time that only other replicas have may
  be missing. `SafeTsCovered` is therefore about rows all replicas took.
- Of a batch that is run again the markers of the earlier run stay in the
  checkpoint table; they only make the safe time earlier.
- A BACKUP outlives the play that gave up waiting for it; its path is then
  occupied and the batch id of no more use.
- After a restore that failed half way, RESTORE refuses the tables that have
  rows: it has to be run on dropped tables. The health check after a restore is
  made once and not repeated.
- A clause `DATABASE a, TABLE b.t` restores only `b.t` once a view is among the
  tables named; objects that are neither tables nor views are dropped by the two
  phases, although `restore_cluster.yml:441` says the original clause is kept
  for them; only the metadata of the first shard is looked at
  (`restore_cluster.yml:346`). `PlanIsWhole` excludes the first two.
- A host that is preferred but is the primary or has a `nobackup` file is still
  the one the others leave the backup to, so that nobody backs up; a failing
  GTID query counts as no lag; hosts that ask at different times may see
  different lags and choose two, or none. With the primary down nobody backs up.
- A registration that overlaps another loses it. One that finds a file it cannot
  parse starts a new list. `--force` gives its labels to all targets of a group.
  Running the Prometheus role again overwrites the target files. After a kill
  that came too late, a retry needs `--force`.
- Further details of the programs that no model has: a release leaves the root
  with the mode 0700 of its staging directory (`release.sh:406`); a rollback
  needs the program and `VERSION` that a kill may have removed; an archive cut
  short is found out only when it is unpacked (`release.sh:93`); where the
  server keeps binlogs longer than the archive, purged ones are copied again
  with a new age (`backup_clone.sh.j2:375`); a snapshot may be purged while its
  clone is being copied (`restore_pitr_84.py:460`).

## Proofs

`ReleaseUpgrade_proofs` proves, for every set of paths, releases, faults and any
number of commands, from `InstallRootAssumption` and `ReleaseAssumption`:

- `TypeCorrect`: `Spec => []TypeOK`;
- `UpgradeLosesNothing`: `Spec => []NothingLost`;
- `AlwaysRecoverable`: `Spec => []Recoverable`, assuming `DistinctSeconds`;
- `UpgradeKeepsUserFiles`: `Spec => []SuccessPreservesUser`;
- `RestoreIsExact`: `Spec => []RestoresExactly`.

None of these is inductive alone. `IInv` adds what each label guarantees:
`Archived` (the root is untouched until the archive is whole, and from then on
the archive holds it), `Replacing` and `RestoringOK` (how far each loop has
come, as an equation for the root), `Directories` (an archive lies in a
directory that exists, so a fresh name has none), `Control` (which program runs
at which label) and `Recovery` (a complete release installed or archived, and
archived as soon as there is any archive). There is one lemma per conjunct and
in it one step per action.

Assuming `DistinctSeconds` it proves as well

- `HistoryIsTrue` and `ArchivesAreKept`: `Spec => []HistoryTruthful` and
  `Spec => ArchivesImmutable`. These rest on a weaker invariant than `IInv`, one
  that says nothing of the root: `Running` (types and labels), `Claim` (what a
  command may rely on of the snapshot it holds: the metadata has its verdict by
  the time the history gets it, and not before) and `Ledger` (what the disk
  says). `RecordsStep` shows that every step keeps them and stays within its
  `Footprint`: the snapshot the command holds, or one with a new name;
- `MetadataIsTrue`: `Spec => []ReportedVersionIsArchived`. `Versions` adds which
  version the running upgrade began with and that its archive is its own;
- `UpgradesAreAtomic`: `Spec => UpgradeIsAtomic`, every step a step of
  `AtomicRelease` or a stutter. `Ending` adds what is known where a restore ends
  badly.

`ReleaseConcurrent_proofs` proves of two commands at once, under the same
assumption and from `CommandAssumption`, `HistoryIsTrueOfBoth` and
`ArchivesAreKeptApart`: `Spec => []HistoryStaysTruthful` and
`Spec => ArchivesStayApart`. It takes the lemmas above for each process
(`PA`, `PB`); since their invariant says nothing of the root, which the other
command may be replacing, and since no step leaves its footprint, the claim of
one survives the steps of the other as long as two upgrades hold different
snapshots (`Apart`). What IInv says of the root does not survive: see the second
of the other behaviours above.

`BinlogBackup_proofs` proves, for any number of transactions, binlogs, runs and
days and any retention, from `BackupAssumption`:

- `ArchiveTypeCorrect`: `Spec => []TypeOK`, with what the bounds leave to a
  running backup as the strengthening (`Typed`);
- `PositionsCoverClones`: `Spec => []MetaCoversClone` where the server does not
  rotate by itself while a backup runs, an assumption that is needed (see
  above). The invariant `Positioned` adds that between the end of
  the clone and the query all that the clone lacks is in the active binlog;
- `ListedCopiesAreWhole`: `Spec => []IndexedAreWhole` where moreover no query
  fails (`archive_open_binlog`). `Copying` adds that nothing listed is copied
  again and that the name taken for the active binlog is right when the list is
  made;
- `KeptSnapshotsAreWhole` and `LastSnapshotStays`: `Spec => []KeptAreWhole` and
  `Spec => AlwaysRestorable` under every fault. `Snapped` adds that the running
  backup's directory is the newest and restorable from its meta file on, and
  that a clone which is not whole has `Keep` newer directories; the lemma that
  the oldest of more than `Keep` directories has that many newer ones is a count
  (`OldestIsSurplus`).

- `ArchiveHasNoHole`: `Spec => []NoHole` under `Daily`: a run completes on every
  day, queries and copies do not fail, the server rotates by itself only between
  backups and keeps a binlog for a day at least and no longer than the archive
  does; clones fail and runs are killed anywhere. `Unbroken` orders the binlogs
  from old to new into those that have gone from the server, those archived and
  those still to be copied (`Calendar`, `Aging`, `Pending`), and `Loop` says that
  the copy loop takes all of the latter.

`PitrRestore_proofs` proves about the recovery that runs beside those backups,
from `RestoreAssumption` as well:

- `TargetsAreReached`, `SuccessStaysBeforeTarget` and `TimeRecoveriesAreWhole`:
  `AllSpec => []` of `GtidReached`, `SuccessNotPastTarget` and
  `TimeRecoveryIsPrefix`, in whatever state the archive is, when the SQL thread
  meets no error; without that assumption they fail, since the wait takes a
  thread that stopped for one that is done (see above). `Past` says that no copy
  holds what was not committed, `Ascending` that the thread executes in order,
  `Halting` that a running thread has not reached its target, `Stopped` that one
  that stopped has, with nothing after it. A recovery to a time rests on what its
  search can find (`FoundByTime`): a transaction at or before the target, from
  any selection of copies, whole or not;
- `RecoveriesArePrefixes`: `AllSpec => []RecoveredIsPrefix` under `Daily`. The
  invariant `Recovered` follows what the clone lacks through the recovery: it is
  in binlogs from the snapshot's position on (`Starting`), the selected ones stay
  listed while a purge may go on (`Selection`), the relay log has no gap
  (`Relayed`), so the instance always has a prefix (`Executed`). It rests on all
  the invariants of the backup and on `Timeline`, that binlogs hold the
  transactions in order;
- `TargetsAreNotPassed`: `AllSpec => [](mode = "gtid" => NeverPastTarget)` under
  `Daily`, whatever error the thread meets, and `TimesAreNotPassed`: `NeverPastTarget`
  for recoveries to a time too, where GTIDs are numbered without gaps
  (`Consecutive`; with gaps it is false, see above). As the instance has a
  prefix and a running thread has not reached its target, the next transaction
  is the target at most.

`Cluster_proofs` proves, for any cluster, batches and plays and under every
fault, from `ClusterAssumption`:

- `ClusterTypeCorrect`, `ManifestsNameWholeBackups`, `BackupsCoverMarkers`,
  `SafeTimeIsSafe`: `Spec => []` of `TypeOK`, `ManifestWhole`, `MarkersCovered`
  and `SafeTsCovered`. The invariant `ClusterInv` adds that what a server calls
  created is whole (`DiskFollows`), that a row all replicas took is held by each
  (`Replicated`), how far the hosts of a play have come and that what the chosen
  replica held at the markers is in the backup from its start on (`PlayInv`), and
  that no later play disturbs what a manifest names (`ManifestsKept`).

It goes on to prove, likewise and from `RestoreAssumption`,
`AllSpec => []` of `RestoreTypeOK`, `NoDoubleLoad`, `ViewsComeLast`,
`ReportedIsRestored` and `SafeTsRestored`. `RestoreInv` adds what each host's task
has achieved (`Tasks`), how far the play has come through the phases
(`Progress`) and what a written report guarantees (`Reports`); the last theorem
combines it with what the backup guarantees.

`ExporterTargets_proofs` proves, for any processes, targets and files and from
`ExporterAssumption`, `Spec => []` of `TypeOK`, `NoDuplicates`, `RegisteredStay`
and `LatestLabels`. `Untangled` says that all texts about to be written list
nothing twice and that nobody else has written since the writer emptied the
file; `Alone` that the only process there is has in hand all the file had.

`MCDecisions_proofs` proves the three decisions for inputs of any size:

- `PlansAreWhole`: `Spec => []PlanIsWhole`, by cases of the clause and of what
  the scan finds;
- `SearchesFindLast`: `Spec => []FindsLastBefore`, for any number of binlogs and
  events. After each event the scan holds the last transaction up to the target
  so far, and it stops only where no later one can follow;
- `OneHostBacksUp`: `Spec => []OneBacksUp`, for any replicas, from
  `ReplicaAssumption`. After each element of the list the loop holds the least,
  by lag and then by name, of those that run; so its result does not depend on the
  order of the list, and all hosts come to the same.

Both are inductions over the elements a loop has visited. The induction theorems
of the library take an operator as a parameter, which the provers cannot
instantiate, and `FoldLeft` is defined by a choice of a function. `LeftFold`
therefore proves once, for a CONSTANT operator `Op`, that a fold begins with its
base (`FoldBegins`), makes each result from the one before (`FoldGoesOn`) and ends
with the last (`FoldEnds`); a loop invariant is then shown of the set of all
positions it holds at, which has 0 and every successor (`Induction`).

Only model-checked: the liveness properties `UpgradesSettle` and `RecoveryEnds`,
which take reasoning about ENABLED and fairness that the installed provers do not
have.

## Not modelled

Of the release commands: output, the dry run and the history listing change
nothing. File modes and symbolic links are not part of a content. The download
is one step: it can only fail before anything has changed.

Of the MySQL backup: overlapping runs (they share their list files), cron and the
detection of topology and role, a meta file cut short, several incarnations of a
server under one directory, and names from 1000000 on, which sort wrongly. Of
the recovery: moving redo and undo logs, ownership, a data directory that was in
use, and the time the copy of a clone takes.

Of the ClickHouse plays: backups with a base (incremental), the snapshots of the
configuration and their restore, the restore options that relax the checks of
RESTORE, and `validate_restore_consistency.yml`, which only compares.

Of the registrar: the health check of the exporter and the login, which only
decide whether a registration begins.

The deployment roles (replication, group replication, MHA, VIPs, Prometheus) are
declarative: their protocols live in the servers. The support matrix is a table
lookup, the front end a dispatch, the legacy backup one call of a tool; the
release automation runs on GitHub. `portable-ansible/`, by far most of the lines
in the repository, is vendored third-party code.

## Plan

Done: the release commands with their refinement and proofs; the MySQL backup,
the choice of the host and the recovery, for one run at a time; the ClickHouse
backup and restore from the insert to the restored row; the restore plan; the
registrar. Every invariant and action property that a run checks is proved.

Left, in this order:

1. two overlapping backup runs over one directory (`backup_clone.sh.j2:373`): the
   local state of a run becomes a function of the process, the list files become
   shared;
2. incremental ClickHouse backups: a manifest then depends on those of its bases;
3. group replication's blocks of GTIDs as a source of `GNO`, with the recovery
   runs split by what still holds.
