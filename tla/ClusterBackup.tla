----------------------------- MODULE ClusterBackup -----------------------------
(***************************************************************************)
(* The backup of a ClickHouse cluster (clickhouse_ansible/playbooks/       *)
(* backup_cluster.yml): one replica of every shard is told to BACKUP to a  *)
(* shared disk, and a manifest says from which time on the batch is known  *)
(* to be complete.                                                         *)
(*                                                                         *)
(* Ansible runs a play in lockstep: all hosts do one task, in any order,   *)
(* before one of them does the next, and with any_errors_fatal a host that *)
(* fails ends the play once the others have done the task.                 *)
(*                                                                         *)
(* A row is the time at which it was inserted.  ReplicatedMergeTree copies *)
(* rows between the replicas of a shard in two steps: a replica takes the  *)
(* entry into its queue and fetches it later.                              *)
(***************************************************************************)
EXTENDS Integers, FiniteSets, FiniteSetsExt

CONSTANTS
  Host,       \* the nodes: pairs of a shard and a replica
  Batch,      \* batch ids
  None,       \* no manifest, no play
  MaxTime,    \* bound: rows inserted
  MaxPlay,    \* bound: backup plays
  Faults      \* lag: a row may reach some replicas first;  kill: a play may be interrupted;
              \* server: BACKUP may fail, servers may restart

Shard     == {h[1] : h \in Host}
Hosts(s)  == {h \in Host : h[1] = s}
Time      == 1 .. MaxTime
Path      == Batch \X Host
Pick      == {p \in [Shard -> Host] : \A s \in Shard : p[s] \in Hosts(s)}

Play      == [batch : Batch, mode : {"file", "table"}, pick : Pick,
              marker : [Shard -> 0 .. MaxTime], due : [Shard -> SUBSET Time]]

ASSUME ClusterAssumption ==
  /\ IsFiniteSet(Host) /\ Host # {} /\ None \notin Play
  /\ MaxTime \in Nat /\ MaxPlay \in Nat
  /\ Faults \subseteq {"lag", "kill", "server"}

VARIABLES
  now,        \* the clock: rows inserted so far
  held,       \* by host, the rows it holds
  queued,     \* by host, the rows in its replication queue
  quorum,     \* by shard, the rows inserted on all its replicas at once (for the properties)
  stat,       \* by backup_task_id, its status in system.backups, kept in the server's memory
  disk,       \* by backup_target_rel_path, what lies on the backup disk
  checkpoint, \* the checkpoint table: batch, shard and time
  nfs,        \* by batch, the manifest beside the backup
  control,    \* by batch, the manifest on the control host
  plays,      \* plays begun
  pc,         \* the task of the running play
  todo,       \* the shards whose host has yet to do it
  failed,     \* whether a host has failed in it
  play        \* its parameters;  by shard, backup_runtime_marker_ts (marker) and what its
              \* host knew of at the latest marker (due, for the properties)

source  == <<now, held, queued, quorum>>
store   == <<stat, disk, checkpoint>>
lockstep == <<pc, todo, failed, play>>
vars    == <<source, store, nfs, control, plays, lockstep>>

Ended == pc' = "idle" /\ todo' = Shard /\ failed' = FALSE /\ play' = None

(***************************************************************************)
(* The cluster in use.                                                     *)
(***************************************************************************)
Rows(s) == UNION {held[h] : h \in Hosts(s)}

Insert ==
  /\ now < MaxTime /\ now' = now + 1
  /\ \E s \in Shard : \E R \in (SUBSET Hosts(s)) \ {{}} :
       /\ "lag" \notin Faults => R = Hosts(s)
       /\ held' = [h \in Host |-> IF h \in R THEN held[h] \cup {now + 1} ELSE held[h]]
       /\ quorum' = [quorum EXCEPT ![s] = IF R = Hosts(s) THEN @ \cup {now + 1} ELSE @]
  /\ UNCHANGED <<queued, store, nfs, control, plays, lockstep>>

Enqueue(h) ==
  /\ queued[h] # Rows(h[1]) \ held[h]
  /\ queued' = [queued EXCEPT ![h] = Rows(h[1]) \ held[h]]
  /\ UNCHANGED <<now, held, quorum, store, nfs, control, plays, lockstep>>

Fetch(h) ==
  /\ queued[h] # {}
  /\ held' = [held EXCEPT ![h] = @ \cup queued[h]]
  /\ queued' = [queued EXCEPT ![h] = {}]
  /\ UNCHANGED <<now, quorum, store, nfs, control, plays, lockstep>>

(***************************************************************************)
(* The play.                                                               *)
(***************************************************************************)
Following == [health |-> "marker", marker |-> "start", start |-> "wait", wait |-> "nfs"]

Turn(task, s) == pc = task /\ s \in todo

(* The host of s has done its task, p is what the play knows by then; the    *)
(* last host moves the play on.                                              *)
Done(s, ok, p) ==
  IF todo # {s}
  THEN todo' = todo \ {s} /\ failed' = (failed \/ ~ok) /\ play' = p /\ UNCHANGED pc
  ELSE IF failed \/ ~ok THEN Ended
  ELSE pc' = Following[pc] /\ todo' = Shard /\ play' = p /\ UNCHANGED failed

Target(s) == <<play.batch, play.pick[s]>>

(* The operator may name a batch that exists, to run it again.  Any replica  *)
(* may be preferred or named by backup_shard_host_override.                  *)
PlayBegin ==
  /\ pc = "idle" /\ plays < MaxPlay /\ plays' = plays + 1
  /\ \E b \in Batch, m \in {"file", "table"}, pick \in Pick :
       play' = [batch |-> b, mode |-> m, pick |-> pick,
                marker |-> [s \in Shard |-> 0], due |-> [s \in Shard |-> {}]]
  /\ pc' = "health" /\ UNCHANGED <<source, store, nfs, control, todo, failed>>

\* Mutant of CheckHealth: the verdict of the check is not asked.
CheckHealthIgnored(s) ==
  LET h == play.pick[s] IN
  /\ Turn("health", s)
  /\ Done(s, TRUE, [play EXCEPT !.due[s] = held[h] \cup queued[h]])
  /\ UNCHANGED <<source, store, nfs, control, plays>>

(* The queue must be empty once within backup_replication_health_wait_seconds. *)
CheckHealth(s) ==
  LET h == play.pick[s] IN
  /\ Turn("health", s)
  /\ Done(s, queued[h] = {}, [play EXCEPT !.due[s] = held[h] \cup queued[h]])
  /\ UNCHANGED <<source, store, nfs, control, plays>>

Mark(s) ==
  /\ Turn("marker", s)
  /\ Done(s, TRUE, [play EXCEPT !.marker[s] = now,
                               !.due = [x \in Shard |-> @[x] \cup held[play.pick[x]]]])
  /\ checkpoint' = IF play.mode = "table"
                   THEN checkpoint \cup {[batch |-> play.batch, shard |-> s, ts |-> now]}
                   ELSE checkpoint
  /\ UNCHANGED <<source, stat, disk, nfs, control, plays>>

(* A task id that is still running is refused; on a path that holds          *)
(* something the backup fails.  The server takes the rows it has at some     *)
(* moment from here on: the fewest are those it has now.                     *)
Start(s) ==
  LET p == Target(s) IN
  /\ Turn("start", s) /\ Done(s, stat[p] # "running", play)
  /\ IF stat[p] = "running" THEN UNCHANGED <<stat, disk>>
     ELSE IF disk[p].state = "none"
     THEN /\ stat' = [stat EXCEPT ![p] = "running"]
          /\ disk' = [disk EXCEPT ![p] = [state |-> "partial", rows |-> held[p[2]]]]
     ELSE stat' = [stat EXCEPT ![p] = "failed"] /\ UNCHANGED disk
  /\ UNCHANGED <<source, checkpoint, nfs, control, plays>>

\* Mutant of Await: a backup that has not failed will do.
AwaitUnfailed(s) ==
  /\ Turn("wait", s) /\ Done(s, stat[Target(s)] # "failed", play)
  /\ UNCHANGED <<source, store, nfs, control, plays>>

(* Polling ends with a verdict, or with the last of backup_poll_retries.     *)
Await(s) ==
  /\ Turn("wait", s) /\ Done(s, stat[Target(s)] = "created", play)
  /\ UNCHANGED <<source, store, nfs, control, plays>>

(* The times the manifest is made of: those of this play, or all the table   *)
(* has of the batch.                                                         *)
Records == IF play.mode = "table"
           THEN {c.ts : c \in {d \in checkpoint : d.batch = play.batch}}
           ELSE {play.marker[s] : s \in Shard}

\* Mutant of Manifest: the manifest's time is when it is written.
ManifestOfNow == [pick |-> play.pick, safe_ts |-> now, latest |-> now, due |-> play.due]

Manifest == [pick |-> play.pick, safe_ts |-> Min(Records), latest |-> Max(Records), due |-> play.due]

WriteNfs ==
  /\ pc = "nfs" /\ pc' = "control" /\ UNCHANGED <<todo, failed, play>>
  /\ nfs' = [nfs EXCEPT ![play.batch] = Manifest]
  /\ UNCHANGED <<source, store, control, plays>>

WriteControl ==
  /\ pc = "control" /\ Ended
  /\ control' = [control EXCEPT ![play.batch] = Manifest]
  /\ UNCHANGED <<source, store, nfs, plays>>

\* Mutant of Kill: the play's facts outlive it.
KillKeepingFacts ==
  /\ "kill" \in Faults /\ pc # "idle"
  /\ pc' = "idle" /\ todo' = Shard /\ failed' = FALSE /\ UNCHANGED play
  /\ UNCHANGED <<source, store, nfs, control, plays>>

Kill ==
  /\ "kill" \in Faults /\ pc # "idle" /\ Ended
  /\ UNCHANGED <<source, store, nfs, control, plays>>

(***************************************************************************)
(* The servers: an asynchronous BACKUP outlives the play that started it.  *)
(***************************************************************************)
Complete(p) ==
  /\ stat[p] = "running"
  /\ stat' = [stat EXCEPT ![p] = "created"]
  /\ disk' = [disk EXCEPT ![p].state = "whole"]
  /\ UNCHANGED <<source, checkpoint, nfs, control, plays, lockstep>>

Empty == [state |-> "none", rows |-> {}]

(* A failed backup removes what it wrote.                                    *)
ServerFails(p) ==
  /\ "server" \in Faults /\ stat[p] = "running"
  /\ stat' = [stat EXCEPT ![p] = "failed"]
  /\ disk' = [disk EXCEPT ![p] = Empty]
  /\ UNCHANGED <<source, checkpoint, nfs, control, plays, lockstep>>

(* system.backups is gone; what was being written stays.                     *)
ServerRestarts(h) ==
  /\ "server" \in Faults /\ \E b \in Batch : stat[<<b, h>>] = "running"
  /\ stat' = [p \in Path |-> IF p[2] = h THEN "none" ELSE stat[p]]
  /\ UNCHANGED <<source, disk, checkpoint, nfs, control, plays, lockstep>>

-----------------------------------------------------------------------------
Init ==
  /\ now = 0 /\ held = [h \in Host |-> {}] /\ queued = [h \in Host |-> {}]
  /\ quorum = [s \in Shard |-> {}]
  /\ stat = [p \in Path |-> "none"] /\ disk = [p \in Path |-> Empty] /\ checkpoint = {}
  /\ nfs = [b \in Batch |-> None] /\ control = [b \in Batch |-> None]
  /\ plays = 0 /\ pc = "idle" /\ todo = Shard /\ failed = FALSE /\ play = None

PlayStep ==
  \/ \E s \in Shard : CheckHealth(s) \/ Mark(s) \/ Start(s) \/ Await(s)
  \/ WriteNfs \/ WriteControl

Next ==
  \/ Insert \/ \E h \in Host : Enqueue(h) \/ Fetch(h)
  \/ PlayBegin \/ PlayStep \/ Kill
  \/ \E p \in Path : Complete(p) \/ ServerFails(p)
  \/ \E h \in Host : ServerRestarts(h)

Spec == Init /\ [][Next]_vars
-----------------------------------------------------------------------------
(* Every variable has its type, and a shard that has done a task of the play *)
(* is one the play is made of.                                               *)
TypeOK ==
  /\ now \in 0 .. MaxTime /\ plays \in 0 .. MaxPlay
  /\ held \in [Host -> SUBSET Time] /\ queued \in [Host -> SUBSET Time]
  /\ quorum \in [Shard -> SUBSET Time]
  /\ stat \in [Path -> {"none", "running", "created", "failed"}]
  /\ disk \in [Path -> [state : {"none", "partial", "whole"}, rows : SUBSET Time]]
  /\ checkpoint \subseteq [batch : Batch, shard : Shard, ts : 0 .. MaxTime]
  /\ pc \in {"idle", "health", "marker", "start", "wait", "nfs", "control"}
  /\ todo \subseteq Shard /\ todo # {} /\ failed \in BOOLEAN
  /\ play = None <=> pc = "idle"
  /\ pc # "idle" => play \in Play

(* Of every manifest, on either host, the backups it names are whole: plays  *)
(* that are killed, time out or run a batch id again leave none that is not. *)
Stored(b) == {nfs[b], control[b]} \ {None}

ManifestWhole ==
  \A b \in Batch : \A m \in Stored(b) : \A s \in Shard : disk[<<b, m.pick[s]>>].state = "whole"

(* What the chosen replica of a shard knew of when its health was checked,   *)
(* and what it held when the last of all markers was taken, is in its backup.*)
MarkersCovered ==
  \A b \in Batch : \A m \in Stored(b) : \A s \in Shard :
    m.due[s] \subseteq disk[<<b, m.pick[s]>>].rows

(* A row that all replicas of its shard took at once, not later than the     *)
(* manifest's safe_ts, is in the backup: of every shard, whichever replica   *)
(* was chosen, and with the markers of earlier runs of the batch as well.    *)
SafeTsCovered ==
  \A b \in Batch : \A m \in Stored(b) : \A s \in Shard :
    {t \in quorum[s] : t <= m.safe_ts} \subseteq disk[<<b, m.pick[s]>>].rows
=============================================================================
