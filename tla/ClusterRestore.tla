---------------------------- MODULE ClusterRestore ----------------------------
(***************************************************************************)
(* The restore of a backed-up cluster on new hosts of the same layout      *)
(* (restore_cluster.yml and tasks/restore_execute_phase.yml).  One host of *)
(* every shard restores the data, the others the structure; materialized   *)
(* views come in a second phase, after everything else.  ClusterBackup     *)
(* leaves the backups and the manifests.                                   *)
(***************************************************************************)
EXTENDS ClusterBackup

CONSTANTS
  MaxRestore,    \* bound: restore plays
  RestoreFaults  \* kill: a play may be interrupted;  server: RESTORE may fail half way

Phase == {1, 2}       \* phase1_non_mv, phase2_mv

ASSUME RestoreAssumption ==
  MaxRestore \in Nat /\ RestoreFaults \subseteq {"kill", "server"}

VARIABLES
  lost,     \* the source cluster is gone
  attempts, \* restore plays begun
  rpc,      \* the task of the running play
  rtodo,    \* the hosts that have yet to do it
  rfailed,  \* whether a host has failed in it
  phase,    \* restore_phase
  restore,  \* the play's parameters
  task,     \* by host, its latest RESTORE: the phase and its status
  made,     \* by host, the phases whose objects it has
  content,  \* by shard, how often its tables have each row
  reports   \* the manifests of the restore: batch and manifest

rlock   == <<rpc, rtodo, rfailed, phase>>
new     == <<task, made, content>>
rvars   == <<lost, attempts, rlock, restore, new, reports>>
allvars == <<vars, rvars>>

(* The source cluster is lost with all its servers know.                     *)
Lose ==
  /\ ~lost /\ lost' = TRUE /\ pc = "idle"
  /\ held' = [h \in Host |-> {}] /\ queued' = [h \in Host |-> {}]
  /\ stat' = [p \in Path |-> "none"] /\ checkpoint' = {}
  /\ UNCHANGED <<now, quorum, disk, nfs, control, plays, lockstep>>
  /\ UNCHANGED <<attempts, rlock, restore, new, reports>>

(***************************************************************************)
(* The play.                                                               *)
(***************************************************************************)
REnded == rpc' = "idle" /\ rtodo' = Host /\ rfailed' = FALSE /\ phase' = 1

\* Mutant of RDone: only the last host's failure ends the play.
RDoneLastOnly(h, ok) ==
  LET turn == rpc = "wait" /\ phase = 1 IN
  IF rtodo # {h} THEN rtodo' = rtodo \ {h} /\ UNCHANGED <<rpc, rfailed, phase>>
  ELSE IF ~ok THEN REnded
  ELSE /\ rpc' = IF turn THEN "start"
                 ELSE [start |-> "wait", wait |-> "health", health |-> "report"][rpc]
       /\ phase' = IF turn THEN 2 ELSE phase
       /\ rtodo' = Host /\ UNCHANGED rfailed

(* h has done the task of the play; the last host moves it on, through the   *)
(* tasks of a phase, through the phases and to the checks at the end.        *)
RDone(h, ok) ==
  LET turn == rpc = "wait" /\ phase = 1 IN
  IF rtodo # {h}
  THEN rtodo' = rtodo \ {h} /\ rfailed' = (rfailed \/ ~ok) /\ UNCHANGED <<rpc, phase>>
  ELSE IF rfailed \/ ~ok THEN REnded
  ELSE /\ rpc' = IF turn THEN "start"
                 ELSE [start |-> "wait", wait |-> "health", health |-> "report"][rpc]
       /\ phase' = IF turn THEN 2 ELSE phase
       /\ rtodo' = Host /\ UNCHANGED rfailed

NoTask == [phase |-> 1, state |-> "none"]

(* The operator names the batch and takes the manifest from the control host *)
(* or, with restore_manifest_file, from beside the backup.  Bound: no        *)
(* RESTORE of an earlier play is still running.                              *)
RestoreBegin ==
  /\ lost /\ rpc = "idle" /\ attempts < MaxRestore /\ attempts' = attempts + 1
  /\ \A h \in Host : task[h].state \notin {"running", "loading"}
  /\ \E b \in Batch, primary \in Pick : \E m \in Stored(b) :
       restore' = [batch |-> b, manifest |-> m, primary |-> primary]
  /\ rpc' = "start" /\ task' = [h \in Host |-> NoTask]
  /\ UNCHANGED <<vars, lost, rtodo, rfailed, phase, made, content, reports>>

StartPhase(h) ==
  /\ rpc = "start" /\ h \in rtodo /\ RDone(h, TRUE)
  /\ task' = [task EXCEPT ![h] = [phase |-> phase, state |-> "running"]]
  /\ UNCHANGED <<vars, lost, attempts, restore, made, content, reports>>

\* Mutant of AwaitPhase: a RESTORE that has not failed will do.
AwaitPhaseUnfailed(h) ==
  /\ rpc = "wait" /\ h \in rtodo /\ RDone(h, task[h].state # "failed")
  /\ UNCHANGED <<vars, lost, attempts, restore, new, reports>>

(* Polling ends with a verdict, or with the last of restore_poll_retries.    *)
AwaitPhase(h) ==
  /\ rpc = "wait" /\ h \in rtodo /\ RDone(h, task[h].state = "restored")
  /\ UNCHANGED <<vars, lost, attempts, restore, new, reports>>

(* The queues of the new replicas are not modelled; either may come out.     *)
HealthAfter(h) ==
  /\ rpc = "health" /\ h \in rtodo
  /\ \E ok \in BOOLEAN : RDone(h, ok)
  /\ UNCHANGED <<vars, lost, attempts, restore, new, reports>>

Report ==
  /\ rpc = "report" /\ REnded
  /\ reports' = reports \cup {[batch |-> restore.batch, manifest |-> restore.manifest]}
  /\ UNCHANGED <<vars, lost, attempts, restore, new>>

RKill ==
  /\ "kill" \in RestoreFaults /\ rpc # "idle" /\ REnded
  /\ UNCHANGED <<vars, lost, attempts, restore, new, reports>>

(***************************************************************************)
(* The servers.  RESTORE creates the tables, on the host that restores the *)
(* data only where they are empty, then attaches the rows of the backup.   *)
(***************************************************************************)
BackedUp(r, s) == disk[<<r.batch, r.manifest.pick[s]>>]
Loads(h) == task[h].phase = 1 /\ restore.primary[h[1]] = h
Added(s, rows) == [content EXCEPT ![s] = [t \in Time |-> IF t \in rows THEN @[t] + 1 ELSE @[t]]]

\* Mutant of Create: RESTORE adds to the tables that are there.
CreateAdding(h) ==
  /\ task[h].state = "running"
  /\ IF Loads(h)
     THEN /\ task' = [task EXCEPT ![h].state =
                        IF BackedUp(restore, h[1]).state = "whole" THEN "loading" ELSE "failed"]
          /\ UNCHANGED made
     ELSE /\ task' = [task EXCEPT ![h].state = "restored"]
          /\ made' = [made EXCEPT ![h] = @ \cup {task[h].phase}]
  /\ UNCHANGED <<vars, lost, attempts, rlock, restore, content, reports>>

Create(h) ==
  /\ task[h].state = "running"
  /\ IF Loads(h)
     THEN /\ task' = [task EXCEPT ![h].state =
                        IF /\ BackedUp(restore, h[1]).state = "whole"
                           /\ \A t \in Time : content[h[1]][t] = 0
                        THEN "loading" ELSE "failed"]
          /\ UNCHANGED made
     ELSE /\ task' = [task EXCEPT ![h].state = "restored"]
          /\ made' = [made EXCEPT ![h] = @ \cup {task[h].phase}]
  /\ UNCHANGED <<vars, lost, attempts, rlock, restore, content, reports>>

Load(h) ==
  /\ task[h].state = "loading"
  /\ task' = [task EXCEPT ![h].state = "restored"]
  /\ made' = [made EXCEPT ![h] = @ \cup {1}]
  /\ content' = Added(h[1], BackedUp(restore, h[1]).rows)
  /\ UNCHANGED <<vars, lost, attempts, rlock, restore, reports>>

(* What has been attached before the error stays.                            *)
LoadFails(h) ==
  /\ "server" \in RestoreFaults /\ task[h].state = "loading"
  /\ task' = [task EXCEPT ![h].state = "failed"]
  /\ \E rows \in SUBSET BackedUp(restore, h[1]).rows : content' = Added(h[1], rows)
  /\ UNCHANGED <<vars, lost, attempts, rlock, restore, made, reports>>

-----------------------------------------------------------------------------
RestoreInit ==
  /\ lost = FALSE /\ attempts = 0
  /\ rpc = "idle" /\ rtodo = Host /\ rfailed = FALSE /\ phase = 1
  /\ restore = None /\ task = [h \in Host |-> NoTask]
  /\ made = [h \in Host |-> {}] /\ content = [s \in Shard |-> [t \in Time |-> 0]]
  /\ reports = {}

AllInit == Init /\ RestoreInit

RestoreStep ==
  \/ \E h \in Host : StartPhase(h) \/ AwaitPhase(h) \/ HealthAfter(h)
  \/ Report

AllNext ==
  \/ ~lost /\ Next /\ UNCHANGED rvars
  \/ Lose \/ RestoreBegin \/ RestoreStep \/ RKill
  \/ \E h \in Host : Create(h) \/ Load(h) \/ LoadFails(h)

AllSpec == AllInit /\ [][AllNext]_allvars
-----------------------------------------------------------------------------
(* Every variable of the restore has its type.                               *)
RestoreTypeOK ==
  /\ TypeOK /\ lost \in BOOLEAN /\ attempts \in 0 .. MaxRestore
  /\ rpc \in {"idle", "start", "wait", "health", "report"} /\ phase \in Phase
  /\ rtodo \subseteq Host /\ rtodo # {} /\ rfailed \in BOOLEAN
  /\ attempts > 0 => restore.batch \in Batch /\ restore.primary \in Pick
  /\ task \in [Host -> [phase : Phase, state : {"none", "running", "loading", "restored", "failed"}]]
  /\ made \in [Host -> SUBSET Phase] /\ content \in [Shard -> [Time -> 0 .. MaxRestore]]

(* A restore that ends with its manifest has brought back, on every shard,   *)
(* all that its backup holds, and on every host the objects of both phases.  *)
ReportedIsRestored ==
  \A r \in reports :
    /\ \A h \in Host : made[h] = Phase
    /\ \A s \in Shard : \A t \in BackedUp(r, s).rows : content[s][t] > 0

(* The rows all replicas of a shard took up to the safe_ts of the manifest   *)
(* have survived the loss of the cluster.                                    *)
SafeTsRestored ==
  \A r \in reports : \A s \in Shard : \A t \in quorum[s] :
    t <= r.manifest.safe_ts => content[s][t] > 0

(* No row comes back twice, however often a restore is run again after a     *)
(* failure.                                                                  *)
NoDoubleLoad == \A s \in Shard, t \in Time : content[s][t] <= 1

(* No host has a materialized view before every host has the tables.         *)
ViewsComeLast == \A h \in Host : 2 \in made[h] => \A g \in Host : 1 \in made[g]
=============================================================================
