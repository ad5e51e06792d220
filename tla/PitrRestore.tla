------------------------------ MODULE PitrRestore ------------------------------
(***************************************************************************)
(* Point-in-time recovery of MySQL 8.4 into a new instance                 *)
(* (mysql_ansible/roles/restore_pitr_84): restore the clone of a snapshot, *)
(* copy the archived binlogs from the snapshot's position into the relay   *)
(* log directory and let the replica's SQL thread apply them up to the     *)
(* target.  The backup directory goes on being used by BinlogBackup.       *)
(*                                                                         *)
(* A transaction t commits at time t, so a transaction is also a target    *)
(* time.  GNO is its number within the source UUID: with group replication *)
(* every member takes numbers from a block of its own, so that they need   *)
(* not be consecutive.                                                     *)
(***************************************************************************)
EXTENDS BinlogBackup, BinlogScan

CONSTANTS
  GNO,           \* by transaction, its number within the source UUID
  RestoreFaults  \* apply: the SQL thread may stop on an error

ASSUME RestoreAssumption ==
  /\ GNO \in [Trx -> Nat \ {0}]
  /\ \A t, u \in Trx : t < u => GNO[t] < GNO[u]
  /\ RestoreFaults \subseteq {"apply"}

VARIABLES
  step,     \* where the recovery stands
  backup,   \* backup_dir: the snapshot it uses
  mode,     \* target_mode
  target,   \* pitr_target_gtid or pitr_target_time
  base,     \* what the clone held
  data,     \* the transactions the restored instance has executed
  selected, \* the binlogs selected
  relay,    \* the transactions in the relay log directory
  until,    \* the transaction in SQL_AFTER_GTIDS
  thread,   \* the replica's SQL thread
  outcome   \* of the playbook

recovery == <<step, backup, mode, target, base, data, selected, relay, until, thread, outcome>>
allvars  == <<vars, recovery>>

Step == {"idle", "select", "target", "copy", "start", "wait", "done"}

(* die() in either phase fails the play.                                     *)
Die ==
  /\ step' = "done" /\ outcome' = "failed"
  /\ UNCHANGED <<backup, mode, target, base, data, selected, relay, until, thread>>

Succeed ==
  /\ step' = "done" /\ outcome' = "success"
  /\ UNCHANGED <<backup, mode, target, base, data, selected, relay, until, thread>>

(* The operator names a snapshot and a target that lies in the past: a       *)
(* transaction, or a time, which may be before the first.                    *)
RestoreClone ==
  /\ step = "idle"
  /\ \E s \in dirs, m \in {"gtid", "time"}, g \in 0 .. Committed :
       /\ m = "gtid" => g # 0
       /\ clone[s] # Torn
       /\ backup' = s /\ mode' = m /\ target' = g
       /\ IF meta[s] = NoMeta \/ clone[s] = NoClone
          THEN step' = "done" /\ outcome' = "failed" /\ UNCHANGED <<base, data>>
          ELSE /\ step' = "select" /\ base' = clone[s] /\ data' = 1 .. clone[s]
               /\ UNCHANGED outcome
  /\ UNCHANGED <<selected, relay, until, thread>>

(* The meta file is read again, for the PITR phase.  The entries of          *)
(* binlog.txt from the start file on; each must be there.                    *)
Startable == meta[backup] \notin {NoMeta, NoFile} /\ meta[backup] \in index

\* Mutant of SelectBinlogs: the binlog that holds the snapshot's position is left out.
SelectBinlogsAfterStart ==
  /\ step = "select"
  /\ IF Startable /\ {f \in index : f > meta[backup]} \subseteq Copied
     THEN /\ selected' = {f \in index : f > meta[backup]}
          /\ step' = "target"
          /\ UNCHANGED <<backup, mode, target, base, data, relay, until, thread, outcome>>
     ELSE Die

SelectBinlogs ==
  /\ step = "select"
  /\ IF Startable /\ {f \in index : f >= meta[backup]} \subseteq Copied
     THEN /\ selected' = {f \in index : f >= meta[backup]}
          /\ step' = "target"
          /\ UNCHANGED <<backup, mode, target, base, data, relay, until, thread, outcome>>
     ELSE Die

Sorted(S)  == CHOOSE q \in [1 .. Cardinality(S) -> S] : \A i, j \in DOMAIN q : i < j => q[i] < q[j]
Events(f)  == [i \in 1 .. Cardinality(copy[f]) |-> [gtid |-> Sorted(copy[f])[i], ts |-> Sorted(copy[f])[i]]]
Scanned    == [i \in 1 .. Cardinality(selected) |-> Events(Sorted(selected)[i])]

\* Mutant of PickTarget: the scan runs one second too far.
PickTargetLate ==
  /\ step = "target"
  /\ IF mode = "time" /\ ~ selected \subseteq Copied THEN Die
     ELSE IF mode = "time" /\ FindGtidByTime(Scanned, target + 1) = NoGtid THEN Succeed
     ELSE /\ until' = IF mode = "gtid" THEN target ELSE FindGtidByTime(Scanned, target + 1)
          /\ step' = "copy"
          /\ UNCHANGED <<backup, mode, target, base, data, selected, relay, thread, outcome>>

(* A time becomes the last transaction found before it; with none found the  *)
(* PITR phase ends well with nothing applied.                                *)
PickTarget ==
  /\ step = "target"
  /\ IF mode = "gtid"
     THEN /\ until' = target
          /\ step' = "copy"
          /\ UNCHANGED <<backup, mode, target, base, data, selected, relay, thread, outcome>>
     ELSE IF ~ selected \subseteq Copied THEN Die
     ELSE IF FindGtidByTime(Scanned, target) = NoGtid THEN Succeed
     ELSE /\ until' = FindGtidByTime(Scanned, target)
          /\ step' = "copy"
          /\ UNCHANGED <<backup, mode, target, base, data, selected, relay, thread, outcome>>

CopyToRelay ==
  /\ step = "copy"
  /\ IF selected \subseteq Copied
     THEN /\ relay' = UNION {copy[f] : f \in selected}
          /\ step' = "start"
          /\ UNCHANGED <<backup, mode, target, base, data, selected, until, thread, outcome>>
     ELSE Die

\* Mutant of AfterGtids: the GTID found by time is used as it is.
AfterGtidsSingle == {GNO[until]}

(* SQL_AFTER_GTIDS is one GTID when the operator gave it, and 1 up to its    *)
(* number when it was found by time.  It is reached when every GTID of the   *)
(* set has been executed.                                                    *)
AfterGtids ==
  IF mode = "gtid" THEN {GNO[until]} ELSE 1 .. GNO[until]

\* Mutant of Reached: the SQL thread is started without UNTIL.
ReachedNever(d) == FALSE

Reached(d) == AfterGtids \subseteq {GNO[t] : t \in d}

StartSqlThread ==
  /\ step = "start"
  /\ thread' = IF Reached(data) THEN "stopped" ELSE "running"
  /\ step' = "wait"
  /\ UNCHANGED <<backup, mode, target, base, data, selected, relay, until, outcome>>

(* The SQL thread reads the relay logs in order and skips what has been      *)
(* executed.                                                                 *)
Apply ==
  /\ thread = "running" /\ relay \ data # {}
  /\ LET t == Least(relay \ data) IN
       /\ data' = data \cup {t}
       /\ thread' = IF Reached(data \cup {t}) THEN "stopped" ELSE "running"
  /\ UNCHANGED <<step, backup, mode, target, base, selected, relay, until, outcome>>

ApplyError ==
  /\ thread = "running" /\ "apply" \in RestoreFaults
  /\ thread' = "stopped"
  /\ UNCHANGED <<step, backup, mode, target, base, data, selected, relay, until, outcome>>

(* The source has no host, so that SHOW REPLICA STATUS is empty and a thread *)
(* that is gone counts as finished.                                          *)
ThreadGone ==
  /\ step = "wait" /\ thread = "stopped"
  /\ Succeed

\* Mutant of WaitTimeout: the loop gives up without an error.
WaitTimeoutReturns ==
  /\ step = "wait" /\ thread = "running"
  /\ Succeed

\* Mutant of WaitTimeout: the loop goes on while the SQL thread lives.
WaitTimeoutNever ==
  /\ step = "wait" /\ thread = "none"
  /\ Die

WaitTimeout ==
  /\ step = "wait" /\ thread = "running"
  /\ Die

RestoreInit ==
  /\ step = "idle" /\ backup = 0 /\ mode = "gtid" /\ target = 0
  /\ base = 0 /\ data = {} /\ selected = {} /\ relay = {} /\ until = 0
  /\ thread = "none" /\ outcome = "none"

RestoreStep ==
  \/ SelectBinlogs \/ PickTarget \/ CopyToRelay \/ StartSqlThread
  \/ Apply \/ ThreadGone \/ WaitTimeout

AllInit == Init /\ RestoreInit

(* The backups are followed until the recovery is over.                      *)
AllNext ==
  \/ step # "done" /\ Next /\ UNCHANGED recovery
  \/ (RestoreClone \/ RestoreStep \/ ApplyError) /\ UNCHANGED vars

AllSpec     == AllInit /\ [][AllNext]_allvars
AllFairSpec == AllSpec /\ WF_allvars(RestoreStep /\ UNCHANGED vars)
-----------------------------------------------------------------------------
History == {1 .. n : n \in 0 .. Committed}
Success  == outcome = "success"
Latest(t, u) == IF t > u THEN t ELSE u

(* A recovery that reports success yields the state the server had at some   *)
(* moment: the clone and the binlogs applied to it leave out nothing.        *)
RecoveredIsPrefix == Success => data \in History

(* A recovery to a time that reports success leaves out nothing, even when   *)
(* the archive has holes or incomplete copies or the snapshot's position is  *)
(* wrong: a set 1 up to n is only reached when everything before n is there. *)
TimeRecoveryIsPrefix == Success /\ mode = "time" => data \in History

(* A recovery to a GTID that reports success has executed it.                *)
GtidReached == Success /\ mode = "gtid" => target \in data

(* Beyond what the clone holds, no transaction after the target is in a      *)
(* recovery that reports success.                                            *)
SuccessNotPastTarget == Success => data \subseteq 1 .. Latest(base, target)

(* The same at every moment of the recovery, whatever becomes of it.         *)
NeverPastTarget == data \subseteq 1 .. Latest(base, target)

(* Every recovery ends with a verdict: a SQL thread that waits for a         *)
(* transaction no binlog has is given up.                                    *)
RecoveryEnds == (step # "idle") ~> (outcome # "none")
=============================================================================
