--------------------------- MODULE ReplicaSelection ---------------------------
(***************************************************************************)
(* Which hosts of a MySQL topology back up tonight (is_selected_replica    *)
(* and should_backup in backup_schedule.sh.j2).  Every host decides for    *)
(* itself, from what the servers answer it at that moment.                 *)
(*                                                                         *)
(* A server is a number, in the order of the names.  A view is what a host *)
(* learns: list, the replicas the primary names, in the order it names     *)
(* them; members, the servers the group lists as ONLINE SECONDARY; gtid,   *)
(* whether the primary told its gtid_executed; and by server, io and sql   *)
(* (whether its threads run), lag (Null when it says NULL or nothing) and  *)
(* missing (what GTID_SUBTRACT leaves, {} too when the query fails).       *)
(***************************************************************************)
EXTENDS Naturals, SequencesExt

CONSTANT Null           \* no lag told

NoServer == 0           \* the empty BEST_REPLICA
WorstLag == 999999

Running(view, r) == view.io[r] /\ view.sql[r]

Lag(view, r) ==
  IF view.gtid /\ view.missing[r] = {} THEN 0
  ELSE IF view.lag[r] = Null THEN WorstLag ELSE view.lag[r]

\* Mutant of Better: of two with the same lag the later one in the list is taken.
BetterOrLater(view, r, best) == best = NoServer \/ Lag(view, r) <= Lag(view, best)

Better(view, r, best) ==
  \/ best = NoServer
  \/ Lag(view, r) < Lag(view, best)
  \/ Lag(view, r) = Lag(view, best) /\ r < best

Consider(view, best, r) == IF Running(view, r) /\ Better(view, r, best) THEN r ELSE best

BestReplica(view) == FoldLeft(LAMBDA best, r : Consider(view, best, r), NoServer, view.list)

(* A preferred host is the one, wherever it stands;  in a group it is the    *)
(* first of the secondaries that are online.                                 *)
SelectedReplica(view, topology, preferred) ==
  IF preferred # NoServer THEN preferred
  ELSE IF topology = "ms" THEN BestReplica(view)
  ELSE IF topology \in {"mgr", "mic"} /\ view.members # {}
  THEN CHOOSE m \in view.members : \A n \in view.members : m <= n
  ELSE NoServer

ShouldBackup(h, role, scope, view, topology, preferred) ==
  CASE scope = "primary_only" -> role = "primary"
    [] scope = "selected"     -> preferred = h
    [] scope = "replica_all"  -> role = "replica"
    [] scope = "replica_one"  -> role = "replica" /\ SelectedReplica(view, topology, preferred) = h
    [] scope = "all"          -> TRUE
=============================================================================
