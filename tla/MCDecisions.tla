------------------------------ MODULE MCDecisions ------------------------------
(***************************************************************************)
(* The decisions that are algorithms, on all small inputs: the search of a *)
(* transaction by time, the hosts that back up tonight, the phases of a    *)
(* cluster restore.  Init draws an input.  The search and the plan are     *)
(* made once;  the hosts decide in any order.                              *)
(***************************************************************************)
EXTENDS BinlogScan, ReplicaSelection, RestorePlan, FiniteSets, Functions

CONSTANTS
  MaxFiles, MaxEvents, MaxStamp,   \* bounds of the search
  Replica,                         \* the replicas of a primary
  Database, Name                   \* of the objects in a cluster backup

ASSUME NamesAssumption == All \notin Database \cup Name

ASSUME BoundsAssumption == MaxFiles \in Nat /\ MaxEvents \in Nat /\ MaxStamp \in Nat

Primary == 9

ASSUME ReplicaAssumption ==
  IsFiniteSet(Replica) /\ Replica \subseteq Nat \ {NoServer, Primary} /\ Null \notin Nat

VARIABLES input, output, todo

vars == <<input, output, todo>>

(***************************************************************************)
(* Lists of binlogs.                                                       *)
(***************************************************************************)
Stamp == 0 .. MaxStamp

(* The shape of a file: which of its events open a transaction, and when.    *)
Shape == BoundedSeq([opens : BOOLEAN, ts : Stamp], MaxEvents)

(* Positions <<file, event>>, in the order of the files.                     *)
Positions(files) == UNION {{i} \X DOMAIN files[i] : i \in DOMAIN files}
UpTo(p, q)       == p[1] < q[1] \/ (p[1] = q[1] /\ p[2] <= q[2])

(* GTIDs are numbered through all the files.                                 *)
Opened(shapes, q) == {p \in Positions(shapes) : UpTo(p, q) /\ shapes[p[1]][p[2]].opens}
Number(shapes) ==
  [i \in DOMAIN shapes |->
     [j \in DOMAIN shapes[i] |->
        [ts   |-> shapes[i][j].ts,
         gtid |-> IF shapes[i][j].opens THEN Cardinality(Opened(shapes, <<i, j>>)) ELSE NoGtid]]]

ScanInit ==
  /\ input \in [kind : {"scan"}, files : {Number(shapes) : shapes \in BoundedSeq(Shape, MaxFiles)},
                target : Stamp]
  /\ output = NoGtid /\ todo = {"scan"}

Find ==
  /\ input.kind = "scan" /\ todo # {} /\ todo' = {}
  /\ output' = FindGtidByTime(input.files, input.target)
  /\ UNCHANGED input

(***************************************************************************)
(* States of a topology.  Nothing changes while the hosts decide, but the  *)
(* primary may name its replicas to each of them in an order of its own.   *)
(***************************************************************************)
Order   == {l \in [1 .. Cardinality(Replica) -> Replica] : IsInjective(l)}

SelectInit ==
  /\ input \in [kind : {"select"}, topology : {"ms", "mgr"}, scope : {"primary_only", "replica_one"},
                io : [Replica -> BOOLEAN], sql : {[r \in Replica |-> TRUE]}, gtid : BOOLEAN,
                lag : [Replica -> {Null, 0, 1}], missing : [Replica -> {{}, {1}}],
                members : SUBSET Replica]
  /\ input.topology = "ms" <=> input.members = {}
  /\ output = {} /\ todo = Replica \cup {Primary}

View(order) == [list |-> order, members |-> input.members, gtid |-> input.gtid, io |-> input.io,
                sql |-> input.sql, lag |-> input.lag, missing |-> input.missing]

Decide(h) ==
  /\ input.kind = "select" /\ h \in todo /\ todo' = todo \ {h}
  /\ \E order \in Order :
       output' = IF ShouldBackup(h, IF h = Primary THEN "primary" ELSE "replica", input.scope,
                                 View(order), input.topology, NoServer)
                 THEN output \cup {h} ELSE output
  /\ UNCHANGED input

(***************************************************************************)
(* Backups and clauses.                                                    *)
(***************************************************************************)
Object == [db : Database, name : Name, kind : {"table", "mv", "other"}]
Backup == {B \in SUBSET Object : \A o, p \in B : Item(o) = Item(p) => o = p}
Clause == {{[db |-> All, name |-> All]}}
          \cup ((SUBSET [db : Database, name : Name \cup {All}]) \ {{}})

PlanInit ==
  /\ input \in [kind : {"plan"}, backup : Backup, clause : Clause, compat : BOOLEAN, strict : BOOLEAN]
  /\ output = << >> /\ todo = {"plan"}

MakePlan ==
  /\ input.kind = "plan" /\ todo # {} /\ todo' = {}
  /\ output' = Plan(input.backup, input.clause, input.compat, input.strict)
  /\ UNCHANGED input

-----------------------------------------------------------------------------
Init == ScanInit \/ SelectInit \/ PlanInit
Next == Find \/ MakePlan \/ \E h \in Replica \cup {Primary} : Decide(h)
Spec == Init /\ [][Next]_vars

Decided(kind) == input.kind = kind /\ todo = {}

At(p)   == input.files[p[1]][p[2]]
InOrder == \A p, q \in Positions(input.files) : UpTo(p, q) => At(p).ts <= At(q).ts
Before  == {p \in Positions(input.files) : At(p).gtid # NoGtid /\ At(p).ts <= input.target}

(* When timestamps follow the commit order the scan finds the last           *)
(* transaction at or before the target, wherever the files are cut.          *)
FindsLastBefore ==
  Decided("scan") /\ InOrder =>
    /\ \A p \in Before : At(p).gtid <= output
    /\ output = NoGtid \/ \E p \in Before : At(p).gtid = output

Eligible == IF input.scope = "primary_only" THEN {Primary}
            ELSE IF input.topology = "ms" THEN {r \in Replica : Running(input, r)}
            ELSE input.members

(* As long as nothing changes while they decide, exactly one host backs up   *)
(* when one can, whatever the order in which each sees the replicas, and no  *)
(* replica that could have is less behind.                                   *)
OneBacksUp ==
  Decided("select") =>
    /\ output \subseteq Eligible /\ Cardinality(output) = IF Eligible = {} THEN 0 ELSE 1
    /\ input.scope = "replica_one" /\ input.topology = "ms" =>
         \A b \in output, r \in Eligible : Lag(input, b) <= Lag(input, r)

(* When the clause names databases only or objects only, and none of another *)
(* kind, the phases the play does not refuse restore what it names, each     *)
(* object once, and no view before a table or with one.                      *)
PlanIsWhole ==
  Decided("plan") /\ output # << >> /\ Pure(input.clause)
  /\ (\A o \in Restored(input.backup, input.clause) : o.kind # "other")
  => PhasesWhole(input.backup, input.clause, input.compat, output)
=============================================================================
