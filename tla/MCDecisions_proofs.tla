--------------------------- MODULE MCDecisions_proofs ---------------------------
(***************************************************************************)
(* Proofs about the decisions, for inputs of any size: the scan of binlogs *)
(* for a time, the hosts that back up, the phases of a cluster restore.    *)
(* The two loops are folds, and LeftFold says what a fold computes.        *)
(***************************************************************************)
EXTENDS MCDecisions, SequenceTheorems, FiniteSetTheorems, TLAPS

(* A clause without databases beside objects has the objects of a kind       *)
(* scanned that RESTORE would bring back.                                    *)
LEMMA ScanIsRestored ==
  ASSUME NEW backup \in Backup, NEW clause \in Clause, Pure(clause), NEW kind
  PROVE  Scan(backup, clause, kind) = {o \in Restored(backup, clause) : o.kind = kind}
<1>0. \A o \in backup : o.db \in Database /\ o.name \in Name /\ o.db # All /\ o.name # All
  BY NamesAssumption DEF Backup, Object
<1>1. CASE clause = {[db |-> All, name |-> All]}
  <2>1. Tables(clause) = {} /\ Databases(clause) = {}
    BY <1>1 DEF Tables, Databases
  <2>2. \A o \in backup : Names(clause, o)
    BY <1>1 DEF Names
  <2> QED
    BY <2>1, <2>2 DEF Scan, Restored
<1>2. CASE clause \subseteq [db : Database, name : Name \cup {All}] /\ clause # {}
  <2>1. \A i \in clause : /\ i.db \in Database /\ i.db # All /\ i.name \in Name \cup {All}
                          /\ i = [db |-> i.db, name |-> i.name]
    BY <1>2, NamesAssumption
  <2>2. CASE Databases(clause) = {}
    <3>1. \A i \in clause : i.name # All
      BY <2>1, <2>2 DEF Databases, Tables
    <3>2. Tables(clause) = clause
      BY <3>1 DEF Tables
    <3>3. \A o \in backup : Item(o) \in clause => Names(clause, o)
      BY <1>0 DEF Names, Item
    <3>4. ASSUME NEW o \in backup, Names(clause, o) PROVE Item(o) \in clause
      <4>1. PICK i \in clause : i.db \in {All, o.db} /\ i.name \in {All, o.name}
        BY <3>4 DEF Names
      <4>2. i = [db |-> o.db, name |-> o.name]
        BY <2>1, <3>1, <4>1
      <4> QED
        BY <4>1, <4>2 DEF Item
    <3> QED
      BY <1>2, <3>2, <3>3, <3>4 DEF Scan, Restored
  <2>3. CASE Tables(clause) = {}
    <3>1. \A i \in clause : i.name = All
      BY <2>3 DEF Tables
    <3>2. Databases(clause) = {i.db : i \in clause}
      BY <2>1, <2>3 DEF Databases
    <3>3. \A o \in backup : Names(clause, o) <=> o.db \in Databases(clause)
      BY <1>0, <2>1, <3>1, <3>2 DEF Names
    <3>4. Databases(clause) # {}
      BY <1>2, <3>2
    <3> QED
      BY <2>3, <3>3, <3>4 DEF Scan, Restored
  <2> QED
    BY <2>2, <2>3 DEF Pure
<1>3. \/ clause \in {{[db |-> All, name |-> All]}}
      \/ clause \in (SUBSET [db : Database, name : Name \cup {All}]) /\ clause \notin {{}}
  BY Zenon DEF Clause
<1> QED
  BY <1>1, <1>2, <1>3

(* Named one by one, objects of the backup are what RESTORE brings back.     *)
LEMMA ItemsRestore ==
  ASSUME NEW backup \in Backup, NEW S \in SUBSET backup
  PROVE  Restored(backup, {Item(o) : o \in S}) = S
<1>1. \A o, p \in backup : Item(o) = Item(p) => o = p
  BY DEF Backup
<1>2. \A o \in backup : o.db # All /\ o.name # All
  BY NamesAssumption DEF Backup, Object
<1>3. ASSUME NEW o \in backup
      PROVE  Names({Item(q) : q \in S}, o) <=> o \in S
  <2>1. ASSUME o \in S PROVE Names({Item(q) : q \in S}, o)
    <3>1. Item(o) \in {Item(q) : q \in S} /\ Item(o).db = o.db /\ Item(o).name = o.name
      BY <2>1 DEF Item
    <3> QED
      BY <3>1 DEF Names
  <2>2. ASSUME Names({Item(q) : q \in S}, o) PROVE o \in S
    <3>1. PICK q \in S : Item(q).db \in {All, o.db} /\ Item(q).name \in {All, o.name}
      BY <2>2 DEF Names
    <3>2. Item(q) = Item(o)
      BY <1>2, <3>1 DEF Item
    <3> QED
      BY <1>1, <3>2
  <2> QED
    BY <2>1, <2>2
<1> QED
  BY <1>3 DEF Restored

LEMMA PlanRestoresAll ==
  ASSUME NEW backup \in Backup, NEW clause \in Clause, NEW compat \in BOOLEAN, NEW strict \in BOOLEAN,
         Pure(clause), \A o \in Restored(backup, clause) : o.kind # "other",
         Plan(backup, clause, compat, strict) # << >>
  PROVE  PhasesWhole(backup, clause, compat, Plan(backup, clause, compat, strict))
<1> DEFINE all    == Restored(backup, clause)
           mvs    == Scan(backup, clause, "mv")
           tables == Scan(backup, clause, "table")
           views  == {Item(o) : o \in mvs}
           rest   == {Item(o) : o \in tables}
<1>1. /\ mvs = {o \in all : o.kind = "mv"} /\ tables = {o \in all : o.kind = "table"}
      /\ all \subseteq backup
  BY ScanIsRestored DEF Restored
<1>2. all = mvs \cup tables
  <2>1. \A o \in all : o.kind \in {"table", "mv"}
    BY <1>1 DEF Backup, Object
  <2> QED
    BY <1>1, <2>1
<1>3. Restored(backup, views) = mvs /\ Restored(backup, rest) = tables
  BY <1>1, ItemsRestore
<1>4. (views = {} <=> mvs = {}) /\ (rest = {} <=> tables = {})
  OBVIOUS
<1>5. \/ Plan(backup, clause, compat, strict) = <<clause>> /\ (~compat \/ views = {})
      \/ Plan(backup, clause, compat, strict) = <<views>> /\ rest = {}
      \/ Plan(backup, clause, compat, strict) = <<rest, views>>
  BY DEF Plan
<1> HIDE DEF all, mvs, tables, views, rest
<1>6. CASE Plan(backup, clause, compat, strict) = <<clause>> /\ (~compat \/ views = {})
  <2> DEFINE phases == <<clause>>
  <2>1. DOMAIN phases = {1} /\ phases[1] = clause
    OBVIOUS
  <2>2. views = {} => \A o, p \in all : p.kind = o.kind
    BY <1>1, <1>2, <1>4
  <2> HIDE DEF phases
  <2>3. PhasesWhole(backup, clause, compat, phases)
    BY <1>6, <2>1, <2>2 DEF PhasesWhole, all
  <2> QED
    BY <1>6, <2>3 DEF phases
<1>7. CASE Plan(backup, clause, compat, strict) = <<views>> /\ rest = {}
  BY <1>1, <1>2, <1>3, <1>4, <1>7 DEF PhasesWhole, all
<1>8. CASE Plan(backup, clause, compat, strict) = <<rest, views>>
  <2>1. tables \cap mvs = {}
    BY <1>1
  <2> DEFINE phases == <<rest, views>>
  <2>2. DOMAIN phases = {1, 2} /\ phases[1] = rest /\ phases[2] = views
    OBVIOUS
  <2> HIDE DEF phases
  <2>3. PhasesWhole(backup, clause, compat, phases)
    BY <1>1, <1>2, <1>3, <2>1, <2>2 DEF PhasesWhole, all
  <2> QED
    BY <1>8, <2>3 DEF phases
<1> QED
  BY <1>5, <1>6, <1>7, <1>8
-----------------------------------------------------------------------------
(* A plan that was made is the plan of the input drawn.                      *)
PlanMade ==
  input.kind = "plan" =>
    /\ input.backup \in Backup /\ input.clause \in Clause
    /\ input.compat \in BOOLEAN /\ input.strict \in BOOLEAN
    /\ todo = {} => output = Plan(input.backup, input.clause, input.compat, input.strict)

(* The phases restore what a clause names, each object once, and views last. *)
THEOREM PlansAreWhole == Spec => []PlanIsWhole
<1>1. Init => PlanMade
  <2>1. ScanInit \/ SelectInit => input.kind # "plan"
    BY DEF ScanInit, SelectInit
  <2>2. PlanInit => PlanMade
    BY DEF PlanInit, PlanMade
  <2> QED
    BY <2>1, <2>2 DEF Init, PlanMade
<1>2. PlanMade /\ [Next]_vars => PlanMade'
  <2>1. CASE Find \/ \E h \in Replica \cup {Primary} : Decide(h)
    BY <2>1 DEF Find, Decide, PlanMade
  <2>2. CASE MakePlan
    BY <2>2 DEF MakePlan, PlanMade
  <2>3. CASE UNCHANGED vars
    BY <2>3 DEF vars, PlanMade
  <2> QED
    BY <2>1, <2>2, <2>3 DEF Next
<1>3. PlanMade => PlanIsWhole
  BY PlanRestoresAll DEF PlanMade, PlanIsWhole, Decided
<1> QED
  BY <1>1, <1>2, <1>3, PTL DEF Spec
-----------------------------------------------------------------------------
ScanFold == INSTANCE LeftFold WITH Op <- ScanEvent
FileFold == INSTANCE LeftFold WITH Op <- ScanFile

Event == [gtid : Nat, ts : Nat]

\* The events of a file that open a transaction up to the target.
Hits(events, m, target) == {i \in 1 .. m : events[i].gtid # NoGtid /\ events[i].ts <= target}

\* What the scan of a file knows after its first k events.
ScanState(events, m, target, k, s) ==
  /\ s \in [last : Nat, exceeded : BOOLEAN, stop : BOOLEAN]
  /\ \A i \in Hits(events, m, target) : i <= k => events[i].gtid <= s.last
  /\ s.last = NoGtid \/ \E i \in Hits(events, m, target) : events[i].gtid = s.last
  /\ s.stop => \E i \in 1 .. m : i <= k /\ events[i].ts > target
  /\ s.exceeded => s.stop

LEMMA ScanEventState ==
  ASSUME NEW m \in Nat, NEW events \in [1 .. m -> Event], NEW target \in Nat,
         \A i, j \in 1 .. m : i <= j => events[i].ts <= events[j].ts,
         \A i, j \in 1 .. m : i <= j /\ events[j].gtid # NoGtid => events[i].gtid <= events[j].gtid,
         NEW k \in 1 .. m, NEW s, ScanState(events, m, target, k - 1, s)
  PROVE  ScanState(events, m, target, k, ScanEvent(target, s, events[k]))
<1> DEFINE e == events[k]
           t == ScanEvent(target, s, e)
           hits == Hits(events, m, target)
<1>1. e \in Event /\ e.gtid \in Nat /\ e.ts \in Nat
  BY DEF Event
<1>2. \A i \in 1 .. m : events[i].gtid \in Nat /\ events[i].ts \in Nat
  BY DEF Event
<1>3. s \in [last : Nat, exceeded : BOOLEAN, stop : BOOLEAN]
  BY DEF ScanState
<1>4. hits \subseteq 1 .. m /\ \A i \in 1 .. m : i <= k <=> i <= k - 1 \/ i = k
  BY DEF Hits
<1>5. CASE s.stop
  <2>1. t = s
    BY <1>5 DEF ScanEvent
  <2>2. PICK i \in 1 .. m : i <= k - 1 /\ events[i].ts > target
    BY <1>5 DEF ScanState
  <2>3. k \notin hits
    BY <1>2, <2>2 DEF Hits
  <2>4. \A j \in hits : j <= k => events[j].gtid <= s.last
    BY <1>4, <2>3 DEF ScanState
  <2>5. i <= k
    BY <2>2
  <2> QED
    BY <1>3, <2>1, <2>2, <2>4, <2>5 DEF ScanState
<1>6. CASE ~s.stop /\ e.ts > target
  <2>1. /\ t.last = s.last /\ t \in [last : Nat, exceeded : BOOLEAN, stop : BOOLEAN]
        /\ t.exceeded => t.stop
    <3>1. ~s.exceeded
      BY <1>6 DEF ScanState
    <3>2. \/ t = [s EXCEPT !.exceeded = TRUE, !.stop = TRUE]
          \/ t = s
          \/ t = [s EXCEPT !.stop = TRUE]
      BY <1>1, <1>6 DEF ScanEvent
    <3> HIDE DEF t
    <3> QED
      BY <1>3, <3>1, <3>2
  <2>2. k \notin hits
    BY <1>1, <1>6 DEF Hits
  <2>3. \A j \in hits : j <= k => events[j].gtid <= s.last
    BY <1>4, <2>2 DEF ScanState
  <2>4. \E i \in 1 .. m : i <= k /\ events[i].ts > target
    BY <1>6
  <2> HIDE DEF t
  <2>5. ScanState(events, m, target, k, t)
    BY <2>1, <2>3, <2>4 DEF ScanState
  <2> QED
    BY <2>5 DEF t
<1>7. CASE ~s.stop /\ e.ts <= target /\ e.gtid = NoGtid
  <2>1. t = s
    BY <1>1, <1>3, <1>7 DEF ScanEvent
  <2>2. k \notin hits
    BY <1>7 DEF Hits
  <2>3. \A j \in hits : j <= k => events[j].gtid <= s.last
    BY <1>4, <2>2 DEF ScanState
  <2> QED
    BY <1>3, <1>7, <2>1, <2>3 DEF ScanState
<1>8. CASE ~s.stop /\ e.ts <= target /\ e.gtid # NoGtid
  <2>1. t = [s EXCEPT !.last = e.gtid]
    BY <1>1, <1>3, <1>8 DEF ScanEvent
  <2>2. /\ t.last = e.gtid /\ t.stop = s.stop /\ t.exceeded = s.exceeded
        /\ t \in [last : Nat, exceeded : BOOLEAN, stop : BOOLEAN]
    BY <1>1, <1>3, <2>1
  <2>3. k \in hits
    BY <1>8 DEF Hits
  <2>4. \A j \in hits : j <= k => events[j].gtid <= e.gtid
    BY <1>4, <1>8
  <2> HIDE DEF t
  <2>5. ScanState(events, m, target, k, t)
    BY <1>8, <2>2, <2>3, <2>4 DEF ScanState
  <2> QED
    BY <2>5 DEF t
<1> QED
  BY <1>1, <1>5, <1>6, <1>7, <1>8

(* The scan of a file finds its last transaction up to the target, and has   *)
(* seen a later event when it says so.                                       *)
LEMMA ScanBinlogFinds ==
  ASSUME NEW m \in Nat, NEW events \in [1 .. m -> Event], NEW target \in Nat,
         \A i, j \in 1 .. m : i <= j => events[i].ts <= events[j].ts,
         \A i, j \in 1 .. m : i <= j /\ events[j].gtid # NoGtid => events[i].gtid <= events[j].gtid
  PROVE  ScanState(events, m, target, m, ScanBinlog(events, target))
<1>1. DOMAIN events = 1 .. m
  OBVIOUS
<1> DEFINE at(k) == ScanFold!After(target, ScanStart, events, k)
<1>2. at(0) = ScanStart
  BY <1>1, ScanFold!FoldBegins
<1>7. \A k \in 1 .. m : at(k) = ScanEvent(target, at(k - 1), events[k])
  BY <1>1, ScanFold!FoldGoesOn
<1>3. ScanBinlog(events, target) = at(m)
  <2>1. ScanBinlog(events, target) = ScanFold!Result(target, ScanStart, events)
    BY DEF ScanBinlog, FoldLeft, MapThenFoldSet, Max, ScanFold!Max, ScanFold!Result, ScanFold!Body
  <2> QED
    BY <1>1, <2>1, ScanFold!FoldEnds
<1> HIDE DEF at
<1> DEFINE Known == {k \in Nat : k <= m => ScanState(events, m, target, k, at(k))}
<1>4. 0 \in Known
  <2>1. ScanState(events, m, target, 0, ScanStart)
    BY DEF ScanState, ScanStart, Hits, NoGtid
  <2> QED
    BY <1>2, <2>1
<1>5. ASSUME NEW k \in Known PROVE k + 1 \in Known
  <2> SUFFICES ASSUME k + 1 <= m PROVE ScanState(events, m, target, k + 1, at(k + 1))
    OBVIOUS
  <2>1. k + 1 \in 1 .. m /\ (k + 1) - 1 = k
    OBVIOUS
  <2>2. ScanState(events, m, target, k, at(k))
    OBVIOUS
  <2>3. at(k + 1) = ScanEvent(target, at(k), events[k + 1])
    BY <1>7, <2>1
  <2> HIDE DEF Known
  <2>4. ScanState(events, m, target, (k + 1) - 1, at(k))
    BY <2>1, <2>2
  <2>5. ScanState(events, m, target, k + 1, ScanEvent(target, at(k), events[k + 1]))
    BY <2>1, <2>4, ScanEventState
  <2> QED
    BY <2>3, <2>5
<1>6. m \in Known
  <2>1. Known \in SUBSET Nat
    OBVIOUS
  <2> HIDE DEF Known
  <2> QED
    BY <1>4, <1>5, <2>1, ScanFold!Induction
<1> QED
  BY <1>3, <1>6

-----------------------------------------------------------------------------
\* What the search knows after the first k files.
FindState(files, target, k, s) ==
  /\ s \in [last : Nat, stop : BOOLEAN]
  /\ \A p \in Positions(files) :
       p[1] <= k /\ files[p[1]][p[2]].gtid # NoGtid /\ files[p[1]][p[2]].ts <= target => files[p[1]][p[2]].gtid <= s.last
  /\ s.last = NoGtid \/ \E p \in Positions(files) : files[p[1]][p[2]].gtid = s.last /\ files[p[1]][p[2]].ts <= target
  /\ s.stop => \E p \in Positions(files) : p[1] <= k /\ files[p[1]][p[2]].ts > target

Files(files, n) ==
  \A i \in 1 .. n : \E m \in Nat : files[i] \in [1 .. m -> Event]

Ordered(files) ==
  \A p, q \in Positions(files) :
    UpTo(p, q) => /\ files[p[1]][p[2]].ts <= files[q[1]][q[2]].ts
                  /\ files[q[1]][q[2]].gtid # NoGtid => files[p[1]][p[2]].gtid <= files[q[1]][q[2]].gtid

LEMMA Place ==
  ASSUME NEW files
  PROVE  /\ \A p \in Positions(files) : p[1] \in DOMAIN files /\ p[2] \in DOMAIN files[p[1]] /\ p = <<p[1], p[2]>>
         /\ \A i \in DOMAIN files : \A j \in DOMAIN files[i] : <<i, j>> \in Positions(files)
BY DEF Positions

LEMMA ScanFileState ==
  ASSUME NEW n \in Nat, NEW files, DOMAIN files = 1 .. n, Files(files, n), Ordered(files),
         NEW target \in Nat, NEW k \in 1 .. n, NEW s, FindState(files, target, k - 1, s)
  PROVE  FindState(files, target, k, ScanFile(target, s, files[k]))
<1>1. PICK m \in Nat : files[k] \in [1 .. m -> Event]
  BY DEF Files
<1> DEFINE events == files[k]
           found  == ScanBinlog(events, target)
           t      == ScanFile(target, s, events)
           Ev(p)  == files[p[1]][p[2]]
<1>2. DOMAIN events = 1 .. m /\ \A j \in 1 .. m : <<k, j>> \in Positions(files)
  BY <1>1, Place
<1>3. \A p \in Positions(files) :
        /\ p[1] \in 1 .. n /\ Ev(p) \in Event /\ Ev(p).ts \in Nat /\ Ev(p).gtid \in Nat
        /\ p[1] <= k <=> p[1] <= k - 1 \/ p[1] = k
        /\ p[1] = k => p[2] \in 1 .. m /\ Ev(p) = events[p[2]]
  <2> SUFFICES ASSUME NEW p \in Positions(files)
               PROVE  /\ p[1] \in 1 .. n /\ Ev(p) \in Event /\ Ev(p).ts \in Nat /\ Ev(p).gtid \in Nat
                      /\ p[1] <= k <=> p[1] <= k - 1 \/ p[1] = k
                      /\ p[1] = k => p[2] \in 1 .. m /\ Ev(p) = events[p[2]]
    OBVIOUS
  <2>1. p[1] \in 1 .. n /\ p[2] \in DOMAIN files[p[1]]
    BY Place
  <2>2. PICK l \in Nat : files[p[1]] \in [1 .. l -> Event]
    BY <2>1 DEF Files
  <2>3. Ev(p) \in Event
    BY <2>1, <2>2
  <2>4. p[1] = k => p[2] \in 1 .. m /\ Ev(p) = events[p[2]]
    BY <1>2, <2>1
  <2> QED
    BY <2>1, <2>3, <2>4 DEF Event
<1>4. s \in [last : Nat, stop : BOOLEAN]
  BY DEF FindState
<1>5. ScanState(events, m, target, m, found)
  <2>1. \A i, j \in 1 .. m : i <= j => events[i].ts <= events[j].ts
    <3> SUFFICES ASSUME NEW i \in 1 .. m, NEW j \in 1 .. m, i <= j PROVE events[i].ts <= events[j].ts
      OBVIOUS
    <3>1. UpTo(<<k, i>>, <<k, j>>)
      BY DEF UpTo
    <3> QED
      BY <1>2, <3>1 DEF Ordered
  <2>2. \A i, j \in 1 .. m : i <= j /\ events[j].gtid # NoGtid => events[i].gtid <= events[j].gtid
    <3> SUFFICES ASSUME NEW i \in 1 .. m, NEW j \in 1 .. m, i <= j, events[j].gtid # NoGtid
                 PROVE  events[i].gtid <= events[j].gtid
      OBVIOUS
    <3>1. UpTo(<<k, i>>, <<k, j>>)
      BY DEF UpTo
    <3> QED
      BY <1>2, <3>1 DEF Ordered
  <2> QED
    BY <1>1, <2>1, <2>2, ScanBinlogFinds
<1>6. CASE s.stop
  <2>1. t = s
    BY <1>6 DEF ScanFile
  <2>2. PICK q \in Positions(files) : q[1] <= k - 1 /\ Ev(q).ts > target
    BY <1>6 DEF FindState
  <2>3. ASSUME NEW p \in Positions(files), p[1] = k PROVE ~(Ev(p).ts <= target)
    <3>1. UpTo(q, p)
      BY <1>3, <2>2, <2>3 DEF UpTo
    <3>2. Ev(q).ts <= Ev(p).ts
      BY <2>3, <3>1 DEF Ordered
    <3> QED
      BY <1>3, <2>2, <3>2
  <2>4. \A p \in Positions(files) : p[1] <= k /\ Ev(p).gtid # NoGtid /\ Ev(p).ts <= target => Ev(p).gtid <= s.last
    BY <1>3, <2>3 DEF FindState
  <2>5. q[1] <= k
    BY <1>3, <2>2
  <2> QED
    BY <1>4, <2>1, <2>2, <2>4, <2>5 DEF FindState
<1>7. CASE ~s.stop
  <2> DEFINE last == IF found.last # NoGtid THEN found.last ELSE s.last
  <2>1. t = [last |-> last, stop |-> found.exceeded /\ last # NoGtid]
    BY <1>7 DEF ScanFile
  <2>2. found \in [last : Nat, exceeded : BOOLEAN, stop : BOOLEAN]
    BY <1>5 DEF ScanState
  <2>3. t \in [last : Nat, stop : BOOLEAN] /\ t.last = last /\ (t.stop => found.stop)
    BY <1>4, <1>5, <2>1, <2>2 DEF ScanState
  <2>4. ASSUME NEW p \in Positions(files), p[1] <= k, Ev(p).gtid # NoGtid, Ev(p).ts <= target
        PROVE  Ev(p).gtid <= last
    <3>1. CASE p[1] = k
      <4>1. p[2] \in Hits(events, m, target) /\ p[2] <= m
        BY <1>3, <2>4, <3>1 DEF Hits
      <4>2. Ev(p).gtid <= found.last
        BY <1>3, <1>5, <3>1, <4>1 DEF ScanState
      <4>3. found.last # NoGtid
        BY <1>3, <2>2, <2>4, <4>2 DEF NoGtid
      <4> QED
        BY <4>2, <4>3
    <3>2. CASE p[1] <= k - 1
      <4>1. Ev(p).gtid <= s.last
        BY <2>4, <3>2 DEF FindState
      <4>2. CASE found.last = NoGtid
        BY <4>1, <4>2
      <4>3. CASE found.last # NoGtid
        <5>1. PICK i \in Hits(events, m, target) : events[i].gtid = found.last
          BY <1>5, <4>3 DEF ScanState
        <5>2. i \in 1 .. m /\ events[i].gtid # NoGtid
          BY <4>3, <5>1 DEF Hits
        <5>3. UpTo(p, <<k, i>>)
          BY <1>3, <3>2, <5>2 DEF UpTo
        <5>4. Ev(p).gtid <= Ev(<<k, i>>).gtid
          BY <1>2, <5>2, <5>3 DEF Ordered
        <5> QED
          BY <4>3, <5>1, <5>4
      <4> QED
        BY <4>2, <4>3
    <3> QED
      BY <1>3, <2>4, <3>1, <3>2
  <2>5. last = NoGtid \/ \E p \in Positions(files) : Ev(p).gtid = last /\ Ev(p).ts <= target
    <3>1. CASE found.last # NoGtid
      <4>1. PICK i \in Hits(events, m, target) : events[i].gtid = found.last
        BY <1>5, <3>1 DEF ScanState
      <4>2. <<k, i>> \in Positions(files) /\ Ev(<<k, i>>) = events[i] /\ events[i].ts <= target
        BY <1>2, <4>1 DEF Hits
      <4> QED
        BY <3>1, <4>1, <4>2
    <3>2. CASE found.last = NoGtid
      BY <3>2 DEF FindState
    <3> QED
      BY <3>1, <3>2
  <2>6. t.stop => \E p \in Positions(files) : p[1] <= k /\ Ev(p).ts > target
    <3> SUFFICES ASSUME t.stop PROVE \E p \in Positions(files) : p[1] <= k /\ Ev(p).ts > target
      OBVIOUS
    <3>1. PICK i \in 1 .. m : events[i].ts > target
      BY <1>5, <2>3 DEF ScanState
    <3>2. <<k, i>> \in Positions(files) /\ Ev(<<k, i>>) = events[i] /\ <<k, i>>[1] = k
      BY <1>2
    <3> QED
      BY <3>1, <3>2
  <2> HIDE DEF last, t
  <2>7. FindState(files, target, k, t)
    BY <2>3, <2>4, <2>5, <2>6 DEF FindState
  <2> QED
    BY <2>7 DEF t
<1> QED
  BY <1>4, <1>6, <1>7

(* The search finds the last transaction up to the target in all the files.  *)
LEMMA FindsTheLast ==
  ASSUME NEW n \in Nat, NEW files, DOMAIN files = 1 .. n, Files(files, n), Ordered(files), NEW target \in Nat
  PROVE  \E s : FindState(files, target, n, s) /\ FindGtidByTime(files, target) = s.last
<1>0. DOMAIN files = 1 .. n
  OBVIOUS
<1> DEFINE at(k) == FileFold!After(target, FindStart, files, k)
<1>1. at(0) = FindStart
  BY <1>0, FileFold!FoldBegins
<1>6. \A k \in 1 .. n : at(k) = ScanFile(target, at(k - 1), files[k])
  BY <1>0, FileFold!FoldGoesOn
<1>2. FindGtidByTime(files, target) = at(n).last
  <2>1. FindGtidByTime(files, target) = FileFold!Result(target, FindStart, files).last
    BY DEF FindGtidByTime, FoldLeft, MapThenFoldSet, Max, FileFold!Max, FileFold!Result, FileFold!Body
  <2> QED
    BY <1>0, <2>1, FileFold!FoldEnds
<1> HIDE DEF at
<1> DEFINE Known == {k \in Nat : k <= n => FindState(files, target, k, at(k))}
<1>3. 0 \in Known
  <2>1. \A p \in Positions(files) : ~(p[1] <= 0)
    BY Place
  <2>2. FindState(files, target, 0, FindStart)
    BY <2>1 DEF FindState, FindStart, NoGtid
  <2> QED
    BY <1>1, <2>2
<1>4. ASSUME NEW k \in Known PROVE k + 1 \in Known
  <2> SUFFICES ASSUME k + 1 <= n PROVE FindState(files, target, k + 1, at(k + 1))
    OBVIOUS
  <2>1. k + 1 \in 1 .. n /\ (k + 1) - 1 = k
    OBVIOUS
  <2>2. FindState(files, target, k, at(k))
    OBVIOUS
  <2>3. at(k + 1) = ScanFile(target, at(k), files[k + 1])
    BY <1>6, <2>1
  <2> HIDE DEF Known
  <2>4. FindState(files, target, (k + 1) - 1, at(k))
    BY <2>1, <2>2
  <2>5. FindState(files, target, k + 1, ScanFile(target, at(k), files[k + 1]))
    BY <2>1, <2>4, ScanFileState
  <2> QED
    BY <2>3, <2>5
<1>5. n \in Known
  <2>1. Known \in SUBSET Nat
    OBVIOUS
  <2> HIDE DEF Known
  <2> QED
    BY <1>3, <1>4, <2>1, ScanFold!Induction
<1> QED
  BY <1>2, <1>5
-----------------------------------------------------------------------------
\* Through all the files the numbers grow.
Numbered(files) ==
  \A p, q \in Positions(files) :
    UpTo(p, q) /\ files[q[1]][q[2]].gtid # NoGtid => files[p[1]][p[2]].gtid <= files[q[1]][q[2]].gtid

LEMMA ShapesAreFiles ==
  ASSUME NEW shapes \in BoundedSeq(Shape, MaxFiles)
  PROVE  \E n \in Nat :
           /\ DOMAIN shapes = 1 .. n
           /\ \A i \in 1 .. n : \E m \in 0 .. MaxEvents : shapes[i] \in [1 .. m -> [opens : BOOLEAN, ts : Stamp]]
<1>1. PICK n \in 0 .. MaxFiles : shapes \in [1 .. n -> Shape]
  BY DEF BoundedSeq, SeqOf
<1>2. \A s \in Shape : \E m \in 0 .. MaxEvents : s \in [1 .. m -> [opens : BOOLEAN, ts : Stamp]]
  BY DEF Shape, BoundedSeq, SeqOf
<1>3. n \in Nat
  BY BoundsAssumption
<1> QED
  BY <1>1, <1>2, <1>3

LEMMA PositionsFinite ==
  ASSUME NEW shapes \in BoundedSeq(Shape, MaxFiles)
  PROVE  IsFiniteSet(Positions(shapes))
<1>1. PICK n \in Nat :
        /\ DOMAIN shapes = 1 .. n
        /\ \A i \in 1 .. n : \E m \in 0 .. MaxEvents : shapes[i] \in [1 .. m -> [opens : BOOLEAN, ts : Stamp]]
  BY ShapesAreFiles
<1>2. IsFiniteSet(1 .. n) /\ IsFiniteSet(1 .. MaxEvents)
  BY BoundsAssumption, FS_Interval
<1>3. IsFiniteSet((1 .. n) \X (1 .. MaxEvents))
  BY <1>2, FS_Product
<1>4. \A i \in 1 .. n : DOMAIN shapes[i] \subseteq 1 .. MaxEvents
  <2> SUFFICES ASSUME NEW i \in 1 .. n PROVE DOMAIN shapes[i] \subseteq 1 .. MaxEvents
    OBVIOUS
  <2>1. PICK m \in 0 .. MaxEvents : shapes[i] \in [1 .. m -> [opens : BOOLEAN, ts : Stamp]]
    BY <1>1
  <2> QED
    BY <2>1, BoundsAssumption
<1>5. Positions(shapes) \subseteq (1 .. n) \X (1 .. MaxEvents)
  BY <1>1, <1>4 DEF Positions
<1> QED
  BY <1>3, <1>5, FS_Subset

LEMMA NumbersGrow ==
  ASSUME NEW shapes \in BoundedSeq(Shape, MaxFiles)
  PROVE  /\ \E n \in Nat : DOMAIN Number(shapes) = 1 .. n /\ Files(Number(shapes), n)
         /\ Numbered(Number(shapes))
<1> DEFINE files == Number(shapes)
           Gtid(i, j) == IF shapes[i][j].opens THEN Cardinality(Opened(shapes, <<i, j>>)) ELSE NoGtid
<1>1. PICK n \in Nat :
        /\ DOMAIN shapes = 1 .. n
        /\ \A i \in 1 .. n : \E m \in 0 .. MaxEvents : shapes[i] \in [1 .. m -> [opens : BOOLEAN, ts : Stamp]]
  BY ShapesAreFiles
<1>2. \A q : IsFiniteSet(Opened(shapes, q)) /\ Cardinality(Opened(shapes, q)) \in Nat
  <2> SUFFICES ASSUME NEW q PROVE IsFiniteSet(Opened(shapes, q)) /\ Cardinality(Opened(shapes, q)) \in Nat
    OBVIOUS
  <2>1. Opened(shapes, q) \in SUBSET Positions(shapes)
    BY DEF Opened
  <2>2. IsFiniteSet(Opened(shapes, q))
    BY <2>1, PositionsFinite, FS_Subset
  <2> QED
    BY <2>2, FS_CardinalityType
<1>3. /\ DOMAIN files = 1 .. n
      /\ \A i \in 1 .. n : files[i] = [j \in DOMAIN shapes[i] |-> [ts |-> shapes[i][j].ts, gtid |-> Gtid(i, j)]]
  BY <1>1 DEF Number
<1> HIDE DEF files
<1>4. Positions(files) = Positions(shapes)
  <2>1. DOMAIN files = DOMAIN shapes /\ \A i \in DOMAIN shapes : DOMAIN files[i] = DOMAIN shapes[i]
    BY <1>1, <1>3
  <2> QED
    BY <2>1 DEF Positions
<1>5. Files(files, n)
  <2> SUFFICES ASSUME NEW i \in 1 .. n PROVE \E m \in Nat : files[i] \in [1 .. m -> Event]
    BY DEF Files
  <2>1. PICK m \in 0 .. MaxEvents : shapes[i] \in [1 .. m -> [opens : BOOLEAN, ts : Stamp]]
    BY <1>1
  <2>2. \A j \in 1 .. m : [ts |-> shapes[i][j].ts, gtid |-> Gtid(i, j)] \in Event
    <3> SUFFICES ASSUME NEW j \in 1 .. m PROVE [ts |-> shapes[i][j].ts, gtid |-> Gtid(i, j)] \in Event
      OBVIOUS
    <3>1. Gtid(i, j) \in Nat
      BY <1>2 DEF NoGtid
    <3>2. shapes[i][j].ts \in Nat
      BY <2>1, BoundsAssumption DEF Stamp
    <3> HIDE DEF Gtid
    <3> QED
      BY <3>1, <3>2 DEF Event
  <2>3. files[i] = [j \in 1 .. m |-> [ts |-> shapes[i][j].ts, gtid |-> Gtid(i, j)]]
    <3>1. DOMAIN shapes[i] = 1 .. m
      BY <2>1
    <3> HIDE DEF Gtid
    <3> QED
      BY <1>3, <3>1
  <2>4. m \in Nat
    BY BoundsAssumption
  <2> HIDE DEF Gtid
  <2> QED
    BY <2>2, <2>3, <2>4
<1>6. \A p \in Positions(shapes) :
        files[p[1]][p[2]].gtid = IF shapes[p[1]][p[2]].opens THEN Cardinality(Opened(shapes, p)) ELSE NoGtid
  <2> SUFFICES ASSUME NEW p \in Positions(shapes)
               PROVE  files[p[1]][p[2]].gtid = IF shapes[p[1]][p[2]].opens THEN Cardinality(Opened(shapes, p)) ELSE NoGtid
    OBVIOUS
  <2>1. p[1] \in 1 .. n /\ p[2] \in DOMAIN shapes[p[1]] /\ p = <<p[1], p[2]>>
    BY <1>1, Place
  <2>2. files[p[1]][p[2]].gtid = Gtid(p[1], p[2])
    <3> HIDE DEF Gtid
    <3> QED
      BY <1>3, <2>1
  <2> QED
    BY <2>1, <2>2
<1>7. ASSUME NEW p \in Positions(shapes), NEW q \in Positions(shapes), UpTo(p, q), files[q[1]][q[2]].gtid # NoGtid
      PROVE  files[p[1]][p[2]].gtid <= files[q[1]][q[2]].gtid
  <2>1. files[q[1]][q[2]].gtid = Cardinality(Opened(shapes, q))
    BY <1>6, <1>7
  <2>2. CASE ~shapes[p[1]][p[2]].opens
    BY <1>2, <1>6, <2>1, <2>2 DEF NoGtid
  <2>3. CASE shapes[p[1]][p[2]].opens
    <3>1. \A r \in Positions(shapes) : r[1] \in Nat /\ r[2] \in Nat
      <4> SUFFICES ASSUME NEW r \in Positions(shapes) PROVE r[1] \in Nat /\ r[2] \in Nat
        OBVIOUS
      <4>1. r[1] \in 1 .. n /\ r[2] \in DOMAIN shapes[r[1]]
        BY <1>1, Place
      <4>2. PICK m \in 0 .. MaxEvents : shapes[r[1]] \in [1 .. m -> [opens : BOOLEAN, ts : Stamp]]
        BY <1>1, <4>1
      <4> QED
        BY <4>1, <4>2
    <3>2. \A r \in Positions(shapes) : UpTo(r, p) => UpTo(r, q)
      BY <1>7, <3>1 DEF UpTo
    <3>3. Opened(shapes, p) \in SUBSET Opened(shapes, q)
      BY <3>2 DEF Opened
    <3>4. Cardinality(Opened(shapes, p)) <= Cardinality(Opened(shapes, q))
      BY <1>2, <3>3, FS_Subset
    <3> QED
      BY <1>6, <2>1, <2>3, <3>4
  <2> QED
    BY <2>2, <2>3
<1>8. Numbered(files)
  BY <1>4, <1>7 DEF Numbered
<1> QED
  BY <1>3, <1>5, <1>8 DEF files

\* A search that was made is the search of the input drawn.
ScanMade ==
  input.kind = "scan" =>
    /\ \E n \in Nat : DOMAIN input.files = 1 .. n /\ Files(input.files, n)
    /\ Numbered(input.files) /\ input.target \in Nat
    /\ todo = {} => output = FindGtidByTime(input.files, input.target)

(* The search by time finds the last transaction at or before the target, in *)
(* any number of files of any number of events, wherever they are cut, when  *)
(* timestamps follow the commit order.                                       *)
THEOREM SearchesFindLast == Spec => []FindsLastBefore
<1>1. Init => ScanMade
  <2>1. SelectInit \/ PlanInit => input.kind # "scan"
    BY DEF SelectInit, PlanInit
  <2>2. ASSUME ScanInit PROVE ScanMade
    <3>1. PICK shapes \in BoundedSeq(Shape, MaxFiles) : input.files = Number(shapes)
      BY <2>2 DEF ScanInit
    <3>2. input.target \in Nat /\ todo # {}
      BY <2>2, BoundsAssumption DEF ScanInit, Stamp
    <3> QED
      BY <3>1, <3>2, NumbersGrow DEF ScanMade
  <2> QED
    BY <2>1, <2>2 DEF Init, ScanMade
<1>2. ScanMade /\ [Next]_vars => ScanMade'
  <2>1. CASE MakePlan \/ \E h \in Replica \cup {Primary} : Decide(h)
    BY <2>1 DEF MakePlan, Decide, ScanMade
  <2>2. CASE Find
    BY <2>2 DEF Find, ScanMade
  <2>3. CASE UNCHANGED vars
    BY <2>3 DEF vars, ScanMade
  <2> QED
    BY <2>1, <2>2, <2>3 DEF Next
<1>3. ScanMade => FindsLastBefore
  <2> SUFFICES ASSUME ScanMade, Decided("scan"), InOrder
               PROVE  /\ \A p \in Before : At(p).gtid <= output
                      /\ output = NoGtid \/ \E p \in Before : At(p).gtid = output
    BY DEF FindsLastBefore
  <2> DEFINE files == input.files
  <2>1. /\ \E n \in Nat : DOMAIN files = 1 .. n /\ Files(files, n)
        /\ Numbered(files) /\ input.target \in Nat /\ output = FindGtidByTime(files, input.target)
    BY DEF ScanMade, Decided
  <2>2. Ordered(files)
    BY <2>1 DEF Ordered, Numbered, InOrder, At
  <2>3. PICK n \in Nat : DOMAIN files = 1 .. n /\ Files(files, n)
    BY <2>1
  <2>4. PICK s : FindState(files, input.target, n, s) /\ output = s.last
    BY <2>1, <2>2, <2>3, FindsTheLast
  <2>5. \A p \in Positions(files) : p[1] <= n
    BY <2>3, Place
  <2> HIDE DEF files
  <2>6. \A p \in Positions(files) :
          files[p[1]][p[2]].gtid # NoGtid /\ files[p[1]][p[2]].ts <= input.target => files[p[1]][p[2]].gtid <= output
    BY <2>4, <2>5 DEF FindState
  <2>7. output = NoGtid \/ \E p \in Positions(files) : files[p[1]][p[2]].gtid = output /\ files[p[1]][p[2]].ts <= input.target
    BY <2>4 DEF FindState
  <2> QED
    BY <2>6, <2>7 DEF Before, At, files
<1> QED
  BY <1>1, <1>2, <1>3, PTL DEF Spec
-----------------------------------------------------------------------------
RankFold == INSTANCE LeftFold WITH Op <- Consider

\* A replica is preferred to another by its lag, then by its name.
Ahead(view, r, q) == Lag(view, r) < Lag(view, q) \/ (Lag(view, r) = Lag(view, q) /\ r <= q)

\* What the loop over the replicas knows after the first k of them.
RankState(view, n, list, k, best) ==
  /\ best = NoServer \/ \E i \in 1 .. n : i <= k /\ list[i] = best /\ Running(view, best)
  /\ \A i \in 1 .. n : i <= k /\ Running(view, list[i]) => best # NoServer /\ Ahead(view, best, list[i])

LEMMA ConsiderState ==
  ASSUME NEW view, \A r \in Replica : Lag(view, r) \in Nat, NEW n \in Nat, NEW list \in [1 .. n -> Replica],
         NEW k \in 1 .. n, NEW best, RankState(view, n, list, k - 1, best)
  PROVE  RankState(view, n, list, k, Consider(view, best, list[k]))
<1> DEFINE r == list[k]
           b == Consider(view, best, r)
<1>1. r \in Replica /\ r \in Nat /\ r # NoServer /\ Lag(view, r) \in Nat
  BY ReplicaAssumption
<1>2. best = NoServer \/ (best \in Replica /\ best \in Nat /\ Lag(view, best) \in Nat)
  BY ReplicaAssumption DEF RankState
<1>3. \A i \in 1 .. n : (i <= k <=> i <= k - 1 \/ i = k)
                        /\ list[i] \in Nat /\ list[i] # NoServer /\ Lag(view, list[i]) \in Nat
  <2>1. \A i \in 1 .. n : list[i] \in Replica /\ (i <= k <=> i <= k - 1 \/ i = k)
    OBVIOUS
  <2> QED
    BY <2>1, ReplicaAssumption
<1>4. CASE ~Running(view, r) \/ ~Better(view, r, best)
  <2>1. b = best
    BY <1>4 DEF Consider
  <2>2. Running(view, r) => best # NoServer /\ Ahead(view, best, r)
    BY <1>1, <1>2, <1>4 DEF Better, Ahead
  <2> HIDE DEF b
  <2>3. best = NoServer \/ \E i \in 1 .. n : i <= k /\ list[i] = best /\ Running(view, best)
    BY <1>3 DEF RankState
  <2>4. \A i \in 1 .. n : i <= k /\ Running(view, list[i]) => best # NoServer /\ Ahead(view, best, list[i])
    BY <1>3, <2>2 DEF RankState
  <2>5. RankState(view, n, list, k, b)
    BY <2>1, <2>3, <2>4 DEF RankState
  <2> QED
    BY <2>5 DEF b
<1>5. CASE Running(view, r) /\ Better(view, r, best)
  <2>1. b = r
    BY <1>5 DEF Consider
  <2>2. Ahead(view, r, r)
    BY <1>1 DEF Ahead
  <2>3. ASSUME NEW i \in 1 .. n, i <= k - 1, Running(view, list[i]) PROVE Ahead(view, r, list[i])
    <3>1. best # NoServer /\ Ahead(view, best, list[i])
      BY <2>3 DEF RankState
    <3> QED
      BY <1>1, <1>2, <1>3, <1>5, <3>1 DEF Better, Ahead
  <2>4. \A i \in 1 .. n : i <= k /\ Running(view, list[i]) => r # NoServer /\ Ahead(view, r, list[i])
    BY <1>1, <1>3, <2>2, <2>3
  <2>5. RankState(view, n, list, k, r)
    BY <1>5, <2>4 DEF RankState
  <2> QED
    BY <2>1, <2>5
<1> QED
  BY <1>4, <1>5

(* In whatever order a host sees the replicas, it takes the one that runs    *)
(* and is ahead of all that run.                                             *)
LEMMA BestIsAhead ==
  ASSUME NEW view, \A r \in Replica : Lag(view, r) \in Nat, view.list \in Order
  PROVE  /\ BestReplica(view) = NoServer \/ (BestReplica(view) \in Replica /\ Running(view, BestReplica(view)))
         /\ \A r \in Replica : Running(view, r) => /\ BestReplica(view) # NoServer
                                                   /\ Ahead(view, BestReplica(view), r)
<1> DEFINE list == view.list
           n    == Cardinality(Replica)
           at(k) == RankFold!After(view, NoServer, list, k)
<1>1. n \in Nat
  BY ReplicaAssumption, FS_CardinalityType
<1>2. list \in [1 .. n -> Replica] /\ DOMAIN list = 1 .. n
  BY DEF Order
<1>3. at(0) = NoServer
  BY <1>1, <1>2, RankFold!FoldBegins
<1>4. \A k \in 1 .. n : at(k) = Consider(view, at(k - 1), list[k])
  BY <1>1, <1>2, RankFold!FoldGoesOn
<1>5. BestReplica(view) = at(n)
  <2>1. BestReplica(view) = RankFold!Result(view, NoServer, list)
    BY DEF BestReplica, FoldLeft, MapThenFoldSet, Max, RankFold!Max, RankFold!Result, RankFold!Body
  <2> QED
    BY <1>1, <1>2, <2>1, RankFold!FoldEnds
<1> HIDE DEF at, n
<1> DEFINE Known == {k \in Nat : k <= n => RankState(view, n, list, k, at(k))}
<1>6. 0 \in Known
  <2>1. \A i \in 1 .. n : ~(i <= 0)
    BY <1>1
  <2> QED
    BY <1>3, <2>1 DEF RankState
<1>7. ASSUME NEW k \in Known PROVE k + 1 \in Known
  <2> SUFFICES ASSUME k + 1 <= n PROVE RankState(view, n, list, k + 1, at(k + 1))
    OBVIOUS
  <2>1. k \in Nat /\ k + 1 \in 1 .. n /\ (k + 1) - 1 = k /\ k <= n
    BY <1>1
  <2>2. RankState(view, n, list, k, at(k))
    BY <2>1
  <2>3. at(k + 1) = Consider(view, at(k), list[k + 1])
    BY <1>4, <2>1
  <2> HIDE DEF Known, list
  <2>4. RankState(view, n, list, (k + 1) - 1, at(k))
    BY <2>1, <2>2
  <2>5. RankState(view, n, list, k + 1, Consider(view, at(k), list[k + 1]))
    BY <1>1, <1>2, <2>1, <2>4, ConsiderState
  <2> QED
    BY <2>3, <2>5
<1>8. n \in Known
  <2>1. Known \in SUBSET Nat
    OBVIOUS
  <2> HIDE DEF Known
  <2> QED
    BY <1>1, <1>6, <1>7, <2>1, RankFold!Induction
<1>9. RankState(view, n, list, n, at(n))
  BY <1>1, <1>8
<1>10. \A r \in Replica : \E i \in 1 .. n : i <= n /\ list[i] = r
  <2>1. list \in Injection(1 .. n, Replica)
    BY <1>2 DEF Order, Injection, n
  <2>2. IsFiniteSet(1 .. n) /\ Cardinality(1 .. n) = n
    BY <1>1, FS_Interval
  <2>3. list \in Surjection(1 .. n, Replica)
    BY <2>1, <2>2, ReplicaAssumption, FS_Injection DEF n
  <2>4. \A i \in 1 .. n : i <= n
    BY <1>1
  <2> QED
    BY <2>3, <2>4 DEF Surjection
<1> HIDE DEF list
<1> QED
  BY <1>2, <1>5, <1>9, <1>10 DEF RankState
-----------------------------------------------------------------------------
(* The host that backs up, of those that can.                                *)
Chosen(h) ==
  /\ h \in Eligible
  /\ input.scope = "replica_one" =>
       \A r \in Eligible : IF input.topology = "ms" THEN Ahead(input, h, r) ELSE h <= r

Selection == [kind : {"select"}, topology : {"ms", "mgr"}, scope : {"primary_only", "replica_one"},
              io : [Replica -> BOOLEAN], sql : {[r \in Replica |-> TRUE]}, gtid : BOOLEAN,
              lag : [Replica -> {Null, 0, 1}], missing : [Replica -> {{}, {1}}],
              members : SUBSET Replica]

(* The hosts that have decided, and back up, are the chosen one or none.     *)
Selecting ==
  input.kind = "select" =>
    /\ input \in Selection /\ (input.topology = "ms" <=> input.members = {})
    /\ todo \subseteq Replica \cup {Primary}
    /\ output = {h \in (Replica \cup {Primary}) \ todo : Chosen(h)}

LEMMA LagIsNat ==
  ASSUME NEW view \in Selection, NEW r \in Replica
  PROVE  Lag(view, r) \in Nat
BY DEF Lag, WorstLag, Selection

\* What a host reads of the servers is the input, whatever the order.
LEMMA ViewIsInput ==
  ASSUME NEW order
  PROVE  /\ View(order).list = order /\ View(order).members = input.members
         /\ \A r : Running(View(order), r) = Running(input, r) /\ Lag(View(order), r) = Lag(input, r)
BY DEF View, Running, Lag

LEMMA LeastMember ==
  ASSUME NEW S \in SUBSET Nat, S # {}
  PROVE  \E m \in S : \A k \in S : m <= k
<1> DEFINE R == OpToRel(<, Nat)
<1>1. PICK m \in S : \A k \in S : <<k, m>> \notin R
  <2>1. IsWellFoundedOn(R, Nat)
    BY NatLessThanWellFounded
  <2> HIDE DEF R
  <2> QED
    BY <2>1, WFMin, Zenon
<1>2. \A k \in S : ~(k < m)
  BY <1>1 DEF OpToRel
<1> QED
  BY <1>2

(* A host backs up when it is the chosen one.                                *)
LEMMA DecidesByChoice ==
  ASSUME input \in Selection, input.topology = "ms" <=> input.members = {},
         NEW h \in Replica \cup {Primary}, NEW order \in Order
  PROVE  ShouldBackup(h, IF h = Primary THEN "primary" ELSE "replica", input.scope,
                      View(order), input.topology, NoServer) <=> Chosen(h)
<1> DEFINE role == IF h = Primary THEN "primary" ELSE "replica"
           best == BestReplica(View(order))
           backs == ShouldBackup(h, role, input.scope, View(order), input.topology, NoServer)
<1>1. /\ input.scope \in {"primary_only", "replica_one"} /\ input.topology \in {"ms", "mgr"}
      /\ input.members \subseteq Replica
  BY DEF Selection
<1>2. /\ \A r \in Replica : r \in Nat /\ r # NoServer /\ r # Primary /\ Lag(input, r) \in Nat
      /\ NoServer # Primary
  BY ReplicaAssumption, LagIsNat DEF NoServer, Primary
<1>3. CASE input.scope = "primary_only"
  <2>1. backs <=> h = Primary
    BY <1>3 DEF ShouldBackup
  <2> HIDE DEF backs
  <2>2. Chosen(h) <=> h = Primary
    BY <1>3 DEF Chosen, Eligible
  <2> QED
    BY <2>1, <2>2 DEF backs
<1>4. CASE input.scope = "replica_one" /\ input.topology = "ms"
  <2>1. backs <=> h # Primary /\ best = h
    BY <1>4 DEF ShouldBackup, SelectedReplica
  <2>2. /\ best = NoServer \/ (best \in Replica /\ Running(input, best))
        /\ \A r \in Replica : Running(input, r) => best # NoServer /\ Ahead(input, best, r)
    <3>1. /\ View(order).list \in Order /\ \A r \in Replica : Lag(View(order), r) \in Nat
          /\ \A r, q : Ahead(View(order), r, q) = Ahead(input, r, q)
      BY <1>2, ViewIsInput DEF Ahead
    <3>2. /\ best = NoServer \/ (best \in Replica /\ Running(View(order), best))
          /\ \A r \in Replica : Running(View(order), r) => /\ best # NoServer
                                                           /\ Ahead(View(order), best, r)
      BY <3>1, BestIsAhead
    <3> HIDE DEF best
    <3> QED
      BY <3>1, <3>2, ViewIsInput
  <2>3. Chosen(h) <=> h \in Replica /\ Running(input, h)
                      /\ \A r \in Replica : Running(input, r) => Ahead(input, h, r)
    BY <1>4 DEF Chosen, Eligible
  <2> HIDE DEF backs, best
  <2>4. ASSUME h # Primary, best = h PROVE Chosen(h)
    BY <1>2, <2>2, <2>3, <2>4
  <2>5. ASSUME Chosen(h) PROVE h # Primary /\ best = h
    <3>1. h \in Replica /\ best \in Replica /\ Ahead(input, h, best) /\ Ahead(input, best, h)
      BY <2>2, <2>3, <2>5
    <3> QED
      BY <1>2, <3>1 DEF Ahead
  <2> QED
    BY <2>1, <2>4, <2>5 DEF backs
<1>5. CASE input.scope = "replica_one" /\ input.topology = "mgr"
  <2> DEFINE first == CHOOSE m \in input.members : \A n \in input.members : m <= n
  <2>1. backs <=> h # Primary /\ first = h
    <3>1. SelectedReplica(View(order), input.topology, NoServer) = first
      BY <1>5, ViewIsInput DEF SelectedReplica
    <3> HIDE DEF first
    <3> QED
      BY <1>5, <3>1 DEF ShouldBackup
  <2>2. first \in input.members /\ \A n \in input.members : first <= n
    <3>1. input.members \in SUBSET Nat /\ input.members # {}
      BY <1>1, <1>2, <1>5
    <3>2. \E m \in input.members : \A n \in input.members : m <= n
      BY <3>1, LeastMember
    <3> QED
      BY <3>2
  <2>3. Chosen(h) <=> h \in input.members /\ \A r \in input.members : h <= r
    BY <1>5 DEF Chosen, Eligible
  <2> HIDE DEF backs, first
  <2>4. \A m, n \in input.members : m <= n /\ n <= m => m = n
    BY <1>1, <1>2
  <2> QED
    BY <1>1, <1>2, <2>1, <2>2, <2>3, <2>4 DEF backs
<1> QED
  BY <1>1, <1>3, <1>4, <1>5

LEMMA OneIsChosen ==
  ASSUME input \in Selection, input.topology = "ms" <=> input.members = {}
  PROVE  /\ Eligible \subseteq Replica \cup {Primary}
         /\ Eligible # {} => \E h \in Eligible : Chosen(h)
         /\ \A h, g : Chosen(h) /\ Chosen(g) => h = g
<1>1. /\ input.scope \in {"primary_only", "replica_one"} /\ input.topology \in {"ms", "mgr"}
      /\ input.members \subseteq Replica
  BY DEF Selection
<1>2. Eligible \subseteq Replica \cup {Primary}
  BY <1>1 DEF Eligible
<1>3. \A r \in Replica : r \in Nat /\ r # NoServer /\ r # Primary /\ Lag(input, r) \in Nat
  BY ReplicaAssumption, LagIsNat
<1>4. input.scope = "primary_only" => Eligible = {Primary} /\ (\A h : Chosen(h) <=> h = Primary)
  BY DEF Chosen, Eligible
<1>5. input.scope = "replica_one" => Eligible \subseteq Replica
  BY <1>1 DEF Eligible
<1>6. \A h, g : Chosen(h) /\ Chosen(g) => h = g
  BY <1>1, <1>3, <1>4, <1>5 DEF Chosen, Ahead
<1>7. ASSUME Eligible # {}, input.scope = "replica_one" PROVE \E h \in Eligible : Chosen(h)
  <2>1. Eligible \subseteq Replica /\ Eligible \in SUBSET Nat
    BY <1>3, <1>5, <1>7
  <2>2. CASE input.topology = "mgr"
    <3>1. PICK m \in Eligible : \A k \in Eligible : m <= k
      BY <1>7, <2>1, LeastMember
    <3> QED
      BY <2>2, <3>1 DEF Chosen
  <2>3. CASE input.topology = "ms"
    <3> DEFINE lags == {Lag(input, r) : r \in Eligible}
    <3>1. lags \in SUBSET Nat /\ lags # {}
      BY <1>3, <1>7, <2>1
    <3>2. PICK r \in Eligible : \A l \in lags : Lag(input, r) <= l
      <4> HIDE DEF lags
      <4>1. PICK l \in lags : \A k \in lags : l <= k
        BY <3>1, LeastMember
      <4> QED
        BY <4>1 DEF lags
    <3> DEFINE nearest == {q \in Eligible : Lag(input, q) = Lag(input, r)}
    <3>3. nearest \in SUBSET Nat /\ nearest # {}
      BY <2>1
    <3>4. PICK h \in nearest : \A k \in nearest : h <= k
      <4> HIDE DEF nearest
      <4> QED
        BY <3>3, LeastMember
    <3>5. \A q \in Eligible : Lag(input, r) <= Lag(input, q) /\ Lag(input, q) \in Nat
      BY <1>3, <2>1, <3>2
    <3>6. \A q \in Eligible : Ahead(input, h, q)
      BY <1>3, <2>1, <3>4, <3>5 DEF Ahead
    <3> QED
      BY <2>3, <3>6, <3>4 DEF Chosen
  <2> QED
    BY <1>1, <2>2, <2>3
<1> QED
  BY <1>1, <1>2, <1>4, <1>6, <1>7

(* Exactly one host backs up when one can, and it is the least behind.       *)
THEOREM OneHostBacksUp == Spec => []OneBacksUp
<1>1. Init => Selecting
  <2>1. ScanInit \/ PlanInit => input.kind # "select"
    BY DEF ScanInit, PlanInit
  <2>2. SelectInit => Selecting
    BY DEF SelectInit, Selecting, Selection
  <2> QED
    BY <2>1, <2>2 DEF Init, Selecting
<1>2. Selecting /\ [Next]_vars => Selecting'
  <2> SUFFICES ASSUME Selecting, [Next]_vars PROVE Selecting'
    OBVIOUS
  <2>1. CASE Find \/ MakePlan
    BY <2>1 DEF Find, MakePlan, Selecting
  <2>2. ASSUME NEW h \in Replica \cup {Primary}, Decide(h) PROVE Selecting'
    <3> SUFFICES ASSUME input.kind = "select" PROVE Selecting'
      BY <2>2 DEF Selecting, Decide
    <3>1. input' = input /\ todo' = todo \ {h} /\ h \in todo
      BY <2>2 DEF Decide
    <3>2. \A g : Chosen(g)' = Chosen(g)
      BY <3>1 DEF Chosen, Eligible, Ahead, Lag, Running
    <3>3. output' = IF Chosen(h) THEN output \cup {h} ELSE output
      BY <2>2, DecidesByChoice DEF Decide, Selecting
    <3>4. output' = {g \in (Replica \cup {Primary}) \ todo' : Chosen(g)}
      BY <3>1, <3>3 DEF Selecting
    <3> QED
      BY <3>1, <3>2, <3>4 DEF Selecting
  <2>3. CASE UNCHANGED vars
    <3>1. input' = input /\ output' = output /\ todo' = todo
      BY <2>3 DEF vars
    <3>2. \A g : Chosen(g)' = Chosen(g)
      BY <3>1 DEF Chosen, Eligible, Ahead, Lag, Running
    <3> QED
      BY <3>1, <3>2 DEF Selecting
  <2> QED
    BY <2>1, <2>2, <2>3 DEF Next
<1>3. Selecting => OneBacksUp
  <2> SUFFICES ASSUME Selecting, Decided("select") PROVE OneBacksUp
    BY DEF OneBacksUp
  <2>1. /\ input \in Selection /\ (input.topology = "ms" <=> input.members = {})
        /\ output = {h \in Replica \cup {Primary} : Chosen(h)}
    BY DEF Selecting, Decided
  <2>2. CASE Eligible = {}
    <3>1. output = {}
      BY <2>1, <2>2 DEF Chosen
    <3>2. Cardinality(output) = 0
      BY <3>1, FS_EmptySet
    <3> QED
      BY <2>2, <3>1, <3>2 DEF OneBacksUp
  <2>3. CASE Eligible # {}
    <3>1. PICK h \in Eligible : Chosen(h)
      BY <2>1, <2>3, OneIsChosen
    <3>2. output = {h}
      BY <2>1, <3>1, OneIsChosen
    <3>3. Cardinality(output) = 1
      BY <3>2, FS_Singleton
    <3>4. input.scope = "replica_one" /\ input.topology = "ms" =>
            \A r \in Eligible : Ahead(input, h, r)
      BY <3>1 DEF Chosen
    <3>5. input.scope = "replica_one" /\ input.topology = "ms" =>
            \A r \in Eligible : Lag(input, h) <= Lag(input, r)
      <4>1. input.scope = "replica_one" /\ input.topology = "ms" => Eligible \subseteq Replica
        BY DEF Eligible
      <4> QED
        BY <2>1, <3>1, <3>4, <4>1, LagIsNat DEF Ahead
    <3> QED
      BY <2>3, <3>1, <3>2, <3>3, <3>5 DEF OneBacksUp
  <2> QED
    BY <2>2, <2>3
<1> QED
  BY <1>1, <1>2, <1>3, PTL DEF Spec
=============================================================================
