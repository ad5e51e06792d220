-------------------------- MODULE PitrRestore_proofs --------------------------
(***************************************************************************)
(* Proofs about PitrRestore on top of those about BinlogBackup: what a     *)
(* recovery yields, for any number of transactions, binlogs, runs and      *)
(* days, while backups, purges and kills go on.                            *)
(***************************************************************************)
EXTENDS PitrRestore, BinlogBackup_proofs

LEMMA BackupGoesOn == AllSpec => Spec
<1>1. AllInit => Init
  BY DEF AllInit
<1>2. [AllNext]_allvars => [Next]_vars
  BY DEF AllNext, allvars
<1> QED
  BY <1>1, <1>2, PTL DEF AllSpec, Spec
-----------------------------------------------------------------------------
ScanFold == INSTANCE LeftFold WITH Op <- ScanEvent
FileFold == INSTANCE LeftFold WITH Op <- ScanFile

(* A set of numbers can be sorted.                                           *)
LEMMA SortedExists ==
  ASSUME NEW S \in SUBSET Nat, IsFiniteSet(S)
  PROVE  /\ Cardinality(S) \in Nat
         /\ Sorted(S) \in [1 .. Cardinality(S) -> S]
<1> DEFINE Inc(q)  == \A i, j \in DOMAIN q : i < j => q[i] < q[j]
           Done(n) == \A T \in SUBSET Nat : IsFiniteSet(T) /\ Cardinality(T) = n => \E q \in [1 .. n -> T] : Inc(q)
           Sortable == {n \in Nat : Done(n)}
<1>1. 0 \in Sortable
  <2>1. \A T : IsFiniteSet(T) /\ Cardinality(T) = 0 => T = {}
    BY FS_EmptySet
  <2>2. 1 .. 0 = {}
    OBVIOUS
  <2>3. \A T : [i \in 1 .. 0 |-> i] \in [1 .. 0 -> T] /\ Inc([i \in 1 .. 0 |-> i])
    BY <2>2
  <2> QED
    BY <2>3
<1>2. ASSUME NEW n \in Sortable PROVE n + 1 \in Sortable
  <2> SUFFICES ASSUME NEW T \in SUBSET Nat, IsFiniteSet(T), Cardinality(T) = n + 1
               PROVE  \E q \in [1 .. n + 1 -> T] : Inc(q)
    OBVIOUS
  <2>1. T # {}
    BY FS_EmptySet
  <2> DEFINE x == Least(T)
             R == T \ {x}
  <2>2. x \in T /\ \A y \in T : x <= y
    BY <2>1, LeastIsLeast
  <2> HIDE DEF x
  <2>3. IsFiniteSet(R) /\ Cardinality(R) = n /\ R \in SUBSET Nat
    BY <2>2, FS_RemoveElement
  <2>4. PICK q \in [1 .. n -> R] : Inc(q)
    BY <2>3
  <2> DEFINE p == [i \in 1 .. n + 1 |-> IF i = 1 THEN x ELSE q[i - 1]]
  <2>5. \A i \in 1 .. n + 1 : i = 1 \/ i - 1 \in 1 .. n
    OBVIOUS
  <2>6. p \in [1 .. n + 1 -> T]
    BY <2>2, <2>4, <2>5
  <2>7. ASSUME NEW i \in 1 .. n + 1, NEW j \in 1 .. n + 1, i < j PROVE p[i] < p[j]
    <3>1. j # 1 /\ j - 1 \in 1 .. n /\ p[j] = q[j - 1] /\ q[j - 1] \in R
      BY <2>4, <2>5, <2>7
    <3>2. CASE i = 1
      <4>1. p[i] = x /\ q[j - 1] \in T /\ q[j - 1] # x
        BY <3>1, <3>2
      <4>2. x \in Nat /\ q[j - 1] \in Nat /\ x <= q[j - 1]
        BY <2>2, <4>1
      <4> HIDE DEF p
      <4> QED
        BY <3>1, <4>1, <4>2
    <3>3. CASE i # 1
      <4>1. i - 1 \in 1 .. n /\ i - 1 < j - 1 /\ p[i] = q[i - 1]
        BY <2>5, <2>7, <3>3
      <4> QED
        BY <2>4, <3>1, <4>1
    <3> QED
      BY <3>2, <3>3
  <2> QED
    BY <2>6, <2>7
<1>3. Sortable = Nat
  <2>1. Sortable \in SUBSET Nat
    OBVIOUS
  <2> HIDE DEF Sortable
  <2> QED
    BY <1>1, <1>2, <2>1, ScanFold!Induction
<1>4. Cardinality(S) \in Nat
  BY FS_CardinalityType
<1>5. Done(Cardinality(S))
  BY <1>3, <1>4
<1>6. \E q \in [1 .. Cardinality(S) -> S] : Inc(q)
  BY <1>5
<1> QED
  BY <1>4, <1>6 DEF Sorted

\* What the scan may yield.
Found(limit) == {NoGtid} \cup {t \in Trx : t <= limit}

\* Events that open a transaction at its time.
Event == {e \in [gtid : Trx, ts : Trx] : e.gtid = e.ts}

LEMMA ScanBinlogFound ==
  ASSUME NEW m \in Nat, NEW events \in [1 .. m -> Event], NEW limit \in Nat
  PROVE  /\ ScanBinlog(events, limit).last \in Found(limit)
         /\ ScanBinlog(events, limit).exceeded \in BOOLEAN
<1>1. DOMAIN events = 1 .. m
  OBVIOUS
<1> DEFINE at(k) == ScanFold!After(limit, ScanStart, events, k)
           State == [last : Found(limit), exceeded : BOOLEAN, stop : BOOLEAN]
<1>2. at(0) = ScanStart
  BY <1>1, ScanFold!FoldBegins
<1>3. \A k \in 1 .. m : at(k) = ScanEvent(limit, at(k - 1), events[k])
  BY <1>1, ScanFold!FoldGoesOn
<1>4. ScanBinlog(events, limit) = at(m)
  <2>1. ScanBinlog(events, limit) = ScanFold!Result(limit, ScanStart, events)
    BY DEF ScanBinlog, FoldLeft, MapThenFoldSet, Max, ScanFold!Max, ScanFold!Result, ScanFold!Body
  <2> QED
    BY <1>1, <2>1, ScanFold!FoldEnds
<1> HIDE DEF at
<1> DEFINE Known == {k \in Nat : k <= m => at(k) \in State}
<1>5. 0 \in Known
  <2>1. ScanStart \in State
    BY DEF ScanStart, Found
  <2> QED
    BY <1>2, <2>1
<1>6. ASSUME NEW k \in Known PROVE k + 1 \in Known
  <2> SUFFICES ASSUME k + 1 <= m PROVE at(k + 1) \in State
    OBVIOUS
  <2>1. k + 1 \in 1 .. m /\ (k + 1) - 1 = k /\ at(k) \in State
    OBVIOUS
  <2>2. events[k + 1] \in Event /\ at(k + 1) = ScanEvent(limit, at(k), events[k + 1])
    BY <1>3, <2>1
  <2>3. ASSUME NEW s \in State, NEW e \in Event PROVE ScanEvent(limit, s, e) \in State
    BY DEF ScanEvent, Event, Found
  <2> HIDE DEF State
  <2> QED
    BY <2>1, <2>2, <2>3
<1>7. m \in Known
  <2>1. Known \in SUBSET Nat
    OBVIOUS
  <2> HIDE DEF Known
  <2> QED
    BY <1>5, <1>6, <2>1, ScanFold!Induction
<1> QED
  BY <1>4, <1>7

(* A time is never resolved to a transaction after it.                       *)
LEMMA FoundByTime ==
  ASSUME NEW n \in Nat, NEW files, DOMAIN files = 1 .. n, NEW limit \in Nat,
         \A i \in 1 .. n : \E m \in Nat : files[i] \in [1 .. m -> Event]
  PROVE  FindGtidByTime(files, limit) \in Found(limit)
<1> DEFINE at(k) == FileFold!After(limit, FindStart, files, k)
           State == [last : Found(limit), stop : BOOLEAN]
<1>2. at(0) = FindStart
  BY FileFold!FoldBegins
<1>3. \A k \in 1 .. n : at(k) = ScanFile(limit, at(k - 1), files[k])
  BY FileFold!FoldGoesOn
<1>4. FindGtidByTime(files, limit) = at(n).last
  <2>1. FindGtidByTime(files, limit) = FileFold!Result(limit, FindStart, files).last
    BY DEF FindGtidByTime, FoldLeft, MapThenFoldSet, Max, FileFold!Max, FileFold!Result, FileFold!Body
  <2> QED
    BY <2>1, FileFold!FoldEnds
<1> HIDE DEF at
<1> DEFINE Known == {k \in Nat : k <= n => at(k) \in State}
<1>5. 0 \in Known
  <2>1. FindStart \in State
    BY DEF FindStart, Found
  <2> QED
    BY <1>2, <2>1
<1>6. ASSUME NEW k \in Known PROVE k + 1 \in Known
  <2> SUFFICES ASSUME k + 1 <= n PROVE at(k + 1) \in State
    OBVIOUS
  <2>1. k + 1 \in 1 .. n /\ (k + 1) - 1 = k /\ at(k) \in State
    OBVIOUS
  <2>2. at(k + 1) = ScanFile(limit, at(k), files[k + 1])
    BY <1>3, <2>1
  <2>3. ScanBinlog(files[k + 1], limit).last \in Found(limit)
    BY <2>1, ScanBinlogFound
  <2>4. ASSUME NEW s \in State, NEW events, ScanBinlog(events, limit).last \in Found(limit),
               ScanBinlog(events, limit).exceeded \in BOOLEAN
        PROVE  ScanFile(limit, s, events) \in State
    BY <2>4 DEF ScanFile
  <2>5. ScanBinlog(files[k + 1], limit).exceeded \in BOOLEAN
    BY <2>1, ScanBinlogFound
  <2> HIDE DEF State
  <2> QED
    BY <2>1, <2>2, <2>3, <2>4, <2>5
<1>7. n \in Known
  <2>1. Known \in SUBSET Nat
    OBVIOUS
  <2> HIDE DEF Known
  <2> QED
    BY <1>5, <1>6, <2>1, FileFold!Induction
<1> QED
  BY <1>4, <1>7
-----------------------------------------------------------------------------
(* What the steps of a backup do to what a recovery reads.                   *)
InClone == {"check", "clone", "position"}

LEMMA SnapshotChanges ==
  ASSUME Typed, [Next]_vars
  PROVE  /\ \A s \in Run : clone'[s] = clone[s] \/ clone'[s] \notin Nat \/ (Clone /\ s = run)
         /\ \A s \in Run : meta'[s] = meta[s] \/ meta'[s] = NoMeta \/ (WriteMeta /\ s = run)
         /\ run' = run \/ (Prepare /\ run' = run + 1)
         /\ pc' \in InClone => Prepare \/ (pc \in InClone /\ run' = run)
         /\ placed' = placed \/ Commit
<1>0. SnapsTyped /\ NoClone \notin Nat /\ Torn \notin Nat
  BY BackupAssumption DEF Typed
<1>1. CASE \/ Commit \/ Rotate \/ NewDay \/ ScheduleStart \/ CheckFails \/ CloneFails \/ CheckMysql
           \/ UNCHANGED vars
  BY <1>1 DEF Commit, Rotate, Rotated, NewDay, ScheduleStart, CheckMysql, CheckFails, CloneFails, RunFails,
              Goto, InClone, snaps, local, server, vars
<1>2. CASE Prepare
  BY <1>2 DEF Prepare, server
<1>3. CASE Clone
  BY <1>0, <1>3 DEF Clone, SnapsTyped, Goto, InClone, server, local
<1>4. CASE WriteMeta
  BY <1>0, <1>4 DEF WriteMeta, SnapsTyped, Goto, InClone, server, local
<1>5. CASE Flush \/ BinlogSkipped \/ ReadActive \/ ListMissing \/ CopyBinlog \/ AppendIndex \/ CopyFails
  BY <1>5 DEF Flush, Rotated, BinlogSkipped, ReadActive, ListMissing, CopyBinlog, AppendIndex, CopyFails,
              NextMissing, Goto, InClone, snaps, local, server
<1>6. CASE PurgeSnapshotsDone \/ PurgeBinlog \/ PurgeBinlogsDone \/ RebuildIndex
  BY <1>6 DEF PurgeSnapshotsDone, PurgeBinlog, PurgeBinlogsDone, RebuildIndex, Goto, InClone, snaps, local, server
<1>7. CASE PurgeSnapshot
  BY <1>0, <1>7 DEF PurgeSnapshot, SnapsTyped, InClone, local, server
<1>8. CASE Crash
  <2>1. run' = run /\ placed' = placed /\ pc' \notin InClone
    BY <1>8 DEF Crash, Goto, InClone, server
  <2>2. \/ UNCHANGED <<clone, meta>>
        \/ clone' = [clone EXCEPT ![Least(dirs)] = Torn] /\ UNCHANGED meta
        \/ clone' = [clone EXCEPT ![Least(dirs)] = NoClone] /\ meta' = [meta EXCEPT ![Least(dirs)] = NoMeta]
    BY <1>8 DEF Crash
  <2> QED
    BY <1>0, <2>1, <2>2 DEF SnapsTyped
<1> QED
  BY <1>1, <1>2, <1>3, <1>4, <1>5, <1>6, <1>7, <1>8 DEF Next, BackupStep

(* No clone and no copy holds a transaction that was not committed, in       *)
(* whatever state the archive is.                                            *)
Past ==
  /\ \A s \in Run : clone[s] \in Nat => clone[s] <= Committed
  /\ \A f \in Copied : copy[f] \subseteq 1 .. Committed

LEMMA CopyMade ==
  ASSUME Typed, [Next]_vars, NEW f \in File
  PROVE  copy'[f] \in {copy[f], NoCopy, {}} \/ (copy'[f] = Contents(f) /\ placed' = placed)
<1>0. copy \in [File -> CopyValue]
  BY DEF Typed, CopiesTyped
<1>1. CASE CopyBinlog
  BY <1>0, <1>1 DEF CopyBinlog, server
<1>2. CASE CopyFails
  BY <1>0, <1>2 DEF CopyFails, copies, server
<1>3. CASE PurgeBinlog
  BY <1>0, <1>3 DEF PurgeBinlog
<1>4. CASE Crash
  BY <1>0, <1>4 DEF Crash, copies
<1>5. CASE \/ Commit \/ Rotate \/ NewDay \/ ScheduleStart \/ CheckFails \/ CloneFails \/ CheckMysql
           \/ Prepare \/ Clone \/ WriteMeta \/ Flush \/ BinlogSkipped \/ ReadActive \/ ListMissing \/ AppendIndex
           \/ PurgeSnapshot \/ PurgeSnapshotsDone \/ PurgeBinlogsDone \/ RebuildIndex \/ UNCHANGED vars
  BY <1>5 DEF Commit, Rotate, Rotated, NewDay, ScheduleStart, CheckFails, CloneFails, RunFails, CheckMysql,
              Prepare, Clone, WriteMeta, Flush, BinlogSkipped, ReadActive, ListMissing, AppendIndex,
              PurgeSnapshot, PurgeSnapshotsDone, PurgeBinlogsDone, RebuildIndex, copies, vars
<1> QED
  BY <1>1, <1>2, <1>3, <1>4, <1>5 DEF Next, BackupStep

LEMMA CommittedGrows ==
  ASSUME Typed, [Next]_vars
  PROVE  Committed \in Nat /\ Committed' \in Nat /\ Committed <= Committed'
<1>1. placed \in Seq(File) /\ active \in File
  BY DEF Typed, ServerTyped
<1>2. CASE Commit
  <2>1. placed' = Append(placed, active)
    BY <1>2 DEF Commit
  <2> QED
    BY <1>1, <2>1 DEF Committed
<1>3. CASE placed' = placed
  BY <1>1, <1>3 DEF Committed
<1> QED
  BY <1>2, <1>3, SnapshotChanges

LEMMA PastStep ==
  ASSUME Typed, Past, [Next]_vars
  PROVE  Past'
<1>0. Committed \in Nat /\ Committed' \in Nat /\ Committed <= Committed'
  BY CommittedGrows
<1>1. \A s \in Run : clone'[s] \in Nat => clone'[s] <= Committed'
  <2> SUFFICES ASSUME NEW s \in Run, clone'[s] \in Nat PROVE clone'[s] <= Committed'
    OBVIOUS
  <2>1. CASE clone'[s] = clone[s]
    BY <1>0, <2>1 DEF Past
  <2>2. CASE Clone /\ s = run
    BY <1>0, <2>2 DEF Clone, Typed, SnapsTyped
  <2> QED
    BY <2>1, <2>2, SnapshotChanges
<1>2. ASSUME NEW f \in File, copy'[f] # NoCopy PROVE copy'[f] \subseteq 1 .. Committed'
  <2>1. CASE copy'[f] = copy[f]
    <3>1. copy[f] \subseteq 1 .. Committed
      BY <1>2, <2>1 DEF Past, Copied
    <3> QED
      BY <1>0, <2>1, <3>1
  <2>2. CASE copy'[f] = Contents(f) /\ placed' = placed
    BY <1>0, <2>2 DEF Contents, Committed
  <2> QED
    BY <1>2, <2>1, <2>2, CopyMade
<1> QED
  BY <1>1, <1>2 DEF Past, Copied

(* What a recovery has executed is the clone and, in their order, some of    *)
(* the transactions of the relay log.                                        *)
Ascending ==
  /\ base \in Nat /\ base <= Committed
  /\ 1 .. base \subseteq data /\ data \subseteq 1 .. Committed /\ relay \subseteq 1 .. Committed
  /\ \A t \in data, u \in relay \ data : t <= base \/ t < u

(* Where the SQL thread runs and until where; one that runs has not reached  *)
(* its target.                                                               *)
Halting ==
  /\ step \in Step /\ mode \in {"gtid", "time"} /\ thread \in {"none", "running", "stopped"}
  /\ step \notin {"wait", "done"} => thread = "none"
  /\ thread = "none" => data = 1 .. base
  /\ step # "idle" => target \in Nat /\ (mode = "gtid" => target \in Trx)
  /\ step \in {"target", "copy"} => selected \subseteq File
  /\ (step \in {"copy", "start", "wait"} \/ thread # "none") =>
       until \in Trx /\ until <= target /\ (mode = "gtid" => until = target)
  /\ thread = "running" => ~Reached(data)
  /\ outcome = "success" => step = "done" /\ thread # "running" /\ (mode = "gtid" => thread = "stopped")

(* One that has stopped, without an error, has reached it and has executed   *)
(* nothing after it.                                                         *)
Stopped == thread = "stopped" => Reached(data) /\ data \subseteq 1 .. Latest(base, until)

(* The scan of whatever copies there are.                                    *)
LEMMA ScannedFound ==
  ASSUME Typed, selected \subseteq Copied, NEW limit \in Nat
  PROVE  FindGtidByTime(Scanned, limit) \in Found(limit)
<1>1. MaxFile \in Nat /\ MaxTrx \in Nat /\ File \subseteq Nat /\ Trx \subseteq Nat
  BY BackupAssumption DEF File, Trx
<1>2. IsFiniteSet(File) /\ IsFiniteSet(Trx)
  BY <1>1, FS_Interval DEF File, Trx
<1>3. selected \in SUBSET Nat /\ IsFiniteSet(selected) /\ selected \subseteq File
  BY <1>1, <1>2, FS_Subset DEF Copied
<1> DEFINE n == Cardinality(selected)
<1>4. n \in Nat /\ Sorted(selected) \in [1 .. n -> selected]
  BY <1>3, SortedExists
<1>5. ASSUME NEW f \in selected PROVE \E m \in Nat : Events(f) \in [1 .. m -> Event]
  <2>1. copy[f] \in SUBSET Trx
    BY <1>3, <1>5 DEF Copied, Typed, CopiesTyped, CopyValue
  <2>2. copy[f] \in SUBSET Nat /\ IsFiniteSet(copy[f])
    BY <1>1, <1>2, <2>1, FS_Subset
  <2> DEFINE m == Cardinality(copy[f])
             q == Sorted(copy[f])
  <2>3. m \in Nat /\ q \in [1 .. m -> copy[f]]
    BY <2>2, SortedExists
  <2> HIDE DEF m, q
  <2>4. \A i \in 1 .. m : [gtid |-> q[i], ts |-> q[i]] \in Event
    BY <2>1, <2>3 DEF Event
  <2>5. [i \in 1 .. m |-> [gtid |-> q[i], ts |-> q[i]]] \in [1 .. m -> Event]
    BY <2>4
  <2> QED
    BY <2>3, <2>5 DEF Events, m, q
<1>6. DOMAIN Scanned = 1 .. n /\ \A i \in 1 .. n : Scanned[i] = Events(Sorted(selected)[i])
  BY DEF Scanned
<1>7. \A i \in 1 .. n : \E m \in Nat : Scanned[i] \in [1 .. m -> Event]
  BY <1>4, <1>5, <1>6
<1> HIDE DEF n
<1> QED
  BY <1>4, <1>6, <1>7, FoundByTime

(* GTID sets that hold what Reached asks for hold the transaction.           *)
LEMMA ReachedHas ==
  ASSUME until \in Trx, NEW D \in SUBSET Trx
  PROVE  /\ Reached(D) => until \in D
         /\ Reached(D) /\ mode # "gtid" => 1 .. until \subseteq D
         /\ \A t \in Trx : until < t /\ Reached(D \cup {t}) => Reached(D)
<1>1. /\ \A t \in Trx : t \in Nat /\ GNO[t] \in Nat /\ GNO[t] > 0
      /\ \A t, u \in Trx : t < u => GNO[t] < GNO[u]
  BY RestoreAssumption DEF Trx
<1>2. ASSUME NEW u \in Trx, NEW t \in Trx, GNO[t] = GNO[u] PROVE t = u
  BY <1>1, <1>2
<1>3. GNO[until] \in AfterGtids /\ \A g \in AfterGtids : g \in Nat /\ g <= GNO[until]
  BY <1>1 DEF AfterGtids
<1>4. Reached(D) => until \in D
  <2> SUFFICES ASSUME Reached(D) PROVE until \in D
    OBVIOUS
  <2>1. PICK t \in D : GNO[t] = GNO[until]
    BY <1>3 DEF Reached
  <2> QED
    BY <1>2, <2>1
<1>5. ASSUME Reached(D), mode # "gtid", NEW u \in 1 .. until PROVE u \in D
  <2>1. u \in Trx /\ u \in Nat /\ until \in Nat /\ (u < until \/ u = until)
    BY BackupAssumption DEF Trx
  <2>2. GNO[u] \in 1 .. GNO[until]
    BY <1>1, <2>1
  <2>3. PICK t \in D : GNO[t] = GNO[u]
    BY <1>5, <2>2 DEF Reached, AfterGtids
  <2> QED
    BY <1>2, <2>1, <2>3
<1>6. ASSUME NEW t \in Trx, until < t, Reached(D \cup {t}) PROVE Reached(D)
  <2>1. GNO[until] < GNO[t]
    BY <1>1, <1>6
  <2>2. \A g \in AfterGtids : g # GNO[t]
    BY <1>1, <1>3, <2>1
  <2> QED
    BY <1>6, <2>2 DEF Reached
<1> QED
  BY <1>4, <1>5, <1>6

LEMMA AscendingStep ==
  ASSUME Typed, Past, Halting, Ascending, [AllNext]_allvars
  PROVE  Ascending'
<1>0. Committed \in Nat /\ base \in Nat /\ relay \subseteq Nat /\ data \subseteq Nat
  BY DEF Typed, ServerTyped, Committed, Ascending
<1>1. CASE Next /\ UNCHANGED recovery
  <2>1. Committed' \in Nat /\ Committed <= Committed' /\ UNCHANGED <<base, data, relay>>
    BY <1>1, CommittedGrows DEF recovery
  <2>2. 1 .. Committed \subseteq 1 .. Committed'
    BY <1>0, <2>1
  <2> QED
    BY <1>0, <2>1, <2>2 DEF Ascending
<1>2. CASE UNCHANGED <<Committed, base, data, relay>>
  BY <1>2 DEF Ascending
<1> SUFFICES ASSUME UNCHANGED vars PROVE Ascending'
  BY <1>1, <1>2 DEF AllNext, allvars, recovery, vars, Committed
<1>3. Committed' = Committed
  BY DEF vars, Committed
<1>4. CASE RestoreClone
  <2>1. PICK s \in dirs :
          \/ UNCHANGED <<base, data>>
          \/ clone[s] \notin {NoClone, Torn} /\ base' = clone[s] /\ data' = 1 .. clone[s]
    BY <1>4 DEF RestoreClone
  <2>2. relay' = relay
    BY <1>4 DEF RestoreClone
  <2>3. CASE clone[s] \notin {NoClone, Torn} /\ base' = clone[s] /\ data' = 1 .. clone[s]
    <3>1. clone[s] \in Nat /\ clone[s] <= Committed
      <4>1. s \in Run /\ clone[s] \in 0 .. MaxTrx
        BY <2>3 DEF Typed, SnapsTyped
      <4> QED
        BY <4>1 DEF Past
    <3>2. data' \subseteq 1 .. Committed /\ \A t \in data' : t <= base'
      BY <1>0, <2>3, <3>1
    <3> QED
      BY <1>3, <2>2, <2>3, <3>1, <3>2 DEF Ascending
  <2> QED
    BY <1>2, <1>3, <2>1, <2>2, <2>3
<1>5. CASE SelectBinlogs \/ PickTarget \/ StartSqlThread \/ ThreadGone \/ WaitTimeout \/ ApplyError
  BY <1>2, <1>3, <1>5 DEF SelectBinlogs, PickTarget, StartSqlThread, ThreadGone, WaitTimeout, ApplyError, Die, Succeed
<1>6. CASE CopyToRelay
  <2>1. UNCHANGED <<base, data>> /\ data = 1 .. base
    BY <1>6 DEF CopyToRelay, Die, Halting, Step
  <2>2. CASE relay' = relay
    BY <1>2, <1>3, <2>1, <2>2
  <2>3. CASE selected \subseteq Copied /\ relay' = UNION {copy[f] : f \in selected}
    <3>1. relay' \subseteq 1 .. Committed
      BY <2>3 DEF Past
    <3>2. \A t \in data : t <= base
      BY <1>0, <2>1
    <3> QED
      BY <1>3, <2>1, <3>1, <3>2 DEF Ascending
  <2> QED
    BY <1>6, <2>2, <2>3 DEF CopyToRelay, Die
<1>7. CASE Apply
  <2> DEFINE t == Least(relay \ data)
  <2>1. relay \ data # {} /\ data' = data \cup {t} /\ UNCHANGED <<base, relay>>
    BY <1>7 DEF Apply
  <2>2. t \in relay /\ t \notin data /\ \A u \in relay \ data : t <= u
    <3>1. relay \ data \in SUBSET Nat
      BY <1>0
    <3> QED
      BY <2>1, <3>1, LeastIsLeast
  <2> HIDE DEF t
  <2>3. ASSUME NEW x \in data', NEW u \in relay' \ data' PROVE x <= base' \/ x < u
    <3>1. u \in relay \ data /\ u # t /\ u \in Nat /\ t \in Nat
      BY <1>0, <2>1, <2>2, <2>3
    <3>2. CASE x \in data
      BY <2>1, <3>1, <3>2 DEF Ascending
    <3>3. CASE x = t
      BY <2>2, <3>1, <3>3
    <3> QED
      BY <2>1, <2>3, <3>2, <3>3
  <2> QED
    BY <1>3, <2>1, <2>2, <2>3 DEF Ascending
<1> QED
  BY <1>1, <1>2, <1>3, <1>4, <1>5, <1>6, <1>7 DEF AllNext, RestoreStep, allvars, recovery

LEMMA HaltingStep ==
  ASSUME Typed, Ascending, Halting, [AllNext]_allvars
  PROVE  Halting'
<1>0. /\ Committed \in Nat /\ Committed <= MaxTrx /\ MaxTrx \in Nat /\ base \in Nat /\ data \subseteq Trx
      /\ Trx \subseteq Nat
  BY BackupAssumption DEF Typed, ServerTyped, Committed, Ascending, Trx
<1>1. CASE UNCHANGED recovery
  BY <1>1 DEF recovery, Halting, Reached, AfterGtids
<1> SUFFICES ASSUME RestoreClone \/ RestoreStep \/ ApplyError, UNCHANGED vars PROVE Halting'
  BY <1>1 DEF AllNext, allvars
<1>2. CASE RestoreClone
  <2>1. PICK s \in dirs, m \in {"gtid", "time"}, g \in 0 .. Committed :
          /\ m = "gtid" => g # 0
          /\ mode' = m /\ target' = g
          /\ IF meta[s] = NoMeta \/ clone[s] = NoClone
             THEN step' = "done" /\ outcome' = "failed" /\ UNCHANGED <<base, data>>
             ELSE step' = "select" /\ base' = clone[s] /\ data' = 1 .. clone[s] /\ UNCHANGED outcome
    BY <1>2 DEF RestoreClone
  <2>2. step = "idle" /\ thread = "none" /\ thread' = thread
    BY <1>2 DEF RestoreClone, Halting
  <2>3. target' \in Nat /\ (mode' = "gtid" => target' \in Trx)
    BY <1>0, <2>1 DEF Trx
  <2>4. data' = 1 .. base'
    BY <2>1, <2>2 DEF Halting
  <2>5. step' \in {"select", "done"} /\ (outcome' = "success" => FALSE)
    BY <2>1, <2>2 DEF Halting
  <2> QED
    BY <2>1, <2>2, <2>3, <2>4, <2>5 DEF Halting, Step
<1>3. CASE SelectBinlogs
  <2>1. UNCHANGED <<mode, target, base, data, until, thread>> /\ thread = "none" /\ step = "select"
    BY <1>3 DEF SelectBinlogs, Die, Halting
  <2>2. \/ step' = "target" /\ selected' \subseteq index /\ outcome' = outcome
        \/ step' = "done" /\ outcome' = "failed"
    BY <1>3 DEF SelectBinlogs, Die
  <2>3. index \subseteq File
    BY DEF Typed, CopiesTyped
  <2> QED
    BY <2>1, <2>2, <2>3 DEF Halting, Step
<1>4. CASE PickTarget
  <2>1. UNCHANGED <<mode, target, base, data, thread, selected>> /\ thread = "none" /\ step = "target"
    BY <1>4 DEF PickTarget, Die, Succeed, Halting
  <2>2. target \in Nat /\ (mode = "gtid" => target \in Trx) /\ mode \in {"gtid", "time"}
    BY <2>1 DEF Halting
  <2>3. \/ step' = "copy" /\ outcome' = outcome /\ mode = "gtid" /\ until' = target
        \/ step' = "copy" /\ outcome' = outcome /\ mode # "gtid" /\ selected \subseteq Copied
              /\ until' = FindGtidByTime(Scanned, target) /\ until' # NoGtid
        \/ step' = "done" /\ outcome' \in {"success", "failed"} /\ mode # "gtid"
    BY <1>4 DEF PickTarget, Die, Succeed
  <2>4. step' = "copy" => until' \in Trx /\ until' <= target /\ (mode = "gtid" => until' = target)
    <3>1. CASE mode = "gtid" /\ until' = target
      BY <1>0, <2>2, <3>1
    <3>2. CASE mode # "gtid" /\ selected \subseteq Copied /\ until' = FindGtidByTime(Scanned, target) /\ until' # NoGtid
      BY <2>2, <3>2, ScannedFound DEF Found
    <3> QED
      BY <2>3, <3>1, <3>2
  <2> QED
    BY <2>1, <2>2, <2>3, <2>4 DEF Halting, Step
<1>5. CASE CopyToRelay
  <2>1. UNCHANGED <<mode, target, base, data, until, thread, selected>> /\ thread = "none" /\ step = "copy"
    BY <1>5 DEF CopyToRelay, Die, Halting
  <2>2. (step' = "start" /\ outcome' = outcome) \/ (step' = "done" /\ outcome' = "failed")
    BY <1>5 DEF CopyToRelay, Die
  <2> QED
    BY <2>1, <2>2 DEF Halting, Step
<1>6. CASE StartSqlThread
  <2>1. UNCHANGED <<mode, target, base, data, until, selected, outcome>> /\ thread = "none" /\ step = "start" /\ step' = "wait"
    BY <1>6 DEF StartSqlThread, Halting
  <2>2. thread' = IF Reached(data) THEN "stopped" ELSE "running"
    BY <1>6 DEF StartSqlThread
  <2>3. Reached(data)' = Reached(data)
    BY <2>1 DEF Reached, AfterGtids
  <2> QED
    BY <2>1, <2>2, <2>3 DEF Halting, Step
<1>7. CASE Apply
  <2>1. /\ UNCHANGED <<step, mode, target, base, until, selected, outcome>>
        /\ thread = "running" /\ thread' \in {"running", "stopped"} /\ (thread' = "running" => ~Reached(data'))
    BY <1>7 DEF Apply
  <2>2. \A D : Reached(D)' = Reached(D)
    BY <2>1 DEF Reached, AfterGtids
  <2> QED
    BY <2>1, <2>2 DEF Halting
<1>8. CASE ThreadGone \/ WaitTimeout
  <2>1. /\ UNCHANGED <<mode, target, base, data, until, selected, thread>>
        /\ step = "wait" /\ step' = "done" /\ (outcome' = "success" => thread = "stopped")
    BY <1>8 DEF ThreadGone, WaitTimeout, Die, Succeed
  <2>2. \A D : Reached(D)' = Reached(D)
    BY <2>1 DEF Reached, AfterGtids
  <2> QED
    BY <2>1, <2>2 DEF Halting, Step
<1>9. CASE ApplyError
  BY <1>9 DEF ApplyError, Halting
<1> QED
  BY <1>2, <1>3, <1>4, <1>5, <1>6, <1>7, <1>8, <1>9 DEF RestoreStep

LEMMA StoppedStep ==
  ASSUME "apply" \notin RestoreFaults, Typed, Ascending, Halting, Stopped, [AllNext]_allvars
  PROVE  Stopped'
<1>0. /\ Committed \in Nat /\ Committed <= MaxTrx /\ MaxTrx \in Nat /\ base \in Nat /\ data \subseteq Trx
      /\ Trx \subseteq Nat
  BY BackupAssumption DEF Typed, ServerTyped, Committed, Ascending, Trx
<1>1. CASE UNCHANGED <<mode, base, data, until, thread>>
  BY <1>1 DEF Stopped, Reached, AfterGtids, Latest
<1>2. CASE RestoreClone \/ SelectBinlogs \/ PickTarget \/ CopyToRelay
  <2>1. thread' = thread /\ step \in {"idle", "select", "target", "copy"}
    BY <1>2 DEF RestoreClone, SelectBinlogs, PickTarget, CopyToRelay, Die, Succeed
  <2> QED
    BY <2>1 DEF Halting, Stopped
<1>3. CASE StartSqlThread
  <2>1. UNCHANGED <<mode, base, data, until>> /\ thread = "none" /\ step = "start"
    BY <1>3 DEF StartSqlThread, Halting
  <2>2. thread' = "stopped" => Reached(data)
    BY <1>3 DEF StartSqlThread
  <2>3. data \subseteq 1 .. Latest(base, until)
    <3>1. data = 1 .. base /\ until \in Nat
      BY <1>0, <2>1 DEF Halting
    <3>2. base <= Latest(base, until) /\ Latest(base, until) \in Nat
      BY <1>0, <3>1 DEF Latest
    <3> QED
      BY <1>0, <3>1, <3>2
  <2> QED
    BY <2>1, <2>2, <2>3 DEF Stopped, Reached, AfterGtids, Latest
<1>4. CASE Apply
  <2> DEFINE t == Least(relay \ data)
  <2>1. /\ UNCHANGED <<step, mode, target, base, until, selected, outcome, relay>>
        /\ thread = "running" /\ relay \ data # {} /\ data' = data \cup {t}
        /\ thread' = IF Reached(data \cup {t}) THEN "stopped" ELSE "running"
    BY <1>4 DEF Apply
  <2>2. t \in relay \ data
    <3>1. relay \ data \in SUBSET Nat
      BY DEF Ascending
    <3> QED
      BY <2>1, <3>1, LeastIsLeast
  <2> HIDE DEF t
  <2>3. \A D : Reached(D)' = Reached(D)
    BY <2>1 DEF Reached, AfterGtids
  <2>4. until \in Trx /\ ~Reached(data)
    BY <2>1 DEF Halting
  <2>5. ASSUME Reached(data \cup {t}) PROVE data' \subseteq 1 .. Latest(base, until)
    <3>1. t \in Trx
      BY <1>0, <2>2 DEF Ascending, Trx
    <3>2. ~(until < t) /\ until \in Nat /\ t \in Nat
      BY <1>0, <2>4, <2>5, <3>1, ReachedHas
    <3>3. \A x \in data : x \in Nat /\ x >= 1 /\ (x <= base \/ x < t)
      BY <1>0, <2>2 DEF Ascending, Trx
    <3>4. t >= 1
      BY <1>0, <3>1 DEF Trx
    <3>5. \A x \in data' : x \in Nat /\ x >= 1 /\ (x <= base \/ x <= until)
      BY <2>1, <3>2, <3>3, <3>4
    <3>6. Latest(base, until) \in Nat /\ base <= Latest(base, until) /\ until <= Latest(base, until)
      BY <1>0, <3>2 DEF Latest
    <3> QED
      BY <1>0, <3>2, <3>5, <3>6
  <2> QED
    BY <2>1, <2>3, <2>5 DEF Stopped, Latest
<1>5. CASE ThreadGone \/ WaitTimeout
  BY <1>1, <1>5 DEF ThreadGone, WaitTimeout, Die, Succeed
<1>6. CASE ApplyError
  BY <1>6 DEF ApplyError
<1> QED
  BY <1>1, <1>2, <1>3, <1>4, <1>5, <1>6 DEF AllNext, RestoreStep, allvars, recovery

LEMMA AlwaysHalting ==
  AllSpec => [](Typed /\ Ascending /\ Halting)
<1>1. Init => Past
  BY BackupAssumption DEF Init, Past, Copied, Committed
<1>2. AllInit => Ascending /\ Halting
  <2> SUFFICES ASSUME AllInit PROVE Ascending /\ Halting
    OBVIOUS
  <2>1. step = "idle" /\ base = 0 /\ data = {} /\ relay = {} /\ Committed = 0 /\ thread = "none" /\ mode = "gtid"
        /\ outcome = "none"
    BY DEF AllInit, Init, RestoreInit, Committed
  <2>2. data = 1 .. 0
    BY <2>1
  <2> QED
    BY <2>1, <2>2 DEF Ascending, Halting, Step
<1>3. Typed /\ Past /\ [Next]_vars => Past'
  BY PastStep
<1>4. Typed /\ Past /\ Ascending /\ Halting /\ [AllNext]_allvars => Ascending' /\ Halting'
  BY AscendingStep, HaltingStep
<1>5. Spec => [](Typed /\ Past)
  BY <1>1, <1>3, AlwaysTyped, PTL DEF Spec
<1> QED
  BY <1>2, <1>4, <1>5, BackupGoesOn, PTL DEF AllSpec

LEMMA AlwaysStopped ==
  ASSUME "apply" \notin RestoreFaults
  PROVE  AllSpec => []Stopped
<1>1. AllInit => Stopped
  BY DEF AllInit, RestoreInit, Stopped
<1>2. Typed /\ Ascending /\ Halting /\ Stopped /\ [AllNext]_allvars => Stopped'
  BY StoppedStep
<1> QED
  BY <1>1, <1>2, AlwaysHalting, PTL DEF AllSpec

(* A recovery to a GTID that reports success has executed it, whatever state *)
(* the archive is in, as long as the SQL thread meets no error.              *)
THEOREM TargetsAreReached ==
  ASSUME "apply" \notin RestoreFaults
  PROVE  AllSpec => []GtidReached
<1>1. Typed /\ Ascending /\ Halting /\ Stopped => GtidReached
  <2> SUFFICES ASSUME Typed, Ascending, Halting, Stopped, Success, mode = "gtid" PROVE target \in data
    BY DEF GtidReached
  <2>1. until \in Trx /\ until = target /\ Reached(data)
    BY DEF Halting, Stopped, Success
  <2>2. data \in SUBSET Trx
    BY BackupAssumption DEF Ascending, Typed, ServerTyped, Committed, Trx
  <2> QED
    BY <2>1, <2>2, ReachedHas
<1> QED
  BY <1>1, AlwaysHalting, AlwaysStopped, PTL

(* When the SQL thread meets no error, a recovery that reports success has   *)
(* executed nothing after its target that the clone did not hold, whatever   *)
(* is missing, torn or wrong in the archive.                                 *)
THEOREM SuccessStaysBeforeTarget ==
  ASSUME "apply" \notin RestoreFaults
  PROVE  AllSpec => []SuccessNotPastTarget
<1>1. Ascending /\ Halting /\ Stopped => SuccessNotPastTarget
  <2> SUFFICES ASSUME Ascending, Halting, Stopped, Success PROVE data \subseteq 1 .. Latest(base, target)
    BY DEF SuccessNotPastTarget
  <2>1. base \in Nat /\ target \in Nat /\ thread \in {"none", "stopped"}
    BY DEF Ascending, Halting, Success
  <2>2. Latest(base, target) \in Nat /\ base <= Latest(base, target) /\ target <= Latest(base, target)
    BY <2>1 DEF Latest
  <2>3. CASE thread = "none"
    BY <2>1, <2>2, <2>3 DEF Halting
  <2>4. CASE thread = "stopped"
    <3>1. until \in Nat /\ until <= target /\ data \subseteq 1 .. Latest(base, until)
      BY <2>4, BackupAssumption DEF Halting, Stopped, Trx
    <3>2. Latest(base, until) \in Nat /\ Latest(base, until) <= Latest(base, target)
      BY <2>1, <3>1 DEF Latest
    <3> QED
      BY <2>2, <3>1, <3>2
  <2> QED
    BY <2>1, <2>3, <2>4
<1> QED
  BY <1>1, AlwaysHalting, AlwaysStopped, PTL

(* And one to a time leaves out nothing, even with holes in the archive,     *)
(* incomplete copies or a wrong position, and whatever the numbers of the    *)
(* GTIDs: it yields a state the server had.                                  *)
THEOREM TimeRecoveriesAreWhole ==
  ASSUME "apply" \notin RestoreFaults
  PROVE  AllSpec => []TimeRecoveryIsPrefix
<1>1. Typed /\ Ascending /\ Halting /\ Stopped => TimeRecoveryIsPrefix
  <2> SUFFICES ASSUME Typed, Ascending, Halting, Stopped, Success, mode = "time" PROVE data \in History
    BY DEF TimeRecoveryIsPrefix
  <2>1. /\ base \in Nat /\ base <= Committed /\ Committed \in Nat /\ thread \in {"none", "stopped"}
        /\ Committed <= MaxTrx /\ MaxTrx \in Nat
    BY BackupAssumption DEF Ascending, Halting, Success, Typed, ServerTyped, Committed
  <2>2. CASE thread = "none"
    BY <2>1, <2>2 DEF Halting, History
  <2>3. CASE thread = "stopped"
    <3>1. until \in Trx /\ Reached(data) /\ data \subseteq 1 .. Latest(base, until)
      BY <2>3 DEF Halting, Stopped
    <3>2. data \subseteq 1 .. Committed /\ 1 .. base \subseteq data /\ data \in SUBSET Trx
      BY <2>1 DEF Ascending, Trx
    <3>3. until \in data /\ 1 .. until \subseteq data
      BY <3>1, <3>2, ReachedHas
    <3>4. until \in 1 .. Committed
      BY <3>2, <3>3
    <3>5. Latest(base, until) \in 0 .. Committed /\ Latest(base, until) \in {base, until}
      BY <2>1, <3>4 DEF Latest
    <3>6. data = 1 .. Latest(base, until)
      BY <3>1, <3>2, <3>3, <3>5
    <3> QED
      BY <3>5, <3>6 DEF History
  <2> QED
    BY <2>1, <2>2, <2>3
<1> QED
  BY <1>1, AlwaysHalting, AlwaysStopped, PTL
-----------------------------------------------------------------------------
LEMMA CopyChanges ==
  ASSUME Faults \cap {"busy", "query", "copy", "missed"} = {}, Typed, [Next]_vars
  PROVE  /\ active' \in {active, active + 1} /\ day' \in {day, day + 1}
         /\ \A f \in File : f # active => closed'[f] = closed[f]
         /\ index \subseteq index' \/ (index' = Archived /\ copy' = copy)
         /\ \A f \in File : \/ copy'[f] = copy[f] \/ copy'[f] = NoCopy
                            \/ pc = "copy" /\ f = Least(missing)
<1>0. CopiesTyped /\ ServerTyped
  BY DEF Typed
<1>1. CASE Rotate \/ Flush
  BY <1>0, <1>1 DEF Rotate, Flush, Rotated, ServerTyped, copies, server
<1>2. CASE \/ Commit \/ NewDay \/ ScheduleStart \/ CheckFails \/ CloneFails \/ CheckMysql \/ Prepare \/ Clone \/ WriteMeta
           \/ BinlogSkipped \/ ReadActive \/ ListMissing \/ PurgeSnapshot \/ PurgeSnapshotsDone \/ PurgeBinlogsDone
           \/ UNCHANGED vars
  BY <1>2 DEF Commit, NewDay, ScheduleStart, CheckFails, CloneFails, RunFails, CheckMysql, Prepare, Clone, WriteMeta,
              BinlogSkipped, ReadActive, ListMissing, PurgeSnapshot, PurgeSnapshotsDone, PurgeBinlogsDone,
              copies, server, vars
<1>3. CASE CopyBinlog
  BY <1>0, <1>3 DEF CopyBinlog, CopiesTyped, server
<1>4. CASE AppendIndex
  BY <1>4 DEF AppendIndex, copies, server
<1>5. CASE CopyFails
  BY <1>5 DEF CopyFails, copies, server
<1>6. CASE PurgeBinlog
  BY <1>0, <1>6 DEF PurgeBinlog, CopiesTyped, server
<1>7. CASE RebuildIndex
  BY <1>7 DEF RebuildIndex, copies, server
<1>8. CASE Crash
  BY <1>0, <1>8 DEF Crash, CopiesTyped, copies, server
<1> QED
  BY <1>1, <1>2, <1>3, <1>4, <1>5, <1>6, <1>7, <1>8 DEF Next, BackupStep

(* Transactions go to the binlogs in their order; a clone holds none that    *)
(* was not committed; a run has no meta file until its clone is done.        *)
Timeline ==
  /\ \A t, u \in 1 .. Committed : t <= u => placed[t] <= placed[u]
  /\ \A s \in Run : clone[s] \in Nat => clone[s] <= Committed
  /\ pc \in InClone => meta[run] = NoMeta

LEMMA CommitPlaces ==
  ASSUME Typed, Positioned, Commit
  PROVE  /\ Committed' = Committed + 1 /\ placed'[Committed + 1] = active
         /\ \A t \in 1 .. Committed : placed'[t] = placed[t]
         /\ \A t \in 1 .. Committed' : t \in 1 .. Committed \/ t = Committed + 1
<1>1. placed \in Seq(File) /\ active \in File /\ placed' = Append(placed, active)
  BY DEF Typed, ServerTyped, Commit
<1> QED
  BY <1>1 DEF Committed

LEMMA PlacedTyped ==
  ASSUME Typed
  PROVE  Committed \in Nat /\ \A t \in 1 .. Committed : placed[t] \in File /\ placed[t] \in Nat
<1>1. placed \in Seq(File) /\ File \subseteq Nat
  BY NumbersTyped DEF Typed, ServerTyped
<1>2. Len(placed) \in Nat /\ \A t \in 1 .. Len(placed) : placed[t] \in File
  BY <1>1
<1> QED
  BY <1>1, <1>2 DEF Committed

LEMMA TimelineStep ==
  ASSUME Typed, Positioned, Snapped, Timeline, [Next]_vars
  PROVE  Timeline'
<1>0. /\ Committed \in Nat /\ active \in Nat /\ \A t \in 1 .. Committed : placed[t] \in Nat
  BY NumbersTyped, PlacedTyped
<1>1. \A t, u \in (1 .. Committed)' : t <= u => placed'[t] <= placed'[u]
  <2>1. CASE placed' = placed
    BY <2>1 DEF Timeline, Committed
  <2>2. CASE Commit
    <3>1. \A t \in 1 .. Committed : placed[t] <= active
      BY DEF Positioned
    <3> SUFFICES ASSUME NEW t \in (1 .. Committed)', NEW u \in (1 .. Committed)', t <= u
                 PROVE  placed'[t] <= placed'[u]
      OBVIOUS
    <3>2. CASE u \in 1 .. Committed
      BY <1>0, <2>2, <3>2, CommitPlaces DEF Timeline
    <3>3. CASE u = Committed + 1
      BY <1>0, <2>2, <3>1, <3>3, CommitPlaces
    <3> QED
      BY <2>2, <3>2, <3>3, CommitPlaces
  <2> QED
    BY <2>1, <2>2, SnapshotChanges
<1>2. Committed' \in Nat /\ Committed <= Committed'
  <2>1. CASE placed' = placed
    BY <1>0, <2>1 DEF Committed
  <2> QED
    BY <1>0, <2>1, SnapshotChanges, CommitPlaces
<1>3. \A s \in Run : clone'[s] \in Nat => clone'[s] <= Committed'
  <2> SUFFICES ASSUME NEW s \in Run, clone'[s] \in Nat PROVE clone'[s] <= Committed'
    OBVIOUS
  <2>1. CASE clone'[s] = clone[s]
    BY <1>0, <1>2, <2>1 DEF Timeline
  <2>2. CASE Clone /\ s = run
    BY <1>0, <1>2, <2>2 DEF Clone, Typed, SnapsTyped
  <2> QED
    BY <2>1, <2>2, SnapshotChanges
<1>4. pc' \in InClone => meta'[run'] = NoMeta
  <2>1. CASE Prepare
    <3>1. run + 1 \in Run /\ meta' = meta /\ run' = run + 1 /\ run \in Nat
      BY <2>1, BackupAssumption DEF Prepare, Typed, ControlTyped, LocalTyped, Run
    <3>2. run + 1 \notin dirs
      BY <3>1 DEF Snapped
    <3> QED
      BY <3>1, <3>2 DEF Snapped
  <2>2. CASE pc \in InClone /\ pc' \in InClone /\ run' = run
    <3>1. run \in Run /\ ~WriteMeta
      BY <2>2 DEF Typed, ControlTyped, InClone, WriteMeta, Goto
    <3> QED
      BY <2>2, <3>1, SnapshotChanges DEF Timeline
  <2> QED
    BY <2>1, <2>2, SnapshotChanges
<1> QED
  BY <1>1, <1>3, <1>4 DEF Timeline
-----------------------------------------------------------------------------
(* What the recovery has read of the archive.  The position it starts from,  *)
(* before it selects; the selection, a stretch of the archive without a hole *)
(* that reaches to the transactions not in it; the relay log; and what has   *)
(* been executed.                                                            *)
Starting ==
  step = "select" =>
    /\ backup \in Run /\ backup <= run /\ ~(pc \in InClone /\ run = backup)
    /\ meta[backup] \in File => \A t \in 1 .. Committed : t > base => placed[t] >= meta[backup]

Kept(f) == f \in index \/ (f \notin Copied /\ Gone(f))

Selection ==
  step \in {"target", "copy"} =>
    /\ selected \subseteq File /\ \A f \in selected : f < active /\ Kept(f)
    /\ \A t \in 1 .. Committed : t > base => placed[t] \in selected \/ \A f \in selected : f < placed[t]

Relayed ==
  /\ relay \subseteq 1 .. Committed
  /\ \A t \in relay : \A u \in 1 .. Committed : base < u /\ u < t => u \in relay
  /\ step \in {"idle", "select", "target", "copy"} => relay = {}

Executed == base \in Nat /\ \E n \in base .. Committed : data = 1 .. n

Recovered == Starting /\ Selection /\ Relayed /\ Executed

Sound == Typed /\ Positioned /\ Copying /\ Snapped /\ Unbroken /\ Loop

(* A selected binlog stays in the list; or it is purged once it has gone     *)
(* from the server, and then never copied again.                             *)
LEMMA KeptStays ==
  ASSUME Daily, Sound, [Next]_vars, NEW f \in File, f < active, Kept(f)
  PROVE  f < active' /\ Kept(f)'
<1>0. /\ active \in Nat /\ day \in Nat /\ ServerDays \in Nat /\ File \subseteq Nat /\ closed[f] \in Nat
  BY NumbersTyped DEF Sound
<1>1. /\ active' \in {active, active + 1} /\ day' \in {day, day + 1} /\ closed'[f] = closed[f]
      /\ index \subseteq index' \/ (index' = Archived /\ copy' = copy)
      /\ copy'[f] = copy[f] \/ copy'[f] = NoCopy \/ (pc = "copy" /\ f = Least(missing))
  BY <1>0, CopyChanges DEF Sound, Daily
<1>2. f < active'
  BY <1>0, <1>1
<1>3. Gone(f) => Gone(f)'
  BY <1>0, <1>1 DEF Gone
<1>4. CASE f \in index
  <2>1. CASE f \in index'
    BY <1>2, <2>1 DEF Kept
  <2>2. CASE f \notin index'
    <3>1. index' = Archived /\ copy' = copy /\ f \notin Copied
      BY <1>1, <1>4, <2>2 DEF Archived
    <3>2. Gone(f)
      BY <1>4, <3>1 DEF Sound, Unbroken, Aging
    <3> QED
      BY <1>2, <1>3, <3>1, <3>2 DEF Kept, Copied
  <2> QED
    BY <2>1, <2>2
<1>5. CASE f \notin index
  <2>1. f \notin Copied /\ Gone(f) /\ f \in Unlisted
    BY <1>5 DEF Kept, Unlisted
  <2>2. ~(pc = "copy" /\ f = Least(missing))
    <3> SUFFICES ASSUME pc = "copy", f = Least(missing) PROVE FALSE
      OBVIOUS
    <3>1. f \in missing
      BY NextIsMissing DEF Sound, Typed, ControlTyped
    <3> QED
      BY <2>1, <3>1 DEF Sound, Loop, ToCopy
  <2>3. f \notin Copied'
    BY <1>1, <2>1, <2>2 DEF Copied
  <2> QED
    BY <1>2, <1>3, <2>1, <2>3 DEF Kept
<1> QED
  BY <1>4, <1>5

(* The backups go on.                                                        *)
LEMMA BackupKeepsRecovered ==
  ASSUME Daily, Sound, Timeline, Recovered, [Next]_vars, UNCHANGED recovery
  PROVE  Recovered'
<1>0. /\ Committed \in Nat /\ active \in Nat /\ run \in Nat /\ base \in Nat /\ File \subseteq Nat
      /\ Committed' \in Nat /\ Committed <= Committed'
  <2>1. placed \in Seq(File) /\ File \subseteq Nat /\ active \in Nat /\ run \in Nat
    BY NumbersTyped DEF Sound, Typed, ServerTyped, LocalTyped
  <2>2. Committed \in Nat /\ base \in Nat
    BY <2>1 DEF Committed, Recovered, Executed
  <2>3. CASE placed' = placed
    BY <2>1, <2>2, <2>3 DEF Committed
  <2> QED
    BY <2>1, <2>2, <2>3, SnapshotChanges, CommitPlaces DEF Sound
<1>1. UNCHANGED <<step, backup, base, data, selected, relay>>
  BY DEF recovery
<1>2. ASSUME NEW t \in (1 .. Committed)'
      PROVE  \/ t \in 1 .. Committed /\ placed'[t] = placed[t]
             \/ t > Committed /\ placed'[t] = active
  <2>1. CASE placed' = placed
    BY <2>1 DEF Committed
  <2>2. CASE Commit
    BY <1>0, <2>2, CommitPlaces DEF Sound
  <2> QED
    BY <2>1, <2>2, SnapshotChanges DEF Sound
<1>3. Starting'
  <2> SUFFICES ASSUME step = "select"
               PROVE  /\ backup \in Run /\ backup <= run' /\ ~(pc' \in InClone /\ run' = backup)
                      /\ meta'[backup] \in File =>
                           \A t \in (1 .. Committed)' : t > base => placed'[t] >= meta'[backup]
    BY <1>1 DEF Starting
  <2>1. /\ backup \in Run /\ backup \in Nat /\ backup <= run /\ ~(pc \in InClone /\ run = backup)
        /\ meta[backup] \in File => \A t \in 1 .. Committed : t > base => placed[t] >= meta[backup]
    BY DEF Recovered, Starting, Run
  <2>2. backup <= run' /\ ~(pc' \in InClone /\ run' = backup)
    <3>1. CASE Prepare /\ run' = run + 1
      BY <1>0, <2>1, <3>1
    <3>2. CASE run' = run
      <4>1. ~(Prepare /\ run' = run)
        BY <1>0, <3>2 DEF Prepare
      <4>2. pc' \in InClone => pc \in InClone
        BY <3>2, <4>1, SnapshotChanges DEF Sound
      <4> QED
        BY <2>1, <3>2, <4>2
    <3> QED
      BY <3>1, <3>2, SnapshotChanges DEF Sound
  <2>3. ASSUME meta'[backup] \in File, NEW t \in (1 .. Committed)', t > base
        PROVE  placed'[t] >= meta'[backup]
    <3>1. NoMeta \notin File
      BY BackupAssumption DEF File
    <3>2. ~(WriteMeta /\ backup = run)
      BY <2>1 DEF WriteMeta, InClone
    <3>3. meta'[backup] = meta[backup]
      BY <2>1, <2>3, <3>1, <3>2, SnapshotChanges DEF Sound
    <3>4. meta[backup] <= active
      BY <2>1, <2>3, <3>3 DEF Sound, Positioned
    <3> QED
      BY <1>0, <1>2, <2>1, <2>3, <3>3, <3>4
  <2> QED
    BY <2>1, <2>2, <2>3
<1>4. Selection'
  <2> SUFFICES ASSUME step \in {"target", "copy"}
               PROVE  /\ selected \subseteq File /\ \A f \in selected : f < active' /\ Kept(f)'
                      /\ \A t \in (1 .. Committed)' : t > base =>
                           placed'[t] \in selected \/ \A f \in selected : f < placed'[t]
    BY <1>1 DEF Selection
  <2>1. selected \subseteq File /\ \A f \in selected : f < active /\ Kept(f)
    BY DEF Recovered, Selection
  <2>2. \A f \in selected : f < active' /\ Kept(f)'
    BY <2>1, KeptStays
  <2>3. ASSUME NEW t \in (1 .. Committed)', t > base
        PROVE  placed'[t] \in selected \/ \A f \in selected : f < placed'[t]
    BY <1>2, <2>1, <2>3 DEF Recovered, Selection
  <2> QED
    BY <2>1, <2>2, <2>3
<1>5. Relayed'
  <2>1. relay \subseteq (1 .. Committed)'
    BY <1>0 DEF Recovered, Relayed
  <2>2. ASSUME NEW t \in relay, NEW u \in (1 .. Committed)', base < u, u < t PROVE u \in relay
    <3>1. t \in 1 .. Committed
      BY DEF Recovered, Relayed
    <3>2. u \in 1 .. Committed
      BY <1>0, <2>2, <3>1
    <3> QED
      BY <2>2, <3>2 DEF Recovered, Relayed
  <2> QED
    BY <1>1, <2>1, <2>2 DEF Recovered, Relayed
<1>6. Executed'
  <2>1. PICK n \in base .. Committed : data = 1 .. n
    BY DEF Recovered, Executed
  <2>2. n \in (base .. Committed)'
    BY <1>0, <1>1
  <2> QED
    BY <1>0, <1>1, <2>1, <2>2 DEF Executed
<1> QED
  BY <1>3, <1>4, <1>5, <1>6 DEF Recovered
(* The clone that is restored, and where it starts from.                     *)
LEMMA CloneKeepsRecovered ==
  ASSUME Sound, Timeline, Recovered, RestoreClone, UNCHANGED vars
  PROVE  Recovered'
<1>1. PICK s \in dirs, m \in {"gtid", "time"}, g \in 0 .. Committed :
        /\ clone[s] # Torn /\ backup' = s
        /\ IF meta[s] = NoMeta \/ clone[s] = NoClone
           THEN step' = "done" /\ UNCHANGED <<base, data>>
           ELSE step' = "select" /\ base' = clone[s] /\ data' = 1 .. clone[s]
  BY DEF RestoreClone
<1>2. relay = {} /\ relay' = {}
  BY DEF RestoreClone, Recovered, Relayed
<1>3. UNCHANGED <<pc, run, meta, placed, Committed>>
  BY DEF vars, Committed
<1>4. CASE step' = "done" /\ UNCHANGED <<base, data>>
  BY <1>2, <1>3, <1>4 DEF Recovered, Starting, Selection, Relayed, Executed
<1>5. CASE step' = "select" /\ base' = clone[s] /\ data' = 1 .. clone[s] /\ meta[s] # NoMeta /\ clone[s] # NoClone
  <2>1. /\ s \in Run /\ s <= run /\ clone[s] \in Nat /\ clone[s] <= Committed
    <3>1. s \in Run /\ clone[s] \in 0 .. MaxTrx
      BY <1>1, <1>5 DEF Sound, Typed, SnapsTyped
    <3> QED
      BY <3>1 DEF Sound, Snapped, Timeline
  <2>2. ~(pc \in InClone /\ run = s)
    BY <1>5 DEF Timeline
  <2>3. meta[s] \in File => \A t \in 1 .. Committed : t > clone[s] => placed[t] >= meta[s]
    BY <2>1 DEF Sound, Positioned
  <2>4. Starting'
    BY <1>1, <1>3, <1>5, <2>1, <2>2, <2>3 DEF Starting
  <2>5. Selection' /\ Relayed'
    BY <1>2, <1>3, <1>5 DEF Selection, Relayed
  <2>6. Committed \in Nat
    BY DEF Sound, Typed, ServerTyped, Committed
  <2>7. clone[s] \in clone[s] .. Committed
    BY <2>1, <2>6
  <2>8. Executed'
    BY <1>3, <1>5, <2>1, <2>7 DEF Executed
  <2> QED
    BY <2>4, <2>5, <2>8 DEF Recovered
<1> QED
  BY <1>1, <1>4, <1>5

(* The selection has no hole, and what the clone lacks lies in it or above.  *)
LEMMA SelectKeepsRecovered ==
  ASSUME Sound, Recovered, SelectBinlogs, UNCHANGED vars
  PROVE  Recovered'
<1>1. /\ UNCHANGED <<base, data, relay, placed, active, index, copy, closed, day, Committed>>
      /\ step = "select" /\ step' \in {"target", "done"}
  BY DEF SelectBinlogs, Die, vars, Committed
<1>2. Starting' /\ Executed'
  BY <1>1 DEF Recovered, Starting, Executed
<1>3. Relayed'
  BY <1>1 DEF Recovered, Relayed
<1>4. ASSUME step' = "target" PROVE Selection'
  <2>1. /\ meta[backup] \in index /\ selected' = {f \in index : f >= meta[backup]} /\ selected' \subseteq Copied
    BY <1>4 DEF SelectBinlogs, Die, Startable
  <2>2. index \subseteq File /\ File \subseteq Nat
    BY NumbersTyped DEF Sound
  <2>3. selected' \subseteq File /\ \A f \in selected' : f < active' /\ Kept(f)'
    BY <1>1, <2>1, <2>2 DEF Sound, Copying, Kept
  <2>4. ASSUME NEW t \in 1 .. Committed, t > base, NEW f \in selected', ~(f < placed[t])
        PROVE  placed[t] \in selected'
    <3>1. placed[t] \in Nat
      BY PlacedTyped DEF Sound
    <3>2. placed[t] >= meta[backup]
      BY <1>1, <2>1, <2>2, <2>4 DEF Recovered, Starting
    <3>3. meta[backup] \in Archived /\ f \in Archived /\ meta[backup] \in Nat /\ f \in Nat
      <4>1. meta[backup] \in Nat
        BY <2>1, <2>2
      <4>2. meta[backup] \in selected' /\ f \in index
        BY <2>1, <4>1
      <4> QED
        BY <2>1, <2>2, <4>2 DEF Archived
    <3>4. meta[backup] .. f \subseteq Archived
      BY <3>3 DEF Sound, Unbroken, NoHole
    <3>5. placed[t] \in meta[backup] .. f
      BY <2>4, <3>1, <3>2, <3>3
    <3> QED
      BY <2>1, <3>2, <3>4, <3>5 DEF Archived
  <2> QED
    BY <1>1, <2>3, <2>4 DEF Selection
<1> QED
  BY <1>1, <1>2, <1>3, <1>4 DEF Recovered, Selection

(* What is copied is whole, so that the relay log has a transaction and all  *)
(* before it that the clone lacks.                                           *)
LEMMA RelayKeepsRecovered ==
  ASSUME Sound, Timeline, Recovered, CopyToRelay, UNCHANGED vars
  PROVE  Recovered'
<1>1. /\ UNCHANGED <<base, data, placed, Committed>>
      /\ step = "copy" /\ step' \in {"start", "done"}
  BY DEF CopyToRelay, Die, vars, Committed
<1>2. Starting' /\ Selection' /\ Executed'
  BY <1>1 DEF Recovered, Starting, Selection, Executed
<1>3. CASE relay' = relay
  BY <1>1, <1>2, <1>3 DEF Recovered, Relayed
<1>4. CASE selected \subseteq Copied /\ relay' = UNION {copy[f] : f \in selected}
  <2>1. \A f \in selected : copy[f] = Contents(f)
    BY <1>1, <1>4 DEF Recovered, Selection, Kept, Sound, Copying, Archived
  <2>2. \A t : t \in relay' <=> t \in 1 .. Committed /\ placed[t] \in selected
    BY <1>4, <2>1 DEF Contents
  <2>3. selected \subseteq Nat /\ \A t \in 1 .. Committed : placed[t] \in Nat
    BY <1>1, NumbersTyped, PlacedTyped DEF Sound, Recovered, Selection
  <2>4. ASSUME NEW t \in relay', NEW u \in 1 .. Committed, base < u, u < t PROVE u \in relay'
    <3>1. placed[u] <= placed[t] /\ placed[t] \in selected
      BY <2>2, <2>4 DEF Timeline
    <3>2. ~(placed[t] < placed[u])
      BY <2>2, <2>3, <3>1
    <3>3. u > base
      BY <2>4
    <3>4. placed[u] \in selected
      BY <1>1, <3>1, <3>2, <3>3 DEF Recovered, Selection
    <3> QED
      BY <2>2, <3>4
  <2>5. Relayed'
    BY <1>1, <2>2, <2>4 DEF Relayed
  <2> QED
    BY <1>2, <2>5 DEF Recovered
<1> QED
  BY <1>3, <1>4 DEF CopyToRelay, Die

(* The SQL thread takes the transactions one after another.                  *)
LEMMA ApplyKeepsRecovered ==
  ASSUME Sound, Recovered, Apply, UNCHANGED vars
  PROVE  Recovered'
<1>1. /\ UNCHANGED <<step, backup, base, selected, relay, pc, run, meta, placed, active, index, copy, closed, day, Committed>>
  BY DEF Apply, vars, Committed
<1>2. Starting' /\ Selection' /\ Relayed'
  BY <1>1 DEF Recovered, Starting, Selection, Relayed, Kept, Copied, Gone
<1>3. PICK n \in base .. Committed : data = 1 .. n
  BY DEF Recovered, Executed
<1>4. base \in Nat /\ Committed \in Nat /\ n \in Nat /\ relay \subseteq 1 .. Committed
  BY DEF Recovered, Executed, Relayed, Sound, Typed, ServerTyped, Committed
<1> DEFINE t == Least(relay \ data)
<1>5. relay \ data # {} /\ data' = data \cup {t}
  BY DEF Apply
<1>6. t \in relay /\ t \notin data /\ \A u \in relay \ data : t <= u
  <2>1. \A u \in relay : u \in Nat
    BY <1>4
  <2>2. relay \ data \in SUBSET Nat
    BY <2>1
  <2> QED
    BY <1>5, <2>2, LeastIsLeast
<1> HIDE DEF t
<1>7. t \in Nat /\ n < t /\ t <= Committed
  BY <1>3, <1>4, <1>6
<1>8. t = n + 1
  <2> SUFFICES ASSUME n + 1 < t PROVE FALSE
    BY <1>4, <1>7
  <2>1. n + 1 \in 1 .. Committed /\ base < n + 1
    BY <1>3, <1>4, <1>7
  <2>2. n + 1 \in relay
    BY <1>6, <2>1 DEF Recovered, Relayed
  <2>3. n + 1 \notin data
    BY <1>3, <1>4
  <2>4. t <= n + 1
    BY <1>6, <2>2, <2>3
  <2> QED
    BY <1>4, <1>7, <2>4
<1>9. data' = 1 .. n + 1 /\ n + 1 \in base .. Committed
  BY <1>3, <1>4, <1>5, <1>7, <1>8
<1>10. Executed'
  BY <1>1, <1>4, <1>9 DEF Executed
<1> QED
  BY <1>2, <1>10 DEF Recovered

LEMMA RecoveredStep ==
  ASSUME Daily, Sound, Timeline, Recovered, [AllNext]_allvars
  PROVE  Recovered'
<1>1. CASE Next /\ UNCHANGED recovery
  BY <1>1, BackupKeepsRecovered
<1>2. CASE PickTarget \/ StartSqlThread \/ ThreadGone \/ WaitTimeout
  <2> SUFFICES ASSUME UNCHANGED vars PROVE Recovered'
    BY <1>1 DEF AllNext, allvars
  <2>1. /\ UNCHANGED <<base, data, selected, relay, placed, active, index, copy, closed, day, Committed>>
        /\ step' # "select" /\ step' # "idle"
        /\ step' \in {"target", "copy"} => step = "target"
    BY <1>2 DEF PickTarget, StartSqlThread, ThreadGone, WaitTimeout, Die, Succeed, vars, Committed
  <2> QED
    BY <2>1 DEF Recovered, Starting, Selection, Relayed, Executed, Kept, Copied, Gone
<1>3. CASE UNCHANGED vars /\ (ApplyError \/ UNCHANGED recovery)
  <2>1. UNCHANGED <<step, backup, base, data, selected, relay, vars>>
    BY <1>3 DEF ApplyError, recovery
  <2> QED
    BY <2>1 DEF vars, Recovered, Starting, Selection, Relayed, Executed, Kept, Copied, Gone, Committed
<1>4. CASE UNCHANGED vars /\ (RestoreClone \/ SelectBinlogs \/ CopyToRelay \/ Apply)
  BY <1>4, CloneKeepsRecovered, SelectKeepsRecovered, RelayKeepsRecovered, ApplyKeepsRecovered
<1> QED
  BY <1>1, <1>2, <1>3, <1>4 DEF AllNext, RestoreStep, allvars

LEMMA AlwaysRecovered ==
  ASSUME Daily
  PROVE  AllSpec => [](Typed /\ Recovered)
<1>1. Init => Timeline
  BY BackupAssumption DEF Init, Timeline, Committed, InClone
<1>2. AllInit => Recovered
  <2> SUFFICES ASSUME AllInit PROVE Recovered
    OBVIOUS
  <2>1. step = "idle" /\ base = 0 /\ data = {} /\ relay = {} /\ Committed = 0
    BY DEF AllInit, Init, RestoreInit, Committed
  <2>2. data = 1 .. 0 /\ 0 \in base .. Committed
    BY <2>1
  <2> QED
    BY <2>1, <2>2 DEF Recovered, Starting, Selection, Relayed, Executed
<1>3. Sound /\ Timeline /\ [Next]_vars => Timeline'
  BY TimelineStep DEF Sound
<1>4. Sound /\ Timeline /\ Recovered /\ [AllNext]_allvars => Recovered'
  BY RecoveredStep
<1>5. Spec => []Sound
  <2>1. "busy" \notin Faults /\ Faults \cap {"busy", "query"} = {}
    BY DEF Daily
  <2>2. Spec => [](Typed /\ Positioned) /\ [](Typed /\ Copying) /\ []Snapped /\ [](Typed /\ Unbroken /\ Loop)
    BY <2>1, AlwaysPositioned, AlwaysCopying, AlwaysSnapped, AlwaysUnbroken
  <2>3. Typed /\ Positioned /\ Copying /\ Snapped /\ Unbroken /\ Loop => Sound
    BY DEF Sound
  <2> QED
    BY <2>2, <2>3, PTL
<1>6. Spec => []Timeline
  BY <1>1, <1>3, <1>5, PTL DEF Spec
<1>7. Sound => Typed
  BY DEF Sound
<1> QED
  BY <1>2, <1>4, <1>5, <1>6, <1>7, BackupGoesOn, PTL DEF AllSpec

(* Whatever the instance has executed, at every moment of the recovery, is a *)
(* state the server had: the clone and the binlogs applied to it leave out   *)
(* nothing, while backups and purges go on and are killed.                   *)
THEOREM RecoveriesArePrefixes ==
  ASSUME Daily
  PROVE  AllSpec => []RecoveredIsPrefix
<1>1. Recovered => RecoveredIsPrefix
  <2> SUFFICES ASSUME Recovered PROVE data \in History
    BY DEF RecoveredIsPrefix
  <2>1. PICK n \in base .. Committed : data = 1 .. n /\ base \in Nat
    BY DEF Recovered, Executed
  <2> QED
    BY <2>1 DEF History
<1> QED
  BY <1>1, AlwaysRecovered, PTL
-----------------------------------------------------------------------------
(* The numbers one primary assigns, without a gap.                           *)
Consecutive == \A t \in Trx : GNO[t] = t

NotPassed == (mode = "gtid" \/ Consecutive) => NeverPastTarget

LEMMA NotPassedStep ==
  ASSUME Typed, Halting, Halting', Recovered, Recovered', NotPassed, [AllNext]_allvars
  PROVE  NotPassed'
<1>0. /\ Committed \in Nat /\ Committed <= MaxTrx /\ MaxTrx \in Nat
  BY BackupAssumption DEF Typed, ServerTyped, Committed
<1>1. CASE UNCHANGED <<mode, target, base, data>>
  BY <1>1 DEF NotPassed, NeverPastTarget, Latest
<1>2. CASE data' = 1 .. base' /\ step' # "idle"
  <2>1. base' \in Nat /\ target' \in Nat
    BY <1>2 DEF Halting, Recovered, Executed
  <2>2. Latest(base', target') \in Nat /\ base' <= Latest(base', target')
    BY <2>1 DEF Latest
  <2> QED
    BY <1>2, <2>1, <2>2 DEF NotPassed, NeverPastTarget
<1>3. CASE RestoreClone
  <2>1. step = "idle" /\ step' # "idle" /\ thread = "none" /\ thread' = "none"
    <3>1. PICK s \in dirs : IF meta[s] = NoMeta \/ clone[s] = NoClone THEN step' = "done" ELSE step' = "select"
      BY <1>3 DEF RestoreClone
    <3>2. step = "idle" /\ thread' = thread
      BY <1>3 DEF RestoreClone
    <3> QED
      BY <3>1, <3>2 DEF Halting
  <2> QED
    BY <1>2, <2>1 DEF Halting
<1>4. CASE Apply
  <2>1. /\ UNCHANGED <<mode, target, base, until>> /\ thread = "running" /\ \E t \in relay \ data : data' = data \cup {t}
    <3>1. relay \ data # {} /\ relay \subseteq 1 .. Committed
      BY <1>4 DEF Apply, Recovered, Relayed
    <3>2. relay \ data \in SUBSET Nat
      <4>1. \A t \in relay : t \in Nat
        BY <1>0, <3>1
      <4> QED
        BY <4>1
    <3>3. Least(relay \ data) \in relay \ data
      BY <3>1, <3>2, LeastIsLeast
    <3> QED
      BY <1>4, <3>3 DEF Apply
  <2>2. until \in Trx /\ until <= target /\ target \in Nat /\ until \in Nat /\ ~Reached(data) /\ step # "idle"
    BY <2>1, BackupAssumption DEF Halting, Trx
  <2>3. PICK m \in base .. Committed : data = 1 .. m /\ base \in Nat
    BY DEF Recovered, Executed
  <2>4. PICK n \in base' .. Committed' : data' = 1 .. n /\ base' \in Nat
    BY DEF Recovered, Executed
  <2> SUFFICES ASSUME mode = "gtid" \/ Consecutive PROVE NeverPastTarget'
    BY <2>1 DEF NotPassed, Consecutive
  <2>5. m < until
    <3> SUFFICES ASSUME until <= m PROVE Reached(data)
      BY <1>0, <2>2, <2>3
    <3>1. 1 .. until \subseteq data /\ until \in data
      BY <1>0, <2>2, <2>3 DEF Trx
    <3>2. CASE mode = "gtid"
      BY <3>1, <3>2 DEF Reached, AfterGtids
    <3>3. CASE mode # "gtid" /\ Consecutive
      <4>1. GNO[until] = until /\ \A t \in 1 .. until : t \in Trx /\ GNO[t] = t
        BY <2>2, <3>3, BackupAssumption DEF Consecutive, Trx
      <4> QED
        BY <3>1, <3>3, <4>1 DEF Reached, AfterGtids
    <3> QED
      BY <3>2, <3>3
  <2>6. n <= m + 1
    <3> SUFFICES ASSUME n > m + 1 PROVE FALSE
      BY <1>0, <2>3, <2>4
    <3>1. m + 1 \in data' /\ m + 2 \in data' /\ m + 1 \notin data /\ m + 2 \notin data /\ m + 1 # m + 2
      BY <1>0, <2>3, <2>4
    <3> QED
      BY <2>1, <3>1
  <2>7. data' \subseteq 1 .. target'
    BY <1>0, <2>1, <2>2, <2>3, <2>4, <2>5, <2>6
  <2>8. Latest(base', target') \in Nat /\ target' <= Latest(base', target')
    BY <2>1, <2>2, <2>4 DEF Latest
  <2> QED
    BY <2>1, <2>2, <2>7, <2>8 DEF NeverPastTarget
<1>5. CASE SelectBinlogs \/ PickTarget \/ CopyToRelay \/ StartSqlThread \/ ThreadGone \/ WaitTimeout \/ ApplyError
  BY <1>1, <1>5 DEF SelectBinlogs, PickTarget, CopyToRelay, StartSqlThread, ThreadGone, WaitTimeout, ApplyError, Die, Succeed
<1> QED
  BY <1>1, <1>3, <1>4, <1>5 DEF AllNext, RestoreStep, allvars, recovery

LEMMA AlwaysNotPassed ==
  ASSUME Daily
  PROVE  AllSpec => []NotPassed
<1>1. AllInit => NotPassed
  BY DEF AllInit, RestoreInit, NotPassed, NeverPastTarget
<1>2. Typed /\ Halting /\ Halting' /\ Recovered /\ Recovered' /\ NotPassed /\ [AllNext]_allvars => NotPassed'
  BY NotPassedStep
<1> QED
  BY <1>1, <1>2, AlwaysHalting, AlwaysRecovered, PTL DEF AllSpec

(* A recovery to a GTID never executes a transaction after its target, at no *)
(* moment and whatever becomes of it.                                        *)
THEOREM TargetsAreNotPassed ==
  ASSUME Daily
  PROVE  AllSpec => [](mode = "gtid" => NeverPastTarget)
<1>1. NotPassed => (mode = "gtid" => NeverPastTarget)
  BY DEF NotPassed
<1> QED
  BY <1>1, AlwaysNotPassed, PTL

(* Nor does one to a time, when the numbers of the GTIDs have no gap.        *)
THEOREM TimesAreNotPassed ==
  ASSUME Daily, Consecutive
  PROVE  AllSpec => []NeverPastTarget
<1>1. NotPassed => NeverPastTarget
  BY DEF NotPassed
<1> QED
  BY <1>1, AlwaysNotPassed, PTL
=============================================================================
