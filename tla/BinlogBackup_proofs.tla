------------------------- MODULE BinlogBackup_proofs -------------------------
(***************************************************************************)
(* Proofs about BinlogBackup, for any number of transactions, binlogs,     *)
(* runs and days.                                                          *)
(***************************************************************************)
EXTENDS BinlogBackup, FiniteSetTheorems, WellFoundedInduction, TLAPS

(* A set of numbers that is not empty has a least one.                       *)
LEMMA LeastIsLeast ==
  ASSUME NEW S \in SUBSET Nat, S # {}
  PROVE  Least(S) \in S /\ \A y \in S : Least(S) <= y
<1> DEFINE R == OpToRel(<, Nat)
<1>1. IsWellFoundedOn(R, Nat)
  BY NatLessThanWellFounded
<1>2. PICK x \in S : \A y \in S : <<y, x>> \notin R
  BY <1>1, WFMin, Zenon
<1>3. \A y \in S : <<y, x>> \in R <=> y < x
  BY DEF OpToRel
<1> HIDE DEF R
<1>4. \A y \in S : ~(y < x)
  BY <1>2, <1>3
<1>5. \A y \in S : y \in Nat
  OBVIOUS
<1>6. \A y \in S : x <= y
  BY <1>4, <1>5
<1> QED
  BY <1>5, <1>6 DEF Least
-----------------------------------------------------------------------------
(* TypeOK by the parts that a step changes together.  ControlTyped also has  *)
(* what the bounds leave to a running backup: a binlog to flush to, and a    *)
(* START_TIME of its own.                                                    *)
ServerTyped ==
  /\ placed \in Seq(File) /\ Committed <= MaxTrx
  /\ active \in File /\ oldest \in 1 .. active /\ closed \in [File -> 0 .. MaxDay]

ClockTyped == day \in 0 .. MaxDay /\ ran \in 0 .. MaxDay

SnapsTyped ==
  /\ dirs \subseteq Run
  /\ clone \in [Run -> (0 .. MaxTrx) \cup {NoClone, Torn}]
  /\ meta \in [Run -> File \cup {NoFile, NoMeta}]

CopyValue == (SUBSET Trx) \cup {NoCopy}

CopiesTyped ==
  /\ copy \in [File -> CopyValue] /\ mtime \in [File -> 0 .. MaxDay]
  /\ index \subseteq File

LocalTyped ==
  /\ run \in 0 .. MaxRun /\ binlog_active \in File \cup {NoFile} /\ missing \subseteq File

ControlTyped ==
  /\ pc \in Label
  /\ missing # {} <=> pc \in {"copy", "append"}
  /\ pc \in {"prepare", "check", "clone", "position", "flush"} => active < MaxFile
  /\ pc = "prepare" => run < MaxRun
  /\ pc \notin {"idle", "prepare"} => run \in Run

Typed == ServerTyped /\ ClockTyped /\ SnapsTyped /\ CopiesTyped /\ LocalTyped /\ ControlTyped

(* A rotation gives the server its next binlog and keeps the types.          *)
LEMMA RotatedType ==
  ASSUME ServerTyped, ClockTyped, active < MaxFile, Rotated
  PROVE  /\ placed' = placed /\ active' = active + 1
         /\ ServerTyped'
<1> DEFINE now_closed == [closed EXCEPT ![active] = day]
           expired == {f \in OnServer : day > now_closed[f] + ServerDays}
           kept == (oldest .. active + 1) \ expired
<1>1. /\ placed' = placed /\ active' = active + 1
      /\ closed' = now_closed /\ oldest' = Least(kept)
  BY DEF Rotated
<1>2. active \in Nat /\ active + 1 \in File /\ oldest \in 1 .. active
  BY BackupAssumption DEF ServerTyped, File
<1>3. kept \in SUBSET Nat /\ kept # {} /\ kept \subseteq 1 .. active + 1
  <2>1. active + 1 \notin expired
    BY <1>2 DEF OnServer
  <2>2. active + 1 \in kept
    BY <1>2, <2>1
  <2> QED
    BY <1>2, <2>2
<1>4. Least(kept) \in 1 .. active + 1
  BY <1>3, LeastIsLeast
<1>5. now_closed \in [File -> 0 .. MaxDay]
  BY DEF ServerTyped, ClockTyped
<1> HIDE DEF now_closed, kept
<1> QED
  BY <1>1, <1>2, <1>4, <1>5 DEF ServerTyped, Committed

(* What a copy can hold: a binlog, a part of nothing, or no copy.            *)
LEMMA CopyValues ==
  ASSUME ServerTyped
  PROVE  /\ {} \in CopyValue /\ NoCopy \in CopyValue
         /\ \A f : Contents(f) \in CopyValue
<1>1. Committed \in Nat /\ Committed <= MaxTrx
  BY DEF ServerTyped, Committed
<1>2. \A f : Contents(f) \subseteq Trx
  BY <1>1, BackupAssumption DEF Contents, Trx
<1>3. {} \in SUBSET Trx /\ \A f : Contents(f) \in SUBSET Trx
  BY <1>2, Zenon
<1>4. \A c \in SUBSET Trx : c \in CopyValue
  BY DEF CopyValue
<1>5. NoCopy \in CopyValue
  BY DEF CopyValue
<1> QED
  BY <1>3, <1>4, <1>5, Zenon

(* The copy loop takes a binlog out of its list.                             *)
LEMMA NextIsMissing ==
  ASSUME LocalTyped, missing # {}
  PROVE  Least(missing) \in missing /\ Least(missing) \in File
<1>1. missing \in SUBSET Nat /\ missing \subseteq File
  BY DEF LocalTyped, File
<1> QED
  BY <1>1, LeastIsLeast

(* Every step keeps the types.                                               *)
LEMMA TypedStep ==
  ASSUME Typed, [Next]_vars
  PROVE  Typed'
<1> USE BackupAssumption
<1>0. /\ ServerTyped /\ ClockTyped /\ SnapsTyped
      /\ CopiesTyped /\ LocalTyped /\ ControlTyped
  BY DEF Typed
<1>1. CASE Commit
  <2>1. ClockTyped' /\ SnapsTyped' /\ CopiesTyped' /\ LocalTyped' /\ ControlTyped'
    BY <1>0, <1>1 DEF Commit, ClockTyped, SnapsTyped, CopiesTyped, LocalTyped, ControlTyped, snaps, copies, local
  <2>2. ServerTyped'
    BY <1>0, <1>1 DEF Commit, ServerTyped, Committed
  <2> QED
    BY <2>1, <2>2 DEF Typed
<1>2. CASE Rotate
  <2>1. active < MaxFile
    BY <1>0, <1>2 DEF Rotate, ServerTyped, File
  <2>2. Rotated /\ ServerTyped'
    BY <1>0, <1>2, <2>1, RotatedType DEF Rotate
  <2>3. ClockTyped' /\ SnapsTyped' /\ CopiesTyped' /\ LocalTyped'
    BY <1>0, <1>2 DEF Rotate, ClockTyped, SnapsTyped, CopiesTyped, LocalTyped, snaps, copies, local
  <2>4. active' = active + 1
    BY <1>0, <2>1, <2>2, RotatedType
  <2>5. ControlTyped'
    BY <1>0, <1>2, <2>4 DEF Rotate, ControlTyped, Label, ServerTyped, File, local
  <2> QED
    BY <2>2, <2>3, <2>5 DEF Typed
<1>3. CASE NewDay
  <2>1. ServerTyped' /\ SnapsTyped' /\ CopiesTyped' /\ LocalTyped' /\ ControlTyped'
    BY <1>0, <1>3 DEF NewDay, ServerTyped, SnapsTyped, CopiesTyped, LocalTyped, ControlTyped, Committed, server, snaps, copies, local
  <2>2. ClockTyped'
    BY <1>0, <1>3 DEF NewDay, ClockTyped
  <2> QED
    BY <2>1, <2>2 DEF Typed
<1>4. CASE ScheduleStart
  <2>1. ServerTyped' /\ ClockTyped' /\ SnapsTyped' /\ CopiesTyped' /\ LocalTyped'
    BY <1>0, <1>4 DEF ScheduleStart, ServerTyped, ClockTyped, SnapsTyped, CopiesTyped, LocalTyped, Committed, server, snaps, copies, local
  <2>2. ControlTyped'
    BY <1>0, <1>4 DEF ScheduleStart, ControlTyped, LocalTyped, Label, Goto, server, local
  <2> QED
    BY <2>1, <2>2 DEF Typed
<1>5. CASE Prepare
  <2>1. ServerTyped' /\ ClockTyped' /\ CopiesTyped'
    BY <1>0, <1>5 DEF Prepare, ServerTyped, ClockTyped, CopiesTyped, Committed, server, copies
  <2>2. SnapsTyped'
    BY <1>0, <1>5 DEF Prepare, SnapsTyped, ControlTyped, LocalTyped, Run
  <2>3. LocalTyped'
    BY <1>0, <1>5 DEF Prepare, LocalTyped, ControlTyped, Run, Label
  <2>4. ControlTyped'
    BY <1>0, <1>5 DEF Prepare, ControlTyped, LocalTyped, Run, Label, Goto, server
  <2> QED
    BY <2>1, <2>2, <2>3, <2>4 DEF Typed
<1>6. CASE CheckMysql
  <2>1. ServerTyped' /\ ClockTyped' /\ SnapsTyped' /\ CopiesTyped' /\ LocalTyped'
    BY <1>0, <1>6 DEF CheckMysql, ServerTyped, ClockTyped, SnapsTyped, CopiesTyped, LocalTyped, Committed, server, snaps, copies, local
  <2>2. ControlTyped'
    BY <1>0, <1>6 DEF CheckMysql, ControlTyped, Label, Goto, server, local
  <2> QED
    BY <2>1, <2>2 DEF Typed
<1>7. CASE CheckFails
  <2>1. ServerTyped' /\ ClockTyped' /\ SnapsTyped' /\ CopiesTyped'
    BY <1>0, <1>7 DEF CheckFails, RunFails, ServerTyped, ClockTyped, SnapsTyped, CopiesTyped, Committed, server, snaps, copies
  <2>2. LocalTyped'
    BY <1>0, <1>7 DEF CheckFails, RunFails, LocalTyped
  <2>3. ControlTyped'
    BY <1>0, <1>7 DEF CheckFails, RunFails, ControlTyped, Label, Goto, server
  <2> QED
    BY <2>1, <2>2, <2>3 DEF Typed
<1>8. CASE Clone
  <2>1. ServerTyped' /\ ClockTyped' /\ CopiesTyped' /\ LocalTyped'
    BY <1>0, <1>8 DEF Clone, ServerTyped, ClockTyped, CopiesTyped, LocalTyped, Committed, server, copies, local
  <2>2. SnapsTyped'
    <3>1. Committed \in 0 .. MaxTrx
      BY <1>0 DEF ServerTyped, Committed
    <3>2. clone' \in [Run -> (0 .. MaxTrx) \cup {NoClone, Torn}]
      BY <1>0, <1>8, <3>1 DEF Clone, SnapsTyped
    <3> QED
      BY <1>0, <1>8, <3>2 DEF Clone, SnapsTyped
  <2>3. ControlTyped'
    BY <1>0, <1>8 DEF Clone, ControlTyped, Label, Goto, server, local
  <2> QED
    BY <2>1, <2>2, <2>3 DEF Typed
<1>9. CASE CloneFails
  <2>1. ServerTyped' /\ ClockTyped' /\ SnapsTyped' /\ CopiesTyped'
    BY <1>0, <1>9 DEF CloneFails, RunFails, ServerTyped, ClockTyped, SnapsTyped, CopiesTyped, Committed, server, snaps, copies
  <2>2. LocalTyped'
    BY <1>0, <1>9 DEF CloneFails, RunFails, LocalTyped
  <2>3. ControlTyped'
    BY <1>0, <1>9 DEF CloneFails, RunFails, ControlTyped, Label, Goto, server
  <2> QED
    BY <2>1, <2>2, <2>3 DEF Typed
<1>10. CASE WriteMeta
  <2>1. ServerTyped' /\ ClockTyped' /\ CopiesTyped' /\ LocalTyped'
    BY <1>0, <1>10 DEF WriteMeta, ServerTyped, ClockTyped, CopiesTyped, LocalTyped, Committed, server, copies, local
  <2>2. SnapsTyped'
    BY <1>0, <1>10 DEF WriteMeta, SnapsTyped, ServerTyped
  <2>3. ControlTyped'
    BY <1>0, <1>10 DEF WriteMeta, ControlTyped, Label, Goto, server, local
  <2> QED
    BY <2>1, <2>2, <2>3 DEF Typed
<1>11. CASE Flush
  <2>1. active < MaxFile
    BY <1>0, <1>11 DEF Flush, ControlTyped
  <2>2. ServerTyped'
    BY <1>0, <1>11, <2>1, RotatedType DEF Flush, ServerTyped, Committed, server
  <2>3. ClockTyped' /\ SnapsTyped' /\ CopiesTyped' /\ LocalTyped'
    BY <1>0, <1>11 DEF Flush, ClockTyped, SnapsTyped, CopiesTyped, LocalTyped, snaps, copies, local
  <2>4. ControlTyped'
    BY <1>0, <1>11 DEF Flush, ControlTyped, Label, Goto, local
  <2> QED
    BY <2>2, <2>3, <2>4 DEF Typed
<1>12. CASE BinlogSkipped
  <2>1. ServerTyped' /\ ClockTyped' /\ SnapsTyped' /\ CopiesTyped' /\ LocalTyped'
    BY <1>0, <1>12 DEF BinlogSkipped, ServerTyped, ClockTyped, SnapsTyped, CopiesTyped, LocalTyped, Committed, server, snaps, copies, local
  <2>2. ControlTyped'
    BY <1>0, <1>12 DEF BinlogSkipped, ControlTyped, Label, Goto, server, local
  <2> QED
    BY <2>1, <2>2 DEF Typed
<1>13. CASE ReadActive
  <2>1. ServerTyped' /\ ClockTyped' /\ SnapsTyped' /\ CopiesTyped'
    BY <1>0, <1>13 DEF ReadActive, ServerTyped, ClockTyped, SnapsTyped, CopiesTyped, Committed, server, snaps, copies
  <2>2. LocalTyped'
    BY <1>0, <1>13 DEF ReadActive, LocalTyped, ServerTyped
  <2>3. ControlTyped'
    BY <1>0, <1>13 DEF ReadActive, ControlTyped, Label, Goto, server
  <2> QED
    BY <2>1, <2>2, <2>3 DEF Typed
<1>14. CASE ListMissing
  <2>1. ServerTyped' /\ ClockTyped' /\ SnapsTyped' /\ CopiesTyped'
    BY <1>0, <1>14 DEF ListMissing, ServerTyped, ClockTyped, SnapsTyped, CopiesTyped, Committed, server, snaps, copies
  <2>2. LocalTyped'
    BY <1>0, <1>14 DEF ListMissing, LocalTyped, ServerTyped, OnServer, File
  <2>3. ControlTyped'
    BY <1>0, <1>14 DEF ListMissing, ControlTyped, Label, Goto, server
  <2> QED
    BY <2>1, <2>2, <2>3 DEF Typed
<1>15. CASE CopyBinlog
  <2>1. ServerTyped' /\ ClockTyped' /\ SnapsTyped' /\ LocalTyped'
    BY <1>0, <1>15 DEF CopyBinlog, ServerTyped, ClockTyped, SnapsTyped, LocalTyped, Committed, server, snaps, local
  <2>2. CopiesTyped'
    BY <1>0, <1>15, CopyValues DEF CopyBinlog, CopiesTyped, ClockTyped
  <2>3. ControlTyped'
    BY <1>0, <1>15 DEF CopyBinlog, ControlTyped, Label, Goto, server, local
  <2> QED
    BY <2>1, <2>2, <2>3 DEF Typed
<1>16. CASE AppendIndex
  <2>1. ServerTyped' /\ ClockTyped' /\ SnapsTyped'
    BY <1>0, <1>16 DEF AppendIndex, NextMissing, ServerTyped, ClockTyped, SnapsTyped, Committed, server, snaps, copies
  <2>2. CopiesTyped'
    BY <1>0, <1>16, NextIsMissing DEF AppendIndex, NextMissing, CopiesTyped, ControlTyped, copies
  <2>3. LocalTyped'
    BY <1>0, <1>16 DEF AppendIndex, NextMissing, LocalTyped
  <2>4. ControlTyped'
    BY <1>0, <1>16 DEF AppendIndex, NextMissing, ControlTyped, Label, Goto, server
  <2> QED
    BY <2>1, <2>2, <2>3, <2>4 DEF Typed
<1>17. CASE CopyFails
  <2>1. ServerTyped' /\ ClockTyped' /\ SnapsTyped'
    BY <1>0, <1>17 DEF CopyFails, NextMissing, ServerTyped, ClockTyped, SnapsTyped, Committed, server, snaps, copies
  <2>2. CopiesTyped'
    BY <1>0, <1>17, CopyValues DEF CopyFails, NextMissing, CopiesTyped, ClockTyped, copies
  <2>3. LocalTyped'
    BY <1>0, <1>17 DEF CopyFails, NextMissing, LocalTyped
  <2>4. ControlTyped'
    BY <1>0, <1>17 DEF CopyFails, NextMissing, ControlTyped, Label, Goto, server
  <2> QED
    BY <2>1, <2>2, <2>3, <2>4 DEF Typed
<1>18. CASE PurgeSnapshot
  <2>1. ServerTyped' /\ ClockTyped' /\ CopiesTyped' /\ LocalTyped' /\ ControlTyped'
    BY <1>0, <1>18 DEF PurgeSnapshot, ServerTyped, ClockTyped, CopiesTyped, LocalTyped, ControlTyped, Committed, server, copies, local
  <2>2. SnapsTyped'
    BY <1>0, <1>18 DEF PurgeSnapshot, SnapsTyped
  <2> QED
    BY <2>1, <2>2 DEF Typed
<1>19. CASE PurgeSnapshotsDone
  <2>1. ServerTyped' /\ ClockTyped' /\ SnapsTyped' /\ CopiesTyped' /\ LocalTyped'
    BY <1>0, <1>19 DEF PurgeSnapshotsDone, ServerTyped, ClockTyped, SnapsTyped, CopiesTyped, LocalTyped, Committed, server, snaps, copies, local
  <2>2. ControlTyped'
    BY <1>0, <1>19 DEF PurgeSnapshotsDone, ControlTyped, Label, Goto, server, local
  <2> QED
    BY <2>1, <2>2 DEF Typed
<1>20. CASE PurgeBinlog
  <2>1. ServerTyped' /\ ClockTyped' /\ SnapsTyped' /\ LocalTyped' /\ ControlTyped'
    BY <1>0, <1>20 DEF PurgeBinlog, ServerTyped, ClockTyped, SnapsTyped, LocalTyped, ControlTyped, Committed, server, snaps, local
  <2>2. CopiesTyped'
    BY <1>0, <1>20, CopyValues DEF PurgeBinlog, CopiesTyped
  <2> QED
    BY <2>1, <2>2 DEF Typed
<1>21. CASE PurgeBinlogsDone
  <2>1. ServerTyped' /\ ClockTyped' /\ SnapsTyped' /\ CopiesTyped' /\ LocalTyped'
    BY <1>0, <1>21 DEF PurgeBinlogsDone, ServerTyped, ClockTyped, SnapsTyped, CopiesTyped, LocalTyped, Committed, server, snaps, copies, local
  <2>2. ControlTyped'
    BY <1>0, <1>21 DEF PurgeBinlogsDone, ControlTyped, Label, Goto, server, local
  <2> QED
    BY <2>1, <2>2 DEF Typed
<1>22. CASE RebuildIndex
  <2>1. ServerTyped' /\ SnapsTyped'
    BY <1>0, <1>22 DEF RebuildIndex, ServerTyped, SnapsTyped, Committed, server, snaps, copies
  <2>2. ClockTyped'
    BY <1>0, <1>22 DEF RebuildIndex, ClockTyped
  <2>3. CopiesTyped'
    BY <1>0, <1>22 DEF RebuildIndex, CopiesTyped, Archived, copies
  <2>4. LocalTyped'
    BY <1>0, <1>22 DEF RebuildIndex, LocalTyped
  <2>5. ControlTyped'
    BY <1>0, <1>22 DEF RebuildIndex, ControlTyped, Label, Goto, server
  <2> QED
    BY <2>1, <2>2, <2>3, <2>4, <2>5 DEF Typed
<1>23. CASE Crash
  <2>1. ServerTyped' /\ ClockTyped'
    BY <1>0, <1>23 DEF Crash, ServerTyped, ClockTyped, Committed, server, copies
  <2>2. SnapsTyped'
    BY <1>0, <1>23 DEF Crash, SnapsTyped
  <2>3. CopiesTyped'
    BY <1>0, <1>23, CopyValues DEF Crash, CopiesTyped, ClockTyped, copies
  <2>4. LocalTyped'
    BY <1>0, <1>23 DEF Crash, LocalTyped
  <2>5. ControlTyped'
    BY <1>0, <1>23 DEF Crash, ControlTyped, Label, Goto, server
  <2> QED
    BY <2>1, <2>2, <2>3, <2>4, <2>5 DEF Typed
<1>24. CASE UNCHANGED vars
  BY <1>0, <1>24 DEF Typed, ServerTyped, ClockTyped, SnapsTyped, CopiesTyped, LocalTyped, ControlTyped, Committed, vars
<1> QED
  BY <1>1, <1>2, <1>3, <1>4, <1>5, <1>6, <1>7, <1>8, <1>9, <1>10, <1>11, <1>12, <1>13, <1>14, <1>15, <1>16, <1>17, <1>18, <1>19, <1>20, <1>21, <1>22, <1>23, <1>24 DEF Next, BackupStep

LEMMA TypedInit ==
  Init => Typed
<1> SUFFICES ASSUME Init PROVE Typed
  OBVIOUS
<1> USE BackupAssumption DEF Init
<1>1. ServerTyped /\ ClockTyped
  BY DEF ServerTyped, ClockTyped, Committed, File
<1>2. SnapsTyped
  BY DEF SnapsTyped, Run
<1>3. NoCopy \in CopyValue
  BY DEF CopyValue
<1>4. CopiesTyped
  BY <1>3 DEF CopiesTyped
<1>5. LocalTyped /\ ControlTyped
  BY DEF LocalTyped, ControlTyped, Label
<1> QED
  BY <1>1, <1>2, <1>4, <1>5 DEF Typed

LEMMA AlwaysTyped ==
  Spec => []Typed
<1>1. Init => Typed
  BY TypedInit
<1>2. Typed /\ [Next]_vars => Typed'
  BY TypedStep
<1> QED
  BY <1>1, <1>2, PTL DEF Spec

(* Every variable of the backup has its type, whatever the bounds and the    *)
(* faults, and the copy loop runs exactly while there is something to copy.  *)
THEOREM ArchiveTypeCorrect ==
  Spec => []TypeOK
<1>1. Typed => TypeOK
  BY DEF Typed, TypeOK, ServerTyped, ClockTyped, SnapsTyped, CopiesTyped, CopyValue, LocalTyped, ControlTyped
<1> QED
  BY <1>1, AlwaysTyped, PTL
-----------------------------------------------------------------------------
(* The position of a snapshot.  Up to now everything was committed to the    *)
(* active binlog or an earlier one; a meta file never names a later one; and *)
(* as long as a finished clone waits for its position, what it lacks is in   *)
(* the active binlog.                                                        *)
Positioned ==
  /\ \A t \in 1 .. Committed : placed[t] <= active
  /\ \A s \in Run : meta[s] \in File => meta[s] <= active
  /\ \A s \in Run : meta[s] \in File /\ clone[s] \in Nat =>
       \A t \in 1 .. Committed : t > clone[s] => placed[t] >= meta[s]
  /\ pc = "position" =>
       clone[run] \in Nat /\ \A t \in 1 .. Committed : t > clone[run] => placed[t] = active

LEMMA PositionedStep ==
  ASSUME "busy" \notin Faults, Typed, Positioned, [Next]_vars
  PROVE  Positioned'
<1> USE BackupAssumption
<1>0. /\ ServerTyped /\ SnapsTyped /\ LocalTyped /\ ControlTyped
      /\ Committed \in Nat
  BY DEF Typed, ServerTyped, Committed
<1>1. CASE Commit
  <2>1. /\ Committed' = Committed + 1
        /\ placed'[Committed + 1] = active
        /\ \A t \in 1 .. Committed : placed'[t] = placed[t]
    BY <1>0, <1>1 DEF Commit, ServerTyped, Committed
  <2>2. \A t \in (1 .. Committed)' : t \in 1 .. Committed \/ t = Committed + 1
    BY <1>0, <2>1
  <2>3. active \in Nat
    BY <1>0 DEF ServerTyped, File
  <2>4. UNCHANGED <<active, meta, clone, run, pc>>
    BY <1>1 DEF Commit, snaps, local
  <2>5. \A t \in (1 .. Committed)' : placed'[t] <= active'
    BY <2>1, <2>2, <2>3, <2>4 DEF Positioned
  <2>6. \A s \in Run : meta'[s] \in File => meta'[s] <= active'
    BY <2>4 DEF Positioned
  <2>7. \A s \in Run : meta'[s] \in File /\ clone'[s] \in Nat =>
          \A t \in (1 .. Committed)' : t > clone'[s] => placed'[t] >= meta'[s]
    <3> SUFFICES ASSUME NEW s \in Run, meta[s] \in File, clone[s] \in Nat,
                        NEW t \in (1 .. Committed)', t > clone[s]
                 PROVE  placed'[t] >= meta[s]
      BY <2>4
    <3>1. CASE t \in 1 .. Committed
      BY <2>1, <3>1 DEF Positioned
    <3>2. CASE t = Committed + 1
      BY <2>1, <2>3, <3>2 DEF Positioned, File
    <3> QED
      BY <2>2, <3>1, <3>2
  <2>8. pc = "position" => \A t \in (1 .. Committed)' : t > clone[run] => placed'[t] = active
    BY <2>1, <2>2 DEF Positioned
  <2> QED
    BY <2>4, <2>5, <2>6, <2>7, <2>8 DEF Positioned
<1>2. CASE UNCHANGED <<placed, active, meta, clone>> /\ pc' # "position"
  BY <1>2 DEF Positioned, Committed
<1>10. CASE UNCHANGED <<placed, active, meta, clone, run, pc>>
  BY <1>10 DEF Positioned, Committed
<1>3. CASE Rotated /\ UNCHANGED <<meta, clone>> /\ pc' # "position"
  <2>1. placed' = placed /\ active' = active + 1
    BY <1>3 DEF Rotated
  <2>2. active \in Nat /\ \A t \in 1 .. Committed : placed[t] \in Nat
    BY <1>0 DEF ServerTyped, File, Committed
  <2> QED
    BY <1>3, <2>1, <2>2 DEF Positioned, Committed, File
<1>4. CASE Rotate
  BY <1>3, <1>4 DEF Rotate, snaps
<1>5. CASE Flush
  BY <1>2, <1>3, <1>5 DEF Flush, server, snaps, local, Goto
<1>6. CASE Clone
  <2>1. run \in Run /\ clone' = [clone EXCEPT ![run] = Committed] /\ pc' = "position"
    BY <1>0, <1>6 DEF Clone, ControlTyped, Goto
  <2> QED
    BY <1>0, <1>6, <2>1 DEF Clone, Positioned, SnapsTyped, Committed, server, local
<1>7. CASE WriteMeta
  <2>1. run \in Run /\ pc' = "flush"
    BY <1>0, <1>7 DEF WriteMeta, ControlTyped, Goto
  <2>2. UNCHANGED <<placed, active, clone, run>>
    BY <1>7 DEF WriteMeta, server, local
  <2>3. \A s \in Run : s # run => meta'[s] = meta[s]
    BY <1>0, <1>7 DEF WriteMeta, SnapsTyped
  <2>4. meta'[run] = active \/ meta'[run] = NoFile
    BY <1>0, <1>7, <2>1 DEF WriteMeta, SnapsTyped
  <2>5. NoFile \notin File /\ active \in Nat
    BY <1>0 DEF NoFile, File, ServerTyped
  <2>6. pc = "position"
    BY <1>7 DEF WriteMeta
  <2> QED
    BY <1>0, <2>1, <2>2, <2>3, <2>4, <2>5, <2>6 DEF Positioned, Committed, File
<1>8. CASE PurgeSnapshot \/ Crash
  <2>1. UNCHANGED <<placed, active, run>> /\ pc' # "position"
    BY <1>8 DEF PurgeSnapshot, Crash, server, local, Goto
  <2>2. \A s \in Run : \/ meta'[s] = meta[s] /\ clone'[s] = clone[s]
                       \/ meta'[s] = NoMeta
                       \/ clone'[s] \notin Nat /\ meta'[s] = meta[s]
    <3>1. CASE PurgeSnapshot
      BY <1>0, <3>1 DEF PurgeSnapshot, SnapsTyped
    <3>2. CASE Crash /\ UNCHANGED <<clone, meta>>
      BY <3>2
    <3>3. CASE Crash /\ clone' = [clone EXCEPT ![Least(dirs)] = Torn] /\ UNCHANGED meta
      BY <1>0, <3>3 DEF SnapsTyped
    <3>4. CASE Crash /\ clone' = [clone EXCEPT ![Least(dirs)] = NoClone]
                     /\ meta' = [meta EXCEPT ![Least(dirs)] = NoMeta]
      BY <1>0, <3>4 DEF SnapsTyped
    <3> QED
      BY <1>8, <3>1, <3>2, <3>3, <3>4 DEF Crash
  <2>3. NoMeta \notin File
    BY DEF File
  <2> QED
    BY <2>1, <2>2, <2>3 DEF Positioned, Committed
<1>9. CASE \/ ScheduleStart \/ Prepare \/ CheckMysql \/ CheckFails \/ CloneFails
           \/ BinlogSkipped \/ ReadActive \/ ListMissing \/ CopyBinlog \/ AppendIndex \/ CopyFails
           \/ PurgeSnapshotsDone \/ PurgeBinlog \/ PurgeBinlogsDone \/ RebuildIndex
  <2>1. UNCHANGED <<placed, active, meta, clone>>
    BY <1>9 DEF ScheduleStart, Prepare, CheckMysql, CheckFails, CloneFails, RunFails, BinlogSkipped,
                ReadActive, ListMissing, CopyBinlog, AppendIndex, CopyFails, NextMissing,
                PurgeSnapshotsDone, PurgeBinlog, PurgeBinlogsDone, RebuildIndex, server, snaps
  <2>2. pc' # "position"
    BY <1>9 DEF ScheduleStart, Prepare, CheckMysql, CheckFails, CloneFails, RunFails, BinlogSkipped,
                ReadActive, ListMissing, CopyBinlog, AppendIndex, CopyFails, NextMissing, Goto,
                PurgeSnapshotsDone, PurgeBinlog, PurgeBinlogsDone, RebuildIndex
  <2> QED
    BY <1>2, <2>1, <2>2
<1>11. CASE NewDay \/ UNCHANGED vars
  BY <1>10, <1>11 DEF NewDay, vars, server, snaps, local
<1> QED
  BY <1>1, <1>4, <1>5, <1>6, <1>7, <1>8, <1>9, <1>11 DEF Next, BackupStep

LEMMA AlwaysPositioned ==
  ASSUME "busy" \notin Faults
  PROVE  Spec => [](Typed /\ Positioned)
<1>1. Init => Positioned
  BY BackupAssumption DEF Init, Positioned, Committed, File
<1>2. Typed /\ Positioned /\ [Next]_vars => Positioned'
  BY PositionedStep
<1> QED
  BY <1>1, <1>2, AlwaysTyped, PTL DEF Spec

(* When the server does not rotate by itself while a backup runs, a recovery *)
(* that starts at the binlog a meta file names skips nothing: whatever fails,*)
(* and wherever a run is killed.                                             *)
THEOREM PositionsCoverClones ==
  ASSUME "busy" \notin Faults
  PROVE  Spec => []MetaCoversClone
<1>1. Typed /\ Positioned => MetaCoversClone
  BY DEF Typed, SnapsTyped, Positioned, MetaCoversClone
<1> QED
  BY <1>1, AlwaysPositioned, PTL
-----------------------------------------------------------------------------
(* The copies.  What is listed, or about to be copied, is closed; nothing    *)
(* listed is copied again; the name taken for the active binlog is still     *)
(* right when the list is made; and what is about to be listed was copied    *)
(* whole.                                                                    *)
Copying ==
  /\ \A f \in index \cup missing : f < active
  /\ missing \cap index = {}
  /\ \A f \in Archived : copy[f] = Contents(f)
  /\ pc = "list" => binlog_active = active
  /\ pc = "append" => copy[Least(missing)] = Contents(Least(missing))

(* A closed binlog keeps its contents.                                       *)
LEMMA ClosedStays ==
  ASSUME Typed, Commit, NEW f \in File, f < active
  PROVE  Contents(f)' = Contents(f)
<1>1. /\ Committed \in Nat /\ Committed' = Committed + 1
      /\ placed'[Committed + 1] = active
      /\ \A t \in 1 .. Committed : placed'[t] = placed[t]
  BY DEF Typed, ServerTyped, Commit, Committed
<1>2. active \in Nat /\ f # active
  BY BackupAssumption DEF Typed, ServerTyped, File
<1>3. \A t \in (1 .. Committed)' : t \in 1 .. Committed \/ t = Committed + 1
  BY <1>1
<1>4. \A t : t \in 1 .. Committed => t \in (1 .. Committed)'
  BY <1>1
<1> QED
  BY <1>1, <1>2, <1>3, <1>4 DEF Contents

LEMMA CopyingStep ==
  ASSUME Faults \cap {"busy", "query"} = {}, Typed, Copying, [Next]_vars
  PROVE  Copying'
<1> USE BackupAssumption
<1>0. /\ ServerTyped /\ CopiesTyped /\ LocalTyped /\ ControlTyped
      /\ active \in Nat /\ index \in SUBSET Nat /\ missing \in SUBSET Nat
      /\ index \subseteq File /\ missing \subseteq File
  BY DEF Typed, ServerTyped, CopiesTyped, LocalTyped, File
<1>a. missing # {} => Least(missing) \in missing /\ Least(missing) \in File
  BY <1>0, NextIsMissing
<1>1. CASE Commit
  <2>1. UNCHANGED <<active, copy, index, pc, binlog_active, missing>>
    BY <1>1 DEF Commit, copies, local
  <2>2. \A f \in index \cup missing : Contents(f)' = Contents(f)
    BY <1>0, <1>1, ClosedStays DEF Copying
  <2>3. pc = "append" => Least(missing) \in missing
    BY <1>0, <1>a DEF ControlTyped
  <2> QED
    BY <2>1, <2>2, <2>3 DEF Copying, Archived, Copied
<1>2. CASE /\ \A f : Contents(f)' = Contents(f)
           /\ active' \in {active, active + 1}
           /\ UNCHANGED <<index, copy>>
           /\ missing' = {} \/ missing' = missing
           /\ pc' \notin {"list", "append"}
  <2>1. \A f \in (index \cup missing)' : f < active'
    BY <1>0, <1>2 DEF Copying
  <2> QED
    BY <1>2, <2>1 DEF Copying, Archived, Copied
<1>3. CASE Flush
  <2>1. active' \in {active, active + 1} /\ placed' = placed /\ pc' = "active"
    BY <1>0, <1>3 DEF Flush, Rotated, server, Goto
  <2>2. UNCHANGED <<index, copy, missing>>
    BY <1>3 DEF Flush, copies, local
  <2>3. \A f : Contents(f)' = Contents(f)
    BY <2>1 DEF Contents, Committed
  <2> QED
    BY <1>2, <2>1, <2>2, <2>3
<1>4. CASE Rotate
  <2>1. active' \in {active, active + 1} /\ placed' = placed /\ pc' = "idle"
    BY <1>0, <1>4 DEF Rotate, Rotated
  <2>2. UNCHANGED <<index, copy, missing>>
    BY <1>4 DEF Rotate, copies, local
  <2>3. \A f : Contents(f)' = Contents(f)
    BY <2>1 DEF Contents, Committed
  <2> QED
    BY <1>2, <2>1, <2>2, <2>3
<1>5. CASE ReadActive
  <2>1. binlog_active' = active /\ UNCHANGED <<placed, active, index, copy, missing>> /\ pc' = "list"
    BY <1>5 DEF ReadActive, server, copies, Goto
  <2> QED
    BY <2>1 DEF Copying, Archived, Copied, Contents, Committed
<1>6. CASE ListMissing
  <2>1. /\ UNCHANGED <<placed, active, index, copy>>
        /\ missing' = (OnServer \ index) \ {active}
        /\ pc' \notin {"list", "append"}
    BY <1>6 DEF ListMissing, server, copies, Goto, Copying
  <2>2. \A f \in missing' : f < active
    BY <1>0, <2>1 DEF OnServer, ServerTyped
  <2> QED
    BY <2>1, <2>2 DEF Copying, Archived, Copied, Contents, Committed
<1>7. CASE CopyBinlog
  <2>1. /\ UNCHANGED <<placed, active, index, missing>> /\ pc' = "append"
        /\ Least(missing) \in missing
    BY <1>0, <1>a, <1>7 DEF CopyBinlog, server, local, Goto, ControlTyped
  <2>2. /\ copy'[Least(missing)] = Contents(Least(missing))
        /\ \A f \in File : f # Least(missing) => copy'[f] = copy[f]
    BY <1>0, <1>7, <2>1 DEF CopyBinlog, CopiesTyped
  <2> QED
    BY <1>0, <2>1, <2>2 DEF Copying, Archived, Copied, Contents, Committed
<1>8. CASE AppendIndex
  <2>1. /\ UNCHANGED <<placed, active, copy>> /\ pc = "append" /\ pc' # "append" /\ pc' # "list"
        /\ Least(missing) \in missing
        /\ index' = index \cup {Least(missing)} /\ missing' = missing \ {Least(missing)}
    BY <1>0, <1>a, <1>8 DEF AppendIndex, NextMissing, server, copies, Goto, ControlTyped
  <2> QED
    BY <2>1 DEF Copying, Archived, Copied, Contents, Committed
<1>9. CASE CopyFails
  <2>1. /\ UNCHANGED <<placed, active, index>> /\ pc' # "append" /\ pc' # "list"
        /\ Least(missing) \in missing
        /\ missing' = missing \ {Least(missing)}
    BY <1>0, <1>a, <1>9 DEF CopyFails, NextMissing, server, Goto, ControlTyped
  <2>2. \A f \in File : f # Least(missing) => copy'[f] = copy[f]
    BY <1>0, <1>9 DEF CopyFails, CopiesTyped, copies
  <2> QED
    BY <1>0, <2>1, <2>2 DEF Copying, Archived, Copied, Contents, Committed
<1>10. CASE PurgeBinlog
  <2>1. /\ UNCHANGED <<placed, active, index, missing>> /\ pc' = "purgeBinlogs"
        /\ \A f \in File : copy'[f] = copy[f] \/ copy'[f] = NoCopy
    BY <1>0, <1>10 DEF PurgeBinlog, server, local, CopiesTyped
  <2> QED
    BY <1>0, <2>1 DEF Copying, Archived, Copied, Contents, Committed
<1>11. CASE RebuildIndex
  <2>1. UNCHANGED <<placed, active, copy>> /\ index' \subseteq index /\ missing' = {} /\ pc' = "idle"
    BY <1>11 DEF RebuildIndex, server, copies, Goto, Archived
  <2> QED
    BY <2>1 DEF Copying, Archived, Copied, Contents, Committed
<1>12. CASE Crash
  <2>1. UNCHANGED <<placed, active, index>> /\ missing' = {} /\ pc' = "idle"
    BY <1>12 DEF Crash, server, Goto
  <2>2. \A f \in File : f \notin missing => copy'[f] = copy[f]
    BY <1>0, <1>a, <1>12 DEF Crash, CopiesTyped, copies, ControlTyped
  <2> QED
    BY <1>0, <2>1, <2>2 DEF Copying, Archived, Copied, Contents, Committed
<1>13. CASE \/ ScheduleStart \/ Prepare \/ CheckMysql \/ CheckFails \/ Clone \/ CloneFails \/ WriteMeta
            \/ BinlogSkipped \/ PurgeSnapshot \/ PurgeSnapshotsDone \/ PurgeBinlogsDone
  <2>1. UNCHANGED <<placed, active, index, copy>> /\ (missing' = {} \/ missing' = missing)
    BY <1>13 DEF ScheduleStart, Prepare, CheckMysql, CheckFails, CloneFails, RunFails, Clone, WriteMeta,
                 BinlogSkipped, PurgeSnapshot, PurgeSnapshotsDone, PurgeBinlogsDone, server, copies, local
  <2>2. pc' \notin {"list", "append"}
    BY <1>13 DEF ScheduleStart, Prepare, CheckMysql, CheckFails, CloneFails, RunFails, Clone, WriteMeta, Goto,
                 BinlogSkipped, PurgeSnapshot, PurgeSnapshotsDone, PurgeBinlogsDone
  <2>3. \A f : Contents(f)' = Contents(f)
    BY <2>1 DEF Contents, Committed
  <2> QED
    BY <1>0, <1>2, <2>1, <2>2, <2>3
<1>14. CASE NewDay \/ UNCHANGED vars
  <2>1. UNCHANGED <<placed, active, index, copy, pc, binlog_active, missing>>
    BY <1>14 DEF NewDay, vars, server, copies, local
  <2> QED
    BY <2>1 DEF Copying, Archived, Copied, Contents, Committed
<1> QED
  BY <1>1, <1>3, <1>4, <1>5, <1>6, <1>7, <1>8, <1>9, <1>10, <1>11, <1>12, <1>13, <1>14 DEF Next, BackupStep

LEMMA AlwaysCopying ==
  ASSUME Faults \cap {"busy", "query"} = {}
  PROVE  Spec => [](Typed /\ Copying)
<1>1. Init => Copying
  BY DEF Init, Copying, Archived
<1>2. Typed /\ Copying /\ [Next]_vars => Copying'
  BY CopyingStep
<1> QED
  BY <1>1, <1>2, AlwaysTyped, PTL DEF Spec

(* When moreover no query fails, every listed copy is whole and stays so:    *)
(* clones and copies may fail, and a run may be killed anywhere.             *)
THEOREM ListedCopiesAreWhole ==
  ASSUME Faults \cap {"busy", "query"} = {}
  PROVE  Spec => []IndexedAreWhole
<1>1. Copying => IndexedAreWhole
  BY DEF Copying, IndexedAreWhole, Archived
<1> QED
  BY <1>1, AlwaysCopying, PTL
-----------------------------------------------------------------------------
(* The snapshots.  The directory of the running backup is the newest, and    *)
(* restorable from its meta file on; only directories have a meta file; and  *)
(* one whose clone is not whole is surplus.                                  *)
Newer(s) == {d \in dirs : d > s}

Whole(s) == clone[s] \notin {NoClone, Torn}

Snapped ==
  /\ \A s \in dirs : s <= run
  /\ \A s \in Run : meta[s] # NoMeta => s \in dirs
  /\ pc \notin {"idle", "prepare"} => run \in dirs
  /\ pc \notin {"idle", "prepare", "check", "clone"} => Whole(run)
  /\ pc \notin {"idle", "prepare", "check", "clone", "position"} => meta[run] # NoMeta
  /\ \A s \in dirs : meta[s] # NoMeta /\ ~Whole(s) => Cardinality(Newer(s)) >= Keep

(* A surplus directory has Keep newer ones, and is not that of the run.      *)
LEMMA OldestIsSurplus ==
  ASSUME Typed, Snapped, pc = "purgeSnapshots", Surplus
  PROVE  /\ Least(dirs) \in dirs /\ Least(dirs) # run
         /\ Cardinality(Newer(Least(dirs))) >= Keep
<1> USE BackupAssumption
<1> DEFINE s == Least(dirs)
<1>1. dirs \in SUBSET Nat /\ IsFiniteSet(dirs) /\ run \in dirs
  <2>1. dirs \in SUBSET Nat /\ \A d \in dirs : d <= MaxRun
    BY DEF Typed, SnapsTyped, Run
  <2>2. IsFiniteSet(dirs)
    BY <2>1, FS_BoundedSetOfNaturals
  <2> QED
    BY <2>1, <2>2 DEF Snapped
<1>2. s \in dirs /\ \A d \in dirs : s <= d
  BY <1>1, LeastIsLeast
<1>3. Newer(s) = dirs \ {s}
  <2> HIDE DEF s
  <2>1. \A d \in dirs : d \in Nat
    BY <1>1
  <2>2. \A d \in dirs : d > s <=> d # s
    BY <1>2, <2>1
  <2> QED
    BY <2>2 DEF Newer
<1>4. Cardinality(dirs \ {s}) = Cardinality(dirs) - 1
  BY <1>1, <1>2, FS_RemoveElement
<1>5. Cardinality(dirs) \in Nat /\ Cardinality(dirs) > Keep
  BY <1>1, FS_CardinalityType DEF Surplus
<1>6. Cardinality(Newer(s)) >= Keep
  BY <1>3, <1>4, <1>5
<1>7. s # run
  <2> SUFFICES ASSUME s = run PROVE FALSE
    OBVIOUS
  <2>1. \A d \in dirs : d <= run /\ run <= d
    BY <1>2 DEF Snapped
  <2>2. \A d \in dirs : d = run
    BY <1>1, <2>1
  <2>3. dirs \ {s} = {}
    BY <2>2
  <2> QED
    BY <1>4, <1>5, <2>3, FS_EmptySet
<1> QED
  BY <1>2, <1>6, <1>7

LEMMA SnappedStep ==
  ASSUME Typed, Snapped, [Next]_vars
  PROVE  Snapped'
<1> USE BackupAssumption
<1>0. /\ SnapsTyped /\ LocalTyped /\ ControlTyped
      /\ dirs \subseteq Run /\ IsFiniteSet(dirs) /\ run \in Nat
  <2>1. dirs \in SUBSET Nat /\ \A d \in dirs : d <= MaxRun
    BY DEF Typed, SnapsTyped, Run
  <2>2. IsFiniteSet(dirs)
    BY <2>1, FS_BoundedSetOfNaturals
  <2> QED
    BY <2>1, <2>2 DEF Typed, SnapsTyped, LocalTyped, Run
<1>1. CASE UNCHANGED <<snaps, run>> /\ (pc' = "idle" \/ pc' = pc)
  BY <1>1 DEF Snapped, Newer, Whole, snaps
<1>2. CASE /\ UNCHANGED <<snaps, run>>
           /\ pc \notin {"idle", "prepare", "check", "clone", "position"}
  BY <1>2 DEF Snapped, Newer, Whole, snaps
<1>3. CASE ScheduleStart \/ CheckMysql
  BY <1>3 DEF ScheduleStart, CheckMysql, Goto, Snapped, Newer, Whole, snaps, local
<1>4. CASE Prepare
  <2>1. /\ pc' = "check" /\ run' = run + 1 /\ dirs' = dirs \cup {run + 1} /\ UNCHANGED <<clone, meta>>
    BY <1>4 DEF Prepare, Goto
  <2>2. run + 1 \notin dirs /\ run + 1 \in Run
    BY <1>0, <1>4 DEF Snapped, Prepare, ControlTyped, Run
  <2>3. meta[run + 1] = NoMeta
    BY <2>2 DEF Snapped
  <2>4. \A s \in dirs : Cardinality(Newer(s)') >= Cardinality(Newer(s))
    <3> TAKE s \in dirs
    <3>1. Newer(s)' \subseteq dirs' /\ Newer(s) \subseteq Newer(s)'
      BY <2>1 DEF Newer
    <3>2. IsFiniteSet(dirs')
      BY <1>0, <2>1, FS_AddElement
    <3>3. IsFiniteSet(Newer(s)')
      BY <3>1, <3>2, FS_Subset
    <3> QED
      BY <3>1, <3>3, FS_Subset
  <2>5. \A s \in dirs : Cardinality(Newer(s)) \in Nat /\ Cardinality(Newer(s)') \in Nat
    <3> TAKE s \in dirs
    <3>1. Newer(s)' \subseteq dirs' /\ Newer(s) \subseteq dirs
      BY DEF Newer
    <3>2. IsFiniteSet(dirs')
      BY <1>0, <2>1, FS_AddElement
    <3> QED
      BY <1>0, <3>1, <3>2, FS_Subset, FS_CardinalityType
  <2>6. \A s \in dirs' : meta'[s] # NoMeta /\ ~Whole(s)' => Cardinality(Newer(s)') >= Keep
    BY <2>1, <2>3, <2>4, <2>5 DEF Snapped, Whole
  <2>7. \A s \in dirs' : s <= run'
    <3>1. \A s \in dirs : s \in Nat
      BY <1>0 DEF Run
    <3> QED
      BY <1>0, <2>1, <3>1 DEF Snapped
  <2>8. \A s \in Run : meta'[s] # NoMeta => s \in dirs'
    BY <2>1 DEF Snapped
  <2> QED
    BY <2>1, <2>6, <2>7, <2>8 DEF Snapped
<1>5. CASE Clone
  <2>1. /\ pc = "clone" /\ pc' = "position" /\ UNCHANGED <<dirs, meta, run>> /\ run \in Run
        /\ clone' = [clone EXCEPT ![run] = Committed]
    BY <1>0, <1>5 DEF Clone, Goto, local, ControlTyped
  <2>2. Committed \in Nat
    BY DEF Typed, ServerTyped, Committed
  <2>3. Whole(run)' /\ \A s \in dirs : Whole(s) => Whole(s)'
    BY <1>0, <2>1, <2>2 DEF Whole, SnapsTyped
  <2> QED
    BY <2>1, <2>3 DEF Snapped, Newer
<1>6. CASE WriteMeta
  <2>1. /\ pc = "position" /\ pc' = "flush" /\ UNCHANGED <<dirs, clone, run>> /\ run \in Run
    BY <1>0, <1>6 DEF WriteMeta, Goto, local, ControlTyped
  <2>2. meta'[run] # NoMeta /\ \A s \in Run : s # run => meta'[s] = meta[s]
    BY <1>0, <1>6, <2>1 DEF WriteMeta, SnapsTyped, Typed, ServerTyped, File, NoFile
  <2>3. run \in dirs /\ Whole(run)
    BY <2>1 DEF Snapped
  <2> QED
    BY <1>0, <2>1, <2>2, <2>3 DEF Snapped, Newer, Whole
<1>7. CASE PurgeSnapshot
  <2> DEFINE s == Least(dirs)
  <2>1. /\ pc = "purgeSnapshots" /\ UNCHANGED <<pc, run>> /\ dirs' = dirs \ {s}
        /\ clone' = [clone EXCEPT ![s] = NoClone] /\ meta' = [meta EXCEPT ![s] = NoMeta]
    BY <1>7 DEF PurgeSnapshot, local
  <2>2. s \in dirs /\ s # run /\ s \in Run
    BY <1>0, <1>7, OldestIsSurplus DEF PurgeSnapshot
  <2>3. dirs \in SUBSET Nat
    BY <1>0 DEF Run
  <2>4. \A d \in dirs : s <= d
    BY <2>2, <2>3, LeastIsLeast
  <2> HIDE DEF s
  <2>5. \A d \in dirs' : d \in dirs /\ Newer(d)' = Newer(d) /\ meta'[d] = meta[d] /\ Whole(d)' = Whole(d)
    <3> TAKE d \in dirs'
    <3>1. d \in dirs /\ d # s /\ d \in Run
      BY <1>0, <2>1
    <3>2. meta'[d] = meta[d] /\ clone'[d] = clone[d]
      BY <1>0, <2>1, <3>1 DEF SnapsTyped
    <3>3. s <= d /\ s \in Nat /\ d \in Nat
      BY <2>2, <2>3, <2>4, <3>1
    <3>4. \A e \in dirs : e > d => e # s
      BY <3>3
    <3>5. Newer(d)' = Newer(d)
      BY <2>1, <3>4 DEF Newer
    <3> QED
      BY <3>1, <3>2, <3>5 DEF Whole
  <2>6. meta'[s] = NoMeta /\ \A d \in Run : d # s => meta'[d] = meta[d]
    BY <1>0, <2>1, <2>2 DEF SnapsTyped
  <2>7. run \in dirs'
    BY <2>1, <2>2 DEF Snapped
  <2> QED
    BY <1>0, <2>1, <2>5, <2>6, <2>7 DEF Snapped
<1>8. CASE Crash
  <2>1. pc' = "idle" /\ UNCHANGED <<dirs, run>>
    BY <1>8 DEF Crash, Goto
  <2>2. CASE UNCHANGED <<clone, meta>>
    BY <2>1, <2>2 DEF Snapped, Newer, Whole
  <2>3. CASE /\ pc = "purgeSnapshots" /\ Surplus
             /\ \A s \in Run : s # Least(dirs) => meta'[s] = meta[s] /\ clone'[s] = clone[s]
             /\ \A s \in Run : meta'[s] \in {meta[s], NoMeta}
    <3>1. Cardinality(Newer(Least(dirs))) >= Keep
      BY <2>3, OldestIsSurplus
    <3> QED
      BY <1>0, <2>1, <2>3, <3>1 DEF Snapped, Newer, Whole
  <2>4. CASE pc = "purgeSnapshots" /\ Surplus /\ clone' = [clone EXCEPT ![Least(dirs)] = Torn] /\ UNCHANGED meta
    BY <1>0, <2>3, <2>4 DEF SnapsTyped
  <2>5. CASE /\ pc = "purgeSnapshots" /\ Surplus
             /\ clone' = [clone EXCEPT ![Least(dirs)] = NoClone] /\ meta' = [meta EXCEPT ![Least(dirs)] = NoMeta]
    BY <1>0, <2>3, <2>5 DEF SnapsTyped
  <2> QED
    BY <1>8, <2>2, <2>4, <2>5 DEF Crash
<1>9. CASE Commit \/ Rotate \/ NewDay \/ CheckFails \/ CloneFails \/ PurgeBinlog \/ RebuildIndex \/ UNCHANGED vars
  BY <1>1, <1>9 DEF Commit, Rotate, NewDay, CheckFails, CloneFails, RunFails, PurgeBinlog, RebuildIndex, Goto,
                    vars, snaps, local
<1>10. CASE \/ Flush \/ BinlogSkipped \/ ReadActive \/ ListMissing \/ CopyBinlog \/ AppendIndex \/ CopyFails
            \/ PurgeSnapshotsDone \/ PurgeBinlogsDone
  BY <1>2, <1>10 DEF Flush, BinlogSkipped, ReadActive, ListMissing, CopyBinlog, AppendIndex, CopyFails, NextMissing,
                     PurgeSnapshotsDone, PurgeBinlogsDone, local
<1> QED
  BY <1>3, <1>4, <1>5, <1>6, <1>7, <1>8, <1>9, <1>10 DEF Next, BackupStep

LEMMA AlwaysSnapped ==
  Spec => []Snapped
<1>1. Init => Snapped
  BY DEF Init, Snapped
<1>2. Typed /\ Snapped /\ [Next]_vars => Snapped'
  BY SnappedStep
<1> QED
  BY <1>1, <1>2, AlwaysTyped, PTL DEF Spec

(* A snapshot with a meta file has its whole clone unless Keep newer ones    *)
(* made it surplus: whatever fails, and wherever a backup or a purge is      *)
(* killed.                                                                   *)
THEOREM KeptSnapshotsAreWhole ==
  Spec => []KeptAreWhole
<1>1. Typed /\ Snapped => KeptAreWhole
  <2> SUFFICES ASSUME Typed, Snapped, NEW s \in dirs, meta[s] # NoMeta, Cardinality(Newer(s)) < Keep
               PROVE  Whole(s)
    BY DEF KeptAreWhole, Newer, Whole
  <2>1. \A d \in dirs : d \in Nat /\ d <= MaxRun
    BY BackupAssumption DEF Typed, SnapsTyped, Run
  <2>a. Newer(s) \in SUBSET Nat /\ \A d \in Newer(s) : d <= MaxRun
    BY <2>1 DEF Newer
  <2>2. Cardinality(Newer(s)) \in Nat
    BY <2>a, BackupAssumption, FS_BoundedSetOfNaturals, FS_CardinalityType
  <2> QED
    BY <2>2, BackupAssumption DEF Snapped
<1> QED
  BY <1>1, AlwaysTyped, AlwaysSnapped, PTL

(* Whatever snapshot a step takes, one that can be restored is left if there *)
(* was one: a purge only follows a backup that has made one, and takes the   *)
(* oldest.                                                                   *)
LEMMA StepLeavesOne ==
  ASSUME Typed, Snapped, [Next]_vars, Restorable # {}
  PROVE  Restorable' # {}
<1> USE BackupAssumption
<1>0. SnapsTyped /\ ControlTyped /\ dirs \subseteq Run
  BY DEF Typed, SnapsTyped
<1>1. CASE UNCHANGED snaps
  BY <1>1 DEF Restorable, snaps
<1>2. PICK s \in Restorable : TRUE
  OBVIOUS
<1>3. CASE Prepare
  BY <1>3 DEF Prepare, Restorable
<1>4. CASE Clone
  <2>1. Committed \in Nat
    BY DEF Typed, ServerTyped, Committed
  <2>2. s \in Restorable'
    BY <1>0, <1>2, <1>4, <2>1 DEF Clone, Restorable, SnapsTyped
  <2> QED
    BY <2>2
<1>5. CASE WriteMeta
  <2>1. s \in Restorable'
    BY <1>0, <1>2, <1>5 DEF WriteMeta, Restorable, SnapsTyped, Typed, ServerTyped, File, NoFile
  <2> QED
    BY <2>1
<1>6. CASE PurgeSnapshot \/ (Crash /\ ~UNCHANGED <<clone, meta>>)
  <2>1. pc = "purgeSnapshots" /\ Surplus
    BY <1>6 DEF PurgeSnapshot, Crash
  <2>2. run \in Restorable
    BY <2>1 DEF Snapped, Restorable, Whole
  <2>3. Least(dirs) # run
    BY <2>1, OldestIsSurplus
  <2>4. run \in dirs' /\ clone'[run] = clone[run] /\ meta'[run] = meta[run]
    BY <1>0, <1>6, <2>2, <2>3 DEF PurgeSnapshot, Crash, Restorable, SnapsTyped
  <2> QED
    BY <2>2, <2>4 DEF Restorable
<1>7. CASE Crash /\ UNCHANGED <<clone, meta>>
  BY <1>1, <1>7 DEF Crash, snaps
<1>8. CASE \/ Commit \/ Rotate \/ NewDay \/ ScheduleStart \/ CheckMysql \/ CheckFails \/ CloneFails \/ Flush \/ BinlogSkipped
           \/ ReadActive \/ ListMissing \/ CopyBinlog \/ AppendIndex \/ CopyFails
           \/ PurgeSnapshotsDone \/ PurgeBinlog \/ PurgeBinlogsDone \/ RebuildIndex \/ UNCHANGED vars
  BY <1>1, <1>8 DEF Commit, Rotate, NewDay, ScheduleStart, CheckMysql, CheckFails, CloneFails, Flush, BinlogSkipped,
                    ReadActive, ListMissing, CopyBinlog, AppendIndex, CopyFails, PurgeSnapshotsDone, PurgeBinlog,
                    PurgeBinlogsDone, RebuildIndex, vars, snaps
<1> QED
  BY <1>3, <1>4, <1>5, <1>6, <1>7, <1>8 DEF Next, BackupStep

(* No step, a kill included, takes the last snapshot that can be restored.   *)
THEOREM LastSnapshotStays ==
  Spec => AlwaysRestorable
<1>1. Typed /\ Snapped /\ [Next]_vars => [Restorable # {} => Restorable' # {}]_vars
  BY StepLeavesOne
<1> QED
  BY <1>1, AlwaysTyped, AlwaysSnapped, PTL DEF Spec, AlwaysRestorable
-----------------------------------------------------------------------------
(* No hole.  A binlog has Gone when the server may drop it; ServerDays and   *)
(* ExpireDays see to it that the archive has it by then and keeps it until   *)
(* then.                                                                     *)
Gone(f)  == day > closed[f] + ServerDays
Unlisted == {f \in File : f < active /\ f \notin index}
ToCopy   == {"active", "list", "copy", "append"}
Purging  == {"purgeSnapshots", "purgeBinlogs", "rebuild"}

(* Days pass one completed run at a time; the server closes its binlogs in   *)
(* order and drops none that has not gone.                                   *)
Calendar ==
  /\ ran <= day /\ day <= ran + 1
  /\ \A f \in File : f < active => closed[f] <= day
  /\ \A f, h \in File : f < h /\ h < active => closed[f] <= closed[h]
  /\ \A f \in File : f < oldest => Gone(f)

(* Copies are made in order, so that age takes the oldest; what the purge    *)
(* has taken and binlog.txt still lists has gone and lies below all copies.  *)
Aging ==
  /\ \A f \in Copied : f < active /\ closed[f] <= mtime[f] /\ mtime[f] <= day
  /\ \A f, h \in Copied : f < h => mtime[f] <= mtime[h]
  /\ \A f \in index : f < active
  /\ \A f \in index \ Copied : Gone(f) /\ \A h \in Copied : f < h

(* A closed binlog that is not listed has gone and lies below all that are,  *)
(* or is still to be copied and lies above.                                  *)
Pending ==
  /\ \A f \in Unlisted : closed[f] < ran => Gone(f)
  /\ \A f \in Unlisted : Gone(f) => \A h \in index \cup Copied : f < h
  /\ \A f \in Unlisted : ~Gone(f) => \A h \in index \cup Copied : h <= f

(* The copy loop takes all that is still to be copied.                       *)
Loop ==
  /\ pc \in ToCopy => \A f \in Unlisted : f >= oldest => ~Gone(f)
  /\ pc \in {"copy", "append"} => missing = {f \in Unlisted : f >= oldest}
  /\ pc = "append" => Least(missing) \in Copied
  /\ pc = "list" => binlog_active = active
  /\ pc \in Purging => \A f \in Unlisted : f < oldest

Unbroken == Calendar /\ Aging /\ Pending /\ NoHole

LEMMA NumbersTyped ==
  ASSUME Typed
  PROVE  /\ active \in Nat /\ oldest \in Nat /\ day \in Nat /\ ran \in Nat /\ ServerDays \in Nat /\ ExpireDays \in Nat
         /\ File \subseteq Nat /\ index \subseteq File /\ missing \subseteq File /\ Copied \subseteq File
         /\ active \in File /\ oldest <= active
         /\ \A f \in File : closed[f] \in Nat /\ mtime[f] \in Nat
BY BackupAssumption DEF Typed, ServerTyped, ClockTyped, CopiesTyped, LocalTyped, File, Copied

LEMMA UnbrokenSame ==
  ASSUME Unbroken, UNCHANGED <<active, oldest, closed, day, ran, copy, mtime, index>>
  PROVE  Unbroken'
BY DEF Unbroken, Calendar, Aging, Pending, NoHole, Gone, Unlisted, Archived, Copied

(* The server drops all that has gone, and nothing else.                     *)
LEMMA RotatedDrops ==
  ASSUME Typed, Calendar, active < MaxFile, Rotated
  PROVE  /\ active' = active + 1 /\ oldest' \in Nat /\ oldest <= oldest'
         /\ \A f \in File : closed'[f] = IF f = active THEN day ELSE closed[f]
         /\ \A f \in File : f < oldest' => f < oldest \/ (f < active /\ Gone(f))
         /\ \A f \in File : oldest' <= f /\ f < active => ~Gone(f)
<1> DEFINE now_closed == [closed EXCEPT ![active] = day]
           expired == {f \in OnServer : day > now_closed[f] + ServerDays}
           kept == (oldest .. active + 1) \ expired
<1>0. /\ active \in Nat /\ oldest \in Nat /\ day \in Nat /\ ServerDays \in Nat /\ active \in File /\ oldest <= active
      /\ File \subseteq Nat /\ \A f \in File : closed[f] \in Nat
  BY NumbersTyped
<1>1. /\ active' = active + 1 /\ closed' = now_closed /\ oldest' = Least(kept)
  BY DEF Rotated
<1>2. \A f \in File : now_closed[f] = IF f = active THEN day ELSE closed[f]
  BY <1>0 DEF Typed, ServerTyped
<1>3. kept \in SUBSET Nat /\ active + 1 \in kept
  BY <1>0 DEF OnServer
<1>4. oldest' \in kept /\ \A y \in kept : oldest' <= y
  BY <1>1, <1>3, LeastIsLeast
<1>5. oldest' \in Nat /\ oldest <= oldest' /\ oldest' <= active + 1
  BY <1>0, <1>4
<1>6. ASSUME NEW f \in File, f < oldest' PROVE f < oldest \/ (f < active /\ Gone(f))
  <2>1. f \notin kept /\ f \in Nat
    BY <1>0, <1>4, <1>6
  <2>2. CASE f >= oldest
    <3>1. f \in OnServer /\ day > now_closed[f] + ServerDays
      BY <1>0, <1>5, <1>6, <2>1, <2>2 DEF OnServer
    <3>2. f # active
      BY <1>0, <1>2, <3>1
    <3> QED
      BY <1>0, <1>2, <3>1, <3>2 DEF Gone, OnServer
  <2> QED
    BY <1>0, <2>1, <2>2
<1>7. ASSUME NEW f \in File, oldest' <= f, f < active PROVE ~Gone(f)
  <2>1. oldest' \in File /\ oldest' < active /\ oldest' \in OnServer
    <3>1. oldest >= 1 /\ f \in Nat /\ f <= MaxFile
      BY <1>7 DEF Typed, ServerTyped, File
    <3> QED
      BY <1>0, <1>5, <1>7, <3>1, BackupAssumption DEF OnServer, File
  <2>2. ~(day > closed[oldest'] + ServerDays)
    BY <1>0, <1>2, <1>4, <2>1
  <2>3. closed[oldest'] <= closed[f]
    BY <1>0, <1>5, <1>7, <2>1 DEF Calendar
  <2> QED
    BY <1>0, <2>1, <2>2, <2>3 DEF Gone
<1> QED
  BY <1>1, <1>2, <1>5, <1>6, <1>7

LEMMA RotationStep ==
  ASSUME Typed, Unbroken, active < MaxFile, Rotated, UNCHANGED <<day, ran, copies, index>>
  PROVE  Unbroken' /\ \A f \in Unlisted' : f >= oldest' => ~Gone(f)'
<1>0. /\ active \in Nat /\ oldest \in Nat /\ day \in Nat /\ ran \in Nat /\ ServerDays \in Nat /\ active \in File
      /\ File \subseteq Nat /\ index \subseteq File /\ Copied \subseteq File
      /\ \A f \in File : closed[f] \in Nat /\ mtime[f] \in Nat
  BY NumbersTyped
<1>1. /\ active' = active + 1 /\ oldest' \in Nat /\ oldest <= oldest'
      /\ \A f \in File : closed'[f] = IF f = active THEN day ELSE closed[f]
      /\ \A f \in File : f < oldest' => f < oldest \/ (f < active /\ Gone(f))
      /\ \A f \in File : oldest' <= f /\ f < active => ~Gone(f)
  BY RotatedDrops DEF Unbroken
<1>2. day' = day /\ ran' = ran /\ mtime' = mtime /\ index' = index /\ Copied' = Copied /\ Archived' = Archived
  BY DEF copies, Copied, Archived
<1>3. \A f \in File : f # active => (Gone(f)' <=> Gone(f))
  BY <1>1, <1>2 DEF Gone
<1>4. \A f \in File : f = active => ~Gone(f)' /\ closed'[f] = day
  <2> SUFFICES ASSUME NEW f \in File, f = active PROVE ~Gone(f)' /\ closed'[f] = day
    OBVIOUS
  <2>1. closed'[f] = day /\ day' = day
    BY <1>1, <1>2
  <2> QED
    BY <1>0, <2>1 DEF Gone
<1>5. \A f \in index \cup Copied : f < active
  BY DEF Unbroken, Aging
<1>6. \A f \in Unlisted' : f \in File /\ (f = active \/ (f # active /\ f \in Unlisted /\ f < active))
  BY <1>0, <1>1, <1>2 DEF Unlisted
<1>7. Calendar'
  <2>1. \A f \in File : f < active' => closed'[f] <= day'
    BY <1>0, <1>1, <1>2 DEF Unbroken, Calendar
  <2>2. \A f, h \in File : f < h /\ h < active' => closed'[f] <= closed'[h]
    BY <1>0, <1>1, <1>2 DEF Unbroken, Calendar
  <2>3. \A f \in File : f < oldest' => Gone(f)'
    BY <1>0, <1>1, <1>3 DEF Unbroken, Calendar, Typed, ServerTyped
  <2> QED
    BY <1>2, <2>1, <2>2, <2>3 DEF Unbroken, Calendar
<1>8. Aging'
  BY <1>0, <1>1, <1>2, <1>3, <1>5 DEF Unbroken, Aging
<1>9. Pending'
  <2> SUFFICES ASSUME NEW f \in Unlisted'
               PROVE  /\ closed'[f] < ran' => Gone(f)'
                      /\ Gone(f)' => \A h \in index \cup Copied : f < h
                      /\ ~Gone(f)' => \A h \in index \cup Copied : h <= f
    BY <1>2 DEF Pending
  <2>1. CASE f = active
    <3>1. f \in File /\ ~Gone(f)' /\ closed'[f] = day /\ ran <= day
      BY <1>4, <1>6, <2>1 DEF Unbroken, Calendar
    <3>2. \A h \in index \cup Copied : h <= f
      BY <1>0, <1>5, <2>1
    <3> QED
      BY <1>0, <1>2, <3>1, <3>2
  <2>2. CASE f # active
    BY <1>1, <1>2, <1>3, <1>6, <2>2 DEF Unbroken, Pending
  <2> QED
    BY <2>1, <2>2
<1>10. NoHole'
  BY <1>2 DEF Unbroken, NoHole
<1>11. \A f \in Unlisted' : f >= oldest' => ~Gone(f)'
  <2> SUFFICES ASSUME NEW f \in Unlisted', f >= oldest' PROVE ~Gone(f)'
    OBVIOUS
  <2>1. CASE f = active
    BY <1>4, <1>6, <2>1
  <2>2. CASE f # active
    BY <1>0, <1>1, <1>3, <1>6, <2>2
  <2> QED
    BY <2>1, <2>2
<1> QED
  BY <1>7, <1>8, <1>9, <1>10, <1>11 DEF Unbroken

(* No binlog goes that is still to be copied: it was closed no earlier than  *)
(* the last completed run.                                                   *)
LEMMA NewDayStep ==
  ASSUME ServerDays >= 1, "missed" \notin Faults, Typed, Unbroken, NewDay
  PROVE  Unbroken' /\ \A f \in Unlisted : Gone(f)' <=> Gone(f)
<1>0. /\ active \in Nat /\ oldest \in Nat /\ day \in Nat /\ ran \in Nat /\ ServerDays \in Nat /\ active \in File
      /\ File \subseteq Nat /\ index \subseteq File /\ Copied \subseteq File
      /\ \A f \in File : closed[f] \in Nat /\ mtime[f] \in Nat
  BY NumbersTyped
<1>1. /\ day' = day + 1 /\ ran = day /\ UNCHANGED <<active, oldest, closed, ran, copy, mtime, index>>
      /\ Copied' = Copied /\ Archived' = Archived /\ Unlisted' = Unlisted
  BY DEF NewDay, server, copies, Copied, Archived, Unlisted
<1>2. \A f \in File : Gone(f) => Gone(f)'
  BY <1>0, <1>1 DEF Gone
<1>3. ASSUME NEW f \in Unlisted, Gone(f)' PROVE Gone(f)
  <2>1. closed[f] < ran
    BY <1>0, <1>1, <1>3 DEF Gone, Unlisted
  <2> QED
    BY <2>1 DEF Unbroken, Pending
<1>4. \A f \in Unlisted : Gone(f)' <=> Gone(f)
  BY <1>2, <1>3 DEF Unlisted
<1>5. Calendar'
  BY <1>0, <1>1, <1>2 DEF Unbroken, Calendar
<1>6. Aging'
  BY <1>0, <1>1, <1>2 DEF Unbroken, Aging
<1>7. Pending'
  BY <1>0, <1>1, <1>4 DEF Unbroken, Pending
<1>8. NoHole'
  BY <1>1 DEF Unbroken, NoHole
<1> QED
  BY <1>4, <1>5, <1>6, <1>7, <1>8 DEF Unbroken
(* The binlog the loop is at has not gone and lies at or above all others.   *)
LEMMA NextIsAbove ==
  ASSUME Typed, Unbroken, Loop, pc \in {"copy", "append"}
  PROVE  /\ Least(missing) \in missing /\ Least(missing) \in File /\ Least(missing) \notin index
         /\ Least(missing) < active /\ oldest <= Least(missing)
         /\ \A h \in index \cup Copied : h <= Least(missing)
         /\ \A f \in Unlisted : Gone(f) => f < Least(missing)
         /\ \A f \in Unlisted : ~Gone(f) => Least(missing) <= f
<1>0. /\ oldest \in Nat /\ active \in Nat /\ File \subseteq Nat /\ missing \in SUBSET Nat
  BY NumbersTyped
<1>1. missing # {} /\ missing = {f \in Unlisted : f >= oldest}
  BY DEF Typed, ControlTyped, Loop
<1>2. Least(missing) \in missing /\ \A f \in missing : Least(missing) <= f
  BY <1>0, <1>1, LeastIsLeast
<1>3. Least(missing) \in Unlisted /\ oldest <= Least(missing) /\ ~Gone(Least(missing))
  BY <1>1, <1>2 DEF Loop, ToCopy
<1>4. \A h \in index \cup Copied : h <= Least(missing)
  BY <1>3 DEF Unbroken, Pending
<1>5. ASSUME NEW f \in Unlisted, Gone(f) PROVE f < Least(missing)
  <2>1. ~(f >= oldest) /\ f \in Nat /\ Least(missing) \in Nat
    BY <1>0, <1>3, <1>5 DEF Loop, ToCopy, Unlisted
  <2> QED
    BY <1>0, <1>3, <2>1
<1>6. ASSUME NEW f \in Unlisted, ~Gone(f) PROVE Least(missing) <= f
  <2>1. ~(f < oldest) /\ f \in Nat
    BY <1>0, <1>6 DEF Unbroken, Calendar, Unlisted
  <2> QED
    BY <1>0, <1>1, <1>2, <2>1
<1> QED
  BY <1>2, <1>3, <1>4, <1>5, <1>6 DEF Unlisted

LEMMA CopyStep ==
  ASSUME Typed, Unbroken, Loop, pc = "copy", NEW c, c # NoCopy,
         copy' = [copy EXCEPT ![Least(missing)] = c], mtime' = [mtime EXCEPT ![Least(missing)] = day],
         UNCHANGED <<active, oldest, closed, day, ran, index>>
  PROVE  Unbroken' /\ Copied' = Copied \cup {Least(missing)}
<1> DEFINE n == Least(missing)
<1>0. /\ active \in Nat /\ oldest \in Nat /\ day \in Nat
      /\ File \subseteq Nat /\ index \subseteq File /\ Copied \subseteq File
      /\ \A f \in File : closed[f] \in Nat /\ mtime[f] \in Nat
  BY NumbersTyped
<1>1. /\ n \in File /\ n \notin index /\ n < active
      /\ \A h \in index \cup Copied : h <= n
      /\ \A f \in Unlisted : Gone(f) => f < n
      /\ \A f \in Unlisted : ~Gone(f) => n <= f
  BY NextIsAbove
<1> HIDE DEF n
<1>2. Copied' = Copied \cup {n} /\ Archived' = Archived
  <2>1. copy' = [copy EXCEPT ![n] = c] /\ copy \in [File -> CopyValue]
    BY DEF n, Typed, CopiesTyped
  <2> QED
    BY <1>1, <2>1 DEF Copied, Archived
<1>3. \A f \in File : mtime'[f] = IF f = n THEN day ELSE mtime[f]
  BY DEF n, Typed, CopiesTyped
<1>4. Unlisted' = Unlisted /\ \A f \in File : Gone(f)' <=> Gone(f)
  BY DEF Unlisted, Gone
<1>5. Calendar'
  BY <1>4 DEF Unbroken, Calendar
<1>6. Aging'
  <2>1. \A f \in Copied' : f < active /\ closed[f] <= mtime'[f] /\ mtime'[f] <= day
    BY <1>0, <1>1, <1>2, <1>3 DEF Unbroken, Aging, Calendar
  <2>2. \A f, h \in Copied' : f < h => mtime'[f] <= mtime'[h]
    BY <1>0, <1>1, <1>2, <1>3 DEF Unbroken, Aging
  <2>3. \A f \in index \ Copied' : Gone(f) /\ \A h \in Copied' : f < h
    BY <1>0, <1>1, <1>2 DEF Unbroken, Aging
  <2> QED
    BY <1>0, <1>4, <2>1, <2>2, <2>3 DEF Unbroken, Aging
<1>7. Pending'
  BY <1>1, <1>2, <1>4 DEF Unbroken, Pending, Unlisted
<1>8. NoHole'
  BY <1>2 DEF Unbroken, NoHole
<1> QED
  BY <1>2, <1>5, <1>6, <1>7, <1>8 DEF Unbroken, n

(* Between the last listed copy and the next one nothing is absent: what has *)
(* gone unlisted lies below, the rest is listed.                             *)
LEMMA AppendStep ==
  ASSUME Typed, Unbroken, Loop, AppendIndex
  PROVE  /\ Unbroken' /\ Unlisted' = Unlisted \ {Least(missing)}
         /\ Least(missing) \in missing /\ missing' = missing \ {Least(missing)}
<1> DEFINE n == Least(missing)
<1>0. /\ active \in Nat /\ oldest \in Nat /\ day \in Nat
      /\ File \subseteq Nat /\ index \subseteq File /\ Copied \subseteq File
      /\ \A f \in File : closed[f] \in Nat /\ mtime[f] \in Nat
  BY NumbersTyped
<1>1. /\ n \in missing /\ n \in File /\ n \notin index /\ n < active /\ oldest <= n
      /\ \A h \in index \cup Copied : h <= n
      /\ \A f \in Unlisted : Gone(f) => f < n
      /\ \A f \in Unlisted : ~Gone(f) => n <= f
  BY NextIsAbove DEF AppendIndex
<1>2. /\ index' = index \cup {n} /\ missing' = missing \ {n} /\ n \in Copied
      /\ UNCHANGED <<active, oldest, closed, day, ran, copy, mtime>>
  BY DEF AppendIndex, NextMissing, Loop, server, copies
<1> HIDE DEF n
<1>3. Copied' = Copied /\ Archived' = Archived \cup {n} /\ Unlisted' = Unlisted \ {n}
  BY <1>2 DEF Copied, Archived, Unlisted
<1>4. \A f : Gone(f)' <=> Gone(f)
  BY <1>2 DEF Gone
<1>5. Calendar'
  BY <1>2, <1>4 DEF Unbroken, Calendar
<1>6. Aging'
  BY <1>1, <1>2, <1>3, <1>4 DEF Unbroken, Aging
<1>7. Pending'
  BY <1>1, <1>2, <1>3, <1>4 DEF Unbroken, Pending
<1>8. NoHole'
  <2>1. ASSUME NEW f \in Archived, NEW g \in f .. n PROVE g \in Archived \cup {n}
    <3>1. f \in Nat /\ n \in Nat /\ g \in Nat /\ f <= g /\ g <= n /\ g \in File
      BY <1>0, <1>1, <2>1, BackupAssumption DEF Archived, File
    <3>2. CASE g \in index /\ g # n
      BY <3>1, <3>2, <1>0 DEF Unbroken, Aging, Archived
    <3>3. CASE g \notin index /\ g # n
      <4>1. g \in Unlisted
        BY <1>0, <1>1, <3>1, <3>3 DEF Unlisted
      <4>2. Gone(g)
        BY <1>1, <3>1, <3>3, <4>1
      <4>3. g < f
        BY <4>1, <4>2 DEF Unbroken, Pending, Archived
      <4> QED
        BY <3>1, <4>3
    <3> QED
      BY <3>2, <3>3
  <2>2. \A f \in Archived : f <= n
    BY <1>1 DEF Archived
  <2>3. ASSUME NEW f \in Archived', NEW h \in Archived' PROVE f .. h \subseteq Archived'
    <3>1. CASE f \in Archived /\ h \in Archived
      BY <1>3, <3>1 DEF Unbroken, NoHole
    <3>2. CASE f \in Archived /\ h = n
      BY <1>3, <2>1, <3>2
    <3>3. CASE f = n
      <4>1. h <= n /\ n \in Nat /\ h \in Nat
        BY <1>0, <1>1, <1>3, <2>2 DEF Archived
      <4> QED
        BY <1>3, <3>3, <4>1
    <3> QED
      BY <1>3, <3>1, <3>2, <3>3
  <2> QED
    BY <2>3 DEF NoHole
<1> QED
  BY <1>1, <1>2, <1>3, <1>5, <1>6, <1>7, <1>8 DEF Unbroken, n

(* Age takes the lowest copy, and only of a binlog that has gone.            *)
LEMMA PurgeStep ==
  ASSUME ServerDays <= ExpireDays, Typed, Unbroken, PurgeBinlog
  PROVE  Unbroken'
<1> DEFINE k == Least(Old)
<1>0. /\ active \in Nat /\ oldest \in Nat /\ day \in Nat /\ ServerDays \in Nat /\ ExpireDays \in Nat
      /\ File \subseteq Nat /\ index \subseteq File /\ Copied \subseteq File
      /\ \A f \in File : closed[f] \in Nat /\ mtime[f] \in Nat
  BY NumbersTyped
<1>1. k \in Old /\ \A f \in Old : k <= f
  <2>1. Old \in SUBSET Nat /\ Old # {}
    BY <1>0 DEF Old, PurgeBinlog
  <2> QED
    BY <2>1, LeastIsLeast
<1>2. /\ copy' = [copy EXCEPT ![k] = NoCopy]
      /\ UNCHANGED <<active, oldest, closed, day, ran, mtime, index>>
  BY DEF PurgeBinlog, server
<1> HIDE DEF k
<1>3. k \in Copied /\ day > mtime[k] + ExpireDays
  BY <1>1 DEF Old
<1>4. \A h \in Copied : k <= h
  <2> SUFFICES ASSUME NEW h \in Copied, h < k PROVE FALSE
    BY <1>0, <1>3
  <2>1. mtime[h] <= mtime[k]
    BY <1>3 DEF Unbroken, Aging
  <2>2. h \in Old
    BY <1>0, <1>3, <2>1 DEF Old
  <2>3. k <= h /\ k \in Nat /\ h \in Nat
    BY <1>0, <1>1, <1>3, <2>2
  <2> QED
    BY <2>3
<1>5. Gone(k)
  <2>1. closed[k] <= mtime[k]
    BY <1>3 DEF Unbroken, Aging
  <2> QED
    BY <1>0, <1>3, <2>1 DEF Gone
<1>6. Copied' = Copied \ {k} /\ Archived' = Archived \ {k} /\ Unlisted' = Unlisted
  <2>1. copy \in [File -> CopyValue]
    BY DEF Typed, CopiesTyped
  <2> QED
    BY <1>2, <2>1 DEF Copied, Archived, Unlisted
<1>7. \A f : Gone(f)' <=> Gone(f)
  BY <1>2 DEF Gone
<1>8. Calendar'
  BY <1>2, <1>7 DEF Unbroken, Calendar
<1>9. Aging'
  BY <1>0, <1>2, <1>3, <1>4, <1>5, <1>6, <1>7 DEF Unbroken, Aging
<1>10. Pending'
  BY <1>2, <1>6, <1>7 DEF Unbroken, Pending
<1>11. NoHole'
  <2> SUFFICES ASSUME NEW f \in Archived', NEW h \in Archived' PROVE f .. h \subseteq Archived'
    BY DEF NoHole
  <2>1. f .. h \subseteq Archived
    BY <1>6 DEF Unbroken, NoHole
  <2>2. f \in Nat /\ k \in Nat /\ k < f
    <3>1. f \in Archived /\ f # k
      BY <1>6
    <3>2. f \in Copied /\ k <= f
      BY <1>4, <3>1 DEF Archived
    <3> QED
      BY <1>0, <1>3, <3>1, <3>2
  <2>3. k \notin f .. h
    BY <2>2
  <2> QED
    BY <1>6, <2>1, <2>3
<1> QED
  BY <1>8, <1>9, <1>10, <1>11 DEF Unbroken

LEMMA RebuildStep ==
  ASSUME Typed, Unbroken, Loop, RebuildIndex
  PROVE  Unbroken'
<1>0. /\ active \in Nat /\ oldest \in Nat /\ day \in Nat /\ ran \in Nat
      /\ File \subseteq Nat /\ index \subseteq File /\ Copied \subseteq File
  BY NumbersTyped
<1>1. /\ index' = Archived /\ ran' = day /\ UNCHANGED <<active, oldest, closed, day, copy, mtime>>
      /\ Copied' = Copied /\ Archived' = Archived /\ \A f : Gone(f)' <=> Gone(f)
  BY DEF RebuildIndex, server, copies, Copied, Archived, Gone
<1>2. ASSUME NEW f \in Unlisted' PROVE Gone(f) /\ \A h \in index' \cup Copied : f < h
  <2>1. f \in File /\ f < active /\ f \notin Archived
    BY <1>1 DEF Unlisted
  <2>2. CASE f \in index
    BY <1>1, <2>1, <2>2 DEF Unbroken, Aging, Archived
  <2>3. CASE f \notin index
    <3>1. f \in Unlisted /\ f < oldest
      BY <2>1, <2>3 DEF Unlisted, Loop, Purging, RebuildIndex
    <3>2. Gone(f)
      BY <2>1, <3>1 DEF Unbroken, Calendar
    <3> QED
      BY <1>1, <3>1, <3>2 DEF Unbroken, Pending, Archived
  <2> QED
    BY <2>2, <2>3
<1>3. Calendar'
  BY <1>0, <1>1 DEF Unbroken, Calendar
<1>4. Aging'
  BY <1>1 DEF Unbroken, Aging, Archived
<1>5. Pending'
  BY <1>1, <1>2 DEF Pending
<1>6. NoHole'
  BY <1>1 DEF Unbroken, NoHole
<1> QED
  BY <1>3, <1>4, <1>5, <1>6 DEF Unbroken
(* Every run completes its day's work: queries and copies do not fail, and   *)
(* the server keeps a binlog for a day at least and no longer than the       *)
(* archive does.                                                             *)
Daily == Faults \cap {"busy", "query", "copy", "missed"} = {} /\ 1 <= ServerDays /\ ServerDays <= ExpireDays

LEMMA UnbrokenStep ==
  ASSUME Daily, Typed, Unbroken, Loop, [Next]_vars
  PROVE  Unbroken' /\ Loop'
<1> USE DEF Goto
<1>0. /\ active \in Nat /\ oldest \in Nat /\ oldest <= active /\ File \subseteq Nat /\ index \subseteq File
      /\ active \in File /\ oldest \in 1 .. active /\ active <= MaxFile /\ MaxFile \in Nat
  BY NumbersTyped, BackupAssumption DEF Typed, ServerTyped, File
<1>1. CASE UNCHANGED <<active, oldest, closed, day, ran, copy, mtime, index>>
           /\ (UNCHANGED <<pc, binlog_active, missing>> \/ pc' \notin ToCopy \cup Purging)
  <2>1. Unbroken'
    BY <1>1, UnbrokenSame
  <2>2. Unlisted' = Unlisted /\ Copied' = Copied /\ \A f : Gone(f)' <=> Gone(f)
    BY <1>1 DEF Unlisted, Copied, Gone
  <2>3. Loop'
    BY <1>1, <2>2 DEF Loop, ToCopy, Purging
  <2> QED
    BY <2>1, <2>3
<1>2. CASE \/ Commit \/ ScheduleStart \/ Prepare \/ CheckMysql \/ CheckFails \/ Clone \/ CloneFails \/ WriteMeta
           \/ UNCHANGED vars
  <2>1. UNCHANGED <<active, oldest, closed, day, ran, copy, mtime, index>>
    BY <1>2 DEF Commit, ScheduleStart, Prepare, CheckMysql, CheckFails, CloneFails, RunFails, Clone, WriteMeta,
                server, copies, vars
  <2>2. UNCHANGED <<pc, binlog_active, missing>> \/ pc' \notin ToCopy \cup Purging
    BY <1>2 DEF Commit, ScheduleStart, Prepare, CheckMysql, CheckFails, CloneFails, RunFails, Clone, WriteMeta,
                local, vars, ToCopy, Purging
  <2> QED
    BY <1>1, <2>1, <2>2
<1>3. CASE Rotate
  <2>1. pc = "idle" /\ pc' = pc /\ active < MaxFile /\ Rotated /\ UNCHANGED <<day, ran, copies, index>>
    BY <1>0, <1>3 DEF Rotate, Daily
  <2> QED
    BY <2>1, RotationStep DEF Loop, ToCopy, Purging
<1>4. CASE Flush
  <2>1. pc' = "active" /\ active < MaxFile /\ Rotated /\ UNCHANGED <<day, ran, copies, index>>
    BY <1>4 DEF Flush, Daily, Typed, ControlTyped
  <2> QED
    BY <2>1, RotationStep DEF Loop, ToCopy, Purging
<1>5. CASE NewDay
  <2>1. UNCHANGED <<active, oldest, copy, index, pc, binlog_active, missing>> /\ Unlisted' = Unlisted
        /\ Copied' = Copied
    BY <1>5 DEF NewDay, server, copies, local, Unlisted, Copied
  <2>2. Unbroken' /\ \A f \in Unlisted : Gone(f)' <=> Gone(f)
    BY <1>5, NewDayStep DEF Daily
  <2>3. Loop'
    BY <2>1, <2>2 DEF Loop
  <2> QED
    BY <2>2, <2>3
<1>6. CASE ReadActive \/ ListMissing
  <2>1. UNCHANGED <<active, oldest, closed, day, ran, copy, mtime, index>>
    BY <1>6 DEF ReadActive, ListMissing, server, copies
  <2>2. Unbroken'
    BY <2>1, UnbrokenSame
  <2>3. Unlisted' = Unlisted /\ Copied' = Copied /\ \A f : Gone(f)' <=> Gone(f)
    BY <2>1 DEF Unlisted, Copied, Gone
  <2>4. pc \in ToCopy /\ \A f \in Unlisted : f >= oldest => ~Gone(f)
    BY <1>6 DEF ReadActive, ListMissing, ToCopy, Loop
  <2>5. CASE ReadActive
    <3>1. pc' = "list" /\ binlog_active' = active
      BY <2>5 DEF ReadActive, Daily
    <3> QED
      BY <2>1, <2>2, <2>3, <2>4, <3>1 DEF Loop, Purging
  <2>6. CASE ListMissing
    <3>1. missing' = {f \in Unlisted : f >= oldest}
      <4>1. missing' = (OnServer \ index) \ {active}
        BY <2>6 DEF ListMissing, Loop
      <4>2. OnServer \subseteq File
        BY <1>0 DEF OnServer, File
      <4>3. \A f \in File : f \in OnServer /\ f # active <=> f < active /\ f >= oldest
        BY <1>0 DEF OnServer
      <4> QED
        BY <4>1, <4>2, <4>3 DEF Unlisted
    <3>2. pc' = IF missing' = {} THEN "purgeSnapshots" ELSE "copy"
      BY <2>6 DEF ListMissing
    <3>3. CASE missing' = {}
      <4>1. \A f \in Unlisted : f < oldest
        BY <1>0, <3>1, <3>3 DEF Unlisted
      <4> QED
        BY <2>1, <2>2, <2>3, <3>2, <3>3, <4>1 DEF Loop, ToCopy
    <3>4. CASE missing' # {}
      BY <2>1, <2>2, <2>3, <2>4, <3>1, <3>2, <3>4 DEF Loop, Purging
    <3> QED
      BY <3>3, <3>4
  <2> QED
    BY <1>6, <2>5, <2>6
<1>7. CASE CopyBinlog
  <2>1. Contents(Least(missing)) # NoCopy
    BY DEF Contents, NoCopy
  <2>2. /\ pc = "copy" /\ pc' = "append" /\ missing' = missing
        /\ copy' = [copy EXCEPT ![Least(missing)] = Contents(Least(missing))]
        /\ mtime' = [mtime EXCEPT ![Least(missing)] = day]
        /\ UNCHANGED <<active, oldest, closed, day, ran, index>>
    BY <1>7 DEF CopyBinlog, server, local
  <2>3. Unbroken' /\ Copied' = Copied \cup {Least(missing)}
    BY <2>1, <2>2, CopyStep
  <2>4. Unlisted' = Unlisted /\ \A f : Gone(f)' <=> Gone(f)
    BY <2>2 DEF Unlisted, Gone
  <2> QED
    BY <2>2, <2>3, <2>4 DEF Loop, ToCopy, Purging
<1>8. CASE CopyFails
  <2>1. Least(missing) \in File /\ Least(missing) < active /\ oldest <= Least(missing)
    BY <1>8, NextIsAbove DEF CopyFails
  <2>a. \A f \in File : f < active /\ oldest <= f => f \in OnServer
    BY <1>0 DEF OnServer
  <2>2. Least(missing) \in OnServer
    BY <2>1, <2>a
  <2> QED
    BY <1>8, <2>2 DEF CopyFails, Daily
<1>9. CASE AppendIndex
  <2>1. /\ Unbroken' /\ Unlisted' = Unlisted \ {Least(missing)}
        /\ Least(missing) \in missing /\ missing' = missing \ {Least(missing)}
    BY <1>9, AppendStep
  <2>2. /\ pc = "append" /\ pc' = (IF missing' = {} THEN "purgeSnapshots" ELSE "copy")
        /\ UNCHANGED <<oldest, day, closed>> /\ \A f : Gone(f)' <=> Gone(f)
    BY <1>9 DEF AppendIndex, NextMissing, server, Gone
  <2>3. /\ missing = {f \in Unlisted : f >= oldest} /\ \A f \in Unlisted : f >= oldest => ~Gone(f)
    BY <2>2 DEF Loop, ToCopy
  <2>4. missing' = {f \in Unlisted' : f >= oldest'}
    BY <2>1, <2>2, <2>3
  <2>5. CASE missing' = {}
    <3>1. \A f \in Unlisted' : f < oldest'
      BY <1>0, <2>1, <2>2, <2>4, <2>5 DEF Unlisted
    <3> QED
      BY <2>1, <2>2, <2>5, <3>1 DEF Loop, ToCopy
  <2>6. CASE missing' # {}
    BY <2>1, <2>2, <2>3, <2>4, <2>6 DEF Loop, Purging
  <2> QED
    BY <2>5, <2>6
<1>10. CASE BinlogSkipped
  BY <1>10 DEF BinlogSkipped, Daily
<1>11. CASE PurgeSnapshot \/ PurgeSnapshotsDone \/ PurgeBinlogsDone
  <2>1. UNCHANGED <<active, oldest, closed, day, ran, copy, mtime, index>> /\ pc \in Purging /\ pc' \in Purging
    BY <1>11 DEF PurgeSnapshot, PurgeSnapshotsDone, PurgeBinlogsDone, server, copies, Purging
  <2>2. Unbroken' /\ Unlisted' = Unlisted
    BY <2>1, UnbrokenSame DEF Unlisted
  <2> QED
    BY <2>1, <2>2 DEF Loop, ToCopy, Purging
<1>12. CASE PurgeBinlog
  <2>1. UNCHANGED <<active, oldest, index>> /\ pc \in Purging /\ pc' \in Purging
    BY <1>12 DEF PurgeBinlog, server, Purging
  <2>2. Unbroken' /\ Unlisted' = Unlisted
    BY <1>12, <2>1, PurgeStep DEF Unlisted, Daily
  <2> QED
    BY <2>1, <2>2 DEF Loop, ToCopy, Purging
<1>13. CASE RebuildIndex
  <2>1. Unbroken' /\ pc' = "idle"
    BY <1>13, RebuildStep DEF RebuildIndex
  <2> QED
    BY <2>1 DEF Loop, ToCopy, Purging
<1>14. CASE Crash
  <2>1. pc' = "idle" /\ UNCHANGED <<active, oldest, closed, day, ran, index>>
    BY <1>14 DEF Crash, server
  <2>2. Loop'
    BY <2>1 DEF Loop, ToCopy, Purging
  <2>3. CASE UNCHANGED copies
    BY <2>1, <2>2, <2>3, UnbrokenSame DEF copies
  <2>4. CASE /\ pc = "copy" /\ copy' = [copy EXCEPT ![Least(missing)] = {}]
             /\ mtime' = [mtime EXCEPT ![Least(missing)] = day]
    <3>1. {} # NoCopy
      BY DEF NoCopy
    <3> QED
      BY <2>1, <2>2, <2>4, <3>1, CopyStep
  <2> QED
    BY <1>14, <2>3, <2>4 DEF Crash
<1> QED
  BY <1>2, <1>3, <1>4, <1>5, <1>6, <1>7, <1>8, <1>9, <1>10, <1>11, <1>12, <1>13, <1>14 DEF Next, BackupStep

LEMMA AlwaysUnbroken ==
  ASSUME Daily
  PROVE  Spec => [](Typed /\ Unbroken /\ Loop)
<1>1. Init => Unbroken /\ Loop
  <2> SUFFICES ASSUME Init PROVE Unbroken /\ Loop
    OBVIOUS
  <2>1. /\ active = 1 /\ oldest = 1 /\ day = 0 /\ ran = 0 /\ index = {} /\ pc = "idle"
        /\ copy = [f \in File |-> NoCopy] /\ File \subseteq Nat \ {0}
    BY DEF Init, File
  <2>a. \A f \in File : ~(f < 1)
    BY <2>1
  <2>2. Copied = {} /\ Archived = {} /\ Unlisted = {}
    BY <2>1, <2>a DEF Copied, Archived, Unlisted
  <2> QED
    BY <2>1, <2>2, <2>a DEF Unbroken, Calendar, Aging, Pending, NoHole, Loop, ToCopy, Purging
<1>2. Typed /\ Unbroken /\ Loop /\ [Next]_vars => Unbroken' /\ Loop'
  BY UnbrokenStep
<1> QED
  BY <1>1, <1>2, AlwaysTyped, PTL DEF Spec

(* Between two archived binlogs none is absent, wherever runs and purges are *)
(* killed, as long as a run completes on every day and the server keeps its  *)
(* binlogs for a day at least and no longer than the archive.                *)
THEOREM ArchiveHasNoHole ==
  ASSUME Daily
  PROVE  Spec => []NoHole
<1>1. Unbroken => NoHole
  BY DEF Unbroken
<1> QED
  BY <1>1, AlwaysUnbroken, PTL
=============================================================================
