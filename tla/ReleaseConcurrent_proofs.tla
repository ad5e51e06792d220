------------------------ MODULE ReleaseConcurrent_proofs ------------------------
(***************************************************************************)
(* Two release commands at once keep archives and history true, for every  *)
(* set of paths, releases and faults, when no two upgrades start within    *)
(* one second.  What a command guarantees while others change the root is  *)
(* proved in ReleaseUpgrade_proofs; here each of the two is shown to take  *)
(* the steps that are meant there, and to stay out of the footprint of the *)
(* other.                                                                  *)
(***************************************************************************)
EXTENDS ReleaseConcurrent, TLAPS

PA == INSTANCE ReleaseUpgrade_proofs WITH pc <- pcA, cmd <- cmdA, stream <- streamA,
                                          stage <- stageA, todo <- todoA, before <- beforeA
PB == INSTANCE ReleaseUpgrade_proofs WITH pc <- pcB, cmd <- cmdB, stream <- streamB,
                                          stage <- stageB, todo <- todoB, before <- beforeB
-----------------------------------------------------------------------------
(* The commands of ReleaseConcurrent are those of the proofs.                *)

LEMMA SameStepA == A!Step => PA!Step
<1> USE DEF A!GoTo, PA!GoTo, A!local, PA!local, A!disk, PA!disk, A!snaps, PA!snaps
<1>1. ASSUME NEW t, A!UpgradeOpen(t)
      PROVE  PA!UpgradeOpen(t)
  BY <1>1 DEF A!UpgradeOpen, PA!UpgradeOpen
<1>2. ASSUME \/ A!UpgradeAbandoned \/ A!SnapshotCreate \/ A!SnapshotDone
            \/ A!MarkSnapshotFailed \/ A!RecordSnapshotFailed
      PROVE  \/ PA!UpgradeAbandoned \/ PA!SnapshotCreate \/ PA!SnapshotDone
             \/ PA!MarkSnapshotFailed \/ PA!RecordSnapshotFailed
  BY <1>2 DEF A!UpgradeAbandoned, PA!UpgradeAbandoned, A!SnapshotCreate, PA!SnapshotCreate,
     A!SnapshotDone, PA!SnapshotDone, A!MarkSnapshotFailed, PA!MarkSnapshotFailed,
     A!RecordSnapshotFailed, PA!RecordSnapshotFailed, A!Exit, PA!Exit, A!EmptyRoot,
     PA!EmptyRoot, A!NoStage, PA!NoStage, A!WriteMeta, PA!WriteMeta, A!Append_history,
     PA!Append_history
<1>3. ASSUME \/ A!CaptureDone \/ A!RemoveDone \/ A!ExtractDone \/ A!OverlayDone
            \/ A!ChecksPass \/ A!ChecksFail \/ A!MarkSuccess \/ A!RecordUpgrade
      PROVE  \/ PA!CaptureDone \/ PA!RemoveDone \/ PA!ExtractDone \/ PA!OverlayDone
             \/ PA!ChecksPass \/ PA!ChecksFail \/ PA!MarkSuccess \/ PA!RecordUpgrade
  BY <1>3 DEF A!CaptureDone, PA!CaptureDone, A!RemoveDone, PA!RemoveDone, A!ExtractDone, PA!ExtractDone,
     A!OverlayDone, PA!OverlayDone, A!ChecksPass, PA!ChecksPass, A!ChecksFail, PA!ChecksFail,
     A!MarkSuccess, PA!MarkSuccess, A!RecordUpgrade, PA!RecordUpgrade, A!Exit, PA!Exit,
     A!EmptyRoot, PA!EmptyRoot, A!NoStage, PA!NoStage, A!WriteMeta, PA!WriteMeta,
     A!Append_history, PA!Append_history, A!StartAutoRollback, PA!StartAutoRollback, A!Complete,
     PA!Complete, A!Core, PA!Core
<1>4. ASSUME \/ A!RestoreBegin \/ A!RestoreRefused \/ A!RestoreRemoveDone \/ A!RestoreDone
            \/ A!VerifyPass \/ A!VerifyFail
      PROVE  \/ PA!RestoreBegin \/ PA!RestoreRefused \/ PA!RestoreRemoveDone
             \/ PA!RestoreDone \/ PA!VerifyPass \/ PA!VerifyFail
  BY <1>4 DEF A!RestoreBegin, PA!RestoreBegin, A!RestoreRefused, PA!RestoreRefused, A!RestoreRemoveDone,
     PA!RestoreRemoveDone, A!RestoreDone, PA!RestoreDone, A!VerifyPass, PA!VerifyPass,
     A!VerifyFail, PA!VerifyFail, A!Exit, PA!Exit, A!EmptyRoot, PA!EmptyRoot, A!NoStage,
     PA!NoStage, A!RestoreResult, PA!RestoreResult, A!Whole, PA!Whole, A!Complete, PA!Complete,
     A!Core, PA!Core
<1>5. ASSUME \/ A!Verdict \/ A!RecordFailure \/ A!RecordRollback
      PROVE  \/ PA!Verdict \/ PA!RecordFailure \/ PA!RecordRollback
  BY <1>5 DEF A!Verdict, PA!Verdict, A!RecordFailure, PA!RecordFailure, A!RecordRollback,
     PA!RecordRollback, A!Exit, PA!Exit, A!EmptyRoot, PA!EmptyRoot, A!NoStage, PA!NoStage,
     A!WriteMeta, PA!WriteMeta, A!TornMeta, PA!TornMeta, A!Append_history, PA!Append_history
<1>6. ASSUME NEW p, \/ A!ArchivePath(p) \/ A!CapturePath(p) \/ A!ExtractPath(p)
            \/ A!OverlayPath(p) \/ A!RestorePath(p)
      PROVE  \/ PA!ArchivePath(p) \/ PA!CapturePath(p) \/ PA!ExtractPath(p)
             \/ PA!OverlayPath(p) \/ PA!RestorePath(p)
  BY <1>6 DEF A!ArchivePath, PA!ArchivePath, A!CapturePath, PA!CapturePath, A!ExtractPath,
     PA!ExtractPath, A!OverlayPath, PA!OverlayPath, A!RestorePath, PA!RestorePath
<1>7. ASSUME NEW p, NEW label, A!RemovePath(p, label)
      PROVE  PA!RemovePath(p, label)
  BY <1>7 DEF A!RemovePath, PA!RemovePath
<1> QED
  BY <1>1, <1>2, <1>3, <1>4, <1>5, <1>6, <1>7 DEF A!Step, PA!Step, A!Time, PA!Time

LEMMA SameFailA == A!Fail => PA!Fail
  BY DEF A!Fail, PA!Fail, A!SnapshotFails, PA!SnapshotFails, A!TransactionFails,
     PA!TransactionFails, A!RestoreFails, PA!RestoreFails, A!RecordFails, PA!RecordFails,
     A!Killed, PA!Killed, A!StartAutoRollback, PA!StartAutoRollback, A!RestoreResult,
     PA!RestoreResult, A!WriteMeta, PA!WriteMeta, A!TornMeta, PA!TornMeta, A!Exit, PA!Exit,
     A!EmptyRoot, PA!EmptyRoot, A!NoStage, PA!NoStage, A!GoTo, PA!GoTo, A!local, PA!local,
     A!disk, PA!disk, A!snaps, PA!snaps

LEMMA SameBeginA ==
  /\ \A v \in Version, skip \in BOOLEAN : A!UpgradeBegin(v, skip) => PA!Operator
  /\ \A id \in A!Id, skip \in BOOLEAN : A!RollbackBegin(id, skip) => PA!Operator
<1> USE DEF A!UpgradeBegin, PA!UpgradeBegin, A!NoId, PA!NoId, A!RollbackBegin, PA!RollbackBegin, A!Id,
     PA!Id, A!Time, PA!Time, A!GoTo, PA!GoTo, A!disk, PA!disk, A!snaps, PA!snaps
<1>1. ASSUME NEW v \in Version, NEW skip \in BOOLEAN, A!UpgradeBegin(v, skip)
      PROVE  PA!Operator
  <2>1. PA!UpgradeBegin(v, skip)
    BY <1>1
  <2> QED
    BY <2>1 DEF PA!Operator
<1>2. ASSUME NEW id \in A!Id, NEW skip \in BOOLEAN, A!RollbackBegin(id, skip)
      PROVE  PA!Operator
  <2>1. PA!RollbackBegin(id, skip) /\ id \in PA!Id
    BY <1>2
  <2> QED
    BY <2>1 DEF PA!Operator
<1> QED
  BY <1>1, <1>2

LEMMA SameInitA == A!Init => PA!Init
  BY DEF A!Init, PA!Init, A!Installed, PA!Installed, A!EmptyRoot, PA!EmptyRoot, A!NoMeta, PA!NoMeta,
     A!NoStage, PA!NoStage, A!NoCommand, PA!NoCommand, A!NoId, PA!NoId, A!Id, PA!Id, A!Time,
     PA!Time

LEMMA SameStepB == B!Step => PB!Step
<1> USE DEF B!GoTo, PB!GoTo, B!local, PB!local, B!disk, PB!disk, B!snaps, PB!snaps
<1>1. ASSUME NEW t, B!UpgradeOpen(t)
      PROVE  PB!UpgradeOpen(t)
  BY <1>1 DEF B!UpgradeOpen, PB!UpgradeOpen
<1>2. ASSUME \/ B!UpgradeAbandoned \/ B!SnapshotCreate \/ B!SnapshotDone
            \/ B!MarkSnapshotFailed \/ B!RecordSnapshotFailed
      PROVE  \/ PB!UpgradeAbandoned \/ PB!SnapshotCreate \/ PB!SnapshotDone
             \/ PB!MarkSnapshotFailed \/ PB!RecordSnapshotFailed
  BY <1>2 DEF B!UpgradeAbandoned, PB!UpgradeAbandoned, B!SnapshotCreate, PB!SnapshotCreate,
     B!SnapshotDone, PB!SnapshotDone, B!MarkSnapshotFailed, PB!MarkSnapshotFailed,
     B!RecordSnapshotFailed, PB!RecordSnapshotFailed, B!Exit, PB!Exit, B!EmptyRoot,
     PB!EmptyRoot, B!NoStage, PB!NoStage, B!WriteMeta, PB!WriteMeta, B!Append_history,
     PB!Append_history
<1>3. ASSUME \/ B!CaptureDone \/ B!RemoveDone \/ B!ExtractDone \/ B!OverlayDone
            \/ B!ChecksPass \/ B!ChecksFail \/ B!MarkSuccess \/ B!RecordUpgrade
      PROVE  \/ PB!CaptureDone \/ PB!RemoveDone \/ PB!ExtractDone \/ PB!OverlayDone
             \/ PB!ChecksPass \/ PB!ChecksFail \/ PB!MarkSuccess \/ PB!RecordUpgrade
  BY <1>3 DEF B!CaptureDone, PB!CaptureDone, B!RemoveDone, PB!RemoveDone, B!ExtractDone, PB!ExtractDone,
     B!OverlayDone, PB!OverlayDone, B!ChecksPass, PB!ChecksPass, B!ChecksFail, PB!ChecksFail,
     B!MarkSuccess, PB!MarkSuccess, B!RecordUpgrade, PB!RecordUpgrade, B!Exit, PB!Exit,
     B!EmptyRoot, PB!EmptyRoot, B!NoStage, PB!NoStage, B!WriteMeta, PB!WriteMeta,
     B!Append_history, PB!Append_history, B!StartAutoRollback, PB!StartAutoRollback, B!Complete,
     PB!Complete, B!Core, PB!Core
<1>4. ASSUME \/ B!RestoreBegin \/ B!RestoreRefused \/ B!RestoreRemoveDone \/ B!RestoreDone
            \/ B!VerifyPass \/ B!VerifyFail
      PROVE  \/ PB!RestoreBegin \/ PB!RestoreRefused \/ PB!RestoreRemoveDone
             \/ PB!RestoreDone \/ PB!VerifyPass \/ PB!VerifyFail
  BY <1>4 DEF B!RestoreBegin, PB!RestoreBegin, B!RestoreRefused, PB!RestoreRefused, B!RestoreRemoveDone,
     PB!RestoreRemoveDone, B!RestoreDone, PB!RestoreDone, B!VerifyPass, PB!VerifyPass,
     B!VerifyFail, PB!VerifyFail, B!Exit, PB!Exit, B!EmptyRoot, PB!EmptyRoot, B!NoStage,
     PB!NoStage, B!RestoreResult, PB!RestoreResult, B!Whole, PB!Whole, B!Complete, PB!Complete,
     B!Core, PB!Core
<1>5. ASSUME \/ B!Verdict \/ B!RecordFailure \/ B!RecordRollback
      PROVE  \/ PB!Verdict \/ PB!RecordFailure \/ PB!RecordRollback
  BY <1>5 DEF B!Verdict, PB!Verdict, B!RecordFailure, PB!RecordFailure, B!RecordRollback,
     PB!RecordRollback, B!Exit, PB!Exit, B!EmptyRoot, PB!EmptyRoot, B!NoStage, PB!NoStage,
     B!WriteMeta, PB!WriteMeta, B!TornMeta, PB!TornMeta, B!Append_history, PB!Append_history
<1>6. ASSUME NEW p, \/ B!ArchivePath(p) \/ B!CapturePath(p) \/ B!ExtractPath(p)
            \/ B!OverlayPath(p) \/ B!RestorePath(p)
      PROVE  \/ PB!ArchivePath(p) \/ PB!CapturePath(p) \/ PB!ExtractPath(p)
             \/ PB!OverlayPath(p) \/ PB!RestorePath(p)
  BY <1>6 DEF B!ArchivePath, PB!ArchivePath, B!CapturePath, PB!CapturePath, B!ExtractPath,
     PB!ExtractPath, B!OverlayPath, PB!OverlayPath, B!RestorePath, PB!RestorePath
<1>7. ASSUME NEW p, NEW label, B!RemovePath(p, label)
      PROVE  PB!RemovePath(p, label)
  BY <1>7 DEF B!RemovePath, PB!RemovePath
<1> QED
  BY <1>1, <1>2, <1>3, <1>4, <1>5, <1>6, <1>7 DEF B!Step, PB!Step, B!Time, PB!Time

LEMMA SameFailB == B!Fail => PB!Fail
  BY DEF B!Fail, PB!Fail, B!SnapshotFails, PB!SnapshotFails, B!TransactionFails,
     PB!TransactionFails, B!RestoreFails, PB!RestoreFails, B!RecordFails, PB!RecordFails,
     B!Killed, PB!Killed, B!StartAutoRollback, PB!StartAutoRollback, B!RestoreResult,
     PB!RestoreResult, B!WriteMeta, PB!WriteMeta, B!TornMeta, PB!TornMeta, B!Exit, PB!Exit,
     B!EmptyRoot, PB!EmptyRoot, B!NoStage, PB!NoStage, B!GoTo, PB!GoTo, B!local, PB!local,
     B!disk, PB!disk, B!snaps, PB!snaps

LEMMA SameBeginB ==
  /\ \A v \in Version, skip \in BOOLEAN : B!UpgradeBegin(v, skip) => PB!Operator
<1> USE DEF B!UpgradeBegin, PB!UpgradeBegin, B!NoId, PB!NoId, B!GoTo, PB!GoTo, B!disk, PB!disk,
     B!snaps, PB!snaps
<1>1. ASSUME NEW v \in Version, NEW skip \in BOOLEAN, B!UpgradeBegin(v, skip)
      PROVE  PB!Operator
  <2>1. PB!UpgradeBegin(v, skip)
    BY <1>1
  <2> QED
    BY <2>1 DEF PB!Operator
<1> QED
  BY <1>1

LEMMA SameInitB == B!Init => PB!Init
  BY DEF B!Init, PB!Init, B!Installed, PB!Installed, B!EmptyRoot, PB!EmptyRoot, B!NoMeta, PB!NoMeta,
     B!NoStage, PB!NoStage, B!NoCommand, PB!NoCommand, B!NoId, PB!NoId, B!Id, PB!Id, B!Time,
     PB!Time

-----------------------------------------------------------------------------
\* Two upgrades that run at a time have a snapshot each.
Apart == PA!Holding /\ PB!Holding => cmdA.sid # cmdB.sid

\* What both commands know and claim, and what the disk says.
Both ==
  /\ PA!Running /\ PA!Claim
  /\ PB!Running /\ PB!Claim
  /\ PA!Ledger /\ Apart

Kept ==
  \A id \in A!Id :
    /\ A!Whole(id) => tar'[id] = "whole" /\ image'[id] = image[id]
    /\ meta[id].status \in {"success", "failed"} => meta'[id] = meta[id]

LEMMA SameLedger == (PA!Ledger <=> PB!Ledger) /\ (PA!Ledger' <=> PB!Ledger')
  BY DEF PA!Ledger, PB!Ledger, PA!HistoryTruthful, PB!HistoryTruthful, PA!Whole, PB!Whole,
     PA!Id, PB!Id, PA!Time, PB!Time

LEMMA BothInit == Init => Both
<1> SUFFICES ASSUME Init PROVE Both
  OBVIOUS
<1>1. PA!Init /\ PB!Init
  BY SameInitA, SameInitB DEF Init
<1>2. PA!Running /\ PA!Claim /\ PA!Ledger
  BY <1>1, PA!InitTypes, PA!InitRecords, CommandAssumption, InstallRootAssumption DEF Core, PA!Core
<1>3. PB!Running /\ PB!Claim
  BY <1>1, PB!InitTypes, PB!InitRecords, CommandAssumption, InstallRootAssumption DEF Core, PB!Core
<1>4. ~PA!Holding
  BY <1>1 DEF PA!Init, PA!Holding
<1> QED
  BY <1>2, <1>3, <1>4 DEF Both, Apart

(* A step of one command keeps its own claim, and that of the other, since   *)
(* it touches only what it holds or what is new.                             *)
LEMMA OnStepA ==
  ASSUME DistinctSeconds, Both, NextA
  PROVE  Both' /\ Kept
<1>1. PA!Next /\ UNCHANGED varsB
  BY SameStepA, SameFailA, SameBeginA DEF NextA, PA!Next
<1>2. PA!Running'
  BY <1>1, PA!RunningStep, CommandAssumption, InstallRootAssumption DEF Both, Core, PA!Core
<1>3. PA!Claim' /\ PA!Ledger' /\ PA!Footprint /\ PA!Kept
  BY <1>1, SameLedger, PA!RecordsStep, CommandAssumption, InstallRootAssumption DEF Both, Core, PA!Core
<1>4. PB!Running'
  <2>1. PA!TypeOK'
    BY <1>2 DEF PA!Running
  <2>2. PB!TypeOK'
    BY <1>1, <2>1 DEF Both, varsB, PB!Running, PB!TypeOK, PA!TypeOK,
       PB!Root, PA!Root, PB!Content, PA!Content, PB!Core, PA!Core, PB!Id, PA!Id, PB!Time, PA!Time,
       PB!Meta, PA!Meta, PB!Line, PA!Line
  <2>3. PB!Control' /\ PB!Overlaying'
    BY <1>1 DEF Both, varsB, PB!Running, PB!Overlaying, PB!Control, PB!BeforeArchive, PB!Transaction,
       PB!Restoring, PB!Failed
  <2> QED
    BY <2>2, <2>3 DEF PB!Running
<1>5. PB!Holding' = PB!Holding /\ cmdB' = cmdB /\ pcB' = pcB
  BY <1>1 DEF varsB, PB!Holding, PB!Upgrading
<1>6. PB!Claim'
  <2>1. pcB \notin {"idle", "open"} => cmdB.sid \in dirs /\ cmdB.sid \in dirs'
    BY <1>3 DEF Both, PB!Claim, PA!Footprint
  <2>2. CASE PB!Holding
    <3>1. cmdB.sid \in dirs /\ ~(PA!Holding /\ cmdB.sid = cmdA.sid)
      BY <2>1, <2>2 DEF Both, Apart, PB!Holding
    <3>2. tar'[cmdB.sid] = tar[cmdB.sid] /\ meta'[cmdB.sid] = meta[cmdB.sid]
      BY <1>3, <3>1 DEF PA!Footprint
    <3>3. \A line \in history' : line.action = "upgrade" => line.sid # cmdB.sid
      BY <1>3, <2>2, <3>1 DEF Both, PB!Claim, PA!Footprint
    <3> QED
      BY <1>5, <2>1, <2>2, <3>2, <3>3 DEF Both, PB!Claim, PB!Whole
  <2>3. CASE ~PB!Holding
    BY <1>5, <2>1, <2>3 DEF PB!Claim
  <2> QED
    BY <2>2, <2>3
<1>7. Apart'
  <2>1. PB!Holding => cmdB.sid \in dirs
    BY DEF Both, PB!Claim, PB!Holding
  <2> QED
    BY <1>3, <1>5, <2>1 DEF Both, Apart, PA!Footprint
<1>8. Kept
  BY <1>3 DEF Kept, PA!Kept, PA!Whole, PA!Id, PA!Time, A!Whole, A!Id, A!Time
<1> QED
  BY <1>2, <1>3, <1>4, <1>6, <1>7, <1>8, SameLedger DEF Both

LEMMA OnStepB ==
  ASSUME DistinctSeconds, Both, NextB
  PROVE  Both' /\ Kept
<1>1. PB!Next /\ UNCHANGED varsA
  BY SameStepB, SameFailB, SameBeginB DEF NextB, PB!Next
<1>2. PB!Running'
  BY <1>1, PB!RunningStep, CommandAssumption, InstallRootAssumption DEF Both, Core, PB!Core
<1>3. PB!Claim' /\ PB!Ledger' /\ PB!Footprint /\ PB!Kept
  BY <1>1, SameLedger, PB!RecordsStep, CommandAssumption, InstallRootAssumption DEF Both, Core, PB!Core
<1>4. PA!Running'
  <2>1. PB!TypeOK'
    BY <1>2 DEF PB!Running
  <2>2. PA!TypeOK'
    BY <1>1, <2>1 DEF Both, varsA, PA!Running, PA!TypeOK, PB!TypeOK,
       PA!Root, PB!Root, PA!Content, PB!Content, PA!Core, PB!Core, PA!Id, PB!Id, PA!Time, PB!Time,
       PA!Meta, PB!Meta, PA!Line, PB!Line
  <2>3. PA!Control' /\ PA!Overlaying'
    BY <1>1 DEF Both, varsA, PA!Running, PA!Overlaying, PA!Control, PA!BeforeArchive, PA!Transaction,
       PA!Restoring, PA!Failed
  <2> QED
    BY <2>2, <2>3 DEF PA!Running
<1>5. PA!Holding' = PA!Holding /\ cmdA' = cmdA /\ pcA' = pcA
  BY <1>1 DEF varsA, PA!Holding, PA!Upgrading
<1>6. PA!Claim'
  <2>1. pcA \notin {"idle", "open"} => cmdA.sid \in dirs /\ cmdA.sid \in dirs'
    BY <1>3 DEF Both, PA!Claim, PB!Footprint
  <2>2. CASE PA!Holding
    <3>1. cmdA.sid \in dirs /\ ~(PB!Holding /\ cmdA.sid = cmdB.sid)
      BY <2>1, <2>2 DEF Both, Apart, PA!Holding
    <3>2. tar'[cmdA.sid] = tar[cmdA.sid] /\ meta'[cmdA.sid] = meta[cmdA.sid]
      BY <1>3, <3>1 DEF PB!Footprint
    <3>3. \A line \in history' : line.action = "upgrade" => line.sid # cmdA.sid
      BY <1>3, <2>2, <3>1 DEF Both, PA!Claim, PB!Footprint
    <3> QED
      BY <1>5, <2>1, <2>2, <3>2, <3>3 DEF Both, PA!Claim, PA!Whole
  <2>3. CASE ~PA!Holding
    BY <1>5, <2>1, <2>3 DEF PA!Claim
  <2> QED
    BY <2>2, <2>3
<1>7. Apart'
  <2>1. PA!Holding => cmdA.sid \in dirs
    BY DEF Both, PA!Claim, PA!Holding
  <2> QED
    BY <1>3, <1>5, <2>1 DEF Both, Apart, PB!Footprint
<1>8. Kept
  BY <1>3 DEF Kept, PB!Kept, PB!Whole, PB!Id, PB!Time, A!Whole, A!Id, A!Time
<1> QED
  BY <1>2, <1>3, <1>4, <1>6, <1>7, <1>8, SameLedger DEF Both

LEMMA BothStep ==
  ASSUME DistinctSeconds, Both, [Next]_vars
  PROVE  Both' /\ (Kept \/ UNCHANGED <<dirs, tar, image, meta>>)
<1>1. CASE Next
  BY <1>1, OnStepA, OnStepB DEF Next
<1>2. CASE UNCHANGED vars
  <2>1. UNCHANGED <<root, dirs, tar, image, meta, history, now>> /\ UNCHANGED <<varsA, varsB>>
    BY <1>2 DEF vars
  <2>2. PA!Running' /\ PB!Running'
    BY <2>1 DEF Both, varsA, varsB, PA!Running, PB!Running, PA!TypeOK, PB!TypeOK, PA!Control, PB!Control,
       PA!Overlaying, PB!Overlaying
  <2>3. PA!Claim' /\ PB!Claim' /\ PA!Ledger' /\ Apart'
    BY <2>1 DEF Both, Apart, varsA, varsB, PA!Claim, PB!Claim, PA!Holding, PB!Holding, PA!Upgrading,
       PB!Upgrading, PA!Whole, PB!Whole, PA!Ledger, PA!HistoryTruthful
  <2> QED
    BY <2>1, <2>2, <2>3 DEF Both
<1> QED
  BY <1>1, <1>2

LEMMA BothInvariant == ASSUME DistinctSeconds PROVE Spec => []Both
<1>1. Both /\ [Next]_vars => Both'
  BY BothStep
<1> QED
  BY <1>1, BothInit, PTL DEF Spec

(* While two commands run, and one or both are killed or fail anywhere, the  *)
(* history and the metadata of a snapshot never contradict each other.       *)
THEOREM HistoryIsTrueOfBoth == ASSUME DistinctSeconds PROVE Spec => []HistoryStaysTruthful
<1>1. Both => HistoryStaysTruthful
  BY DEF Both, PA!Ledger, PA!HistoryTruthful, PA!Whole, HistoryStaysTruthful, A!HistoryTruthful, A!Whole
<1> QED
  BY <1>1, BothInvariant, PTL

(* Nor does one write over a whole archive or a verdict of the other.        *)
THEOREM ArchivesAreKeptApart == ASSUME DistinctSeconds PROVE Spec => ArchivesStayApart
<1>1. Both /\ [Next]_vars =>
        [\A id \in A!Id :
           /\ A!Whole(id) => tar'[id] = "whole" /\ image'[id] = image[id]
           /\ meta[id].status \in {"success", "failed"} => meta'[id] = meta[id]]_(A!snaps)
  BY BothStep DEF Kept, A!snaps
<1> QED
  BY <1>1, BothInvariant, PTL DEF Spec, ArchivesStayApart, A!ArchivesImmutable
=============================================================================
