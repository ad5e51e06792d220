------------------------- MODULE ReleaseUpgrade_proofs -------------------------
(***************************************************************************)
(* Proofs about ReleaseUpgrade for every set of paths, releases and faults *)
(* and every number of commands.  First what a command knows of itself and *)
(* of its snapshot, which holds while others change the root too.  Then    *)
(* IInv (ReleaseInvariants), with one lemma per conjunct and one step per  *)
(* action, and the safety properties that follow.  Last the refinement of  *)
(* AtomicRelease.                                                          *)
(***************************************************************************)
EXTENDS ReleaseInvariants, ReleaseRefinement, TLAPS

\* Writing one path of a root leaves a root.
LEMMA SetPath ==
  ASSUME NEW r \in Root, NEW p \in Path, NEW c \in Content, p \in Core => c \in Version \cup {Gone}
  PROVE  [r EXCEPT ![p] = c] \in Root
  BY InstallRootAssumption DEF Root, Core

\* The empty stream and the empty stage have their types.
LEMMA BlankTypes == EmptyRoot \in Root /\ NoStage \in [Preserve -> Content]
  BY InstallRootAssumption DEF EmptyRoot, NoStage, Root, Content, Core

\* What ending a command leaves of its own state.
LEMMA ExitType ==
  ASSUME TypeOK, NEW o \in {"ok", "failed", "killed"}, Exit(o)
  PROVE  /\ pc' = "idle" /\ todo' = {} /\ before' = before
         /\ cmd' \in Command /\ cmd'.mode = cmd.mode /\ cmd'.sid = cmd.sid
         /\ stream' \in Root /\ stage' \in [Preserve -> Content]
<1>1. cmd' \in Command /\ cmd'.mode = cmd.mode /\ cmd'.sid = cmd.sid
  BY DEF Exit, TypeOK, Command
<1>2. QED
  BY <1>1, BlankTypes DEF Exit, GoTo

\* Rewriting the metadata of the snapshot in hand.
LEMMA MetaType ==
  ASSUME TypeOK, NEW m \in Meta, WriteMeta(m)
  PROVE  meta' \in [Id -> Meta] /\ UNCHANGED <<dirs, tar, image>>
  BY DEF WriteMeta, TypeOK

\* A torn metadata file is metadata.
LEMMA TornType == TornMeta \in Meta
  BY DEF TornMeta, Meta

\* A line added to the history is a line.
LEMMA HistoryType ==
  ASSUME TypeOK, cmd.sid \in Id,
         NEW a \in {"upgrade", "rollback"}, NEW s \in {"success", "failed"},
         NEW n \in {"package_replaced", "snapshot_failed", "success",
                    "restored_checks_failed", "failed", "snapshot_restored"},
         Append_history(a, s, n)
  PROVE  history' \subseteq Line
  BY DEF Append_history, TypeOK, Line

\* Where a finished or failed restore goes on.
LEMMA ResultType ==
  ASSUME TypeOK, NEW r \in {"success", "restored_checks_failed", "failed"}, RestoreResult(r)
  PROVE  /\ todo' = {} /\ before' = before /\ cmd' \in Command
         /\ cmd'.mode = cmd.mode /\ cmd'.sid = cmd.sid
         /\ \/ pc' = "verdict" /\ cmd.mode = "autoRollback" /\ cmd'.result = r
            \/ pc' = "recordRollback" /\ cmd.mode = "rollback" /\ r = "success"
            \/ pc' = "idle"
         /\ stream' \in Root /\ stage' \in [Preserve -> Content]
<1>1. CASE cmd.mode = "autoRollback" /\ cmd' = [cmd EXCEPT !.result = r] /\ GoTo("verdict", {})
           /\ UNCHANGED <<stream, stage, before>>
  <2>1. cmd' \in Command /\ cmd'.mode = cmd.mode /\ cmd'.sid = cmd.sid /\ cmd'.result = r
    BY <1>1 DEF TypeOK, Command
  <2>2. QED
    BY <1>1, <2>1 DEF TypeOK, GoTo
<1>2. CASE cmd.mode = "rollback" /\ r = "success" /\ GoTo("recordRollback", {}) /\ UNCHANGED local
  BY <1>2 DEF TypeOK, GoTo, local
<1>3. CASE Exit("failed")
  BY <1>3, ExitType DEF TypeOK
<1>4. QED
  BY <1>1, <1>2, <1>3 DEF RestoreResult

\* What starting the automatic rollback sets.
LEMMA AutoType ==
  ASSUME TypeOK, StartAutoRollback
  PROVE  /\ pc' = "restore" /\ todo' = {} /\ cmd' \in Command
         /\ cmd'.mode = "autoRollback" /\ cmd'.sid = cmd.sid
         /\ stage' \in [Preserve -> Content] /\ UNCHANGED <<root, history, now, stream, before>>
<1>1. cmd' \in Command /\ cmd'.mode = "autoRollback" /\ cmd'.sid = cmd.sid
  BY DEF StartAutoRollback, TypeOK, Command
<1>2. QED
  BY <1>1, BlankTypes DEF StartAutoRollback, GoTo

\* Gone is a content, of program files too.
LEMMA GoneType == Gone \in Content /\ Gone \in Version \cup {Gone}
  BY DEF Content

-----------------------------------------------------------------------------
\* What a command knows of itself, whatever others do to the disk.
Overlaying == pc = "overlay" => todo \subseteq Preserve
Running    == TypeOK /\ Control /\ Overlaying

\* Every step keeps every variable within its type.
LEMMA TypeStep ==
  ASSUME Running, [Next]_vars
  PROVE  TypeOK'
<1> USE DEF Running
<1>1. /\ pc \in {"open", "snapshotFailed", "extract", "succeed"} => cmd.to \in Version
      /\ pc \in {"verdict", "recordFailure"} => cmd.result \in {"success", "restored_checks_failed", "failed"}
      /\ pc \notin {"idle", "open"} => cmd.sid \in Id
  BY DEF Control, TypeOK, Command, BeforeArchive, Transaction, Failed
<1> USE DEF GoTo, local, disk, snaps, Label
<1>2. CASE UpgradeAbandoned
  BY <1>2, ExitType DEF UpgradeAbandoned, TypeOK
<1>3. CASE SnapshotCreate
  <2>1. tar' \in [Id -> {"none", "partial", "whole"}] /\ image' \in [Id -> Root]
    BY <1>3, BlankTypes DEF SnapshotCreate, TypeOK
  <2>2. QED
    BY <1>3, <2>1 DEF SnapshotCreate, TypeOK
<1>4. CASE SnapshotDone
  <2>1. tar' \in [Id -> {"none", "partial", "whole"}] /\ image' \in [Id -> Root]
    BY <1>4 DEF SnapshotDone, TypeOK
  <2>2. QED
    BY <1>4, <2>1, BlankTypes, InstallRootAssumption DEF SnapshotDone, TypeOK
<1>5. CASE MarkSnapshotFailed
  <2>1. [status |-> "failed", from |-> cmd.from, auto |-> "not_needed"] \in Meta
    BY DEF TypeOK, Command, Meta
  <2>2. QED
    BY <1>5, <2>1, MetaType DEF MarkSnapshotFailed, TypeOK
<1>6. CASE RecordSnapshotFailed
  BY <1>6, <1>1, ExitType, HistoryType DEF RecordSnapshotFailed, TypeOK
<1>7. CASE CaptureDone
  BY <1>7 DEF CaptureDone, TypeOK
<1>8. CASE RemoveDone
  BY <1>8, InstallRootAssumption DEF RemoveDone, TypeOK
<1>9. CASE ExtractDone
  BY <1>9, InstallRootAssumption DEF ExtractDone, TypeOK
<1>10. CASE OverlayDone
  BY <1>10, BlankTypes DEF OverlayDone, TypeOK
<1>11. CASE ChecksPass
  BY <1>11 DEF ChecksPass, TypeOK
<1>12. CASE ChecksFail
  BY <1>12, AutoType DEF ChecksFail, TypeOK
<1>13. CASE MarkSuccess
  <2>1. [status |-> "success", from |-> cmd.from, auto |-> "none"] \in Meta
    BY DEF TypeOK, Command, Meta
  <2>2. QED
    BY <1>13, <2>1, MetaType DEF MarkSuccess, TypeOK
<1>14. CASE RecordUpgrade
  BY <1>14, <1>1, ExitType, HistoryType DEF RecordUpgrade, TypeOK
<1>15. CASE RestoreBegin
  BY <1>15 DEF RestoreBegin, TypeOK
<1>16. CASE RestoreRefused
  BY <1>16, ResultType DEF RestoreRefused, TypeOK
<1>17. CASE RestoreRemoveDone
  BY <1>17 DEF RestoreRemoveDone, TypeOK
<1>18. CASE RestoreDone
  BY <1>18, ResultType DEF RestoreDone, TypeOK
<1>19. CASE VerifyPass
  BY <1>19, ResultType DEF VerifyPass, TypeOK
<1>20. CASE VerifyFail
  BY <1>20, ResultType DEF VerifyFail, TypeOK
<1>21. CASE Verdict
  <2>1. [status |-> "failed", from |-> cmd.from, auto |-> cmd.result] \in Meta
    BY <1>21, <1>1 DEF TypeOK, Command, Meta, Verdict
  <2>2. QED
    BY <1>21, <2>1, MetaType, TornType DEF Verdict, TypeOK
<1>22. CASE RecordFailure
  <2>1. history' \subseteq Line
    BY <1>22, <1>1, HistoryType DEF RecordFailure, TypeOK, Command
  <2>2. QED
    BY <1>22, <2>1, ExitType DEF RecordFailure, TypeOK
<1>23. CASE RecordRollback
  BY <1>23, <1>1, ExitType, HistoryType DEF RecordRollback, TypeOK
<1>24. CASE SnapshotFails
  BY <1>24, BlankTypes DEF SnapshotFails, TypeOK
<1>25. CASE TransactionFails
  <2>1. meta' \in [Id -> Meta] /\ UNCHANGED <<dirs, tar, image>>
    BY <1>25, MetaType, TornType DEF TransactionFails, TypeOK, snaps
  <2>2. QED
    BY <1>25, <2>1, AutoType DEF TransactionFails, TypeOK
<1>26. CASE RestoreFails
  BY <1>26, ResultType DEF RestoreFails, TypeOK
<1>27. CASE RecordFails
  BY <1>27, ExitType, MetaType, TornType DEF RecordFails, TypeOK
<1>28. CASE Killed
  BY <1>28, ExitType, MetaType, TornType DEF Killed, TypeOK
<1>29. ASSUME NEW t \in Time, UpgradeOpen(t)
      PROVE  TypeOK'
  <2> DEFINE m == [status |-> "in_progress", from |-> cmd.from, auto |-> "none"]
  <2>1. cmd.to \in Version /\ <<t, cmd.to>> \in Id
    BY <1>29, <1>1 DEF UpgradeOpen, Id
  <2>2. cmd' \in Command
    BY <1>29, <2>1 DEF UpgradeOpen, TypeOK, Command
  <2>3. m \in Meta
    BY DEF TypeOK, Command, Meta
  <2>4. meta' = [meta EXCEPT ![<<t, cmd.to>>] = m]
    BY <1>29 DEF UpgradeOpen
  <2>5. meta' \in [Id -> Meta]
    BY <2>1, <2>3, <2>4 DEF TypeOK
  <2>6. QED
    BY <1>29, <2>1, <2>2, <2>5 DEF UpgradeOpen, TypeOK
<1>30. ASSUME NEW p \in Path, ArchivePath(p)
      PROVE  TypeOK'
  BY <1>30, SetPath, InstallRootAssumption DEF ArchivePath, Root, Core, TypeOK
<1>31. ASSUME NEW p \in Path, CapturePath(p)
      PROVE  TypeOK'
  BY <1>31 DEF CapturePath, Root, TypeOK
<1>32. ASSUME NEW p \in Path, NEW label \in {"remove", "restoreRemove"}, RemovePath(p, label)
      PROVE  TypeOK'
  BY <1>32, SetPath, GoneType DEF RemovePath, TypeOK
<1>33. ASSUME NEW p \in Path, ExtractPath(p)
      PROVE  TypeOK'
  <2>1. cmd.to \in Version
    BY <1>33, <1>1 DEF ExtractPath
  <2>2. root' \in Root
    BY <1>33, <2>1, SetPath DEF ExtractPath, TypeOK, Content
  <2>3. QED
    BY <1>33, <2>2 DEF ExtractPath, TypeOK
<1>34. ASSUME NEW p \in Path, OverlayPath(p)
      PROVE  TypeOK'
  <2>1. p \in Preserve /\ p \notin Core
    BY <1>34 DEF OverlayPath, Overlaying, Core
  <2>2. stage[p] \in Content /\ root[p] \in Content
    BY <2>1 DEF TypeOK, Root
  <2>3. root' \in Root
    BY <1>34, <2>1, <2>2, SetPath DEF OverlayPath, TypeOK
  <2>4. QED
    BY <1>34, <2>3 DEF OverlayPath, TypeOK
<1>35. ASSUME NEW p \in Path, RestorePath(p)
      PROVE  TypeOK'
  <2>1. image[cmd.sid] \in Root
    BY <1>35, <1>1 DEF RestorePath, TypeOK
  <2>2. image[cmd.sid][p] \in Content /\ (p \in Core => image[cmd.sid][p] \in Version \cup {Gone})
    BY <2>1 DEF Root
  <2>3. root' \in Root
    BY <1>35, <2>2, SetPath DEF RestorePath, TypeOK
  <2>4. QED
    BY <1>35, <2>3 DEF RestorePath, TypeOK
<1>36. ASSUME NEW p \in Path, NEW e \in Edit \cup {Gone}, UserEdit(p, e)
      PROVE  TypeOK'
  <2>1. p \notin Core /\ e \in Content
    BY <1>36 DEF UserEdit, Core, Content
  <2>2. root' \in Root
    BY <1>36, <2>1, SetPath DEF UserEdit, TypeOK
  <2>3. QED
    BY <1>36, <2>2 DEF UserEdit, TypeOK
<1>37. ASSUME NEW v \in Version, NEW skip \in BOOLEAN, UpgradeBegin(v, skip)
      PROVE  TypeOK'
  <2>1. root[VersionFile] \in Version
    BY <1>37, InstallRootAssumption DEF UpgradeBegin, TypeOK, Root, Core
  <2>2. cmd' \in Command
    BY <1>37, <2>1 DEF UpgradeBegin, Command
  <2>3. QED
    BY <1>37, <2>2 DEF UpgradeBegin, TypeOK
<1>38. ASSUME NEW id \in Id, NEW skip \in BOOLEAN, RollbackBegin(id, skip)
      PROVE  TypeOK'
  <2>1. root[VersionFile] \in Version /\ meta[id].from \in Version \cup {Gone}
    BY <1>38, InstallRootAssumption DEF RollbackBegin, TypeOK, Root, Core, Meta
  <2>2. cmd' \in Command
    BY <1>38, <2>1 DEF RollbackBegin, Command
  <2>3. QED
    BY <1>38, <2>2 DEF RollbackBegin, TypeOK
<1>39. CASE UNCHANGED vars
  BY <1>39 DEF vars, TypeOK
<1>40. QED
  BY <1>2, <1>3, <1>4, <1>5, <1>6, <1>7, <1>8, <1>9, <1>10, <1>11, <1>12, <1>13, <1>14, <1>15, <1>16, <1>17, <1>18, <1>19, <1>20, <1>21, <1>22, <1>23, <1>24, <1>25, <1>26, <1>27, <1>28, <1>29, <1>30, <1>31, <1>32, <1>33, <1>34, <1>35, <1>36, <1>37, <1>38, <1>39 DEF Next, Step, Fail, Operator

\* Every step keeps the program that runs at each label.
LEMMA ControlStep ==
  ASSUME Running, [Next]_vars
  PROVE  Control'
<1> USE DEF Running
<1> USE InstallRootAssumption
<1> USE DEF Control, GoTo, local, BeforeArchive, Transaction, Restoring, Failed
<1>2. CASE UpgradeAbandoned
  BY <1>2, ExitType DEF UpgradeAbandoned
<1>3. CASE SnapshotCreate
  BY <1>3 DEF SnapshotCreate
<1>4. CASE SnapshotDone
  BY <1>4 DEF SnapshotDone
<1>5. CASE MarkSnapshotFailed
  BY <1>5 DEF MarkSnapshotFailed
<1>6. CASE RecordSnapshotFailed
  BY <1>6, ExitType DEF RecordSnapshotFailed
<1>7. CASE CaptureDone
  BY <1>7 DEF CaptureDone
<1>8. CASE RemoveDone
  BY <1>8 DEF RemoveDone
<1>9. CASE ExtractDone
  BY <1>9 DEF ExtractDone
<1>10. CASE OverlayDone
  BY <1>10 DEF OverlayDone
<1>11. CASE ChecksPass
  BY <1>11 DEF ChecksPass
<1>12. CASE ChecksFail
  BY <1>12, AutoType DEF ChecksFail
<1>13. CASE MarkSuccess
  BY <1>13 DEF MarkSuccess
<1>14. CASE RecordUpgrade
  BY <1>14, ExitType DEF RecordUpgrade
<1>15. CASE RestoreBegin
  BY <1>15 DEF RestoreBegin
<1>16. CASE RestoreRefused
  BY <1>16, ResultType DEF RestoreRefused, TypeOK
<1>17. CASE RestoreRemoveDone
  BY <1>17 DEF RestoreRemoveDone
<1>18. CASE RestoreDone
  BY <1>18, ResultType DEF RestoreDone
<1>19. CASE VerifyPass
  BY <1>19, ResultType DEF VerifyPass
<1>20. CASE VerifyFail
  BY <1>20, ResultType DEF VerifyFail
<1>21. CASE Verdict
  BY <1>21 DEF Verdict
<1>22. CASE RecordFailure
  BY <1>22, ExitType DEF RecordFailure
<1>23. CASE RecordRollback
  BY <1>23, ExitType DEF RecordRollback
<1>24. CASE SnapshotFails
  BY <1>24 DEF SnapshotFails
<1>25. CASE TransactionFails
  BY <1>25, AutoType DEF TransactionFails
<1>26. CASE RestoreFails
  BY <1>26, ResultType DEF RestoreFails
<1>27. CASE RecordFails
  BY <1>27, ExitType DEF RecordFails
<1>28. CASE Killed
  BY <1>28, ExitType DEF Killed
<1>29. ASSUME NEW t \in Time, UpgradeOpen(t)
      PROVE  Control'
  <2>1. cmd.to \in Version /\ <<t, cmd.to>> \in Id
    BY <1>29 DEF UpgradeOpen, Control, Id
  <2>2. cmd'.sid \in Id /\ cmd'.mode = cmd.mode /\ cmd'.to = cmd.to
    BY <1>29, <2>1 DEF UpgradeOpen, TypeOK, Command
  <2>3. QED
    BY <1>29, <2>1, <2>2 DEF UpgradeOpen
<1>30. ASSUME NEW p \in Path, ArchivePath(p)
      PROVE  Control'
  BY <1>30 DEF ArchivePath
<1>31. ASSUME NEW p \in Path, CapturePath(p)
      PROVE  Control'
  BY <1>31 DEF CapturePath
<1>32. ASSUME NEW p \in Path, NEW label \in {"remove", "restoreRemove"}, RemovePath(p, label)
      PROVE  Control'
  BY <1>32 DEF RemovePath
<1>33. ASSUME NEW p \in Path, ExtractPath(p)
      PROVE  Control'
  BY <1>33 DEF ExtractPath
<1>34. ASSUME NEW p \in Path, OverlayPath(p)
      PROVE  Control'
  BY <1>34 DEF OverlayPath
<1>35. ASSUME NEW p \in Path, RestorePath(p)
      PROVE  Control'
  BY <1>35 DEF RestorePath
<1>36. ASSUME NEW p \in Path, NEW e \in Edit \cup {Gone}, UserEdit(p, e)
      PROVE  Control'
  BY <1>36 DEF UserEdit
<1>37. ASSUME NEW v \in Version, NEW skip \in BOOLEAN, UpgradeBegin(v, skip)
      PROVE  Control'
  BY <1>37 DEF UpgradeBegin
<1>38. ASSUME NEW id \in Id, NEW skip \in BOOLEAN, RollbackBegin(id, skip)
      PROVE  Control'
  BY <1>38 DEF RollbackBegin
<1>39. CASE UNCHANGED vars
  BY <1>39 DEF vars
<1>40. QED
  BY <1>2, <1>3, <1>4, <1>5, <1>6, <1>7, <1>8, <1>9, <1>10, <1>11, <1>12, <1>13, <1>14, <1>15, <1>16, <1>17, <1>18, <1>19, <1>20, <1>21, <1>22, <1>23, <1>24, <1>25, <1>26, <1>27, <1>28, <1>29, <1>30, <1>31, <1>32, <1>33, <1>34, <1>35, <1>36, <1>37, <1>38, <1>39 DEF Next, Step, Fail, Operator

\* The overlay only ever visits the user's paths.
LEMMA OverlayingStep ==
  ASSUME Running, [Next]_vars
  PROVE  Overlaying'
<1> USE DEF Overlaying, GoTo
<1>1. CASE UNCHANGED vars
  BY <1>1 DEF Running, vars
<1>2. CASE ExtractDone \/ \E p \in Path : OverlayPath(p)
  BY <1>2 DEF Running, ExtractDone, OverlayPath
<1>3. ASSUME \/ \E t \in Time : UpgradeOpen(t)
             \/ \E p \in Path : ArchivePath(p) \/ CapturePath(p) \/ ExtractPath(p) \/ RestorePath(p)
             \/ \E p \in Path : RemovePath(p, "remove") \/ RemovePath(p, "restoreRemove")
             \/ SnapshotCreate \/ SnapshotDone \/ MarkSnapshotFailed \/ CaptureDone \/ RemoveDone
             \/ OverlayDone \/ ChecksPass \/ ChecksFail \/ MarkSuccess \/ RestoreBegin \/ RestoreRemoveDone
             \/ Verdict \/ SnapshotFails \/ TransactionFails \/ Operator
      PROVE  pc' # "overlay"
  BY <1>3 DEF UpgradeOpen, ArchivePath, CapturePath, ExtractPath, RestorePath, RemovePath, SnapshotCreate,
     SnapshotDone, MarkSnapshotFailed, CaptureDone, RemoveDone, OverlayDone, ChecksPass, ChecksFail,
     MarkSuccess, RestoreBegin, RestoreRemoveDone, Verdict, SnapshotFails, TransactionFails,
     StartAutoRollback, Operator, UserEdit, UpgradeBegin, RollbackBegin
<1>4. ASSUME \/ UpgradeAbandoned \/ RecordSnapshotFailed \/ RecordUpgrade \/ RecordFailure \/ RecordRollback
             \/ RecordFails \/ Killed \/ RestoreRefused \/ RestoreDone \/ RestoreFails \/ VerifyPass \/ VerifyFail
      PROVE  pc' # "overlay"
  BY <1>4 DEF UpgradeAbandoned, RecordSnapshotFailed, RecordUpgrade, RecordFailure, RecordRollback,
     RecordFails, Killed, RestoreRefused, RestoreDone, RestoreFails, VerifyPass, VerifyFail,
     RestoreResult, Exit
<1> QED
  BY <1>1, <1>2, <1>3, <1>4 DEF Next, Step, Fail

LEMMA RunningStep ==
  ASSUME Running, [Next]_vars
  PROVE  Running'
BY TypeStep, ControlStep, OverlayingStep DEF Running

LEMMA InitTypes == Init => Running
<1> SUFFICES ASSUME Init PROVE Running
  OBVIOUS
<1> USE InstallRootAssumption, ReleaseAssumption
<1>1. InitialVersion # Gone /\ root \in Root /\ EmptyRoot \in Root
  BY DEF Init, Installed, Root, EmptyRoot, Content, Core
<1>2. cmd \in Command /\ NoMeta \in Meta /\ NoStage \in [Preserve -> Content]
  BY DEF Init, NoCommand, Command, NoMeta, Meta, NoStage, Content
<1>3. TypeOK
  BY <1>1, <1>2 DEF Init, TypeOK, Time, Label
<1>4. Control /\ Overlaying
  BY DEF Init, Control, Overlaying, BeforeArchive, Transaction, Restoring, Failed
<1> QED
  BY <1>3, <1>4 DEF Running

-----------------------------------------------------------------------------
(***************************************************************************)
(* Archives, metadata and history.  All that a command needs to keep them  *)
(* true is that nobody else works on its snapshot: what it claims, what    *)
(* the disk says, and what a step may touch.  The root may be anything.    *)
(***************************************************************************)

Upgrading == cmd.mode \in {"upgrade", "autoRollback"}
Holding   == pc \notin {"idle", "open"} /\ Upgrading
Recording == {"record", "recordSnapshotFailed", "recordFailure"}
Verdicts  == {"success", "failed"}

\* The snapshot of the running command.  Of an upgrade: the archive is whole
\* from the transaction on, the metadata has the verdict when the history is
\* about to get it and not before, and the history has no line of it yet.
Claim ==
  /\ pc \notin {"idle", "open"} => cmd.sid \in dirs
  /\ Holding =>
       /\ pc \in BeforeArchive <=> ~Whole(cmd.sid)
       /\ \A line \in history : line.action = "upgrade" => line.sid # cmd.sid
       /\ pc \notin Recording => meta[cmd.sid].status \notin Verdicts
       /\ pc = "record" => meta[cmd.sid].status = "success"
       /\ pc = "recordSnapshotFailed" => meta[cmd.sid].status = "failed"
       /\ pc = "recordFailure" => \/ meta[cmd.sid].status = "torn"
                                  \/ meta[cmd.sid].status = "failed" /\ meta[cmd.sid].auto = cmd.result

\* The disk: what is known of a snapshot lies in a directory that was made.
Ledger ==
  /\ \A id \in Id : tar[id] # "none" \/ meta[id].status # "none" => id \in dirs
  /\ \A line \in history : line.sid \in dirs
  /\ HistoryTruthful

\* A whole archive and a verdict are never written over.
Kept ==
  \A id \in Id :
    /\ Whole(id) => tar'[id] = "whole" /\ image'[id] = image[id]
    /\ meta[id].status \in {"success", "failed"} => meta'[id] = meta[id]

\* What a step may touch: the snapshot the command holds, or a new one.
Footprint ==
  /\ dirs \subseteq dirs'
  /\ \A id \in dirs : ~(Holding /\ id = cmd.sid) => tar'[id] = tar[id] /\ meta'[id] = meta[id]
  /\ \A line \in history' : line \notin history /\ line.action = "upgrade" => Holding /\ line.sid = cmd.sid
  /\ Holding' => (Holding /\ cmd'.sid = cmd.sid) \/ cmd'.sid \notin dirs

LEMMA InitRecords == Init => Claim /\ Ledger
  BY DEF Init, Claim, Holding, Ledger, HistoryTruthful, NoMeta

-----------------------------------------------------------------------------
(* The steps by what they write.                                           *)

\* Steps that write no record and end no command.
Silent ==
  /\ pc \notin {"idle", "open"} \cup Recording /\ UNCHANGED <<dirs, tar, image, meta, history, before>>
  /\ cmd'.from = cmd.from /\ cmd'.sid = cmd.sid /\ (Upgrading' => Upgrading)
  /\ pc' \notin {"idle", "open", "snapshot"} \cup Recording
  /\ pc' \in BeforeArchive <=> pc \in BeforeArchive
  /\ pc' \in BeforeArchive => pc \in {"snapshot", "archive"}
  /\ pc' = "archive" => pc = "archive"

LEMMA SilentSteps ==
  ASSUME Running,
         \/ \E p \in Path : ArchivePath(p) \/ CapturePath(p) \/ ExtractPath(p) \/ OverlayPath(p) \/ RestorePath(p)
         \/ \E p \in Path : RemovePath(p, "remove") \/ RemovePath(p, "restoreRemove")
         \/ SnapshotFails \/ CaptureDone \/ RemoveDone \/ ExtractDone \/ OverlayDone
         \/ ChecksPass \/ ChecksFail \/ RestoreBegin \/ RestoreRemoveDone
         \/ TransactionFails /\ pc # "succeed"
         \/ (RestoreRefused \/ RestoreDone \/ RestoreFails \/ VerifyPass \/ VerifyFail) /\ pc' # "idle"
  PROVE  Silent
<1> USE DEF Silent, GoTo, local, disk, snaps, BeforeArchive, Recording, Upgrading
<1>1. CASE \E p \in Path : ArchivePath(p) \/ CapturePath(p) \/ ExtractPath(p) \/ OverlayPath(p) \/ RestorePath(p)
  BY <1>1 DEF ArchivePath, CapturePath, ExtractPath, OverlayPath, RestorePath
<1>2. CASE \/ \E p \in Path : RemovePath(p, "remove") \/ RemovePath(p, "restoreRemove")
           \/ SnapshotFails \/ CaptureDone \/ RemoveDone \/ ExtractDone \/ OverlayDone
           \/ ChecksPass \/ RestoreBegin \/ RestoreRemoveDone
  BY <1>2 DEF RemovePath, SnapshotFails, CaptureDone, RemoveDone, ExtractDone, OverlayDone,
     ChecksPass, RestoreBegin, RestoreRemoveDone
<1>3. CASE ChecksFail \/ (TransactionFails /\ pc # "succeed")
  <2>1. pc \in Transaction => cmd.mode = "upgrade"
    BY DEF Running, Control
  <2> QED
    BY <1>3, <2>1 DEF ChecksFail, TransactionFails, StartAutoRollback, Running, TypeOK, Command, Transaction
<1>4. CASE (RestoreRefused \/ RestoreDone \/ RestoreFails \/ VerifyPass \/ VerifyFail) /\ pc' # "idle"
  BY <1>4 DEF RestoreRefused, RestoreDone, RestoreFails, VerifyPass, VerifyFail, RestoreResult, Exit,
     Running, TypeOK, Command
<1> QED
  BY <1>1, <1>2, <1>3, <1>4

\* Steps that write the metadata of the snapshot in hand, and nothing else
\* that lasts;  the version they write is the one the command began with.
Marks ==
  /\ pc \notin {"idle", "open"} \cup Recording /\ pc' \notin {"idle", "open", "snapshot", "archive"}
  /\ UNCHANGED <<dirs, tar, image, history, before>>
  /\ Upgrading /\ cmd'.from = cmd.from /\ cmd'.sid = cmd.sid /\ cmd.sid \in Id
  /\ pc' \in BeforeArchive <=> pc \in BeforeArchive
  /\ \A id \in Id : id # cmd.sid => meta'[id] = meta[id]
  /\ meta'[cmd.sid].from \in {cmd.from, Gone}
  /\ pc' = "record" => meta'[cmd.sid].status = "success"
  /\ pc' = "recordSnapshotFailed" => meta'[cmd.sid].status = "failed"
  /\ pc' = "recordFailure" => \/ meta'[cmd.sid].status = "torn"
                              \/ meta'[cmd.sid].status = "failed" /\ meta'[cmd.sid].auto = cmd'.result
  /\ pc' \notin Recording => meta'[cmd.sid].status = "torn"

LEMMA MarkSteps ==
  ASSUME Running, MarkSnapshotFailed \/ MarkSuccess \/ Verdict \/ (TransactionFails /\ pc = "succeed")
  PROVE  Marks
<1>1. /\ pc \in {"snapshotFailed", "succeed", "verdict"} /\ cmd.sid \in Id /\ Upgrading
      /\ meta \in [Id -> Meta]
  BY DEF MarkSnapshotFailed, MarkSuccess, Verdict, TransactionFails, Running, TypeOK, Control,
     BeforeArchive, Transaction, Failed, Upgrading
<1> USE DEF Marks, GoTo, local, BeforeArchive, Recording, WriteMeta, TornMeta
<1>2. CASE MarkSnapshotFailed
  BY <1>1, <1>2 DEF MarkSnapshotFailed
<1>3. CASE MarkSuccess
  BY <1>1, <1>3 DEF MarkSuccess
<1>4. CASE Verdict
  BY <1>1, <1>4 DEF Verdict
<1>5. CASE TransactionFails /\ pc = "succeed"
  BY <1>1, <1>5 DEF TransactionFails, StartAutoRollback, Running, TypeOK, Command
<1> QED
  BY <1>2, <1>3, <1>4, <1>5

\* Steps that end a command: a kill may tear the metadata of an upgrade.
Ends ==
  /\ pc # "idle" /\ pc' = "idle" /\ UNCHANGED <<dirs, tar, image>>
  /\ \/ meta' = meta
     \/ /\ pc \notin {"open"} \cup Recording /\ Upgrading /\ cmd.sid \in Id
        /\ meta' = [meta EXCEPT ![cmd.sid] = TornMeta] /\ history' = history

LEMMA EndingSteps ==
  ASSUME Running,
         \/ UpgradeAbandoned \/ RecordSnapshotFailed \/ RecordUpgrade \/ RecordFailure \/ RecordRollback
         \/ RecordFails \/ Killed
         \/ (RestoreRefused \/ RestoreDone \/ RestoreFails \/ VerifyPass \/ VerifyFail) /\ pc' = "idle"
  PROVE  Ends /\ (history' = history \/ RecordSnapshotFailed \/ RecordUpgrade \/ RecordFailure \/ RecordRollback)
<1>0. /\ pc \in {"snapshot", "snapshotFailed", "succeed", "verdict"} => Upgrading
      /\ pc \notin {"idle", "open"} => cmd.sid \in Id
  BY DEF Running, Control, BeforeArchive, Transaction, Failed, Upgrading
<1> USE DEF Ends, Recording, GoTo, disk, snaps, Exit
<1>1. CASE UpgradeAbandoned \/ RecordSnapshotFailed \/ RecordUpgrade \/ RecordFailure \/ RecordRollback
  BY <1>1 DEF UpgradeAbandoned, RecordSnapshotFailed, RecordUpgrade, RecordFailure, RecordRollback
<1>2. CASE RecordFails \/ Killed
  BY <1>0, <1>2 DEF RecordFails, Killed, WriteMeta
<1>3. CASE (RestoreRefused \/ RestoreDone \/ RestoreFails \/ VerifyPass \/ VerifyFail) /\ pc' = "idle"
  BY <1>3 DEF RestoreRefused, RestoreDone, RestoreFails, VerifyPass, VerifyFail, RestoreResult
<1> QED
  BY <1>1, <1>2, <1>3

\* Steps between commands, and those that begin one.
LEMMA BeginSteps ==
  ASSUME Operator
  PROVE  /\ pc = "idle" /\ UNCHANGED <<dirs, tar, image, meta, history>>
         /\ pc' \in {"idle", "open", "restore"}
         /\ pc' = "open" => cmd'.from = before'[VersionFile]
         /\ pc' = "restore" => cmd'.mode = "rollback" /\ cmd'.sid \in dirs
BY DEF Operator, UserEdit, UpgradeBegin, RollbackBegin, GoTo, disk, snaps

LEMMA StepKinds ==
  ASSUME Running, Next
  PROVE  \/ Silent \/ Ends \/ Operator
         \/ MarkSnapshotFailed \/ MarkSuccess \/ Verdict \/ (TransactionFails /\ pc = "succeed")
         \/ (\E t \in Time : UpgradeOpen(t)) \/ SnapshotCreate \/ SnapshotDone
BY SilentSteps, EndingSteps DEF Next, Step, Fail

LEMMA EndKinds ==
  ASSUME Running, Next, Ends
  PROVE  history' = history \/ RecordSnapshotFailed \/ RecordUpgrade \/ RecordFailure \/ RecordRollback
<1>1. ~Silent /\ ~Operator
  BY BeginSteps DEF Silent, Ends
<1>2. ~(\E t \in Time : UpgradeOpen(t)) /\ ~SnapshotCreate /\ ~SnapshotDone
  BY DEF Ends, UpgradeOpen, SnapshotCreate, SnapshotDone, GoTo
<1>3. ~(MarkSnapshotFailed \/ MarkSuccess \/ Verdict \/ (TransactionFails /\ pc = "succeed"))
  BY MarkSteps DEF Ends, Marks
<1> QED
  BY <1>1, <1>2, <1>3, SilentSteps, EndingSteps DEF Next, Step, Fail

-----------------------------------------------------------------------------
\* A snapshot is opened under a name that is new.
LEMMA NewName ==
  ASSUME Running, Ledger, DistinctSeconds, NEW t \in Time, UpgradeOpen(t)
  PROVE  /\ cmd'.sid \in Id /\ cmd'.sid \notin dirs /\ tar[cmd'.sid] = "none" /\ meta[cmd'.sid].status = "none"
         /\ pc = "open" /\ pc' = "snapshot" /\ cmd'.from = cmd.from /\ cmd.mode = "upgrade"
         /\ dirs' = dirs \cup {cmd'.sid} /\ UNCHANGED <<tar, image, history, before>>
         /\ \A id \in Id : id # cmd'.sid => meta'[id] = meta[id]
         /\ meta'[cmd'.sid].from = cmd.from /\ meta'[cmd'.sid].status = "in_progress"
<1>1. cmd.to \in Version /\ pc = "open" /\ cmd.mode = "upgrade" /\ cmd \in Command /\ meta \in [Id -> Meta]
  BY DEF UpgradeOpen, Running, TypeOK, Control
<1>2. cmd'.sid = <<t, cmd.to>> /\ cmd'.from = cmd.from
  BY <1>1 DEF UpgradeOpen, Command
<1>3. <<t, cmd.to>> \in Id /\ <<t, cmd.to>> \notin dirs
  <2>1. \A id \in dirs : id[1] < t
    BY DEF UpgradeOpen
  <2>2. t \in Nat
    BY ReleaseAssumption DEF Time
  <2> QED
    BY <1>1, <2>1, <2>2 DEF Id
<1>4. tar[<<t, cmd.to>>] = "none" /\ meta[<<t, cmd.to>>].status = "none"
  BY <1>3 DEF Ledger
<1> QED
  BY <1>1, <1>2, <1>3, <1>4 DEF UpgradeOpen, GoTo

-----------------------------------------------------------------------------
\* Every step keeps what the command claims and what the disk says true, in
\* its own footprint, and writes nothing over that counts.
LEMMA RecordsStep ==
  ASSUME Running, DistinctSeconds, Claim, Ledger, [Next]_vars
  PROVE  Claim' /\ Ledger' /\ Footprint /\ Kept
<1>0. /\ pc \notin {"idle", "open"} => cmd.sid \in Id
      /\ tar \in [Id -> {"none", "partial", "whole"}] /\ image \in [Id -> Root] /\ meta \in [Id -> Meta]
      /\ dirs \subseteq Id
      /\ \A line \in history : line.sid \in Id
  BY DEF Running, Control, TypeOK, Line
<1> USE DEF Claim, Holding, Ledger, HistoryTruthful, Footprint, Kept, Whole, Verdicts
<1>1. CASE Silent
  BY <1>1 DEF Silent, Recording
<1>2. CASE Ends
  <2>0. pc' = "idle" /\ UNCHANGED <<dirs, tar, image>> /\ Claim'
    BY <1>2 DEF Ends
  <2>1. CASE history' = history
    <3>1. CASE meta' = meta
      BY <2>0, <2>1, <3>1
    <3>2. CASE meta' # meta
      <4>1. /\ Holding /\ pc \notin Recording /\ cmd.sid \in Id /\ cmd.sid \in dirs
            /\ meta' = [meta EXCEPT ![cmd.sid] = TornMeta]
        BY <1>2, <3>2 DEF Ends
      <4> QED
        BY <1>0, <2>0, <2>1, <4>1 DEF TornMeta
    <3> QED
      BY <3>1, <3>2
  <2>2. CASE history' # history
    <3>1. RecordSnapshotFailed \/ RecordUpgrade \/ RecordFailure \/ RecordRollback
      BY <1>2, <2>2, EndKinds, StepKinds DEF vars
    <3>2. meta' = meta
      BY <1>2, <2>2 DEF Ends
    <3>3. PICK line :
            /\ history' = history \cup {line} /\ line.sid = cmd.sid
            /\ line.action = "upgrade" => /\ pc \in Recording
                                          /\ line.note = "package_replaced" => pc = "record"
                                          /\ line.status = "failed" => pc \in {"recordSnapshotFailed", "recordFailure"}
                                          /\ line.note = "success" => pc = "recordFailure" /\ cmd.result = "success"
      <4> DEFINE Says(action, status, note) == [action |-> action, status |-> status, sid |-> cmd.sid, note |-> note]
      <4>1. PICK a \in {"upgrade", "rollback"}, s \in {"success", "failed"},
                 n \in {"package_replaced", "snapshot_failed", "snapshot_restored"} \cup {cmd.result} :
              /\ Append_history(a, s, n)
              /\ a = "upgrade" => /\ pc \in Recording
                                  /\ n = "package_replaced" => pc = "record"
                                  /\ s = "failed" => pc \in {"recordSnapshotFailed", "recordFailure"}
                                  /\ n = "success" => pc = "recordFailure" /\ cmd.result = "success"
        <5>1. cmd.result # "package_replaced"
          BY DEF Running, TypeOK, Command
        <5> USE DEF Recording
        <5>2. CASE RecordSnapshotFailed
          BY <5>2 DEF RecordSnapshotFailed
        <5>3. CASE RecordUpgrade
          BY <5>3 DEF RecordUpgrade
        <5>4. CASE RecordFailure
          BY <2>2, <5>1, <5>4 DEF RecordFailure
        <5>5. CASE RecordRollback
          BY <5>5 DEF RecordRollback
        <5> QED
          BY <3>1, <5>2, <5>3, <5>4, <5>5
      <4>2. history' = history \cup {Says(a, s, n)}
        BY <4>1 DEF Append_history
      <4>3. Says(a, s, n).action = a /\ Says(a, s, n).status = s /\ Says(a, s, n).note = n
            /\ Says(a, s, n).sid = cmd.sid
        OBVIOUS
      <4> HIDE DEF Says
      <4> WITNESS Says(a, s, n)
      <4> QED
        BY <4>1, <4>2, <4>3
    <3>4. cmd.sid \in dirs /\ (pc \in Recording => Holding)
      BY <3>1 DEF RecordSnapshotFailed, RecordUpgrade, RecordFailure, RecordRollback,
         Running, Control, BeforeArchive, Transaction, Failed, Recording, Upgrading
    <3>5. pc = "record" => Whole(cmd.sid)
      BY <3>4 DEF Recording, BeforeArchive
    <3>6. Footprint /\ Kept
      BY <2>0, <3>2, <3>3, <3>4
    <3>7. Ledger'
      BY <2>0, <3>2, <3>3, <3>4, <3>5 DEF Recording
    <3> QED
      BY <2>0, <3>6, <3>7
  <2> QED
    BY <2>1, <2>2
<1>3. CASE Operator
  BY <1>3, BeginSteps DEF Upgrading
<1>4. CASE MarkSnapshotFailed \/ MarkSuccess \/ Verdict \/ (TransactionFails /\ pc = "succeed")
  <2>1. Marks
    BY <1>4, MarkSteps
  <2>2. cmd.sid \in dirs /\ Holding /\ meta[cmd.sid].status \notin Verdicts
    BY <2>1 DEF Marks
  <2>3. Claim'
    BY <1>0, <2>1, <2>2 DEF Marks
  <2>4. Ledger' /\ Footprint /\ Kept
    BY <1>0, <2>1, <2>2 DEF Marks
  <2> QED
    BY <2>3, <2>4
<1>5. ASSUME NEW t \in Time, UpgradeOpen(t)
      PROVE  Claim' /\ Ledger' /\ Footprint /\ Kept
  BY <1>0, <1>5, NewName DEF BeforeArchive, Recording
<1>6. CASE SnapshotCreate \/ SnapshotDone
  <2>1. /\ pc \in {"snapshot", "archive"} /\ UNCHANGED <<dirs, meta, history, cmd>>
        /\ \A id \in Id : id # cmd.sid => tar'[id] = tar[id] /\ image'[id] = image[id]
        /\ \/ pc' = "archive" /\ tar'[cmd.sid] = "partial"
           \/ pc' = "capture" /\ tar'[cmd.sid] = "whole"
    BY <1>0, <1>6 DEF SnapshotCreate, SnapshotDone, GoTo, local
  <2>2. Holding /\ ~Whole(cmd.sid) /\ cmd.sid \in dirs
    BY <2>1 DEF Running, Control, BeforeArchive, Upgrading
  <2>3. Claim'
    BY <1>0, <2>1, <2>2 DEF BeforeArchive, Recording, Upgrading
  <2>4. Ledger' /\ Footprint /\ Kept
    BY <1>0, <2>1, <2>2 DEF Upgrading
  <2> QED
    BY <2>3, <2>4
<1>7. CASE UNCHANGED vars
  BY <1>7 DEF vars, Upgrading
<1> QED
  BY <1>1, <1>2, <1>3, <1>4, <1>5, <1>6, <1>7, StepKinds

LEMMA RecordsInvariant == ASSUME DistinctSeconds PROVE Spec => [](Running /\ Claim /\ Ledger)
<1>1. Init => Running /\ Claim /\ Ledger
  BY InitTypes, InitRecords
<1>2. Running /\ Claim /\ Ledger /\ [Next]_vars => Running' /\ Claim' /\ Ledger'
  BY RunningStep, RecordsStep
<1> QED
  BY <1>1, <1>2, PTL DEF Spec

\* The history never contradicts the metadata.
THEOREM HistoryIsTrue == ASSUME DistinctSeconds PROVE Spec => []HistoryTruthful
<1>1. Ledger => HistoryTruthful
  BY DEF Ledger
<1> QED
  BY <1>1, RecordsInvariant, PTL

\* A whole archive and a verdict are never written over.
THEOREM ArchivesAreKept == ASSUME DistinctSeconds PROVE Spec => ArchivesImmutable
<1>1. Running /\ Claim /\ Ledger /\ [Next]_vars =>
        [\A id \in Id :
           /\ Whole(id) => tar'[id] = "whole" /\ image'[id] = image[id]
           /\ meta[id].status \in {"success", "failed"} => meta'[id] = meta[id]]_snaps
  BY RecordsStep DEF Kept
<1> QED
  BY <1>1, RecordsInvariant, PTL DEF Spec, ArchivesImmutable

-----------------------------------------------------------------------------
(***************************************************************************)
(* The root, when no other command runs.                                   *)
(***************************************************************************)

LEMMA RunsIn == IInv => Running
  BY DEF IInv, Replacing, Running, Overlaying

\* Every step keeps archives inside directories, and a fresh snapshot empty.
LEMMA DirectoriesStep == IInv /\ [Next]_vars => Directories'
<1> SUFFICES ASSUME TypeOK, Control, Directories, [Next]_vars PROVE Directories'
  BY DEF IInv
<1> USE DEF Directories, GoTo, local, disk, snaps, Whole
<1>2. CASE UpgradeAbandoned
  BY <1>2, ExitType DEF UpgradeAbandoned
<1>3. CASE SnapshotCreate
  BY <1>3 DEF SnapshotCreate, TypeOK, Control, BeforeArchive
<1>4. CASE SnapshotDone
  BY <1>4 DEF SnapshotDone, TypeOK, Control, BeforeArchive
<1>5. CASE MarkSnapshotFailed
  BY <1>5 DEF MarkSnapshotFailed, WriteMeta
<1>6. CASE RecordSnapshotFailed
  BY <1>6, ExitType DEF RecordSnapshotFailed
<1>7. CASE CaptureDone
  BY <1>7 DEF CaptureDone
<1>8. CASE RemoveDone
  BY <1>8 DEF RemoveDone
<1>9. CASE ExtractDone
  BY <1>9 DEF ExtractDone
<1>10. CASE OverlayDone
  BY <1>10 DEF OverlayDone
<1>11. CASE ChecksPass
  BY <1>11 DEF ChecksPass
<1>12. CASE ChecksFail
  BY <1>12, AutoType DEF ChecksFail
<1>13. CASE MarkSuccess
  BY <1>13 DEF MarkSuccess, WriteMeta
<1>14. CASE RecordUpgrade
  BY <1>14, ExitType DEF RecordUpgrade
<1>15. CASE RestoreBegin
  BY <1>15 DEF RestoreBegin
<1>16. CASE RestoreRefused
  BY <1>16, ResultType DEF RestoreRefused
<1>17. CASE RestoreRemoveDone
  BY <1>17 DEF RestoreRemoveDone
<1>18. CASE RestoreDone
  BY <1>18, ResultType DEF RestoreDone
<1>19. CASE VerifyPass
  BY <1>19, ResultType DEF VerifyPass
<1>20. CASE VerifyFail
  BY <1>20, ResultType DEF VerifyFail
<1>21. CASE Verdict
  BY <1>21 DEF Verdict, WriteMeta
<1>22. CASE RecordFailure
  BY <1>22, ExitType DEF RecordFailure
<1>23. CASE RecordRollback
  BY <1>23, ExitType DEF RecordRollback
<1>24. CASE SnapshotFails
  BY <1>24 DEF SnapshotFails
<1>25. CASE TransactionFails
  BY <1>25, AutoType DEF TransactionFails, WriteMeta
<1>26. CASE RestoreFails
  BY <1>26, ResultType DEF RestoreFails
<1>27. CASE RecordFails
  BY <1>27, ExitType DEF RecordFails, WriteMeta
<1>28. CASE Killed
  BY <1>28, ExitType DEF Killed, WriteMeta
<1>29. ASSUME NEW t \in Time, UpgradeOpen(t)
      PROVE  Directories'
  <2>1. cmd'.sid = <<t, cmd.to>> /\ cmd'.sid[1] = t
    BY <1>29 DEF UpgradeOpen, TypeOK, Command
  <2>2. DistinctSeconds => tar[<<t, cmd.to>>] = "none"
    <3>1. <<t, cmd.to>> \in Id /\ <<t, cmd.to>>[1] = t /\ ~(t < t)
      BY <1>29, ReleaseAssumption DEF UpgradeOpen, Control, Id, Time
    <3>2. DistinctSeconds => <<t, cmd.to>> \notin dirs
      BY <1>29, <3>1 DEF UpgradeOpen
    <3>3. QED
      BY <3>1, <3>2 DEF Directories
  <2>3. QED
    BY <1>29, <2>1, <2>2 DEF UpgradeOpen
<1>30. ASSUME NEW p \in Path, ArchivePath(p)
      PROVE  Directories'
  BY <1>30 DEF ArchivePath
<1>31. ASSUME NEW p \in Path, CapturePath(p)
      PROVE  Directories'
  BY <1>31 DEF CapturePath
<1>32. ASSUME NEW p \in Path, NEW label \in {"remove", "restoreRemove"}, RemovePath(p, label)
      PROVE  Directories'
  BY <1>32 DEF RemovePath
<1>33. ASSUME NEW p \in Path, ExtractPath(p)
      PROVE  Directories'
  BY <1>33 DEF ExtractPath
<1>34. ASSUME NEW p \in Path, OverlayPath(p)
      PROVE  Directories'
  BY <1>34 DEF OverlayPath
<1>35. ASSUME NEW p \in Path, RestorePath(p)
      PROVE  Directories'
  BY <1>35 DEF RestorePath
<1>36. ASSUME NEW p \in Path, NEW e \in Edit \cup {Gone}, UserEdit(p, e)
      PROVE  Directories'
  BY <1>36 DEF UserEdit
<1>37. ASSUME NEW v \in Version, NEW skip \in BOOLEAN, UpgradeBegin(v, skip)
      PROVE  Directories'
  BY <1>37 DEF UpgradeBegin
<1>38. ASSUME NEW id \in Id, NEW skip \in BOOLEAN, RollbackBegin(id, skip)
      PROVE  Directories'
  BY <1>38 DEF RollbackBegin
<1>39. CASE UNCHANGED vars
  BY <1>39 DEF vars
<1>40. QED
  BY <1>2, <1>3, <1>4, <1>5, <1>6, <1>7, <1>8, <1>9, <1>10, <1>11, <1>12, <1>13, <1>14, <1>15, <1>16, <1>17, <1>18, <1>19, <1>20, <1>21, <1>22, <1>23, <1>24, <1>25, <1>26, <1>27, <1>28, <1>29, <1>30, <1>31, <1>32, <1>33, <1>34, <1>35, <1>36, <1>37, <1>38, <1>39 DEF Next, Step, Fail, Operator

\* Every step keeps the root untouched until the archive holds it, and the
\* archive as it is from then on.
LEMMA ArchivedStep == IInv /\ [Next]_vars => Archived'
<1> SUFFICES ASSUME TypeOK, Control, Archived, [Next]_vars PROVE Archived'
  BY DEF IInv
<1> USE DEF Archived, GoTo, local, disk, snaps, Whole, BeforeArchive, Transaction, Restoring, Failed
<1>2. CASE UpgradeAbandoned
  BY <1>2, ExitType DEF UpgradeAbandoned
<1>3. CASE SnapshotCreate
  BY <1>3 DEF SnapshotCreate, Control
<1>4. CASE SnapshotDone
  <2>1. stream = root
    BY <1>4 DEF SnapshotDone, Archived, TypeOK, Root
  <2>2. Whole(cmd.sid)' /\ image'[cmd.sid] = before /\ cmd.mode = "upgrade"
    BY <1>4, <2>1 DEF SnapshotDone, Archived, TypeOK, Control, Whole, BeforeArchive
  <2>3. QED
    BY <1>4, <2>2 DEF SnapshotDone
<1>5. CASE MarkSnapshotFailed
  BY <1>5 DEF MarkSnapshotFailed, WriteMeta
<1>6. CASE RecordSnapshotFailed
  BY <1>6, ExitType DEF RecordSnapshotFailed
<1>7. CASE CaptureDone
  BY <1>7 DEF CaptureDone
<1>8. CASE RemoveDone
  BY <1>8 DEF RemoveDone
<1>9. CASE ExtractDone
  BY <1>9 DEF ExtractDone
<1>10. CASE OverlayDone
  BY <1>10 DEF OverlayDone
<1>11. CASE ChecksPass
  BY <1>11 DEF ChecksPass
<1>12. CASE ChecksFail
  BY <1>12, AutoType DEF ChecksFail, Control
<1>13. CASE MarkSuccess
  BY <1>13 DEF MarkSuccess, WriteMeta
<1>14. CASE RecordUpgrade
  BY <1>14, ExitType DEF RecordUpgrade
<1>15. CASE RestoreBegin
  BY <1>15 DEF RestoreBegin
<1>16. CASE RestoreRefused
  BY <1>16, ResultType DEF RestoreRefused
<1>17. CASE RestoreRemoveDone
  BY <1>17 DEF RestoreRemoveDone
<1>18. CASE RestoreDone
  BY <1>18, ResultType DEF RestoreDone
<1>19. CASE VerifyPass
  BY <1>19, ResultType DEF VerifyPass
<1>20. CASE VerifyFail
  BY <1>20, ResultType DEF VerifyFail
<1>21. CASE Verdict
  BY <1>21 DEF Verdict, WriteMeta
<1>22. CASE RecordFailure
  BY <1>22, ExitType DEF RecordFailure
<1>23. CASE RecordRollback
  BY <1>23, ExitType DEF RecordRollback
<1>24. CASE SnapshotFails
  BY <1>24 DEF SnapshotFails
<1>25. CASE TransactionFails
  BY <1>25, AutoType DEF TransactionFails, WriteMeta, Control
<1>26. CASE RestoreFails
  BY <1>26, ResultType DEF RestoreFails
<1>27. CASE RecordFails
  BY <1>27, ExitType DEF RecordFails, WriteMeta
<1>28. CASE Killed
  BY <1>28, ExitType DEF Killed, WriteMeta
<1>29. ASSUME NEW t \in Time, UpgradeOpen(t)
      PROVE  Archived'
  <2>1. cmd'.mode = cmd.mode /\ cmd.mode = "upgrade"
    BY <1>29 DEF UpgradeOpen, TypeOK, Command, Control
  <2>2. QED
    BY <1>29, <2>1 DEF UpgradeOpen
<1>30. ASSUME NEW p \in Path, ArchivePath(p)
      PROVE  Archived'
  BY <1>30 DEF ArchivePath, TypeOK, Root
<1>31. ASSUME NEW p \in Path, CapturePath(p)
      PROVE  Archived'
  BY <1>31 DEF CapturePath
<1>32. ASSUME NEW p \in Path, NEW label \in {"remove", "restoreRemove"}, RemovePath(p, label)
      PROVE  Archived'
  BY <1>32 DEF RemovePath
<1>33. ASSUME NEW p \in Path, ExtractPath(p)
      PROVE  Archived'
  BY <1>33 DEF ExtractPath
<1>34. ASSUME NEW p \in Path, OverlayPath(p)
      PROVE  Archived'
  BY <1>34 DEF OverlayPath
<1>35. ASSUME NEW p \in Path, RestorePath(p)
      PROVE  Archived'
  BY <1>35 DEF RestorePath
<1>36. ASSUME NEW p \in Path, NEW e \in Edit \cup {Gone}, UserEdit(p, e)
      PROVE  Archived'
  BY <1>36 DEF UserEdit
<1>37. ASSUME NEW v \in Version, NEW skip \in BOOLEAN, UpgradeBegin(v, skip)
      PROVE  Archived'
  BY <1>37 DEF UpgradeBegin
<1>38. ASSUME NEW id \in Id, NEW skip \in BOOLEAN, RollbackBegin(id, skip)
      PROVE  Archived'
  BY <1>38 DEF RollbackBegin
<1>39. CASE UNCHANGED vars
  BY <1>39 DEF vars
<1>40. QED
  BY <1>2, <1>3, <1>4, <1>5, <1>6, <1>7, <1>8, <1>9, <1>10, <1>11, <1>12, <1>13, <1>14, <1>15, <1>16, <1>17, <1>18, <1>19, <1>20, <1>21, <1>22, <1>23, <1>24, <1>25, <1>26, <1>27, <1>28, <1>29, <1>30, <1>31, <1>32, <1>33, <1>34, <1>35, <1>36, <1>37, <1>38, <1>39 DEF Next, Step, Fail, Operator

\* Every step keeps what the loops of an upgrade have done so far.
LEMMA ReplacingStep == IInv /\ [Next]_vars => Replacing'
<1> SUFFICES ASSUME TypeOK, Control, Archived, Replacing, [Next]_vars PROVE Replacing'
  BY DEF IInv
<1> USE DEF Replacing, Replaced, GoTo, local, disk
<1>2. CASE UpgradeAbandoned
  BY <1>2, ExitType DEF UpgradeAbandoned
<1>3. CASE SnapshotCreate
  BY <1>3 DEF SnapshotCreate
<1>4. CASE SnapshotDone
  BY <1>4 DEF SnapshotDone
<1>5. CASE MarkSnapshotFailed
  BY <1>5 DEF MarkSnapshotFailed
<1>6. CASE RecordSnapshotFailed
  BY <1>6, ExitType DEF RecordSnapshotFailed
<1>7. CASE CaptureDone
  BY <1>7 DEF CaptureDone
<1>8. CASE RemoveDone
  BY <1>8 DEF RemoveDone
<1>9. CASE ExtractDone
  BY <1>9 DEF ExtractDone, Installed
<1>10. CASE OverlayDone
  <2>1. root = Merge(before, cmd.to)
    BY <1>10 DEF OverlayDone, Replacing, TypeOK, Root, Merge
  <2>2. QED
    BY <1>10, <2>1 DEF OverlayDone
<1>11. CASE ChecksPass
  BY <1>11 DEF ChecksPass
<1>12. CASE ChecksFail
  BY <1>12, AutoType DEF ChecksFail
<1>13. CASE MarkSuccess
  BY <1>13 DEF MarkSuccess
<1>14. CASE RecordUpgrade
  BY <1>14, ExitType DEF RecordUpgrade
<1>15. CASE RestoreBegin
  BY <1>15 DEF RestoreBegin
<1>16. CASE RestoreRefused
  BY <1>16, ResultType DEF RestoreRefused
<1>17. CASE RestoreRemoveDone
  BY <1>17 DEF RestoreRemoveDone
<1>18. CASE RestoreDone
  BY <1>18, ResultType DEF RestoreDone
<1>19. CASE VerifyPass
  BY <1>19, ResultType DEF VerifyPass
<1>20. CASE VerifyFail
  BY <1>20, ResultType DEF VerifyFail
<1>21. CASE Verdict
  BY <1>21 DEF Verdict
<1>22. CASE RecordFailure
  BY <1>22, ExitType DEF RecordFailure
<1>23. CASE RecordRollback
  BY <1>23, ExitType DEF RecordRollback
<1>24. CASE SnapshotFails
  BY <1>24 DEF SnapshotFails
<1>25. CASE TransactionFails
  BY <1>25, AutoType DEF TransactionFails
<1>26. CASE RestoreFails
  BY <1>26, ResultType DEF RestoreFails
<1>27. CASE RecordFails
  BY <1>27, ExitType DEF RecordFails
<1>28. CASE Killed
  BY <1>28, ExitType DEF Killed
<1>29. ASSUME NEW t \in Time, UpgradeOpen(t)
      PROVE  Replacing'
  BY <1>29 DEF UpgradeOpen
<1>30. ASSUME NEW p \in Path, ArchivePath(p)
      PROVE  Replacing'
  BY <1>30 DEF ArchivePath
<1>31. ASSUME NEW p \in Path, CapturePath(p)
      PROVE  Replacing'
  BY <1>31 DEF CapturePath, TypeOK, Archived
<1>32. ASSUME NEW p \in Path, NEW label \in {"remove", "restoreRemove"}, RemovePath(p, label)
      PROVE  Replacing'
  BY <1>32 DEF RemovePath, TypeOK, Root
<1>33. ASSUME NEW p \in Path, ExtractPath(p)
      PROVE  Replacing'
  BY <1>33 DEF ExtractPath, TypeOK, Root
<1>34. ASSUME NEW p \in Path, OverlayPath(p)
      PROVE  Replacing'
  <2>1. p \in Preserve /\ stage[p] = before[p] /\ root[p] = Installed(cmd.to)[p]
    BY <1>34, InstallRootAssumption DEF OverlayPath, Replacing
  <2>2. root'[p] = Merge(before, cmd.to)[p]
    BY <1>34, <2>1, InstallRootAssumption DEF OverlayPath, Merge, TypeOK, Root
  <2>3. \A q \in Path \ {p} : root'[q] = root[q]
    BY <1>34 DEF OverlayPath, TypeOK, Root
  <2>4. QED
    BY <1>34, <2>2, <2>3 DEF OverlayPath
<1>35. ASSUME NEW p \in Path, RestorePath(p)
      PROVE  Replacing'
  BY <1>35 DEF RestorePath
<1>36. ASSUME NEW p \in Path, NEW e \in Edit \cup {Gone}, UserEdit(p, e)
      PROVE  Replacing'
  BY <1>36 DEF UserEdit
<1>37. ASSUME NEW v \in Version, NEW skip \in BOOLEAN, UpgradeBegin(v, skip)
      PROVE  Replacing'
  BY <1>37 DEF UpgradeBegin
<1>38. ASSUME NEW id \in Id, NEW skip \in BOOLEAN, RollbackBegin(id, skip)
      PROVE  Replacing'
  BY <1>38 DEF RollbackBegin
<1>39. CASE UNCHANGED vars
  BY <1>39 DEF vars
<1>40. QED
  BY <1>2, <1>3, <1>4, <1>5, <1>6, <1>7, <1>8, <1>9, <1>10, <1>11, <1>12, <1>13, <1>14, <1>15, <1>16, <1>17, <1>18, <1>19, <1>20, <1>21, <1>22, <1>23, <1>24, <1>25, <1>26, <1>27, <1>28, <1>29, <1>30, <1>31, <1>32, <1>33, <1>34, <1>35, <1>36, <1>37, <1>38, <1>39 DEF Next, Step, Fail, Operator

\* Every step keeps what the loops of a restore have done so far.
LEMMA RestoringStep == IInv /\ [Next]_vars => RestoringOK'
<1> SUFFICES ASSUME TypeOK, Control, Archived, RestoringOK, [Next]_vars PROVE RestoringOK'
  BY DEF IInv
<1>0. pc = "restoreExtract" /\ todo = {} => root = image[cmd.sid]
  BY DEF RestoringOK, Control, Restoring, TypeOK, Root
<1>1. pc \in Restoring /\ cmd.mode = "autoRollback" => image[cmd.sid] = before
  BY DEF Archived, Restoring
<1> USE DEF RestoringOK, GoTo, local, disk, snaps, Failed
<1>2. CASE UpgradeAbandoned
  BY <1>2, <1>0, <1>1, ExitType DEF UpgradeAbandoned
<1>3. CASE SnapshotCreate
  BY <1>3, <1>0, <1>1 DEF SnapshotCreate
<1>4. CASE SnapshotDone
  BY <1>4, <1>0, <1>1 DEF SnapshotDone
<1>5. CASE MarkSnapshotFailed
  BY <1>5, <1>0, <1>1 DEF MarkSnapshotFailed, WriteMeta
<1>6. CASE RecordSnapshotFailed
  BY <1>6, <1>0, <1>1, ExitType DEF RecordSnapshotFailed
<1>7. CASE CaptureDone
  BY <1>7, <1>0, <1>1 DEF CaptureDone
<1>8. CASE RemoveDone
  BY <1>8, <1>0, <1>1 DEF RemoveDone
<1>9. CASE ExtractDone
  BY <1>9, <1>0, <1>1 DEF ExtractDone
<1>10. CASE OverlayDone
  BY <1>10, <1>0, <1>1 DEF OverlayDone
<1>11. CASE ChecksPass
  BY <1>11, <1>0, <1>1 DEF ChecksPass
<1>12. CASE ChecksFail
  BY <1>12, <1>0, <1>1, AutoType DEF ChecksFail
<1>13. CASE MarkSuccess
  BY <1>13, <1>0, <1>1 DEF MarkSuccess, WriteMeta
<1>14. CASE RecordUpgrade
  BY <1>14, <1>0, <1>1, ExitType DEF RecordUpgrade
<1>15. CASE RestoreBegin
  BY <1>15, <1>0, <1>1 DEF RestoreBegin
<1>16. CASE RestoreRefused
  BY <1>16, <1>0, <1>1, ResultType DEF RestoreRefused
<1>17. CASE RestoreRemoveDone
  BY <1>17, <1>0, <1>1 DEF RestoreRemoveDone, TypeOK, Root, Control, Restoring
<1>18. CASE RestoreDone
  BY <1>18, <1>0, <1>1, ResultType DEF RestoreDone, Restoring
<1>19. CASE VerifyPass
  BY <1>19, <1>0, <1>1, ResultType DEF VerifyPass, Restoring
<1>20. CASE VerifyFail
  BY <1>20, <1>0, <1>1, ResultType DEF VerifyFail, Restoring
<1>21. CASE Verdict
  BY <1>21, <1>0, <1>1 DEF Verdict, WriteMeta
<1>22. CASE RecordFailure
  BY <1>22, <1>0, <1>1, ExitType DEF RecordFailure
<1>23. CASE RecordRollback
  BY <1>23, <1>0, <1>1, ExitType DEF RecordRollback
<1>24. CASE SnapshotFails
  BY <1>24, <1>0, <1>1 DEF SnapshotFails
<1>25. CASE TransactionFails
  BY <1>25, <1>0, <1>1, AutoType DEF TransactionFails, WriteMeta
<1>26. CASE RestoreFails
  BY <1>26, <1>0, <1>1, ResultType DEF RestoreFails
<1>27. CASE RecordFails
  BY <1>27, <1>0, <1>1, ExitType DEF RecordFails, WriteMeta
<1>28. CASE Killed
  BY <1>28, <1>0, <1>1, ExitType DEF Killed, WriteMeta
<1>29. ASSUME NEW t \in Time, UpgradeOpen(t)
      PROVE  RestoringOK'
  BY <1>29, <1>0, <1>1 DEF UpgradeOpen
<1>30. ASSUME NEW p \in Path, ArchivePath(p)
      PROVE  RestoringOK'
  BY <1>30, <1>0, <1>1 DEF ArchivePath
<1>31. ASSUME NEW p \in Path, CapturePath(p)
      PROVE  RestoringOK'
  BY <1>31, <1>0, <1>1 DEF CapturePath
<1>32. ASSUME NEW p \in Path, NEW label \in {"remove", "restoreRemove"}, RemovePath(p, label)
      PROVE  RestoringOK'
  BY <1>32, <1>0, <1>1 DEF RemovePath, TypeOK, Root
<1>33. ASSUME NEW p \in Path, ExtractPath(p)
      PROVE  RestoringOK'
  BY <1>33, <1>0, <1>1 DEF ExtractPath
<1>34. ASSUME NEW p \in Path, OverlayPath(p)
      PROVE  RestoringOK'
  BY <1>34, <1>0, <1>1 DEF OverlayPath
<1>35. ASSUME NEW p \in Path, RestorePath(p)
      PROVE  RestoringOK'
  BY <1>35, <1>0, <1>1 DEF RestorePath, TypeOK, Root
<1>36. ASSUME NEW p \in Path, NEW e \in Edit \cup {Gone}, UserEdit(p, e)
      PROVE  RestoringOK'
  BY <1>36, <1>0, <1>1 DEF UserEdit
<1>37. ASSUME NEW v \in Version, NEW skip \in BOOLEAN, UpgradeBegin(v, skip)
      PROVE  RestoringOK'
  BY <1>37, <1>0, <1>1 DEF UpgradeBegin
<1>38. ASSUME NEW id \in Id, NEW skip \in BOOLEAN, RollbackBegin(id, skip)
      PROVE  RestoringOK'
  BY <1>38, <1>0, <1>1 DEF RollbackBegin
<1>39. CASE UNCHANGED vars
  BY <1>39 DEF vars
<1>40. QED
  BY <1>2, <1>3, <1>4, <1>5, <1>6, <1>7, <1>8, <1>9, <1>10, <1>11, <1>12, <1>13, <1>14, <1>15, <1>16, <1>17, <1>18, <1>19, <1>20, <1>21, <1>22, <1>23, <1>24, <1>25, <1>26, <1>27, <1>28, <1>29, <1>30, <1>31, <1>32, <1>33, <1>34, <1>35, <1>36, <1>37, <1>38, <1>39 DEF Next, Step, Fail, Operator

\* Every step keeps a complete release in place or in an archive.
LEMMA RecoveryStep == IInv /\ [Next]_vars => Recovery'
<1> SUFFICES ASSUME TypeOK, Control, Directories, Archived, Recovery, [Next]_vars PROVE Recovery'
  BY DEF IInv
<1>1. pc \in Transaction \cup Restoring => \E id \in Id : Whole(id)
  BY DEF Archived, Control, Transaction, Restoring
<1> USE DEF Recovery, HasComplete, GoTo, local, disk, snaps, Whole
<1>2. CASE UpgradeAbandoned
  BY <1>2, ExitType DEF UpgradeAbandoned
<1>3. CASE SnapshotCreate
  <2>1. DistinctSeconds => \A id \in Id : Whole(id) <=> Whole(id)'
    BY <1>3 DEF SnapshotCreate, Directories, Whole, TypeOK
  <2>2. DistinctSeconds => \A id \in Id : Whole(id) => image'[id] = image[id]
    BY <1>3 DEF SnapshotCreate, Directories, Whole, TypeOK
  <2>3. DistinctSeconds => (HasComplete => HasComplete')
    BY <2>1, <2>2 DEF HasComplete
  <2>4. DistinctSeconds => ((\E id \in Id : Whole(id))' => \E id \in Id : Whole(id))
    BY <2>1
  <2>5. root' = root
    BY <1>3 DEF SnapshotCreate
  <2>6. QED
    BY <2>3, <2>4, <2>5 DEF Recovery
<1>4. CASE SnapshotDone
  <2>1. stream = root /\ cmd.sid \in Id
    BY <1>4 DEF SnapshotDone, Archived, TypeOK, Root, Control, BeforeArchive
  <2>2. tar'[cmd.sid] = "whole" /\ image'[cmd.sid] = root
    BY <1>4, <2>1 DEF SnapshotDone, TypeOK
  <2>3. DistinctSeconds => \A id \in Id : Whole(id) => Whole(id)' /\ image'[id] = image[id]
    BY <1>4 DEF SnapshotDone, Directories, Whole, TypeOK
  <2>4. DistinctSeconds => HasComplete'
    <3>1. ASSUME Complete(root) PROVE HasComplete'
      <4>1. Complete(image'[cmd.sid])
        BY <3>1, <2>2 DEF Complete
      <4>2. QED
        BY <2>1, <2>2, <4>1 DEF HasComplete, Whole
    <3>2. DistinctSeconds => (HasComplete => HasComplete')
      BY <2>3 DEF HasComplete
    <3>3. QED
      BY <3>1, <3>2 DEF Recovery
  <2>5. QED
    BY <2>4 DEF Recovery
<1>5. CASE MarkSnapshotFailed
  BY <1>5 DEF MarkSnapshotFailed, WriteMeta
<1>6. CASE RecordSnapshotFailed
  BY <1>6, ExitType DEF RecordSnapshotFailed
<1>7. CASE CaptureDone
  BY <1>7 DEF CaptureDone
<1>8. CASE RemoveDone
  BY <1>8 DEF RemoveDone
<1>9. CASE ExtractDone
  BY <1>9 DEF ExtractDone
<1>10. CASE OverlayDone
  BY <1>10 DEF OverlayDone
<1>11. CASE ChecksPass
  BY <1>11 DEF ChecksPass
<1>12. CASE ChecksFail
  BY <1>12, AutoType DEF ChecksFail
<1>13. CASE MarkSuccess
  BY <1>13 DEF MarkSuccess, WriteMeta
<1>14. CASE RecordUpgrade
  BY <1>14, ExitType DEF RecordUpgrade
<1>15. CASE RestoreBegin
  BY <1>15 DEF RestoreBegin
<1>16. CASE RestoreRefused
  BY <1>16, ResultType DEF RestoreRefused
<1>17. CASE RestoreRemoveDone
  BY <1>17 DEF RestoreRemoveDone
<1>18. CASE RestoreDone
  BY <1>18, ResultType DEF RestoreDone
<1>19. CASE VerifyPass
  BY <1>19, ResultType DEF VerifyPass
<1>20. CASE VerifyFail
  BY <1>20, ResultType DEF VerifyFail
<1>21. CASE Verdict
  BY <1>21 DEF Verdict, WriteMeta
<1>22. CASE RecordFailure
  BY <1>22, ExitType DEF RecordFailure
<1>23. CASE RecordRollback
  BY <1>23, ExitType DEF RecordRollback
<1>24. CASE SnapshotFails
  BY <1>24 DEF SnapshotFails
<1>25. CASE TransactionFails
  BY <1>25, AutoType DEF TransactionFails, WriteMeta
<1>26. CASE RestoreFails
  BY <1>26, ResultType DEF RestoreFails
<1>27. CASE RecordFails
  BY <1>27, ExitType DEF RecordFails, WriteMeta
<1>28. CASE Killed
  BY <1>28, ExitType DEF Killed, WriteMeta
<1>29. ASSUME NEW t \in Time, UpgradeOpen(t)
      PROVE  Recovery'
  BY <1>29 DEF UpgradeOpen
<1>30. ASSUME NEW p \in Path, ArchivePath(p)
      PROVE  Recovery'
  BY <1>30 DEF ArchivePath
<1>31. ASSUME NEW p \in Path, CapturePath(p)
      PROVE  Recovery'
  BY <1>31 DEF CapturePath
<1>32. ASSUME NEW p \in Path, NEW label \in {"remove", "restoreRemove"}, RemovePath(p, label)
      PROVE  Recovery'
  BY <1>32, <1>1 DEF RemovePath, Transaction, Restoring
<1>33. ASSUME NEW p \in Path, ExtractPath(p)
      PROVE  Recovery'
  BY <1>33, <1>1 DEF ExtractPath, Transaction, Restoring
<1>34. ASSUME NEW p \in Path, OverlayPath(p)
      PROVE  Recovery'
  BY <1>34, <1>1 DEF OverlayPath, Transaction, Restoring
<1>35. ASSUME NEW p \in Path, RestorePath(p)
      PROVE  Recovery'
  BY <1>35, <1>1 DEF RestorePath, Transaction, Restoring
<1>36. ASSUME NEW p \in Path, NEW e \in Edit \cup {Gone}, UserEdit(p, e)
      PROVE  Recovery'
  <2>1. Complete(root) => Complete(root)'
    BY <1>36, InstallRootAssumption DEF UserEdit, Complete, Core, TypeOK, Root
  <2>2. QED
    BY <1>36, <2>1 DEF UserEdit
<1>37. ASSUME NEW v \in Version, NEW skip \in BOOLEAN, UpgradeBegin(v, skip)
      PROVE  Recovery'
  BY <1>37 DEF UpgradeBegin
<1>38. ASSUME NEW id \in Id, NEW skip \in BOOLEAN, RollbackBegin(id, skip)
      PROVE  Recovery'
  BY <1>38 DEF RollbackBegin
<1>39. CASE UNCHANGED vars
  BY <1>39 DEF vars
<1>40. QED
  BY <1>2, <1>3, <1>4, <1>5, <1>6, <1>7, <1>8, <1>9, <1>10, <1>11, <1>12, <1>13, <1>14, <1>15, <1>16, <1>17, <1>18, <1>19, <1>20, <1>21, <1>22, <1>23, <1>24, <1>25, <1>26, <1>27, <1>28, <1>29, <1>30, <1>31, <1>32, <1>33, <1>34, <1>35, <1>36, <1>37, <1>38, <1>39 DEF Next, Step, Fail, Operator

\* Every step keeps a copy of the root as it was when the upgrade started.
LEMMA NothingLostStep == IInv /\ [Next]_vars => NothingLost'
<1> SUFFICES ASSUME TypeOK, Control, Archived, NothingLost, [Next]_vars PROVE NothingLost'
  BY DEF IInv
<1>0. pc \in Transaction => \E id \in Id : Whole(id) /\ image[id] = before
  BY DEF Archived, Control, Transaction
<1>1. pc \in {"restore"} \cup Restoring /\ cmd.mode # "rollback"
        => \E id \in Id : Whole(id) /\ image[id] = before
  BY DEF Archived, Control, Restoring
<1> USE DEF NothingLost, GoTo, local, disk, snaps, Whole
<1>2. CASE UpgradeAbandoned
  BY <1>2, ExitType DEF UpgradeAbandoned
<1>3. CASE SnapshotCreate
  BY <1>3 DEF SnapshotCreate, Archived, BeforeArchive
<1>4. CASE SnapshotDone
  BY <1>4 DEF SnapshotDone, Archived, BeforeArchive
<1>5. CASE MarkSnapshotFailed
  BY <1>5 DEF MarkSnapshotFailed, WriteMeta
<1>6. CASE RecordSnapshotFailed
  BY <1>6, ExitType DEF RecordSnapshotFailed
<1>7. CASE CaptureDone
  BY <1>7 DEF CaptureDone
<1>8. CASE RemoveDone
  BY <1>8 DEF RemoveDone
<1>9. CASE ExtractDone
  BY <1>9 DEF ExtractDone
<1>10. CASE OverlayDone
  BY <1>10 DEF OverlayDone
<1>11. CASE ChecksPass
  BY <1>11 DEF ChecksPass
<1>12. CASE ChecksFail
  BY <1>12, AutoType, <1>0 DEF ChecksFail, Transaction
<1>13. CASE MarkSuccess
  BY <1>13 DEF MarkSuccess, WriteMeta
<1>14. CASE RecordUpgrade
  BY <1>14, ExitType DEF RecordUpgrade
<1>15. CASE RestoreBegin
  BY <1>15 DEF RestoreBegin
<1>16. CASE RestoreRefused
  BY <1>16, ResultType DEF RestoreRefused
<1>17. CASE RestoreRemoveDone
  BY <1>17 DEF RestoreRemoveDone
<1>18. CASE RestoreDone
  BY <1>18, ResultType DEF RestoreDone
<1>19. CASE VerifyPass
  BY <1>19, ResultType DEF VerifyPass
<1>20. CASE VerifyFail
  BY <1>20, ResultType DEF VerifyFail
<1>21. CASE Verdict
  BY <1>21 DEF Verdict, WriteMeta
<1>22. CASE RecordFailure
  BY <1>22, ExitType DEF RecordFailure
<1>23. CASE RecordRollback
  BY <1>23, ExitType DEF RecordRollback
<1>24. CASE SnapshotFails
  BY <1>24 DEF SnapshotFails
<1>25. CASE TransactionFails
  BY <1>25, AutoType, <1>0 DEF TransactionFails, WriteMeta, Transaction
<1>26. CASE RestoreFails
  BY <1>26, ResultType DEF RestoreFails
<1>27. CASE RecordFails
  BY <1>27, ExitType DEF RecordFails, WriteMeta
<1>28. CASE Killed
  BY <1>28, ExitType DEF Killed, WriteMeta
<1>29. ASSUME NEW t \in Time, UpgradeOpen(t)
      PROVE  NothingLost'
  BY <1>29 DEF UpgradeOpen, Archived, BeforeArchive
<1>30. ASSUME NEW p \in Path, ArchivePath(p)
      PROVE  NothingLost'
  BY <1>30 DEF ArchivePath
<1>31. ASSUME NEW p \in Path, CapturePath(p)
      PROVE  NothingLost'
  BY <1>31 DEF CapturePath
<1>32. ASSUME NEW p \in Path, NEW label \in {"remove", "restoreRemove"}, RemovePath(p, label)
      PROVE  NothingLost'
  BY <1>32, <1>1, <1>0 DEF RemovePath, Transaction, Restoring
<1>33. ASSUME NEW p \in Path, ExtractPath(p)
      PROVE  NothingLost'
  BY <1>33, <1>0 DEF ExtractPath, Transaction
<1>34. ASSUME NEW p \in Path, OverlayPath(p)
      PROVE  NothingLost'
  BY <1>34, <1>0 DEF OverlayPath, Transaction
<1>35. ASSUME NEW p \in Path, RestorePath(p)
      PROVE  NothingLost'
  BY <1>35, <1>1 DEF RestorePath, Restoring
<1>36. ASSUME NEW p \in Path, NEW e \in Edit \cup {Gone}, UserEdit(p, e)
      PROVE  NothingLost'
  BY <1>36 DEF UserEdit
<1>37. ASSUME NEW v \in Version, NEW skip \in BOOLEAN, UpgradeBegin(v, skip)
      PROVE  NothingLost'
  BY <1>37 DEF UpgradeBegin
<1>38. ASSUME NEW id \in Id, NEW skip \in BOOLEAN, RollbackBegin(id, skip)
      PROVE  NothingLost'
  BY <1>38 DEF RollbackBegin
<1>39. CASE UNCHANGED vars
  BY <1>39 DEF vars
<1>40. QED
  BY <1>2, <1>3, <1>4, <1>5, <1>6, <1>7, <1>8, <1>9, <1>10, <1>11, <1>12, <1>13, <1>14, <1>15, <1>16, <1>17, <1>18, <1>19, <1>20, <1>21, <1>22, <1>23, <1>24, <1>25, <1>26, <1>27, <1>28, <1>29, <1>30, <1>31, <1>32, <1>33, <1>34, <1>35, <1>36, <1>37, <1>38, <1>39 DEF Next, Step, Fail, Operator

-----------------------------------------------------------------------------
\* A fresh installation satisfies the invariant.
LEMMA InitStep == Init => IInv
<1> SUFFICES ASSUME Init PROVE IInv
  OBVIOUS
<1> USE InstallRootAssumption, ReleaseAssumption
<1>1. Complete(root)
  BY DEF Init, Installed, Complete, Core
<1>2. cmd.mode = "none"
  BY DEF Init, NoCommand
<1>3. TypeOK /\ Control
  BY InitTypes DEF Running
<1>4. Directories /\ Replacing /\ RestoringOK
  BY DEF Init, Directories, Replacing, RestoringOK, Failed, Replaced
<1>5. Archived /\ NothingLost
  BY <1>2 DEF Init, Archived, NothingLost, BeforeArchive, Transaction, Restoring
<1>6. Recovery
  BY <1>1 DEF Init, Recovery, Whole
<1>7. QED
  BY <1>3, <1>4, <1>5, <1>6 DEF IInv

\* Every step keeps the invariant.
LEMMA InvariantStep == IInv /\ [Next]_vars => IInv'
<1>1. IInv => Running
  BY RunsIn
<1> QED
  BY <1>1, TypeStep, ControlStep, DirectoriesStep, ArchivedStep, ReplacingStep, RestoringStep,
     RecoveryStep, NothingLostStep, Zenon DEF IInv

\* IInv is an invariant of the release commands.
THEOREM Inductive == Spec => []IInv
  BY InitStep, InvariantStep, PTL DEF Spec

\* Every variable keeps its type, for every installation and every fault.
THEOREM TypeCorrect == Spec => []TypeOK
<1>1. IInv => TypeOK
  BY DEF IInv
<1>2. QED
  BY <1>1, Inductive, PTL

\* At every step of an upgrade, after any failure or kill, the root as it was
\* when the command started is in place or in a whole archive.
THEOREM UpgradeLosesNothing == Spec => []NothingLost
<1>1. IInv => NothingLost
  BY DEF IInv
<1>2. QED
  BY <1>1, Inductive, PTL

\* Where no two upgrades start within one second, a complete release is
\* installed or archived at every step of every sequence of commands.
THEOREM AlwaysRecoverable == ASSUME DistinctSeconds PROVE Spec => []Recoverable
<1>1. IInv => Recoverable
  BY DEF IInv, Recovery, HasComplete, Recoverable
<1>2. QED
  BY <1>1, Inductive, PTL

\* An upgrade about to report success has installed the target release with
\* every file the user had.
THEOREM UpgradeKeepsUserFiles == Spec => []SuccessPreservesUser
<1>1. IInv => SuccessPreservesUser
  BY DEF IInv, Replacing, Replaced, SuccessPreservesUser
<1>2. QED
  BY <1>1, Inductive, PTL

\* A restore that ran to its end left what the archive holds, and an automatic
\* rollback the root as it was.
THEOREM RestoreIsExact == Spec => []RestoresExactly
<1>1. IInv => RestoresExactly
  BY DEF IInv, RestoringOK, Failed, RestoresExactly
<1>2. QED
  BY <1>1, Inductive, PTL
-----------------------------------------------------------------------------
(***************************************************************************)
(* The version in the metadata of a snapshot is the one its archive holds, *)
(* when no two upgrades start within one second.                           *)
(***************************************************************************)

\* The running upgrade knows the version it began with, has it in the
\* metadata until its archive is whole, and has an archive of its own.
Versions ==
  /\ pc # "idle" /\ Upgrading => cmd.from = before[VersionFile]
  /\ pc \in BeforeArchive => cmd.sid \in dirs /\ ~Whole(cmd.sid)
  /\ pc \in {"snapshot", "archive"} => meta[cmd.sid].from = cmd.from
  /\ ReportedVersionIsArchived

LEMMA VersionsStep ==
  ASSUME IInv, DistinctSeconds, Ledger, Versions, [Next]_vars
  PROVE  Versions'
<1>0. /\ pc \notin {"idle", "open"} => cmd.sid \in Id
      /\ tar \in [Id -> {"none", "partial", "whole"}] /\ image \in [Id -> Root] /\ meta \in [Id -> Meta]
  BY DEF IInv, Control, TypeOK
<1> USE RunsIn
<1> USE DEF Versions, ReportedVersionIsArchived, Whole
<1>1. CASE Silent
  BY <1>1 DEF Silent, BeforeArchive
<1>2. CASE Ends
  BY <1>0, <1>2 DEF Ends, BeforeArchive, TornMeta
<1>3. CASE Operator
  BY <1>3, BeginSteps DEF BeforeArchive, Upgrading
<1>4. CASE MarkSnapshotFailed \/ MarkSuccess \/ Verdict \/ (TransactionFails /\ pc = "succeed")
  <2>1. Marks
    BY <1>4, MarkSteps
  <2>2. Whole(cmd.sid) => image[cmd.sid] = before
    <3>1. pc \in {"snapshotFailed", "verdict"} \cup Transaction
      BY <1>4 DEF MarkSnapshotFailed, MarkSuccess, Verdict, TransactionFails, Transaction
    <3>2. pc = "snapshotFailed" => ~Whole(cmd.sid)
      BY DEF BeforeArchive
    <3>3. pc \in {"verdict"} \cup Transaction => image[cmd.sid] = before
      BY DEF IInv, Archived, Control, Failed, Transaction
    <3> QED
      BY <3>1, <3>2, <3>3
  <2> QED
    BY <1>0, <2>1, <2>2 DEF Marks, Upgrading
<1>5. ASSUME NEW t \in Time, UpgradeOpen(t)
      PROVE  Versions'
  BY <1>0, <1>5, NewName DEF BeforeArchive, Upgrading
<1>6. CASE SnapshotCreate
  BY <1>0, <1>6 DEF SnapshotCreate, GoTo, local, BeforeArchive, Upgrading
<1>7. CASE SnapshotDone
  <2>1. /\ pc = "archive" /\ pc' = "capture" /\ tar' = [tar EXCEPT ![cmd.sid] = "whole"]
        /\ image' = [image EXCEPT ![cmd.sid] = stream] /\ UNCHANGED <<dirs, meta, cmd, before>>
    BY <1>7 DEF SnapshotDone, GoTo
  <2>2. stream[VersionFile] = before[VersionFile] /\ Upgrading
    BY <1>7, <2>1, InstallRootAssumption DEF SnapshotDone, IInv, Archived, Control, BeforeArchive, Upgrading
  <2> QED
    BY <1>0, <2>1, <2>2 DEF BeforeArchive, Upgrading
<1>8. CASE UNCHANGED vars
  BY <1>8 DEF vars, Upgrading
<1> QED
  BY <1>1, <1>2, <1>3, <1>4, <1>5, <1>6, <1>7, <1>8, StepKinds

\* The version a rollback reports for a snapshot is the one it restores.
THEOREM MetadataIsTrue == ASSUME DistinctSeconds PROVE Spec => []ReportedVersionIsArchived
<1>1. Init => Versions
  BY DEF Init, Versions, ReportedVersionIsArchived, BeforeArchive, Whole
<1>2. IInv /\ Ledger /\ Versions /\ [Next]_vars => Versions'
  BY VersionsStep
<1>3. Versions => ReportedVersionIsArchived
  BY DEF Versions
<1> QED
  BY <1>1, <1>2, <1>3, Inductive, RecordsInvariant, PTL DEF Spec
-----------------------------------------------------------------------------
(***************************************************************************)
(* The release commands implement AtomicRelease, when no two upgrades      *)
(* start within one second.                                                *)
(***************************************************************************)

\* What IInv does not say of the steps at which a command that could not
\* restore may end: a rollback that is refused has not touched the root, and
\* the metadata of a failed upgrade says how its restore ended, if anything.
Ending ==
  /\ pc = "restore" /\ cmd.mode = "rollback" => root = before
  /\ pc = "recordFailure" => meta[cmd.sid].auto \in {cmd.result, "none"}

LEMMA EndingStep == IInv /\ Ending /\ [Next]_vars => Ending'
<1> SUFFICES ASSUME IInv, Ending, [Next]_vars PROVE Ending'
  OBVIOUS
<1> USE DEF Ending, GoTo, local, disk, snaps
<1>0. pc \notin {"idle", "open"} => cmd.sid \in Id
  BY DEF IInv, Control, BeforeArchive, Transaction, Restoring, Failed
<1>1. CASE UNCHANGED vars
  BY <1>1 DEF vars
<1>2. CASE \E id \in Id, skip \in BOOLEAN : RollbackBegin(id, skip)
  BY <1>2 DEF RollbackBegin
<1>3. CASE Verdict
  BY <1>0, <1>3 DEF Verdict, WriteMeta, TornMeta, IInv, TypeOK
<1>4. CASE TransactionFails \/ ChecksFail
  BY <1>4 DEF TransactionFails, ChecksFail, StartAutoRollback, IInv, TypeOK, Command
<1>5. ASSUME \/ \E t \in Time : UpgradeOpen(t)
             \/ \E p \in Path : ArchivePath(p) \/ CapturePath(p) \/ ExtractPath(p) \/ OverlayPath(p)
             \/ \E p \in Path : RemovePath(p, "remove") \/ RemovePath(p, "restoreRemove") \/ RestorePath(p)
             \/ SnapshotCreate \/ SnapshotDone \/ MarkSnapshotFailed
             \/ CaptureDone \/ RemoveDone \/ ExtractDone \/ OverlayDone \/ ChecksPass \/ MarkSuccess
             \/ RestoreBegin \/ RestoreRemoveDone \/ SnapshotFails
             \/ \E p \in Path, e \in Edit \cup {Gone} : UserEdit(p, e)
             \/ \E v \in Version, skip \in BOOLEAN : UpgradeBegin(v, skip)
      PROVE  pc' \notin {"restore", "recordFailure"}
  BY <1>5 DEF UpgradeOpen, ArchivePath, CapturePath, ExtractPath, OverlayPath, RemovePath, RestorePath,
     SnapshotCreate, SnapshotDone, MarkSnapshotFailed, CaptureDone, RemoveDone, ExtractDone, OverlayDone,
     ChecksPass, MarkSuccess, RestoreBegin, RestoreRemoveDone, SnapshotFails, UserEdit, UpgradeBegin
<1>6. ASSUME UpgradeAbandoned \/ RecordSnapshotFailed \/ RecordUpgrade \/ RecordFailure \/ RecordRollback
             \/ RecordFails \/ Killed
             \/ RestoreRefused \/ RestoreDone \/ RestoreFails \/ VerifyPass \/ VerifyFail
      PROVE  pc' \notin {"restore", "recordFailure"}
  BY <1>6 DEF UpgradeAbandoned, RecordSnapshotFailed, RecordUpgrade, RecordFailure, RecordRollback,
     RecordFails, Killed, Exit, RestoreResult, RestoreRefused, RestoreDone, RestoreFails, VerifyPass, VerifyFail
<1> QED
  BY <1>1, <1>2, <1>3, <1>4, <1>5, <1>6 DEF Next, Step, Fail, Operator

LEMMA RefinementInvariant == Spec => [](IInv /\ Ending)
<1>1. Init => Ending
  BY DEF Init, Ending
<1> QED
  BY <1>1, EndingStep, Inductive, PTL DEF Spec
-----------------------------------------------------------------------------
(* How each step looks to AtomicRelease.                                   *)

Hidden == UNCHANGED <<instBar, takenBar, brokenBar>>

\* What is known wherever a step begins.
LEMMA Known ==
  ASSUME IInv
  PROVE  /\ root \in Root /\ before \in Root /\ cmd \in Command
         /\ pc \notin {"idle", "open"} => cmd.sid \in Id
         /\ takenBar = {image[id] : id \in {i \in Id : tar[i] = "whole"}}
BY DEF IInv, TypeOK, Control, takenBar, Whole

\* Nothing but the archives is in takenBar.
LEMMA TakenSame == UNCHANGED <<tar, image>> => takenBar' = takenBar
BY DEF takenBar, Whole

\* A command that has removed anything has a whole archive, and one archive
\* is of a complete release.
LEMMA ArchiveThere ==
  ASSUME IInv, DistinctSeconds,
         InFlight \/ pc = "recordRollback", pc = "restore" => cmd.mode = "autoRollback"
  PROVE  /\ cmd.sid \in Id /\ Whole(cmd.sid) /\ image[cmd.sid] \in takenBar
         /\ \E r \in takenBar : Complete(r)
<1>1. cmd.sid \in Id /\ Whole(cmd.sid)
  BY DEF IInv, Control, Archived, InFlight, Transaction, Restoring, Failed
<1>2. HasComplete
  BY <1>1 DEF IInv, Recovery
<1> QED
  BY <1>1, <1>2 DEF HasComplete, takenBar

LEMMA Outside ==
  ASSUME ~InFlight, ~InFlight', UNCHANGED <<root, tar, image>>, pc # "idle",
         pc' = "idle" => cmd'.outcome # "killed" /\ (cmd'.outcome = "failed" => cmd'.mode = "upgrade")
  PROVE  Hidden
<1>1. instBar' = instBar
  BY DEF instBar
<1>2. brokenBar' = brokenBar
  BY DEF brokenBar, RestoreFailed, Exit
<1> QED
  BY <1>1, <1>2, TakenSame DEF Hidden

LEMMA Inside ==
  ASSUME InFlight, InFlight', UNCHANGED <<before, tar, image>>
  PROVE  Hidden
<1>1. instBar' = instBar
  BY DEF instBar
<1>2. brokenBar' = brokenBar
  BY DEF brokenBar, InFlight
<1> QED
  BY <1>1, <1>2, TakenSame DEF Hidden

\* The steps of an upgrade before it changes anything, and its last.
LEMMA OutsideSteps ==
  ASSUME IInv,
         \/ \E t \in Time : UpgradeOpen(t)
         \/ \E p \in Path : ArchivePath(p) \/ CapturePath(p)
         \/ UpgradeAbandoned \/ SnapshotFails \/ MarkSnapshotFailed \/ RecordSnapshotFailed
         \/ RecordUpgrade \/ RecordRollback
  PROVE  Hidden
<1>1. CASE \/ \E t \in Time : UpgradeOpen(t)
           \/ \E p \in Path : ArchivePath(p) \/ CapturePath(p)
           \/ SnapshotFails \/ MarkSnapshotFailed
  <2>1. /\ pc \in {"open", "archive", "capture", "snapshot", "snapshotFailed"}
        /\ pc' \in {"snapshot", "archive", "capture", "snapshotFailed", "recordSnapshotFailed"}
        /\ UNCHANGED <<root, tar, image>>
    BY <1>1 DEF UpgradeOpen, ArchivePath, CapturePath, SnapshotFails, MarkSnapshotFailed, GoTo, WriteMeta, disk, snaps
  <2> QED
    BY <2>1, Outside DEF InFlight
<1>2. CASE UpgradeAbandoned \/ RecordSnapshotFailed \/ RecordUpgrade \/ RecordRollback
  <2>1. /\ pc \in {"open", "recordSnapshotFailed", "record", "recordRollback"} /\ pc' = "idle"
        /\ UNCHANGED <<root, tar, image>>
        /\ cmd'.outcome \in {"ok", "failed"} /\ cmd'.mode = cmd.mode
        /\ cmd'.outcome = "failed" => pc \in {"open", "recordSnapshotFailed"}
    BY <1>2 DEF UpgradeAbandoned, RecordSnapshotFailed, RecordUpgrade, RecordRollback, Exit, GoTo, disk, snaps
  <2>2. pc \in {"open", "recordSnapshotFailed"} => cmd.mode = "upgrade"
    BY DEF IInv, Control, BeforeArchive
  <2> QED
    BY <2>1, <2>2, Outside DEF InFlight
<1> QED
  BY <1>1, <1>2

LEMMA SnapshotCreateStep ==
  ASSUME IInv, DistinctSeconds, SnapshotCreate
  PROVE  Hidden
<1>1. cmd.sid \in Id /\ tar[cmd.sid] # "whole" /\ pc = "snapshot" /\ pc' = "archive" /\ root' = root
  BY DEF SnapshotCreate, IInv, Control, Directories, Whole, GoTo
<1>2. /\ tar' = [tar EXCEPT ![cmd.sid] = "partial"]
      /\ image' = [image EXCEPT ![cmd.sid] = EmptyRoot]
      /\ tar \in [Id -> {"none", "partial", "whole"}] /\ image \in [Id -> Root]
  BY DEF SnapshotCreate, IInv, TypeOK
<1>3. takenBar' = takenBar
  <2>1. \A id \in Id : /\ tar'[id] = "whole" <=> tar[id] = "whole"
                       /\ tar[id] = "whole" => image'[id] = image[id]
    BY <1>1, <1>2
  <2> QED
    BY <2>1 DEF takenBar, Whole
<1> QED
  BY <1>1, <1>3 DEF Hidden, instBar, brokenBar, InFlight

\* The steps that begin to replace the root, forwards or backwards.
LEMMA TurnSteps ==
  ASSUME IInv, CaptureDone \/ TransactionFails \/ ChecksFail
  PROVE  Hidden
<1>1. /\ pc \in {"capture", "remove", "extract", "overlay", "check", "succeed"} /\ pc' \in {"remove", "restore"}
      /\ UNCHANGED <<root, before, tar, image>>
  BY DEF CaptureDone, TransactionFails, ChecksFail, StartAutoRollback, GoTo, WriteMeta, local, disk, snaps
<1>2. CASE pc = "capture"
  <2>1. root = before
    BY <1>2 DEF IInv, Archived
  <2> QED
    BY <1>1, <1>2, <2>1, TakenSame DEF Hidden, instBar, brokenBar, InFlight
<1>3. CASE pc # "capture"
  BY <1>1, <1>3, Inside DEF InFlight
<1> QED
  BY <1>2, <1>3

\* The steps in which the root is replaced.
LEMMA InsideSteps ==
  ASSUME \/ \E p \in Path : ExtractPath(p) \/ OverlayPath(p) \/ RestorePath(p)
         \/ \E p \in Path : RemovePath(p, "remove") \/ RemovePath(p, "restoreRemove")
         \/ RemoveDone \/ ExtractDone \/ OverlayDone \/ ChecksPass
         \/ RestoreBegin \/ RestoreRemoveDone \/ Verdict
  PROVE  Hidden
<1>1. InFlight /\ InFlight' /\ UNCHANGED <<before, tar, image>>
  BY DEF InFlight, ExtractPath, OverlayPath, RestorePath, RemovePath, RemoveDone, ExtractDone, OverlayDone,
     ChecksPass, RestoreBegin, RestoreRemoveDone, Verdict, WriteMeta, GoTo, local, disk, snaps
<1> QED
  BY <1>1, Inside
-----------------------------------------------------------------------------
(* The steps that AtomicRelease sees.                                      *)

\* The operator's steps, between commands.
LEMMA OperatorSteps ==
  ASSUME IInv, Operator
  PROVE  Atomic!Next \/ Hidden
<1>1. ASSUME NEW p \in Path, NEW e \in Edit \cup {Gone}, UserEdit(p, e)
      PROVE  Atomic!Write(p, e)
  <2>1. /\ pc = "idle" /\ pc' = "idle" /\ root' = [root EXCEPT ![p] = e] /\ (p \in Preserve \/ p \notin Ships)
        /\ UNCHANGED <<tar, image, meta, cmd>>
    BY <1>1 DEF UserEdit, disk, snaps
  <2>2. brokenBar' = brokenBar
    BY <2>1 DEF brokenBar, RestoreFailed
  <2> QED
    BY <2>1, <2>2, TakenSame DEF Atomic!Write, instBar, InFlight
<1>2. CASE \/ \E v \in Version, skip \in BOOLEAN : UpgradeBegin(v, skip)
           \/ \E id \in Id, skip \in BOOLEAN : RollbackBegin(id, skip)
  <2>1. /\ pc = "idle" /\ pc' \in {"open", "restore"} /\ root' = root /\ before' = root
        /\ UNCHANGED <<tar, image>>
    BY <1>2 DEF UpgradeBegin, RollbackBegin, GoTo, disk, snaps
  <2>2. instBar' = instBar /\ brokenBar' = FALSE
    BY <2>1 DEF instBar, brokenBar, InFlight
  <2> QED
    BY <2>1, <2>2, TakenSame DEF Atomic!Next, Atomic!Report
<1> QED
  BY <1>1, <1>2 DEF Operator, Atomic!Next

LEMMA SnapshotDoneStep ==
  ASSUME IInv, DistinctSeconds, SnapshotDone
  PROVE  Atomic!Archive
<1>1. /\ pc = "archive" /\ pc' = "capture" /\ root' = root /\ cmd.sid \in Id /\ tar[cmd.sid] # "whole"
      /\ tar' = [tar EXCEPT ![cmd.sid] = "whole"] /\ image' = [image EXCEPT ![cmd.sid] = stream]
  BY DEF SnapshotDone, GoTo, IInv, Control, BeforeArchive, Directories, Whole
<1>2. stream = root
  <2>1. \A p \in Path : stream[p] = root[p]
    BY DEF SnapshotDone, IInv, Archived
  <2>2. stream \in [Path -> Content] /\ root \in [Path -> Content]
    BY DEF IInv, TypeOK, Root
  <2> QED
    BY <2>1, <2>2
<1>3. takenBar' = takenBar \cup {root}
  <2>1. tar \in [Id -> {"none", "partial", "whole"}] /\ image \in [Id -> Root]
    BY DEF IInv, TypeOK
  <2>2. \A id \in Id : /\ tar'[id] = "whole" <=> (tar[id] = "whole" \/ id = cmd.sid)
                       /\ image'[id] = IF id = cmd.sid THEN root ELSE image[id]
    BY <1>1, <1>2, <2>1
  <2> QED
    BY <1>1, <2>2 DEF takenBar, Whole
<1> QED
  BY <1>1, <1>3 DEF Atomic!Archive, instBar, brokenBar, InFlight

LEMMA MarkSuccessStep ==
  ASSUME IInv, DistinctSeconds, MarkSuccess
  PROVE  Atomic!Upgrade(cmd.to) /\ cmd.to \in Version
<1>1. /\ pc = "succeed" /\ pc' = "record" /\ root' = root /\ UNCHANGED <<tar, image>>
  BY DEF MarkSuccess, WriteMeta, GoTo
<1>2. /\ root = Merge(before, cmd.to) /\ cmd.to \in Version
      /\ cmd.sid \in Id /\ Whole(cmd.sid) /\ image[cmd.sid] = before
  BY <1>1 DEF IInv, Replacing, Replaced, Control, Archived, Transaction
<1>3. before \in takenBar
  BY <1>2 DEF takenBar
<1>4. instBar = before /\ instBar' = Merge(before, cmd.to) /\ brokenBar' = brokenBar
  BY <1>1, <1>2 DEF instBar, brokenBar, InFlight
<1> QED
  BY <1>1, <1>2, <1>3, <1>4, TakenSame DEF Atomic!Upgrade, Atomic!Merge, Merge, Atomic!Installed, Installed

\* A command that ends while the root is being replaced, and says so.
LEMMA WreckStep ==
  ASSUME IInv, DistinctSeconds, InFlight, pc = "restore" => cmd.mode = "autoRollback",
         root' = root, UNCHANGED <<tar, image>>, ~InFlight', brokenBar'
  PROVE  Atomic!Next
<1>1. \E r \in takenBar : Complete(r)
  BY ArchiveThere
<1>2. instBar' = root /\ root \in Root /\ brokenBar' = TRUE
  BY DEF instBar, IInv, TypeOK, brokenBar
<1>3. Atomic!Wreck
  BY <1>1, <1>2, TakenSame DEF Atomic!Wreck, Atomic!Complete, Complete, Atomic!Core, Core,
     Atomic!Root, Root, Atomic!Content, Content
<1> QED
  BY <1>3 DEF Atomic!Next

\* Any end of a command that leaves the installation as it was.
LEMMA ReportStep ==
  ASSUME instBar' = instBar, UNCHANGED <<tar, image>>
  PROVE  Atomic!Next
BY TakenSame DEF Atomic!Next, Atomic!Report, brokenBar

\* A restore that ran to its end.
LEMMA RestoredStep ==
  ASSUME IInv, DistinctSeconds, InFlight, pc # "restore", root = image[cmd.sid],
         root' = root, UNCHANGED <<tar, image>>, ~InFlight'
  PROVE  Atomic!Next
<1>1. image[cmd.sid] \in takenBar
  BY ArchiveThere
<1>2. instBar' = root
  BY DEF instBar
<1> QED
  BY <1>1, <1>2, TakenSame DEF Atomic!Next, Atomic!Rollback, brokenBar

LEMMA EndSteps ==
  ASSUME IInv, Ending, DistinctSeconds, Killed \/ RecordFails \/ RecordFailure
  PROVE  Atomic!Next \/ Hidden
<1>1. /\ pc # "idle" /\ pc' = "idle" /\ UNCHANGED <<root, tar, image>> /\ ~InFlight'
      /\ cmd'.mode = cmd.mode /\ cmd'.sid = cmd.sid
  BY DEF Killed, RecordFails, RecordFailure, Exit, GoTo, WriteMeta, snaps, InFlight
<1>2. CASE ~InFlight
  BY <1>1, <1>2, ReportStep DEF instBar
<1>3. CASE InFlight /\ pc = "restore" /\ cmd.mode = "rollback"
  BY <1>1, <1>3, ReportStep DEF Ending, instBar
<1>4. CASE InFlight /\ Killed /\ ~(pc = "restore" /\ cmd.mode = "rollback")
  <2>1. brokenBar'
    BY <1>1, <1>4 DEF Killed, Exit, brokenBar
  <2>2. pc = "restore" => cmd.mode = "autoRollback"
    BY <1>4 DEF IInv, Control
  <2> QED
    BY <1>1, <1>4, <2>1, <2>2, WreckStep
<1>5. CASE InFlight /\ RecordFailure
  <2>1. /\ pc = "recordFailure" /\ cmd.mode = "autoRollback" /\ cmd'.outcome = "failed" /\ meta' = meta
    BY <1>5 DEF RecordFailure, Exit, snaps, IInv, Control, Failed
  <2>2. CASE cmd.result # "failed"
    <3>1. root = before
      BY <2>1, <2>2 DEF IInv, RestoringOK, Failed
    <3> QED
      BY <1>1, <3>1, ReportStep DEF instBar
  <2>3. CASE cmd.result = "failed"
    <3>1. brokenBar'
      BY <1>1, <2>1, <2>3 DEF brokenBar, RestoreFailed, Ending
    <3> QED
      BY <1>1, <1>5, <2>1, <3>1, WreckStep
  <2> QED
    BY <2>2, <2>3
<1>6. RecordFails => ~InFlight
  BY DEF RecordFails, InFlight
<1> QED
  BY <1>2, <1>3, <1>4, <1>5, <1>6

LEMMA ResultSteps ==
  ASSUME IInv, Ending, DistinctSeconds,
         RestoreRefused \/ RestoreDone \/ RestoreFails \/ VerifyPass \/ VerifyFail
  PROVE  Atomic!Next \/ Hidden
<1>1. /\ pc \in {"restore", "restoreRemove", "restoreExtract", "verify"} /\ InFlight
      /\ UNCHANGED <<root, tar, image, before>>
  BY DEF RestoreRefused, RestoreDone, RestoreFails, VerifyPass, VerifyFail, RestoreResult, Exit, GoTo,
     InFlight, local, disk, snaps
<1>2. \/ pc' \in {"verdict", "verify"}
      \/ pc' = "recordRollback" /\ cmd.mode = "rollback" /\ (RestoreDone \/ VerifyPass)
      \/ /\ pc' = "idle" /\ cmd.mode = "rollback" /\ (RestoreRefused \/ RestoreFails \/ VerifyFail)
         /\ cmd'.mode = "rollback" /\ cmd'.outcome = "failed"
  BY DEF RestoreRefused, RestoreDone, RestoreFails, VerifyPass, VerifyFail, RestoreResult, Exit, GoTo, local
<1>3. CASE pc' \in {"verdict", "verify"}
  BY <1>1, <1>3, Inside DEF InFlight
<1>4. CASE pc' = "recordRollback" /\ (RestoreDone \/ VerifyPass)
  <2>1. root = image[cmd.sid] /\ pc # "restore"
    <3>1. CASE RestoreDone
      <4>1. pc = "restoreExtract" /\ todo = {}
        BY <3>1 DEF RestoreDone
      <4>2. cmd.sid \in Id
        BY <4>1 DEF IInv, Control
      <4>3. \A p \in Path : root[p] = image[cmd.sid][p]
        BY <4>1 DEF IInv, RestoringOK
      <4>4. root \in [Path -> Content] /\ image[cmd.sid] \in [Path -> Content]
        BY <4>2 DEF IInv, TypeOK, Root
      <4> QED
        BY <4>1, <4>3, <4>4
    <3>2. CASE VerifyPass
      BY <3>2 DEF VerifyPass, IInv, RestoringOK
    <3> QED
      BY <1>4, <3>1, <3>2
  <2> QED
    BY <1>1, <1>4, <2>1, RestoredStep DEF InFlight
<1>5. CASE /\ pc' = "idle" /\ cmd.mode = "rollback" /\ (RestoreRefused \/ RestoreFails \/ VerifyFail)
           /\ cmd'.mode = "rollback" /\ cmd'.outcome = "failed"
  <2>1. brokenBar' /\ ~InFlight'
    BY <1>5 DEF brokenBar, RestoreFailed, InFlight
  <2>2. CASE RestoreRefused
    <3>1. root = before
      BY <1>5, <2>2 DEF RestoreRefused, Ending
    <3> QED
      BY <1>1, <2>1, <3>1, ReportStep DEF instBar
  <2>3. CASE RestoreFails \/ VerifyFail
    <3>1. pc # "restore"
      BY <2>3 DEF RestoreFails, VerifyFail
    <3> QED
      BY <1>1, <2>1, <3>1, WreckStep
  <2> QED
    BY <1>5, <2>2, <2>3
<1> QED
  BY <1>2, <1>3, <1>4, <1>5

LEMMA StepRefines ==
  ASSUME IInv, Ending, DistinctSeconds, [Next]_vars
  PROVE  [Atomic!Next]_<<instBar, takenBar, brokenBar>>
<1>1. CASE UNCHANGED vars
  BY <1>1 DEF vars, instBar, InFlight, takenBar, Whole, brokenBar, RestoreFailed
<1>2. Step => Atomic!Next \/ Hidden
  BY OutsideSteps, SnapshotCreateStep, TurnSteps, InsideSteps, SnapshotDoneStep, MarkSuccessStep, EndSteps,
     ResultSteps DEF Step, Atomic!Next
<1>3. Fail => Atomic!Next \/ Hidden
  BY OutsideSteps, TurnSteps, EndSteps, ResultSteps DEF Fail
<1> QED
  BY <1>1, <1>2, <1>3, OperatorSteps DEF Next, Hidden

\* The commands implement the promise: between commands the installation
\* moves only from one whole state to another, unless a command was killed or
\* says that it could not restore.
THEOREM UpgradesAreAtomic == ASSUME DistinctSeconds PROVE Spec => UpgradeIsAtomic
<1>1. Init => Atomic!Init
  <2> SUFFICES ASSUME Init PROVE Atomic!Init
    OBVIOUS
  <2>1. instBar = Installed(InitialVersion) /\ ~brokenBar
    BY DEF Init, NoCommand, instBar, InFlight, brokenBar, RestoreFailed
  <2>2. takenBar = {}
    BY DEF Init, takenBar, Whole
  <2> QED
    BY <2>1, <2>2 DEF Atomic!Init, Atomic!Installed, Installed, brokenBar
<1>2. IInv /\ Ending /\ [Next]_vars => [Atomic!Next]_<<instBar, takenBar, brokenBar>>
  BY StepRefines
<1> QED
  BY <1>1, <1>2, RefinementInvariant, PTL DEF Spec, UpgradeIsAtomic, Atomic!Spec
=============================================================================
