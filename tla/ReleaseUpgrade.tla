---------------------------- MODULE ReleaseUpgrade ----------------------------
(***************************************************************************)
(* `dbbotctl release upgrade` and `dbbotctl release rollback`              *)
(* (libexec/dbbotctl/commands/release.sh, libexec/dbbotctl/common.sh).     *)
(*                                                                         *)
(* An upgrade archives the installation root, captures the user's files,   *)
(* removes every managed path, unpacks the release package, lays the       *)
(* user's files over it, runs checks and records the verdict.  A failure   *)
(* after the archive exists triggers an automatic rollback from it.  There *)
(* is no lock and no recovery at start-up: a command that is killed leaves *)
(* the root, the snapshot directory and the metadata as they were.         *)
(*                                                                         *)
(* The record of a command is what its shell variables hold.               *)
(***************************************************************************)
EXTENDS InstallRoot, Naturals

CONSTANTS
  RootFile,        \* DBBOT_MANAGED_ROOT_FILES, removed after the directories
  Tool,            \* bin/ and libexec/: without it no command can run
  MaxTime,         \* bound: seconds in which a snapshot directory is created
  DistinctSeconds, \* two upgrades never start within one second
  Faults           \* the kinds of failure the environment may inject

ASSUME ReleaseAssumption ==
  /\ RootFile \subseteq Path
  /\ Tool \in Core \ RootFile
  /\ VersionFile \in RootFile
  /\ MaxTime \in Nat
  /\ DistinctSeconds \in BOOLEAN
  /\ Faults \subseteq {"crash", "snapshot", "upgrade", "restore", "record"}

VARIABLES
  root,      \* the installation root
  dirs,      \* .dbbotctl/snapshots: the snapshot directories that exist
  tar,       \* by snapshot id: the state of root-before-upgrade.tar.gz
  image,     \* by snapshot id: the root a whole archive holds
  meta,      \* by snapshot id: metadata.env
  history,   \* .dbbotctl/history.tsv, as the set of its lines
  now,       \* the second in which the last snapshot directory was named
  pc,        \* where the running command stands, "idle" when none runs
  cmd,       \* the running (or last) command's own variables
  stream,    \* what tar has read for the archive it is writing
  stage,     \* preserve_stage, the user's files under /tmp
  todo,      \* the paths the current loop has still to visit
  before     \* ghost: the root when the running (or last) command started

snaps == <<dirs, tar, image, meta>>
disk  == <<snaps, history, now>>
local == <<cmd, stream, stage, before>>
vars  == <<root, dirs, tar, image, meta, history, now, pc, cmd, stream, stage, todo, before>>

Time      == 0 .. MaxTime
Id        == Time \X Version
NoId      == <<"none">>
NoStage   == [p \in Preserve |-> Gone]

Meta == [status : {"none", "torn", "in_progress", "success", "failed"},
         from   : Version \cup {Gone},
         auto   : {"none", "not_needed", "success", "restored_checks_failed", "failed"}]

NoMeta   == [status |-> "none", from |-> Gone, auto |-> "none"]
TornMeta == [status |-> "torn", from |-> Gone, auto |-> "none"]

Command == [mode    : {"none", "upgrade", "autoRollback", "rollback"},
            sid     : Id \cup {NoId},
            from    : Version \cup {Gone},
            to      : Version \cup {Gone},
            skip    : BOOLEAN,
            result  : {"none", "success", "restored_checks_failed", "failed"},
            outcome : {"none", "ok", "failed", "killed"}]

NoCommand == [mode |-> "none", sid |-> NoId, from |-> Gone, to |-> Gone, skip |-> FALSE,
              result |-> "none", outcome |-> "none"]

Line == [action : {"upgrade", "rollback"}, status : {"success", "failed"}, sid : Id,
         note : {"package_replaced", "snapshot_failed", "success",
                 "restored_checks_failed", "failed", "snapshot_restored"}]

Whole(id) == tar[id] = "whole"

-----------------------------------------------------------------------------
(* Moving between steps.                                                   *)

GoTo(label, paths) == pc' = label /\ todo' = paths

\* The process ends; what it kept in memory and in /tmp is not read again.
\* The properties look back at its mode, its snapshot and its outcome.
Exit(outcome) ==
  /\ GoTo("idle", {})
  /\ cmd' = [mode |-> cmd.mode, sid |-> cmd.sid, from |-> Gone, to |-> Gone, skip |-> FALSE,
             result |-> "none", outcome |-> outcome]
  /\ stream' = EmptyRoot /\ stage' = NoStage
  /\ UNCHANGED before

\* A metadata file is truncated, then appended to key by key.
WriteMeta(m) == meta' = [meta EXCEPT ![cmd.sid] = m] /\ UNCHANGED <<dirs, tar, image>>

Append_history(action, status, note) ==
  history' = history \cup {[action |-> action, status |-> status, sid |-> cmd.sid, note |-> note]}

Init ==
  /\ root = Installed(InitialVersion)
  /\ dirs = {}
  /\ tar = [id \in Id |-> "none"]
  /\ image = [id \in Id |-> EmptyRoot]
  /\ meta = [id \in Id |-> NoMeta]
  /\ history = {}
  /\ now = 0
  /\ pc = "idle" /\ todo = {} /\ stream = EmptyRoot /\ stage = NoStage
  /\ cmd = NoCommand
  /\ before = root

-----------------------------------------------------------------------------
(* The user.                                                               *)

\* Between commands the user writes or deletes configuration, or files of
\* his own that no release ships.
UserEdit(p, e) ==
  /\ pc = "idle"
  /\ p \in Preserve \/ p \notin Ships
  /\ root' = [root EXCEPT ![p] = e]
  /\ before' = root'
  /\ UNCHANGED <<disk, pc, todo, cmd, stream, stage>>

-----------------------------------------------------------------------------
(* release upgrade: up to the snapshot.                                    *)

\* The arguments and the package are valid; the current version is read.
UpgradeBegin(v, skip) ==
  /\ pc = "idle"
  /\ root[Tool] # Gone /\ root[VersionFile] # Gone
  /\ cmd' = [mode |-> "upgrade", sid |-> NoId, from |-> root[VersionFile], to |-> v,
             skip |-> skip, result |-> "none", outcome |-> "none"]
  /\ before' = root
  /\ GoTo("open", {})
  /\ UNCHANGED <<root, disk, stream, stage>>

\* Mutants of UpgradeOpen: the name of a snapshot that exists is taken again;
\* from_version is filled in from the target.
UpgradeOpenReusingName(t) ==
  /\ pc = "open"
  /\ t >= now
  /\ now' = t
  /\ cmd' = [cmd EXCEPT !.sid = <<t, cmd.to>>]
  /\ dirs' = dirs \cup {<<t, cmd.to>>}
  /\ meta' = [meta EXCEPT ![<<t, cmd.to>>] =
                [status |-> "in_progress", from |-> cmd.from, auto |-> "none"]]
  /\ GoTo("snapshot", {})
  /\ UNCHANGED <<root, tar, image, history, stream, stage, before>>

UpgradeOpenFromTarget(t) ==
  /\ pc = "open"
  /\ t >= now
  /\ \A id \in dirs : id[1] < t
  /\ now' = t
  /\ cmd' = [cmd EXCEPT !.sid = <<t, cmd.to>>]
  /\ dirs' = dirs \cup {<<t, cmd.to>>}
  /\ meta' = [meta EXCEPT ![<<t, cmd.to>>] =
                [status |-> "in_progress", from |-> cmd.to, auto |-> "none"]]
  /\ GoTo("snapshot", {})
  /\ UNCHANGED <<root, tar, image, history, stream, stage, before>>

\* The snapshot directory is named after the clock and the target and made
\* with `mkdir -p`; the metadata says in_progress.
UpgradeOpen(t) ==
  /\ pc = "open"
  /\ t >= now
  /\ DistinctSeconds => \A id \in dirs : id[1] < t
  /\ now' = t
  /\ LET sid == <<t, cmd.to>> IN
       /\ cmd' = [cmd EXCEPT !.sid = sid]
       /\ dirs' = dirs \cup {sid}
       /\ meta' = [meta EXCEPT ![sid] = [status |-> "in_progress", from |-> cmd.from, auto |-> "none"]]
  /\ GoTo("snapshot", {})
  /\ UNCHANGED <<root, tar, image, history, stream, stage, before>>

\* tar creates (and truncates) the archive, then reads the root path by path;
\* an archive that is not whole cannot be read, so only a whole one has an image.
SnapshotCreate ==
  /\ pc = "snapshot"
  /\ tar' = [tar EXCEPT ![cmd.sid] = "partial"]
  /\ image' = [image EXCEPT ![cmd.sid] = EmptyRoot]
  /\ GoTo("archive", Path)
  /\ UNCHANGED <<root, dirs, meta, history, now, local>>

\* Mutant of ArchivePath: tar is told to leave the user's configuration out.
ArchivePathWithoutUser(p) ==
  /\ pc = "archive" /\ p \in todo
  /\ stream' = [stream EXCEPT ![p] = IF p \in Preserve THEN Gone ELSE root[p]]
  /\ GoTo("archive", todo \ {p})
  /\ UNCHANGED <<root, disk, cmd, stage, before>>

ArchivePath(p) ==
  /\ pc = "archive" /\ p \in todo
  /\ stream' = [stream EXCEPT ![p] = root[p]]
  /\ GoTo("archive", todo \ {p})
  /\ UNCHANGED <<root, disk, cmd, stage, before>>

SnapshotDone ==
  /\ pc = "archive" /\ todo = {}
  /\ tar' = [tar EXCEPT ![cmd.sid] = "whole"]
  /\ image' = [image EXCEPT ![cmd.sid] = stream]
  /\ stream' = EmptyRoot
  /\ GoTo("capture", Preserve)
  /\ UNCHANGED <<root, dirs, meta, history, now, cmd, stage, before>>

\* tar fails: the metadata is rewritten, one line goes to the history and the
\* command returns tar's code.  The directory stays, with what tar left in it.
SnapshotFails ==
  /\ "snapshot" \in Faults
  /\ pc \in {"snapshot", "archive"}
  /\ stream' = EmptyRoot
  /\ GoTo("snapshotFailed", {})
  /\ UNCHANGED <<root, disk, cmd, stage, before>>

MarkSnapshotFailed ==
  /\ pc = "snapshotFailed"
  /\ WriteMeta([status |-> "failed", from |-> cmd.from, auto |-> "not_needed"])
  /\ GoTo("recordSnapshotFailed", {})
  /\ UNCHANGED <<root, history, now, local>>

RecordSnapshotFailed ==
  /\ pc = "recordSnapshotFailed"
  /\ Append_history("upgrade", "failed", "snapshot_failed")
  /\ Exit("failed")
  /\ UNCHANGED <<root, snaps, now>>

-----------------------------------------------------------------------------
(* release upgrade: the transaction.                                       *)

CapturePath(p) ==
  /\ pc = "capture" /\ p \in todo
  /\ stage' = [stage EXCEPT ![p] = root[p]]
  /\ GoTo("capture", todo \ {p})
  /\ UNCHANGED <<root, disk, cmd, stream, before>>

CaptureDone ==
  /\ pc = "capture" /\ todo = {}
  /\ GoTo("remove", Path)
  /\ UNCHANGED <<root, disk, local>>

\* dbbot_remove_managed_paths: the directories first, then the root files.
RemovePath(p, label) ==
  /\ pc = label /\ p \in todo
  /\ p \in RootFile => todo \subseteq RootFile
  /\ root' = [root EXCEPT ![p] = Gone]
  /\ GoTo(label, todo \ {p})
  /\ UNCHANGED <<disk, local>>

RemoveDone ==
  /\ pc = "remove" /\ todo = {}
  /\ GoTo("extract", Ships)
  /\ UNCHANGED <<root, disk, local>>

ExtractPath(p) ==
  /\ pc = "extract" /\ p \in todo
  /\ root' = [root EXCEPT ![p] = cmd.to]
  /\ GoTo("extract", todo \ {p})
  /\ UNCHANGED <<disk, local>>

ExtractDone ==
  /\ pc = "extract" /\ todo = {}
  /\ GoTo("overlay", Preserve)
  /\ UNCHANGED <<root, disk, local>>

\* Mutant of OverlayPath: `cp -an`, which keeps the file of the package.
OverlayPathNoClobber(p) ==
  /\ pc = "overlay" /\ p \in todo
  /\ root' = [root EXCEPT ![p] = IF @ = Gone THEN stage[p] ELSE @]
  /\ GoTo("overlay", todo \ {p})
  /\ UNCHANGED <<disk, local>>

\* `cp -a preserve_stage/. root/` writes what was captured; a file the user
\* had deleted was not captured and stays as the package shipped it.
OverlayPath(p) ==
  /\ pc = "overlay" /\ p \in todo
  /\ root' = [root EXCEPT ![p] = IF stage[p] # Gone THEN stage[p] ELSE @]
  /\ GoTo("overlay", todo \ {p})
  /\ UNCHANGED <<disk, local>>

\* Mutant of OverlayDone: skipping the checks also skips the metadata.
OverlayDoneSkippingRecord ==
  /\ pc = "overlay" /\ todo = {}
  /\ stage' = NoStage
  /\ GoTo(IF cmd.skip THEN "record" ELSE "check", {})
  /\ UNCHANGED <<root, disk, cmd, stream, before>>

OverlayDone ==
  /\ pc = "overlay" /\ todo = {}
  /\ stage' = NoStage
  /\ GoTo(IF cmd.skip THEN "succeed" ELSE "check", {})
  /\ UNCHANGED <<root, disk, cmd, stream, before>>

ChecksPass ==
  /\ pc = "check"
  /\ Complete(root)
  /\ GoTo("succeed", {})
  /\ UNCHANGED <<root, disk, local>>

MarkSuccess ==
  /\ pc = "succeed"
  /\ WriteMeta([status |-> "success", from |-> cmd.from, auto |-> "none"])
  /\ GoTo("record", {})
  /\ UNCHANGED <<root, history, now, local>>

RecordUpgrade ==
  /\ pc = "record"
  /\ Append_history("upgrade", "success", "package_replaced")
  /\ Exit("ok")
  /\ UNCHANGED <<root, snaps, now>>

\* A record cannot be written outside the transaction: `set -e` ends the
\* command with an error, and nothing is rolled back.
RecordFails ==
  /\ "record" \in Faults
  /\ \/ /\ pc \in {"record", "recordSnapshotFailed", "recordRollback"}
        /\ UNCHANGED snaps
     \/ /\ pc \in {"snapshot", "snapshotFailed"}
        /\ WriteMeta(TornMeta)
  /\ Exit("failed")
  /\ UNCHANGED <<root, history, now>>

-----------------------------------------------------------------------------
(* Automatic rollback: dbbot_handle_failed_upgrade.                        *)

StartAutoRollback ==
  /\ cmd' = [cmd EXCEPT !.mode = "autoRollback"]
  /\ stage' = NoStage
  /\ GoTo("restore", {})
  /\ UNCHANGED <<root, history, now, stream, before>>

ChecksFail == pc = "check" /\ StartAutoRollback /\ UNCHANGED snaps

\* Mutant of TransactionFails: the subshell's code is returned as it is.
TransactionFailsWithoutRollback ==
  /\ "upgrade" \in Faults
  /\ pc \in {"capture", "remove", "extract", "overlay", "succeed"}
  /\ Exit("failed")
  /\ UNCHANGED <<root, disk>>

TransactionFails ==
  /\ "upgrade" \in Faults
  /\ pc \in {"capture", "remove", "extract", "overlay", "succeed"}
  /\ StartAutoRollback
  /\ IF pc = "succeed" THEN WriteMeta(TornMeta) ELSE UNCHANGED snaps

\* Mutant of RestoreResult: the automatic rollback records the note of a manual one.
RestoreResultWrongNote(result) ==
  \/ /\ cmd.mode = "autoRollback"
     /\ cmd' = [cmd EXCEPT !.result = "snapshot_restored"]
     /\ GoTo("verdict", {})
     /\ UNCHANGED <<stream, stage, before>>
  \/ /\ cmd.mode = "rollback"
     /\ IF result = "success"
          THEN GoTo("recordRollback", {}) /\ UNCHANGED local
          ELSE Exit("failed")

\* The result of a restore: an automatic rollback goes on to its verdict, a
\* rollback command that failed exits at once and leaves no line in history.
RestoreResult(result) ==
  \/ /\ cmd.mode = "autoRollback"
     /\ cmd' = [cmd EXCEPT !.result = result]
     /\ GoTo("verdict", {})
     /\ UNCHANGED <<stream, stage, before>>
  \/ /\ cmd.mode = "rollback"
     /\ IF result = "success"
          THEN GoTo("recordRollback", {}) /\ UNCHANGED local
          ELSE Exit("failed")

\* Mutants of RestoreBegin: the managed paths are not removed first; the
\* archive is not tested first.
RestoreBeginInPlace ==
  /\ pc = "restore" /\ Whole(cmd.sid)
  /\ GoTo("restoreExtract", {p \in Path : image[cmd.sid][p] # Gone})
  /\ UNCHANGED <<root, disk, local>>

RestoreBeginUntested ==
  /\ pc = "restore"
  /\ GoTo("restoreRemove", Path)
  /\ UNCHANGED <<root, disk, local>>

\* dbbot_restore_release_snapshot tests the archive before it removes anything.
RestoreBegin ==
  /\ pc = "restore" /\ Whole(cmd.sid)
  /\ GoTo("restoreRemove", Path)
  /\ UNCHANGED <<root, disk, local>>

RestoreRefused ==
  /\ pc = "restore" /\ ~Whole(cmd.sid)
  /\ RestoreResult("failed")
  /\ UNCHANGED <<root, disk>>

RestoreRemoveDone ==
  /\ pc = "restoreRemove" /\ todo = {}
  /\ GoTo("restoreExtract", {p \in Path : image[cmd.sid][p] # Gone})
  /\ UNCHANGED <<root, disk, local>>

RestorePath(p) ==
  /\ pc = "restoreExtract" /\ p \in todo
  /\ root' = [root EXCEPT ![p] = image[cmd.sid][p]]
  /\ GoTo("restoreExtract", todo \ {p})
  /\ UNCHANGED <<disk, local>>

RestoreDone ==
  /\ pc = "restoreExtract" /\ todo = {}
  /\ IF cmd.skip THEN RestoreResult("success")
                 ELSE GoTo("verify", {}) /\ UNCHANGED local
  /\ UNCHANGED <<root, disk>>

RestoreFails ==
  /\ "restore" \in Faults
  /\ pc \in {"restoreRemove", "restoreExtract"}
  /\ RestoreResult("failed")
  /\ UNCHANGED <<root, disk>>

VerifyPass ==
  /\ pc = "verify" /\ Complete(root)
  /\ RestoreResult("success")
  /\ UNCHANGED <<root, disk>>

VerifyFail ==
  /\ pc = "verify"
  /\ RestoreResult("restored_checks_failed")
  /\ UNCHANGED <<root, disk>>

\* Mutant of Verdict: the verdict goes to the history only.
VerdictUnwritten ==
  /\ pc = "verdict"
  /\ GoTo("recordFailure", {})
  /\ UNCHANGED <<root, disk, local>>

\* Both records of a failed upgrade are written under `set +e`.
Verdict ==
  /\ pc = "verdict"
  /\ \/ WriteMeta([status |-> "failed", from |-> cmd.from, auto |-> cmd.result])
     \/ "record" \in Faults /\ WriteMeta(TornMeta)
  /\ GoTo("recordFailure", {})
  /\ UNCHANGED <<root, history, now, local>>

RecordFailure ==
  /\ pc = "recordFailure"
  /\ \/ Append_history("upgrade", "failed", cmd.result)
     \/ "record" \in Faults /\ UNCHANGED history
  /\ Exit("failed")
  /\ UNCHANGED <<root, snaps, now>>

-----------------------------------------------------------------------------
(* release rollback [snapshot_id].                                         *)

\* `sort -r | head -n 1` over the directory names: a greatest time stamp.
LatestSnapshots ==
  {id \in dirs : \A other \in dirs : other[1] <= id[1]}

\* The version to report is read from the metadata, when it is readable.
RollbackBegin(id, skip) ==
  /\ pc = "idle"
  /\ root[Tool] # Gone
  /\ id \in dirs /\ tar[id] # "none"
  /\ root[VersionFile] # Gone
  /\ cmd' = [mode |-> "rollback", sid |-> id, from |-> root[VersionFile], to |-> meta[id].from,
             skip |-> skip, result |-> "none", outcome |-> "none"]
  /\ before' = root
  /\ GoTo("restore", {})
  /\ UNCHANGED <<root, disk, stream, stage>>

RecordRollback ==
  /\ pc = "recordRollback"
  /\ Append_history("rollback", "success", "snapshot_restored")
  /\ Exit("ok")
  /\ UNCHANGED <<root, snaps, now>>

-----------------------------------------------------------------------------
(* The command is killed, or the host goes down, between any two steps.    *)

Killed ==
  /\ "crash" \in Faults
  /\ pc # "idle"
  /\ Exit("killed")
  /\ \/ UNCHANGED snaps
     \/ /\ pc \in {"snapshot", "snapshotFailed", "succeed", "verdict"}
        /\ WriteMeta(TornMeta)
  /\ UNCHANGED <<root, history, now>>

\* The package cannot be fetched or does not validate, or the snapshot
\* directory cannot be made: the command dies and nothing has changed.
UpgradeAbandoned ==
  /\ pc = "open"
  /\ Exit("failed")
  /\ UNCHANGED <<root, disk>>

Step ==
  \/ \E t \in Time : UpgradeOpen(t)
  \/ UpgradeAbandoned
  \/ SnapshotCreate \/ SnapshotDone \/ MarkSnapshotFailed \/ RecordSnapshotFailed
  \/ CaptureDone \/ RemoveDone \/ ExtractDone \/ OverlayDone
  \/ ChecksPass \/ ChecksFail \/ MarkSuccess \/ RecordUpgrade
  \/ RestoreBegin \/ RestoreRefused \/ RestoreRemoveDone \/ RestoreDone
  \/ VerifyPass \/ VerifyFail \/ Verdict \/ RecordFailure \/ RecordRollback
  \/ \E p \in Path : \/ ArchivePath(p)
                     \/ CapturePath(p)
                     \/ RemovePath(p, "remove")
                     \/ ExtractPath(p)
                     \/ OverlayPath(p)
                     \/ RemovePath(p, "restoreRemove")
                     \/ RestorePath(p)

Fail == SnapshotFails \/ TransactionFails \/ RestoreFails \/ RecordFails \/ Killed

Operator ==
  \/ \E p \in Path, e \in Edit \cup {Gone} : UserEdit(p, e)
  \/ \E v \in Version, skip \in BOOLEAN : UpgradeBegin(v, skip)
  \/ \E id \in Id, skip \in BOOLEAN : RollbackBegin(id, skip)

Next == Step \/ Fail \/ Operator

Spec == Init /\ [][Next]_vars

\* A command that was started keeps running until it ends or is killed.
FairSpec == Spec /\ WF_vars(Step)

-----------------------------------------------------------------------------
(* Properties.                                                             *)

Label == {"idle", "open", "snapshot", "archive", "snapshotFailed", "recordSnapshotFailed",
          "capture", "remove", "extract", "overlay", "check", "succeed", "record",
          "restore", "restoreRemove", "restoreExtract", "verify", "verdict",
          "recordFailure", "recordRollback"}

\* Every variable stays within its type.
TypeOK ==
  /\ root \in Root /\ before \in Root
  /\ dirs \subseteq Id
  /\ tar \in [Id -> {"none", "partial", "whole"}]
  /\ image \in [Id -> Root]
  /\ meta \in [Id -> Meta]
  /\ history \subseteq Line
  /\ now \in Time
  /\ pc \in Label
  /\ todo \subseteq Path
  /\ cmd \in Command
  /\ stream \in Root
  /\ stage \in [Preserve -> Content]

\* An upgrade never destroys the only copy of anything: at every step, after
\* every failure and after a kill, the root as it was when the command
\* started is still in place or is held by a whole archive.
NothingLost ==
  cmd.mode # "rollback" => root = before \/ \E id \in Id : Whole(id) /\ image[id] = before

\* Whatever fails or is killed, in whatever order commands follow, either the
\* installation is one complete release or a whole archive of one exists.
Recoverable == Complete(root) \/ \E id \in Id : Whole(id) /\ Complete(image[id])

\* When an upgrade is about to report success the root is the target release
\* with every file the user had, and nothing else.
SuccessPreservesUser ==
  cmd.mode = "upgrade" /\ pc = "record" => root = Merge(before, cmd.to)

\* A restore that ran to its end left exactly what the archive holds; for an
\* automatic rollback that is the root as it was before the upgrade.
RestoresExactly ==
  /\ pc = "recordRollback" => root = image[cmd.sid]
  /\ pc \in {"verdict", "recordFailure"} /\ cmd.result # "failed" => root = before

\* The history and the metadata of a snapshot never contradict each other.
HistoryTruthful ==
  \A line \in history : line.action = "upgrade" =>
    LET m == meta[line.sid] IN
    /\ line.note = "package_replaced" => m.status = "success" /\ Whole(line.sid)
    /\ line.status = "failed" => m.status \in {"failed", "torn"}
    /\ line.note = "success" => m.auto = "success" \/ m.status = "torn"

\* The version a rollback reports (from_version in the metadata) is the one
\* its archive holds.
ReportedVersionIsArchived ==
  \A id \in Id : Whole(id) /\ meta[id].from # Gone =>
    meta[id].from = image[id][VersionFile]

\* A whole archive and a verdict are never written over.
ArchivesImmutable ==
  [][\A id \in Id :
       /\ Whole(id) => tar'[id] = "whole" /\ image'[id] = image[id]
       /\ meta[id].status \in {"success", "failed"} => meta'[id] = meta[id]]_snaps

\* Unless it is killed or its records cannot be written, every upgrade that
\* announced itself in the metadata settles there.
UpgradesSettle ==
  \A id \in Id : meta[id].status = "in_progress" ~>
                  meta[id].status \in {"success", "failed"}

\* release.sh:32: "Failures after snapshot creation trigger automatic rollback
\* and still return non-zero."
AutoRollbackAfterSnapshot ==
  pc = "idle" /\ cmd.outcome = "failed" /\ cmd.mode = "upgrade" /\ cmd.sid # NoId
    => ~Whole(cmd.sid)
=============================================================================
