--------------------------- MODULE ReleaseInvariants ---------------------------
(***************************************************************************)
(* The inductive invariant of the release commands: what each label of the *)
(* program guarantees about the root, the archive and the captured files.  *)
(***************************************************************************)
EXTENDS ReleaseUpgrade

BeforeArchive == {"snapshot", "archive", "snapshotFailed", "recordSnapshotFailed"}
Transaction   == {"capture", "remove", "extract", "overlay", "check", "succeed", "record"}
Replaced      == {"check", "succeed", "record"}
Restoring     == {"restoreRemove", "restoreExtract", "verify", "recordRollback"}
Failed        == {"verdict", "recordFailure"}

\* Which program runs, and that it has named its snapshot.
Control ==
  /\ pc \in {"open"} \cup BeforeArchive \cup Transaction => cmd.mode = "upgrade" /\ cmd.to \in Version
  /\ pc = "recordRollback" => cmd.mode = "rollback"
  /\ pc \in Failed => cmd.mode = "autoRollback" /\ cmd.result # "none"
  /\ pc \in {"restore"} \cup Restoring => cmd.mode \in {"autoRollback", "rollback"}
  /\ pc \notin {"idle", "open"} => cmd.sid \in Id

\* An archive file lies in a directory that was made; the directory of an
\* upgrade that has not begun its archive holds no whole one.
Directories ==
  /\ \A id \in Id : tar[id] # "none" => id \in dirs
  /\ pc \in {"snapshot", "archive"} => cmd.sid \in dirs /\ (DistinctSeconds => ~Whole(cmd.sid))

\* Until the archive is whole the root is untouched; from then on the archive
\* holds the root as it was.
Archived ==
  /\ pc \in {"open", "capture"} \cup BeforeArchive => root = before
  /\ pc = "archive" => \A p \in Path \ todo : stream[p] = root[p]
  /\ pc \in Transaction => Whole(cmd.sid) /\ image[cmd.sid] = before
  /\ pc # "idle" /\ cmd.mode = "autoRollback" => cmd.sid \in Id /\ Whole(cmd.sid) /\ image[cmd.sid] = before
  /\ pc \in Restoring => Whole(cmd.sid)

\* How far the loops of an upgrade have come.
Replacing ==
  /\ pc = "capture" => todo \subseteq Preserve /\ \A p \in Preserve \ todo : stage[p] = before[p]
  /\ pc \in {"remove", "extract", "overlay"} => \A p \in Preserve : stage[p] = before[p]
  /\ pc = "remove" => \A p \in Path \ todo : root[p] = Gone
  /\ pc = "extract" =>
       todo \subseteq Ships /\ \A p \in Path : root[p] = IF p \in Ships \ todo THEN cmd.to ELSE Gone
  /\ pc = "overlay" =>
       /\ todo \subseteq Preserve
       /\ \A p \in Path : root[p] = IF p \in Preserve \ todo THEN Merge(before, cmd.to)[p]
                                                            ELSE Installed(cmd.to)[p]
  /\ pc \in Replaced => root = Merge(before, cmd.to)

\* How far the loops of a restore have come.
RestoringOK ==
  /\ pc = "restoreRemove" => \A p \in Path \ todo : root[p] = Gone
  /\ pc = "restoreExtract" =>
       \A p \in Path : root[p] = IF p \in todo THEN Gone ELSE image[cmd.sid][p]
  /\ pc \in {"verify", "recordRollback"} => root = image[cmd.sid]
  /\ pc \in Failed /\ cmd.result # "failed" => root = before

\* Where there is a whole archive, one of them holds a complete release.
HasComplete == \E id \in Id : Whole(id) /\ Complete(image[id])

Recovery ==
  DistinctSeconds =>
    /\ Complete(root) \/ HasComplete
    /\ (\E id \in Id : Whole(id)) => HasComplete

\* The inductive invariant: it implies NothingLost, Recoverable,
\* SuccessPreservesUser and RestoresExactly.
IInv == TypeOK /\ Control /\ Directories /\ Archived /\ Replacing /\ RestoringOK /\ Recovery /\ NothingLost
=============================================================================
