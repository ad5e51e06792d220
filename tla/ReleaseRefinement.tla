--------------------------- MODULE ReleaseRefinement ---------------------------
(* The steps of the release commands implement AtomicRelease.                *)
EXTENDS ReleaseUpgrade

\* The root is being replaced: what counts is what the command began with.
InFlight ==
  \/ pc \in {"remove", "extract", "overlay", "check", "succeed",
            "restore", "restoreRemove", "restoreExtract", "verify"}
  \/ pc \in {"verdict", "recordFailure"}

\* The last command was killed, or its restore failed and it said so: a
\* rollback by its exit, an automatic one in the metadata of its snapshot,
\* unless that could not be written.
RestoreFailed ==
  /\ cmd.outcome = "failed"
  /\ \/ cmd.mode = "rollback"
     \/ cmd.mode = "autoRollback" /\ meta[cmd.sid].auto \in {"failed", "none"}

\* The installation, the archives and the report as AtomicRelease has them.
instBar   == IF InFlight THEN before ELSE root
takenBar  == {image[id] : id \in {i \in Id : Whole(i)}}
brokenBar == pc = "idle" /\ (cmd.outcome = "killed" \/ RestoreFailed)

Atomic == INSTANCE AtomicRelease WITH inst <- instBar, taken <- takenBar, broken <- brokenBar

\* Between commands the installation only ever moves from one whole state to
\* another, whatever fails: an upgrade lands completely or leaves the root as
\* it was.  Only a kill, or a restore that failed and is reported as failed,
\* leaves anything else, and then a complete release is archived.
UpgradeIsAtomic == Atomic!Spec
=============================================================================
