----------------------------- MODULE AtomicRelease -----------------------------
(***************************************************************************)
(* What the release commands promise, without their steps: an upgrade and  *)
(* a rollback change the installation at once or not at all, and an        *)
(* upgrade archives the installation it replaces.  Anything else is left   *)
(* behind only by a command that was killed or that says it could not      *)
(* restore, and then an archive of a complete release is there to recover  *)
(* from.                                                                   *)
(***************************************************************************)
EXTENDS InstallRoot

VARIABLES
  inst,   \* the installation, as it stands between commands
  taken,  \* every root an archive was taken of
  broken  \* the last command was killed or says that its restore failed

Init == inst = Installed(InitialVersion) /\ taken = {} /\ broken = FALSE

Write(p, e) ==
  /\ p \in Preserve \/ p \notin Ships
  /\ inst' = [inst EXCEPT ![p] = e]
  /\ UNCHANGED <<taken, broken>>

Archive == taken' = taken \cup {inst} /\ UNCHANGED <<inst, broken>>

Upgrade(v) == inst \in taken /\ inst' = Merge(inst, v) /\ UNCHANGED <<taken, broken>>

Rollback == inst' \in taken /\ broken' \in BOOLEAN /\ UNCHANGED taken

Report == broken' \in BOOLEAN /\ UNCHANGED <<inst, taken>>

Wreck ==
  /\ \E r \in taken : Complete(r)
  /\ inst' \in Root /\ broken' = TRUE
  /\ UNCHANGED taken

Next ==
  \/ \E p \in Path, e \in Edit \cup {Gone} : Write(p, e)
  \/ Archive
  \/ \E v \in Version : Upgrade(v)
  \/ Rollback
  \/ Report
  \/ Wreck

Spec == Init /\ [][Next]_<<inst, taken, broken>>
=============================================================================
