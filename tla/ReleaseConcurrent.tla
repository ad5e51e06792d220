--------------------------- MODULE ReleaseConcurrent ---------------------------
(***************************************************************************)
(* Two release commands on one installation root.  The commands share the  *)
(* root and .dbbotctl/ and nothing excludes one while the other runs: A     *)
(* and B are two copies of ReleaseUpgrade over the same disk, each with its *)
(* own process state.                                                       *)
(***************************************************************************)
EXTENDS InstallRoot, Naturals

CONSTANTS RootFile, Tool, MaxTime, DistinctSeconds, Faults

\* What ReleaseUpgrade assumes of them.
ASSUME CommandAssumption ==
  /\ RootFile \subseteq Path
  /\ Tool \in Core \ RootFile
  /\ VersionFile \in RootFile
  /\ MaxTime \in Nat
  /\ DistinctSeconds \in BOOLEAN
  /\ Faults \subseteq {"crash", "snapshot", "upgrade", "restore", "record"}

VARIABLES
  root, dirs, tar, image, meta, history, now,         \* shared, on disk
  pcA, cmdA, streamA, stageA, todoA, beforeA,         \* process A
  pcB, cmdB, streamB, stageB, todoB, beforeB          \* process B

varsA == <<pcA, cmdA, streamA, stageA, todoA, beforeA>>
varsB == <<pcB, cmdB, streamB, stageB, todoB, beforeB>>
vars  == <<root, dirs, tar, image, meta, history, now, varsA, varsB>>

A == INSTANCE ReleaseUpgrade WITH pc <- pcA, cmd <- cmdA, stream <- streamA,
                                  stage <- stageA, todo <- todoA, before <- beforeA
B == INSTANCE ReleaseUpgrade WITH pc <- pcB, cmd <- cmdB, stream <- streamB,
                                  stage <- stageB, todo <- todoB, before <- beforeB

Init == A!Init /\ B!Init

\* One command each: A upgrades or rolls back, B upgrades.  Renaming the
\* processes and longer sequences add no new pair of overlapping commands.
NextA ==
  /\ \/ A!Step \/ A!Fail
     \/ cmdA.mode = "none" /\ \E v \in Version, skip \in BOOLEAN : A!UpgradeBegin(v, skip)
     \/ cmdA.mode = "none" /\ \E id \in A!Id, skip \in BOOLEAN : A!RollbackBegin(id, skip)
  /\ UNCHANGED varsB

NextB ==
  /\ \/ B!Step \/ B!Fail
     \/ cmdB.mode = "none" /\ \E v \in Version, skip \in BOOLEAN : B!UpgradeBegin(v, skip)
  /\ UNCHANGED varsA

Next == NextA \/ NextB

Spec == Init /\ [][Next]_vars

-----------------------------------------------------------------------------
\* Overlapping commands never write over each other's archives or verdicts,
\* and the history never contradicts the metadata, as long as two upgrades
\* do not start within one second.
ArchivesStayApart == A!ArchivesImmutable
HistoryStaysTruthful == A!HistoryTruthful
=============================================================================
