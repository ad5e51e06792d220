CONSTANTS
  v1 = v1
  v2 = v2
  e1 = e1
  bin = bin
  conf = conf
  local_file = local_file
  version_file = version_file
  Gone = Gone
  Version <- MCVersion
  InitialVersion = v1
  Edit <- MCNoEdit
  Path <- MCPath
  RootFile <- MCRootFile
  Preserve <- MCPreserve
  Ships <- MCShips
  Tool = bin
  VersionFile = version_file
  MaxTime = 1
  DistinctSeconds = TRUE
  Faults = {"crash", "snapshot", "upgrade", "record"}
SPECIFICATION Spec
INVARIANT NothingLost
INVARIANT Recoverable
INVARIANT ReportedVersionIsArchived
INVARIANT IInv
INVARIANT HistoryTruthful
PROPERTY UpgradeIsAtomic
