CONSTANTS
  v1 = v1
  v2 = v2
  e1 = e1
  bin = bin
  conf = conf
  version_file = version_file
  Gone = Gone
  Version <- MCOneVersion
  InitialVersion = v1
  Edit <- MCEdit
  Path <- MCPath
  RootFile <- MCRootFile
  Preserve <- MCPreserve
  Ships <- MCPath
  Tool = bin
  VersionFile = version_file
  MaxTime = 1
  DistinctSeconds = TRUE
  Faults = {"crash"}
SPECIFICATION Spec
INVARIANT HistoryStaysTruthful
 
CHECK_DEADLOCK FALSE
