CONSTANTS
  v1 = v1
  v2 = v2
  e1 = e1
  bin = bin
  conf = conf
  local_file = local_file
  version_file = version_file
  Gone = Gone
  Version <- MCVersion
  InitialVersion = v1
  Edit <- MCEdit
  Path <- MCPath
  RootFile <- MCRootFile
  Preserve <- MCPreserve
  Ships <- MCShips
  Tool = bin
  VersionFile = version_file
  MaxTime = 0
  DistinctSeconds = TRUE
  Faults = {"record"}
SPECIFICATION Spec
INVARIANT AutoRollbackAfterSnapshot
