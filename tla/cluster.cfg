CONSTANTS
  r1 = r1
  r2 = r2
  r3 = r3
  None = None
  Host <- MCHost
  Batch = {b1}
  MaxTime = 1
  MaxPlay = 2
  Faults = {"lag", "kill", "server"}
  MaxRestore = 2
  RestoreFaults = {"kill", "server"}
SYMMETRY MCSymmetry
SPECIFICATION AllSpec
INVARIANT RestoreTypeOK
INVARIANT ManifestWhole
INVARIANT MarkersCovered
INVARIANT SafeTsCovered
INVARIANT ReportedIsRestored
INVARIANT SafeTsRestored
 
INVARIANT ViewsComeLast
CHECK_DEADLOCK FALSE
