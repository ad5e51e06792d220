CONSTANTS
  t1 = t1
  t2 = t2
  None = None
  Target = {t1, t2, t3}
  Label = {l1, l2}
  Process = {p1, p2}
  ByHand <- MCByHand
  MaxRun = 4
  Faults = {"kill", "cut"}
SYMMETRY MCSymmetry
SPECIFICATION Spec
INVARIANT TypeOK
INVARIANT NoDuplicates
 
INVARIANT LatestLabels
CHECK_DEADLOCK FALSE
