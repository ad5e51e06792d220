CONSTANTS
  NoClone = NoClone
  Torn = Torn
  NoMeta = NoMeta
  MaxTrx = 2
  MaxFile = 3
  MaxRun = 2
  MaxDay = 1
  ServerDays = 1
  ExpireDays = 0
  Keep = 1
  Faults = {"crash", "missed"}
  GNO <- MCConsecutive
  RestoreFaults = {"apply"}
SPECIFICATION AllFairSpec
INVARIANT IndexedAreWhole
 
 
PROPERTY RecoveryEnds
CHECK_DEADLOCK FALSE
