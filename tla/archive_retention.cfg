CONSTANTS
  NoClone = NoClone
  Torn = Torn
  NoMeta = NoMeta
  MaxTrx = 0
  MaxFile = 6
  MaxRun = 4
  MaxDay = 3
  ServerDays = 1
  ExpireDays = 1
  Keep = 1
  Faults = {"crash", "clone"}
SPECIFICATION Spec
INVARIANT NoHole
INVARIANT KeptAreWhole
PROPERTY AlwaysRestorable
CHECK_DEADLOCK FALSE
