CONSTANTS
  NoClone = NoClone
  Torn = Torn
  NoMeta = NoMeta
  MaxTrx = 1
  MaxFile = 4
  MaxRun = 1
  MaxDay = 0
  ServerDays = 1
  ExpireDays = 1
  Keep = 1
  Faults = {"busy"}
SPECIFICATION Spec
INVARIANT IndexedAreWhole
CHECK_DEADLOCK FALSE
