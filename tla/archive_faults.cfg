CONSTANTS
  NoClone = NoClone
  Torn = Torn
  NoMeta = NoMeta
  MaxTrx = 2
  MaxFile = 4
  MaxRun = 2
  MaxDay = 0
  ServerDays = 1
  ExpireDays = 1
  Keep = 1
  Faults = {"crash", "clone", "query", "copy"}
SPECIFICATION Spec
INVARIANT TypeOK
INVARIANT MetaCoversClone
CHECK_DEADLOCK FALSE
