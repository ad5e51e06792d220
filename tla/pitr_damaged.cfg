CONSTANTS
  NoClone = NoClone
  Torn = Torn
  NoMeta = NoMeta
  MaxTrx = 2
  MaxFile = 4
  MaxRun = 1
  MaxDay = 0
  ServerDays = 1
  ExpireDays = 1
  Keep = 1
  Faults = {"busy", "query", "copy"}
  GNO <- MCConsecutive
  RestoreFaults = {}
SPECIFICATION AllSpec
INVARIANT TimeRecoveryIsPrefix
 
INVARIANT SuccessNotPastTarget
CHECK_DEADLOCK FALSE
