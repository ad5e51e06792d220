CONSTANTS
  Null = Null
  MaxFiles = 3
  MaxEvents = 2
  MaxStamp = 2
  Replica = {1, 2, 3}
  Database = {"a", "b"}
  Name = {"t", "v"}
SPECIFICATION Spec
INVARIANT FindsLastBefore
INVARIANT OneBacksUp
 
CHECK_DEADLOCK FALSE
