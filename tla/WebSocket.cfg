SPECIFICATION Spec
CONSTANTS
  a = a
  Nobody = Nobody
  Clients = {a}
  NumEvents = 3
  NumConns = 3
  BufferSize = 2
INVARIANTS BufferInOrder NoGap NoDuplicates
PROPERTIES BroadcastsEnd
CHECK_DEADLOCK FALSE
