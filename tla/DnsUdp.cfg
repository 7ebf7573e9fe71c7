SPECIFICATION UdpFairSpec
CONSTANTS
  Calls = {g1, g2}
  None = None
  IdSpace = 2
INVARIANTS
  SingleFlight
  Owned
  UdpTypeOK
  
  CallbacksExact
  ClosedIsIdle
PROPERTIES
  SharesOneConnection
  CancelledReturns
  SocketsClosed
CHECK_DEADLOCK FALSE
