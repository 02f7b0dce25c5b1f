SPECIFICATION Spec
CONSTANTS
  ping = ping
  info = info
  None = None
  Msg <- MCMsg
  Other <- MCOther
  Capacity = 2
INVARIANTS
  TypeOK
  SocketLive
PROPERTIES
  ImplementsDelivery
  Reconnects
  DeliversWhenUp
