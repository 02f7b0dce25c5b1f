SPECIFICATION MCSpec
CONSTANTS
  b1 = b1
  b2 = b2
  b3 = b3
  t1 = t1
  t2 = t2
  end = end
  other = other
  RSSI_INFO = other
  PING = other
  Free = Free
  Buf <- MCBuf
  Frame <- MCFrame
  Reported <- MCReported
  Ends <- MCEnds
  Entry <- MCEntry
  NoEntry = NoEntry
  Capacity = 1
  LogCapacity = 2
  RssiPeriod = 1
INVARIANTS
  GatewayTypeOK
PROPERTIES
  LogFollowsRadio
  LogGoesOn
  ReceivesBetweenUploads
