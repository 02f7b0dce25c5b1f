SPECIFICATION MCSpec
CONSTANTS
  b1 = b1
  b2 = b2
  b3 = b3
  b4 = b4
  f1 = f1
  f2 = f2
  Free = Free
  Buf <- MCBuf
  Frame <- MCFrame
  Capacity = 2
  RssiPeriod = 2
INVARIANTS
  BuffersOwned
PROPERTIES
  ImplementsDelivery
  PromptWhileReceiving
