SPECIFICATION PacketSpec
CONSTANTS
  NPAR = 8
  Errors <- MCErrors
INVARIANTS
  IntactIsHandled
  HandledAsSent
  ReportsReachServer
  ValidPasses
  InvalidRefused
  CorrectionRestores
CHECK_DEADLOCK FALSE
