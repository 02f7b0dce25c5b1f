SPECIFICATION Spec
CONSTANT MayFail = TRUE
INVARIANTS
  TypeOK
  OnlyEarlyFrameKills
PROPERTY StopsOnlyInLoop
CHECK_DEADLOCK FALSE
