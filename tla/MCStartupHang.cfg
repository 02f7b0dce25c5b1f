SPECIFICATION Spec
CONSTANT MayFail = FALSE
PROPERTY ComesUp
CHECK_DEADLOCK FALSE
