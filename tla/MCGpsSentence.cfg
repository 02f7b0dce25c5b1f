SPECIFICATION Spec
CONSTANT Sentences = 5
INVARIANTS
  TypeOK
  BothHalvesReported
  ReportedOnce
PROPERTY FreshHalves
CHECK_DEADLOCK FALSE
