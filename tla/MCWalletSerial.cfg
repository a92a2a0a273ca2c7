SPECIFICATION FairSpec
CONSTANTS
  Call = {q1, q2, q3}
  NoCall = NoCall
  Op = {"setup", "unlock", "lock", "reset"}
  Faults = {"unlock", "dump"}
  Serial = TRUE
INVARIANTS GateIsBacked StartsStopped NoPanic
PROPERTIES UnlockConcludes KeepsPhases
CHECK_DEADLOCK FALSE
