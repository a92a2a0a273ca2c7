SPECIFICATION Spec
CONSTANTS
  Call = {q1, q2}
  NoCall = NoCall
  Op = {"setup", "unlock", "lock", "reset"}
  Faults = {"unlock", "assemble", "dump", "lock"}
  Serial = FALSE
INVARIANT TypeOK
 
CHECK_DEADLOCK FALSE
