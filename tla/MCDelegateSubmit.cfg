SPECIFICATION Spec
CONSTANTS
  Task = {t1, t2, t3}
  Intent = {"a", "ab"}
  Input = {"x", "y"}
  MaxBatch = 0
  Batch <- MCBatch
  InputsOf <- MCSharedInput
  NoIntent = NoIntent
  NoBatch = 0
  Reg = {r1}
  Recoverable = {}
  NoTask = NoTask
  NoReg = NoReg
  Worker = {w1}
  Faults = TRUE
SYMMETRY Symmetry
INVARIANTS TypeOK NoOverlap
PROPERTIES CancelledForCause KeepsCustody
