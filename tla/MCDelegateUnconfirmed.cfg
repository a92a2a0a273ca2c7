SPECIFICATION Spec
CONSTANTS
  Task = {t1}
  Intent = {"a"}
  Input = {"x"}
  MaxBatch = 1
  Batch <- MCBatch
  InputsOf <- MCOneIntent
  NoIntent = NoIntent
  NoBatch = 0
  Reg = {r1}
  Recoverable = {}
  NoTask = NoTask
  NoReg = NoReg
  Worker = {w1}
  Faults = TRUE
INVARIANT CompletedWasRefreshed
