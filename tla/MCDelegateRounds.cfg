SPECIFICATION Spec
CONSTANTS
  Task = {t1}
  Intent = {"a"}
  Input = {"x"}
  MaxBatch = 2
  Batch <- MCBatch
  InputsOf <- MCOneIntent
  NoIntent = NoIntent
  NoBatch = 0
  Reg = {r1, r2}
  Recoverable = {}
  NoTask = NoTask
  NoReg = NoReg
  Worker = {w1, w2}
  Faults = TRUE
SYMMETRY Symmetry
INVARIANTS CompletionIsBacked
PROPERTY TerminalIsFinal
