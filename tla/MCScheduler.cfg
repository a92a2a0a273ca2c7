SPECIFICATION FairSpec
CONSTANTS
  Timed = {t1}
  Settlement = {s1, s2}
  Height = {h1}
  NoJob = NoJob
  MaxStarts = 2
  MaxHeight = 1
INVARIANTS TypeOK CalledOnce OneSettlement QuietAfterStop
PROPERTIES ListedRuns
CHECK_DEADLOCK FALSE
