SPECIFICATION FairSpec
CONSTANTS
  Stream = {s1, s2, s3}
  Nobody = Nobody
  MaxEvents = 1
INVARIANTS TypeOK OnceUnlessRemoved
PROPERTIES SendersEnd StreamsEnd
CHECK_DEADLOCK FALSE
