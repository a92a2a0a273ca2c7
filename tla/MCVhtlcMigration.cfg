SPECIFICATION Spec
CONSTANTS
  Vhtlc = {v1, v2, v3, v4, v5}
  Stored = {v1, v2, v3, v4}
  Owned = {v1, v2, v5}
  Malformed = {v4}
  Created = {v5}
  NoVhtlc = NoVhtlc
  Faults = {"store", "sdk"}
INVARIANTS TypeOK RecordedIsTracked RebuildsOnHead
 
CHECK_DEADLOCK FALSE
