\* Two requests with two keys; a scrobble, a write, Mood of two tracks, its cancellation.
CONSTANTS
  k1 = k1
  k2 = k2
  Requests = {1, 2}
  Keys = {k1, k2}
  Bodies <- AllBodies
  Asks <- AskThenRetry
  Occurrences = {1}
  Devices = {d1}
  Size = 2
  Keep = 1
  MaxTime = 1
  MaxFaults = 1
  MaxRestarts = 1
SPECIFICATION FairSpec
INVARIANTS ScrobbledOnce AcceptedTruly NoOrphan
PROPERTIES EverythingEnds
CHECK_DEADLOCK FALSE
