\* A schedule and a session compete for one stream; every job ends.
CONSTANTS
  Schedules = {1}
  Sessions = {2}
  Rules <- ShortSeries
  Counts = {1}
  MaxStreams = 1
  Day = 3
  Horizon = 3
  MaxTime = 3
  MaxFaults = 1
  MaxRequests = 2
  Retention = 0
SPECIFICATION FairSpec
PROPERTIES EveryJobEnds
CHECK_DEADLOCK FALSE
