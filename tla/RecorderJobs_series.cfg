\* Two schedules, each edited between one-off windows and a recurrence.
CONSTANTS
  Schedules = {1, 2}
  Sessions = {}
  Rules <- DemandRules
  Counts = {1}
  MaxStreams = 1
  Day = 2
  Horizon = 2
  MaxTime = 4
  MaxFaults = 1
  MaxRequests = 3
  Retention = 0
SPECIFICATION Spec
INVARIANTS HonestOutcome StreamsWithinLimit UpcomingDemandFits
PROPERTIES NeverFiredTwice
CHECK_DEADLOCK FALSE
