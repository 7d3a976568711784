\* Two keys, two representations, room for two workers beside nothing else.
CONSTANTS
  k1 = k1
  k2 = k2
  r1 = r1
  r2 = r2
  Keys = {k1, k2}
  Reps = {r1, r2}
  Content <- Shared
  Jobs = {1, 2}
  Workers = 2
  Retained = 3
  Budget = 4
  Reservation = 2
  Output = 1
  Timeout = 1
  Hour = 2
  Long = 3
  MaxTime = 3
  MaxFaults = 1
SPECIFICATION FairSpec
INVARIANTS TypeOK LeasePlayable BudgetKept EncodeOnce
PROPERTIES EveryPreparationEnds
CHECK_DEADLOCK FALSE
