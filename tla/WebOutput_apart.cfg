\* A recording or Mood asked for before the output moves, answered after it.
SPECIFICATION Spec
CONSTANTS
  Items = {a}
  MaxIds = 1
  MaxRev = 1
  MaxActs = 3
  MaxFailures = 0
INVARIANT LocalOutputOnly
CHECK_DEADLOCK FALSE
