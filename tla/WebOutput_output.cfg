\* One track to queue, two commands, three acts, one request or fetch that fails.
SPECIFICATION FairSpec
CONSTANTS
  Items = {a}
  MaxIds = 2
  MaxRev = 3
  MaxActs = 3
  MaxFailures = 1
INVARIANTS OneOutput SessionOwnsOutput
PROPERTIES NewerSelectionKept SeenQueueReplaced RecognisedReconciled
CHECK_DEADLOCK FALSE
