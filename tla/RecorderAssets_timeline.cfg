\* One station over two capture attempts with room for three of its four checkpoints;
\* two faults.
CONSTANTS
  Stations = {s1}
  Slots <- FourSlots
  Attempts <- TwoAttempts
  ChunkSlots = 2
  Reserved = 3
  Limit = 2
  MaxFaults = 2
SPECIFICATION FairSpec
INVARIANTS SegmentsPlayable TimelineOnce
PROPERTIES GarbageDrains
CHECK_DEADLOCK FALSE
