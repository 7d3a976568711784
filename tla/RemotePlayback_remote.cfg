\* Two commands: lost, late and repeated messages, a failed write, a crash and a restart.
CONSTANTS
  Commands = {c1, c2}
  Loose = {c2}
  MaxRev = 2
  MaxGen = 2
  MaxSeq = 1
  MaxWire = 1
  MaxCrashes = 1
  MaxRestarts = 1
  MaxFaults = 1
  MaxTroubles = 2
SPECIFICATION FairSpec
INVARIANTS TypeOK  
PROPERTIES AimedAt PollEnds
CHECK_DEADLOCK FALSE
