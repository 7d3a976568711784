\* A tick that comes a unit of time late: a short segment between two gaps.
CONSTANTS
  Tracks <- Tracks1
  First = "a"
  Timeline <- Timeline1
  Duration = 6
  Windows = {2}
  Behind = 1
  Slack = 0
  Late = 1
  MaxCommands = 5
  MaxFailures = 0
SPECIFICATION FlightSpec
PROPERTIES NothingSkipped
CHECK_DEADLOCK FALSE
