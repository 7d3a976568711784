\* Two stations; a failure of any request, media or play() call.
CONSTANTS
  Tracks <- Tracks2
  First = "a"
  Timeline <- Timeline2
  Duration = 9
  Windows = {1, 2}
  Behind = 1
  Slack = 0
  Late = 0
  MaxCommands = 4
  MaxFailures = 1
SPECIFICATION FairFlight
INVARIANTS FlightTypeOK SilentWhenPaused BoundedBuffer
PROPERTIES Listening PlaysOn
CHECK_DEADLOCK FALSE
