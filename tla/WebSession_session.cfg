\* Three sessions as either of two identities, two acts, two changes of the queue, one fault.
SPECIFICATION FairSpec
CONSTANTS
  Identities = {1, 2}
  Pages = {"home", "playlist", "playlists"}
  MaxSessions = 3
  MaxEdits = 2
  MaxActs = 2
  MaxFaults = 1
INVARIANTS ShownIsCurrent QuickActionsEnd SavesOwn
PROPERTIES SavedInOrder ChangesSaved
CHECK_DEADLOCK FALSE
