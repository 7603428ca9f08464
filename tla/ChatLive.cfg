SPECIFICATION FairSpec
CONSTANTS
  Modes = {"dual"}
  CreatedChats = {TRUE}
  Spawns = {TRUE}
  Replies = {"ok","lost"}
  Endings = {}
  QueueLimit = 10
  LookupLimit = 1
  FailureLimit = 1
  MaxMessages = 1
  MaxShows = 1
  MaxPauses = 0
CHECK_DEADLOCK FALSE
PROPERTIES QueuedMessagesLeave UiComesBack
