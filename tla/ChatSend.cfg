SPECIFICATION Spec
CONSTANTS
  Modes = {"dual"}
  CreatedChats = {TRUE}
  Spawns = {TRUE}
  Replies = {"ok","error"}
  Endings = {}
  QueueLimit = 10
  LookupLimit = 1
  FailureLimit = 1
  MaxMessages = 2
  MaxShows = 1
  MaxPauses = 0
CHECK_DEADLOCK FALSE
INVARIANTS OneSender NoCancelledWorkerWhenIdle
PROPERTY ImplementsOutbox
