SPECIFICATION Spec
CONSTANTS
  Modes = {"vertical"}
  CreatedChats = {FALSE}
  Spawns = {TRUE,FALSE}
  Replies = {"ok"}
  Endings = {"ok","error"}
  QueueLimit = 10
  LookupLimit = 1
  FailureLimit = 2
  MaxMessages = 0
  MaxShows = 2
  MaxPauses = 1
CHECK_DEADLOCK FALSE
INVARIANTS TypeOK ReadersAccounted LookupsAccounted
