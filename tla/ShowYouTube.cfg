SPECIFICATION Spec
CONSTANTS
  TwitchModes = {"off"}
  YouTubeModes = {"off","horizontal","vertical","dual"}
  KickModes = {"off","horizontal"}
  CleanupFails = {TRUE,FALSE}
  Controlled = {}
  MaxBroadcasts = 3
  MaxAttempts = 4
CHECK_DEADLOCK FALSE
INVARIANTS OffMeansStopped NoBroadcastAbandoned FormatMatches
PROPERTY StartsItsBroadcast
