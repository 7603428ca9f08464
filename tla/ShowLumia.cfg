SPECIFICATION Spec
CONSTANTS
  TwitchModes = {"off","dual"}
  YouTubeModes = {"horizontal"}
  KickModes = {"horizontal"}
  CleanupFails = {FALSE}
  Controlled = {"twitch","youtube","kick"}
  MaxBroadcasts = 2
  MaxAttempts = 2
CHECK_DEADLOCK FALSE
INVARIANT TypeOK
PROPERTY StoppedStaysStopped
