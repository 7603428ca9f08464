SPECIFICATION FairSpec
CONSTANTS
  desk = desk
  game = game
  none = none
  stream = stream
  recording = recording
  Scene = {desk, game}
  NoScene = none
  Provider = {stream, recording}
  Instant = {recording}
  Modes <- MCModes
  Stage <- MCStage
  Studio = FALSE
  MaxApplied = 3
  MaxSwitches = 1
  MaxStarts = 1
CHECK_DEADLOCK FALSE
INVARIANTS TypeOK PicturesFollow SettledIsDirect
PROPERTIES LiveKeepsCanvas PendingClears
