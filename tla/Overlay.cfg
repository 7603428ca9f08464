SPECIFICATION FairSpec
CONSTANTS
  Overlay = {"box"}
  AlertBox = "box"
  Document = {"plain","strict"}
  Seed <- MCSeed
  OldStores = {"absent","damaged"}
  Files = {"absent","damaged","future"}
  MaxRevision = 2
  Accepts <- MCAccepts
  Page = {"wide","tall"}
  Landscape = {"wide"}
  AlertLimit = 1
  StreamLimit = 2
  Backlog = 2
  MaxAlerts = 2
  MaxStarts = 1
  MaxIncidents = 1
CHECK_DEADLOCK FALSE
INVARIANTS DraftCanBePublished OneVoice NoForgottenAlert
PROPERTIES UnreadableKept ImplementsShelf AlertsDrain
