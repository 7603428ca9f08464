SPECIFICATION Spec
CONSTANTS
  mic = mic
  music = music
  Source = {mic, music}
  Mix <- MCMix
  StreamMix = 0
  Protected = {0, 1}
  Stage <- MCStage
  Excluded <- MCExcluded
  Selections <- MCSelections
  Reloads = {}
  MaxEdits = 1
INVARIANTS TypeOK MembershipKept
PROPERTIES RoutesHear StartIsolated
