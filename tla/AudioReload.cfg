SPECIFICATION ReloadSpec
CONSTANTS
  mic = mic
  music = music
  Source = {mic, music}
  Mix <- MCMix
  StreamMix = 0
  Protected = {0, 3}
  Stage <- MCReloadStage
  Excluded <- MCReloadExcluded
  Selections <- MCFewSelections
  Reloads = {"crash","collection"}
  MaxEdits = 1
INVARIANT VodAsConfigured
