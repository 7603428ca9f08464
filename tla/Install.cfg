SPECIFICATION Spec
CONSTANTS
  App = {"bin","extra"}
  Exe = "bin"
  Config = "config"
  Version = {1,2}
  Payload <- MCPayload
  Edit = {0,1}
  Language = {"en","fr"}
  Kinds = {"install","restore","adopt","backup","recover"}
  DefaultLanguage = "en"
  MaxStarts = 2
  MaxCrashes = 1
CHECK_DEADLOCK FALSE
INVARIANTS TypeOK SettingsKept
PROPERTY ImplementsFolder
