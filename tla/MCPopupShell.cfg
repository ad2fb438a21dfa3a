SPECIFICATION Spec
CONSTANTS
  Popups = {p1, p2}
  Sessions = {s1, s2}
  CloseKeys <- MCKeys
  KnownKeys <- MCKnown
  Codes <- MCCodes
  Code <- MCCode
  NoKey = NoKey
  NoSession = NoSession
  DefaultKey = "M-l"
  TeardownAt <- MCSafeTeardown
INVARIANT TypeOK
INVARIANT AlwaysClosable
INVARIANT SettingsApplied
PROPERTY ImplementsSavedShell
