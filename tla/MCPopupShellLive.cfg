SPECIFICATION FairSpec
CONSTANTS
  Popups = {p1, p2}
  Sessions = {s1}
  CloseKeys <- MCKeys
  KnownKeys <- MCKnown
  Codes <- MCCodes
  Code <- MCCode
  NoKey = NoKey
  NoSession = NoSession
  DefaultKey = "M-l"
  TeardownAt <- MCSafeTeardown
PROPERTY EventuallyClosable
PROPERTY DriftCorrected
