SPECIFICATION DoctorSpec
CONSTANTS
  Popups = {p1, p2}
  Sessions = {s1}
  CloseKeys <- MCFallback
  KnownKeys <- MCOnlyDefault
  Codes = {"alt_l"}
  Code <- MCDefaultCode
  NoKey = NoKey
  NoSession = NoSession
  DefaultKey = "M-l"
  TeardownAt <- MCSafeTeardown
INVARIANT DoctorTypeOK
INVARIANT EveryLineReported
PROPERTY QuietReportExact
PROPERTY OkReportTrue
SYMMETRY Symmetry
