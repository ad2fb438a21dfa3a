SPECIFICATION Spec
CONSTANTS
  Builds = {b1, b2, b3}
  Uploads = {u1, u2}
  Garbled = Garbled
  NoEntry = NoEntry
  Compiled = Compiled
  Previous = Previous
  Absent = Absent
  Nobody = Nobody
CHECK_DEADLOCK FALSE
INVARIANT TypeOK
INVARIANT OnlyVerifiedRuns
INVARIANT FailuresKeepBinary
INVARIANT RerunRepairs
SYMMETRY Interchangeable
