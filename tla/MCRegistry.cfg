SPECIFICATION RegistrySpec
CONSTANTS
  Procs = {a, b}
  Idle = Idle
  Absent = Absent
  Partial = Partial
  Nobody = Nobody
  MaxClock = 1
  Keys = {k1, k2}
  Panes = {w1, w2}
  Junk = {j1, j2}
  Locked = TRUE
INVARIANT RegistryTypeOK
INVARIANT OnlyCorruptMovedAside
INVARIANT LockReleased
PROPERTY CorruptKept
PROPERTY ImplementsAtomicRegistry
SYMMETRY Interchangeable
VIEW NeededState
