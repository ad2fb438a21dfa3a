SPECIFICATION Spec
CONSTANTS
  k1 = k1
  k2 = k2
  w1 = w1
  w2 = w2
  Keys = {k1, k2}
  Panes = {w1, w2}
  OverlayOf <- TwoScopes
  Procs = {a, b}
  Idle = Idle
  Junk = {j1}
  Absent = Absent
  Partial = Partial
  Nobody = Nobody
  MaxClock = 0
  Locked = FALSE
  Conditions <- AnyConditions
INVARIANT TypeOK
INVARIANT OverlayTracked
PROPERTY OverOnlyBeingClosed
PROPERTY AtomicAlone
PROPERTY ToggleAdvances
INVARIANT NeverStuck
SYMMETRY Interchangeable
VIEW NeededState
