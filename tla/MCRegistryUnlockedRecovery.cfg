SPECIFICATION RegistrySpec
CONSTANTS
  Procs = {a, b}
  Idle = Idle
  Absent = Absent
  Partial = Partial
  Nobody = Nobody
  MaxClock = 0
  Keys = {k1}
  Panes = {w1}
  Junk = {j1}
  Locked = FALSE
PROPERTY CorruptKept
