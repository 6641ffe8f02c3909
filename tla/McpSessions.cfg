SPECIFICATION LiveSpec
CONSTANTS
  Entries = {e1, e2, e3}
  NoEntry = noEntry
  Requests = {r1, r2}
  Timers = {sweep}
  MaxSessions = 2
INVARIANTS
  CapacityHeld
  MapIsOpenSessions
  ShutdownIsComplete
PROPERTY CloseSettles
CHECK_DEADLOCK FALSE
