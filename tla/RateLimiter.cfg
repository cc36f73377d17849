CONSTANTS
  Threads = {t1, t2}
  Clients = {c1}
  Limit = 2
  Window = 2
  MaxClock = 4
  MaxRequests = 5
SPECIFICATION Spec
SYMMETRY Symmetry
INVARIANTS TypeOK WindowHonouredUpToLag RaceIsBounded
PROPERTY RefusalJustified
CHECK_DEADLOCK FALSE
