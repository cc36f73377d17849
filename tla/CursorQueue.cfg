CONSTANTS
  Callers = {c1, c2}
  Ids = {i1, i2, i3}
  Missing = Missing
  Empty = Empty
  Garbage = Garbage
  MaxPops = 3
  MaxCrashes = 1
SPECIFICATION Spec
SYMMETRY Symmetry
INVARIANTS TypeOK NoTaskListedTwice CountersBound FileIsReplayOfCalls
PROPERTY PopsInOrder SettledTasksStay
