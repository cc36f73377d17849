CONSTANTS
  Tasks = {t1}
  Workers = {w1, w2}
  Bodies = {b1, b2}
  NoRow = NoRow
  MaxVersion = 3
  MaxFaults = 1
SPECIFICATION Spec
SYMMETRY Symmetry
INVARIANTS TypeOK SnapshotCurrentOrOutdated HalfMadePlanHasCause
PROPERTIES AtomicStore NoLostUpdate ConflictMeansInterference
