CONSTANTS
  Tasks = {t1}
  Workers = {w1, w2}
  Bodies = {b1}
  NoRow = NoRow
  MaxVersion = 2
  MaxFaults = 0
SPECIFICATION Spec
SYMMETRY Symmetry
PROPERTY FailedArtifactCompensated
