\* Two closings race each other.
SPECIFICATION Spec
CONSTANTS
  w1 = w1
  w2 = w2
  Workers = {w1, w2}
  Closers = {w1, w2}
  Editors = {}
  NoWorker = NoWorker
  MaxDate = 3
  MaxEntries = 3
  MaxExtras = 0
CHECK_DEADLOCK FALSE
INVARIANTS
  ExerciseChainCanonical
