\* An update of the company races a closing.
SPECIFICATION Spec
CONSTANTS
  w1 = w1
  w2 = w2
  Workers = {w1, w2}
  Closers = {w1}
  Editors = {w2}
  NoWorker = NoWorker
  MaxDate = 3
  MaxEntries = 3
  MaxExtras = 0
CHECK_DEADLOCK FALSE
INVARIANTS
  ClosingsAreLocked
