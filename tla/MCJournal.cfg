\* One worker closes while the other posts, reverses and edits the company.
SPECIFICATION FairSpec
CONSTANTS
  w1 = w1
  w2 = w2
  Workers = {w1, w2}
  Closers = {w1}
  Editors = {w2}
  NoWorker = NoWorker
  MaxDate = 3
  MaxEntries = 4
  MaxExtras = 1
CHECK_DEADLOCK FALSE
INVARIANTS
  NumberStaysFree
  ClosingIsWhole
  ExerciseChainCanonical
  BoundariesAscend
  
PROPERTIES
  ImplementsBooks
  EveryRequestEnds
