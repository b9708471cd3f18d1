\* Requests that overlap; any call to the cache may fail and any key may be dropped.
SPECIFICATION Spec
CONSTANTS
  r1 = r1
  w1 = w1
  w2 = w2
  Readers = {r1}
  Writers = {w1, w2}
  NoWorker = NoWorker
  InitialVersions = {0, 1}
  MayFail = TRUE
  MayExpire = TRUE
  MaxWrites = 2
SYMMETRY Symmetry
INVARIANTS
  ReadsUnlessInvalidationLost
  ExercisesOneBehind
