CONSTANTS
  c1 = c1
  c2 = c2
  p1 = p1
  p2 = p2
  n1 = n1
  n2 = n2
  h1 = h1
  None = None
  New = New
  Workers = {w1, w2, w3}
  Companies = {c1, c2, c3, c4}
  Parents = {p1, p2}
  ClosingParents = {p2}
  Names = {n1, n2}
  OpeningSpecs <- OneSpec
  ClosingSpecs <- TwoSpecs
  LastCode = 2
  Contents = {h1}
  Starts <- Databases
  MaxRequests = 3
SYMMETRY WorkerSymmetry
SPECIFICATION Spec
INVARIANTS TypeOK CodesUnique PostingsStayValid NothingMadeTwice
PROPERTY ReturnsBare
CHECK_DEADLOCK FALSE
