CONSTANTS
  root = root
  adm = adm
  t1 = t1
  s1 = s1
  s2 = s2
  c1 = c1
  c2 = c2
  d1 = d1
  None = None
  Workers = {w1, w2}
  Users = {root, adm, t1, s1, s2}
  InitialRole <- RoleAtStart
  Superusers = {root}
  Courses = {k1, k2}
  Companies = {c1, c2, d1}
  Owner <- OwnerOf
  Demos = {d1}
  MaxRequests = 4
SYMMETRY Symmetry
SPECIFICATION Spec
INVARIANTS TypeOK OneCoursePerStudent ViewsMatchGet
  SharedByOwnerOrAdmin RolesAreLatest
PROPERTY CourseReturnsEmpty
CHECK_DEADLOCK FALSE
