CONSTANTS
  s1 = s1
  t1 = t1
  t2 = t2
  k1 = k1
  k2 = k2
  None = None
  Staff = Staff
  Workers = {w1, w2}
  Students = {s1}
  Teachers = {t1, t2}
  Courses = {k1, k2}
  TeacherOf <- Teaches
  VersionTimeout = 3
  VisibilityTimeout = 1
  ChartTimeout = 1
  RequestTimeout = 1
  MaxTime = 7
  Starts <- Scenarios
SYMMETRY WorkerSymmetry
SPECIFICATION Spec
INVARIANTS OverridesReach ChartsAgeOut CachedTeacherCurrent
CHECK_DEADLOCK FALSE
