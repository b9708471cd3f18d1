CONSTANTS
  Clients = {w1, w2}
  Admins = {w2}
  Usernames = {u1}
  REGISTER_IP_LIMIT = 1
  REGISTER_USERNAME_LIMIT = 1
  REGISTER_WINDOW = 1
  FAILURE_COUNTER_TTL = 3
  COOLDOWN_STEPS <- TwoSteps
  CodeWindow = 3
  AllowPreviousWindow = TRUE
  ConfigTimeout = 1
  RequestTimeout = 2
  MaxTime = 6
  Starts <- Scenarios
  NoCode = NoCode
SPECIFICATION Spec
INVARIANTS RotatedCodeDies AttemptsBounded
PROPERTIES ShownCodeWorks CooldownServed
CHECK_DEADLOCK FALSE
