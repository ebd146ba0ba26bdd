\* Three requests: attempts on an account with a second factor, which two
\* failures lock, or a session of an account without one.
SPECIFICATION Spec
CONSTANTS
  r1 = r1 r2 = r2 r3 = r3 u1 = u1 u2 = u2
  None = None
  Requests = {r1, r2, r3}
  Users = {u1, u2}
  MfaUsers = {u1}
  Calls <- AllCalls
  Threshold = 2
  Duration = 1
  Idle = 3
  Absolute = 4
  MaxNow = 4
SYMMETRY Symmetry
CONSTRAINT TwoScenarios
INVARIANTS TrailTellsTheCount AnswersAreOnTheTrail TypeOK SignOutIsFinal SessionsLiveByActivity
CHECK_DEADLOCK FALSE
