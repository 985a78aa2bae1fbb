SPECIFICATION Spec
CONSTANTS
  Server = {a1, a2}
  Request = {r1}
  Scenario = {s1}
  User = {u1}
  Manager = u1
  FirstDay = 1
  LastDay = 2
  Weekend = {2}
  ReminderDays = {1}
  Deadlines = {0, 3}
  MaxSlackAttempts = 2
  MaxCrashes = 1
  NoDeadline = NoDeadline
  NoRun = NoRun
  MaxBefore = 0
ACTION_CONSTRAINTS
  FewRequests
  DeadlineStays
INVARIANTS
  TypeOK
  NoticesFollowTheRecord
PROPERTIES
  OverdueIsNotified
  FailedPostIsRetried
