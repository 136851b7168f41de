CONSTANTS
  Parties = {u1, u2}
  Promises = {p1}
  NoDate = NoDate
  CheckDays = 1
  AmendDays = 1
  EndDates = {1}
  Keepers = {{u1}}
  Leavers = {u2}
  LastDay = 3
  MaxRounds = 2
  MaxRequests = 1
  MaxMissed = 1
SPECIFICATION Spec
INVARIANTS TypeOK StatusFitsAnswers ProfilesCurrent HeldByOneRequest InForceIsAgreed
PROPERTIES AnswersStand FollowsLifecycle ChecksClose RequestsLapse
CHECK_DEADLOCK FALSE
