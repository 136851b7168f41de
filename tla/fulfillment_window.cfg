CONSTANTS
  Parties = {u1, u2}
  Promises = {p1}
  NoDate = NoDate
  CheckDays = 2
  AmendDays = 2
  EndDates = {1}
  Keepers = {{u1}, {u1, u2}}
  Leavers = {u2}
  LastDay = 5
  MaxRounds = 1
  MaxRequests = 1
  MaxMissed = 0
SPECIFICATION Spec
PROPERTY FullCheckWindow
CHECK_DEADLOCK FALSE
