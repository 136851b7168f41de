CONSTANTS
  Users = {u1, u2}
  Promises = {p1, p2}
  Bodies = {terms}
  NoUser = NoUser
  InviteTTL = 1
  ResendMax = 1
  DraftMax = 2
  DailyMax = 2
  FreeSlots = 1
  LastDay = 1
  MaxBought = 1
SPECIFICATION Spec
SYMMETRY UserSymmetry
INVARIANTS WithdrawnOwnNothingOpen
PROPERTIES SlotTakenOnlyWhenFree ImplementsLifecycle
CHECK_DEADLOCK FALSE
