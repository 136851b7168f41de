CONSTANTS
  Users = {u1, u2, u3}
  Promises = {p1}
  Bodies = {terms}
  NoUser = NoUser
  InviteTTL = 1
  ResendMax = 2
  DraftMax = 1
  DailyMax = 1
  FreeSlots = 1
  LastDay = 2
  MaxBought = 0
SPECIFICATION Spec
INVARIANTS TypeOK OneLiveLink LiveLinkOnlyWhilePending LinkShowsItsTerms SignedTerms
PROPERTIES PartnerIsKept SettledLinkIsFinal LapsedLinkSettles
CHECK_DEADLOCK FALSE
