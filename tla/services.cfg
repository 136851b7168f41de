CONSTANTS
  MaxFaults = 1
  Intents = {i1}
  Devices = {d1}
  Users = {u1, u2}
  Recipient = u1
  Workers = {w1, w2}
  MaxAttempts = 2
  MaxMoves = 1
  Uploads = {p1}
  Attempts = {a1}
  Keepers = {k1, k2}
  MaxPhotos = 1
  Purchases = {x1}
  Accounts = {u1}
  Calls = {c1, c2}
  Window = 4
  MaxIntents = 2
  MaxAds = 2
  MaxKeys = 2
  Leavers = {u1, u2}
  Requests = {r1}
  Erasers = {w1, w2}
  Phones = {d1}
  Answerers = {a1, a2}
  Workload = {"CREATE_DRAFT", "CREATE", "SAVE", "UPDATE", "SEND", "REVOKE", "DELETE"}
  Promises = {p1}
  Texts = {t1, t2}
  NoText = NoText
  Nobody = Nobody
  Capacity = 1
  MaxLinks = 2
SPECIFICATION Spec
INVARIANTS TypeOK ResentOnlyAfterFault PaidRecordKept SealedIsText NoWaitCycle
PROPERTIES SettledStays TokenOfOthersKept EveryQueueSettles WhatIsOverGoes RefundTakenBack WatchedIsDecided EveryCallReturns ImplementsLifecycle
CHECK_DEADLOCK FALSE
