CONSTANTS
  MaxFaults = 1
  MaxRounds = 2
  MaxKeys = 2
  Uploads = {o1, o2}
  Attempts = {a1}
  Keepers = {k1}
  MaxPhotos = 1
  Purchases = {x1, x2}
  Order = x1
  Accounts = {u1, u2}
  Buyer = u1
  Calls = {c1}
  Window = 1
  Phones = {d1, d2}
  Workload = {"CREATE_DRAFT", "CREATE", "UPDATE", "SAVE", "SEND", "REVOKE"}
  Promises = {p1}
  Drafts = {p1, p2}
  Texts = {t1}
  NoText = NoText
  Nobody = Nobody
  Capacity = 1
  MaxLinks = 4
SPECIFICATION Spec
INVARIANTS TypeOK DraftSurvives SpentIsGranted SlotsBounded NoWaitCycle
PROPERTIES ConfirmedIsDone PurgeSparesEvidence
CHECK_DEADLOCK FALSE
