CONSTANTS
  Devices = {d1, d2}
  Answerers = {a1}
  Workload = {"CREATE_DRAFT", "CREATE", "SAVE", "UPDATE", "SEND", "REVOKE", "DELETE"}
  Promises = {p1}
  Texts = {t1}
  NoText = NoText
  Nobody = Nobody
  Capacity = 1
  MaxLinks = 3
SPECIFICATION Spec
INVARIANT OneLiveLink
CHECK_DEADLOCK FALSE
