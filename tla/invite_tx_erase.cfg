CONSTANTS
  Devices = {d1, d2}
  Answerers = {a1}
  Workload = {"CREATE", "SEND", "DELETE"}
  Promises = {p1}
  Texts = {t1}
  NoText = NoText
  Nobody = Nobody
  Capacity = 1
  MaxLinks = 2
SPECIFICATION Spec
INVARIANT NoWaitCycle
CHECK_DEADLOCK FALSE
