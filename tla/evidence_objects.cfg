CONSTANTS
  Uploads = {p1}
  Attempts = {a1, a2}
  Keepers = {k1}
  MaxPhotos = 1
  MaxFaults = 1
SPECIFICATION Spec
INVARIANT EvidenceKeepsItsObjects
CHECK_DEADLOCK FALSE
