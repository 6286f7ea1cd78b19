SPECIFICATION Spec
CONSTANTS
  p1 = p1
  p2 = p2
  h1 = h1
  Projects = {p1, p2}
  h2 = h2
  Hosts = {h1}
  NoDoc = {nodoc}
  None = none
  Personal = personal
  Slots = {c1, c2}
  MaxOthers = 1
  MaxEdits = 1
  MaxFaults = 1
  MaxKeys = 1
  Start <- OneToCreate
INVARIANTS ProjectAgreement KeysOnlyAdvance
PROPERTY NoBlindPush
SYMMETRY SlotSymmetry
CHECK_DEADLOCK FALSE
