SPECIFICATION Spec
CONSTANTS
  p1 = p1  p2 = p2
  m1 = m1  m2 = m2
  w1 = w1  w2 = w2
  Players = {p1, p2}
  Workers = {w1}
  Messages = {m1, m2}
  Blocks = 1
  Versions = {6, 7}
  OwnVersion = 7
  MaxStarts = 2
  Serial = TRUE
  Honest = FALSE
  Interrupts = {"update", "store", "sign", "delete"}
  Absent = Absent
SYMMETRY Symmetry
CHECK_DEADLOCK FALSE
INVARIANTS TypeOK OpensAsCommitted OneChallenge NothingLeft
