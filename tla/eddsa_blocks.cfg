SPECIFICATION Spec
CONSTANTS
  p1 = p1  p2 = p2
  m1 = m1  m2 = m2
  w1 = w1  w2 = w2
  Players = {p1, p2}
  Workers = {w1}
  Messages = {m1}
  Blocks = 2
  Versions = {7}
  OwnVersion = 7
  MaxStarts = 1
  Serial = TRUE
  Honest = TRUE
  Interrupts = {}
  Absent = Absent
SYMMETRY Symmetry
CHECK_DEADLOCK FALSE
INVARIANTS OneChallenge
