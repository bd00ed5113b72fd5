SPECIFICATION Spec
CONSTANTS
  p1 = p1  p2 = p2
  r1 = r1  r2 = r2
  t1 = t1  t2 = t2
  w1 = w1  w2 = w2
  Players = {p1, p2}
  Requests = {r1, r2}
  Txs = {t1}
  Workers = {w1, w2}
  Indices = {0, 1}
  MaxRefreshes = 2
  Serial = TRUE
  Quiet = TRUE
  Interrupts = {"request", "transform", "store", "sign"}
  Absent = Absent
  Misfit = Misfit
SYMMETRY Symmetry
CHECK_DEADLOCK FALSE
INVARIANTS TypeOK SlotsFit SignaturesVerify
PROPERTY RefreshIsAtomic
