SPECIFICATION Spec
CONSTANTS
  p1 = p1  p2 = p2
  r1 = r1  r2 = r2
  t1 = t1  t2 = t2
  w1 = w1  w2 = w2
  Players = {p1, p2}
  Requests = {r1}
  Txs = {t1, t2}
  Workers = {w1}
  Indices = {0}
  MaxRefreshes = 1
  Serial = TRUE
  Quiet = FALSE
  Interrupts = {}
  Absent = Absent
  Misfit = Misfit
SYMMETRY Symmetry
CHECK_DEADLOCK FALSE
INVARIANT PublicSharesCurrent
