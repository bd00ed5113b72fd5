SPECIFICATION StoreSpec
CONSTANTS
  p1 = p1  p2 = p2
  r1 = r1  r2 = r2
  t1 = t1  t2 = t2
  w1 = w1  w2 = w2
  Players = {p1, p2}
  Requests = {r1}
  Txs = {t1, t2}
  Workers = {w1, w2}
  First <- AtZero
  Count <- TwoBlocks
  TxBlocks <- TwoThenOne
  Total = 2
  MinBatch = 6
  MaxStarts = 1
  MaxResponses = 1
  Serial = TRUE
  Interrupts = {"publish", "sign"}
  Absent = Absent
  Zero = Zero
SYMMETRY Symmetry
CHECK_DEADLOCK FALSE
INVARIANTS TypeOK SingleUse
PROPERTY ImplementsPool
