SPECIFICATION Spec
CONSTANTS
  p1 = p1  p2 = p2
  r1 = r1  r2 = r2
  t1 = t1  t2 = t2
  w1 = w1  w2 = w2
  Players = {p1, p2}
  Requests = {r1}
  Txs = {t1}
  Workers = {w1}
  First <- AtZero
  Count <- OneBlock
  TxBlocks <- OneMessage
  Total = 1
  MinBatch = 1
  MaxStarts = 2
  MaxResponses = 2
  Serial = TRUE
  Interrupts = {"start", "verify"}
  Absent = Absent
  Zero = Zero
SYMMETRY Symmetry
CHECK_DEADLOCK FALSE
INVARIANTS EqualRSignaturesVerify NonceInOneR
PROPERTY AckFixed
