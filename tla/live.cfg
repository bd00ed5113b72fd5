SPECIFICATION FairSpec
CONSTANTS
  p1 = p1  p2 = p2  c1 = c1
  r1 = r1  r2 = r2  t1 = t1  m1 = m1
  w1 = w1  w2 = w2
  Absent = Absent  Zero = Zero  Misfit = Misfit
CHECK_DEADLOCK FALSE
PROPERTIES
  EveryRequestCompletes EveryRefreshCompletes EveryTransactionIsSigned
  EverySetupCompletes
