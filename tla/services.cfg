SPECIFICATION ServicesSpec
CONSTANTS
  p1 = p1  p2 = p2
  c1 = c1  s1 = s1
  o1 = o1  o2 = o2
  t1 = t1  t2 = t2
  w1 = w1  w2 = w2
  Client = c1
  Servers = {p1, p2}
  Txs = {t1}
  Blocks = 1
  Total = 2
  Workers = {w1}
  MaxStarts = 2
  Serial = TRUE
  Interrupts = {"prepare", "decommit", "forget", "consume", "answer", "delete", "cancel", "reply"}
  Absent = Absent
SYMMETRY Symmetry
CHECK_DEADLOCK FALSE
INVARIANTS
  TypeOK NoncesAnswerOnce AnswersAgree OpensAsCommitted NothingLeft
  KAnswersOnce ResultsAgree AddedKeyIsTheOld TemporaryForgotten
