SPECIFICATION CSpec
CONSTANTS
  ssi = ssi  cs = cs  p8 = p8  child1 = child1  child2 = child2
  grand1 = grand1  grand2 = grand2
  test2 = test2  test4 = test4
  Anybody = Anybody  Nobody = Nobody
  Threads <- Parallel
  Mail <- ParallelMail
  starters <- Testers
  Blocks <- ParallelTcbs
  CHILDREN = 0
  NGRANDCHILDREN = 0
INVARIANT OwnCode
CHECK_DEADLOCK FALSE
