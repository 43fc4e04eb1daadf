SPECIFICATION CFairSpec
CONSTANTS
  ssi = ssi  cs = cs  p8 = p8  child1 = child1  child2 = child2
  grand1 = grand1  grand2 = grand2
  test2 = test2  test4 = test4
  Anybody = Anybody  Nobody = Nobody
  Threads <- Family
  Mail <- FamilyMail
  starters <- JustP8
  Blocks <- FamilyTcbs
  CHILDREN = 2
  NGRANDCHILDREN = 1
INVARIANTS ClientsTypeOK OwnStack AllHeard
PROPERTY Finishes
CHECK_DEADLOCK FALSE
