SPECIFICATION Spec
CONSTANTS
  ssi = ssi  test = test  t3 = t3  t4 = t4
  rootp = rootp  testp = testp  p3 = p3  p4 = p4
  disk = disk  tty = tty
  NULL = NULL
  store_t <- ThreeThreads
  store_p <- TwoProcs
  MAXMSG = 2
  Devices = {}
  Services = {"CREATE_THREAD", "GET_CPUTIME"}
  Calls = {"SYS_SEND", "SYS_RECV"}
  CountBound = 3
INVARIANTS TypeOK NoLostWakeup OnePlace SoftBlockExact AtMostOneReply PoolConserved
PROPERTY KeepsMail
