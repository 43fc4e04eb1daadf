SPECIFICATION GSpec
CONSTANTS
  ssi = ssi  test = test  t3 = t3
  rootp = rootp  testp = testp
  NULL = NULL
  store_t <- ThreeThreads
  store_p <- TwoProcs
  MAXMSG = 2
  Devices = {}
  Services = {"CREATE_THREAD", "WAIT_FOR_CLOCK"}
  Calls = {}
  CountBound = 3
INVARIANT ServicesAtomic
CHECK_DEADLOCK FALSE
