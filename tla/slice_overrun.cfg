SPECIFICATION TFairSpec
CONSTANTS
  ssi = ssi  test = test  t3 = t3
  rootp = rootp  testp = testp
  NULL = NULL  disk = disk
  store_t <- TwoThreads
  store_p <- TwoProcs
  MAXMSG = 2
  Devices = {}
  Services = {"WAIT_FOR_CLOCK"}
  Calls = {}
  CountBound = 2
  SCHED_TIME_SLICE = 2
  SCHED_PSEUDO_CLOCK = 5
  Width = 32
  MaxLag = 1
PROPERTY RoundRobin
