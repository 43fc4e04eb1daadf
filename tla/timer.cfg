SPECIFICATION TSpec
CONSTANTS
  ssi = ssi  test = test  t3 = t3
  rootp = rootp  testp = testp
  NULL = NULL  disk = disk
  store_t <- ThreeThreads
  store_p <- TwoProcs
  MAXMSG = 2
  Devices = {disk}
  Services = {"CREATE_THREAD", "WAIT_FOR_CLOCK", "DO_IO"}
  Calls = {}
  CountBound = 3
  SCHED_TIME_SLICE = 2
  SCHED_PSEUDO_CLOCK = 5
  Width = 32
  MaxLag = 1
INVARIANTS TimeTypeOK TimesExact ClockSorted WaitsBounded
PROPERTY WaitsLongEnough
