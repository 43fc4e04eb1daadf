SPECIFICATION Spec
CONSTANTS
  ssi = ssi  test = test  t3 = t3  t4 = t4
  rootp = rootp  testp = testp  p3 = p3  p4 = p4
  disk = disk  tty = tty
  NULL = NULL
  store_t <- ThreeThreads
  store_p <- ThreeProcs
  MAXMSG = 2
  Devices = {disk}
  Services = {"CREATE_PROCESS", "TERMINATE_PROCESS", "DO_IO"}
  Calls = {}
  CountBound = 3
INVARIANT PanicIsDeadlock
CHECK_DEADLOCK FALSE
