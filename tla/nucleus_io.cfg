SPECIFICATION RFairSpec
CONSTANTS
  ssi = ssi  test = test  t3 = t3
  rootp = rootp  testp = testp
  NULL = NULL
  store_t <- ThreeThreads
  store_p <- TwoProcs
  MAXMSG = 2
  Devices <- TerminalRegisters
  Installed <- Terminals
  Failing = {}
  Services = {"GET_ERRNO", "CREATE_THREAD", "WAIT_FOR_CLOCK", "DO_IO"}
  Calls = {}
  CountBound = 3
INVARIANTS TypeOK NoLostWakeup OnePlace SoftBlockExact OneReply PoolConserved DeviceListExact
PROPERTIES KeepsPromise Answered EveryoneRuns
