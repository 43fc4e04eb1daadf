SPECIFICATION RFairSpec
CONSTANTS
  ssi = ssi  test = test  t3 = t3
  rootp = rootp  testp = testp
  NULL = NULL
  store_t <- ThreeThreads
  store_p <- TwoProcs
  MAXMSG = 2
  Devices <- DiskRegister
  Installed <- Disks
  Failing = {}
  Services = {"CREATE_THREAD", "DO_IO"}
  Calls = {}
  CountBound = 3
PROPERTY Answered
