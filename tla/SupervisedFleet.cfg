SPECIFICATION SupervisedSpec
CONSTANTS
  a1 = a1
  b2 = b2
  b1 = b1
  b3 = b3
  N_RADARs = 2
  Usrps <- SmallUsrps
  Local <- SmallLocal
  Config <- SmallConfig
  ErrorLimit = 2
  MaxFaults = 2
INVARIANTS
  SupervisedTypeOK
  EachUsrpOnce
  TriggeredInSync
PROPERTIES
  KeepsHealthy
  ServerRecovers
  UsrpsReturn
