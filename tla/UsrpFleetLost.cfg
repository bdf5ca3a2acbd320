SPECIFICATION SupervisedSpec
CONSTANTS
  a1 = a1
  b2 = b2
  b1 = b1
  b3 = b3
  N_RADARs = 2
  Usrps <- MCUsrps
  Local <- MCLocal
  Config <- MCConfig
  ErrorLimit = 2
  MaxFaults = 2
PROPERTIES
  OnlyLostRemoved
CHECK_DEADLOCK FALSE
