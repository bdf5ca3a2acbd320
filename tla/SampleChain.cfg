SPECIFICATION Spec
CONSTANTS
  u1 = u1
  u2 = u2
  x = x
  y = y
  Usrps <- MCUsrps
  Channels <- MCChannels
  Freqs <- MCFreqs
  MaxPeriods = 4
  MaxFaults = 1
  ScanLen = 3
  Local = TRUE
  MayStop = {x}
  MayLeave = {y}
INVARIANTS
  TypeOK
  OwnSamples
  TransmitsOwn
  NoOverlap
  NoLeftOvers
  CudaInStep
CHECK_DEADLOCK FALSE
