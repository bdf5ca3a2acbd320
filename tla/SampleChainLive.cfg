SPECIFICATION Spec
CONSTANTS
  u1 = u1
  u2 = u2
  x = x
  y = y
  Usrps <- MCUsrps
  Channels <- MCChannels
  Freqs <- MCFreqs
  MaxPeriods = 3
  MaxFaults = 1
  ScanLen = 2
  Local = FALSE
  MayStop = {x}
  MayLeave = {y}
INVARIANTS
  OwnSamples
PROPERTIES
  PeriodsGoOn
CHECK_DEADLOCK FALSE
