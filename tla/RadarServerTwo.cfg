SPECIFICATION Spec
CONSTANTS
  c1 = c1
  c2 = c2
  N_RADARs = 2
  Channels = {c1, c2}
  Rnum <- OnTwoRadars
  ScanLen <- OneCamps
  StartPeriods <- FromFirst
  Par <- SamePar
  MaxScans = 5
  MayLeave = {c1}
  MayStop = {}
  LatePeriods = {2}
  Uneven = TRUE
  Preemptible = FALSE
  InTime = TRUE
INVARIANTS RadarsOfChannelsActive DeliveredPeriod
CHECK_DEADLOCK FALSE
