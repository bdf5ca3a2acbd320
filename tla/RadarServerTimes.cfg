SPECIFICATION Spec
CONSTANTS
  c1 = c1
  c2 = c2
  N_RADARs = 1
  Channels = {c1}
  Rnum <- OnOneRadar
  ScanLen <- ScansOf4
  StartPeriods <- FromSecond
  Par <- SamePar
  MaxScans = 1
  MayLeave = {}
  MayStop = {}
  LatePeriods = {2, 3}
  Uneven = TRUE
  Preemptible = FALSE
  InTime = TRUE
INVARIANT PulseTimesMatch
