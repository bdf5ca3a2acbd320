SPECIFICATION Spec
CONSTANTS
  c1 = c1
  c2 = c2
  N_RADARs = 1
  Channels = {c1, c2}
  Rnum <- OnOneRadar
  ScanLen <- ScansOf2
  StartPeriods <- FromFirst
  Par <- OwnPar
  MaxScans = 1
  MayLeave = {c2}
  MayStop = {c1}
  LatePeriods = {}
  Uneven = TRUE
  Preemptible = FALSE
  InTime = FALSE
INVARIANTS TypeOK CommonParameters SetParExclusion TriggeredMatchesState
CHECK_DEADLOCK FALSE
