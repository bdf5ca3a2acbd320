SPECIFICATION FairSpec
CONSTANTS
  c1 = c1
  c2 = c2
  N_RADARs = 1
  Channels = {c1, c2}
  Rnum <- OnOneRadar
  ScanLen <- ScansOf3
  StartPeriods <- FromFirst
  Par <- SamePar
  MaxScans = 2
  MayLeave = {}
  MayStop = {}
  LatePeriods = {2}
  Uneven = FALSE
  Preemptible = FALSE
  InTime = TRUE
INVARIANTS SwingAgreement RegisteredCount GeneratedForSwing WaitsForNextSwing
PROPERTIES TriggerOnlyWhenReady KeepsPromise
