SPECIFICATION Spec
CONSTANTS
  c1 = c1
  c2 = c2
  Channels = {c1, c2}
  ScanLen <- Lengths
  StartPeriods <- Starts
INVARIANTS InOrder
