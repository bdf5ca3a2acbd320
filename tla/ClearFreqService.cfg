SPECIFICATION FairSpec
CONSTANTS
  main = main
  handler = handler
  Clients = {main, handler}
  Senders = {main}
  MayFail = {main, handler}
  MaxCalls = 2
  MayCrash = TRUE
  MayMute = TRUE
INVARIANTS TypeOK LockExclusion OneSession NeverStopped OneSource RawHasTime
PROPERTIES Answered
CHECK_DEADLOCK FALSE
