SPECIFICATION Spec
CONSTANTS
  main = main
  handler = handler
  Clients = {main, handler}
  Senders = {main}
  MayFail = {}
  MaxCalls = 2
  MayCrash = FALSE
  MayMute = FALSE
PROPERTIES OwnAnswer
CHECK_DEADLOCK FALSE
