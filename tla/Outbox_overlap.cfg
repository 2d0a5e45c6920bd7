SPECIFICATION FairSpec
CONSTANTS
  d1 = d1  d2 = d2
  Sequential = TRUE
  Signers = {1, 2}
  Dispatchers = {d1, d2}
  MaxRetries = 2
  MaxFaults = 2
INVARIANTS TypeOK OneMailPerNotice OneMailPerWindow
PROPERTIES SettledStays TurnNoticeSettles EndedFlowIsCleared
CHECK_DEADLOCK FALSE
