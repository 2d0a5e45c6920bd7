SPECIFICATION FairSpec
CONSTANTS
  t1 = t1  t2 = t2  t3 = t3
  Signers = {1, 2}
  Tabs = {t1, t2}
  TabOf <- OneTabEach
  Owner = {"cancel", "answer"}
  Refusals = {"reject", "change"}
  MaxFaults = 0
  MaxLapses = 0
PROPERTIES AllSignedEnds SignaturesAreAttested TurnComes
CHECK_DEADLOCK FALSE
