SPECIFICATION Spec
CONSTANTS
  t1 = t1  t2 = t2  t3 = t3
  Signers = {1, 2}
  Tabs = {t1, t2, t3}
  TabOf <- SecondTab
  Owner = {"cancel"}
  Refusals = {}
  MaxFaults = 1
  MaxLapses = 1
INVARIANTS TypeOK 
PROPERTIES ImplementsRound
CHECK_DEADLOCK FALSE
