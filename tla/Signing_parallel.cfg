SPECIFICATION Spec
CONSTANTS
  t1 = t1  t2 = t2  t3 = t3
  Signers = {1, 2}
  Tabs = {t1, t2}
  TabOf <- OneTabEach
  Owner = {}
  Refusals = {}
  MaxFaults = 0
  MaxLapses = 0
INVARIANTS StampsAreKept
CHECK_DEADLOCK FALSE
