SPECIFICATION Spec
CONSTANTS
  t1 = t1  t2 = t2  t3 = t3
  Signers = {1, 2}
  Tabs = {t1, t2}
  TabOf <- OneTabEach
  Owner = {}
  Refusals = {}
  MaxFaults = 1
  MaxLapses = 0
INVARIANTS LastSignerCompletes
CHECK_DEADLOCK FALSE
