SPECIFICATION FairSpec
CONSTANTS
  c1 = c1  c2 = c2
  r1 = r1  r2 = r2
  f1 = f1  f2 = f2
  None = None
  Callers = {c1}
  Signers = 0
  Networks <- Bitcoin
  Runs = {r1}
  Closers = {f1}
  MaxAttempts = 4
  MaxFaults = 1
PROPERTIES RequestedIsClosed DirectProtectionIsAnchored
CHECK_DEADLOCK FALSE
