SPECIFICATION Spec
CONSTANTS
  c1 = c1  c2 = c2
  r1 = r1  r2 = r2
  f1 = f1  f2 = f2
  None = None
  Callers = {c1}
  Signers = 2
  Networks <- Bitcoin
  Runs = {r1}
  Closers = {f1}
  MaxAttempts = 2
  MaxFaults = 0
INVARIANTS ProofsAreUnique EvidenceInOrder
CHECK_DEADLOCK FALSE
