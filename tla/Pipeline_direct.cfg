SPECIFICATION Spec
CONSTANTS
  c1 = c1  c2 = c2
  r1 = r1  r2 = r2
  f1 = f1  f2 = f2
  None = None
  Callers = {c1, c2}
  Signers = 0
  Networks <- NoNetworks
  Runs = {r1, r2}
  Closers = {f1}
  MaxAttempts = 3
  MaxFaults = 1
SYMMETRY Invocations
INVARIANTS TypeOK ProofsAreUnique StoredEcoIsTimestamped
PROPERTIES UsesLeaseQueue
CHECK_DEADLOCK FALSE
