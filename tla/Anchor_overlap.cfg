SPECIFICATION FairSpec
CONSTANTS
  s1 = s1  s2 = s2
  w1 = w1  w2 = w2
  Networks = {"polygon", "bitcoin"}
  Submitters = {s1}
  Workers = {w1, w2}
  MaxSubmits = 2
  MaxAttempts = 1
  FaultKinds = {"crash", "append", "provider"}
  MaxFaults = 1
INVARIANTS TypeOK ConfirmationIsReal FailureIsRecorded WindowIsFresh
PROPERTIES NeverPendingForever ImplementsLifecycle
CHECK_DEADLOCK FALSE
