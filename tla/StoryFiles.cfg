SPECIFICATION Spec
CONSTANTS
  Procs = {p1, p2}
  None = None
  Bad <- MCBad
  MaxTurns = 2
  MaxFaults = 1
INVARIANT TypeOK
INVARIANT TurnsSurvive
INVARIANT BundleHasCurrentTurn
PROPERTY RecoveryRepairs
CONSTRAINT Clean
PROPERTY DeadLockGoes
CHECK_DEADLOCK FALSE
