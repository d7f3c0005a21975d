CONSTANTS
  good1 = good1
  good2 = good2
  bad = bad
  NoState = NoState
  State <- MCState
  Oriented <- MCOriented
  MaxIter = 9
  FreeBoundary = FALSE
  StepRecovery = TRUE
  Newton = TRUE
  LambdaOnly = FALSE
  MaxVacSkip = 1
  RefreshInterval = 3
  CheckpointMinAge = 1
  BadProgressMinAge = 2
  BadProgressMinIter = 2
  FirstMaintenance = 2
  SecondMaintenance = 4
  StepRecoveryAge = 2
  NewtonStart = 2
  NewtonPeriod = 1
  NewtonMinEpochAge = 0
SYMMETRY GoodStates
SPECIFICATION FixedSpec
INVARIANTS
  TypeOK
  RestartsFromOriented
  PendingIsCurrent
  CachesRebuilt
  ResidualMatchesState
  MaintenanceNotSkipped
PROPERTIES
  RollbacksReachValidated
  RecoverySpec
