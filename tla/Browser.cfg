CONSTANTS
  good1 = good1
  good2 = good2
  bad = bad
  NoState = NoState
  State <- MCState
  Oriented <- MCOriented
  MaxIter = 6
  Stages = 2
  Problems <- MCProblems
  MaxVacSkip = 2
  RefreshInterval = 3
  CheckpointMinAge = 1
  BadProgressMinAge = 2
  BadProgressMinIter = 2
  FirstMaintenance = 2
  SecondMaintenance = 4
  StepRecoveryAge = 2
  NewtonStart = 2
  NewtonPeriod = 1
  NewtonMinEpochAge = 0
SPECIFICATION FairSpec
INVARIANTS
  OnlyMaintenanceOvertakes
  DescentMatchesEvaluation
  DescentTravelsOnce
  PendingVacuumResolved
  PublishedFieldsMatchState
PROPERTIES
  SerialSpec
  Terminates
