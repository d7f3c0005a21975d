CONSTANTS
  stateA = stateA
  stateB = stateB
  last = last
  folded = folded
  States <- MCStates
  Oriented <- MCOriented
  Terminal <- MCTerminal
  Factors <- MCFactors
  Shapes <- MCShapes
  Unset = Unset
  None = None
  RefreshInterval = 3
  MaxDecays = 2
  MaxProbes = 1
  Hybrid = TRUE
  EvolveCurrent = TRUE
SPECIFICATION DeviceSpec
INVARIANTS
  ConvergedIsMeasured
PROPERTIES
  PassFactorsSpec
  ReplaySpec
  EvaluationSpec
