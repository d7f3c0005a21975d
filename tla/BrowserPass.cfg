CONSTANTS
  stateA = stateA
  stateB = stateB
  last = last
  folded = folded
  States <- MCStates
  Oriented <- MCOriented
  Terminal <- MCTerminal
  Gauges <- MCGauges
  None = None
  NoHandle = NoHandle
  RefreshInterval = 3
  MaxDecays = 2
  Hybrid = TRUE
  EvolveCurrent = TRUE
SYMMETRY MCSymmetry
SPECIFICATION Spec
INVARIANTS
  CopiesAgree
  MomentumFollowsState
  ProfilesOfTheResult
PROPERTIES
  EvaluationSpec
