CONSTANTS
  Writers <- MCWriters
  Library = {"second"}
  Restarted = {"third"}
  Temp <- MCTemp
  Previous = "previous"
SPECIFICATION Spec
CHECK_DEADLOCK FALSE
INVARIANTS
  PathComplete
  SuccessIsDurable
  NoLitter
PROPERTY PublishedSpec
