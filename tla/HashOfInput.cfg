CONSTANTS
  DoubleBuild = TRUE
  FirstJobs <- MCFirstJobs
  LaterJobs <- MCLaterJobs
  Replacements <- MCReplacements
  Formats = {"bin", "nc"}
  MaxJobs = 2
SPECIFICATION Spec
CHECK_DEADLOCK FALSE
INVARIANT HashOfInputSolved
