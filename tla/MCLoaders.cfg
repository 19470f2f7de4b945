\* Two jobs of any two kinds, two builds.
CONSTANTS
  Jobs = {j1, j2}
  Nobody = Nobody
  Kinds = {"update", "smart", "install", "restart", "check", "loaders"}
  MaxBuild = 2
SPECIFICATION LoadersSpec
INVARIANTS FilesUnderStopped CommandOnWholeTool
PROPERTIES ReportsAreTrue JobsEnd
\* All jobs may be over.
CHECK_DEADLOCK FALSE
