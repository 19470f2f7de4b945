SPECIFICATION MCSpec
CONSTANTS
    Jobs = {j1, j2}
    NoJob = NoJob
    Worlds = {w1, w2}
    NoWorld = NoWorld
    Escapes = {"status", "stop", "start", "row"}
    MaxVersion = 2
    MaxCrash = 1
INVARIANTS
    QuietWorlds
PROPERTIES
    OldWorldKept
    JobsEnd
