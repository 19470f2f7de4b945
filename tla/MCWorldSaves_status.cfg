\* The runtime may answer "error" for a server that is alive.
SPECIFICATION Spec
CONSTANTS
    Jobs = {j1}
    NoJob = NoJob
    Worlds = {w1}
    NoWorld = NoWorld
    Escapes = {"status"}
    MaxVersion = 2
    MaxCrash = 0
INVARIANT
    WorldsAreFree
