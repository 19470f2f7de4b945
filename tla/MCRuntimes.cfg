CONSTANTS
    Modes <- AllModes
    PIDs = {p1, p2}
    MaxLaunch = 2
    Undatable = {1}
    MaxCrash = 1
    Bases = 2
    Launchers = {l1, l2}
SPECIFICATION RuntimesSpec
INVARIANTS NoStrangerSignalled StoppedIsGone StoppedStaysStopped OneSetOfChildren
PROPERTIES OnlyStaleReadersForget OperationsEnd EndsWithItsChild
\* With every launch used up and the panel down for good, and with every launcher ended, nothing
\* is left to do.
CHECK_DEADLOCK FALSE
