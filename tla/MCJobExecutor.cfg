\* Two jobs make every conflict over the mutex and over a slot, and two stops a shutdown
\* that follows a crash. The database may fail at any write of an end.
CONSTANTS
    Jobs = {j1, j2}
    NoJob = NoJob
    MaxConcurrent = 1
    StoreMayFail = TRUE
    MaxStops = 2
SPECIFICATION FairSpec
INVARIANTS NoRowForgotten
PROPERTIES FinalUnlessPanic EveryJobSettles ShutdownEnds ImplementsBoard
\* An idle panel whose job ids are used up has nothing left to do.
CHECK_DEADLOCK FALSE
