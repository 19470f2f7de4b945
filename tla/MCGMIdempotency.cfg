CONSTANTS
    Calls = {c1, c2, c3}
    Keys = {k1, k2}
    Bodies = {b1, b2}
    Targets = {t1}
    None = None
    Capacity = 1
    TTL = 1
    MaxTime = 1
SPECIFICATION FairSpec
INVARIANTS ReplayIsGenuine
PROPERTIES NoRepeatedWrite EveryCallAnswered
\* Requests that were all answered leave nothing to do.
CHECK_DEADLOCK FALSE
