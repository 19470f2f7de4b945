\* Four jobs, from clients or the scheduler, in lists of two rows; one schedule with two definitions;
\* two edits, two setups, two updates under one reader, three downloads.
CONSTANTS
    Jobs = {1, 2, 3, 4}
    MaxConcurrent = 1
    MayLoseEnd = FALSE
    Defs <- TwoDefs
    Requested = {"update"}
    ListLimit = 2
    KeyOrder <- SettingsOrder
    Texts <- SettingsTexts
    Numbers <- SettingsNumbers
    Numeric = {"ServerPlayerMaxNum"}
    Edits = {e1, e2}
    Setups = {s1, s2}
    Sources = {official, aliyun}
    Official = official
    Offered = {m1, m2}
    MaxMirrors = 1
    Own = {m0}
    Updates = {u1, u2}
    Talks = {t1}
    AskedSets <- ProviderOrModel
    Fetches = {d1, d2, d3}
    MaxAttempts = 2
SPECIFICATION ServicesSpec
INVARIANTS EditSurvives OnePerType SettingsSurvive PendingTellsStale SetupHolds CalmReadIsWhole DeliveredWhole
\* All jobs may be over and the schedule deleted, and the calls of the others are used up.
CHECK_DEADLOCK FALSE
