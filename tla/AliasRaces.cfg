\* Two toggles and two community actions race for the same rows, under small quotas;
\* any database call may fail.
SPECIFICATION AliasSpec
CONSTANTS
    a = a  b = b  c3 = c3  cam1 = cam1  cam2 = cam2  cam3 = cam3
    NoOne = NoOne  NoRow = NoRow
    Cameras = {cam1, cam2}  Contributors = {a, b, c3}  Requests = {r1, r2}
    InitialOwner <- Owned  InitialStatus <- AllActive  OtherActive <- Level2
    Offered = {"confirm", "like"}
    GoneSum = 8  GoneMinDistinct = 2
    ProblemSum = 4  ProblemMinDistinct = 1
    PrivacyMin = 1  PrivacyCooldown = 2
    RestoreHiddenSum = 8  RestoreHiddenMinDistinct = 2
    RestoreRemovedSum = 4  RestoreRemovedMinDistinct = 1
    ActionsPerDay = 1  ActionsPerDayTrusted = 2  PerRecordPerDay = 1  Day = 3
    MaxRequests = 3  MaxClock = 1  CallsCanFail = TRUE
    Toggles = {t1, t2}  LevelGateMin = 1  ConfirmationsPerDay = 5  ConfirmationsPerRecord = 1
    ReviewDueAt <- DueAtStart
SYMMETRY RequestSymmetry
INVARIANT SharedCapHolds
CHECK_DEADLOCK FALSE
