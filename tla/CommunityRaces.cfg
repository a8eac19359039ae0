\* Two evaluators of one record race, under fair scheduling.  Thresholds are scaled to three accounts;
\* all requests carry the same time.
SPECIFICATION FairSpec
CONSTANTS
    a = a  b = b  c3 = c3  cam1 = cam1  cam2 = cam2  cam3 = cam3
    NoOne = NoOne  NoRow = NoRow
    Cameras = {cam1}  Contributors = {a, b, c3}  Requests = {r1, r2}
    InitialOwner <- Unowned  InitialStatus <- AllActive  OtherActive <- Mixed
    Offered = {"confirm", "gone", "privacy"}
    GoneSum = 8  GoneMinDistinct = 2
    ProblemSum = 8  ProblemMinDistinct = 2
    PrivacyMin = 1  PrivacyCooldown = 2
    RestoreHiddenSum = 8  RestoreHiddenMinDistinct = 2
    RestoreRemovedSum = 4  RestoreRemovedMinDistinct = 1
    ActionsPerDay = 5  ActionsPerDayTrusted = 5  PerRecordPerDay = 5  Day = 3
    MaxRequests = 3  MaxClock = 0  CallsCanFail = FALSE
INVARIANTS StatusHasQuorum AuditBalances
PROPERTIES PrivacyTakesEffect
CHECK_DEADLOCK FALSE
