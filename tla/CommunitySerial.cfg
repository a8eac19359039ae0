\* One request at a time: the handler keeps every promise of the decision record.
SPECIFICATION Spec
CONSTANTS
    a = a  b = b  c3 = c3  cam1 = cam1  cam2 = cam2  cam3 = cam3
    NoOne = NoOne  NoRow = NoRow
    Cameras = {cam1}  Contributors = {a, b, c3}  Requests = {r1}
    InitialOwner <- Unowned  InitialStatus <- AllActive  OtherActive <- Level1
    Offered = {"confirm", "gone", "problem", "privacy"}
    GoneSum = 8  GoneMinDistinct = 2
    ProblemSum = 4  ProblemMinDistinct = 1
    PrivacyMin = 1  PrivacyCooldown = 2
    RestoreHiddenSum = 8  RestoreHiddenMinDistinct = 2
    RestoreRemovedSum = 4  RestoreRemovedMinDistinct = 1
    ActionsPerDay = 5  ActionsPerDayTrusted = 5  PerRecordPerDay = 5  Day = 3
    MaxRequests = 4  MaxClock = 2  CallsCanFail = FALSE
SYMMETRY Symmetry
PROPERTIES KeepsPromise
CHECK_DEADLOCK FALSE
