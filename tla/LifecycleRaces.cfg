\* Two moderation requests and the evaluator of community votes race on one submitted record;
\* any database call may fail.
SPECIFICATION LifecycleSpec
CONSTANTS
    a = a  b = b  c3 = c3  cam1 = cam1  cam2 = cam2  cam3 = cam3
    NoOne = NoOne  NoRow = NoRow
    Cameras = {cam1}  Contributors = {a, b}  Requests = {r1}
    InitialOwner <- Unowned  InitialStatus <- Submitted  OtherActive <- Level2
    Offered = {"confirm", "gone"}
    GoneSum = 8  GoneMinDistinct = 2
    ProblemSum = 8  ProblemMinDistinct = 2
    PrivacyMin = 1  PrivacyCooldown = 2
    RestoreHiddenSum = 8  RestoreHiddenMinDistinct = 2
    RestoreRemovedSum = 8  RestoreRemovedMinDistinct = 2
    ActionsPerDay = 5  ActionsPerDayTrusted = 5  PerRecordPerDay = 5  Day = 3
    MaxRequests = 2  MaxClock = 0  CallsCanFail = TRUE
    rosa = rosa  sara = sara
    Reviewers = {rosa, sara}  Role <- StaffRole  NoReviewer = NoReviewer
    Decisions = {"approve", "hide", "reject", "escalate"}
    DecisionSlots = {d1, d2}  MaxDecisions = 2
SYMMETRY LifecycleSymmetry
INVARIANTS NoHastyDecision StatusHasCause
PROPERTIES ReversedByConsensus
CHECK_DEADLOCK FALSE
