SPECIFICATION RetentionSpec
CONSTANTS
    rec1 = rec1  rosa = rosa  sara = sara  sven = sven  ada = ada
    Records = {rec1}
    Reviewers = {sara, ada}
    Role <- StaffRole
    NoReviewer = NoReviewer
    InitialStatus <- Reported
    Requests = {r1}
    Offered = {"approve", "reject"}
    MaxRequests = 1
    CallsCanFail = TRUE
    Appellants = {p1}
    Slots = {s1, s2}
    AppealLimit = 2
    MaxAppealRequests = 3
    PendingAge = 1
    RejectedAge = 0
    ArchiveAge = 1
    ChunkSize = 2
    MaxTime = 2
    MaxHolds = 2
SYMMETRY RetentionSymmetry
INVARIANTS ContestedStays TrailOfTheRest
PROPERTIES VerdictsAreFinal UpheldIsReviewed ProtectedBeforeSweep PurgeIsFinal
CHECK_DEADLOCK FALSE
