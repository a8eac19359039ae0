SPECIFICATION DeskSpec
CONSTANTS
    rec1 = rec1 rec2 = rec2 rosa = rosa sara = sara ivo = ivo cai = cai dee = dee
    Records = {rec1, rec2}
    Reviewers = {rosa, sara}
    Role <- StaffRole
    NoReviewer = NoReviewer
    InitialStatus <- Statuses0
    Requests = {q1}
    Offered = {"approve"}
    MaxRequests = 1
    CallsCanFail = TRUE
    Contributors = {cai, dee}
    Anonymous = Anonymous
    NoRecord = NoRecord
    InitialOwner <- OwnedByCai
    InitialContent <- Plain
    InitialItems <- ReportAndEdit
    Edits <- DomeOrBearing
    Payloads <- AllPayloads
    Desks = {d1, d2}
    MaxDeskRequests = 2
SYMMETRY DeskSymmetry
INVARIANTS StatusIsLastClaim OneOpenRequest DomeHasNoBearing NoHastyItemDecision
PROPERTIES ItemVerdictsAreFinal ApprovedIsApplied TakedownStands
CHECK_DEADLOCK FALSE
