SPECIFICATION DeskSpec
CONSTANTS
    rec1 = rec1 rec2 = rec2 rosa = rosa sara = sara ivo = ivo cai = cai dee = dee
    Records = {rec1}
    Reviewers = {rosa, sara}
    Role <- StaffRole
    NoReviewer = NoReviewer
    InitialStatus <- Statuses0
    Requests = {q1}
    Offered = {"approve"}
    MaxRequests = 0
    CallsCanFail = FALSE
    Contributors = {cai, dee}
    Anonymous = Anonymous
    NoRecord = NoRecord
    InitialOwner <- OwnedByCai
    InitialContent <- Plain
    InitialItems <- ReportAndEdit
    Edits <- DomeOrBearing
    Payloads <- ApproveOrReject
    Desks = {d1, d2}
    MaxDeskRequests = 3
PROPERTY ErasureSucceeds
CHECK_DEADLOCK FALSE
