\* Requests for the mails of one account race, fail and die; another registers.
SPECIFICATION Spec
CONSTANTS
    ann = ann  bob = bob   s1 = s1  s2 = s2
    Members = {ann}  Newcomers = {bob}  NoAccount = NoAccount
    Callers = {s1, s2}
    Limit = 1  Window = 1
    Lifetime = 1  SweepAge = 1  MaxClock = 2  MaxCalls = 3
SYMMETRY Slots
INVARIANTS LogWithinBudget RowsStandForMail DeliveredLinkLives
CHECK_DEADLOCK FALSE
