SPECIFICATION Safety
CONSTANTS
    Cameras = {1, 2}
    Points = {1, 2, 3}
    Boxes <- AllBoxes
    Viewports <- Crossing
    Place <- MCPlace
    Kind <- MCKind
    Cell <- MCCell
    all = all
    dome = dome
    NoFilter = all
    Filters = {all, dome}
    Wide <- MCWide
    Sample = {2}
    PageSize = 1
    Readers = {1, 2}
    MaxChanges = 2
    MaxActs = 1
    NoView = NoView
INVARIANTS ShownIfSettled OneAutoRetry
PROPERTIES AbortedNeverSettles
CHECK_DEADLOCK FALSE
