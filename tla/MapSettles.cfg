SPECIFICATION Spec
CONSTANTS
    Cameras = {1}
    Points = {1, 2, 3}
    Boxes <- TwoBoxes
    Viewports <- Panning
    Place <- MCPlace
    Kind <- MCKind
    Cell <- MCCell
    all = all
    dome = dome
    NoFilter = all
    Filters = {all, dome}
    Wide = {}
    Sample = {}
    PageSize = 1
    Readers = {1, 2}
    MaxChanges = 1
    MaxActs = 2
    NoView = NoView
PROPERTIES SettlesInTheEnd LandingResolves
CHECK_DEADLOCK FALSE
