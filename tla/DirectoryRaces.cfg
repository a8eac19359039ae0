SPECIFICATION Spec
CONSTANTS
    none = none
    lens = lens
    all = all
    dome = dome
    fixed = fixed
    abc = abc
    recent = recent
    position = position
    letterA = letterA
    letterB = letterB
    NoText = none
    Texts = {none, lens}
    Types = {all, dome}
    All = all
    Sorts = {abc, recent, position}
    Alphabetical = abc
    Position = position
    Pages = {1, 2}
    Links <- MCLinks
    MaxActs = 2
    Cameras = {1, 2}
    NoCamera = 0
    TextOf <- MCTextOf
    TypeOf <- MCTypeOf
    Letters = {letterA, letterB}
    NoLetter = NoLetter
    InitialOf <- MCInitialOf
    WalkLimit = 1
    PageLimit = 1
    Retries = 1
    MaxChanges = 1
INVARIANTS DirectoryIsRight RecordIsFound
PROPERTIES PageSettles
CHECK_DEADLOCK FALSE
