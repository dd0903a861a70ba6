SPECIFICATION Spec
CONSTANTS
    Bands <- MCBands
    Procs = {p1, p2}
    Scenes = {"first", "second"}
    Inputs <- MCInputs
    Region = 2
    SixsBands = 2
    Aots <- MCAots
    Retrieved <- MCRetrieved
    AerosolFill <- MCAerosolFill
    GapFilled <- MCGapFilled
    MayFail = TRUE
    MaxRuns = 3
CONSTRAINT Bound
CHECK_DEADLOCK FALSE
INVARIANTS
    TypeOK
    InputsAccounted
    OwnTables
    MasksInPlace
    PublishedWhole
