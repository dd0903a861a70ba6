SPECIFICATION Spec
CONSTANTS
    Bands <- MCBands
    Procs = {p1}
    Scenes = {"first", "second"}
    Inputs <- NoThermal
    Region = 2
    SixsBands = 2
    Aots <- MCAots
    Retrieved <- MCRetrieved
    AerosolFill <- MCAerosolFill
    GapFilled <- MCGapFilled
    MayFail = FALSE
    MaxRuns = 1
CHECK_DEADLOCK FALSE
INVARIANT ProcessesWithoutThermal
