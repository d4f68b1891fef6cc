SPECIFICATION Spec
CONSTANTS
    small = small
    large = large
    NoDelay = NoDelay
    MaxHistory = 3
    MinPeriod = 2
    MaxPeriod = 250
    DefaultPeriod = 17
    StallPeriod = 100
    PeriodWeight = 15
    Sizes <- MCSizes
    TargetRate = 12
    RateWindow = 100
    MaxMultiplier = 2
    UnityPercent = 115
    BudgetIncrease = 2
    BudgetDecrease = 1
    MaxBudget = 32
    AlphaResolution = 20
    BufferFloors <- MCFloors
    SlotTicks = 8
    Steps <- MCLongSteps
    CaptureDelays <- MCDelays
    SilenceLimit = 1000
    MaxTime = 1130
    MaxFrames = 3
    MaxResets = 1
SYMMETRY Symmetry
INVARIANTS
    NoBlendAcrossSilence
CHECK_DEADLOCK FALSE
