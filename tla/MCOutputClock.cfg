SPECIFICATION Spec
CONSTANTS
    SlotTicks = 161
    SlotParts = 5
    GainDivisor = 8
    MaximumCorrection = 2
    TolerancePercent = 1
    Steps <- MCSteps
    Refreshes <- MCRefreshes
    Leads <- MCLeads
    VblankAges <- MCVblankAges
    MaxTime = 70
    MaxRejected = 1
    MaxCorrections = 2
INVARIANTS
    SlotsPartitioned
    MissedIsAccounted
PROPERTIES
    CatchesUp
    ServoConverges
