SPECIFICATION MCSpec
CONSTANTS
    small = small
    large = large
    NoPair = NoPair
    luma = luma
    fusion = fusion
    launcher = launcher
    pipeline = pipeline
    Processes <- MCProcesses
    Workers = {1, 2}
    Requests <- MCRequests
    MaxStarts = 2
    MaxIoFailures = 1
    Sizes <- MCSizes
    Textures = {1, 2, 3, 4, 5}
    QueryCapacity = 2
    SampleWindow = 2
    MaxHistory = 2
    MaxFrames = 4
    MaxSettings = 2
    MaxPairs = 3
    MaxFailures = 1
    Cells = {1, 2, 3}
    Near <- MCNear
    Motions = {0, 170}
    Scenes <- MCScenes
    Rise = 25
    Fall = 34
    Full = 100
    MaskLow = 55
    Threshold = 125
    MaxDetections = 7
SYMMETRY Symmetry
INVARIANT BoundFramesKept
INVARIANT PriorContinues
INVARIANT DrawnFieldIsCurrent
INVARIANT DetectorStateAgrees
INVARIANT MeasurementsAccounted
INVARIANT EntriesWhole
INVARIANT BatchReport
INVARIANT MaskIsEarned
INVARIANT QuietIsReleased
CHECK_DEADLOCK FALSE
