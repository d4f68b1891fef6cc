SPECIFICATION Spec
CONSTANTS
    small = small
    large = large
    w1 = w1
    w2 = w2
    None = None
    RendererHistory = 2
    TimelineHistory = 2
    SourceSizes <- MCSizes
    WindowSizes <- MCWindows
    MaxCaptured = 3
    MaxSlots = 2
    MaxEvents = 2
SYMMETRY Symmetry
INVARIANT PresentedAsDrawn
CHECK_DEADLOCK FALSE
