SPECIFICATION FairSpec
CONSTANTS
    MaxRaw = 1
    MaxPending = 2
    Images = {i1}
    None = None
    MaxFrames = 3
    MaxStarts = 2
    MaxFailures = 1
PROPERTIES FramesLeave
CHECK_DEADLOCK FALSE
