SPECIFICATION Spec
CONSTANTS
    MaxRaw = 2
    MaxPending = 2
    Images = {i1, i2}
    None = None
    MaxFrames = 4
    MaxStarts = 2
    MaxFailures = 1
SYMMETRY ImageSymmetry
INVARIANTS QueuesBounded DuplicatesExact WakeupNotLost
PROPERTIES IsChannel CursorNeverHides
CHECK_DEADLOCK FALSE
