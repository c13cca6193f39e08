\* A hello of six bytes in up to five frames.
CONSTANTS
    Hello = 6
    MaxFrames = 5
SPECIFICATION Spec
INVARIANT NameWasSent
CHECK_DEADLOCK FALSE
