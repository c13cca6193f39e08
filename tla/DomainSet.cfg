\* Two patterns of up to three labels.
CONSTANTS
    Letters = {4, 5}
    MaxLabels = 3
    MaxPatterns = 2
SPECIFICATION Spec
INVARIANTS
    HasWhatIsPresent
CHECK_DEADLOCK FALSE
