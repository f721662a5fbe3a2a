SPECIFICATION Spec
CONSTANTS
    MaxEvents = 5
    MaxEpochs = 3
    MaxCrashes = 3
    NoEvent = NoEvent
INVARIANTS RetainedChainVerifies StaleAnchorIsHeld OneLineage
PROPERTIES AnchorOnlyAdvances CutoverCompletes
