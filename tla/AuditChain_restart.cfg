SPECIFICATION Spec
CONSTANTS
    MaxEvents = 4
    MaxEpochs = 3
    MaxCrashes = 2
    NoEvent = NoEvent
PROPERTY CleanAnchorStartsReady
