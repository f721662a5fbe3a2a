SPECIFICATION Spec
CONSTANTS
    c1 = c1
    c2 = c2
    Clients = {c1, c2}
    Chunks = 2
    MaxVersion = 3
    MaxCrashes = 2
    MaxEdits = 1
    Desks <- DesksOf
INVARIANT ImportedKeyIsKept
CHECK_DEADLOCK FALSE
