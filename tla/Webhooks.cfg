SPECIFICATION Spec
CONSTANTS
    b1 = b1
    b2 = b2
    r1 = r1
    r2 = r2
    Bodies = {b1, b2}
    Refs = {r1, r2}
    Parts <- PartsOf
    Carries <- CarriesOf
    MayBe <- MayBeOf
    PageRows = 2
    PagesPerTick = 2
    MaxRows = 4
    MaxFaults = 1
INVARIANTS EveryRowAccounted FinishedRowsAreApplied
PROPERTIES ReportsImplemented AnsweredIsApplied
