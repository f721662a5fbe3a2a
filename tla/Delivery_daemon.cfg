SPECIFICATION Spec
CONSTANTS
    wa = wa
    wb = wb
    tg = tg
    whatsapp = whatsapp
    telegram = telegram
    r1 = r1
    r2 = r2
    c1 = c1
    g1 = g1
    g2 = g2
    None = None
    Campaigns = {c1}
    Generations = {g1}
    Endpoints = {wa, tg}
    Transports = {whatsapp, telegram}
    TransportOf <- TwoTransports
    Keyed = {telegram}
    Reporting = {whatsapp}
    MsgRefs = {r1, r2}
    Cap = 2
    MaxTime = 0
    RefReuse = FALSE
    SingleLoop = TRUE
SYMMETRY RefSymmetry
INVARIANTS TypeOK UnsentClaimsAreTrue NoDuplicateMessage NoPhantomSuccess SummaryIsDerived TrailIsFaithful NoOrphanInFlight
PROPERTIES JobsOnlyClimb
