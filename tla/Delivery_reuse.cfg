SPECIFICATION Spec
CONSTANTS
    wa = wa
    wb = wb
    tg = tg
    whatsapp = whatsapp
    telegram = telegram
    r1 = r1
    r2 = r2
    c1 = c1
    g1 = g1
    g2 = g2
    None = None
    Campaigns = {c1}
    Generations = {g1}
    Endpoints = {wa, wb, tg}
    Transports = {whatsapp, telegram}
    TransportOf <- SharedTransport
    Keyed = {telegram}
    Reporting = {whatsapp}
    MsgRefs = {r1}
    Cap = 1
    MaxTime = 0
    RefReuse = TRUE
    SingleLoop = FALSE
INVARIANTS NoReportLeftWaiting DeliveryInvariant
