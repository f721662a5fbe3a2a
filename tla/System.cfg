SPECIFICATION SystemSpec
CONSTANTS
    c1 = c1
    c2 = c2
    Clients = {c1, c2}
    Chunks = 2
    MaxVersion = 3
    MaxCrashes = 2
    MaxEdits = 1
    Desks <- DesksOf
    rc = rc
    q1 = q1
    q2 = q2
    Doors <- DoorsOf
    Local = {c1}
    Remote = rc
    Requests = {q1, q2}
    MaxApprovals = 1
    MaxTokens = 3
    MaxCuts = 2
    p1 = p1
    p2 = p2
    x1 = x1
    x2 = x2
    Callers = {c1, c2}
    Projects = {p1, p2}
    Peers = {x1, x2}
    Members <- MembershipsOf
    Grants <- GrantsOf
    Hard = 2
    PageLimit = 1
    MaxPages = 1
    Offers <- OffersOf
    Troubles <- TroublesOf
    Uses <- UsesOf
    MaxReceipts = 2
    MaxMet = 2
    x3 = x3
    Chats <- ChatsOf
    Logs <- LogsOf
    WINDOW = 2
    Limit = 2
    MaxHits = 3
    MaxSearches = 2
    Caps = {2, 3}
    Jobs = {"search", "list", "history", "context"}
    MaxMoves = 1
    MaxFaults = 2
    d1 = d1
    s1 = s1
    s2 = s2
    g1 = g1
    g2 = g2
    Wards = {"send", "mark", "ingest", "import", "grants", "setup"}
    Devices = {d1}
    Bodies = {"b1"}
    Nonces = {"k1"}
    Senders = {s1, s2}
    Window = 1
    TTL = 1
    MaxNow = 2
    MaxDrafts = 1
    MaxUses = 1
    Envelopes <- EnvelopesOf
    Holds <- HoldsOf
    Quality <- QualityOf
    Inbound <- InboundOf
    Lease = 2
    Exports <- ExportsOf
    GrantRequests = {g1, g2}
    MaxPairs = 3
    MaxUpsets = 1
    Stages <- StagesOf
    Owners = {"o1", "o2"}
    Writable = {"o1"}
    MaxAsks = 3
    Trades <- TradesOf
    CONTAINER_BUDGET = 2
    Aliases = {"al1", "al2"}
    Users = {"u1", "u2"}
    Feeds = {"media_list", "tag_list"}
    PageSize = 2
    MaxFeed = 5
    LOOKBACK = 2
    MaxThread = 3
    MaxStops = 1
    MaxDays = 1
    l1 = l1
    r1 = r1
    r2 = r2
    a1 = a1
    a2 = a2
    a3 = a3
    t1 = t1
    w1 = w1
    NoRow = NoRow
    Locations = {l1}
    Recipients = {r1, r2}
    Audiences = {a1, a2, a3}
    Identities = {t1, w1}
    Groups = {g1}
    TransportOf <- TransportsOf
    Creations = {q1}
    GroupOf <- GroupsOf
    Targets = {{a1}, {a1, l1}}
    MaxPoints = 2
    MaxSpots = 2
    MaxChanges = 4
    Offices = {"writes", "files", "download", "session"}
    Crews <- CrewsOf
    Tools <- ToolsOf
    MaxWrites = 1
    MaxSwings = 1
    Renters = {"n1", "n2"}
    Parts = 2
    MaxFiles = 2
    MaxHours = 2
    Life = 2
    Sizes = {1, 2, 4}
    MaxSlices = 3
    Listeners = {"n3", "n4"}
    MaxTurns = 6
    Rooms <- RoomsOf
    Setups <- SetupsOf
    Hits = {1, 3, 4, 6}
    Husks = {3}
    Views = {"recent", "from", "members", "join_requests", "topics", "invites", "admin_log", "search", "around", "get", "poll"}
    PageLen = 2
    ResultMax = 3
    Bounds <- BoundsOf
    Gap = 10
    FirstRows = 4
    Received <- ReceivedOf
    MaxStirs = 1
INVARIANTS
    KeysStayUsable
    GrantsStaySingle
    AcceptedIsCurrent
    BudgetHolds
    ReleaseIsAccounted
    ReadsMissNothing
    VaultKeepsItsWord
    InstagramKeepsCount
    DirectoryStaysSound
    ProvidersTellTheTruth
    ContextIsFaithful
PROPERTIES
    ReleasedUnderLiveAuthority
SYMMETRY Alike
CHECK_DEADLOCK FALSE
