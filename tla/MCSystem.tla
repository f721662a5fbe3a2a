------------------------------ MODULE MCSystem ------------------------------
(***************************************************************************)
(* The other parts of the installation, side by side.  They keep their     *)
(* state apart and each property is about one of them, so a behaviour in   *)
(* which only one part moves (focus) stands for every interleaving with    *)
(* the others.  Of those the variables are off; Access, Directory,         *)
(* Instagram and Vault, which this module extends, stay as installed.      *)
(***************************************************************************)
EXTENDS PartsProofs, TLC

CONSTANTS
    Clients, Chunks, MaxVersion, MaxCrashes, MaxEdits, Desks, Callers,
    Projects, Peers, Members, Grants, Hard, Uses, PageLimit, MaxReceipts,
    MaxPages, Offers, Troubles, MaxMet, Chats, Logs, WINDOW, Limit, MaxHits,
    MaxSearches, Caps, Jobs, MaxMoves, MaxFaults, Offices, Crews, Tools,
    MaxWrites, MaxSwings, Renters, Parts, MaxFiles, MaxHours, Life, Sizes,
    MaxSlices, Listeners, MaxTurns, Rooms, Setups, Hits, Husks, Views,
    PageLen, ResultMax, Bounds, Gap, FirstRows, Received, MaxStirs, c1, c2,
    rc, q1, q2, p1, p2, x1, x2, x3, d1, s1, s2, g1, g2, l1, r1, r2, a1, a2,
    a3, t1, w1

VARIABLES
    focus, material, slot, seeds, helper, chainEpoch, degraded, dbKey,
    pointer, directory, upload, staged, lock, run, desk, crashes, security,
    policy, client, project, grant, session, selection, leases, call, pages,
    receipts, aged, events, anchored, degradedBy, released, trouble, met,
    log, live, walk, page, moves, misses, office, crew, tool, shared,
    standing, discovered, matrix, writes, errand, swings, tray, taken, used,
    hour, original, fetch, wire, server, told, flight, stream, turns, talk,
    store, swept, goals, wired, able, poller, task, view, hunt, look, stirs

\* A part whose proofs the system uses comes with them.
Keys == INSTANCE CustodyProofs
Disclosures == INSTANCE DisclosureProofs
Pages == INSTANCE Reads
Gateway == INSTANCE Providers
Conversations == INSTANCE Context

ASSUME SystemAssumption ==
    Keys!CustodyConstants /\ Disclosures!DisclosureConstants /\ DirectoryConstants
    /\ InstagramConstants /\ VaultConstants

keysVars == <<material, slot, seeds, helper, chainEpoch, degraded, dbKey, pointer,
    directory, upload, staged, lock, run, desk, crashes>>
disclosuresVars == <<security, policy, client, project, grant, session, selection, leases,
    call, pages, receipts, aged, events, anchored, degradedBy, released,
    trouble, met>>
pagesVars == <<log, live, walk, page, moves, misses>>
gatewayVars == <<office, crew, tool, shared, standing, discovered, matrix, writes, errand,
    swings, tray, taken, used, hour, original, fetch, wire, server, told,
    flight, stream, turns>>
conversationsVars == <<talk, store, swept, goals, wired, able, poller, task, view, hunt, look,
    stirs>>
systemVars == <<focus, keysVars, vars, disclosuresVars, pagesVars, vaultVars,
                instagramVars, directoryVars, gatewayVars, conversationsVars>>

DesksOf == {{"keys", "backup"}, {"credentials", "rekey"}, {"clients"}}
DoorsOf == {{"local"}, {"oauth"}, {"context"}}
MembershipsOf == (p1 :> {x1, x2}) @@ (p2 :> {x2})
GrantsOf ==
    (c1 :> ((p1 :> [cross |-> TRUE, level |-> 2]) @@ (p2 :> [cross |-> TRUE, level |-> 1])))
    @@ (c2 :> ((p1 :> [cross |-> FALSE, level |-> 0]) @@ (p2 :> [level |-> -1])))
OffersOf == {[cross |-> TRUE, level |-> 2], [cross |-> FALSE, level |-> 0]}
TroublesOf == {{"projects"}, {"grants"}, {"scope"}, {"clients"}, {"lock"}, {"session", "faults"},
               {"time", "faults"}}
UsesOf == (c1 :> {"get_messages", "cross_project_search"}) @@ (c2 :> {"list_projects"})
ChatsOf == <<x1, x2, x3>>
LogsOf ==
    (x1 :> <<[at |-> 1, in |-> TRUE], [at |-> 4, in |-> TRUE], [at |-> 5, in |-> TRUE]>>)
    @@ (x2 :> <<[at |-> 2, in |-> FALSE], [at |-> 3, in |-> TRUE]>>)
    @@ (x3 :> <<[at |-> 3, in |-> TRUE]>>)
EnvelopesOf == <<"e1", "e2", "e3", "e4", "e5">>
HoldsOf == [e1 |-> <<"a1", "a2">>, e2 |-> <<"a2", "a3">>, e3 |-> <<>>, e4 |-> <<>>, e5 |-> <<>>]
QualityOf == [e1 |-> "sound", e2 |-> "sound", e3 |-> "aead", e4 |-> "bad_envelope",
               e5 |-> "sound"]
InboundOf == [a1 |-> 1, a2 |-> 2]
ExportsOf == <<<<"m1", "m1", "m2">>, <<"m1", "m3">>, <<"m2", "m1", "m1">>>>
StagesOf == {"publish", "accounts", "pages"}
TradesOf ==
    {{"image", "publish"}, {"child", "carousel", "publish"}, {"hide"}, {"message"}, {"reply"}}
TransportsOf == (t1 :> "telegram") @@ (w1 :> "whatsapp") @@ (g1 :> "whatsapp")
GroupsOf == (q1 :> g1)
CrewsOf == {{"telegram_bot", "telegram_user"}, {"whatsapp_cloud"}}
ToolsOf ==
    {"send", "media", "edit", "delete", "add", "ban", "set", "invite", "create"}
RoomsOf == <<"r1", "r2">>
SetupsOf ==
    {[r1 |-> a, r2 |-> {"telegram_user"}] :
        a \in {{"telegram_user", "telegram_bot"}, {"whatsapp_cloud"}}}
BoundsOf == [requests |-> 4, messages |-> 4]
ReceivedOf == <<2, 3, 1>>

-----------------------------------------------------------------------------
\* A part that does not move.
Off == {}
AccessOff == Init /\ door = CHOOSE d \in Doors : TRUE
DirectoryOff == DirectoryInit /\ place = [l \in Locations |-> NoRow]
WhatsVaultOff == VaultInit /\ ward = CHOOSE w \in Wards : TRUE
InstagramOff == InstagramInit /\ stage = "pages"
KeysOff ==
    /\ material = Off /\ slot = Off /\ seeds = Off /\ helper = Off
    /\ chainEpoch = Off /\ degraded = Off /\ dbKey = Off /\ pointer = Off
    /\ directory = Off /\ upload = Off /\ staged = Off /\ lock = Off
    /\ run = Off /\ desk = Off /\ crashes = Off
DisclosuresOff ==
    /\ security = Off /\ policy = Off /\ client = Off /\ project = Off
    /\ grant = Off /\ session = Off /\ selection = Off /\ leases = Off
    /\ call = Off /\ pages = Off /\ receipts = Off /\ aged = Off
    /\ events = Off /\ anchored = Off /\ degradedBy = Off /\ released = Off
    /\ trouble = Off /\ met = Off
PagesOff ==
    /\ log = Off /\ live = Off /\ walk = Off /\ page = Off /\ moves = Off
    /\ misses = Off
GatewayOff ==
    /\ office = Off /\ crew = Off /\ tool = Off /\ shared = Off
    /\ standing = Off /\ discovered = Off /\ matrix = Off /\ writes = Off
    /\ errand = Off /\ swings = Off /\ tray = Off /\ taken = Off
    /\ used = Off /\ hour = Off /\ original = Off /\ fetch = Off
    /\ wire = Off /\ server = Off /\ told = Off /\ flight = Off
    /\ stream = Off /\ turns = Off
ConversationsOff ==
    /\ talk = Off /\ store = Off /\ swept = Off /\ goals = Off /\ wired = Off
    /\ able = Off /\ poller = Off /\ task = Off /\ view = Off /\ hunt = Off
    /\ look = Off /\ stirs = Off

SystemInit ==
    \/ /\ focus = "Keys" /\ Keys!Init
       /\ AccessOff /\ DisclosuresOff /\ PagesOff /\ WhatsVaultOff
       /\ InstagramOff /\ DirectoryOff /\ GatewayOff /\ ConversationsOff
    \/ /\ focus = "Access" /\ Init
       /\ KeysOff /\ DisclosuresOff /\ PagesOff /\ WhatsVaultOff
       /\ InstagramOff /\ DirectoryOff /\ GatewayOff /\ ConversationsOff
    \/ /\ focus = "Disclosures" /\ Disclosures!Init
       /\ KeysOff /\ AccessOff /\ PagesOff /\ WhatsVaultOff /\ InstagramOff
       /\ DirectoryOff /\ GatewayOff /\ ConversationsOff
    \/ /\ focus = "Pages" /\ Pages!Init
       /\ KeysOff /\ AccessOff /\ DisclosuresOff /\ WhatsVaultOff
       /\ InstagramOff /\ DirectoryOff /\ GatewayOff /\ ConversationsOff
    \/ /\ focus = "WhatsVault" /\ VaultInit
       /\ KeysOff /\ AccessOff /\ DisclosuresOff /\ PagesOff /\ InstagramOff
       /\ DirectoryOff /\ GatewayOff /\ ConversationsOff
    \/ /\ focus = "Instagram" /\ InstagramInit
       /\ KeysOff /\ AccessOff /\ DisclosuresOff /\ PagesOff /\ WhatsVaultOff
       /\ DirectoryOff /\ GatewayOff /\ ConversationsOff
    \/ /\ focus = "Directory" /\ DirectoryInit
       /\ KeysOff /\ AccessOff /\ DisclosuresOff /\ PagesOff /\ WhatsVaultOff
       /\ InstagramOff /\ GatewayOff /\ ConversationsOff
    \/ /\ focus = "Gateway" /\ Gateway!Init
       /\ KeysOff /\ AccessOff /\ DisclosuresOff /\ PagesOff /\ WhatsVaultOff
       /\ InstagramOff /\ DirectoryOff /\ ConversationsOff
    \/ /\ focus = "Conversations" /\ Conversations!Init
       /\ KeysOff /\ AccessOff /\ DisclosuresOff /\ PagesOff /\ WhatsVaultOff
       /\ InstagramOff /\ DirectoryOff /\ GatewayOff

SystemNext ==
    \/ /\ focus = "Keys" /\ Keys!Next
       /\ UNCHANGED <<focus, vars, disclosuresVars, pagesVars, vaultVars,
                      instagramVars, directoryVars, gatewayVars,
                      conversationsVars>>
    \/ /\ focus = "Access" /\ Next
       /\ UNCHANGED <<focus, keysVars, disclosuresVars, pagesVars, vaultVars,
                      instagramVars, directoryVars, gatewayVars,
                      conversationsVars>>
    \/ /\ focus = "Disclosures" /\ Disclosures!Next
       /\ UNCHANGED <<focus, keysVars, vars, pagesVars, vaultVars,
                      instagramVars, directoryVars, gatewayVars,
                      conversationsVars>>
    \/ /\ focus = "Pages" /\ Pages!Next
       /\ UNCHANGED <<focus, keysVars, vars, disclosuresVars, vaultVars,
                      instagramVars, directoryVars, gatewayVars,
                      conversationsVars>>
    \/ /\ focus = "WhatsVault" /\ VaultNext
       /\ UNCHANGED <<focus, keysVars, vars, disclosuresVars, pagesVars,
                      instagramVars, directoryVars, gatewayVars,
                      conversationsVars>>
    \/ /\ focus = "Instagram" /\ InstagramNext
       /\ UNCHANGED <<focus, keysVars, vars, disclosuresVars, pagesVars,
                      vaultVars, directoryVars, gatewayVars,
                      conversationsVars>>
    \/ /\ focus = "Directory" /\ DirectoryNext
       /\ UNCHANGED <<focus, keysVars, vars, disclosuresVars, pagesVars,
                      vaultVars, instagramVars, gatewayVars,
                      conversationsVars>>
    \/ /\ focus = "Gateway" /\ Gateway!Next
       /\ UNCHANGED <<focus, keysVars, vars, disclosuresVars, pagesVars,
                      vaultVars, instagramVars, directoryVars,
                      conversationsVars>>
    \/ /\ focus = "Conversations" /\ Conversations!Next
       /\ UNCHANGED <<focus, keysVars, vars, disclosuresVars, pagesVars,
                      vaultVars, instagramVars, directoryVars, gatewayVars>>

SystemSpec == SystemInit /\ [][SystemNext]_systemVars

\* The people of the directory are alike, and so are the audiences no campaign is
\* aimed at; no other part has them in its constants.
Alike == Permutations({r1, r2}) \cup Permutations({a2, a3})

-----------------------------------------------------------------------------
\* No crash loses a key that something still needs (Custody).
KeysStayUsable == focus = "Keys" => Keys!KeysStayUsable

\* A payload leaves only under the authority of that moment (Disclosure).
ReleasedUnderLiveAuthority == Disclosures!ReleasedUnderLiveAuthority

\* The exposure budget holds (Disclosure).
BudgetHolds == focus = "Disclosures" => Disclosures!BudgetHolds

\* A released payload is in the anchored chain (Disclosure).
ReleaseIsAccounted == focus = "Disclosures" => Disclosures!ReleaseIsAccounted

\* What the pages of a read leave out, they say they leave out (Reads).
ReadsMissNothing == focus = "Pages" => Pages!ReadsMissNothing

\* What the tools say about Telegram and WhatsApp is true (Providers).
ProvidersTellTheTruth == focus = "Gateway" => Gateway!ProvidersTellTheTruth

\* A conversation is read whole, from one source, and searches own up (Context).
ContextIsFaithful == focus = "Conversations" => Conversations!ContextIsFaithful
=============================================================================
