----------------------------- MODULE Disclosure -----------------------------
(***************************************************************************)
(* The governed Telegram reads (transports/telegram/disclosure, authority, *)
(* ipc/handlers): a client's call takes a snapshot of what the owner lets  *)
(* it see, reserves its worst case in the exposure budget, awaits the      *)
(* retrieval, looks at the authority again, and then in one stretch writes *)
(* the receipt, the ledger rows and the audit event, moves the anchor and  *)
(* releases the payload.                                                   *)
(*                                                                         *)
(* The await is where everything else happens: the owner edits projects,   *)
(* grants and scope, locks, logs in again or revokes the session, another  *)
(* client's disclosure commits, an anchor write fails, the daemon stops.   *)
(* SensitiveDispatcher lets one disclosure of a client run at a time.      *)
(* A record is the peer it comes from; records stand for both quantities   *)
(* of the budget, which the code treats alike.                             *)
(***************************************************************************)
EXTENDS Integers, Sequences, FiniteSets, FiniteSetsExt, SequencesExt

CONSTANTS
    Callers,      \* registered clients
    Projects,     \* projects of the account
    Peers,        \* chats of the account
    Members,      \* project_peers at the start, by project
    Grants,       \* client_projects at the start, by client and project
    Hard,         \* exposure_budget.hard_records of either kind of bucket
    Uses,         \* the tools each client calls
    PageLimit,    \* the limit a call asks for
    MaxReceipts,  \* bound: committed disclosures
    MaxPages,     \* bound: live cursors
    Offers,       \* bound: the grants the owner gives
    Troubles,     \* bound: the kinds of command and fault that meet in one behaviour
    MaxMet        \* bound: commands of the owner, failing anchor writes and stops

VARIABLES
    security,   \* security_state
    policy,     \* policy_state and peer_policy
    client,     \* mcp_clients.enabled
    project,    \* projects and project_peers
    grant,      \* client_projects
    session,    \* telegram.session_state
    selection,  \* DiscoveryStore: the policy epoch of the one live snapshot (0: none)
    leases,     \* the security epoch of the lease each client presents (0: none)
    call,       \* the disclosure a client has in flight
    pages,      \* CursorStore
    receipts,   \* disclosure_receipts, with the ledger rows of each
    aged,       \* how many receipts have left the rolling window
    events,     \* the legacy chain
    anchored,   \* the event the anchor file names
    degradedBy, \* the degraded latch: off, or the disclosure it withheld (0: none)
    released,   \* ground truth: receipts whose payload was handed to the client
    trouble,    \* what this behaviour meets, fixed
    met         \* how many of them so far

vars == <<security, policy, client, project, grant, session, selection, leases, call, pages,
          receipts, aged, events, anchored, degradedBy, released, trouble, met>>
authority == <<security, policy, client, project, grant, session>>
account == <<receipts, aged, events, anchored, degradedBy, released>>
memory == <<selection, leases, call, pages>>
bounds == <<trouble, met>>

-----------------------------------------------------------------------------
GovernedTools == {"list_projects", "get_messages", "cross_project_search"}
Levels == 0..2       \* metadata_only, excerpt, full_text
Grant == [cross : BOOLEAN, level : Levels]
NoGrant == [level |-> -1]
Idle == [tool |-> "none"]
FirstPage == [tool |-> "first"]
Off == -1
GLOBAL == "client_global"
Buckets == {GLOBAL} \cup Projects

Item == [of : Peers \cup Projects, tool : GovernedTools, from : SUBSET Projects,
         level : Levels, charged : SUBSET Projects]
Event == [kind : {"disclosure", "repair", "admin"}, ref : Nat]

TypeOK ==
    /\ security \in [epoch : Nat, locked : BOOLEAN]
    /\ policy \in [epoch : Nat, mode : {"allowlist", "all_cloud_chats"},
                   decision : [Peers -> {"none", "allow", "deny"}]]
    /\ client \in [Callers -> BOOLEAN]
    /\ project \in [Projects -> [enabled : BOOLEAN, epoch : Nat, members : SUBSET Peers]]
    /\ grant \in [Callers -> [Projects -> Grant \cup {NoGrant}]]
    /\ session \in {"active", "revoking", "logged_out"}
    /\ selection \in Nat /\ leases \in [Callers -> Nat]
    /\ DOMAIN call = Callers
    /\ \A c \in Callers : call[c] = Idle \/ call[c].tool \in GovernedTools
    /\ receipts \in Seq([client : Callers, items : SUBSET Item])
    /\ Len(receipts) <= MaxReceipts /\ aged \in 0..Len(receipts)
    /\ events \in Seq(Event)
    /\ anchored \in 0..Len(events) /\ degradedBy \in {Off} \cup 0..Len(receipts)
    /\ released \subseteq DOMAIN receipts
    /\ trouble \in Troubles /\ met \in 0..MaxMet

Init ==
    /\ security = [epoch |-> 1, locked |-> FALSE]
    /\ policy = [epoch |-> 1, mode |-> "all_cloud_chats", decision |-> [x \in Peers |-> "none"]]
    /\ client = [c \in Callers |-> TRUE]
    /\ project = [p \in Projects |-> [enabled |-> TRUE, epoch |-> 1, members |-> Members[p]]]
    /\ grant = Grants
    /\ session = "active" /\ selection = 0
    /\ leases = [c \in Callers |-> 1] /\ call = [c \in Callers |-> Idle] /\ pages = {}
    /\ receipts = <<>> /\ aged = 0 /\ events = <<>> /\ anchored = 0
    /\ degradedBy = Off /\ released = {} /\ trouble \in Troubles /\ met = 0

-----------------------------------------------------------------------------
\* Authority (authority/policy.py): every layer must let the request through.

\* evaluate with operation discover.
discover(c, refs) ==
    /\ client[c]
    /\ \A p \in refs : project[p].enabled /\ grant[c][p] # NoGrant

owner_allows(x) ==
    /\ policy.decision[x] # "deny"
    /\ policy.mode = "allowlist" => policy.decision[x] = "allow"

readable_members(c, p) ==
    {x \in project[p].members : discover(c, {p}) /\ owner_allows(x)}

\* list_projects_scope_entries: the projects a client's catalogue shows.
visible(c) == {p \in Projects : project[p].enabled /\ grant[c][p] # NoGrant}

\* What project_scope_digest digests.
scope_entries(c, refs) == [p \in refs |-> [epoch |-> project[p].epoch, grant |-> grant[c][p]]]

Refs(c, tool, refs) == IF tool = "list_projects" THEN visible(c) ELSE refs

snapshot(c, tool, refs) ==
    LET all == Refs(c, tool, refs) IN
    [tool |-> tool, refs |-> all,
     security |-> security.epoch, policy |-> policy.epoch,
     scope |-> scope_entries(c, all),
     readable |-> [p \in all |-> IF tool = "list_projects" THEN {} ELSE readable_members(c, p)]]

\* The snapshot's own refusals: the gate, the lock, the evaluator, can_cross_search.
served(c, tool, refs) ==
    /\ tool # "list_projects" => session = "active"
    /\ ~security.locked
    /\ discover(c, Refs(c, tool, refs))
    /\ tool = "cross_project_search" => \A p \in refs : grant[c][p].cross

\* Mutant: a look again that only compares the epochs.
revalidate_epochs(c, s) ==
    /\ ~security.locked /\ security.epoch = s.security
    /\ discover(c, s.refs)
    /\ policy.epoch = s.policy

revalidate(c, s) ==
    /\ ~security.locked /\ security.epoch = s.security
    /\ IF s.tool = "list_projects" THEN discover(c, {}) ELSE discover(c, s.refs)
    /\ policy.epoch = s.policy
    /\ s.scope = scope_entries(c, Refs(c, s.tool, s.refs))
    /\ s.tool # "list_projects" => \A p \in s.refs : s.readable[p] = readable_members(c, p)

-----------------------------------------------------------------------------
\* Cursors (authority/cursors.py), bound to who asked, what, and under which
\* authority; they and the leases die with the runtime.

cursor(c, s) == [client |-> c, snap |-> s]

\* Identity and query; a mismatch leaves the row alone.
matches(k, c, tool, refs) ==
    k.client = c /\ k.snap.tool = tool /\ (tool # "list_projects" => k.snap.refs = refs)

\* Epochs and scope; a mismatch deletes the row.
check_cursor(k, s) ==
    k.snap.security = s.security /\ k.snap.policy = s.policy /\ k.snap.scope = s.scope

present_stale(c, k) ==
    /\ call[c] = Idle /\ leases[c] = security.epoch /\ degradedBy = Off
    /\ k.client = c /\ served(c, k.snap.tool, k.snap.refs)
    /\ ~check_cursor(k, snapshot(c, k.snap.tool, k.snap.refs))
    /\ pages' = pages \ {k}
    /\ UNCHANGED <<authority, account, selection, leases, call, bounds>>

-----------------------------------------------------------------------------
\* The exposure budget (disclosure/budget.py).

\* Records of a disclosure that count against a bucket.
counted(items, b) == {i \in items : b = GLOBAL \/ b \in i.charged}

\* The ledger's rows of some disclosures, as a bucket counts them.
exposure(ns, b) == UNION {{n} \X counted(receipts[n].items, b) : n \in ns}

committed_usage(c, b) ==
    Cardinality(exposure({n \in aged + 1..Len(receipts) : receipts[n].client = c}, b))

\* worst_case_buckets: the limit in every bucket the payload could touch.
worst_case(s, b) ==
    IF s.tool = "list_projects" THEN IF b = GLOBAL THEN Cardinality(s.refs) ELSE 0
    ELSE IF b = GLOBAL \/ b \in s.refs THEN PageLimit ELSE 0

live_usage(c, b) == IF call[c] # Idle /\ call[c].reserved THEN worst_case(call[c].snap, b) ELSE 0

\* Mutant: a tier that looks at what was disclosed so far and not at the call itself.
refuses_late(c, s, b) == committed_usage(c, b) + live_usage(c, b) >= Hard

refuses(c, s, b) == committed_usage(c, b) + live_usage(c, b) + worst_case(s, b) >= Hard

\* Time: a reservation lapses after its TTL; a receipt leaves the window.
lapse(c) ==
    /\ "time" \in trouble /\ call[c] # Idle /\ call[c].reserved
    /\ call' = [call EXCEPT ![c].reserved = FALSE]
    /\ UNCHANGED <<authority, account, selection, leases, pages, bounds>>

age ==
    /\ "time" \in trouble /\ aged < Len(receipts) /\ aged' = aged + 1
    /\ UNCHANGED <<authority, receipts, events, anchored, degradedBy, released, memory,
                   bounds>>

-----------------------------------------------------------------------------
\* The disclosure (disclosure/coordinator.py).

\* auth_headers_handler: a lease under the current epoch, for an enabled client.
mint_lease(c) ==
    /\ client[c] /\ leases[c] # security.epoch
    /\ leases' = [leases EXCEPT ![c] = security.epoch]
    /\ UNCHANGED <<authority, account, selection, call, pages, bounds>>

\* disclose up to its await: latch, snapshot, cursor, budget, reservation.
disclose(c, tool, refs, k) ==
    LET s == snapshot(c, tool, refs) IN
    /\ call[c] = Idle /\ leases[c] = security.epoch /\ degradedBy = Off
    /\ Len(receipts) + Cardinality({d \in Callers : call[d] # Idle}) < MaxReceipts
    /\ served(c, tool, refs)
    /\ k # FirstPage => matches(k, c, tool, refs) /\ check_cursor(k, s)
    /\ \A b \in Buckets : worst_case(s, b) > 0 => ~refuses(c, s, b)
    /\ call' = [call EXCEPT ![c] = [tool |-> tool, snap |-> s, reserved |-> TRUE, from |-> k]]
    /\ UNCHANGED <<authority, account, selection, leases, pages, bounds>>

\* What a retrieval may bring back.  Telegram's live facts decide which readable
\* chats are admitted (admit_live), so any choice of them may be.
found(s) == IF s.tool = "list_projects" THEN s.refs ELSE UNION {s.readable[p] : p \in s.refs}
origins(s, x) ==
    IF s.tool = "list_projects" THEN {x} ELSE {p \in s.refs : x \in s.readable[p]}

\* apply_egress: the most restrictive grant among the record's origins.
egress(s, x) ==
    IF s.tool = "list_projects" THEN 0 ELSE Min({s.scope[p].grant.level : p \in origins(s, x)})

item(s, x) ==
    [of |-> x, tool |-> s.tool, from |-> origins(s, x), level |-> egress(s, x),
     charged |-> IF s.tool = "list_projects" THEN {} ELSE origins(s, x)]

\* A page that is not the last mints its cursor under the snapshot, before the
\* authority is looked at again.
next_cursor(c, s) ==
    /\ pages' \in {pages, pages \cup {cursor(c, s)}}
    /\ Cardinality(pages') <= MaxPages

\* The retrieval fails or the call is cancelled: the reservation is released.
abandon(c) ==
    /\ call[c] # Idle
    /\ call' = [call EXCEPT ![c] = Idle]
    /\ UNCHANGED <<authority, account, selection, leases, pages, bounds>>

\* The retrieval came back and the authority had moved.
withdraw(c) ==
    /\ call[c] # Idle /\ ~revalidate(c, call[c].snap)
    /\ call' = [call EXCEPT ![c] = Idle] /\ next_cursor(c, call[c].snap)
    /\ UNCHANGED <<authority, account, selection, leases, bounds>>

\* The transaction: receipt, ledger rows, event.
commit(c, rows) ==
    LET s == call[c].snap IN
    /\ call[c] # Idle /\ revalidate(c, s)
    /\ rows \subseteq found(s)
    /\ IF s.tool = "list_projects" THEN rows = s.refs ELSE Cardinality(rows) <= PageLimit
    /\ receipts' = Append(receipts, [client |-> c, items |-> {item(s, x) : x \in rows}])
    /\ events' = Append(events, [kind |-> "disclosure", ref |-> Len(receipts')])

\* Mutant: a release that does not wait for the anchor.
release_first(n, ok) ==
    /\ released' = released \cup {n}
    /\ anchored' = IF ok THEN Len(events') ELSE anchored
    /\ degradedBy' = IF ok THEN degradedBy ELSE n

\* refresh_anchor, then the release; a failure latches and withholds.
release(n, ok) ==
    /\ released' = IF ok THEN released \cup {n} ELSE released
    /\ anchored' = IF ok THEN Len(events') ELSE anchored
    /\ degradedBy' = IF ok THEN degradedBy ELSE n

Fault(yes) ==
    IF yes THEN "faults" \in trouble /\ met < MaxMet /\ met' = met + 1 ELSE met' = met

finish(c, rows) ==
    /\ commit(c, rows)
    /\ \E ok \in BOOLEAN : release(Len(receipts'), ok) /\ Fault(~ok)
    /\ call' = [call EXCEPT ![c] = Idle] /\ next_cursor(c, call[c].snap)
    /\ UNCHANGED <<authority, aged, selection, leases, trouble>>

\* A stop loses what the process kept; one after the commit has charged and
\* recorded a payload that nobody gets.
restart ==
    /\ Fault(TRUE)
    /\ \/ UNCHANGED <<receipts, events>>
       \/ \E c \in Callers : \E rows \in SUBSET (Peers \cup Projects) : commit(c, rows)
    /\ selection' = 0 /\ leases' = [c \in Callers |-> 0]
    /\ call' = [c \in Callers |-> Idle] /\ pages' = {}
    \* finish_revocation converges an interrupted revocation.
    /\ session' = IF session = "revoking" THEN "logged_out" ELSE session
    /\ UNCHANGED <<security, policy, client, project, grant, aged, anchored, degradedBy,
                   released, trouble>>

\* repair_anchor: to the verified head, then the repair event, then over it, then
\* the latch.  It may be cut off after any of these (far).
repair_anchor(far) ==
    /\ Len(events) = anchored + 1
    /\ Fault(far < 4)
    /\ events' = IF far = 1 THEN events
                 ELSE Append(events, [kind |-> "repair",
                                      ref |-> IF degradedBy = Off THEN 0 ELSE degradedBy])
    /\ anchored' = CASE far = 1 -> Len(events) [] far = 2 -> Len(events) [] OTHER -> Len(events')
    /\ degradedBy' = IF far = 4 THEN Off ELSE degradedBy
    /\ UNCHANGED <<authority, receipts, aged, released, memory, trouble>>

-----------------------------------------------------------------------------
\* The owner's commands (ipc/handlers), each one transaction.

Change(kind) ==
    /\ kind \in trouble /\ UNCHANGED trouble
    /\ UNCHANGED <<receipts, aged, released, pages>>
Unaudited ==
    /\ met < MaxMet /\ met' = met + 1
    /\ UNCHANGED <<events, anchored, degradedBy>>
OfProject ==
    Change("projects") /\ Unaudited
    /\ UNCHANGED <<security, policy, client, grant, session, selection, leases, call>>
OfGrant ==
    Change("grants") /\ Unaudited
    /\ UNCHANGED <<security, policy, client, project, session, selection, leases, call>>

\* enable, disable, rename: a new project epoch.
set_enabled(p) ==
    /\ OfProject
    /\ project' = [project EXCEPT ![p].enabled = ~@, ![p].epoch = @ + 1]

rename(p) ==
    /\ OfProject
    /\ project' = [project EXCEPT ![p].epoch = @ + 1]

\* grant-client, set-egress, cross-search, revoke-client: no epoch moves.
grant_client(c, p, g) ==
    /\ OfGrant
    /\ g # grant[c][p]
    /\ grant' = [grant EXCEPT ![c][p] = g]

set_egress(c, p, level) ==
    /\ OfGrant
    /\ grant[c][p] # NoGrant /\ grant[c][p].level # level
    /\ grant' = [grant EXCEPT ![c][p].level = level]

cross_search(c, p) ==
    /\ OfGrant
    /\ grant[c][p] # NoGrant
    /\ grant' = [grant EXCEPT ![c][p].cross = ~@]

revoke_grant(c, p) ==
    /\ OfGrant
    /\ grant[c][p] # NoGrant
    /\ grant' = [grant EXCEPT ![c][p] = NoGrant]

\* scope discover: one live selection, of the policy epoch read before its scan;
\* one whose epoch has moved since is as good as none.
scope_discover ==
    /\ trouble \cap {"scope", "projects"} # {}
    /\ selection' \in {policy.epoch, 0} /\ selection' # selection
    /\ UNCHANGED <<authority, account, leases, call, pages, bounds>>

\* A member is added from a selection, or removed by its handle.
add_peer(p, x) ==
    /\ OfProject
    /\ selection = policy.epoch /\ x \notin project[p].members
    /\ project' = [project EXCEPT ![p].members = @ \cup {x}, ![p].epoch = @ + 1]

remove_peer(p, x) ==
    /\ OfProject
    /\ x \in project[p].members
    /\ project' = [project EXCEPT ![p].members = @ \ {x}, ![p].epoch = @ + 1]

OfPolicy ==
    Change("scope") /\ Unaudited
    /\ UNCHANGED <<security, client, project, grant, session, leases, call>>

scope_mode ==
    /\ OfPolicy /\ UNCHANGED selection
    /\ \E m \in {"allowlist", "all_cloud_chats"} :
          policy' = [policy EXCEPT !.mode = m, !.epoch = @ + 1]

\* allow, deny and remove take a chat from the live selection and end it.
scope_decide(x, d) ==
    /\ OfPolicy
    /\ selection = policy.epoch /\ selection' = 0
    /\ d = "none" => policy.decision[x] # "none"
    /\ policy' = [policy EXCEPT !.decision[x] = d, !.epoch = @ + 1]

OfClient(kind) ==
    Change(kind) /\ Unaudited /\ UNCHANGED <<policy, project, grant, selection, call>>

client_disable(c) ==
    /\ OfClient("clients") /\ client' = [client EXCEPT ![c] = FALSE]
    /\ UNCHANGED <<security, session, leases>>

\* rotate: a new seed, so the lease of the old one no longer verifies.
client_rotate(c) ==
    /\ OfClient("clients")
    /\ client' = [client EXCEPT ![c] = TRUE] /\ leases' = [leases EXCEPT ![c] = 0]
    /\ UNCHANGED <<security, session>>

\* revoke_client_auth: the cutover's step.
revoke_client_auth ==
    /\ OfClient("clients")
    /\ client' = [c \in Callers |-> FALSE] /\ security' = [security EXCEPT !.epoch = @ + 1]
    /\ leases' = [c \in Callers |-> 0]
    /\ UNCHANGED session

\* lock and unlock, audited: refused while degraded, and latching when the
\* anchor fails.
set_locked(locked) ==
    /\ Change("lock") /\ degradedBy = Off
    /\ security' = [epoch |-> security.epoch + 1, locked |-> locked]
    /\ events' = Append(events, [kind |-> "admin", ref |-> 0])
    /\ \E ok \in BOOLEAN :
          /\ ok \/ "faults" \in trouble
          /\ met < MaxMet /\ met' = met + 1
          /\ anchored' = IF ok THEN Len(events') ELSE anchored
          /\ degradedBy' = IF ok THEN Off ELSE 0
    /\ selection' = 0
    /\ UNCHANGED <<policy, client, project, grant, session, leases, call>>

\* bind_login: a new session under a new security epoch.
bind_login ==
    /\ OfClient("session")
    /\ session' = "active" /\ security' = [security EXCEPT !.epoch = @ + 1]
    /\ UNCHANGED <<client, leases>>

\* revoke-this-session: the first transaction closes the reads; the logout is
\* sent once, and its outcome, whatever it is, ends the revocation.
revoke_session ==
    /\ OfClient("session")
    /\ session = "active" /\ session' = "revoking"
    /\ security' = [security EXCEPT !.epoch = @ + 1]
    /\ UNCHANGED <<client, leases>>

finish_revocation ==
    /\ session = "revoking" /\ session' = "logged_out"
    /\ UNCHANGED <<security, policy, client, project, grant, account, memory, bounds>>

-----------------------------------------------------------------------------
Scopes(tool) ==
    CASE tool = "list_projects" -> {{}}
      [] tool = "get_messages" -> {{p} : p \in Projects}
      [] OTHER -> {R \in SUBSET Projects : Cardinality(R) > 1}

Calls ==
    \E c \in Callers :
       \/ mint_lease(c) \/ lapse(c) \/ abandon(c) \/ withdraw(c)
       \/ \E k \in pages : present_stale(c, k)
       \/ \E tool \in Uses[c] : \E refs \in Scopes(tool), k \in pages \cup {FirstPage} :
             disclose(c, tool, refs, k)
       \/ call[c] # Idle /\ \E rows \in SUBSET found(call[c].snap) : finish(c, rows)

Commands ==
    \/ \E p \in Projects : set_enabled(p) \/ rename(p)
    \/ \E c \in Callers, p \in Projects :
          \/ revoke_grant(c, p) \/ cross_search(c, p)
          \/ \E level \in Levels : set_egress(c, p, level)
          \/ \E g \in Offers : grant_client(c, p, g)
    \/ \E p \in Projects, x \in Peers : add_peer(p, x) \/ remove_peer(p, x)
    \/ \E x \in Peers, d \in {"none", "allow", "deny"} : scope_decide(x, d)
    \/ \E c \in Callers : client_disable(c) \/ client_rotate(c)
    \/ \E locked \in BOOLEAN : set_locked(locked)
    \/ scope_mode \/ scope_discover \/ revoke_client_auth
    \/ bind_login \/ revoke_session \/ finish_revocation

Next == Calls \/ Commands \/ age \/ restart \/ \E far \in 1..4 : repair_anchor(far)
Spec == Init /\ [][Next]_vars

-----------------------------------------------------------------------------
\* What the owner lets a client see now, said without the evaluator.
Permitted(c, i) ==
    /\ client[c] /\ ~security.locked
    /\ i.tool # "list_projects" => session = "active"
    /\ \A p \in i.from :
          /\ project[p].enabled /\ grant[c][p] # NoGrant
          /\ i.tool = "cross_project_search" => grant[c][p].cross
          /\ i.tool # "list_projects" =>
                i.level <= grant[c][p].level /\ i.of \in project[p].members
    /\ i.tool # "list_projects" => owner_allows(i.of)

\* Whatever the owner did while a retrieval was awaited, a payload that is
\* released holds only records the client may see at that moment, at a level
\* every project it comes from grants; and a page that continues another was
\* read under the very scope the first one was.
ReleasedUnderLiveAuthority ==
    [][\A n \in released' \ released :
          LET c == receipts'[n].client
              k == call[c].from
          IN /\ \A i \in receipts'[n].items : Permitted(c, i)
             /\ k # FirstPage =>
                   k.client = c /\ k.snap.tool = call[c].tool
                   /\ \A p \in k.snap.refs : k.snap.readable[p] =
                         IF k.snap.tool = "list_projects" THEN {} ELSE readable_members(c, p)]_vars

Sent(c, b) ==
    Cardinality(exposure({n \in released : n > aged /\ receipts[n].client = c}, b))

\* What was released to a client within the rolling window, altogether and of
\* each project, stays under the hard threshold, though a reservation lapses
\* before its call ends and a stop forgets them all.
BudgetHolds == \A c \in Callers, b \in Buckets : Sent(c, b) < Hard

delivery(n) ==
    IF degradedBy = n \/ \E e \in Range(events) : e.kind = "repair" /\ e.ref = n
    THEN "withheld_audit_unavailable" ELSE "committed"

\* A payload is out only if its event is in the chain and under the anchor, and
\* no later failure, stop or repair makes the record say it was withheld.
ReleaseIsAccounted ==
    \A n \in released :
       /\ \E e \in 1..anchored : events[e] = [kind |-> "disclosure", ref |-> n]
       /\ delivery(n) = "committed"

-----------------------------------------------------------------------------
(* Why it holds: the inductive invariant that the proofs use, in its parts.*)

DisclosureConstants ==
    /\ IsFiniteSet(Callers) /\ IsFiniteSet(Projects) /\ IsFiniteSet(Peers)
    /\ Members \in [Projects -> SUBSET Peers]
    /\ Grants \in [Callers -> [Projects -> Grant \cup {NoGrant}]] /\ Offers \subseteq Grant
    /\ Uses \in [Callers -> SUBSET GovernedTools]
    /\ Hard \in Nat \ {0} /\ PageLimit \in Nat /\ MaxReceipts \in Nat /\ MaxMet \in Nat

\* A snapshot that was true of an earlier state and still is where the epochs
\* it names have not moved.
Faithful(s) ==
    /\ s.tool \in GovernedTools /\ s.refs \subseteq Projects
    /\ s.security \in 0..security.epoch /\ s.policy \in 0..policy.epoch
    /\ s.scope \in [s.refs -> [epoch : Nat, grant : Grant]]
    /\ s.readable \in [s.refs -> SUBSET Peers]
    /\ \A p \in s.refs :
          /\ s.scope[p].epoch <= project[p].epoch
          /\ s.tool = "cross_project_search" => s.scope[p].grant.cross
          /\ s.tool = "list_projects" => s.readable[p] = {}
          /\ s.tool # "list_projects" /\ s.policy = policy.epoch
                /\ s.scope[p].epoch = project[p].epoch =>
                   s.readable[p] = {x \in project[p].members : owner_allows(x)}

PagesAreFaithful == \A k \in pages : Faithful(k.snap)

\* A call works from a faithful snapshot, taken while the session was active if
\* its security epoch still stands; its cursor was minted under the same scope.
FaithfulCall(c, r) ==
    LET s == r.snap
        k == r.from
    IN /\ r = [tool |-> s.tool, snap |-> s, reserved |-> r.reserved, from |-> k]
       /\ r.reserved \in BOOLEAN /\ Faithful(s)
       /\ s.tool # "list_projects" /\ s.security = security.epoch => session = "active"
       /\ k # FirstPage => /\ k.client = c /\ k.snap.tool = s.tool
                          /\ Faithful(k.snap) /\ check_cursor(k, s)

CallsAreFaithful == \A c \in Callers : call[c] # Idle => FaithfulCall(c, call[c])

\* No event names a receipt to come, and none withholds what is out.
WithheldStaysIn ==
    /\ \A e \in DOMAIN events : events[e].ref \in 0..Len(receipts)
    /\ \A n \in released :
          /\ n # degradedBy
          /\ \A e \in DOMAIN events : events[e].kind = "repair" => events[e].ref # n
          /\ \E e \in 1..anchored : events[e] = [kind |-> "disclosure", ref |-> n]

\* A call in flight has a receipt's place kept for it.
ReceiptsFit == Len(receipts) + Cardinality({c \in Callers : call[c] # Idle}) <= MaxReceipts

\* What is committed, with the worst case of the call in flight, stays under the
\* threshold.
UsageIsBounded ==
    /\ \A n \in DOMAIN receipts : IsFiniteSet(receipts[n].items)
    /\ \A c \in Callers, b \in Buckets :
          /\ committed_usage(c, b) < Hard
          /\ call[c] # Idle /\ worst_case(call[c].snap, b) > 0 =>
                committed_usage(c, b) + worst_case(call[c].snap, b) < Hard

DisclosureInvariant ==
    /\ TypeOK /\ PagesAreFaithful /\ CallsAreFaithful
    /\ WithheldStaysIn /\ ReceiptsFit /\ UsageIsBounded
=============================================================================
