------------------------------- MODULE Access -------------------------------
(***************************************************************************)
(* Who may call a tool: the local leases of the stdio proxy (core/auth,    *)
(* mcp/stdio_proxy.py), the OAuth grants of the remote listener (mcp/oauth *)
(* and core/auth/oauth_refresh.py), and the context handles and cursors a  *)
(* client pages with (services/handles.py).                                *)
(*                                                                         *)
(* The daemon's checks are synchronous; the requests around them are not:  *)
(* a token request loads its grant and exchanges it in two steps, a lease  *)
(* is minted by the proxy and verified later, and the owner's commands and *)
(* a restart fall between.  Time is which credentials have expired: every  *)
(* lifetime differs, so any live one may expire next.  Secrets, signatures *)
(* and digests are the version of the key they were made with.             *)
(***************************************************************************)
EXTENDS Integers, Sequences, FiniteSets, Functions

CONSTANTS
    Doors,         \* the ways in that are used together
    Local,         \* local clients, each with its stdio proxy
    Remote,        \* the one client of the remote listener
    Requests,      \* concurrent token requests
    MaxApprovals,  \* bound: owner approvals issued
    MaxTokens,     \* bound: refresh tokens issued
    MaxCuts        \* bound: bumps, rotations and disablings by the owner

VARIABLES
    door,       \* the way in this behaviour is about; the ways share the owner's commands only
    epoch,      \* security_epoch
    enabled,    \* clients.enabled
    seed,       \* clients.seed_version of the local clients
    signing,    \* active version of oauth-signing-key
    cursorKey,  \* active version of cursor-key
    proxy,      \* a proxy's seed and cached epoch (0: not asked yet)
    lease,      \* the lease a proxy has sent and the daemon not yet verified
    approvals,  \* OwnerApprovals: pending ones
    codes,      \* CodeStore: unspent ones, by the approval they came from
    tokens,     \* oauth_refresh_tokens rows, in order of issue
    request,    \* what a token request has loaded
    bearer,     \* access tokens out there
    handles,    \* ctx_handles rows
    cursors,    \* cursors rows
    held,       \* the handle and cursor tokens clients keep
    approved,   \* ground truth: approvals issued so far
    spent,      \* ground truth: refresh tokens presented again after their use
    cuts        \* ground truth: the owner's revoking commands so far, by target

vars == <<door, epoch, enabled, seed, signing, cursorKey, proxy, lease, approvals, codes,
          tokens, request, bearer, handles, cursors, held, approved, spent, cuts>>
owner == <<door, epoch, enabled, seed, signing, cursorKey, cuts>>
local == <<proxy, lease>>
oauth == <<approvals, codes, tokens, request, bearer, approved, spent>>
context == <<handles, cursors, held>>

Everybody == Local \cup {Remote}
None == [kind |-> "none"]

\* The remote client has no seed, and no client has the name of a target below.
ASSUME AccessAssumption ==
    /\ Remote \notin Local
    /\ Everybody \cap {"epoch", "signing", "cursor"} = {}
    /\ MaxApprovals \in Nat /\ MaxTokens \in Nat

\* What a revoking command is aimed at.
Cuttable == {"epoch", "signing", "cursor"} \cup Everybody

\* A row or token carries the ground truth of which revoking commands had run
\* when it was issued (since).
Handle == [client : Everybody, epoch : Nat, key : Nat, live : BOOLEAN, since : [Cuttable -> Nat]]
Token == [family : Nat, epoch : Nat, live : BOOLEAN, used : BOOLEAN, revoked : BOOLEAN]

TypeOK ==
    /\ door \in Doors /\ epoch \in Nat \ {0} /\ signing \in Nat /\ cursorKey \in Nat
    /\ enabled \in [Everybody -> BOOLEAN] /\ seed \in [Local -> Nat]
    /\ proxy \in [Local -> [seed : Nat, epoch : Nat]]
    /\ lease \in [Local -> {None} \cup
          [seed : Nat, sec : Nat, live : BOOLEAN, since : [Cuttable -> Nat]]]
    /\ approvals \subseteq 1..approved /\ codes \subseteq 1..approved
    /\ tokens \in Seq(Token) /\ Len(tokens) <= MaxTokens
    /\ request \in [Requests -> {None} \cup [kind : {"code", "refresh"}, of : Nat]]
    /\ bearer \subseteq [key : Nat, sec : Nat, since : [Cuttable -> Nat]]
    /\ handles \subseteq Handle /\ cursors \subseteq Handle
    /\ held \subseteq [kind : {"handle", "cursor"}, row : Handle]
    /\ approved \in 0..MaxApprovals /\ spent \subseteq 1..Len(tokens) /\ cuts \in [Cuttable -> Nat]

Init ==
    /\ door \in Doors /\ epoch = 1 /\ signing = 1 /\ cursorKey = 1
    /\ enabled = [c \in Everybody |-> TRUE] /\ seed = [c \in Local |-> 1]
    /\ proxy = [c \in Local |-> [seed |-> 1, epoch |-> 0]]
    /\ lease = [c \in Local |-> None]
    /\ approvals = {} /\ codes = {} /\ tokens = <<>>
    /\ request = [q \in Requests |-> None] /\ bearer = {}
    /\ handles = {} /\ cursors = {} /\ held = {}
    /\ approved = 0 /\ spent = {} /\ cuts = [x \in Cuttable |-> 0]

-----------------------------------------------------------------------------
\* The owner's commands.  Each ends what was issued before it.

Cut(x) ==
    /\ FoldFunction(+, 0, cuts) < MaxCuts
    /\ cuts' = [cuts EXCEPT ![x] = @ + 1]

bump_security_epoch ==
    /\ Cut("epoch") /\ epoch' = epoch + 1
    /\ UNCHANGED <<door, enabled, seed, signing, cursorKey, local, oauth, context>>

disable_client(c) ==
    /\ enabled[c] /\ Cut(c)
    /\ enabled' = [enabled EXCEPT ![c] = FALSE]
    /\ UNCHANGED <<door, epoch, seed, signing, cursorKey, local, oauth, context>>

\* Both copies of the seed are replaced; a running proxy keeps the old one.
rotate_client(c) ==
    /\ enabled[c] /\ Cut(c)
    /\ seed' = [seed EXCEPT ![c] = @ + 1]
    /\ UNCHANGED <<door, epoch, enabled, signing, cursorKey, local, oauth, context>>

rotate_signing ==
    /\ Cut("signing") /\ signing' = signing + 1
    /\ UNCHANGED <<door, epoch, enabled, seed, cursorKey, local, oauth, context>>

\* _invalidate_context: a cursor-key rotation deletes every cursor and handle.
rotate_cursor_key ==
    /\ Cut("cursor") /\ cursorKey' = cursorKey + 1
    /\ handles' = {} /\ cursors' = {}
    /\ UNCHANGED <<door, epoch, enabled, seed, signing, local, oauth, held>>

-----------------------------------------------------------------------------
\* The local door.

\* The proxy process starts again and reads its helper file.
proxy_start(c) ==
    /\ proxy' = [proxy EXCEPT ![c] = [seed |-> seed[c], epoch |-> 0]]
    /\ proxy' # proxy
    /\ UNCHANGED <<owner, lease, oauth, context>>

\* Proxy.lease: a fresh lease for one request, under the epoch the daemon told
\* the proxy within EPOCH_TTL_S.
mint(c) ==
    /\ lease[c] = None
    /\ \E sec \in {epoch, proxy[c].epoch} \ {0} :
          /\ proxy' = [proxy EXCEPT ![c].epoch = sec]
          /\ lease' = [lease EXCEPT ![c] = [seed |-> proxy[c].seed, sec |-> sec,
                                            live |-> TRUE, since |-> cuts]]
    /\ UNCHANGED <<owner, oauth, context>>

\* Mutant: a verification that forgets the security epoch.
verify_lease_any_epoch(c) ==
    enabled[c] /\ lease[c].seed = seed[c] /\ lease[c].live

\* leases.verify: the client's own enabled seed, its lifetime, the epoch.
verify_lease(c) ==
    enabled[c] /\ lease[c].seed = seed[c] /\ lease[c].live /\ lease[c].sec = epoch

\* verify on an access token: the active signing key, the epoch, the client.
verify_bearer(t) == t.key = signing /\ t.sec = epoch /\ enabled[Remote]

\* The daemon answers: a verified lease is a call, anything else is refused.
answered(c) ==
    /\ lease[c] # None
    /\ lease' = [lease EXCEPT ![c] = None]
    /\ UNCHANGED <<owner, proxy, oauth, context>>

-----------------------------------------------------------------------------
\* The remote door.

\* oauth approve: a code the owner types into the authorization page.
approve ==
    /\ approved < MaxApprovals
    /\ approved' = approved + 1
    /\ approvals' = approvals \cup {approved'}
    /\ UNCHANGED <<owner, local, codes, tokens, request, bearer, spent, context>>

\* The approval is consumed first; a request the SDK or authorize refuses
\* (resource, scope) has used it up.
authorize(a) ==
    /\ a \in approvals /\ enabled[Remote]
    /\ approvals' = approvals \ {a}
    /\ codes' \in {codes, codes \cup {a}}
    /\ UNCHANGED <<owner, local, tokens, request, bearer, approved, spent, context>>

load_authorization_code(q, a) ==
    /\ request[q] = None /\ a \in codes /\ enabled[Remote]
    /\ request' = [request EXCEPT ![q] = [kind |-> "code", of |-> a]]
    /\ UNCHANGED <<owner, local, approvals, codes, tokens, bearer, approved, spent, context>>

\* _issue: a refresh token of the family and an access token.
issued(rows, family) ==
    Append(rows, [family |-> family, epoch |-> epoch, live |-> TRUE,
                  used |-> FALSE, revoked |-> FALSE])
AccessToken == [key |-> signing, sec |-> epoch, since |-> cuts]

\* spend, then a new family: it is named by the approval it goes back to.
exchange_authorization_code(q) ==
    LET a == request[q].of IN
    /\ request[q].kind = "code"
    /\ Len(tokens) < MaxTokens
    /\ request' = [request EXCEPT ![q] = None]
    /\ codes' = codes \ {a}
    /\ tokens' = IF a \in codes THEN issued(tokens, a) ELSE tokens
    /\ bearer' = IF a \in codes THEN bearer \cup {AccessToken} ELSE bearer
    /\ UNCHANGED <<owner, local, approvals, approved, spent, context>>

usable(t) == ~t.revoked /\ t.epoch = epoch /\ t.live

\* Mutant: a replay that revokes the replayed token only.
revoke_token(rows, i) == [rows EXCEPT ![i].revoked = TRUE]

revoke_family(rows, i) ==
    [j \in DOMAIN rows |-> IF rows[j].family = rows[i].family
                           THEN [rows[j] EXCEPT !.revoked = TRUE] ELSE rows[j]]

\* peek: a spent token is a replay and revokes its family.
load_refresh_token(q, i) ==
    /\ request[q] = None /\ enabled[Remote]
    /\ IF tokens[i].used
       THEN tokens' = revoke_family(tokens, i) /\ spent' = spent \cup {i}
       ELSE tokens' = tokens /\ spent' = spent
    /\ request' = [request EXCEPT ![q] =
                     IF ~tokens[i].used /\ usable(tokens[i])
                     THEN [kind |-> "refresh", of |-> i] ELSE None]
    /\ UNCHANGED <<owner, local, approvals, codes, bearer, approved, context>>

\* consume, which peeks again, then _issue in the same family, without an await.
exchange_refresh_token(q) ==
    LET i == request[q].of
        t == tokens[i]
        used == [tokens EXCEPT ![i].used = TRUE]
    IN /\ request[q].kind = "refresh"
       /\ Len(tokens) < MaxTokens
       /\ request' = [request EXCEPT ![q] = None]
       /\ IF t.used
          THEN tokens' = revoke_family(tokens, i) /\ spent' = spent \cup {i} /\ bearer' = bearer
          ELSE IF ~usable(t) THEN UNCHANGED <<tokens, spent, bearer>>
          ELSE /\ tokens' = issued(used, t.family) /\ spent' = spent
               /\ bearer' = bearer \cup {AccessToken}
       /\ UNCHANGED <<owner, local, approvals, codes, approved, context>>

\* A stop loses what is kept in memory; one inside an exchange has spent the
\* token and issued nothing.
restart ==
    /\ \/ tokens' = tokens
       \/ \E q \in Requests :
             LET i == request[q].of IN
             /\ request[q].kind = "refresh" /\ ~tokens[i].used /\ usable(tokens[i])
             /\ tokens' = [tokens EXCEPT ![i].used = TRUE]
    /\ approvals' = {} /\ codes' = {}
    /\ request' = [q \in Requests |-> None]
    /\ <<approvals, codes, request>>' # <<approvals, codes, request>>
    /\ UNCHANGED <<owner, local, bearer, approved, spent, context>>

-----------------------------------------------------------------------------
\* Context handles and cursors, for a client whose call was let in.

LetIn(c) == enabled[c]

open_handle(c) ==
    LET h == [client |-> c, epoch |-> epoch, key |-> cursorKey, live |-> TRUE, since |-> cuts]
    IN /\ LetIn(c) /\ handles = {}
       /\ handles' = handles \cup {h}
       /\ held' = held \cup {[kind |-> "handle", row |-> h]}
       /\ UNCHANGED <<owner, local, oauth, cursors>>

stale(h) == h.epoch # epoch \/ ~h.live

\* Expiry is the row's, not the token's.
RowOf(rows, h) == {r \in rows : [r EXCEPT !.live = h.live] = h}

resume(c, h) == \E r \in RowOf(handles, h) : r.client = c /\ ~stale(r)

\* position: the cursor's row, its handle's epoch and client, and a MAC under a
\* key version that can still be loaded.
position(c, k) ==
    /\ \E r \in RowOf(cursors, k) : ~stale(r)
    /\ RowOf(handles, k) # {}
    /\ k.key = cursorKey /\ k.client = c

\* A cursor expires with its handle.
new_cursor(c, h) ==
    /\ LetIn(c) /\ resume(c, h) /\ RowOf(cursors, h) = {}
    /\ cursors' = cursors \cup RowOf(handles, h)
    /\ held' = held \cup {[kind |-> "cursor", row |-> h]}
    /\ UNCHANGED <<owner, local, oauth, handles>>

-----------------------------------------------------------------------------
\* Time: some credential reaches the end of its life.
expire ==
    \/ /\ \E c \in Local :
             /\ lease[c] # None /\ lease[c].live
             /\ lease' = [lease EXCEPT ![c].live = FALSE]
       /\ UNCHANGED <<owner, proxy, oauth, context>>
    \/ /\ \E a \in approvals \cup codes :
             /\ approvals' = approvals \ {a} /\ codes' = codes \ {a}
       /\ UNCHANGED <<owner, local, tokens, request, bearer, approved, spent, context>>
    \/ /\ \E i \in DOMAIN tokens : tokens[i].live /\ tokens' = [tokens EXCEPT ![i].live = FALSE]
       /\ UNCHANGED <<owner, local, approvals, codes, request, bearer, approved, spent, context>>
    \/ /\ \E t \in bearer : bearer' = bearer \ {t}
       /\ UNCHANGED <<owner, local, approvals, codes, tokens, request, approved, spent, context>>
    \/ /\ \E h \in handles :
             /\ h.live
             /\ handles' = (handles \ {h}) \cup {[h EXCEPT !.live = FALSE]}
             /\ cursors' = {[k EXCEPT !.live = FALSE] : k \in cursors}
       /\ UNCHANGED <<owner, local, oauth, held>>

Owner ==
    \/ bump_security_epoch \/ rotate_signing \/ rotate_cursor_key
    \/ \E c \in Everybody : disable_client(c)
    \/ \E c \in Local : rotate_client(c)

Proxies == "local" \in door /\ \E c \in Local : proxy_start(c) \/ mint(c) \/ answered(c)

OAuth ==
    /\ "oauth" \in door
    /\ \/ approve \/ restart
       \/ \E a \in 1..MaxApprovals : authorize(a)
       \/ \E q \in Requests :
             \/ \E a \in codes : load_authorization_code(q, a)
             \/ exchange_authorization_code(q)
             \/ \E i \in DOMAIN tokens : load_refresh_token(q, i)
             \/ exchange_refresh_token(q)

Paging ==
    "context" \in door /\ \E c \in Everybody : open_handle(c) \/ \E x \in held : new_cursor(c, x.row)

Next == Owner \/ Proxies \/ OAuth \/ Paging \/ expire
Spec == Init /\ [][Next]_vars

-----------------------------------------------------------------------------
Alive(a) == {i \in DOMAIN tokens : tokens[i].family = a /\ ~tokens[i].used /\ usable(tokens[i])}

\* One owner approval is one grant, however its code and its refresh tokens are
\* presented, interleaved or cut off by a restart: of each family at most one
\* refresh token can still be used, a family in which a spent token was presented
\* again has none, and no token was issued without an approval (exchange, peek,
\* consume and revoke_family).
GrantsStaySingle ==
    /\ \A a \in 1..MaxApprovals :
          /\ Cardinality(Alive(a)) <= 1
          /\ (\E i \in spent : tokens[i].family = a) => Alive(a) = {}
    /\ \A i \in DOMAIN tokens : tokens[i].family \in 1..approved
    /\ \A i, j \in DOMAIN tokens :
          i < j /\ tokens[i].family = tokens[j].family => tokens[i].used \/ tokens[i].revoked

Fresh(since, about) == \A x \in about : since[x] = cuts[x]

\* Whatever the daemon would accept now was issued after every command of the
\* owner that is meant to end it, and to the client that presents it: a lease
\* minted under a cached epoch or an old seed, an access token, a handle and a
\* cursor that outlived a bump, a rotation or a disabling are refused.
AcceptedIsCurrent ==
    /\ \A c \in Local :
          lease[c] # None /\ verify_lease(c) => Fresh(lease[c].since, {"epoch", c})
    /\ \A t \in bearer : verify_bearer(t) => Fresh(t.since, {"epoch", "signing", Remote})
    /\ \A x \in held, c \in Everybody :
          (IF x.kind = "handle" THEN resume(c, x.row) ELSE position(c, x.row))
             => x.row.client = c /\ Fresh(x.row.since, {"epoch", "cursor"})

-----------------------------------------------------------------------------
\* The parts of the inductive invariant.

\* Every revoking command shows in what it is meant to change; a client that
\* was disabled stays so.
CutsAreCounted ==
    /\ epoch = 1 + cuts["epoch"]
    /\ signing = 1 + cuts["signing"]
    /\ cursorKey = 1 + cuts["cursor"]
    /\ \A c \in Local : seed[c] <= 1 + cuts[c] /\ (enabled[c] => seed[c] = 1 + cuts[c])
    /\ enabled[Remote] => cuts[Remote] = 0

\* A proxy's seed and epoch, and the lease it made of them, are no newer than
\* the commands that had run.
LeasesAreDated ==
    \A c \in Local :
        /\ proxy[c].seed <= seed[c] /\ proxy[c].epoch <= epoch
        /\ lease[c] # None =>
              /\ \A x \in Cuttable : lease[c].since[x] <= cuts[x]
              /\ lease[c].sec <= 1 + lease[c].since["epoch"]
              /\ lease[c].seed <= 1 + lease[c].since[c]

BearersAreDated ==
    \A t \in bearer :
        /\ t.since[Remote] <= cuts[Remote]
        /\ t.sec = 1 + t.since["epoch"] /\ t.key = 1 + t.since["signing"]

\* A stored handle is of the present cursor key.
Dated(h) == h.epoch = 1 + h.since["epoch"] /\ h.key = 1 + h.since["cursor"]
HandlesAreDated ==
    /\ \A h \in handles : Dated(h) /\ h.key = cursorKey
    /\ \A x \in held : Dated(x.row)

\* A family is of one approval, which is used up once the family exists.
FamiliesAreApproved ==
    /\ \A i \in DOMAIN tokens : tokens[i].family \in 1..approved
    /\ \A a \in approvals \cup codes, i \in DOMAIN tokens : tokens[i].family # a
    /\ approvals \cap codes = {}

\* A family's tokens follow each other, and end with a replay.
FamiliesAreChains ==
    /\ \A i, j \in DOMAIN tokens :
          i < j /\ tokens[i].family = tokens[j].family => tokens[i].used \/ tokens[i].revoked
    /\ \A i \in spent, j \in DOMAIN tokens :
          tokens[i].family = tokens[j].family => tokens[j].revoked

RequestsNameTokens ==
    \A q \in Requests : request[q].kind = "refresh" => request[q].of \in DOMAIN tokens

AccessInvariant ==
    /\ TypeOK /\ CutsAreCounted /\ LeasesAreDated /\ BearersAreDated /\ HandlesAreDated
    /\ FamiliesAreApproved /\ FamiliesAreChains /\ RequestsNameTokens
=============================================================================
