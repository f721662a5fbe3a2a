------------------------------ MODULE Directory ------------------------------
(***************************************************************************)
(* The recipient directory: locations with their destinations and members, *)
(* people with their contact points, and audiences of all of these; what a *)
(* target resolves to, how a job's origin paths are checked again before   *)
(* it is sent, and how a WhatsApp group that Meta creates is filed when    *)
(* its webhook arrives.                                                    *)
(*                                                                         *)
(* Every tool runs through the executor's local path: the recorded request *)
(* and its effect are one transaction, and a replay answers from the       *)
(* record, so a replay is no step here.  A call that the code refuses      *)
(* (unknown ref, clash, cycle) changes nothing and is no step either.      *)
(***************************************************************************)
EXTENDS Integers, Sequences, FiniteSets, SequencesExt

CONSTANTS Locations, Recipients, Audiences,
          Identities,      \* delivery identities of people (and of their private chats)
          Groups,          \* delivery identities of groups
          TransportOf,     \* the transport of an identity
          Creations,       \* Meta's request ids, each with the group it may make
          GroupOf,
          Targets,         \* what the campaign may be aimed at
          NoRow, MaxPoints, MaxSpots, MaxChanges

VARIABLES
    place,     \* locations.enabled by ref; NoRow before the row exists
    person,    \* recipients.enabled
    sits,      \* location_members: <<location, recipient>>
    circles,   \* audience_members by audience; {} of a row that exists, NoRow before
    points,    \* contact_points, in row order; out tells whether the row was enabled then
    spots,     \* destinations, in row order
    orders,    \* pending_group_creations by request id
    meta,      \* what Meta did with the request (external)
    frozen,    \* the targets and transports a campaign was frozen with, and job_origins
    edits      \* bounds the behaviours

directoryVars == <<place, person, sits, circles, points, spots, orders, meta, frozen, edits>>

States == {NoRow, "on", "off"}
Transports == {"telegram", "whatsapp"}

\* Refs of rows that are minted at run time.
Point(i) == <<"rct", i>>
Spot(i) == <<"dst", i>>
Nodes == Audiences \cup Locations \cup Recipients \cup {Spot(i) : i \in 1..MaxSpots}
NotFrozen == [targets |-> {}, transports |-> {}, origins |-> {}]

Exists(a) == circles[a] # NoRow
MembersOf(a) == IF Exists(a) THEN circles[a] ELSE {}

\* An empty directory, or (to reach deeper chains within the bound) one in which every location,
\* person and audience was created already.
DirectoryInit ==
    /\ \/ /\ place = [l \in Locations |-> NoRow] /\ person = [r \in Recipients |-> NoRow]
          /\ circles = [a \in Audiences |-> NoRow]
       \/ /\ place = [l \in Locations |-> "on"] /\ person = [r \in Recipients |-> "on"]
          /\ circles = [a \in Audiences |-> {}]
    /\ sits = {} /\ points = <<>> /\ spots = <<>>
    /\ orders = [q \in Creations |-> NoRow] /\ meta = [q \in Creations |-> NoRow]
    /\ frozen = NotFrozen /\ edits = 0

\* One recorded local mutation (a directory tool), within the bound.
run_local == edits < MaxChanges /\ edits' = edits + 1

-----------------------------------------------------------------------------
(* Locations, people and audiences.                                        *)

\* A row as it is inserted, and the switch every kind of row has.
Insert(rows, ref, row) == [rows EXCEPT ![ref] = row]
set_enabled(rows, ref, to) == [rows EXCEPT ![ref] = to]

location_create(l) ==
    /\ place[l] = NoRow /\ place' = Insert(place, l, "on") /\ run_local
    /\ UNCHANGED <<person, sits, circles, points, spots, orders, meta, frozen>>

recipient_create(r) ==
    /\ person[r] = NoRow /\ person' = Insert(person, r, "on") /\ run_local
    /\ UNCHANGED <<place, sits, circles, points, spots, orders, meta, frozen>>

audience_create(a) ==
    /\ ~Exists(a) /\ circles' = Insert(circles, a, {}) /\ run_local
    /\ UNCHANGED <<place, person, sits, points, spots, orders, meta, frozen>>

location_enabled(l, to) ==
    /\ place[l] \notin {NoRow, to} /\ place' = set_enabled(place, l, to) /\ run_local
    /\ UNCHANGED <<person, sits, circles, points, spots, orders, meta, frozen>>

recipient_enabled(r, to) ==
    /\ person[r] \notin {NoRow, to} /\ person' = set_enabled(person, r, to) /\ run_local
    /\ UNCHANGED <<place, sits, circles, points, spots, orders, meta, frozen>>

location_member_add(l, r) ==
    /\ place[l] # NoRow /\ person[r] # NoRow /\ sits' = sits \cup {<<l, r>>} /\ run_local
    /\ UNCHANGED <<place, person, circles, points, spots, orders, meta, frozen>>

location_member_remove(l, r) ==
    /\ <<l, r>> \in sits /\ sits' = sits \ {<<l, r>>} /\ run_local
    /\ UNCHANGED <<place, person, circles, points, spots, orders, meta, frozen>>

\* A set of audiences that a search over their members does not leave.
Closed(S) == \A b \in S : MembersOf(b) \cap Audiences \subseteq S

\* The search from start ends in the least such set.
_reaches(start, target) ==
    \A S \in SUBSET Audiences : start \in S /\ Closed(S) => target \in S

Known(m) ==
    \/ m \in Audiences /\ Exists(m)
    \/ m \in Locations /\ place[m] # NoRow
    \/ m \in Recipients /\ person[m] # NoRow
    \/ \E i \in 1..Len(spots) : m = Spot(i)

add_audience_member(a, m) ==
    /\ Exists(a) /\ Known(m) /\ ~(m \in Audiences /\ _reaches(m, a))
    /\ circles' = [circles EXCEPT ![a] = @ \cup {m}]

audience_add(a, m) ==
    /\ add_audience_member(a, m) /\ run_local
    /\ UNCHANGED <<place, person, sits, points, spots, orders, meta, frozen>>

remove_audience_member(a, m) == m \in MembersOf(a) /\ circles' = [circles EXCEPT ![a] = @ \ {m}]

audience_remove(a, m) ==
    /\ remove_audience_member(a, m) /\ run_local
    /\ UNCHANGED <<place, person, sits, points, spots, orders, meta, frozen>>

-----------------------------------------------------------------------------
(* Endpoints.                                                              *)

EnabledFor(rows, id) == {i \in 1..Len(rows) : rows[i].id = id /\ rows[i].on}

OptedOut(id) == \E i \in 1..Len(points) : points[i].id = id /\ points[i].out # "no"

add_contact_point(r, id) ==
    /\ Len(points) < MaxPoints /\ person[r] # NoRow
    /\ \A i \in 1..Len(points) :
          ~(points[i].of = r /\ TransportOf[points[i].id] = TransportOf[id] /\ points[i].on)
    /\ EnabledFor(points, id) = {} /\ ~OptedOut(id)
    /\ points' = Append(points, [of |-> r, id |-> id, on |-> TRUE, out |-> "no"])

contact_add(r, id) ==
    /\ add_contact_point(r, id) /\ run_local
    /\ UNCHANGED <<place, person, sits, circles, spots, orders, meta, frozen>>

contact_disable(i) ==
    /\ points[i].on /\ points' = [points EXCEPT ![i].on = FALSE] /\ run_local
    /\ UNCHANGED <<place, person, sits, circles, spots, orders, meta, frozen>>

opt_out(i) ==
    /\ points[i].out = "no"
    /\ points' = [points EXCEPT ![i].out = IF points[i].on THEN "enabled" ELSE "disabled"]

contact_opt_out(i) ==
    /\ opt_out(i) /\ run_local
    /\ UNCHANGED <<place, person, sits, circles, spots, orders, meta, frozen>>

\* by is the creation the row files, or NoRow.  (A group's grp_ row is written with it.)
add_destination(l, id, by) ==
    /\ place[l] # NoRow /\ Len(spots) < MaxSpots /\ EnabledFor(spots, id) = {}
    /\ spots' = Append(spots, [at |-> l, id |-> id, on |-> TRUE, by |-> by])

\* A WhatsApp destination is a group; a Telegram one may be a private chat, which shares its
\* identity with the person's contact point.
destination_create(l, id) ==
    /\ TransportOf[id] = "telegram" \/ id \in Groups
    /\ add_destination(l, id, NoRow) /\ run_local
    /\ UNCHANGED <<place, person, sits, circles, points, orders, meta, frozen>>

destination_disable(i) ==
    /\ spots[i].on /\ spots' = [spots EXCEPT ![i].on = FALSE] /\ run_local
    /\ UNCHANGED <<place, person, sits, circles, points, orders, meta, frozen>>

-----------------------------------------------------------------------------
(* A WhatsApp group created for the account.                               *)

\* The provider call of comms_group_create: Meta answers with a request id.
group_create(q) ==
    /\ meta[q] = NoRow /\ \E l \in Locations : place[l] # NoRow
    /\ meta' = [meta EXCEPT ![q] = "asked"] /\ run_local
    /\ UNCHANGED <<place, person, sits, circles, points, spots, orders, frozen>>

\* External: Meta makes the group or gives up.
meta_decides(q, how) ==
    /\ meta[q] = "asked" /\ meta' = [meta EXCEPT ![q] = how]
    /\ UNCHANGED <<place, person, sits, circles, points, spots, orders, frozen, edits>>

\* The on_created hook of the same call: it runs at once, but Meta may be faster, and a stop of
\* the daemon in between leaves it out.
pend_group_creation(q) ==
    /\ meta[q] # NoRow /\ orders[q] = NoRow
    /\ \E l \in Locations : place[l] # NoRow /\ orders' = [orders EXCEPT ![q] = l]
    /\ UNCHANGED <<place, person, sits, circles, points, spots, meta, frozen, edits>>

\* Meta's webhook, which may come before the hook, late, or twice.  A clash with a destination
\* the owner filed by hand raises out of the archive's transaction: nothing changes.
settle_group_creation(q) ==
    /\ meta[q] \in {"made", "failed"} /\ orders[q] \in Locations
    /\ IF meta[q] = "made"
       THEN add_destination(orders[q], GroupOf[q], q) /\ orders' = [orders EXCEPT ![q] = "filed"]
       ELSE orders' = [orders EXCEPT ![q] = "failed"] /\ UNCHANGED spots
    /\ UNCHANGED <<place, person, sits, circles, points, meta, frozen, edits>>

-----------------------------------------------------------------------------
(* Resolution, and the check of an origin path before a job is sent.       *)

\* What a location leads to: its destinations and its members.
Under(l) ==
    {Spot(i) : i \in {j \in 1..Len(spots) : spots[j].at = l}}
    \cup {r \in Recipients : <<l, r>> \in sits}

\* The traversal's filters: a destination with its location, a contact point with its person.
spot_paths(d, transports) ==
    {<<d>> : i \in {j \in 1..Len(spots) :
        d = Spot(j) /\ "telegram" \in transports /\ spots[j].on /\ place[spots[j].at] = "on"}}
person_paths(r, transports) ==
    {<<r, Point(i)>> : i \in {j \in 1..Len(points) :
        /\ points[j].of = r /\ person[r] = "on" /\ points[j].on /\ points[j].out = "no"
        /\ TransportOf[points[j].id] \in transports}}

\* The last hops from a node that is no audience.
Endpoints(n, transports) ==
    IF n \in Recipients THEN person_paths(n, transports) ELSE spot_paths(n, transports)
Hops(n, transports) ==
    IF n \in Locations
    THEN {<<n>> \o p : p \in UNION {Endpoints(m, transports) : m \in {u \in Under(n) : place[n] = "on"}}}
    ELSE Endpoints(n, transports)

\* The ways down from an audience through member audiences; one that comes back to an
\* audience it named ends the traversal with an error, and Acyclic says there is none.
Walks(a) ==
    {w \in SeqOf(Audiences, Cardinality(Audiences)) :
        /\ w # <<>> /\ w[1] = a /\ IsInjective(w)
        /\ \A i \in 1..Len(w) - 1 : w[i + 1] \in MembersOf(w[i])}

\* Every origin path of the endpoints that targets lead to.
resolve_targets(targets, transports) ==
    (UNION {Hops(t, transports) : t \in targets \ Audiences})
    \cup (UNION {UNION {{w \o p : p \in UNION {Hops(m, transports) : m \in MembersOf(Last(w)) \ Audiences}} :
                          w \in Walks(t)} : t \in targets \cap Audiences})

\* _freeze_in_tx keeps the origins of every candidate; no candidate, no freeze.
freeze(targets, transports) ==
    /\ frozen = NotFrozen /\ \A t \in targets : Known(t)
    /\ resolve_targets(targets, transports) # {}
    /\ frozen' = [targets |-> targets, transports |-> transports,
                  origins |-> resolve_targets(targets, transports)]
    /\ UNCHANGED <<place, person, sits, circles, points, spots, orders, meta, edits>>

\* Mutant: a destination is checked without its location.
_node_valid_alone(n) ==
    \/ n \in Audiences /\ Exists(n)
    \/ n \in Locations /\ place[n] = "on"
    \/ n \in Recipients /\ person[n] = "on"
    \/ \E i \in 1..Len(spots) : n = Spot(i) /\ spots[i].on
    \/ \E i \in 1..Len(points) :
          n = Point(i) /\ points[i].on /\ points[i].out = "no" /\ person[points[i].of] = "on"

_node_valid(n) ==
    \/ n \in Audiences /\ Exists(n)
    \/ n \in Locations /\ place[n] = "on"
    \/ n \in Recipients /\ person[n] = "on"
    \/ \E i \in 1..Len(spots) : n = Spot(i) /\ spots[i].on /\ place[spots[i].at] = "on"
    \/ \E i \in 1..Len(points) :
          n = Point(i) /\ points[i].on /\ points[i].out = "no" /\ person[points[i].of] = "on"

_edge_valid(up, down) ==
    \/ up \in Audiences /\ down \in MembersOf(up)
    \/ up \in Locations /\ down \in Under(up)
    \/ up \in Recipients /\ \E i \in 1..Len(points) : down = Point(i) /\ points[i].of = up

path_is_valid(path) ==
    /\ \/ \E i \in 1..Len(spots) : path[Len(path)] = Spot(i)
       \/ \E i \in 1..Len(points) : path[Len(path)] = Point(i)
    /\ \A i \in 1..Len(path) : _node_valid(path[i])
    /\ \A i \in 1..Len(path) - 1 : _edge_valid(path[i], path[i + 1])

-----------------------------------------------------------------------------
DirectoryNext ==
    \/ \E l \in Locations : location_create(l) \/ \E to \in {"on", "off"} : location_enabled(l, to)
    \/ \E r \in Recipients :
          \/ recipient_create(r)
          \/ \E to \in {"on", "off"} : recipient_enabled(r, to)
          \/ \E l \in Locations : location_member_add(l, r) \/ location_member_remove(l, r)
          \/ \E id \in Identities : contact_add(r, id)
    \/ \E a \in Audiences :
          \/ audience_create(a)
          \/ \E m \in Nodes : audience_add(a, m) \/ audience_remove(a, m)
    \/ \E i \in 1..Len(points) : contact_disable(i) \/ contact_opt_out(i)
    \/ \E l \in Locations, id \in Identities \cup Groups : destination_create(l, id)
    \/ \E i \in 1..Len(spots) : destination_disable(i)
    \/ \E q \in Creations :
          \/ group_create(q)
          \/ \E how \in {"made", "failed"} : meta_decides(q, how)
          \/ pend_group_creation(q)
          \/ settle_group_creation(q)
    \/ \E targets \in Targets, transports \in (SUBSET Transports) \ {{}} : freeze(targets, transports)

DirectorySpec == DirectoryInit /\ [][DirectoryNext]_directoryVars

-----------------------------------------------------------------------------
ContactPoint ==
    [of : Recipients, id : Identities, on : BOOLEAN, out : {"no", "enabled", "disabled"}]
Destination ==
    [at : Locations, id : Identities \cup Groups, on : BOOLEAN, by : Creations \cup {NoRow}]

DirectoryTypeOK ==
    /\ place \in [Locations -> States] /\ person \in [Recipients -> States]
    /\ sits \subseteq Locations \X Recipients
    /\ circles \in [Audiences -> {NoRow} \cup SUBSET Nodes]
    /\ points \in Seq(ContactPoint) /\ Len(points) <= MaxPoints
    /\ spots \in Seq(Destination) /\ Len(spots) <= MaxSpots
    /\ orders \in [Creations -> {NoRow, "filed", "failed"} \cup Locations]
    /\ meta \in [Creations -> {NoRow, "asked", "made", "failed"}]
    /\ edits \in 0..MaxChanges

\* No chain of memberships leads an audience back to itself, so that resolution ends.
Acyclic == \A a \in Audiences : \A m \in MembersOf(a) \cap Audiences : ~_reaches(m, a)

\* An identity is reached by one enabled contact point and one enabled destination at most, and
\* a person by one contact point per transport: nothing is sent twice to one phone.
OneEndpoint ==
    /\ \A id \in Identities \cup Groups :
          Cardinality(EnabledFor(points, id)) <= 1 /\ Cardinality(EnabledFor(spots, id)) <= 1
    /\ \A i, j \in 1..Len(points) :
          /\ points[i].on /\ points[j].on /\ points[i].of = points[j].of
          /\ TransportOf[points[i].id] = TransportOf[points[j].id]
          => i = j

\* After the opt-out of an enabled contact point, none with that identity is ever sendable again,
\* whoever disables the row and adds the number anew, for the same person or for another.  (The
\* opt-out of a row that was disabled before does not reach the row that replaced it.)
OptOutHolds ==
    \A i, j \in 1..Len(points) :
        points[i].out = "enabled" /\ points[i].id = points[j].id
            => ~(points[j].on /\ points[j].out = "no")

\* The check before a send agrees with the resolution: a frozen origin path is valid exactly
\* when resolving the campaign's targets now would find it again.
RevalidationAgrees ==
    LET now == resolve_targets(frozen.targets, frozen.transports)
    IN \A path \in frozen.origins : path_is_valid(path) <=> path \in now

\* A creation files one destination, in the location it was asked for, however often and
\* whenever its webhook comes, also after the owner disabled that destination.
GroupFiledOnce ==
    \A q \in Creations :
        Cardinality({i \in 1..Len(spots) : spots[i].by = q}) = IF orders[q] = "filed" THEN 1 ELSE 0

\* What the directory promises its callers.
DirectoryStaysSound ==
    /\ Acyclic /\ OneEndpoint /\ OptOutHolds /\ RevalidationAgrees /\ GroupFiledOnce

-----------------------------------------------------------------------------
(* Why it holds: what the proofs assume of the constants, and the          *)
(* inductive invariant they use.                                           *)

\* Refs are told apart by their kind, and from what a table says in their place.
DirectoryConstants ==
    /\ Locations \cap Recipients = {} /\ Audiences \cap (Locations \cup Recipients) = {}
    /\ \A i \in 1..MaxSpots : Spot(i) \notin Audiences \cup Locations \cup Recipients
    /\ \A i \in 1..MaxPoints : Point(i) \notin Audiences \cup Locations \cup Recipients
    /\ {NoRow, "filed", "failed"} \cap Locations = {} /\ NoRow \notin Creations
    /\ NoRow \notin {"on", "off", "filed", "failed", "asked", "made"}
    /\ \A S \in SUBSET Nodes : NoRow # S
    /\ GroupOf \in [Creations -> Groups] /\ IsFiniteSet(Audiences)
    /\ MaxPoints \in Nat /\ MaxSpots \in Nat /\ MaxChanges \in Nat

\* What no edit takes from a path: whose its contact point is, that its destination is one,
\* and that it comes down through audiences from a target.
Leads(transports) ==
    {<<points[i].of, Point(i)>> : i \in {j \in 1..Len(points) : TransportOf[points[j].id] \in transports}}
    \cup {<<Spot(i)>> : i \in {j \in 1..Len(spots) : "telegram" \in transports}}
Descents(transports) ==
    Leads(transports) \cup UNION {{<<l>> \o p : p \in Leads(transports)} : l \in Locations}
Ways(targets) ==
    {w \in SeqOf(Audiences, Cardinality(Audiences)) : w # <<>> /\ w[1] \in targets /\ IsInjective(w)}
Routes(targets, transports) ==
    {p \in Descents(transports) : p[1] \in targets \ Audiences}
    \cup UNION {{w \o p : p \in Descents(transports)} : w \in Ways(targets)}

OriginsAreRoutes == frozen.origins \subseteq Routes(frozen.targets, frozen.transports)

DirectoryInvariant ==
    DirectoryTypeOK /\ Acyclic /\ OneEndpoint /\ OptOutHolds /\ GroupFiledOnce /\ OriginsAreRoutes
=============================================================================
