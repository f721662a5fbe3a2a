-------------------------- MODULE DisclosureProofs --------------------------
(***************************************************************************)
(* Proofs about Disclosure, for any clients, projects, chats, grants,      *)
(* thresholds, commands and faults: what leaves is what the owner lets out *)
(* at that moment, within the budget, and accounted for.                   *)
(*                                                                         *)
(* A step is the owner's, and then moves the authority forward and no      *)
(* record; or a call's, which leaves the authority alone; or a fault's.    *)
(***************************************************************************)
EXTENDS Disclosure, FiniteSetTheorems, SequenceTheorems, TLAPS

-----------------------------------------------------------------------------
(* The parts of the type invariant.                                        *)

Receipt == [client : Callers, items : SUBSET Item]
Project == [enabled : BOOLEAN, epoch : Nat, members : SUBSET Peers]
Decisions == {"none", "allow", "deny"}
Policy == [epoch : Nat, mode : {"allowlist", "all_cloud_chats"}, decision : [Peers -> Decisions]]

AuthorityTypes ==
    /\ security \in [epoch : Nat, locked : BOOLEAN] /\ policy \in Policy
    /\ client \in [Callers -> BOOLEAN] /\ project \in [Projects -> Project]
    /\ grant \in [Callers -> [Projects -> Grant \cup {NoGrant}]]
    /\ session \in {"active", "revoking", "logged_out"}
LeaseTypes == selection \in Nat /\ leases \in [Callers -> Nat]
CallTypes ==
    /\ DOMAIN call = Callers
    /\ \A c \in Callers : call[c] = Idle \/ call[c].tool \in GovernedTools
ReceiptTypes ==
    /\ receipts \in Seq(Receipt) /\ Len(receipts) <= MaxReceipts /\ aged \in 0..Len(receipts)
AuditTypes ==
    /\ events \in Seq(Event) /\ anchored \in 0..Len(events)
    /\ degradedBy \in {Off} \cup 0..Len(receipts) /\ released \subseteq 1..Len(receipts)
BoundTypes == trouble \in Troubles /\ met \in 0..MaxMet

\* The type invariant may be read part by part, before a step and after it.
LEMMA TypesByPart ==
    /\ TypeOK <=> /\ AuthorityTypes /\ LeaseTypes /\ CallTypes /\ ReceiptTypes
                  /\ AuditTypes /\ BoundTypes
    /\ TypeOK' <=> /\ AuthorityTypes' /\ LeaseTypes' /\ CallTypes' /\ ReceiptTypes'
                   /\ AuditTypes' /\ BoundTypes'
  <1> USE DEF Receipt, Project, Decisions, Policy
  <1>1. receipts \in Seq(Receipt) => DOMAIN receipts = 1..Len(receipts)
    OBVIOUS
  <1>2. receipts' \in Seq(Receipt) => DOMAIN receipts' = 1..Len(receipts')
    OBVIOUS
  <1> QED
    BY <1>1, <1>2 DEF TypeOK, AuthorityTypes, LeaseTypes, CallTypes, ReceiptTypes, AuditTypes, BoundTypes

-----------------------------------------------------------------------------
(* The owner's commands.                                                   *)

\* What a change of authority may never do: keep an epoch and move what it dates.
AuthorityGrows ==
    /\ security.epoch <= security'.epoch
    /\ policy' = policy \/ policy'.epoch = policy.epoch + 1
    /\ \A p \in Projects : project'[p] = project[p] \/ project'[p].epoch = project[p].epoch + 1
    /\ session = "active" /\ security'.epoch = security.epoch => session' = "active"

AuditedStep ==
    /\ degradedBy = Off
    /\ events' = Append(events, [kind |-> "admin", ref |-> 0])
    /\ anchored' \in {Len(events'), anchored} /\ degradedBy' \in {Off, 0}

\* A step of the owner.
OwnerStep ==
    /\ AuthorityTypes' /\ AuthorityGrows /\ LeaseTypes' /\ BoundTypes'
    /\ UNCHANGED <<call, pages, receipts, aged, released>>
    /\ UNCHANGED <<events, anchored, degradedBy>> \/ AuditedStep

\* One more met is within the bound.
LEMMA MetWithin ==
    ASSUME DisclosureConstants, BoundTypes, met < MaxMet, met' = met + 1, trouble' = trouble
    PROVE  BoundTypes'
  BY DEF BoundTypes, DisclosureConstants

\* An authority that does not move.
LEMMA AuthorityStays ==
    ASSUME AuthorityTypes, UNCHANGED authority
    PROVE  AuthorityTypes' /\ AuthorityGrows
  BY DEF AuthorityTypes, AuthorityGrows, authority

\* Projects move with their epochs.
LEMMA ProjectsGrow ==
    ASSUME DisclosureConstants, AuthorityTypes, LeaseTypes, BoundTypes, OfProject,
           NEW p \in Projects, NEW q \in Project, q.epoch = project[p].epoch + 1,
           project' = [project EXCEPT ![p] = q]
    PROVE  OwnerStep
  <1>1. BoundTypes'
    BY MetWithin DEF OfProject, Change, Unaudited
  <1>2. AuthorityTypes'
    BY DEF AuthorityTypes, OfProject
  <1>3. AuthorityGrows
    BY DEF AuthorityTypes, AuthorityGrows, OfProject
  <1> QED
    BY <1>1, <1>2, <1>3 DEF OwnerStep, LeaseTypes, OfProject, Change, Unaudited

\* New members under another epoch are a project still.
LEMMA MembersMove ==
    ASSUME NEW r \in Project, NEW M \in SUBSET Peers, NEW n \in Nat
    PROVE  /\ [r EXCEPT !.members = M, !.epoch = n] \in Project
           /\ [r EXCEPT !.members = M, !.epoch = n].epoch = n
  BY DEF Project

LEMMA ProjectCommands ==
    ASSUME DisclosureConstants, AuthorityTypes, LeaseTypes, BoundTypes,
           NEW p \in Projects,
           set_enabled(p) \/ rename(p) \/ \E x \in Peers : add_peer(p, x) \/ remove_peer(p, x)
    PROVE  OwnerStep
  <1>0. project \in [Projects -> Project] /\ project[p] \in Project
    BY DEF AuthorityTypes
  <1>1. CASE set_enabled(p)
    <2> DEFINE q == [enabled |-> ~project[p].enabled, epoch |-> project[p].epoch + 1,
                     members |-> project[p].members]
    <2>1. project' = [project EXCEPT ![p] = q]
      BY <1>0, <1>1 DEF set_enabled, Project
    <2>2. q \in Project /\ q.epoch = project[p].epoch + 1
      BY <1>0 DEF Project
    <2> HIDE DEF q
    <2> QED BY <1>1, <2>1, <2>2, ProjectsGrow DEF set_enabled
  <1>2. CASE rename(p)
    <2> DEFINE q == [project[p] EXCEPT !.epoch = @ + 1]
    <2>1. project' = [project EXCEPT ![p] = q]
      BY <1>0, <1>2 DEF rename, Project
    <2>2. q \in Project /\ q.epoch = project[p].epoch + 1
      BY <1>0 DEF Project
    <2> HIDE DEF q
    <2> QED BY <1>2, <2>1, <2>2, ProjectsGrow DEF rename
  <1>3. ASSUME NEW x \in Peers, add_peer(p, x) PROVE OwnerStep
    <2> DEFINE M == project[p].members \cup {x}
               q == [project[p] EXCEPT !.members = M, !.epoch = project[p].epoch + 1]
    <2>1. project' = [project EXCEPT ![p] = q]
      BY <1>3 DEF add_peer
    <2>2. M \in SUBSET Peers /\ project[p].epoch + 1 \in Nat
      BY <1>0 DEF Project
    <2>3. q \in Project /\ q.epoch = project[p].epoch + 1
      <3> HIDE DEF M
      <3>1. PICK r \in Project, n \in Nat : r = project[p] /\ n = project[p].epoch + 1
        BY <1>0, <2>2
      <3>2. [r EXCEPT !.members = M, !.epoch = n] \in Project /\ [r EXCEPT !.members = M, !.epoch = n].epoch = n
        BY <2>2, MembersMove
      <3> QED BY <3>1, <3>2
    <2> HIDE DEF q
    <2> QED BY <1>3, <2>1, <2>3, ProjectsGrow DEF add_peer
  <1>4. ASSUME NEW x \in Peers, remove_peer(p, x) PROVE OwnerStep
    <2> DEFINE M == project[p].members \ {x}
               q == [project[p] EXCEPT !.members = M, !.epoch = project[p].epoch + 1]
    <2>1. project' = [project EXCEPT ![p] = q]
      BY <1>4 DEF remove_peer
    <2>2. M \in SUBSET Peers /\ project[p].epoch + 1 \in Nat
      BY <1>0 DEF Project
    <2>3. q \in Project /\ q.epoch = project[p].epoch + 1
      <3> HIDE DEF M
      <3>1. PICK r \in Project, n \in Nat : r = project[p] /\ n = project[p].epoch + 1
        BY <1>0, <2>2
      <3>2. [r EXCEPT !.members = M, !.epoch = n] \in Project /\ [r EXCEPT !.members = M, !.epoch = n].epoch = n
        BY <2>2, MembersMove
      <3> QED BY <3>1, <3>2
    <2> HIDE DEF q
    <2> QED BY <1>4, <2>1, <2>3, ProjectsGrow DEF remove_peer
  <1> QED
    BY <1>1, <1>2, <1>3, <1>4

\* Grants move without an epoch.
LEMMA GrantCommands ==
    ASSUME DisclosureConstants, AuthorityTypes, LeaseTypes, BoundTypes,
           NEW c \in Callers, NEW p \in Projects,
           \/ revoke_grant(c, p) \/ cross_search(c, p)
           \/ \E level \in Levels : set_egress(c, p, level)
           \/ \E g \in Offers : grant_client(c, p, g)
    PROVE  OwnerStep
  <1>0. /\ grant \in [Callers -> [Projects -> Grant \cup {NoGrant}]] /\ Offers \subseteq Grant
        /\ grant[c][p] \in Grant \cup {NoGrant}
    BY DEF AuthorityTypes, DisclosureConstants
  <1>1. OfGrant
    BY DEF grant_client, set_egress, cross_search, revoke_grant
  <1>2. grant' \in [Callers -> [Projects -> Grant \cup {NoGrant}]]
    <2>1. ASSUME NEW h \in Grant \cup {NoGrant}, grant' = [grant EXCEPT ![c][p] = h]
          PROVE  grant' \in [Callers -> [Projects -> Grant \cup {NoGrant}]]
      BY <1>0, <2>1
    <2>2. CASE \E g \in Offers : grant_client(c, p, g)
      BY <1>0, <2>1, <2>2 DEF grant_client
    <2>3. ASSUME NEW level \in Levels, set_egress(c, p, level)
          PROVE  grant' \in [Callers -> [Projects -> Grant \cup {NoGrant}]]
      <3>1. grant' = [grant EXCEPT ![c][p] = [grant[c][p] EXCEPT !.level = level]]
        BY <2>3 DEF set_egress
      <3>2. [grant[c][p] EXCEPT !.level = level] \in Grant
        BY <1>0, <2>3 DEF set_egress, Grant, Levels
      <3> QED BY <2>1, <3>1, <3>2
    <2>4. CASE cross_search(c, p)
      <3>1. grant' = [grant EXCEPT ![c][p] = [grant[c][p] EXCEPT !.cross = ~@]]
        BY <2>4 DEF cross_search
      <3>2. [grant[c][p] EXCEPT !.cross = ~@] \in Grant
        BY <1>0, <2>4 DEF cross_search, Grant
      <3> QED BY <2>1, <3>1, <3>2
    <2>5. CASE revoke_grant(c, p)
      BY <1>0, <2>1, <2>5 DEF revoke_grant
    <2> QED
      BY <2>2, <2>3, <2>4, <2>5
  <1>3. BoundTypes'
    BY <1>1, MetWithin DEF OfGrant, Change, Unaudited
  <1>4. AuthorityTypes' /\ AuthorityGrows
    BY <1>1, <1>2 DEF AuthorityTypes, AuthorityGrows, OfGrant
  <1> QED
    BY <1>1, <1>3, <1>4 DEF OwnerStep, LeaseTypes, OfGrant, Change, Unaudited

\* The policy moves with its epoch; a selection is of one.
LEMMA ScopeCommands ==
    ASSUME DisclosureConstants, AuthorityTypes, LeaseTypes, BoundTypes,
           \/ scope_mode \/ scope_discover
           \/ \E x \in Peers, d \in Decisions : scope_decide(x, d)
    PROVE  OwnerStep
  <1>0. policy \in Policy /\ policy.epoch \in Nat
    BY DEF AuthorityTypes, Policy
  <1>1. CASE scope_discover
    BY <1>0, <1>1, AuthorityStays
       DEF scope_discover, OwnerStep, LeaseTypes, BoundTypes, account, bounds
  <1>2. CASE scope_mode \/ \E x \in Peers, d \in Decisions : scope_decide(x, d)
    <2>1. policy' \in Policy /\ policy'.epoch = policy.epoch + 1
      <3>1. CASE scope_mode
        <4>1. PICK m \in {"allowlist", "all_cloud_chats"} :
                 policy' = [policy EXCEPT !.mode = m, !.epoch = policy.epoch + 1]
          BY <3>1 DEF scope_mode
        <4>2. policy' = [epoch |-> policy.epoch + 1, mode |-> m, decision |-> policy.decision]
          BY <1>0, <4>1 DEF Policy
        <4> QED BY <1>0, <4>2 DEF Policy
      <3>2. ASSUME NEW x \in Peers, NEW d \in Decisions, scope_decide(x, d)
            PROVE  policy' \in Policy /\ policy'.epoch = policy.epoch + 1
        <4> DEFINE D == [policy.decision EXCEPT ![x] = d]
        <4>1. D \in [Peers -> Decisions]
          BY <1>0 DEF Policy, Decisions
        <4>2. policy' = [epoch |-> policy.epoch + 1, mode |-> policy.mode, decision |-> D]
          BY <1>0, <3>2 DEF Policy, scope_decide
        <4> HIDE DEF D
        <4> QED BY <1>0, <4>1, <4>2 DEF Policy
      <3> QED BY <1>2, <3>1, <3>2
    <2>2. OfPolicy /\ selection' \in Nat
      <3>1. OfPolicy /\ (selection' = selection \/ selection' = 0)
        BY <1>2, Zenon DEF scope_mode, scope_decide
      <3> QED BY <3>1 DEF LeaseTypes
    <2>3. BoundTypes'
      BY <2>2, MetWithin DEF OfPolicy, Change, Unaudited
    <2>4. AuthorityTypes' /\ AuthorityGrows
      BY <2>1, <2>2 DEF AuthorityTypes, AuthorityGrows, OfPolicy
    <2> QED
      BY <2>2, <2>3, <2>4 DEF OwnerStep, LeaseTypes, OfPolicy, Change, Unaudited
  <1> QED
    BY <1>1, <1>2

\* Clients, sessions and the lock move with the security epoch, or leave what it
\* dates alone.
LEMMA ClientCommands ==
    ASSUME DisclosureConstants, AuthorityTypes, LeaseTypes, BoundTypes,
           \/ \E c \in Callers : client_disable(c) \/ client_rotate(c)
           \/ revoke_client_auth \/ bind_login \/ revoke_session
    PROVE  OwnerStep
  <1>0. security \in [epoch : Nat, locked : BOOLEAN] /\ security.epoch \in Nat
    BY DEF AuthorityTypes
  <1>1. PICK kind : OfClient(kind)
    BY DEF client_disable, client_rotate, revoke_client_auth, bind_login, revoke_session
  <1>2. BoundTypes'
    BY <1>1, MetWithin DEF OfClient, Change, Unaudited
  <1>3. /\ client' \in [Callers -> BOOLEAN] /\ LeaseTypes'
        /\ session' \in {"active", "revoking", "logged_out"}
    <2>1. selection' = selection
      BY <1>1 DEF OfClient
    <2>2. client' \in [Callers -> BOOLEAN]
      <3>1. client \in [Callers -> BOOLEAN]
        BY DEF AuthorityTypes
      <3>2. \/ client' = client \/ client' = [c \in Callers |-> FALSE]
            \/ \E c \in Callers, b \in BOOLEAN : client' = [client EXCEPT ![c] = b]
        BY DEF client_disable, client_rotate, revoke_client_auth, bind_login, revoke_session
      <3> QED BY <3>1, <3>2
    <2>3. leases' \in [Callers -> Nat]
      <3>1. leases \in [Callers -> Nat]
        BY DEF LeaseTypes
      <3>2. \/ leases' = leases \/ leases' = [c \in Callers |-> 0]
            \/ \E c \in Callers : leases' = [leases EXCEPT ![c] = 0]
        BY DEF client_disable, client_rotate, revoke_client_auth, bind_login, revoke_session
      <3> QED BY <3>1, <3>2
    <2>4. session' \in {"active", "revoking", "logged_out"}
      BY DEF AuthorityTypes,
             client_disable, client_rotate, revoke_client_auth, bind_login, revoke_session
    <2> QED BY <2>1, <2>2, <2>3, <2>4 DEF LeaseTypes
  <1>4. \/ security' = security /\ session' = session
        \/ security' = [security EXCEPT !.epoch = security.epoch + 1]
    BY DEF client_disable, client_rotate, revoke_client_auth, bind_login, revoke_session
  <1>5. /\ security' \in [epoch : Nat, locked : BOOLEAN]
        /\ \/ security'.epoch = security.epoch /\ session' = session
           \/ security'.epoch = security.epoch + 1
    BY <1>0, <1>4
  <1>6. AuthorityTypes' /\ AuthorityGrows
    BY <1>0, <1>1, <1>3, <1>5 DEF AuthorityTypes, AuthorityGrows, OfClient
  <1> QED
    BY <1>1, <1>2, <1>3, <1>6 DEF OwnerStep, OfClient, Change, Unaudited

LEMMA LockCommands ==
    ASSUME DisclosureConstants, AuthorityTypes, LeaseTypes, BoundTypes,
           \/ \E locked \in BOOLEAN : set_locked(locked)
           \/ finish_revocation
    PROVE  OwnerStep
  <1>1. ASSUME NEW locked \in BOOLEAN, set_locked(locked) PROVE OwnerStep
    <2>1. BoundTypes'
      BY <1>1, MetWithin DEF set_locked, Change
    <2>2. AuthorityTypes' /\ AuthorityGrows
      BY <1>1 DEF AuthorityTypes, AuthorityGrows, set_locked
    <2>3. AuditedStep
      BY <1>1 DEF AuditedStep, set_locked
    <2> QED
      BY <1>1, <2>1, <2>2, <2>3 DEF OwnerStep, LeaseTypes, set_locked, Change
  <1>2. CASE finish_revocation
    <2>1. AuthorityTypes' /\ AuthorityGrows
      BY <1>2 DEF AuthorityTypes, AuthorityGrows, finish_revocation
    <2> QED
      BY <1>2, <2>1 DEF OwnerStep, LeaseTypes, BoundTypes, finish_revocation, account, memory, bounds
  <1> QED
    BY <1>1, <1>2

\* Every command of the owner is a step of the owner.
LEMMA CommandsAreTheOwners ==
    ASSUME DisclosureConstants, AuthorityTypes, LeaseTypes, BoundTypes, Commands
    PROVE  OwnerStep
  <1> QED
    BY ProjectCommands, GrantCommands, ScopeCommands, ClientCommands, LockCommands DEF Commands, Decisions

-----------------------------------------------------------------------------
(* Snapshots.                                                              *)

\* A snapshot stays faithful whatever the owner does.
LEMMA FaithfulStays ==
    ASSUME AuthorityTypes, AuthorityTypes', AuthorityGrows, NEW s, Faithful(s)
    PROVE  Faithful(s)'
  <1>1. /\ security.epoch \in Nat /\ security'.epoch \in Nat
        /\ policy.epoch \in Nat /\ policy'.epoch \in Nat
        /\ \A p \in Projects : project[p].epoch \in Nat /\ project'[p].epoch \in Nat
    BY DEF AuthorityTypes, Policy, Project
  <1>2. /\ s.tool \in GovernedTools /\ s.refs \subseteq Projects
        /\ s.scope \in [s.refs -> [epoch : Nat, grant : Grant]]
        /\ s.readable \in [s.refs -> SUBSET Peers]
    BY DEF Faithful
  <1>3. s.security \in 0..security'.epoch
    BY <1>1 DEF Faithful, AuthorityGrows
  <1>4. s.policy \in 0..policy'.epoch /\ (s.policy = policy'.epoch => policy' = policy)
    BY <1>1 DEF Faithful, AuthorityGrows
  <1>5. ASSUME NEW p \in s.refs
        PROVE  /\ s.scope[p].epoch <= project'[p].epoch
               /\ s.tool = "cross_project_search" => s.scope[p].grant.cross
               /\ s.tool = "list_projects" => s.readable[p] = {}
               /\ s.tool # "list_projects" /\ s.policy = policy'.epoch
                     /\ s.scope[p].epoch = project'[p].epoch =>
                        s.readable[p] = {x \in project'[p].members : owner_allows(x)'}
    <2>1. p \in Projects /\ s.scope[p].epoch \in Nat
      BY <1>2
    <2>2. s.scope[p].epoch <= project[p].epoch
      BY DEF Faithful
    <2>3. s.scope[p].epoch <= project'[p].epoch
          /\ (s.scope[p].epoch = project'[p].epoch => project'[p] = project[p])
      BY <1>1, <2>1, <2>2 DEF AuthorityGrows
    <2>4. policy' = policy => \A x \in Peers : owner_allows(x)' <=> owner_allows(x)
      BY DEF owner_allows
    <2>5. project[p].members \subseteq Peers
      BY <2>1 DEF AuthorityTypes, Project
    <2>6. ASSUME s.tool # "list_projects", s.policy = policy'.epoch,
                 s.scope[p].epoch = project'[p].epoch
          PROVE  s.readable[p] = {x \in project'[p].members : owner_allows(x)'}
      <3>1. policy' = policy /\ project'[p] = project[p]
        BY <1>4, <2>3, <2>6
      <3>2. s.readable[p] = {x \in project[p].members : owner_allows(x)}
        BY <2>6, <3>1 DEF Faithful
      <3> QED BY <2>4, <2>5, <3>1, <3>2
    <2>7. /\ s.tool = "cross_project_search" => s.scope[p].grant.cross
          /\ s.tool = "list_projects" => s.readable[p] = {}
      BY DEF Faithful
    <2> QED
      BY <2>3, <2>6, <2>7
  <1> QED
    BY <1>2, <1>3, <1>4, <1>5 DEF Faithful

\* So do the call that works from it and its cursor.
LEMMA FaithfulCallStays ==
    ASSUME AuthorityTypes, AuthorityTypes', AuthorityGrows, NEW c, NEW r, FaithfulCall(c, r)
    PROVE  FaithfulCall(c, r)'
  <1>1. PICK s : s = r.snap
    OBVIOUS
  <1>2. PICK k : k = r.from
    OBVIOUS
  <1>3. Faithful(s)'
    BY <1>1, FaithfulStays DEF FaithfulCall
  <1>4. PICK t : t = k.snap
    OBVIOUS
  <1>5. k # FirstPage => Faithful(t)'
    BY <1>2, <1>4, FaithfulStays DEF FaithfulCall
  <1>6. s.tool # "list_projects" /\ s.security = security'.epoch => session' = "active"
    <2>1. s.security \in Nat /\ security.epoch \in Nat /\ security'.epoch \in Nat
          /\ s.security <= security.epoch /\ security.epoch <= security'.epoch
      BY <1>1 DEF FaithfulCall, Faithful, AuthorityTypes, AuthorityGrows
    <2>2. s.security = security'.epoch => s.security = security.epoch /\ security'.epoch = security.epoch
      BY <2>1
    <2>3. s.tool # "list_projects" /\ s.security = security.epoch => session = "active"
      BY <1>1 DEF FaithfulCall
    <2> QED BY <2>2, <2>3 DEF AuthorityGrows
  <1> QED
    BY <1>1, <1>2, <1>3, <1>4, <1>5, <1>6 DEF FaithfulCall, check_cursor

\* A snapshot that is served is faithful.
LEMMA SnapshotIsFaithful ==
    ASSUME AuthorityTypes, NEW c \in Callers, NEW tool \in GovernedTools,
           NEW refs \in SUBSET Projects, served(c, tool, refs)
    PROVE  /\ Faithful(snapshot(c, tool, refs))
           /\ snapshot(c, tool, refs).tool = tool
           /\ snapshot(c, tool, refs).security = security.epoch
           /\ tool # "list_projects" => session = "active"
  <1> DEFINE all == Refs(c, tool, refs)
             s == snapshot(c, tool, refs)
  <1>1. all \subseteq Projects /\ discover(c, all)
    BY DEF Refs, visible, served
  <1>2. /\ s.tool = tool /\ s.refs = all /\ s.security = security.epoch /\ s.policy = policy.epoch
        /\ s.scope = scope_entries(c, all)
        /\ s.readable = [p \in all |-> IF tool = "list_projects" THEN {} ELSE readable_members(c, p)]
    BY DEF snapshot
  <1> HIDE DEF s, all
  <1>3. security.epoch \in Nat /\ policy.epoch \in Nat
    BY DEF AuthorityTypes, Policy
  <1>4. ASSUME NEW p \in all
        PROVE  /\ p \in Projects /\ project[p].epoch \in Nat /\ project[p].members \subseteq Peers
               /\ grant[c][p] \in Grant
               /\ s.scope[p].epoch = project[p].epoch /\ s.scope[p].grant = grant[c][p]
    BY <1>1, <1>2, <1>4 DEF discover, AuthorityTypes, Project, scope_entries
  <1>5. s.scope \in [all -> [epoch : Nat, grant : Grant]]
    BY <1>2, <1>4 DEF scope_entries
  <1>6. ASSUME NEW p \in all, tool # "list_projects"
        PROVE  /\ s.readable[p] = {x \in project[p].members : owner_allows(x)}
               /\ s.readable[p] \subseteq Peers
    <2>1. s.readable[p] = {x \in project[p].members : discover(c, {p}) /\ owner_allows(x)}
      BY <1>2, <1>6 DEF readable_members
    <2>2. discover(c, {p})
      BY <1>1 DEF discover
    <2> QED BY <1>4, <2>1, <2>2
  <1>7. ASSUME NEW p \in all PROVE s.readable[p] \subseteq Peers /\ (tool = "list_projects" => s.readable[p] = {})
    BY <1>2, <1>6, <1>7
  <1>8. s.readable \in [all -> SUBSET Peers]
    BY <1>2, <1>7
  <1>9. ASSUME NEW p \in all, tool = "cross_project_search" PROVE s.scope[p].grant.cross
    <2>1. p \in refs
      BY <1>9 DEF all, Refs
    <2>2. grant[c][p].cross
      BY <1>9, <2>1 DEF served
    <2>3. s.scope[p].grant = grant[c][p]
      BY <1>4
    <2> QED BY <2>2, <2>3
  <1>10. Faithful(s)
    BY <1>1, <1>2, <1>3, <1>4, <1>5, <1>6, <1>7, <1>8, <1>9 DEF Faithful
  <1> QED
    BY <1>2, <1>10 DEF s, served

-----------------------------------------------------------------------------
(* The exposure budget.                                                    *)

\* The image of a finite set is finite and not larger.
LEMMA ImageIsSmaller ==
    ASSUME NEW S, IsFiniteSet(S), NEW f, DOMAIN f = S, f = [x \in S |-> f[x]]
    PROVE  /\ IsFiniteSet({f[x] : x \in S})
           /\ Cardinality({f[x] : x \in S}) <= Cardinality(S)
  <1> DEFINE T == {f[x] : x \in S}
  <1>1. f \in Surjection(S, T)
    BY DEF Surjection
  <1> HIDE DEF T
  <1>2. IsFiniteSet(T) /\ Cardinality(T) <= Cardinality(S)
    BY <1>1, FS_Surjection
  <1> QED
    BY <1>2 DEF T

\* The receipts of a client that count.
InWindow(c) == {n \in aged + 1..Len(receipts) : receipts[n].client = c}
FiniteItems == \A n \in 1..Len(receipts) : IsFiniteSet(receipts[n].items)

\* What is exposed is finite, and more receipts expose no less.
LEMMA ExposureIsFinite ==
    ASSUME FiniteItems, NEW N \in SUBSET (1..Len(receipts)), Len(receipts) \in Nat, NEW b
    PROVE  IsFiniteSet(exposure(N, b)) /\ Cardinality(exposure(N, b)) \in Nat
  <1> DEFINE f == [n \in N |-> {n} \X counted(receipts[n].items, b)]
             T == {f[n] : n \in N}
  <1>1. IsFiniteSet(N)
    <2>1. IsFiniteSet(1..Len(receipts))
      BY FS_Interval
    <2> QED BY <2>1, FS_Subset
  <1>2. IsFiniteSet(T)
    <2>1. DOMAIN f = N /\ f = [n \in N |-> f[n]]
      OBVIOUS
    <2> HIDE DEF f
    <2> QED BY <1>1, <2>1, ImageIsSmaller
  <1>3. ASSUME NEW n \in N PROVE IsFiniteSet(f[n])
    <2>1. IsFiniteSet(receipts[n].items)
      BY DEF FiniteItems
    <2>2. counted(receipts[n].items, b) \subseteq receipts[n].items
      BY DEF counted
    <2>3. IsFiniteSet(counted(receipts[n].items, b))
      BY <2>1, <2>2, FS_Subset
    <2>4. IsFiniteSet({n} \X counted(receipts[n].items, b))
      BY <2>3, FS_Product, FS_Singleton
    <2> QED BY <2>4
  <1>4. exposure(N, b) = UNION T
    BY DEF exposure
  <1> HIDE DEF f
  <1>5. \A t \in T : IsFiniteSet(t)
    BY <1>3
  <1> HIDE DEF T
  <1>6. IsFiniteSet(UNION T)
    BY <1>2, <1>5, FS_UNION
  <1> QED
    BY <1>4, <1>6, FS_CardinalityType

LEMMA ExposureGrows ==
    ASSUME FiniteItems, NEW M \in SUBSET (1..Len(receipts)), NEW N \in SUBSET M,
           Len(receipts) \in Nat, NEW b
    PROVE  Cardinality(exposure(N, b)) <= Cardinality(exposure(M, b))
  <1>1. exposure(N, b) \subseteq exposure(M, b)
    BY DEF exposure
  <1> QED
    BY <1>1, ExposureIsFinite, FS_Subset

\* What is committed is a number.
LEMMA UsageIsNumber ==
    ASSUME ReceiptTypes, FiniteItems, NEW c, NEW b
    PROVE  /\ InWindow(c) \in SUBSET (1..Len(receipts))
           /\ committed_usage(c, b) = Cardinality(exposure(InWindow(c), b))
           /\ committed_usage(c, b) \in Nat
  <1>1. Len(receipts) \in Nat /\ aged \in Nat
    BY DEF ReceiptTypes
  <1>2. InWindow(c) \in SUBSET (1..Len(receipts))
    BY <1>1 DEF InWindow
  <1>3. committed_usage(c, b) = Cardinality(exposure(InWindow(c), b))
    BY DEF committed_usage, InWindow
  <1> QED
    BY <1>1, <1>2, <1>3, ExposureIsFinite

\* What is released is committed.
LEMMA SentIsCommitted ==
    ASSUME ReceiptTypes, FiniteItems, released \subseteq 1..Len(receipts), NEW c, NEW b
    PROVE  Sent(c, b) <= committed_usage(c, b)
  <1> DEFINE S == {n \in released : n > aged /\ receipts[n].client = c}
  <1>1. Len(receipts) \in Nat /\ aged \in Nat
    BY DEF ReceiptTypes
  <1>2. ASSUME NEW n \in S PROVE n \in InWindow(c)
    <2>1. n \in 1..Len(receipts) /\ n > aged /\ receipts[n].client = c
      BY DEF ReceiptTypes
    <2>2. n \in aged + 1..Len(receipts)
      BY <1>1, <2>1
    <2> QED BY <2>1, <2>2 DEF InWindow
  <1>3. Sent(c, b) = Cardinality(exposure(S, b))
    BY DEF Sent
  <1> HIDE DEF S
  <1> QED
    BY <1>1, <1>2, <1>3, UsageIsNumber, ExposureGrows

\* A reservation is a number.
LEMMA WorstCaseIsNumber ==
    ASSUME DisclosureConstants, NEW s, s.refs \subseteq Projects, NEW b
    PROVE  worst_case(s, b) \in Nat
  <1>1. Cardinality(s.refs) \in Nat
    BY FS_Subset, FS_CardinalityType DEF DisclosureConstants
  <1> QED
    BY <1>1 DEF worst_case, DisclosureConstants

\* A disclosure exposes no more than its call reserved.
LEMMA WorstCaseHolds ==
    ASSUME DisclosureConstants, NEW s, s.refs \subseteq Projects,
           s.readable \in [s.refs -> SUBSET Peers], NEW rows \in SUBSET found(s),
           IF s.tool = "list_projects" THEN rows = s.refs ELSE Cardinality(rows) <= PageLimit,
           NEW b \in Buckets
    PROVE  /\ IsFiniteSet({item(s, x) : x \in rows})
           /\ Cardinality(counted({item(s, x) : x \in rows}, b)) <= worst_case(s, b)
           /\ worst_case(s, b) \in Nat
  <1> DEFINE f == [x \in rows |-> item(s, x)]
             I == {item(s, x) : x \in rows}
  <1>1. IsFiniteSet(s.refs) /\ Cardinality(s.refs) \in Nat
    BY FS_Subset, FS_CardinalityType DEF DisclosureConstants
  <1>2. IsFiniteSet(rows)
    <2>1. CASE s.tool = "list_projects"
      BY <1>1, <2>1
    <2>2. CASE s.tool # "list_projects"
      <3>1. rows \subseteq Peers
        BY <2>2 DEF found
      <3> QED BY <3>1, FS_Subset DEF DisclosureConstants
    <2> QED BY <2>1, <2>2
  <1>3. IsFiniteSet(I) /\ Cardinality(I) <= Cardinality(rows)
    <2>1. DOMAIN f = rows /\ f = [x \in rows |-> f[x]] /\ I = {f[x] : x \in rows}
      OBVIOUS
    <2> HIDE DEF f, I
    <2> QED BY <1>2, <2>1, ImageIsSmaller
  <1>4. Cardinality(I) \in Nat /\ Cardinality(rows) \in Nat /\ PageLimit \in Nat
    BY <1>2, <1>3, FS_CardinalityType DEF DisclosureConstants
  <1>5. worst_case(s, b) \in Nat
    BY <1>1, <1>4 DEF worst_case
  <1>6. /\ IsFiniteSet(counted(I, b)) /\ Cardinality(counted(I, b)) <= Cardinality(I)
        /\ Cardinality(counted(I, b)) \in Nat
    <2>1. counted(I, b) \subseteq I
      BY DEF counted
    <2> HIDE DEF I
    <2> QED BY <1>3, <2>1, FS_Subset, FS_CardinalityType
  <1>7. ASSUME NEW x \in rows
        PROVE  item(s, x).charged = IF s.tool = "list_projects" THEN {} ELSE origins(s, x)
    BY DEF item
  <1>8. Cardinality(counted(I, b)) <= worst_case(s, b)
    <2>0. s.tool = "list_projects" => rows = s.refs
      OBVIOUS
    <2>1. CASE s.tool = "list_projects" /\ b = GLOBAL
      <3>1. worst_case(s, b) = Cardinality(s.refs)
        BY <2>1 DEF worst_case
      <3> HIDE DEF I
      <3> QED BY <1>1, <1>3, <1>4, <1>6, <2>0, <2>1, <3>1
    <2>2. CASE s.tool # "list_projects" /\ (b = GLOBAL \/ b \in s.refs)
      <3>1. worst_case(s, b) = PageLimit /\ Cardinality(rows) <= PageLimit
        BY <2>2 DEF worst_case
      <3> HIDE DEF I
      <3> QED BY <1>3, <1>4, <1>6, <3>1
    <2>3. CASE b # GLOBAL /\ (s.tool = "list_projects" \/ b \notin s.refs)
      <3>1. \A x \in rows : b \notin item(s, x).charged
        BY <1>7, <2>3 DEF origins
      <3>2. counted(I, b) = {}
        BY <2>3, <3>1 DEF counted
      <3> HIDE DEF I
      <3> QED BY <1>5, <3>2, FS_EmptySet
    <2> QED
      BY <2>1, <2>2, <2>3
  <1> QED
    BY <1>3, <1>5, <1>8

-----------------------------------------------------------------------------
(* A disclosure commits.                                                   *)

\* The least of some levels is one of them.
LEMMA LeastLevel ==
    ASSUME NEW S \in SUBSET Levels, S # {}
    PROVE  Min(S) \in S /\ \A y \in S : Min(S) <= y
  <1>1. \E x \in S : \A y \in S : x <= y
    <2>1. CASE 0 \in S
      BY <2>1 DEF Levels
    <2>2. CASE 0 \notin S /\ 1 \in S
      BY <2>2 DEF Levels
    <2>3. CASE 0 \notin S /\ 1 \notin S
      <3>1. \A y \in S : y = 2
        BY <2>3 DEF Levels
      <3> QED BY <3>1
    <2> QED BY <2>1, <2>2, <2>3
  <1> QED
    BY <1>1 DEF Min

\* What a record of a faithful snapshot says of itself.
LEMMA ItemFacts ==
    ASSUME NEW s, Faithful(s), NEW x \in found(s)
    PROVE  /\ item(s, x) \in Item
           /\ item(s, x).of = x /\ item(s, x).tool = s.tool /\ item(s, x).from = origins(s, x)
           /\ origins(s, x) \subseteq s.refs /\ origins(s, x) # {}
           /\ s.tool # "list_projects" =>
                 \A p \in origins(s, x) : x \in s.readable[p]
                                          /\ item(s, x).level <= s.scope[p].grant.level
  <1>1. /\ s.tool \in GovernedTools /\ s.refs \subseteq Projects
        /\ s.scope \in [s.refs -> [epoch : Nat, grant : Grant]]
        /\ s.readable \in [s.refs -> SUBSET Peers]
    BY DEF Faithful
  <1>2. /\ origins(s, x) \subseteq s.refs /\ origins(s, x) # {} /\ x \in Peers \cup Projects
        /\ s.tool # "list_projects" => \A p \in origins(s, x) : x \in s.readable[p]
    BY <1>1 DEF origins, found
  <1> DEFINE S == {s.scope[p].grant.level : p \in origins(s, x)}
  <1>3. S \in SUBSET Levels /\ S # {}
    BY <1>1, <1>2 DEF Grant
  <1>4. Min(S) \in Levels /\ \A p \in origins(s, x) : Min(S) <= s.scope[p].grant.level
    <2>1. \A p \in origins(s, x) : s.scope[p].grant.level \in S
      OBVIOUS
    <2> HIDE DEF S
    <2> QED BY <1>3, <2>1, LeastLevel
  <1>5. egress(s, x) = IF s.tool = "list_projects" THEN 0 ELSE Min(S)
    BY DEF egress
  <1> HIDE DEF S
  <1>6. 0 \in Levels
    BY DEF Levels
  <1>7. egress(s, x) \in Levels
    BY <1>4, <1>5, <1>6
  <1>8. /\ item(s, x).of = x /\ item(s, x).tool = s.tool /\ item(s, x).from = origins(s, x)
        /\ item(s, x).level = egress(s, x)
    BY DEF item
  <1>9. item(s, x) \in Item
    BY <1>1, <1>2, <1>7 DEF item, Item
  <1> QED
    BY <1>2, <1>4, <1>5, <1>8, <1>9

\* What a call commits: records of its snapshot, within its reservation.
LEMMA CommitFacts ==
    ASSUME DisclosureConstants, CallsAreFaithful, NEW c \in Callers, NEW rows, commit(c, rows)
    PROVE  \E I \in SUBSET Item :
              /\ receipts' = Append(receipts, [client |-> c, items |-> I])
              /\ events' = Append(events, [kind |-> "disclosure", ref |-> Len(receipts')])
              /\ call[c] # Idle /\ IsFiniteSet(I)
              /\ \A b \in Buckets :
                    /\ worst_case(call[c].snap, b) \in Nat
                    /\ Cardinality(counted(I, b)) <= worst_case(call[c].snap, b)
  <1>1. PICK s : s = call[c].snap
    OBVIOUS
  <1>2. Faithful(s) /\ rows \in SUBSET found(s)
    BY <1>1 DEF commit, CallsAreFaithful, FaithfulCall
  <1>3. s.refs \subseteq Projects /\ s.readable \in [s.refs -> SUBSET Peers]
    BY <1>2 DEF Faithful
  <1>4. IF s.tool = "list_projects" THEN rows = s.refs ELSE Cardinality(rows) <= PageLimit
    BY <1>1 DEF commit
  <1> DEFINE I == {item(s, x) : x \in rows}
  <1>5. \A x \in rows : item(s, x) \in Item
    BY <1>2, ItemFacts
  <1>6. I \in SUBSET Item
    BY <1>5
  <1>7. IsFiniteSet(I)
    <2>1. GLOBAL \in Buckets
      BY DEF Buckets
    <2> QED BY <1>2, <1>3, <1>4, <2>1, WorstCaseHolds
  <1>8. \A b \in Buckets : worst_case(s, b) \in Nat /\ Cardinality(counted(I, b)) <= worst_case(s, b)
    BY <1>2, <1>3, <1>4, WorstCaseHolds
  <1>9. /\ receipts' = Append(receipts, [client |-> c, items |-> I])
        /\ events' = Append(events, [kind |-> "disclosure", ref |-> Len(receipts')])
        /\ call[c] # Idle
    BY <1>1 DEF commit
  <1> HIDE DEF I
  <1> QED
    BY <1>1, <1>6, <1>7, <1>8, <1>9

\* Of every client but the one that commits nothing more is used; of that one at
\* most what it commits.
LEMMA UsageAfterCommit ==
    ASSUME ReceiptTypes, FiniteItems, NEW c \in Callers, NEW I \in SUBSET Item, IsFiniteSet(I),
           receipts' = Append(receipts, [client |-> c, items |-> I]), aged' = aged,
           NEW b
    PROVE  /\ receipts' \in Seq(Receipt) /\ Len(receipts') = Len(receipts) + 1
           /\ FiniteItems'
           /\ \A d \in Callers : d # c => committed_usage(d, b)' = committed_usage(d, b)
           /\ committed_usage(c, b)' <= committed_usage(c, b) + Cardinality(counted(I, b))
           /\ committed_usage(c, b)' \in Nat /\ Cardinality(counted(I, b)) \in Nat
  <1> DEFINE r == [client |-> c, items |-> I]
             m == Len(receipts) + 1
  <1>1. receipts \in Seq(Receipt) /\ Len(receipts) \in Nat /\ aged \in Nat /\ aged < m
    BY DEF ReceiptTypes
  <1>2. r \in Receipt /\ r.client = c /\ r.items = I
    BY DEF Receipt
  <1> HIDE DEF r
  <1>3. /\ receipts' \in Seq(Receipt) /\ Len(receipts') = m /\ receipts'[m] = r
        /\ \A n \in 1..Len(receipts) : receipts'[n] = receipts[n]
    BY <1>1, <1>2 DEF r
  <1>4. FiniteItems'
    BY <1>1, <1>2, <1>3 DEF FiniteItems
  <1>5. ASSUME NEW N \in SUBSET (1..Len(receipts)) PROVE exposure(N, b)' = exposure(N, b)
    <2>1. \A n \in N : receipts'[n] = receipts[n]
      BY <1>3
    <2> QED BY <2>1 DEF exposure
  <1>6. ASSUME NEW d \in Callers, d # c PROVE committed_usage(d, b)' = committed_usage(d, b)
    <2>1. PICK N : N = InWindow(d)
      OBVIOUS
    <2>2. InWindow(d)' = N
      BY <1>1, <1>2, <1>3, <1>6, <2>1 DEF InWindow
    <2>3. N \in SUBSET (1..Len(receipts)) /\ committed_usage(d, b) = Cardinality(exposure(N, b))
      BY <2>1, UsageIsNumber
    <2>4. committed_usage(d, b)' = Cardinality(exposure(N, b)')
      BY <2>2 DEF committed_usage, InWindow, exposure
    <2> QED BY <1>5, <2>3, <2>4
  <1> DEFINE W == InWindow(c)
             A == {m} \X counted(I, b)
  <1>7. W \in SUBSET (1..Len(receipts)) /\ committed_usage(c, b) = Cardinality(exposure(W, b))
        /\ IsFiniteSet(exposure(W, b))
    BY <1>1, UsageIsNumber, ExposureIsFinite
  <1>8. InWindow(c)' = W \cup {m}
    BY <1>1, <1>2, <1>3 DEF InWindow
  <1>9. committed_usage(c, b)' = Cardinality(exposure(W, b) \cup A)
    <2>1. PICK V : V = InWindow(c)'
      OBVIOUS
    <2>2. committed_usage(c, b)' = Cardinality(exposure(V, b)')
      BY <2>1 DEF committed_usage, InWindow, exposure
    <2>3. \A t : t \in exposure(V, b)' <=> \E n \in V : t \in {n} \X counted(receipts'[n].items, b)
      BY DEF exposure
    <2>4. \A t : t \in exposure(W, b) <=> \E n \in W : t \in {n} \X counted(receipts[n].items, b)
      BY DEF exposure
    <2>5. V = W \cup {m}
      BY <1>8, <2>1
    <2>6. (\A n \in W : receipts'[n] = receipts[n]) /\ receipts'[m].items = I
      BY <1>2, <1>3, <1>7
    <2> HIDE DEF W, m
    <2>7. ASSUME NEW t PROVE t \in exposure(V, b)' <=> t \in exposure(W, b) \cup A
      BY <2>3, <2>4, <2>5, <2>6
    <2> HIDE DEF A
    <2> QED BY <2>2, <2>7
  <1>10. IsFiniteSet(counted(I, b)) /\ Cardinality(counted(I, b)) \in Nat
    <2>1. counted(I, b) \subseteq I
      BY DEF counted
    <2> QED BY <2>1, FS_Subset, FS_CardinalityType
  <1>11. IsFiniteSet(A) /\ Cardinality(A) = Cardinality(counted(I, b))
    <2>1. IsFiniteSet({m}) /\ Cardinality({m}) = 1
      BY FS_Singleton
    <2>2. IsFiniteSet(A) /\ Cardinality(A) = Cardinality({m}) * Cardinality(counted(I, b))
      BY <1>10, <2>1, FS_Product
    <2> QED BY <1>10, <2>1, <2>2
  <1> HIDE DEF A, W
  <1>12. /\ Cardinality(exposure(W, b) \cup A) \in Nat
         /\ Cardinality(exposure(W, b) \cup A) <= Cardinality(exposure(W, b)) + Cardinality(A)
    <2>1. IsFiniteSet(exposure(W, b) \cup A) /\ IsFiniteSet(exposure(W, b) \cap A)
      BY <1>7, <1>11, FS_Union, FS_Intersection
    <2>2. Cardinality(exposure(W, b) \cap A) \in Nat /\ Cardinality(exposure(W, b) \cup A) \in Nat
          /\ Cardinality(exposure(W, b)) \in Nat /\ Cardinality(A) \in Nat
      BY <1>7, <1>11, <2>1, FS_CardinalityType
    <2>3. Cardinality(exposure(W, b) \cup A)
          = Cardinality(exposure(W, b)) + Cardinality(A) - Cardinality(exposure(W, b) \cap A)
      BY <1>7, <1>11, FS_Union
    <2> QED BY <2>2, <2>3
  <1> QED
    BY <1>3, <1>4, <1>6, <1>7, <1>9, <1>10, <1>11, <1>12

-----------------------------------------------------------------------------
(* What a step that is not the owner's does to the parts of the invariant. *)

Busy == {c \in Callers : call[c] # Idle}

\* Calls end or go on with what they have.
CallsEnd ==
    /\ DOMAIN call' = Callers
    /\ \A c \in Callers : call'[c] # Idle => call[c] # Idle /\ call'[c].snap = call[c].snap

\* Every call of the proofs below counts a finite set of clients.
LEMMA BusyIsFinite ==
    ASSUME DisclosureConstants, NEW S \in SUBSET Callers
    PROVE  IsFiniteSet(S) /\ Cardinality(S) \in Nat
  BY FS_Subset, FS_CardinalityType DEF DisclosureConstants

\* A place is kept for every call, and given back.
LEMMA FitsStays ==
    ASSUME DisclosureConstants, ReceiptTypes, ReceiptsFit, receipts' = receipts, CallsEnd
    PROVE  ReceiptsFit'
  <1>1. Busy' \subseteq Busy /\ Busy \subseteq Callers
    BY DEF Busy, CallsEnd
  <1>2. PICK B \in SUBSET Callers, C \in SUBSET Callers : B = Busy /\ C = Busy' /\ C \subseteq B
    BY <1>1
  <1>3. Cardinality(C) <= Cardinality(B) /\ Cardinality(B) \in Nat /\ Cardinality(C) \in Nat
    BY <1>2, BusyIsFinite, FS_Subset
  <1>4. Len(receipts) \in Nat /\ MaxReceipts \in Nat
    BY DEF ReceiptTypes, DisclosureConstants
  <1>5. Len(receipts) + Cardinality(B) <= MaxReceipts
    BY <1>2 DEF ReceiptsFit, Busy
  <1>6. Len(receipts) + Cardinality(C) <= MaxReceipts
    BY <1>3, <1>4, <1>5
  <1> QED
    BY <1>2, <1>6 DEF ReceiptsFit, Busy

LEMMA FitsCommit ==
    ASSUME DisclosureConstants, ReceiptTypes, ReceiptsFit, Len(receipts') = Len(receipts) + 1,
           CallsEnd, NEW c \in Callers, call[c] # Idle, call'[c] = Idle
    PROVE  ReceiptsFit' /\ Len(receipts') <= MaxReceipts
  <1>1. Busy' \subseteq Busy \ {c} /\ c \in Busy /\ Busy \subseteq Callers
    BY DEF Busy, CallsEnd
  <1>2. PICK B \in SUBSET Callers, C \in SUBSET Callers :
           B = Busy /\ C = Busy' /\ C \subseteq B \ {c} /\ c \in B
    BY <1>1
  <1>3. IsFiniteSet(B) /\ Cardinality(B) \in Nat /\ Cardinality(C) \in Nat
    BY BusyIsFinite
  <1>4. Cardinality(B \ {c}) = Cardinality(B) - 1 /\ IsFiniteSet(B \ {c})
    BY <1>2, <1>3, FS_RemoveElement
  <1>5. Cardinality(C) <= Cardinality(B) - 1
    BY <1>2, <1>4, FS_Subset
  <1>6. Len(receipts) \in Nat /\ MaxReceipts \in Nat
    BY DEF ReceiptTypes, DisclosureConstants
  <1>7. Len(receipts) + Cardinality(B) <= MaxReceipts
    BY <1>2 DEF ReceiptsFit, Busy
  <1>8. Len(receipts') + Cardinality(C) <= MaxReceipts /\ Len(receipts') <= MaxReceipts
    BY <1>3, <1>5, <1>6, <1>7
  <1> QED
    BY <1>2, <1>8 DEF ReceiptsFit, Busy

\* Receipts leave the window; calls end.
LEMMA UsageStays ==
    ASSUME DisclosureConstants, ReceiptTypes, ReceiptTypes', CallsAreFaithful, UsageIsBounded,
           receipts' = receipts, aged <= aged', CallsEnd
    PROVE  UsageIsBounded'
  <1>1. FiniteItems /\ FiniteItems' /\ Len(receipts) \in Nat /\ DOMAIN receipts = 1..Len(receipts)
    BY DEF UsageIsBounded, FiniteItems, ReceiptTypes
  <1>2. ASSUME NEW c \in Callers, NEW b \in Buckets
        PROVE  committed_usage(c, b)' <= committed_usage(c, b)
               /\ committed_usage(c, b)' \in Nat /\ committed_usage(c, b) \in Nat
    <2>1. PICK M : M = InWindow(c)
      OBVIOUS
    <2>2. PICK N : N = InWindow(c)'
      OBVIOUS
    <2>3. aged \in Nat /\ aged' \in Nat
      BY DEF ReceiptTypes
    <2>4. N \subseteq M
      BY <1>1, <2>1, <2>2, <2>3 DEF InWindow
    <2>5. /\ M \in SUBSET (1..Len(receipts)) /\ committed_usage(c, b) = Cardinality(exposure(M, b))
          /\ committed_usage(c, b) \in Nat
      BY <1>1, <2>1, UsageIsNumber
    <2>6. committed_usage(c, b)' = Cardinality(exposure(N, b))
      BY <2>2 DEF committed_usage, InWindow, exposure
    <2>7. Cardinality(exposure(N, b)) <= Cardinality(exposure(M, b))
      BY <1>1, <2>4, <2>5, ExposureGrows
    <2>8. Cardinality(exposure(N, b)) \in Nat
      BY <1>1, <2>4, <2>5, ExposureIsFinite
    <2> QED BY <2>5, <2>6, <2>7, <2>8
  <1>3. Hard \in Nat
    BY DEF DisclosureConstants
  <1>4. ASSUME NEW c \in Callers, NEW b \in Buckets
        PROVE  /\ committed_usage(c, b)' < Hard
               /\ call'[c] # Idle /\ worst_case(call'[c].snap, b) > 0 =>
                     committed_usage(c, b)' + worst_case(call'[c].snap, b) < Hard
    <2>1. committed_usage(c, b)' < Hard
      <3>1. committed_usage(c, b) < Hard
        BY DEF UsageIsBounded
      <3> QED BY <1>2, <1>3, <3>1
    <2>2. ASSUME call'[c] # Idle, worst_case(call'[c].snap, b) > 0
          PROVE  committed_usage(c, b)' + worst_case(call'[c].snap, b) < Hard
      <3>1. PICK w : w = worst_case(call'[c].snap, b)
        OBVIOUS
      <3>2. call[c] # Idle /\ w = worst_case(call[c].snap, b) /\ w > 0
        BY <2>2, <3>1 DEF CallsEnd
      <3>3. committed_usage(c, b) + w < Hard
        BY <3>2 DEF UsageIsBounded
      <3>4. w \in Nat
        <4>1. PICK s : s = call[c].snap
          OBVIOUS
        <4>2. s.refs \subseteq Projects
          BY <3>2, <4>1 DEF CallsAreFaithful, FaithfulCall, Faithful
        <4> QED BY <3>2, <4>1, <4>2, WorstCaseIsNumber
      <3> QED BY <1>2, <1>3, <3>1, <3>3, <3>4
    <2> QED BY <2>1, <2>2
  <1> QED
    BY <1>1, <1>4 DEF UsageIsBounded, FiniteItems, worst_case

\* A commit keeps within what its call reserved.
LEMMA UsageCommits ==
    ASSUME DisclosureConstants, ReceiptTypes, CallsAreFaithful, UsageIsBounded, ReceiptsFit,
           NEW c \in Callers, NEW rows, commit(c, rows), aged' = aged, CallsEnd, call'[c] = Idle
    PROVE  /\ ReceiptTypes' /\ UsageIsBounded' /\ ReceiptsFit'
           /\ Len(receipts') = Len(receipts) + 1
           /\ events' = Append(events, [kind |-> "disclosure", ref |-> Len(receipts')])
  <1>1. PICK I \in SUBSET Item :
              /\ receipts' = Append(receipts, [client |-> c, items |-> I])
              /\ events' = Append(events, [kind |-> "disclosure", ref |-> Len(receipts')])
              /\ call[c] # Idle /\ IsFiniteSet(I)
              /\ \A b \in Buckets :
                    /\ worst_case(call[c].snap, b) \in Nat
                    /\ Cardinality(counted(I, b)) <= worst_case(call[c].snap, b)
    BY CommitFacts
  <1>2. FiniteItems /\ Len(receipts) \in Nat /\ aged \in 0..Len(receipts)
    BY DEF UsageIsBounded, FiniteItems, ReceiptTypes
  <1>3. receipts' \in Seq(Receipt) /\ Len(receipts') = Len(receipts) + 1 /\ FiniteItems'
    BY <1>1, <1>2, UsageAfterCommit
  <1>4. ReceiptsFit' /\ Len(receipts') <= MaxReceipts
    BY <1>1, <1>3, FitsCommit
  <1>5. ReceiptTypes'
    BY <1>2, <1>3, <1>4 DEF ReceiptTypes
  <1>6. Hard \in Nat
    BY DEF DisclosureConstants
  <1>7. ASSUME NEW d \in Callers, NEW b \in Buckets
        PROVE  /\ committed_usage(d, b)' < Hard
               /\ call'[d] # Idle /\ worst_case(call'[d].snap, b) > 0 =>
                     committed_usage(d, b)' + worst_case(call'[d].snap, b) < Hard
    <2>1. CASE d = c
      <3>1. PICK w \in Nat : w = worst_case(call[c].snap, b) /\ Cardinality(counted(I, b)) <= w
        BY <1>1
      <3>2. /\ committed_usage(c, b)' <= committed_usage(c, b) + Cardinality(counted(I, b))
            /\ committed_usage(c, b)' \in Nat /\ Cardinality(counted(I, b)) \in Nat
        BY <1>1, <1>2, UsageAfterCommit
      <3>3. committed_usage(c, b) \in Nat
        BY <1>2, UsageIsNumber
      <3>4. committed_usage(c, b) < Hard /\ (w > 0 => committed_usage(c, b) + w < Hard)
        BY <1>1, <3>1 DEF UsageIsBounded
      <3>5. committed_usage(c, b)' < Hard
        BY <1>6, <3>1, <3>2, <3>3, <3>4
      <3> QED BY <2>1, <3>5
    <2>2. CASE d # c
      <3>1. committed_usage(d, b)' = committed_usage(d, b)
        BY <1>1, <1>2, <2>2, UsageAfterCommit
      <3>2. committed_usage(d, b) < Hard
        BY DEF UsageIsBounded
      <3>3. ASSUME call'[d] # Idle, worst_case(call'[d].snap, b) > 0
            PROVE  committed_usage(d, b) + worst_case(call'[d].snap, b) < Hard
        <4>1. call[d] # Idle /\ call'[d].snap = call[d].snap
          BY <3>3 DEF CallsEnd
        <4> QED BY <3>3, <4>1 DEF UsageIsBounded
      <3> QED BY <3>1, <3>2, <3>3
    <2> QED BY <2>1, <2>2
  <1>8. DOMAIN receipts' = 1..Len(receipts')
    BY <1>3
  <1>9. UsageIsBounded'
    BY <1>3, <1>7, <1>8 DEF UsageIsBounded, FiniteItems, worst_case
  <1> QED
    BY <1>1, <1>3, <1>4, <1>5, <1>9

-----------------------------------------------------------------------------
(* The chain and the anchor.                                               *)

\* What an appended event leaves.
LEMMA EventAppended ==
    ASSUME events \in Seq(Event), NEW e \in Event, events' = Append(events, e)
    PROVE  /\ events' \in Seq(Event) /\ Len(events') = Len(events) + 1 /\ Len(events) \in Nat
           /\ events'[Len(events')] = e
           /\ \A i \in 1..Len(events) : events'[i] = events[i]
  OBVIOUS

\* An event that withholds nothing, or only what is not out.
LEMMA RecordsAfterEvent ==
    ASSUME ReceiptTypes, ReceiptTypes', AuditTypes, WithheldStaysIn,
           Len(receipts') >= Len(receipts), NEW e \in Event, events' = Append(events, e),
           e.ref <= Len(receipts'), e.kind = "repair" => e.ref \notin released,
           released' = released, anchored' \in {anchored, Len(events), Len(events')},
           degradedBy' \in {Off, degradedBy} \cup (0..Len(receipts') \ released)
    PROVE  AuditTypes' /\ WithheldStaysIn'
  <1>1. /\ events' \in Seq(Event) /\ Len(events') = Len(events) + 1 /\ Len(events) \in Nat
        /\ events'[Len(events')] = e
        /\ \A i \in 1..Len(events) : events'[i] = events[i]
    BY EventAppended DEF AuditTypes
  <1>2. /\ Len(receipts) \in Nat /\ Len(receipts') \in Nat /\ anchored \in 0..Len(events)
        /\ released \subseteq 1..Len(receipts) /\ e.ref \in Nat
        /\ degradedBy \in {Off} \cup 0..Len(receipts)
    BY DEF AuditTypes, ReceiptTypes, Event
  <1>3. /\ released \subseteq 1..Len(receipts') /\ degradedBy' \in {Off} \cup 0..Len(receipts')
        /\ anchored' \in 0..Len(events') /\ anchored <= anchored'
    BY <1>1, <1>2
  <1>4. AuditTypes'
    BY <1>1, <1>3 DEF AuditTypes
  <1>5. /\ DOMAIN events = 1..Len(events) /\ DOMAIN events' = 1..Len(events')
        /\ \A i \in DOMAIN events' : i \in DOMAIN events \/ i = Len(events')
    BY <1>1 DEF AuditTypes
  <1>6. ASSUME NEW i \in DOMAIN events' PROVE events'[i].ref \in 0..Len(receipts')
    <2>1. CASE i \in DOMAIN events
      <3>1. events[i].ref \in 0..Len(receipts)
        BY <2>1 DEF WithheldStaysIn
      <3> QED BY <1>1, <1>2, <1>5, <2>1, <3>1
    <2>2. CASE i = Len(events')
      BY <1>1, <1>2, <2>2
    <2> QED BY <1>5, <2>1, <2>2
  <1>7. ASSUME NEW n \in released
        PROVE  /\ n # degradedBy'
               /\ \A i \in DOMAIN events' : events'[i].kind = "repair" => events'[i].ref # n
               /\ \E i \in 1..anchored' : events'[i] = [kind |-> "disclosure", ref |-> n]
    <2>1. n # degradedBy'
      <3>1. n # degradedBy
        BY DEF WithheldStaysIn
      <3>2. n \in Nat /\ n # Off
        BY <1>2 DEF Off
      <3> QED BY <3>1, <3>2
    <2>2. ASSUME NEW i \in DOMAIN events', events'[i].kind = "repair" PROVE events'[i].ref # n
      <3>1. CASE i \in DOMAIN events
        BY <1>1, <1>5, <2>2, <3>1 DEF WithheldStaysIn
      <3>2. CASE i = Len(events')
        BY <1>1, <2>2, <3>2
      <3> QED BY <1>5, <3>1, <3>2
    <2>3. PICK i \in 1..anchored : events[i] = [kind |-> "disclosure", ref |-> n]
      BY DEF WithheldStaysIn
    <2>4. i \in 1..Len(events) /\ i \in 1..anchored'
      BY <1>1, <1>2, <1>3
    <2>5. events'[i] = [kind |-> "disclosure", ref |-> n]
      BY <1>1, <2>3, <2>4
    <2> QED BY <2>1, <2>2, <2>4, <2>5
  <1> QED
    BY <1>4, <1>6, <1>7 DEF WithheldStaysIn

\* The same without an event.
LEMMA RecordsStay ==
    ASSUME ReceiptTypes, ReceiptTypes', AuditTypes, WithheldStaysIn, receipts' = receipts,
           UNCHANGED <<events, released>>, anchored' \in {anchored, Len(events)}, degradedBy' = degradedBy
    PROVE  AuditTypes' /\ WithheldStaysIn'
  <1>1. /\ Len(events) \in Nat /\ anchored \in 0..Len(events) /\ anchored' \in 0..Len(events)
        /\ anchored <= anchored'
    BY DEF AuditTypes
  <1>2. AuditTypes'
    BY <1>1 DEF AuditTypes
  <1>3. \A i \in 1..anchored : i \in 1..anchored'
    BY <1>1
  <1> QED
    BY <1>2, <1>3 DEF WithheldStaysIn

\* A payload is released under the anchor that names its event.
LEMMA RecordsAfterRelease ==
    ASSUME ReceiptTypes, ReceiptTypes', AuditTypes, WithheldStaysIn,
           Len(receipts') = Len(receipts) + 1,
           events' = Append(events, [kind |-> "disclosure", ref |-> Len(receipts')]),
           released' = released \cup {Len(receipts')}, anchored' = Len(events'),
           degradedBy' = degradedBy
    PROVE  AuditTypes' /\ WithheldStaysIn'
  <1> DEFINE m == Len(receipts')
             e == [kind |-> "disclosure", ref |-> m]
  <1>1. /\ Len(receipts) \in Nat /\ m \in Nat /\ anchored \in 0..Len(events)
        /\ released \subseteq 1..Len(receipts)
        /\ degradedBy \in {Off} \cup 0..Len(receipts)
    BY DEF AuditTypes, ReceiptTypes
  <1>2. e \in Event /\ e.kind # "repair" /\ e.ref = m
    BY <1>1 DEF Event
  <1>3. events' = Append(events, e)
    OBVIOUS
  <1> HIDE DEF m, e
  <1>4. /\ events' \in Seq(Event) /\ Len(events') = Len(events) + 1 /\ Len(events) \in Nat
        /\ events'[Len(events')] = e
        /\ \A i \in 1..Len(events) : events'[i] = events[i]
    BY <1>2, <1>3, EventAppended DEF AuditTypes
  <1>5. m = Len(receipts) + 1 /\ released' = released \cup {m}
    BY DEF m
  <1>6. /\ released' \subseteq 1..m /\ degradedBy' \in {Off} \cup 0..m
        /\ anchored' \in 0..Len(events')
    <2>1. released' \subseteq 1..m
      <3>1. 1..Len(receipts) \subseteq 1..m /\ m \in 1..m
        BY <1>1, <1>5
      <3> QED BY <1>1, <1>5, <3>1
    <2>2. degradedBy' \in {Off} \cup 0..m
      <3>1. 0..Len(receipts) \subseteq 0..m
        BY <1>1, <1>5
      <3> QED BY <1>1, <3>1
    <2>3. anchored' \in 0..Len(events')
      BY <1>4
    <2> QED BY <2>1, <2>2, <2>3
  <1>7. AuditTypes'
    BY <1>4, <1>6 DEF AuditTypes, m
  <1>8. /\ DOMAIN events = 1..Len(events) /\ DOMAIN events' = 1..Len(events')
        /\ \A i \in DOMAIN events' : i \in DOMAIN events \/ i = Len(events')
    BY <1>4 DEF AuditTypes
  <1>9. ASSUME NEW i \in DOMAIN events'
        PROVE  /\ events'[i].ref \in 0..m
               /\ events'[i].kind = "repair" => events'[i].ref # m /\ events'[i] = events[i] /\ i \in DOMAIN events
    <2>1. CASE i \in DOMAIN events
      <3>1. events[i].ref \in 0..Len(receipts)
        BY <2>1 DEF WithheldStaysIn
      <3> QED BY <1>1, <1>4, <1>5, <1>8, <2>1, <3>1
    <2>2. CASE i = Len(events')
      BY <1>1, <1>2, <1>4, <2>2
    <2> QED BY <1>8, <2>1, <2>2
  <1>10. ASSUME NEW n \in released'
        PROVE  /\ n # degradedBy'
               /\ \A i \in DOMAIN events' : events'[i].kind = "repair" => events'[i].ref # n
               /\ \E i \in 1..anchored' : events'[i] = [kind |-> "disclosure", ref |-> n]
    <2>1. CASE n = m
      <3>1. n # degradedBy'
        <4>1. m # Off /\ m \notin 0..Len(receipts)
          BY <1>1, <1>5 DEF Off
        <4> QED BY <1>1, <2>1, <4>1
      <3>2. Len(events') \in 1..anchored' /\ events'[Len(events')] = [kind |-> "disclosure", ref |-> n]
        BY <1>4, <2>1 DEF e
      <3> QED BY <1>9, <2>1, <3>1, <3>2
    <2>2. CASE n \in released
      <3>1. n # degradedBy'
        BY <2>2 DEF WithheldStaysIn
      <3>2. ASSUME NEW i \in DOMAIN events', events'[i].kind = "repair" PROVE events'[i].ref # n
        <4>1. events'[i] = events[i] /\ i \in DOMAIN events
          BY <1>9, <3>2
        <4> QED BY <2>2, <3>2, <4>1 DEF WithheldStaysIn
      <3>3. PICK i \in 1..anchored : events[i] = [kind |-> "disclosure", ref |-> n]
        BY <2>2 DEF WithheldStaysIn
      <3>4. i \in 1..Len(events) /\ i \in 1..anchored'
        BY <1>1, <1>4
      <3>5. events'[i] = [kind |-> "disclosure", ref |-> n]
        BY <1>4, <3>3, <3>4
      <3> QED BY <3>1, <3>2, <3>4, <3>5
    <2> QED BY <1>5, <2>1, <2>2
  <1> QED
    BY <1>7, <1>9, <1>10 DEF WithheldStaysIn, m

-----------------------------------------------------------------------------
(* Every step.                                                             *)

\* Cursors and calls stay faithful through the owner's steps and one's own end.
LEMMA FaithStays ==
    ASSUME AuthorityTypes, AuthorityTypes', AuthorityGrows, PagesAreFaithful, CallsAreFaithful,
           \A k \in pages' : k \in pages \/ \E c \in Callers : call[c] # Idle /\ k = cursor(c, call[c].snap),
           \A c \in Callers : call'[c] = Idle \/ call'[c] = call[c]
    PROVE  PagesAreFaithful' /\ CallsAreFaithful'
  <1>1. ASSUME NEW k \in pages' PROVE Faithful(k.snap)'
    <2>1. PICK s : s = k.snap
      OBVIOUS
    <2>2. Faithful(s)
      <3>1. CASE k \in pages
        BY <2>1, <3>1 DEF PagesAreFaithful
      <3>2. ASSUME NEW c \in Callers, call[c] # Idle, k = cursor(c, call[c].snap) PROVE Faithful(s)
        <4>1. s = call[c].snap
          BY <2>1, <3>2 DEF cursor
        <4> QED BY <3>2, <4>1 DEF CallsAreFaithful, FaithfulCall
      <3> QED BY <3>1, <3>2
    <2>3. Faithful(s)'
      BY <2>2, FaithfulStays
    <2> QED BY <2>1, <2>3
  <1>2. ASSUME NEW c \in Callers, call'[c] # Idle PROVE FaithfulCall(c, call[c])' /\ call'[c] = call[c]
    <2>1. PICK r : r = call[c]
      OBVIOUS
    <2>2. call'[c] = r /\ FaithfulCall(c, r)
      BY <1>2, <2>1 DEF CallsAreFaithful
    <2>3. FaithfulCall(c, r)'
      BY <2>2, FaithfulCallStays
    <2> QED BY <2>1, <2>2, <2>3
  <1> QED
    BY <1>1, <1>2 DEF PagesAreFaithful, CallsAreFaithful

Sound ==
    /\ AuthorityTypes /\ LeaseTypes /\ CallTypes /\ ReceiptTypes /\ AuditTypes /\ BoundTypes
    /\ PagesAreFaithful /\ CallsAreFaithful /\ WithheldStaysIn /\ ReceiptsFit /\ UsageIsBounded

LEMMA InvariantByPart ==
    (DisclosureInvariant <=> Sound) /\ (DisclosureInvariant' <=> Sound')
  BY TypesByPart DEF DisclosureInvariant, Sound

\* The owner.
LEMMA OwnerKeeps ==
    ASSUME DisclosureConstants, Sound, Commands
    PROVE  Sound'
  <1>1. OwnerStep
    BY CommandsAreTheOwners DEF Sound
  <1>2. /\ AuthorityTypes' /\ AuthorityGrows /\ LeaseTypes' /\ BoundTypes'
        /\ UNCHANGED <<call, pages, receipts, aged, released>>
        /\ UNCHANGED <<events, anchored, degradedBy>> \/ AuditedStep
    BY <1>1 DEF OwnerStep
  <1>3. CallTypes' /\ ReceiptTypes'
    BY <1>2 DEF Sound, CallTypes, ReceiptTypes
  <1>4. CallsEnd /\ aged <= aged'
    BY <1>2 DEF CallsEnd, Sound, CallTypes, ReceiptTypes
  <1>5. PagesAreFaithful' /\ CallsAreFaithful'
    BY <1>2, FaithStays DEF Sound
  <1>6. ReceiptsFit' /\ UsageIsBounded'
    BY <1>2, <1>3, <1>4, FitsStays, UsageStays DEF Sound
  <1>7. AuditTypes' /\ WithheldStaysIn'
    <2>1. CASE UNCHANGED <<events, anchored, degradedBy>>
      BY <1>2, <1>3, <2>1, RecordsStay DEF Sound
    <2>2. CASE AuditedStep
      <3> DEFINE e == [kind |-> "admin", ref |-> 0]
      <3>1. e \in Event /\ e.kind # "repair" /\ e.ref = 0
        BY DEF Event
      <3>2. events' = Append(events, e) /\ anchored' \in {Len(events'), anchored} /\ degradedBy' \in {Off, 0}
        BY <2>2 DEF AuditedStep
      <3> HIDE DEF e
      <3>3. Len(receipts) \in Nat /\ Len(receipts') = Len(receipts)
        BY <1>2 DEF Sound, ReceiptTypes
      <3>4. 0 \in 0..Len(receipts') \ released
        BY <3>3 DEF Sound, AuditTypes
      <3>5. degradedBy' \in {Off, degradedBy} \cup (0..Len(receipts') \ released)
        BY <3>2, <3>4
      <3>6. e.ref <= Len(receipts') /\ Len(receipts') >= Len(receipts)
        BY <3>1, <3>3
      <3> QED BY <1>2, <1>3, <3>1, <3>2, <3>5, <3>6, RecordsAfterEvent DEF Sound
    <2> QED BY <1>2, <2>1, <2>2
  <1> QED
    BY <1>2, <1>3, <1>5, <1>6, <1>7 DEF Sound

\* A step that moves neither the authority nor a record.
LEMMA QuietKeeps ==
    ASSUME DisclosureConstants, Sound, UNCHANGED <<authority, account, bounds>>,
           LeaseTypes', CallTypes', PagesAreFaithful', CallsAreFaithful', CallsEnd
    PROVE  Sound'
  <1>1. /\ UNCHANGED <<receipts, aged, events, anchored, degradedBy, released, trouble, met>>
        /\ UNCHANGED authority
    BY DEF account, bounds
  <1>2. AuthorityTypes' /\ BoundTypes'
    BY <1>1, AuthorityStays DEF Sound, BoundTypes
  <1>3. ReceiptTypes' /\ aged <= aged'
    BY <1>1 DEF Sound, ReceiptTypes
  <1>4. AuditTypes' /\ WithheldStaysIn'
    BY <1>1, <1>3, RecordsStay DEF Sound
  <1>5. ReceiptsFit' /\ UsageIsBounded'
    BY <1>1, <1>3, FitsStays, UsageStays DEF Sound
  <1> QED
    BY <1>2, <1>3, <1>4, <1>5 DEF Sound

\* A call that ends, and the cursor it may leave.
LEMMA EndedCall ==
    ASSUME CallTypes, NEW c \in Callers, call' = [call EXCEPT ![c] = Idle]
    PROVE  /\ CallTypes' /\ CallsEnd /\ call'[c] = Idle
           /\ \A d \in Callers : call'[d] = Idle \/ call'[d] = call[d]
  <1>1. DOMAIN call' = Callers /\ call'[c] = Idle /\ \A d \in Callers : d # c => call'[d] = call[d]
    BY DEF CallTypes
  <1>2. CallTypes'
    BY <1>1 DEF CallTypes
  <1>3. CallsEnd
    <2>1. ASSUME NEW d \in Callers, call'[d] # Idle
          PROVE  call[d] # Idle /\ call'[d].snap = call[d].snap
      <3>1. call'[d] = call[d]
        BY <1>1, <2>1
      <3> QED BY <2>1, <3>1
    <2> QED BY <1>1, <2>1 DEF CallsEnd
  <1> QED
    BY <1>1, <1>2, <1>3

LEMMA LeftCursor ==
    ASSUME NEW c \in Callers, call[c] # Idle, next_cursor(c, call[c].snap)
    PROVE  \A k \in pages' : k \in pages \/ \E d \in Callers : call[d] # Idle /\ k = cursor(d, call[d].snap)
  <1>1. pages' \subseteq pages \cup {cursor(c, call[c].snap)}
    BY DEF next_cursor
  <1> QED
    BY <1>1

\* Leases, cursors and calls that end without a record.
LEMMA SmallCallsKeep ==
    ASSUME DisclosureConstants, Sound, NEW c \in Callers,
           \/ mint_lease(c) \/ abandon(c) \/ withdraw(c)
           \/ \E k \in pages : present_stale(c, k)
    PROVE  Sound'
  <1>1. UNCHANGED <<authority, account, bounds>>
    BY DEF mint_lease, abandon, withdraw, present_stale
  <1>2. AuthorityTypes' /\ AuthorityGrows
    BY <1>1, AuthorityStays DEF Sound
  <1>3. LeaseTypes'
    <2>1. security.epoch \in Nat /\ selection \in Nat /\ leases \in [Callers -> Nat]
      BY DEF Sound, AuthorityTypes, LeaseTypes
    <2>2. selection' = selection /\ (leases' = leases \/ leases' = [leases EXCEPT ![c] = security.epoch])
      BY DEF mint_lease, abandon, withdraw, present_stale
    <2> QED BY <2>1, <2>2 DEF LeaseTypes
  <1>4. /\ CallTypes' /\ CallsEnd
        /\ \A d \in Callers : call'[d] = Idle \/ call'[d] = call[d]
    <2>1. CASE call' = [call EXCEPT ![c] = Idle]
      BY <2>1, EndedCall DEF Sound
    <2>2. CASE call' = call
      BY <2>2 DEF Sound, CallTypes, CallsEnd
    <2>3. call' = [call EXCEPT ![c] = Idle] \/ call' = call
      BY DEF mint_lease, abandon, withdraw, present_stale
    <2> QED BY <2>1, <2>2, <2>3
  <1>5. \A k \in pages' : k \in pages \/ \E d \in Callers : call[d] # Idle /\ k = cursor(d, call[d].snap)
    <2>1. CASE withdraw(c)
      BY <2>1, LeftCursor DEF withdraw
    <2>2. CASE pages' \subseteq pages
      BY <2>2
    <2>3. withdraw(c) \/ pages' \subseteq pages
      BY DEF mint_lease, abandon, present_stale
    <2> QED BY <2>1, <2>2, <2>3
  <1>6. PagesAreFaithful' /\ CallsAreFaithful'
    BY <1>2, <1>4, <1>5, FaithStays DEF Sound
  <1> QED
    BY <1>1, <1>3, <1>4, <1>6, QuietKeeps

\* A reservation lapses.
LEMMA LapseKeeps ==
    ASSUME DisclosureConstants, Sound, NEW c \in Callers, lapse(c)
    PROVE  Sound'
  <1>1. /\ UNCHANGED <<authority, account, selection, leases, pages, bounds>>
        /\ call[c] # Idle /\ call' = [call EXCEPT ![c].reserved = FALSE]
    BY DEF lapse
  <1>2. AuthorityTypes' /\ AuthorityGrows /\ LeaseTypes' /\ UNCHANGED <<security, policy, project, session>>
    BY <1>1, AuthorityStays DEF Sound, LeaseTypes, authority
  <1>3. PICK r : r = call[c]
    OBVIOUS
  <1>4. FaithfulCall(c, r) /\ r \in {call[c]}
    BY <1>1, <1>3 DEF Sound, CallsAreFaithful
  <1>0. PICK no \in BOOLEAN : call' = [call EXCEPT ![c].reserved = no]
    BY <1>1
  <1> DEFINE q == [tool |-> r.snap.tool, snap |-> r.snap, reserved |-> no, from |-> r.from]
  <1>5. r = [tool |-> r.snap.tool, snap |-> r.snap, reserved |-> r.reserved, from |-> r.from]
    BY <1>4 DEF FaithfulCall
  <1>6. [r EXCEPT !.reserved = no] = q
    BY <1>5
  <1>7. call' = [call EXCEPT ![c] = q]
    BY <1>0, <1>3, <1>6
  <1>8. FaithfulCall(c, q)
    BY <1>4 DEF FaithfulCall
  <1>9. q.tool \in GovernedTools /\ q.snap = r.snap
    BY <1>4 DEF FaithfulCall, Faithful
  <1> HIDE DEF q
  <1>10. call'[c] = q /\ DOMAIN call' = Callers /\ \A d \in Callers : d # c => call'[d] = call[d]
    BY <1>7 DEF Sound, CallTypes
  <1>11. CallTypes' /\ CallsEnd
    BY <1>1, <1>3, <1>9, <1>10 DEF Sound, CallTypes, CallsEnd
  <1>12. CallsAreFaithful'
    <2>1. FaithfulCall(c, q)'
      BY <1>2, <1>8, FaithfulCallStays DEF Sound
    <2>2. ASSUME NEW d \in Callers, d # c, call'[d] # Idle PROVE FaithfulCall(d, call[d])'
      <3>1. PICK t : t = call[d]
        OBVIOUS
      <3>2. call'[d] = t /\ FaithfulCall(d, t)
        BY <1>10, <2>2, <3>1 DEF Sound, CallsAreFaithful
      <3>3. FaithfulCall(d, t)'
        BY <1>2, <3>2, FaithfulCallStays DEF Sound
      <3> QED BY <3>1, <3>2, <3>3
    <2> QED BY <1>10, <2>1, <2>2 DEF CallsAreFaithful
  <1>13. PagesAreFaithful'
    <2>1. ASSUME NEW k \in pages PROVE Faithful(k.snap)'
      <3>1. PICK s : s = k.snap
        OBVIOUS
      <3> QED BY <1>2, <3>1, FaithfulStays DEF Sound, PagesAreFaithful
    <2> QED BY <1>1, <2>1 DEF PagesAreFaithful
  <1> QED
    BY <1>1, <1>2, <1>11, <1>12, <1>13, QuietKeeps

\* A commit whose payload nobody gets.
LEMMA WithheldCommit ==
    ASSUME ReceiptTypes, ReceiptTypes', AuditTypes, WithheldStaysIn,
           Len(receipts') = Len(receipts) + 1,
           events' = Append(events, [kind |-> "disclosure", ref |-> Len(receipts')]),
           released' = released, anchored' = anchored, degradedBy' \in {degradedBy, Len(receipts')}
    PROVE  AuditTypes' /\ WithheldStaysIn'
  <1> DEFINE e == [kind |-> "disclosure", ref |-> Len(receipts')]
  <1>1. Len(receipts) \in Nat /\ Len(receipts') \in Nat /\ released \subseteq 1..Len(receipts)
    BY DEF AuditTypes, ReceiptTypes
  <1>2. e \in Event /\ e.kind # "repair" /\ e.ref = Len(receipts') /\ events' = Append(events, e)
    BY <1>1 DEF Event
  <1> HIDE DEF e
  <1>3. Len(receipts') \in 0..Len(receipts') \ released
    BY <1>1
  <1>4. degradedBy' \in {Off, degradedBy} \cup (0..Len(receipts') \ released)
    BY <1>3
  <1>5. e.ref <= Len(receipts') /\ Len(receipts') >= Len(receipts)
    BY <1>1, <1>2
  <1> QED
    BY <1>2, <1>4, <1>5, RecordsAfterEvent

\* A call begins: its snapshot is faithful, and its worst case fits.
LEMMA DiscloseKeeps ==
    ASSUME DisclosureConstants, Sound, NEW c \in Callers, NEW tool \in GovernedTools,
           NEW refs \in SUBSET Projects, NEW k \in pages \cup {FirstPage},
           disclose(c, tool, refs, k)
    PROVE  Sound'
  <1>1. PICK s : s = snapshot(c, tool, refs)
    OBVIOUS
  <1> DEFINE r == [tool |-> tool, snap |-> s, reserved |-> TRUE, from |-> k]
  <1>2. /\ call[c] = Idle /\ served(c, tool, refs)
        /\ Len(receipts) + Cardinality(Busy) < MaxReceipts
        /\ k # FirstPage => matches(k, c, tool, refs) /\ check_cursor(k, s)
        /\ \A b \in Buckets : worst_case(s, b) > 0 => ~refuses(c, s, b)
        /\ UNCHANGED <<authority, account, selection, leases, pages, bounds>>
    BY <1>1 DEF disclose, Busy
  <1>3. call' = [call EXCEPT ![c] = r]
    BY <1>1 DEF disclose
  <1>4. /\ Faithful(s) /\ s.tool = tool /\ s.security = security.epoch
        /\ tool # "list_projects" => session = "active"
    BY <1>1, <1>2, SnapshotIsFaithful DEF Sound
  <1>5. /\ UNCHANGED <<receipts, aged, events, anchored, degradedBy, released, trouble, met>>
        /\ UNCHANGED <<selection, leases, pages>> /\ UNCHANGED authority
    BY <1>2 DEF account, bounds
  <1>6. /\ AuthorityTypes' /\ AuthorityGrows /\ LeaseTypes' /\ BoundTypes' /\ ReceiptTypes'
    BY <1>5, AuthorityStays DEF Sound, LeaseTypes, BoundTypes, ReceiptTypes
  <1>7. AuditTypes' /\ WithheldStaysIn'
    BY <1>5, <1>6, RecordsStay DEF Sound
  <1>8. r.tool = tool /\ r.snap = s /\ r.from = k /\ r # Idle
    BY DEF Idle, GovernedTools
  <1>9. FaithfulCall(c, r)
    <2>1. k # FirstPage => k.client = c /\ k.snap.tool = tool /\ Faithful(k.snap)
      BY <1>2 DEF matches, Sound, PagesAreFaithful
    <2>2. r = [tool |-> s.tool, snap |-> s, reserved |-> r.reserved, from |-> k] /\ r.reserved \in BOOLEAN
      BY <1>4
    <2> HIDE DEF r
    <2> QED BY <1>2, <1>4, <1>8, <2>1, <2>2 DEF FaithfulCall
  <1> HIDE DEF r
  <1>10. DOMAIN call' = Callers /\ call'[c] = r /\ \A d \in Callers : d # c => call'[d] = call[d]
    BY <1>3 DEF Sound, CallTypes
  <1>11. CallTypes'
    BY <1>8, <1>10 DEF Sound, CallTypes
  <1>12. CallsAreFaithful'
    <2>1. FaithfulCall(c, r)'
      BY <1>6, <1>9, FaithfulCallStays DEF Sound
    <2>2. ASSUME NEW d \in Callers, d # c, call'[d] # Idle PROVE FaithfulCall(d, call[d])'
      <3>1. PICK t : t = call[d]
        OBVIOUS
      <3>2. call'[d] = t /\ FaithfulCall(d, t)
        BY <1>10, <2>2, <3>1 DEF Sound, CallsAreFaithful
      <3>3. FaithfulCall(d, t)'
        BY <1>6, <3>2, FaithfulCallStays DEF Sound
      <3> QED BY <3>1, <3>2, <3>3
    <2> QED BY <1>10, <2>1, <2>2 DEF CallsAreFaithful
  <1>13. PagesAreFaithful'
    <2>1. ASSUME NEW l \in pages PROVE Faithful(l.snap)'
      <3>1. PICK t : t = l.snap
        OBVIOUS
      <3> QED BY <1>6, <3>1, FaithfulStays DEF Sound, PagesAreFaithful
    <2> QED BY <1>5, <2>1 DEF PagesAreFaithful
  <1>14. ReceiptsFit'
    <2>1. PICK B \in SUBSET Callers : B = Busy
      BY DEF Busy
    <2>2. Busy' = B \cup {c}
      BY <1>2, <1>8, <1>10, <2>1 DEF Busy
    <2>3. IsFiniteSet(B) /\ Cardinality(B) \in Nat
      BY BusyIsFinite
    <2>4. Cardinality(B \cup {c}) <= Cardinality(B) + 1 /\ Cardinality(B \cup {c}) \in Nat
      <3>1. Cardinality(B \cup {c}) = IF c \in B THEN Cardinality(B) ELSE Cardinality(B) + 1
        BY <2>3, FS_AddElement
      <3> QED BY <2>3, <3>1
    <2>5. Len(receipts) \in Nat /\ MaxReceipts \in Nat /\ Len(receipts) + Cardinality(B) < MaxReceipts
      BY <1>2, <2>1 DEF Sound, ReceiptTypes, DisclosureConstants
    <2>6. Len(receipts) + Cardinality(B \cup {c}) <= MaxReceipts
      BY <2>3, <2>4, <2>5
    <2> QED BY <1>5, <2>2, <2>6 DEF ReceiptsFit, Busy
  <1>15. UsageIsBounded'
    <2>1. ASSUME NEW d, NEW b PROVE committed_usage(d, b)' = committed_usage(d, b)
      BY <1>5 DEF committed_usage, exposure
    <2>2. FiniteItems
      BY DEF Sound, UsageIsBounded, FiniteItems, ReceiptTypes
    <2>3. ASSUME NEW b \in Buckets, worst_case(s, b) > 0
          PROVE  committed_usage(c, b) + worst_case(s, b) < Hard
      <3>1. committed_usage(c, b) \in Nat
        BY <2>2, UsageIsNumber DEF Sound
      <3>2. worst_case(s, b) \in Nat
        BY <1>4, WorstCaseIsNumber DEF Faithful
      <3>3. live_usage(c, b) = 0
        BY <1>2 DEF live_usage
      <3>4. ~(committed_usage(c, b) + 0 + worst_case(s, b) >= Hard)
        BY <1>2, <2>3, <3>3 DEF refuses
      <3>5. Hard \in Nat
        BY DEF DisclosureConstants
      <3> QED BY <3>1, <3>2, <3>4, <3>5
    <2>4. ASSUME NEW d \in Callers, NEW b \in Buckets
          PROVE  /\ committed_usage(d, b)' < Hard
                 /\ call'[d] # Idle /\ worst_case(call'[d].snap, b) > 0 =>
                       committed_usage(d, b)' + worst_case(call'[d].snap, b) < Hard
      <3>1. committed_usage(d, b)' < Hard
        BY <2>1 DEF Sound, UsageIsBounded
      <3>2. CASE d = c
        BY <1>8, <1>10, <2>1, <2>3, <3>1, <3>2
      <3>3. CASE d # c
        <4>1. call'[d] = call[d]
          BY <1>10, <3>3
        <4> QED BY <2>1, <3>1, <4>1 DEF Sound, UsageIsBounded
      <3> QED BY <3>2, <3>3
    <2> QED BY <1>5, <2>2, <2>4 DEF Sound, UsageIsBounded, worst_case
  <1> QED
    BY <1>6, <1>7, <1>11, <1>12, <1>13, <1>14, <1>15 DEF Sound

\* A call commits, and its payload is released or withheld.
LEMMA FinishKeeps ==
    ASSUME DisclosureConstants, Sound, NEW c \in Callers, NEW rows, finish(c, rows)
    PROVE  Sound'
  <1>1. /\ commit(c, rows) /\ call[c] # Idle
        /\ \E ok \in BOOLEAN : release(Len(receipts'), ok) /\ Fault(~ok)
        /\ call' = [call EXCEPT ![c] = Idle] /\ next_cursor(c, call[c].snap)
        /\ UNCHANGED <<authority, aged, selection, leases, trouble>>
    BY DEF finish, commit
  <1>2. AuthorityTypes' /\ AuthorityGrows /\ LeaseTypes'
    BY <1>1, AuthorityStays DEF Sound, LeaseTypes
  <1>3. BoundTypes'
    BY <1>1, MetWithin DEF Sound, BoundTypes, Fault
  <1>4. /\ CallTypes' /\ CallsEnd /\ call'[c] = Idle
        /\ \A d \in Callers : call'[d] = Idle \/ call'[d] = call[d]
    BY <1>1, EndedCall DEF Sound
  <1>5. PagesAreFaithful' /\ CallsAreFaithful'
    BY <1>1, <1>2, <1>4, LeftCursor, FaithStays DEF Sound
  <1>6. /\ ReceiptTypes' /\ UsageIsBounded' /\ ReceiptsFit'
        /\ Len(receipts') = Len(receipts) + 1
        /\ events' = Append(events, [kind |-> "disclosure", ref |-> Len(receipts')])
    BY <1>1, <1>4, UsageCommits DEF Sound
  <1>7. AuditTypes' /\ WithheldStaysIn'
    <2>1. PICK ok \in BOOLEAN : release(Len(receipts'), ok)
      BY <1>1
    <2>2. CASE ok
      BY <1>6, <2>1, <2>2, RecordsAfterRelease DEF Sound, release
    <2>3. CASE ~ok
      <3>1. released' = released /\ anchored' = anchored /\ degradedBy' = Len(receipts')
        BY <2>1, <2>3 DEF release
      <3> QED BY <1>6, <3>1, WithheldCommit DEF Sound
    <2> QED BY <2>2, <2>3
  <1> QED
    BY <1>2, <1>3, <1>4, <1>5, <1>6, <1>7 DEF Sound

\* Receipts age.
LEMMA AgeKeeps ==
    ASSUME DisclosureConstants, Sound, age
    PROVE  Sound'
  <1>1. /\ aged < Len(receipts) /\ aged' = aged + 1
        /\ UNCHANGED <<receipts, events, anchored, degradedBy, released, selection, leases, call, pages,
                       trouble, met>>
        /\ UNCHANGED authority
    BY DEF age, memory, bounds
  <1>2. AuthorityTypes' /\ AuthorityGrows /\ LeaseTypes' /\ BoundTypes' /\ CallTypes'
    BY <1>1, AuthorityStays DEF Sound, LeaseTypes, BoundTypes, CallTypes
  <1>3. ReceiptTypes' /\ aged <= aged'
    BY <1>1 DEF Sound, ReceiptTypes
  <1>4. CallsEnd
    BY <1>1 DEF CallsEnd, Sound, CallTypes
  <1>5. PagesAreFaithful' /\ CallsAreFaithful'
    BY <1>1, <1>2, FaithStays DEF Sound
  <1>6. ReceiptsFit' /\ UsageIsBounded'
    BY <1>1, <1>3, <1>4, FitsStays, UsageStays DEF Sound
  <1>7. AuditTypes' /\ WithheldStaysIn'
    BY <1>1, <1>3, RecordsStay DEF Sound
  <1> QED
    BY <1>2, <1>3, <1>5, <1>6, <1>7 DEF Sound

\* A stop, before a commit or after one.
LEMMA RestartKeeps ==
    ASSUME DisclosureConstants, Sound, restart
    PROVE  Sound'
  <1>1. /\ Fault(TRUE) /\ trouble' = trouble
        /\ UNCHANGED <<receipts, events>> \/ \E c \in Callers : \E rows : commit(c, rows)
        /\ selection' = 0 /\ leases' = [c \in Callers |-> 0]
        /\ call' = [c \in Callers |-> Idle] /\ pages' = {}
        /\ session' = IF session = "revoking" THEN "logged_out" ELSE session
        /\ UNCHANGED <<security, policy, client, project, grant, aged, anchored, degradedBy, released>>
    BY DEF restart
  <1>2. AuthorityTypes' /\ AuthorityGrows
    BY <1>1 DEF Sound, AuthorityTypes, AuthorityGrows
  <1>3. LeaseTypes'
    BY <1>1 DEF LeaseTypes
  <1>4. BoundTypes'
    BY <1>1, MetWithin DEF Sound, Fault
  <1>5. CallTypes' /\ CallsEnd /\ \A c \in Callers : call'[c] = Idle
    <2>1. DOMAIN call' = Callers /\ \A c \in Callers : call'[c] = Idle
      BY <1>1
    <2>2. CallTypes'
      BY <2>1 DEF CallTypes
    <2>3. CallsEnd
      BY <2>1 DEF CallsEnd
    <2> QED BY <2>1, <2>2, <2>3
  <1>6. PagesAreFaithful' /\ CallsAreFaithful'
    BY <1>1, <1>5 DEF PagesAreFaithful, CallsAreFaithful
  <1>7. ReceiptTypes' /\ UsageIsBounded' /\ ReceiptsFit' /\ AuditTypes' /\ WithheldStaysIn'
    <2>1. CASE UNCHANGED <<receipts, events>>
      <3>1. ReceiptTypes' /\ aged <= aged'
        BY <1>1, <2>1 DEF Sound, ReceiptTypes
      <3> QED BY <1>1, <1>5, <2>1, <3>1, RecordsStay, FitsStays, UsageStays DEF Sound
    <2>2. ASSUME NEW c \in Callers, NEW rows, commit(c, rows)
          PROVE  ReceiptTypes' /\ UsageIsBounded' /\ ReceiptsFit' /\ AuditTypes' /\ WithheldStaysIn'
      <3>1. /\ ReceiptTypes' /\ UsageIsBounded' /\ ReceiptsFit'
            /\ Len(receipts') = Len(receipts) + 1
            /\ events' = Append(events, [kind |-> "disclosure", ref |-> Len(receipts')])
        BY <1>1, <1>5, <2>2, UsageCommits DEF Sound
      <3> QED BY <1>1, <3>1, WithheldCommit DEF Sound
    <2> QED BY <1>1, <2>1, <2>2
  <1> QED
    BY <1>2, <1>3, <1>4, <1>5, <1>6, <1>7 DEF Sound

\* A repair of the anchor, however far it gets, withholds only what was withheld.
LEMMA RepairKeeps ==
    ASSUME DisclosureConstants, Sound, NEW far \in 1..4, repair_anchor(far)
    PROVE  Sound'
  <1>1. /\ UNCHANGED <<receipts, aged, released, selection, leases, call, pages, trouble>>
        /\ UNCHANGED authority /\ Fault(far < 4)
    BY DEF repair_anchor, memory
  <1>2. AuthorityTypes' /\ AuthorityGrows /\ LeaseTypes' /\ CallTypes' /\ ReceiptTypes'
    BY <1>1, AuthorityStays DEF Sound, LeaseTypes, CallTypes, ReceiptTypes
  <1>3. BoundTypes'
    BY <1>1, MetWithin DEF Sound, BoundTypes, Fault
  <1>4. CallsEnd /\ aged <= aged'
    BY <1>1 DEF CallsEnd, Sound, CallTypes, ReceiptTypes
  <1>5. PagesAreFaithful' /\ CallsAreFaithful'
    BY <1>1, <1>2, FaithStays DEF Sound
  <1>6. ReceiptsFit' /\ UsageIsBounded'
    BY <1>1, <1>2, <1>4, FitsStays, UsageStays DEF Sound
  <1>7. AuditTypes' /\ WithheldStaysIn'
    <2>1. CASE far = 1
      <3>1. events' = events /\ anchored' = Len(events) /\ degradedBy' = degradedBy
        BY <2>1 DEF repair_anchor
      <3> QED BY <1>1, <1>2, <3>1, RecordsStay DEF Sound
    <2>2. CASE far # 1
      <3> DEFINE e == [kind |-> "repair", ref |-> IF degradedBy = Off THEN 0 ELSE degradedBy]
      <3>1. events' = Append(events, e)
        BY <2>2 DEF repair_anchor
      <3>2. anchored' \in {anchored, Len(events), Len(events')} /\ degradedBy' \in {Off, degradedBy}
        BY <2>2 DEF repair_anchor
      <3>3. /\ Len(receipts) \in Nat /\ degradedBy \in {Off} \cup 0..Len(receipts)
            /\ released \subseteq 1..Len(receipts)
            /\ degradedBy \notin released
        <4>1. \A n \in released : n # degradedBy
          BY DEF Sound, WithheldStaysIn
        <4>2. /\ Len(receipts) \in Nat /\ degradedBy \in {Off} \cup 0..Len(receipts)
              /\ released \subseteq 1..Len(receipts)
          BY DEF Sound, AuditTypes, ReceiptTypes
        <4> QED BY <4>1, <4>2
      <3>4. e \in Event /\ e.ref <= Len(receipts) /\ e.ref \notin released
        BY <3>3 DEF Event, Off
      <3> HIDE DEF e
      <3>5. degradedBy' \in {Off, degradedBy} \cup (0..Len(receipts') \ released)
        BY <3>2
      <3>6. e.ref <= Len(receipts') /\ Len(receipts') >= Len(receipts)
        BY <1>1, <3>3, <3>4
      <3> QED BY <1>1, <1>2, <3>1, <3>2, <3>4, <3>5, <3>6, RecordsAfterEvent DEF Sound
    <2> QED BY <2>1, <2>2
  <1> QED
    BY <1>2, <1>3, <1>5, <1>6, <1>7 DEF Sound

LEMMA InitSound ==
    ASSUME DisclosureConstants, Init
    PROVE  Sound
  <1>1. AuthorityTypes
    <2>1. security \in [epoch : Nat, locked : BOOLEAN] /\ client \in [Callers -> BOOLEAN]
      BY DEF Init
    <2>2. policy \in Policy
      BY DEF Init, Policy, Decisions
    <2>3. project \in [Projects -> Project]
      BY DEF Init, Project, DisclosureConstants
    <2> QED BY <2>1, <2>2, <2>3 DEF Init, AuthorityTypes, DisclosureConstants
  <1>2. LeaseTypes /\ BoundTypes
    BY DEF Init, LeaseTypes, BoundTypes, DisclosureConstants
  <1>3. CallTypes /\ \A c \in Callers : call[c] = Idle
    BY DEF Init, CallTypes
  <1>4. ReceiptTypes /\ Len(receipts) = 0 /\ AuditTypes
    BY DEF Init, ReceiptTypes, AuditTypes, DisclosureConstants
  <1>5. PagesAreFaithful /\ CallsAreFaithful
    BY <1>3 DEF Init, PagesAreFaithful, CallsAreFaithful
  <1>6. WithheldStaysIn
    BY DEF Init, WithheldStaysIn
  <1>7. ReceiptsFit
    <2>1. Busy = {}
      BY <1>3 DEF Busy
    <2>2. Cardinality(Busy) = 0
      BY <2>1, FS_EmptySet
    <2> QED BY <1>4, <2>2 DEF ReceiptsFit, Busy, DisclosureConstants
  <1>8. UsageIsBounded
    <2>1. ASSUME NEW c \in Callers, NEW b \in Buckets PROVE committed_usage(c, b) = 0
      <3>1. {n \in aged + 1..Len(receipts) : receipts[n].client = c} = {}
        BY <1>4 DEF Init
      <3>2. exposure({n \in aged + 1..Len(receipts) : receipts[n].client = c}, b) = {}
        BY <3>1 DEF exposure
      <3> QED BY <3>2, FS_EmptySet DEF committed_usage
    <2>2. DOMAIN receipts = {} /\ Hard \in Nat \ {0}
      BY DEF Init, DisclosureConstants
    <2> QED BY <1>3, <2>1, <2>2 DEF UsageIsBounded
  <1> QED
    BY <1>1, <1>2, <1>3, <1>4, <1>5, <1>6, <1>7, <1>8 DEF Sound

\* Every step of a client's.
LEMMA CallsKeep ==
    ASSUME DisclosureConstants, Sound, Calls
    PROVE  Sound'
  <1>1. PICK c \in Callers :
           \/ mint_lease(c) \/ lapse(c) \/ abandon(c) \/ withdraw(c)
           \/ \E k \in pages : present_stale(c, k)
           \/ \E tool \in Uses[c] : \E refs \in Scopes(tool), k \in pages \cup {FirstPage} :
                 disclose(c, tool, refs, k)
           \/ call[c] # Idle /\ \E rows \in SUBSET found(call[c].snap) : finish(c, rows)
    BY DEF Calls
  <1>2. ASSUME NEW tool \in Uses[c], NEW refs \in Scopes(tool), NEW k \in pages \cup {FirstPage},
               disclose(c, tool, refs, k)
        PROVE  Sound'
    <2>1. tool \in GovernedTools
      BY DEF DisclosureConstants
    <2>2. refs \in SUBSET Projects
      BY DEF Scopes
    <2> QED BY <1>2, <2>1, <2>2, DiscloseKeeps
  <1> QED
    BY <1>1, <1>2, SmallCallsKeep, LapseKeeps, FinishKeeps

\* The invariant is inductive.
LEMMA NextKeeps ==
    ASSUME DisclosureConstants, Sound, [Next]_vars
    PROVE  Sound'
  <1>1. CASE Next
    BY <1>1, CallsKeep, OwnerKeeps, AgeKeeps, RestartKeeps, RepairKeeps DEF Next
  <1>2. CASE UNCHANGED vars
    <2>1. UNCHANGED <<authority, account, bounds>> /\ UNCHANGED authority
          /\ UNCHANGED <<selection, leases, call, pages>>
      BY <1>2 DEF vars, authority, account, bounds
    <2>2. AuthorityTypes' /\ AuthorityGrows
      BY <2>1, AuthorityStays DEF Sound
    <2>3. LeaseTypes' /\ CallTypes' /\ CallsEnd
      BY <2>1 DEF Sound, LeaseTypes, CallTypes, CallsEnd
    <2>4. PagesAreFaithful' /\ CallsAreFaithful'
      BY <2>1, <2>2, FaithStays DEF Sound
    <2> QED BY <2>1, <2>3, <2>4, QuietKeeps
  <1> QED
    BY <1>1, <1>2

\* The invariant of the disclosures, the type invariant among its parts, holds
\* for any clients, projects, chats, grants, commands and faults.
THEOREM DisclosureInductive ==
    ASSUME DisclosureConstants
    PROVE  Spec => []DisclosureInvariant
  <1>1. Init => Sound
    BY InitSound
  <1>2. Sound /\ [Next]_vars => Sound'
    BY NextKeeps
  <1>3. Sound => DisclosureInvariant
    BY InvariantByPart
  <1> QED
    BY <1>1, <1>2, <1>3, PTL DEF Spec

\* What the invariant says of a payload that is out.
LEMMA InvariantAccounted ==
    ASSUME DisclosureInvariant
    PROVE  ReleaseIsAccounted
  <1> SUFFICES ASSUME NEW n \in released
               PROVE  /\ \E e \in 1..anchored : events[e] = [kind |-> "disclosure", ref |-> n]
                      /\ delivery(n) = "committed"
    BY DEF ReleaseIsAccounted
  <1>1. WithheldStaysIn
    BY DEF DisclosureInvariant
  <1>2. degradedBy # n /\ \E e \in 1..anchored : events[e] = [kind |-> "disclosure", ref |-> n]
    BY <1>1 DEF WithheldStaysIn
  <1>3. ~\E e \in Range(events) : e.kind = "repair" /\ e.ref = n
    <2> SUFFICES ASSUME NEW e \in Range(events), e.kind = "repair", e.ref = n
                 PROVE  FALSE
      OBVIOUS
    <2>1. PICK i \in DOMAIN events : e = events[i]
      BY DEF Range
    <2>2. events[i].kind = "repair" => events[i].ref # n
      BY <1>1 DEF WithheldStaysIn
    <2> QED BY <2>1, <2>2
  <1> QED BY <1>2, <1>3 DEF delivery

\* A payload that is out has its event in the chain and under the anchor, and no
\* failing anchor write, stop or interrupted repair makes the record say that it
\* was withheld (refresh_anchor, repair_anchor).
THEOREM ReleasesAreAccounted ==
    ASSUME DisclosureConstants
    PROVE  Spec => []ReleaseIsAccounted
  <1>1. DisclosureInvariant => ReleaseIsAccounted
    BY InvariantAccounted
  <1> QED
    BY <1>1, DisclosureInductive, PTL

\* What it says of the budget.
LEMMA InvariantBounded ==
    ASSUME DisclosureConstants, DisclosureInvariant
    PROVE  BudgetHolds
  <1> SUFFICES ASSUME NEW c \in Callers, NEW b \in Buckets
               PROVE  Sent(c, b) < Hard
    BY DEF BudgetHolds
  <1>1. Sound
    BY InvariantByPart
  <1>2. ReceiptTypes /\ FiniteItems /\ released \subseteq 1..Len(receipts)
    BY <1>1 DEF Sound, UsageIsBounded, FiniteItems, ReceiptTypes, AuditTypes
  <1>3. Sent(c, b) <= committed_usage(c, b) /\ committed_usage(c, b) \in Nat
    BY <1>2, SentIsCommitted, UsageIsNumber
  <1>4. Sent(c, b) \in Nat
    <2> DEFINE S == {n \in released : n > aged /\ receipts[n].client = c}
    <2>1. S \in SUBSET (1..Len(receipts))
      BY <1>2
    <2>2. Len(receipts) \in Nat
      BY <1>2 DEF ReceiptTypes
    <2>3. Sent(c, b) = Cardinality(exposure(S, b))
      BY DEF Sent
    <2> HIDE DEF S
    <2> QED BY <1>2, <2>1, <2>2, <2>3, ExposureIsFinite
  <1>5. committed_usage(c, b) < Hard /\ Hard \in Nat
    BY <1>1 DEF Sound, UsageIsBounded, DisclosureConstants
  <1> QED BY <1>3, <1>4, <1>5

\* What was released to a client within the window, altogether and of every
\* project, stays under the hard threshold, though reservations lapse before
\* their calls end and a stop forgets them all (disclosure/budget.py).
THEOREM BudgetIsKept ==
    ASSUME DisclosureConstants
    PROVE  Spec => []BudgetHolds
  <1>1. DisclosureInvariant => BudgetHolds
    BY InvariantBounded
  <1> QED
    BY <1>1, DisclosureInductive, PTL

-----------------------------------------------------------------------------
(* What is released.                                                       *)

\* A record of a snapshot that stands again is one the client may see now.
LEMMA RecordIsPermitted ==
    ASSUME AuthorityTypes, NEW c \in Callers, NEW s, Faithful(s), revalidate(c, s),
           s.tool # "list_projects" /\ s.security = security.epoch => session = "active",
           NEW x \in found(s)
    PROVE  Permitted(c, item(s, x))
  <1> DEFINE i == item(s, x)
  <1>1. /\ i.of = x /\ i.tool = s.tool /\ i.from = origins(s, x)
        /\ origins(s, x) \subseteq s.refs /\ origins(s, x) # {}
        /\ s.tool # "list_projects" =>
              \A p \in origins(s, x) : x \in s.readable[p] /\ i.level <= s.scope[p].grant.level
    BY ItemFacts
  <1>2. s.refs \subseteq Projects /\ s.scope \in [s.refs -> [epoch : Nat, grant : Grant]]
    BY DEF Faithful
  <1>3. client[c] /\ ~security.locked /\ (s.tool # "list_projects" => session = "active")
    BY DEF revalidate, discover
  <1> HIDE DEF i
  <1>4. CASE s.tool = "list_projects"
    <2>1. s.scope = scope_entries(c, visible(c))
      BY <1>4 DEF revalidate, Refs
    <2>2. DOMAIN s.scope = s.refs
      BY <1>2
    <2>3. s.refs = visible(c)
      BY <2>1, <2>2 DEF scope_entries
    <2>4. \A p \in i.from : project[p].enabled /\ grant[c][p] # NoGrant
      BY <1>1, <2>3 DEF visible
    <2> QED BY <1>1, <1>3, <1>4, <2>4 DEF Permitted, i
  <1>5. CASE s.tool # "list_projects"
    <2>1. s.scope = scope_entries(c, s.refs) /\ discover(c, s.refs)
          /\ \A p \in s.refs : s.readable[p] = readable_members(c, p)
      BY <1>5 DEF revalidate, Refs
    <2>2. \A p \in s.refs : s.scope[p].grant = grant[c][p]
      BY <2>1 DEF scope_entries
    <2>3. \A p \in i.from : project[p].enabled /\ grant[c][p] # NoGrant
      BY <1>1, <2>1 DEF discover
    <2>4. \A p \in i.from : i.tool = "cross_project_search" => grant[c][p].cross
      BY <1>1, <2>2 DEF Faithful
    <2>5. \A p \in i.from : i.level <= grant[c][p].level
      BY <1>1, <1>5, <2>2
    <2>6. \A p \in i.from : i.of \in project[p].members /\ owner_allows(i.of)
      BY <1>1, <1>5, <2>1 DEF readable_members
    <2> QED BY <1>1, <1>3, <2>3, <2>4, <2>5, <2>6 DEF Permitted, i
  <1> QED
    BY <1>4, <1>5

\* The page a call continues was read under the scope that stands.
LEMMA CursorStands ==
    ASSUME AuthorityTypes, NEW c \in Callers, NEW s, NEW k, Faithful(s), revalidate(c, s),
           Faithful(k.snap), k.snap.tool = s.tool, check_cursor(k, s)
    PROVE  \A p \in k.snap.refs : k.snap.readable[p] =
              IF k.snap.tool = "list_projects" THEN {} ELSE readable_members(c, p)
  <1>1. /\ k.snap.policy = s.policy /\ k.snap.scope = s.scope
        /\ DOMAIN k.snap.scope = k.snap.refs /\ DOMAIN s.scope = s.refs
    BY DEF check_cursor, Faithful
  <1>2. k.snap.refs = s.refs /\ s.policy = policy.epoch
    BY <1>1 DEF revalidate
  <1> SUFFICES ASSUME NEW p \in s.refs
               PROVE  k.snap.readable[p] =
                         IF k.snap.tool = "list_projects" THEN {} ELSE readable_members(c, p)
    BY <1>2
  <1>3. CASE s.tool = "list_projects"
    BY <1>2, <1>3 DEF Faithful
  <1>4. CASE s.tool # "list_projects"
    <2>1. s.scope = scope_entries(c, s.refs) /\ discover(c, s.refs)
      BY <1>4 DEF revalidate, Refs
    <2>2. k.snap.scope[p].epoch = project[p].epoch
      BY <1>1, <2>1 DEF scope_entries
    <2>3. k.snap.readable[p] = {x \in project[p].members : owner_allows(x)}
      BY <1>1, <1>2, <1>4, <2>2 DEF Faithful
    <2>4. discover(c, {p})
      BY <2>1 DEF discover
    <2>5. readable_members(c, p) = {x \in project[p].members : owner_allows(x)}
      BY <2>4 DEF readable_members
    <2> QED BY <1>4, <2>3, <2>5
  <1> QED
    BY <1>3, <1>4

\* What a step may release, of the disclosure numbered n.
ReleasedLive(n) ==
    LET c == receipts'[n].client
        k == call[c].from
    IN /\ \A i \in receipts'[n].items : Permitted(c, i)
       /\ k # FirstPage =>
             k.client = c /\ k.snap.tool = call[c].tool
             /\ \A p \in k.snap.refs : k.snap.readable[p] =
                   IF k.snap.tool = "list_projects" THEN {} ELSE readable_members(c, p)

\* The end of a call releases what is permitted then.
LEMMA FinishIsLive ==
    ASSUME Sound, NEW c \in Callers, NEW rows, finish(c, rows), NEW n \in released' \ released
    PROVE  ReleasedLive(n)
  <1> DEFINE r == call[c]
             s == r.snap
             k == r.from
  <1>1. commit(c, rows) /\ r # Idle /\ revalidate(c, s) /\ rows \subseteq found(s)
    BY DEF finish, commit
  <1>2. FaithfulCall(c, r)
    BY <1>1 DEF Sound, CallsAreFaithful
  <1>3. n = Len(receipts')
    BY DEF finish, release
  <1> DEFINE I == {item(s, x) : x \in rows}
  <1>4. receipts' = Append(receipts, [client |-> c, items |-> I])
    BY <1>1 DEF commit
  <1>5. receipts'[n] = [client |-> c, items |-> I]
    <2>1. receipts \in Seq(Receipt)
      BY DEF Sound, ReceiptTypes
    <2> HIDE DEF I
    <2>2. Len(receipts') = Len(receipts) + 1 /\ receipts'[Len(receipts) + 1] = [client |-> c, items |-> I]
      BY <1>4, <2>1
    <2> QED BY <1>3, <2>2
  <1>6. receipts'[n].client = c /\ receipts'[n].items = I
    BY <1>5
  <1>7. /\ Faithful(s) /\ r.tool = s.tool
        /\ s.tool # "list_projects" /\ s.security = security.epoch => session = "active"
        /\ k # FirstPage => k.client = c /\ k.snap.tool = s.tool /\ Faithful(k.snap) /\ check_cursor(k, s)
    BY <1>2 DEF FaithfulCall
  <1>8. AuthorityTypes
    BY DEF Sound
  <1>9. \A x \in rows : Permitted(c, item(s, x))
    <2> HIDE DEF r, s, k
    <2> QED BY <1>1, <1>7, <1>8, RecordIsPermitted
  <1>10. k # FirstPage => \A p \in k.snap.refs : k.snap.readable[p] =
            IF k.snap.tool = "list_projects" THEN {} ELSE readable_members(c, p)
    <2> HIDE DEF r, s, k
    <2> QED BY <1>1, <1>7, <1>8, CursorStands
  <1>11. \A i \in I : Permitted(c, i)
    BY <1>9
  <1> HIDE DEF I
  <1> QED
    BY <1>6, <1>7, <1>10, <1>11 DEF ReleasedLive

\* No other step releases anything.
LEMMA OthersReleaseNothing ==
    ASSUME DisclosureConstants, Sound, [Next]_vars,
           ~\E c \in Callers : \E rows \in SUBSET found(call[c].snap) : finish(c, rows)
    PROVE  released' = released
  <1>1. CASE Calls
    <2>1. PICK c \in Callers :
             \/ mint_lease(c) \/ lapse(c) \/ abandon(c) \/ withdraw(c)
             \/ \E k \in pages : present_stale(c, k)
             \/ \E tool \in Uses[c] : \E refs \in Scopes(tool), k \in pages \cup {FirstPage} :
                   disclose(c, tool, refs, k)
      BY <1>1 DEF Calls
    <2> QED BY <2>1 DEF mint_lease, lapse, abandon, withdraw, present_stale, disclose, account
  <1>2. CASE Commands
    BY <1>2, CommandsAreTheOwners DEF Sound, OwnerStep
  <1>3. CASE age \/ restart \/ \E far \in 1..4 : repair_anchor(far)
    BY <1>3 DEF age, restart, repair_anchor
  <1>4. CASE UNCHANGED vars
    BY <1>4 DEF vars
  <1> QED
    BY <1>1, <1>2, <1>3, <1>4 DEF Next

LEMMA StepReleasesLive ==
    ASSUME DisclosureConstants, Sound, [Next]_vars
    PROVE  \A n \in released' \ released : ReleasedLive(n)
  BY FinishIsLive, OthersReleaseNothing

\* A payload is released under the authority of that moment, whatever the owner
\* did while its retrieval was awaited, and a continued page under the scope of
\* the first (disclosure/coordinator.py, authority/cursors.py).
THEOREM AuthorityAtRelease ==
    ASSUME DisclosureConstants
    PROVE  Spec => ReleasedUnderLiveAuthority
  <1>1. Init => Sound
    BY InitSound
  <1>2. Sound /\ [Next]_vars => Sound'
    BY NextKeeps
  <1>3. Sound /\ [Next]_vars => \A n \in released' \ released : ReleasedLive(n)
    BY StepReleasesLive
  <1> QED
    BY <1>1, <1>2, <1>3, PTL DEF Spec, ReleasedUnderLiveAuthority, ReleasedLive
=============================================================================
