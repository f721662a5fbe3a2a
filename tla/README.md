# comms: a TLA+ verification project

`comms` (under `src/comms`) is a gateway between MCP clients and one owner's
Telegram, WhatsApp and Instagram accounts. A single daemon holds one SQLite
database (`comms.db`), an audit chain with an external anchor file, and the
provider connections. Its hard promises are about messages: a campaign is
delivered once to each identity although the daemon may stop at any moment,
providers answer late or ambiguously, and operators intervene; and a write
requested by a client is executed as its semantics allow although it is
replayed. Around them stand promises about trust: an audit chain that notices
what is missing, keys that survive a crash, grants that are used once, reads
that release only what the owner allows at that moment. This project models
those promises, model-checks them with TLC, and proves with TLAPS those of
delivery, mutations, webhooks, the audit chain, custody, access, disclosure, the
directory, Instagram and the vault for every size of the system.

Paths below are relative to `src/comms/` of the repository; those that begin
with `relay/` or `transports/whatsapp/src` or `/apps` are relative to the
repository itself.

## The system

### Inventory

| Component | State it keeps | Operations | What makes it correct |
|---|---|---|---|
| Delivery reducer (`core/delivery/reducer.py`) | job state, attempt count, campaign summary and lifecycle | `decide`, `reduce`, `refresh_summary`, `complete_if_idle`, `bind_provider_ref` | a job only climbs; the summary is what the jobs add up to; a waiting report is replayed |
| Engine, scheduler, recovery (`engine.py`, `scheduling.py`, `recovery.py`) | attempts, provider references; the run's local list | `execute`, `_claim`, `run_due`, `recover` | at most one message per identity and generation; nothing early; no in-flight job forgotten |
| Freezing and operator actions (`freeze.py`, `operations.py`) | generations, current pointer | send, schedule, unschedule, cancel, retry, resolve, provider update | a retired generation is dead; a retry sends only what was not sent |
| Campaign drafts and events (`core/campaigns`) | lifecycle, content, event log | create, set, validate, edit | the event log tells the stored lifecycle and summary |
| Recipient directory (`core/campaigns/directory.py`, `resolve.py`) | locations, recipients, audiences, contact points, destinations, group creations | edit, resolve, path check, opt-out, file a group | resolution ends; one endpoint per identity; an opt-out holds; the check before a send agrees with the resolution |
| Mutation executor (`services/mutations.py`, `services/recovery.py`) | mutation rows and steps | `local`, `provider`, replay, recover | what cannot be repeated is called once; records and answers are true |
| Audit chain (`core/audit`, `runtime/state.py`, `core/maintenance/retention.py`) | events, epochs, truncation root, anchor file, degraded latch, cutover phase and lineage | append, refresh, rotate, truncate, purge keys, verify, repair, cutover, start | the anchor only advances; a stale anchor stops writes; what is retained verifies; a cutover binds one seal once and ends |
| Keys and credentials (`core/keys`, `core/credentials.py`, `runtime/provision.py`) | key slots, files, registry, seeds | provision, rotate, retire, destroy | one usable active version survives a crash anywhere |
| Database key, backup import (`core/storage/rekey.py`, `core/backup`) | key pointer, staged keys, staged directory | rekey, open with recovery, import | exactly one stored key opens the file; an import is whole |
| Webhooks and relay (`relay/src`, `runtime/relay.py`, `transports/whatsapp/webhooks`) | mailbox, collector progress, quarantine, inbox with per-row flags | store, pull, acknowledge, purge, run_once | no row disappears; each effect of a row happens once; what was answered 200 is applied |
| Provider writes (`services/writes.py`, `capability.py`, `uploads.py`; the transports' `admin`, `send`, `classify`) | capability matrix, staged files, the MTProto session | choose an actor, invoke, reissue, stage and take a file, download, reconnect | an outcome claims only what is known; nothing is done twice |
| Conversation reads (`services/context.py`, the transports' `context.py`, `bot/updates.py`) | retained updates and messages, cursors, bot offset | page, search, neighbours, poll | one source per walk, no row repeated, none lost but what a page budget cuts from members or neighbours, a bound that stopped a search is named |
| Authentication (`core/auth`, `mcp/oauth`, `services/handles.py`) | leases, codes, refresh families, handles, epochs | issue, exchange, refresh, revoke, verify | a grant has one live pair; what is accepted is current |
| Governed Telegram reads (`transports/telegram/disclosure`, `authority`, `ipc/handlers`) | projects, grants, scope, budget, receipts, its own chain and anchor | disclose, owner commands, repair | released under the authority of that moment, within the budget, and accounted for |
| Telegram paging (`transports/telegram/telegram/search.py`, `reads.py`) | search state, cursors | search, list, history, context | what a walk leaves out, it says it leaves out |
| Instagram (`transports/instagram`) | container ledger, accounts and tokens, cursors | create, publish, message, add and remove an account, page | published once; the ledger is true; an account's own token |
| WhatsVault (`transports/whatsapp/src/whatsvault`, `apps`) | drafts, approvals, nonces, attempts, dedup ledger, dead letters, imports, grants | approve, send, reconcile, drain, import, undo, set up | one send per nonce, of an approved draft; what was acknowledged is kept |
| MCP server and tools, CLI | none beyond a request | dispatch, validation | (not protocol state) |

### How the parts interact

The daemon runs one event loop. Tool handlers and the worker loops
(`runtime/workers.py`: delivery, schedule, webhooks, updates) run on it one step
at a time, each step a few SQLite transactions and provider calls; Telethon has
its own thread and posts its updates to the loop. Every campaign tool goes
through `MutationExecutor.local`, which refuses while the audit trail is
degraded. A failed anchor refresh, or an unexpected exception in a worker, sets
that degraded latch; new external effects stop until an operator's audit repair
clears it, in the running daemon. At a start, `startup_recovery` runs before
anything is served.

### What is hard

Crashes between a provider call and its record; reports that arrive before the
reference they name is known, out of order or for a past attempt; operators
acting on a campaign that is being sent; retries of messages that did arrive;
commits whose anchor fails; replays of a request in any intermediate state;
eventual completion under all of this; protocols over files and transactions
that a crash separates; authority that changes while a read is awaited; cursors
over lists that move. `PROJECT.json` lists these hazards at
their lines, with the properties that would catch them.

## The modules

| Module | Models |
|---|---|
| `Reducer` | the pure half of `reducer.py`: `decide`, as one operator per rule that can apply, and `summarize` |
| `Delivery` | everything around it: drafts, freezing, operator actions, provider reports, engine, scheduler, crash, recovery, the latch |
| `MCDelivery` | TLC instances of `Delivery` |
| `DeliveryProofs` | proofs about `Delivery`: what the engine sends, and its records (summaries, trail, clock, reports, jobs) |
| `Mutations` | `MutationExecutor.provider` and `_run`, and `recover_mutations` |
| `MCMutations` | TLC instances of `Mutations` |
| `MutationsProofs` | proofs about `Mutations` |
| `Reports` | what `Delivery` assumes of provider reports, as an abstract specification |
| `Webhooks` | relay mailbox, collector, inbox and worker; implements `Reports` |
| `MCWebhooks` | a TLC instance of `Webhooks` |
| `WebhooksProofs` | proofs about `Webhooks`, and that it implements `Reports` |
| `AuditChain` | chain, anchor, latch, repair, key rotation, retention, cutover, start; TLC runs it directly |
| `AuditChainProofs` | proofs about `AuditChain` |
| `Custody` | database key, key slots, credentials, client seeds, provisioning, backup import |
| `MCCustody` | a TLC instance of `Custody` alone |
| `CustodyProofs` | proofs about `Custody` |
| `Access` | leases, OAuth grants, handles and cursors |
| `Disclosure` | one governed read from snapshot to release, and the owner's commands |
| `DisclosureProofs` | proofs about `Disclosure` |
| `Reads` | Telegram search, chat list, history and message context, page by page |
| `Directory` | the recipient directory, resolution and revalidation |
| `Providers` | tool writes to Telegram and WhatsApp, staged files, downloads, the session |
| `Context` | reading a conversation from its three sources; the bot's poller |
| `Instagram` | publishing, accounts, pages |
| `Vault` | WhatsVault: sending, ingest, import, grants, setup |
| `MCVault` | a TLC instance of `Vault`'s sending alone |
| `MCSystem` | the nine modules from `Custody` on, side by side: it extends `Access`, `Directory`, `Instagram` and `Vault` and instances the others |
| `PartsProofs` | proofs about `Access`, `Directory`, `Instagram` and `Vault`, the parts `MCSystem` extends |
| `SystemProofs` | proofs about the installation of `MCSystem`, from those of its parts |

Names follow the code. One action is one database transaction or one provider
call, so a crash may fall between any two; a `reduce` called several times in
one transaction is modelled by its net effect. Operators whose comment begins
with "Mutant" are deliberate mistakes, used to see that a property notices them;
no specification uses them.

### Delivery

State: the rows of `campaigns`, `generations`, `delivery_jobs`,
`delivery_attempts` and `provider_events`; the latch; the process (`up`,
`recovering`); the engine's local variables (`run`); and two ground-truth
variables the program cannot read: `msg`, the message each attempt really made,
and `misjudged`, the jobs an operator was wrong about. The safety properties
compare the records with that ground truth.

- `run` makes the engine's three phases explicit: `claim` commits
  IN_FLIGHT and the attempt, `deliver` calls the provider with no transaction
  open, `record` commits the result and binds the reference. `crash` drops `run`.
- `deliver` is each transport's contract (`transport.py`): ACCEPTED and DELIVERED
  only of a message that exists, FAILED_* only when this call made none (the
  transports classify only provably unsent outcomes so), OUTCOME_UNKNOWN of
  either. A keyed transport (MTProto `random_id`) makes no second message.
- The directory's path check and the transports' `still_valid` are a free
  choice: any job may be skipped.
- A provider report is identified by message and status (`normalize.py` builds
  the event reference from both), so a redelivered report changes nothing, and a
  conflicting duplicate cannot arise from a webhook.
- `SingleLoop = TRUE` is the deployed daemon: no handler runs inside an engine
  run. `FALSE` is the contract of the transactions themselves: operators,
  reports and updates fall between any two of the engine's transactions, and
  only the compare-and-set of a claim protects the records. The theorems cover
  both.
- `trail` keeps what the campaign's events said last; attempt outcomes and
  payload counts are left out.
- A campaign whose transport is not configured raises out of `execute`; its
  effect on the records is that of `latch_degraded`.

### Mutations

State: the rows of `mutations` and `mutation_steps`, the latch, the process, the
executor's local state (`call`), and ground truth: how often each step was
called, whether it took effect, and what the client was told. A step's life is
`start_step`, `invoke`, `record_step`; the row's is `submit`, `finish`. Each
audited commit may be followed by a failed anchor, which sets the latch and
goes another way in the code (`Anchored`). `hook_failed` is the `on_created`
hook raising after a creation succeeded; only creations pass one. Recovery
visits the rows `records.interrupted` lists, one transaction each; a failed
anchor there keeps the daemon from coming up. `restart` may also set the latch
(an anchor that is more than one event behind, a pending cutover).

### AuditChain

State: the retained events (`chain` behind `base`), the anchor file, the latch,
the key slots and their files, the cutover phase with its digest and lineage
row, and the legacy chain's seal. `op` is the operation under way: nothing here
awaits, so the only interleaving is with a crash, which may fall before each
file write and each transaction. An event is its position and a minted id; a
MAC verifies when the key of its epoch can be loaded. `restore_older_copy` and
`restore_legacy` put back an older database, which the anchor must notice.

### Webhooks and Reports

`mail`, `top`, `purged` are the relay; `acked`, `known`, `quarantine`, `gaps`
the collector's stored progress; `inbox` the durable rows with their four flags;
`applied`, `archive`, `windowRuns` the effects. A body may come in parts, be
unverifiable or malformed, arrive twice, or arrive along both routes. `made` is
ground truth. `Reports` says what `Delivery`'s `provider_update` needs: a report
is applied only if the provider made it, and once. `ReportsImplemented` is
`Reports!Spec` under the identity mapping of `made` and `applied`.

### Custody and Access

`Custody`: a version number stands for its material; each protocol (`run`) is a
sequence of file writes and transactions, one protocol at a time because of the
runtime lock. `Access`: time is which credentials have expired; `cuts` counts
the owner's commands that are meant to end a credential, and everything issued
carries what it has seen of them, so that "current" can be stated without
repeating the code's checks.

### Disclosure and Reads

`Disclosure` makes the one await of a governed read explicit: `disclose` takes
the snapshot and the reservation, then the owner, another client, a failed
anchor or a stop may come, then `commit` and `release` follow. `Permitted` says
what the owner allows without the evaluator's code. The commands that edit projects, grants, scope and the
budget are handlers of the code, but the v0.3 admin socket answers them
RETIRED_IN_V0_3 before a handler runs (`transports/telegram/ipc/admin.py:106`),
so in that release what changes under an awaited read is the lock, the session
and the client; the model keeps the handlers, as the coordinator's second look
does. `Reads` walks pages against
logs that change between requests; `Owed` is what a client must have been given
when a walk says it is complete.

### Directory, Providers, Context

`Directory` keeps the tables as functions and recomputes resolution and path
validity from them. `Providers` follows a tool call from the choice of an actor
to the recorded outcome; `done` counts what the provider really did. `Context`
compares what a client was given with what the source held all along. A page
carries besides its rows and its cursor the rows it has `lost`: those its page
budget cut although its cursor does not come back to them. For messages there
are none, since `_page` resumes after the last row kept. A page of members keeps
the provider's cursor, and an answer around a message has no cursor, so there
the rows cut are lost: `PagesAddUp` allows that for members alone, and
`NeighboursAreTrue` says of an answer around a message that it is the newer end
of the neighbourhood (see the disagreements below). How many rows fit is a free choice of at
least one.

### Instagram and Vault

Both are several desks that share no table, of which one moves in a behaviour
(`stage`, `ward`). `Vault`'s send ward has two processes that execute writes,
which the nonce and the attempt row must keep apart (the sender is a library so
far; the dispatcher only runs its startup recovery). An approval is signed over
the draft's own nonce, while the relay files, and the sender spends, the nonce
the envelope names; nothing compares the two. In `Vault` an envelope of a draft
may therefore name any of `Nonces`, every filed envelope is taken to be of a
good signature, and what holds is one send per nonce (`SentOnce`), not one send
per draft (`DraftSentOnce`, disagreement 5). In the `Instagram` module a day is
one tick of the clock: that an entry leaves the budget 24 hours after it was
made, at whatever hour, is not told apart from leaving at midnight. Of Meta the `Instagram`
module assumes that a call whose answer was lost has taken effect or never will
by the next status read, and that a second `media_publish` would make a second
post. In `Vault`'s ingest ward every envelope is drained atom by atom, one commit
each; the five of the run are two with atoms, which share one, a sound one with
none, one with a bad tag and one that is no envelope.

## The runs

| Run | Instance | Shows |
|---|---|---|
| `delivery_daemon` | one loop, one generation, one WhatsApp and one Telegram identity, 2 attempts, 2 references | the records agree with what the providers did: no duplicate, no false "unsent", no phantom success, no orphan; summary and trail follow every change; jobs only climb |
| `delivery_reuse` | two WhatsApp identities with one reference for all their messages and a Telegram identity whose reference may come late, one attempt each, interleaved transactions | a report that overtakes its binding is replayed and never left waiting; the inductive invariant of `DeliveryProofs` holds |
| `delivery_live` | two generations of a WhatsApp identity, 3 clock values, fair workers | nothing is sent early or from a discarded generation; a sending or due campaign comes to rest |
| `mutations` | a creation and a two-step saga, at most 3 calls before the client stops replaying | resolve-only operations are called once; rows and answers are true; sagas run in order; one retry while anchored; the schema's triggers are never hit |
| `mutations_reinvoked`, `mutations_saga` | one operation each | disagreements 1 and 2 below |
| `webhooks` | two bodies, one in two parts, one perhaps unverifiable or malformed, two reports, four mailbox rows, one fault | no relay row disappears, a finished row had each effect once, the webhooks implement `Reports`, an answered report is applied |
| `audit_chain` | five events, three epochs, three crashes | the anchor only advances, a stale one stops writes, what retention leaves verifies, a cutover binds one seal and ends |
| `system` | the nine other parts, each with two or three of everything it counts and one or two faults (the vault with one nonce) | `KeysStayUsable`, `GrantsStaySingle`, `AcceptedIsCurrent`, `ReleasedUnderLiveAuthority`, `BudgetHolds`, `ReleaseIsAccounted`, `ReadsMissNothing`, `VaultKeepsItsWord`, `InstagramKeepsCount`, `DirectoryStaysSound`, `ProvidersTellTheTruth`, `ContextIsFaithful` |
| `audit_restart`, `custody_import` | `AuditChain` and `Custody` alone | disagreements 3 and 4 |
| `vault_draft` | `Vault`'s sending alone: two senders, two nonces, one draft, one device | disagreement 5: one draft, two nonces, two messages |

Bounds. `Cap` 2 stands for 5: the cap's edge, a first attempt and a retry
are all reached (`delivery_reuse` has 1, for its three identities). One campaign
is enough, because campaigns share no row except provider references (`delivery_reuse` has two jobs competing for one) and the
engine, which runs one campaign at a time. Two generations let a campaign be
unscheduled and frozen again. References are interchangeable, so `RefSymmetry`
is sound for the safety runs; the liveness run uses no symmetry. `MaxCalls` = 3
is one more than the documented maximum.

In `MCSystem` the parts keep their state apart (where they do meet, each side
models what it sees of the other), and every property is about one part. A
behaviour in which only the part named by `focus` moves therefore stands for
every interleaving with the others; the variables of the others are off, and
`Access`, `Directory`, `Instagram` and `Vault`, which `MCSystem` extends, stay as
they were installed. Inside a part nothing is held still, except
where its header says that its desks share no table. Two of a thing are enough
to compete, a third is given where a cut in the middle needs neighbours on both
sides (rows of a page, chats of a search, events of an epoch), and each fault
may happen twice where the code must survive a fault in its own recovery
(`MaxCrashes` = 2, and 3 in `audit_chain`, whose cutover is the longest
protocol). Budgets and page sizes are 1 to 3, so that an edge is reached after
a step or two. In `system` the two people and the two audiences no campaign is
aimed at are interchangeable (`Alike`): only the directory has them in its
constants, and it treats them alike. The send ward of `system` has two senders
and one nonce for every approval, so that each approval competes with every other
of its nonce; that `SentOnce` holds for any number of nonces is proved, and
`vault_draft` has two, where the senders and the nonces are interchangeable
(`Interchangeable`).

Deadlock is checked in the `Delivery` and `Mutations` runs, where a crash or a
restart is always possible, and in `webhooks`, `audit_chain` and
`audit_restart`. It is off in `system`, `custody_import` and
`vault_draft`: an owner who wants
nothing more, or a walk that has ended, is a state in which those parts may
rest, and the bounds on their environment end every behaviour.

Fairness (`delivery_live`). Weak fairness of the engine's own steps: a provider
call ends, by answer or by deadline, and the loop goes on. Strong fairness of
`execute` and `run_due` per campaign: the workers visit every campaign each
period, but other handlers, the latch and crashes may disable them in between.
Weak fairness of recovery, which runs before anything is served. Operators,
providers, crashes and repairs owe nothing; the property therefore assumes that
the daemon finally stays up with an intact trail.

Fairness (`webhooks`, `audit_chain`). The worker loops run for ever and one
after the other (`runtime/workers.py`): weak fairness of a tick that has begun
and of the restart, strong fairness of the next pull and of the worker, because
a failing pull, a tick or a crash disables them for a while; a relay and an
archive that are tried for ever answer in the end. Meta, the relay's purge and
crashes owe nothing, hence the exception in
`AnsweredIsApplied` for a body one of whose rows was purged. For the chain: an
operation that has begun goes on, a stopped daemon is started, the owner runs the cutover again until it completes,
and the disk takes an anchor again in the end.

## Where documentation and code disagree

1. *A mutation is re-invoked at most once* (`services/mutations.py:17`). The
   retry is marked only on an OUTCOME_UNKNOWN row. After a failed anchor the row
   stays IN_FLIGHT; once the trail is repaired in the running daemon, its replay
   calls the provider again unmarked, and a later replay uses the retry: three
   calls (`mutations_reinvoked`). `AnchoredRetriedOnce` is what does hold:
   without a failed anchor, two calls at most, crashes included.
2. *Return the known state* (`services/mutations.py:450`). A failed anchor on a
   saga's first step answers the step's SUCCEEDED for the mutation
   (`mutations_saga`).
3. *Once the chain exists, a clean anchor is READY* (`runtime/state.py:14`).
   `_integrity` verifies without the truncation root. After a retention run has
   removed the beginning of the chain, every later start finds a mismatch and
   latches, although the anchor names the head and the audit commands, which use
   the root, call the chain sound (`audit_restart`).
4. *Never registered: nothing references it* (`core/backup/export_import.py:310`).
   The handler also runs for an anchor that fails after the commit, and then
   destroys the chain key the commit made active (`custody_import`).
5. *Consumes the nonce (approval_nonces UNIQUE — the replay gate)*
   (`transports/whatsapp/src/whatsvault/approval/sender.py:6`), *single-use
   nonces* (`transports/whatsapp/CHANGELOG.md:247`). The decision is signed over
   the draft's nonce, the nonce spent is the envelope's (`sender.py:100`), and
   the two are not compared: an approval filed under two nonces is claimed twice
   and its draft is sent twice (`vault_draft`). `SentOnce` is what does hold.
Two more are modelled without a run of their own; the properties that hold
there state them as exceptions:

- *Every step SUCCEEDED → SUCCEEDED* (`services/recovery.py:11`). A retried row
  is OUTCOME_UNKNOWN, and recovery (`restart`, `recover`) lists only IN_FLIGHT
  ones: a stop between recording the retried step and finishing the row leaves it
  unknown for ever. `RecordsAreTrue` says only that a settled row is not false.
- *The cursor resumes right after the last item kept*
  (`transports/telegram/user/context.py:7`). `_page` moves the cursor only where
  its caller pages by message. A page of members that its budget cuts keeps the
  provider's cursor, past the rows cut, or none; likewise an answer around a
  message loses its older end, which can be the message itself, and a thread its
  tail. `ContextIsFaithful` counts those rows as `lost`.

### Limits of the properties, found while modelling

What follows is what the code does; the properties state it as an exception, or
the model leaves it to one side, and each exception is visible in the module
named.

- `AuditChain`: an anchor failure under the cutover's own hold is not recorded,
  because the first reason of the latch is kept (`masked`); audited writes before
  the genesis are not gated (`serve.py:8`) and then stop a cutover; a repair also
  clears the cutover's hold.
- `Webhooks`: an import into the archive that always fails for one row holds up
  every row behind it (`worker.py:91`); `AnsweredIsApplied` assumes it succeeds
  in the end.
- `Custody`: a crash in the first provisioning between a key file and its row
  leaves an unregistered version that a second run refuses (`provision.py:120`);
  a crash after a revocation leaves the secret's file behind.
- `Access`: `revoke_all` leaves outstanding codes exchangeable;
  `bump_security_epoch` (`core/security.py:20`) has no caller.
- `Disclosure`: the coordinator looks at the degraded latch only when a call
  begins (`coordinator.py:332`); a repair that is cut off after the anchor is
  rewritten leaves a clean anchor with the latch on (`anchor.py:137`).
- `Reads`: a chat whose last message is deleted may be listed again (`Steady`).
- `Directory`: the opt-out of a disabled contact row does not reach the row that
  replaced it; a group webhook that overtakes the commit of its own creation is
  dropped.
- `Providers`: the refusal of a file raised by the reissue is recorded as FAILED
  although the first, ambiguous request may have sent it (`user/admin.py:199`,
  `raised`), where a text is recorded as OUTCOME_UNKNOWN (`user/send.py:147`); a
  retried request whose second call is refused is recorded as FAILED; a file
  replaced by its sender during a download may come out mixed (`edited`).
- `Context`: the continuation of `group.members_list` ignores its cursor and is
  the first page again (`facades.py:166`); the continuation of a person's
  messages chooses its reader anew (`facades.py:369`); the row an archive cursor
  names may have been swept, which ends the walk (`webhooks/archive.py:161`). These are
  `broke`. A message that was deleted is answered with its next newer neighbour
  by the user account (`user/context.py:269`).
- `Vault`: a startup recovery settles the attempt of another live sender as
  INDETERMINATE; a sealed envelope that cannot be opened stays at the head of
  the queue; undoing an import leaves its search documents until the next
  reindex.

## What is proved

Every theorem holds for all values of the constants that its module's named
assumption allows: any campaigns, generations, endpoints, transports and
references, any attempt cap of at least one, with or without reference reuse
(`DeliveryAssumption`); any requests, any number of steps, either policy
(`MutationsAssumption`); any bodies, parts, reports, page and mailbox sizes
(`WebhooksAssumption`); any number of events, epochs and crashes
(`AuditChainAssumption`); any local clients, requests, approvals and tokens
(`AccessAssumption`); any clients, versions and crashes (`CustodyConstants`);
any finite sets of clients, projects and chats, any memberships and grants, any
threshold of at least one (`DisclosureConstants`); any locations, people,
audiences and identities, and any number of edits and creations
(`DirectoryConstants`); any accounts, users and listings, any budget, look-back
and page size of at least one (`InstagramConstants`); any devices, senders, nonces, drafts,
webhooks and what they hold, exports and grant requests, any lease of at least
one (`VaultConstants`). The last five are
hypotheses of the theorems, which `MCSystem` assumes of its parts
(`SystemAssumption`). The assumptions give the constants their types and say
that a "none" value is no value of the tables and that names of different kinds
differ; the one about hooks is that
`on_created` is passed only for creations, which may not be retried. Each module
states its inductive invariant as a conjunction of named parts, beside its
properties, and its theorems follow from that one.

### Delivery (`DeliveryProofs`)

`DeliveryInvariant` gives `TypeCorrect`, `UnsentRecordsAreTrue` and
`AtMostOneMessage`, for both values of `SingleLoop`. That a job has sent at most
one message depends on what the engine holds between its two transactions.
`RunHoldsItsJob` says that the job a run has claimed can only have been moved by
a provider's report and that the run's attempt is the current one;
`NothingSentYet`, that until its result is recorded it had sent nothing before
this attempt, and that a transient failure means nothing was sent at all;
`RunAfterRecovery`, that recovery never sees a running engine; `AttemptsLeft`,
that a pending job may be tried once more. With `UnsentClaimsAreTrue` these make
the claim of a job safe, and with it the one step, `deliver`, that makes a
message. Most actions are covered by one lemma (`Outside`): a step that makes no
message, counts no attempt, takes up no job and moves jobs only in the allowed
directions keeps the invariant.

`RecordsInvariant` rests on it and adds when a generation *starts*: it is its
campaign's current one and the campaign is sending or complete. Before the start
nothing has been attempted, sent or bound (`NothingBeforeStart`); a start is not
early (`StartedInTime`); the engine runs only a started generation
(`RunHasStarted`) and `CurrentIsOwned` keeps the pointer to it; a reference is
bound only to a job that has a message (`EvidenceIsReal`). From it:

- `NothingEarly`, `SummaryIsAlwaysDerived` (every action that moves a job also
  refreshes the summary of the campaign the job counts for), `TrailNeverLies`;
- `NoReportIsStranded`: a report that names one job is not left waiting, also
  when a reference is reused;
- `SuccessesAreReal`: an accepted, delivered or read job has a message;
- `JobsNeverDescend`: the action property `JobsOnlyClimb`;
- `NoneIsForgotten`: no orphan in flight, in the single loop the daemon runs.
  The hypothesis `SingleLoop` is needed: with interleaved transactions a late
  message id could bind the attempt a run is making, the binding at the run's
  end would raise and roll its record back, and the job would stay in flight
  until the next start. The daemon's one loop excludes it
  (`NothingBoundInARun`).

### Mutations (`MutationsProofs`)

`MutationsInvariant` ties rows and steps to how often the provider was called.
`StepsAreTrue` is the ground truth of a step's record, `RowsFollowSteps` lifts
it to rows and answers, `StepsOrdered` says that a step leaves PENDING only
after those before it succeeded (or when recovery settles a mutation nobody
attempted). What the executor holds in hand between two transactions is in
`OpenRow`, `CallInHand` and `OutcomeInHand`; `NothingRunsEarly` keeps it away
from recovery; `RetriesCounted` is the argument for one retry: while a row is in
flight and nobody has a call of it in hand, none of its steps is ambiguous,
unless an anchor failed. The theorems are `TypeCorrect`, `CalledOnce`,
`SettledRowsAreTrue`, `ClientsAreToldTheTruth`, `SagasInOrder`,
`RetriedAtMostOnce` and the action property `SettledIsFinal`.

### Webhooks (`WebhooksProofs`)

`NoRowDisappears` is an argument about three cursors. The mailbox is a gapless
suffix of what was stored (`MailboxIsASuffix`); what the collector acknowledged
is settled (`AckedIsSettled`); a tick has settled every row up to its own cursor
except those of the batch it still holds (`TickIsSound`), and its page continues
where that cursor, or the purge it knows of, ends (`PageFollowsCursor`). So an
acknowledgement, which removes rows, removes only settled ones, wherever an
answer was lost or the process stopped. `InboxIsTrue` and `EffectsMatchFlags`
give `FinishedMeansApplied`, and `WebhooksImplementReports` is the refinement:
the step that applies a row's reports is `Reports`' `Apply`, a post is its
`Report`, every other step stutters.

### AuditChain (`AuditChainProofs`)

Each event is minted once and numbered after its predecessor (`ChainIsLinked`),
a truncated chain starts at a signed root (`RootIsSealed`), and the active key
is the one of the head's epoch while destroyed ones are of epochs no longer
retained (`KeysMatchChain`): `ChainAlwaysVerifies`. `AnchorIsSound` says that an
anchor which is not the head's is owed by the operation under way, held by the
latch, or known to be masked by the cutover's own hold; ids are what tells an
anchor of this chain from one of a database that was replaced. It gives
`StaleIsHeld` and the action property `AnchorNeverRetreats`. `LineageIsSound`
ties lineage, digest, genesis event and phase: `SealBoundOnce`.

### Custody (`CustodyProofs`)

`CustodyInvariant` says for each kind of key what a protocol must not break and,
in `RunHoldsItsKeys` and its neighbours, what the protocol under way still finds
as it read it. The database is under a stored key before and after each step of a
rekey (`DbKeyIsStored`); no client's seed is the one being replaced
(`SeedsAreStored`); a purpose has one active version, whose file exists
(`ActiveIsStored`). `ChainKeysFollowEpochs` is the part that is hard to see:
while the latch is clear the registered chain keys are exactly those of the
epochs 1 to n, so that the number a rotation or an import takes from the files is
the number of the next epoch, and a repair, which wants every epoch's key, cannot
clear the latch after an import has destroyed one. `KeysSurvive` follows. Its
proof found no other exception than the one of disagreement 4.

### Access (`PartsProofs`)

`AccessInvariant` dates every credential. Each command of the owner that is meant
to end credentials shows in the epoch, seed or key it replaces
(`CutsAreCounted`), and what was issued carries an epoch, seed or key no newer
than the commands that had run (`LeasesAreDated`, `BearersAreDated`,
`HandlesAreDated`); a lease, bearer or handle that passes its check has therefore
seen them all: `RevokedIsRefused`. For grants, an approval is used up by the
family it starts (`FamiliesAreApproved`), and in a family each token but the last
is used or revoked, all of them once one is replayed (`FamiliesAreChains`), also
when two exchanges of one token overlap: `OneGrantPerApproval`.

### Disclosure (`DisclosureProofs`)

A step is the owner's, and then moves the authority forward and touches no
receipt (`OwnerStep`); or a call's, which leaves the authority alone; or a
fault's. The first part of `DisclosureInvariant` is about snapshots: a snapshot
that a call or a cursor carries names epochs that were current once, and where
they still are, the members it lists are those the owner lets out now
(`Faithful`). Grants have no epoch, so a snapshot says nothing of them; the
second look compares them, with the members, and that is why it must
(`revalidate`). A call also remembers that the session was active under its
security epoch, and that its cursor was minted under the same scope
(`FaithfulCall`). With these `AuthorityAtRelease` needs only the step that
releases.

The budget is a matter of when a reservation is counted: between its lapse and
the end of its call nothing in the ledger or in memory stands for it. The bound
holds because one call of a client runs at a time, so what is committed plus the
worst case of the call in flight is under the threshold from the moment the call
is let in, whether or not its reservation still lives (`UsageIsBounded`), and
because the records of a page are no more than the page's limit in any bucket
(`WorstCaseHolds`). For the chain, `WithheldStaysIn` says that no repair event and
no latch names a disclosure that is out, so nothing later contradicts its record.

### Directory (`PartsProofs`)

`path_is_valid` is asked before every send and must agree with the resolution
that froze the path, although the two read the tables in different ways: one
follows a stored path edge by edge, the other collects downwards from the
targets. The proof puts a third thing between them, the set of all sequences that
lead from a target through audiences to an endpoint (`Routes`). No edit takes one
away: rows are disabled and not deleted, and a contact point stays its person's
(`RoutesGrow`), so a frozen origin remains a route (`OriginsAreRoutes`). Of the
routes, resolution finds exactly the valid ones (`ResolutionIsValidity`). For
`Acyclic` the search of `_reaches` is stated by its result, what every set closed
under membership contains; a new member from which the audience is not reached
closes no cycle. With it come one enabled endpoint per identity, opt-outs that
stay, and groups filed once, whichever way Meta's answers arrive:
`DirectorySound`.

### Instagram (`PartsProofs`)

`InstagramInvariant` says what a request has in hand between its calls
(`CallIsTrue`) and what was recorded of it (`AskIsTrue`). A request about to call
`media_publish` has read, in the same call and after the ledger, that its
container is not out, and no other write runs; its container has no media until
Meta answers. For what a request leaves behind, the hard case is a container that
Meta made and no row names, because the answer was lost or the process stopped
before the ledger was written. `LossesAreOwned` bounds these by the requests that
may have left one (`Owing`), through crash and recovery, so every lost container
belongs to a request whose outcome is recorded as unknown. `AccountsSound` ties
tokens to accounts while a command is between its two writes; `WalkSound` says of
a walk over pages that its cursor is the position after the last item read, a
formula in closed form, so that no induction along the walk is needed. They give
`InstagramKept`.

### The vault (`PartsProofs`)

`VaultInvariant` has a part for each ward, and a ward that stands keeps its own
(`VaultFrames`). Sending is about two processes and one nonce: every attempt's
nonce is spent, no two attempts have the same nonce, and the draft of each is
approved under its nonce (`AttemptsAreTrue`), so at most one message goes out per
nonce if an attempt is sent at most once. That is what `HandsAreTrue` is for,
which also carries the approval from the checks to the claim; no envelope is ever
taken back (`ApprovalsLast`). An attempt is in the hands
of one sender, and before its call is not out, whoever starts up meanwhile and
settles it as INDETERMINATE; after the call the answer in hand says what became
of it, so that FAILED is written only of what was not sent.

An envelope may be acknowledged when it is `Settled`: dead, or with all of its
atoms in the ledger. Nothing undoes that, so it is enough that a drain has settled
what it means to acknowledge and that of the envelope at hand the atoms before the
current one are in (`DrainIsTrue`), whatever was delivered twice, handed back in
the middle or dropped by a crash. That no sound envelope becomes a dead letter
rests on `healthy`: a bad tag is taken for a bad envelope only when the key has
opened another in the same drain, and the key does not change within one. The
window is never past the newest inbound message kept, because the commit comes
before it moves and the evidence only grows (`EvidenceGrows`).

For imports the argument is one of counting observations: the messages kept are
those of the live batches, and a batch's observations are on record exactly while
it is live (`ImportsSound`), so an undo, which asks whether another batch observed
a message, asks whether one is live. A pair of tokens belongs to a grant whose code
was exchanged, which happens once; a refresh revokes the whole family before it
issues (`PairsSound`). `SetupSound` needs no more than its property: a key is made
only for a database that is not there. Together they give `VaultKept`.

### The installation (`SystemProofs`)

The parts `MCSystem` puts side by side keep their state apart: a step of the
installation is a step of one part and a stutter of every other (`StepOfParts`).
So the invariants of `Access`, `Directory`, `Instagram` and `Vault`, and those of
the instances of `Custody` and `Disclosure`, hold together (`SystemInductive`), and
the properties the run `system` checks follow for every value of the constants:
`InstalledKeysSurvive`, `InstalledBudgetIsKept`, `InstalledReleasesAreAccounted`,
`InstalledRegistersAreSound` (access, directory, Instagram and vault), and the
action property
`InstalledReleasesAreLive`.

### Induction over data

Where a fact needs induction over a natural number (that replayed reports never
move a settled job, that the worker's row is the first unfinished one),
`LeastNatural` is proved from the library's theorem on well-founded relations
and the proof takes a least counterexample. That is why `Delivery` writes the
replay of waiting reports as the sequence of states it passes through
(`Replays`) and not as a recursive operator.

### Only model-checked

`DueCampaignsSettle`, `AnsweredIsApplied` and `CutoverCompletes`, because
liveness under fairness is out of this prover's reach; and of `system` the
properties of `Reads`, `Providers` and `Context`, for which no proof has been
written. What `Reads` and `Context` promise is about walks over logs and
pages and needs induction over data.

## Plan

Modelling follows the order the hazards asked for: delivery and mutations first,
then the chain and the webhooks they rest on, then custody, access, disclosure,
the directory and the transports. Proofs follow the same order; those of the
first four modules, `Custody`, `Access`, `Disclosure`, `Directory`, `Instagram`
and `Vault` are done, and so is their composition. What is left is `Providers`,
whose desks do not walk a log, and then the walks of `Reads` and `Context`, for
which a closed form of the cursor, as in Instagram's `WalkSound`, would have to
be found.

## Not modelled

Message contents, templates and rendering, digests, commitments, signatures and
encryption; HTTP, schemas, request validation and dispatch; the conversion of
provider objects into views; migrations; the CLI and the setup commands of the
daemon; provider rate limits (`with_rate_limit` has no caller); listeners, hot
reload and assembly. The scripts (smoke tests, migration from earlier layouts)
are not part of the running system. The reasons are given per component in
`PROJECT.json`.
