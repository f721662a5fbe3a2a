------------------------------- MODULE Vault --------------------------------
(***************************************************************************)
(* WhatsVault, the WhatsApp vault kept under transports/whatsapp: what it  *)
(* takes in and what it lets out.                                          *)
(*                                                                         *)
(* A draft leaves only with an approval signed by a paired device, once    *)
(* for each nonce its envelopes name; sealed webhooks come from a queue    *)
(* that delivers at least once, through a dedup ledger and a dead letter   *)
(* table; chat exports are imported and undone; a read-only OAuth grant is *)
(* issued from a terminal; the vault is set up by a command that may be    *)
(* cut off and run again.                                                  *)
(*                                                                         *)
(* The wards share no table but the service window, which ingest advances  *)
(* and sending reads: one ward moves in a behaviour.                       *)
(***************************************************************************)
EXTENDS Integers, Sequences, FiniteSets, SequencesExt

CONSTANTS
    Wards,          \* the wards that move
    Devices,        \* approval devices
    Bodies,         \* texts a draft may carry
    Nonces,         \* nonces an approval's envelope may name
    Senders,        \* processes that execute writes
    Window, TTL,    \* the service window and a draft's life, in clock steps
    MaxNow, MaxDrafts, MaxUses,
    Envelopes,      \* the sealed webhooks that reach the queue, in order
    Holds,          \* the atoms each envelope carries
    Quality,        \* "sound", "bad_envelope" or "aead": what opening it finds
    Inbound,        \* atom |-> its provider time, for the inbound messages
    Lease,          \* max_lease
    Exports,        \* import run |-> the lines of its export
    GrantRequests,         \* authorization requests
    MaxPairs,
    MaxUpsets       \* crashes, jumps of the clock, key faults

VARIABLES
    ward, upsets,
    now, guard, device, template, drafts, decisions, nonces, attempts, posted,
    candidates, sender, permit, marked, window,
    pending, leased, acked, ledger, rows, indexed, quarantined, circuit, keyring, drain,
    batches, observed, kept, found,
    grants, pairs, reused,
    keys, files, setup

timeVars == <<now, guard>>
pairing == <<device, template>>
drafting == <<drafts, decisions>>
sending == <<nonces, attempts, posted, candidates>>
permits == <<permit, marked>>
sendVars == <<pairing, drafting, sending, permits, sender>>
queueVars == <<pending, leased, acked, circuit, keyring, drain>>
storeVars == <<ledger, rows, indexed, quarantined>>
importVars == <<batches, observed, kept, found>>
grantVars == <<grants, pairs, reused>>
setupVars == <<keys, files, setup>>
vaultVars == <<ward, upsets, timeVars, sendVars, window, queueVars, storeVars, importVars, grantVars, setupVars>>

Atoms == UNION {Range(Holds[m]) : m \in Range(Envelopes)}

IdleSender == [at |-> "idle"]
IdleDrain == [at |-> "idle"]
NoPermit == [used |-> -1]

Lanes == {"vault", "control"}
ServiceKeys == {"token", "audit"}

\* The shipped schema of each database.
Latest == [vault |-> 6, control |-> 5]

VaultInit ==
    /\ ward \in Wards /\ upsets = 0
    /\ now = 1 /\ guard = [s \in Senders |-> 0]
    /\ device = [d \in Devices |-> "NONE"] /\ template = "NONE"
    /\ drafts = <<>> /\ decisions = {} /\ nonces = {}
    /\ attempts = <<>> /\ posted = {} /\ candidates = {}
    /\ sender = [s \in Senders |-> IdleSender]
    /\ permit = NoPermit /\ marked = 0 /\ window = 0
    /\ pending = <<>> /\ leased = {} /\ acked = {}
    /\ ledger = {} /\ rows = [a \in Atoms |-> 0] /\ indexed = {} /\ quarantined = {}
    /\ circuit = "CLOSED" /\ keyring = "good" /\ drain = IdleDrain
    /\ batches = [b \in DOMAIN Exports |-> "NONE"] /\ observed = {} /\ kept = {} /\ found = {}
    /\ grants = [g \in GrantRequests |-> "NONE"] /\ pairs = <<>> /\ reused = {}
    /\ keys = [k \in Lanes \cup ServiceKeys |-> 0]
    /\ files = [k \in Lanes |-> [key |-> 0, version |-> 0]] /\ setup = <<>>

-----------------------------------------------------------------------------
(***************************************************************************)
(* Sending.  One conversation.  The device signs the decision over the     *)
(* draft's nonce; the nonce that is filed and spent is the one the         *)
(* envelope names, which nothing compares with it.                         *)
(***************************************************************************)

\* The clock the guard watches, which may be set back.
tick == now < MaxNow /\ now' = now + 1 /\ UNCHANGED <<upsets, guard, sendVars, window>>
clock_jump == now > 1 /\ upsets < MaxUpsets /\ now' = now - 1 /\ upsets' = upsets + 1
              /\ UNCHANGED <<guard, sendVars, window>>

\* An inbound message, already kept, moves the window; it never moves back.
advance_window(t) == window' = IF t > window THEN t ELSE window
_window_open == window > 0 /\ now < window + Window

enroll(d) ==
    /\ device[d] = "NONE" /\ device' = [device EXCEPT ![d] = "ACTIVE"]
    /\ UNCHANGED <<template, drafting, sending, permits, sender>>
revoke(d) ==
    /\ device[d] = "ACTIVE" /\ device' = [device EXCEPT ![d] = "REVOKED"]
    /\ UNCHANGED <<template, drafting, sending, permits, sender>>

\* The send policy both ends evaluate: the first rule that fails, or none.  The
\* account, rate and group rules are given fixed answers by both callers.
evaluate(recipient, kind, expires) ==
    IF ~recipient THEN "P1_RECIPIENT_UNBOUND"
    ELSE IF kind = "text" /\ ~_window_open THEN "P2_WINDOW_CLOSED"
    ELSE IF now >= expires THEN "P4_EXPIRED"
    ELSE "ok"

\* A text already drafted is handed back, whatever became of that draft.
prepare_text(b) ==
    /\ evaluate(TRUE, "text", now + 1) = "ok" /\ Len(drafts) < MaxDrafts
    /\ \A i \in DOMAIN drafts : drafts[i].body # b
    /\ drafts' = Append(drafts, [body |-> b, kind |-> "text", recipient |-> TRUE, expires |-> now + TTL])
    /\ UNCHANGED <<pairing, decisions, sending, permits, sender>>

upsert_from_sync(state) ==
    /\ template # state /\ template' = state
    /\ UNCHANGED <<device, drafting, sending, permits, sender>>

\* A template draft names no recipient.
prepare_template ==
    /\ template = "APPROVED" /\ Len(drafts) < MaxDrafts
    /\ drafts' = Append(drafts, [body |-> "params", kind |-> "template", recipient |-> FALSE,
                                 expires |-> now + TTL])
    /\ UNCHANGED <<pairing, decisions, sending, permits, sender>>

\* The relay files an envelope of an active device; the same one again, with the same
\* nonce, is the same row.
accept_envelope(i, d, decision, n) ==
    /\ device[d] = "ACTIVE" /\ i \in DOMAIN drafts
    /\ decisions' = decisions \cup {[draft |-> i, device |-> d, decision |-> decision, nonce |-> n]}
    /\ decisions' # decisions
    /\ UNCHANGED <<pairing, drafts, sending, permits, sender>>

Approval(i, d, n) == [draft |-> i, device |-> d, decision |-> "APPROVE", nonce |-> n]

\* The checks, in order.  A clock that ran backwards refuses before any of them.  The
\* signature holds for every envelope of this draft and device, whatever nonce it names.
execute_write(s, i, d, n) ==
    /\ sender[s] = IdleSender /\ Approval(i, d, n) \in decisions
    /\ now >= guard[s] /\ guard' = [guard EXCEPT ![s] = now]
    /\ sender' = [sender EXCEPT ![s] =
          IF device[d] = "ACTIVE" /\ evaluate(drafts[i].recipient, drafts[i].kind, drafts[i].expires) = "ok"
          THEN [at |-> "checked", draft |-> i, nonce |-> n] ELSE IdleSender]
    /\ <<guard', sender'>> # <<guard, sender>>
    /\ UNCHANGED <<pairing, drafting, sending, permits>>

\* The row of send_attempts; its idempotency key is of the draft and the nonce.
_attempt(s) ==
    [draft |-> sender[s].draft, nonce |-> sender[s].nonce, state |-> "SUBMITTING", wamid |-> FALSE]

\* Mutant: the nonce is not looked at before it is spent.
claim_respending(s) ==
    /\ sender[s].at = "checked"
    /\ nonces' = nonces \cup {sender[s].nonce}
    /\ attempts' = Append(attempts, _attempt(s))
    /\ sender' = [sender EXCEPT ![s] = [at |-> "claimed", attempt |-> Len(attempts) + 1]]
    /\ UNCHANGED <<pairing, drafting, posted, candidates, permits>>

\* One commit spends the nonce and records the attempt, before anything is sent.
claim(s) ==
    /\ sender[s].at = "checked"
    /\ IF sender[s].nonce \in nonces
       THEN sender' = [sender EXCEPT ![s] = IdleSender] /\ UNCHANGED <<nonces, attempts>>
       ELSE /\ nonces' = nonces \cup {sender[s].nonce}
            /\ attempts' = Append(attempts, _attempt(s))
            /\ sender' = [sender EXCEPT ![s] = [at |-> "claimed", attempt |-> Len(attempts) + 1]]
    /\ UNCHANGED <<pairing, drafting, posted, candidates, permits>>

\* The provider: it takes the text or not, and its answer may be lost on the way.
send_text(s, taken, answer) ==
    /\ sender[s].at = "claimed"
    /\ answer \in IF taken THEN {"SUBMITTED", "timeout"} ELSE {"connect", "error", "timeout"}
    /\ posted' = IF taken THEN posted \cup {sender[s].attempt} ELSE posted
    /\ sender' = [sender EXCEPT ![s] = [at |-> "answered", attempt |-> @.attempt, answer |-> answer]]
    /\ UNCHANGED <<pairing, drafting, nonces, attempts, candidates, permits>>

_finish(s) ==
    /\ sender[s].at = "answered"
    /\ LET a == sender[s].attempt
           state == CASE sender[s].answer = "timeout" -> "INDETERMINATE"
                      [] sender[s].answer = "SUBMITTED" -> "SUBMITTED"
                      [] OTHER -> "FAILED"
       IN attempts' = [attempts EXCEPT ![a].state = state, ![a].wamid = IF state = "SUBMITTED" THEN TRUE ELSE @]
    /\ sender' = [sender EXCEPT ![s] = IdleSender]
    /\ UNCHANGED <<pairing, drafting, nonces, posted, candidates, permits>>

\* Any service that starts settles every attempt it finds submitting, another's too.
recover_startup ==
    /\ attempts' = [a \in DOMAIN attempts |->
          IF attempts[a].state = "SUBMITTING" THEN [attempts[a] EXCEPT !.state = "INDETERMINATE"]
          ELSE attempts[a]]
    /\ attempts' # attempts
    /\ UNCHANGED <<pairing, drafting, nonces, posted, candidates, permits, sender>>

\* A status webhook of a message that went out: it settles an indeterminate attempt
\* it names, recognises a known one, and is otherwise left for a person.
on_status_event(a, named) ==
    /\ a \in posted /\ a \in DOMAIN attempts
    /\ IF named /\ attempts[a].state = "INDETERMINATE"
       THEN attempts' = [attempts EXCEPT ![a].state = "SUBMITTED", ![a].wamid = TRUE] /\ UNCHANGED candidates
       ELSE /\ ~attempts[a].wamid /\ UNCHANGED attempts
            /\ candidates' = candidates \cup {a} /\ candidates' # candidates
    /\ UNCHANGED <<pairing, drafting, nonces, posted, permits, sender>>

resolve(a) ==
    /\ a \in candidates /\ candidates' = candidates \ {a}
    /\ UNCHANGED <<pairing, drafting, nonces, attempts, posted, permits, sender>>

\* A signed grant to mark messages read, and its uses.
store_grant(d) ==
    /\ device[d] = "ACTIVE" /\ permit = NoPermit /\ permit' = [device |-> d, used |-> 0]
    /\ UNCHANGED <<pairing, drafting, sending, marked, sender>>

\* The target is bound to its inbound message before a use of the grant is spent.
mark_read(s) ==
    /\ sender[s] = IdleSender /\ permit # NoPermit
    /\ device[permit.device] = "ACTIVE" /\ permit.used < MaxUses
    /\ sender' = [sender EXCEPT ![s] = [at |-> "granted", seen |-> permit.used]]
    /\ UNCHANGED <<pairing, drafting, sending, permits>>

\* A use is spent only against the count that was read.
verify_and_consume(s) ==
    /\ sender[s].at = "granted"
    /\ IF permit.used = sender[s].seen
       THEN permit' = [permit EXCEPT !.used = @ + 1] /\ marked' = marked + 1
       ELSE UNCHANGED permits
    /\ sender' = [sender EXCEPT ![s] = IdleSender]
    /\ UNCHANGED <<pairing, drafting, sending>>

sender_dies(s) ==
    /\ sender[s] # IdleSender /\ upsets < MaxUpsets /\ upsets' = upsets + 1
    /\ sender' = [sender EXCEPT ![s] = IdleSender] /\ guard' = [guard EXCEPT ![s] = 0]
    /\ UNCHANGED <<now, pairing, drafting, sending, permits>>

Sending ==
    /\ \/ tick \/ clock_jump
       \/ \E s \in Senders, i \in 1..MaxDrafts, d \in Devices, n \in Nonces :
             execute_write(s, i, d, n) /\ UNCHANGED <<upsets, now, window>>
       \/ \E s \in Senders : sender_dies(s) /\ UNCHANGED window
       \/ /\ \/ \E d \in Devices : enroll(d) \/ revoke(d)
             \/ \E b \in Bodies : prepare_text(b)
             \/ \E state \in {"APPROVED", "PAUSED"} : upsert_from_sync(state)
             \/ prepare_template
             \/ \E i \in 1..MaxDrafts, d \in Devices, v \in {"APPROVE", "REJECT"}, n \in Nonces :
                   accept_envelope(i, d, v, n)
             \/ \E s \in Senders : claim(s) \/ _finish(s)
             \/ \E s \in Senders, taken \in BOOLEAN, answer \in {"SUBMITTED", "timeout", "connect", "error"} :
                   send_text(s, taken, answer)
             \/ recover_startup
             \/ \E a \in posted, named \in BOOLEAN : on_status_event(a, named)
             \/ \E a \in candidates : resolve(a)
          /\ UNCHANGED <<upsets, timeVars, window>>
       \/ advance_window(now) /\ window' # window /\ UNCHANGED <<upsets, timeVars, sendVars>>
    /\ UNCHANGED <<queueVars, storeVars, importVars, grantVars, setupVars>>

Marking ==
    /\ \/ \E d \in Devices : enroll(d) \/ revoke(d) \/ store_grant(d)
       \/ \E s \in Senders : mark_read(s) \/ verify_and_consume(s)
    /\ UNCHANGED <<upsets, timeVars, window, queueVars, storeVars, importVars, grantVars, setupVars>>

-----------------------------------------------------------------------------
(***************************************************************************)
(* Ingest.  A drain leases some envelopes, opens them one by one, commits  *)
(* their atoms one by one, and acknowledges at its end what it settled.    *)
(***************************************************************************)
Here == drain.batch[1]
settled == [drain EXCEPT !.at = IF Len(drain.batch) = 1 THEN "ack" ELSE "open",
                         !.batch = Tail(@), !.acks = @ \cup {Here}]
nacked == [drain EXCEPT !.at = IF Len(drain.batch) = 1 THEN "ack" ELSE "open", !.batch = Tail(@)]

\* The edge posts each envelope once; the queue delivers it at least once.
add ==
    /\ Cardinality(leased \cup acked \cup Range(pending)) < Len(Envelopes)
    /\ pending' = Append(pending, Envelopes[Cardinality(leased \cup acked \cup Range(pending)) + 1])
    /\ UNCHANGED <<upsets, leased, acked, circuit, keyring, drain, storeVars, window>>

drain_once ==
    /\ drain = IdleDrain /\ circuit = "CLOSED" /\ pending # <<>>
    /\ LET n == IF Len(pending) < Lease THEN Len(pending) ELSE Lease
           batch == SubSeq(pending, 1, n)
       IN /\ leased' = leased \cup Range(batch) /\ pending' = SubSeq(pending, n + 1, Len(pending))
          /\ drain' = [at |-> "open", batch |-> batch, acks |-> {}, healthy |-> FALSE, atom |-> 1]
    /\ UNCHANGED <<upsets, acked, circuit, keyring, storeVars, window>>

nack(m) == pending' = Append(pending, m) /\ leased' = leased \ {m}

\* What opening an envelope finds: no key, no envelope, a bad tag, or its payload.
open_sealed ==
    IF Quality[Here] = "bad_envelope" THEN "POISON_MALFORMED"
    ELSE IF keyring = "absent" THEN "KEY_UNAVAILABLE"
    ELSE IF Quality[Here] = "aead" \/ keyring = "wrong"
    THEN IF drain.healthy THEN "AEAD_AUTH_FAILED_ISOLATED" ELSE "AEAD_AUTH_FAILED_SYSTEMIC"
    ELSE "opened"

\* Poison is kept aside and acknowledged; a missing key hands the envelope back; a
\* bad tag under a key not yet seen to work opens the circuit and ends the drain,
\* with the rest of the batch still leased.
quarantine ==
    /\ drain.at = "open" /\ open_sealed \in {"POISON_MALFORMED", "AEAD_AUTH_FAILED_ISOLATED"}
    /\ quarantined' = quarantined \cup {Here} /\ drain' = settled
    /\ UNCHANGED <<upsets, pending, leased, acked, circuit, keyring, ledger, rows, indexed, window>>
key_unavailable ==
    /\ drain.at = "open" /\ open_sealed = "KEY_UNAVAILABLE"
    /\ nack(Here) /\ drain' = nacked
    /\ UNCHANGED <<upsets, acked, circuit, keyring, storeVars, window>>
trip ==
    /\ drain.at = "open" /\ open_sealed = "AEAD_AUTH_FAILED_SYSTEMIC"
    /\ circuit' = "OPEN" /\ drain' = [drain EXCEPT !.at = "ack"]
    /\ UNCHANGED <<upsets, pending, leased, acked, keyring, storeVars, window>>
\* A payload of no atoms is settled at once.
opened ==
    /\ drain.at = "open" /\ open_sealed = "opened"
    /\ drain' = IF Holds[Here] = <<>> THEN [settled EXCEPT !.healthy = TRUE]
                ELSE [drain EXCEPT !.at = "atom", !.healthy = TRUE, !.atom = 1]
    /\ UNCHANGED <<upsets, pending, leased, acked, circuit, keyring, storeVars, window>>

Atom == Holds[Here][drain.atom]
next_atom == IF drain.atom = Len(Holds[Here]) THEN settled ELSE [drain EXCEPT !.at = "atom", !.atom = @ + 1]

\* One commit holds the ledger row and what the atom adds; an atom already in the
\* ledger adds nothing.
_apply_rows(a) ==
    IF a \in ledger THEN UNCHANGED <<ledger, rows>>
    ELSE ledger' = ledger \cup {a} /\ rows' = [rows EXCEPT ![a] = @ + 1]
_process_payload ==
    /\ drain.at = "atom" /\ _apply_rows(Atom)
    /\ drain' = IF Atom \notin ledger /\ Atom \in DOMAIN Inbound THEN [drain EXCEPT !.at = "after"] ELSE next_atom
    /\ UNCHANGED <<upsets, pending, leased, acked, circuit, keyring, indexed, quarantined, window>>

\* After the commit: the window, then the index, whose failure is not an error.
after_commit(ok) ==
    /\ drain.at = "after" /\ advance_window(Inbound[Atom])
    /\ indexed' = IF ok THEN indexed \cup {Atom} ELSE indexed
    /\ drain' = next_atom
    /\ UNCHANGED <<upsets, pending, leased, acked, circuit, keyring, ledger, rows, quarantined>>

\* A failing database hands the envelope back with whatever was committed.
transient ==
    /\ drain.at \in {"atom", "after"} /\ upsets < MaxUpsets /\ upsets' = upsets + 1
    /\ nack(Here) /\ drain' = nacked
    /\ UNCHANGED <<acked, circuit, keyring, storeVars, window>>

ack ==
    /\ drain.at = "ack"
    /\ acked' = acked \cup drain.acks /\ leased' = leased \ drain.acks /\ drain' = IdleDrain
    /\ UNCHANGED <<upsets, pending, circuit, keyring, storeVars, window>>

consumer_dies ==
    /\ drain # IdleDrain /\ upsets < MaxUpsets /\ upsets' = upsets + 1 /\ drain' = IdleDrain
    /\ UNCHANGED <<pending, leased, acked, circuit, keyring, storeVars, window>>

\* The queue takes back a lease nobody answered.
lease_lapses(m) ==
    /\ m \in leased /\ drain = IdleDrain /\ nack(m)
    /\ UNCHANGED <<upsets, acked, circuit, keyring, drain, storeVars, window>>

set_keyring(k) ==
    /\ drain = IdleDrain /\ keyring # k /\ keyring' = k
    /\ k # "good" => upsets < MaxUpsets
    /\ upsets' = IF k = "good" THEN upsets ELSE upsets + 1
    /\ UNCHANGED <<pending, leased, acked, circuit, drain, storeVars, window>>

reset ==
    /\ circuit = "OPEN" /\ drain = IdleDrain /\ circuit' = "CLOSED"
    /\ UNCHANGED <<upsets, pending, leased, acked, keyring, drain, storeVars, window>>

\* The doctor sets the window to the newest inbound message kept.
Evidence ==
    LET at == {Inbound[a] : a \in {x \in DOMAIN Inbound : rows[x] > 0}}
    IN IF at = {} THEN 0 ELSE CHOOSE t \in at : \A u \in at : u <= t
rebuild_window_from_evidence ==
    /\ drain = IdleDrain /\ window # Evidence /\ window' = Evidence
    /\ UNCHANGED <<upsets, queueVars, storeVars>>

rebuild_all ==
    /\ drain = IdleDrain /\ indexed' = {a \in DOMAIN Inbound : rows[a] > 0} /\ indexed' # indexed
    /\ UNCHANGED <<upsets, queueVars, ledger, rows, quarantined, window>>

Ingesting ==
    /\ \/ add \/ drain_once \/ quarantine \/ key_unavailable \/ trip \/ opened \/ _process_payload
       \/ \E ok \in BOOLEAN : after_commit(ok)
       \/ transient \/ ack \/ consumer_dies \/ reset \/ rebuild_window_from_evidence \/ rebuild_all
       \/ \E m \in Range(Envelopes) : lease_lapses(m)
       \/ \E k \in {"good", "absent", "wrong"} : set_keyring(k)
    /\ UNCHANGED <<timeVars, sendVars, importVars, grantVars, setupVars>>

-----------------------------------------------------------------------------
(***************************************************************************)
(* Imported exports.  A line is what its minute, sender and text make it;  *)
(* equal lines of one export are told apart by their order.                *)
(***************************************************************************)
import_fingerprint(b) ==
    {<<Exports[b][i], Cardinality({j \in 1..(i - 1) : Exports[b][j] = Exports[b][i]})>> : i \in DOMAIN Exports[b]}

\* One transaction: the batch, the messages that are new, and what it observed.
import_batch(b) ==
    /\ batches[b] = "NONE" /\ batches' = [batches EXCEPT ![b] = "live"]
    /\ observed' = observed \cup {<<b, p>> : p \in import_fingerprint(b)}
    /\ kept' = kept \cup import_fingerprint(b)
    /\ found' = found \cup (import_fingerprint(b) \ kept)

\* Undoing takes away what no other batch observed; the index keeps its rows.
undo_batch(b) ==
    /\ batches[b] = "live" /\ batches' = [batches EXCEPT ![b] = "undone"]
    /\ observed' = {o \in observed : o[1] # b}
    /\ kept' = {p \in kept : <<b, p>> \in observed => \E o \in observed' : o[2] = p}
    /\ UNCHANGED found

reindex == found' = kept /\ found' # found /\ UNCHANGED <<batches, observed, kept>>

Importing ==
    /\ (\E b \in DOMAIN Exports : import_batch(b) \/ undo_batch(b)) \/ reindex
    /\ UNCHANGED <<upsets, timeVars, sendVars, window, queueVars, storeVars, grantVars, setupVars>>

-----------------------------------------------------------------------------
(***************************************************************************)
(* Read-only OAuth grants, approved at a terminal.  A pair is an access    *)
(* and a refresh token of one grant.                                       *)
(***************************************************************************)
begin_authorization(g) ==
    /\ grants[g] = "NONE" /\ grants' = [grants EXCEPT ![g] = "pending"] /\ UNCHANGED <<pairs, reused>>
approve_request(g) ==
    /\ grants[g] = "pending" /\ grants' = [grants EXCEPT ![g] = "approved"] /\ UNCHANGED <<pairs, reused>>
\* The code is handed over once.
poll(g) ==
    /\ grants[g] = "approved" /\ grants' = [grants EXCEPT ![g] = "code"] /\ UNCHANGED <<pairs, reused>>

_revoke_family(g) == [k \in DOMAIN pairs |-> IF pairs[k].grant = g THEN [pairs[k] EXCEPT !.live = FALSE] ELSE pairs[k]]
_issue(g) == [grant |-> g, live |-> TRUE]

exchange_code(g) ==
    /\ grants[g] = "code" /\ Len(pairs) < MaxPairs
    /\ grants' = [grants EXCEPT ![g] = "consumed"]
    /\ pairs' = Append(pairs, _issue(g)) /\ UNCHANGED reused

\* A live refresh token is exchanged for the family's next pair; a revoked one
\* revokes whatever of the family is left.
refresh(k) ==
    /\ k \in DOMAIN pairs
    /\ IF pairs[k].live
       THEN /\ Len(pairs) < MaxPairs /\ UNCHANGED reused
            /\ pairs' = Append(_revoke_family(pairs[k].grant), _issue(pairs[k].grant))
       ELSE pairs' = _revoke_family(pairs[k].grant) /\ reused' = reused \cup {pairs[k].grant}
    /\ UNCHANGED grants

revoke_all ==
    /\ pairs' = [k \in DOMAIN pairs |-> [pairs[k] EXCEPT !.live = FALSE]] /\ pairs' # pairs
    /\ UNCHANGED <<grants, reused>>

collect_expired(g) ==
    /\ grants[g] \in {"pending", "approved", "code"} /\ grants' = [grants EXCEPT ![g] = "expired"]
    /\ UNCHANGED <<pairs, reused>>

Granting ==
    /\ \/ \E g \in GrantRequests : \/ begin_authorization(g) \/ approve_request(g) \/ poll(g) \/ exchange_code(g)
                            \/ collect_expired(g)
       \/ (\E k \in 1..MaxPairs : refresh(k)) \/ revoke_all
    /\ UNCHANGED <<upsets, timeVars, sendVars, window, queueVars, storeVars, importVars, setupVars>>

-----------------------------------------------------------------------------
(***************************************************************************)
(* Setting up.  keys holds which key the keychain has, files which key     *)
(* each database was made with and how far its schema has come.            *)
(***************************************************************************)
_stranded == \E k \in Lanes : files[k].key # 0 /\ keys[k] = 0

init_vault ==
    /\ setup = <<>> /\ ~_stranded
    /\ setup' = <<"vault", "control", "token", "audit">> /\ UNCHANGED <<upsets, keys, files>>

Task == Head(setup)
provision ==
    /\ setup # <<>> /\ keys[Task] = 0 /\ (Task \in Lanes => files[Task].key = 0)
    /\ keys' = [keys EXCEPT ![Task] = IF Task \in Lanes THEN upsets + 1 ELSE 1]
    /\ UNCHANGED <<upsets, files, setup>>
\* A key whose database is missing is used again.
_ensure_database ==
    /\ setup # <<>> /\ Task \in Lanes /\ keys[Task] # 0 /\ files[Task].key = 0
    /\ files' = [files EXCEPT ![Task] = [key |-> keys[Task], version |-> 0]]
    /\ UNCHANGED <<upsets, keys, setup>>
\* Each step of the schema is one transaction with its version number.
migrate ==
    /\ setup # <<>> /\ Task \in Lanes /\ files[Task].key # 0 /\ files[Task].version < Latest[Task]
    /\ files[Task].key = keys[Task]
    /\ files' = [files EXCEPT ![Task].version = @ + 1] /\ UNCHANGED <<upsets, keys, setup>>
task_done ==
    /\ setup # <<>> /\ keys[Task] # 0
    /\ Task \in Lanes => files[Task].key = keys[Task] /\ files[Task].version = Latest[Task]
    /\ setup' = Tail(setup) /\ UNCHANGED <<upsets, keys, files>>
setup_dies ==
    /\ setup # <<>> /\ upsets < MaxUpsets /\ upsets' = upsets + 1 /\ setup' = <<>> /\ UNCHANGED <<keys, files>>

\* The keychain loses a key, or the owner moves a stranded database aside.
key_lost(k) ==
    /\ setup = <<>> /\ upsets < MaxUpsets /\ keys[k] # 0
    /\ upsets' = upsets + 1 /\ keys' = [keys EXCEPT ![k] = 0] /\ UNCHANGED <<files, setup>>
moved_aside(k) ==
    /\ setup = <<>> /\ files[k].key # 0 /\ keys[k] = 0
    /\ files' = [files EXCEPT ![k] = [key |-> 0, version |-> 0]] /\ UNCHANGED <<upsets, keys, setup>>

SettingUp ==
    /\ \/ init_vault \/ provision \/ _ensure_database \/ migrate \/ task_done \/ setup_dies
       \/ \E k \in Lanes : key_lost(k) \/ moved_aside(k)
    /\ UNCHANGED <<timeVars, sendVars, window, queueVars, storeVars, importVars, grantVars>>

-----------------------------------------------------------------------------
VaultNext ==
    /\ \/ ward = "send" /\ Sending
       \/ ward = "mark" /\ Marking
       \/ ward = "ingest" /\ Ingesting
       \/ ward = "import" /\ Importing
       \/ ward = "grants" /\ Granting
       \/ ward = "setup" /\ SettingUp
    /\ UNCHANGED ward

VaultSpec == VaultInit /\ [][VaultNext]_vaultVars

VaultTypeOK ==
    /\ ward \in Wards /\ upsets \in 0..MaxUpsets /\ now \in 1..MaxNow /\ window \in Nat
    /\ device \in [Devices -> {"NONE", "ACTIVE", "REVOKED"}] /\ Len(drafts) <= MaxDrafts
    /\ nonces \subseteq Nonces /\ posted \subseteq DOMAIN attempts /\ candidates \subseteq posted
    /\ \A a \in DOMAIN attempts : attempts[a].state \in {"SUBMITTING", "SUBMITTED", "FAILED", "INDETERMINATE"}
    /\ leased \cup acked \cup Range(pending) \subseteq Range(Envelopes)
    /\ ledger \subseteq Atoms /\ indexed \subseteq Atoms /\ circuit \in {"OPEN", "CLOSED"}
    /\ \A k \in DOMAIN pairs : pairs[k] \in [grant : GrantRequests, live : BOOLEAN]

\* A filed envelope approves the draft under this nonce.
Approved(i, n) == \E d \in Devices : Approval(i, d, n) \in decisions

\* A nonce goes out at most once, whoever executes its approvals, crashes or starts up
\* meanwhile, and only for a draft that an accepted envelope approves under it; so a draft
\* goes out at most as often as its approvals name different nonces.  An attempt never
\* says more than is known of it: FAILED was not sent, SUBMITTED was.  A grant is used as
\* often as it allows (sender.execute_write, recover_startup, reconcile.on_status_event,
\* capabilities.verify_and_consume).
SentOnce ==
    /\ \A a, b \in posted : attempts[a].nonce = attempts[b].nonce => a = b
    /\ \A a \in posted : Approved(attempts[a].draft, attempts[a].nonce)
    /\ \A a \in DOMAIN attempts : /\ attempts[a].state = "FAILED" => a \notin posted
                                  /\ attempts[a].state = "SUBMITTED" => a \in posted
    /\ marked <= MaxUses

\* A draft, whose approval is signed over its one single-use nonce (sender.py:6,
\* CHANGELOG.md:247), goes out once.  The code spends the nonce of the envelope, so a second
\* envelope that approves the draft under another nonce sends it again.
DraftSentOnce == \A a, b \in posted : attempts[a].draft = attempts[b].draft => a = b

\* What the queue may forget, the vault has: every atom of an acknowledged envelope
\* has its row, once, unless the envelope is in the dead letter table, which never
\* takes a sound one; and the window never stands past the newest inbound message
\* kept (consumer.drain_once, dlq, doctor.advance_window).
AckedIsKept ==
    /\ \A m \in acked : m \in quarantined \/ \A a \in Range(Holds[m]) : rows[a] = 1
    /\ \A a \in Atoms : rows[a] = IF a \in ledger THEN 1 ELSE 0
    /\ \A m \in quarantined : Quality[m] # "sound"
    /\ ward = "ingest" => window <= Evidence

\* The imported messages are the union of the exports not undone, in any order of
\* overlapping imports and undos, and search knows every one of them.
ImportsAddUp ==
    /\ kept = UNION {import_fingerprint(b) : b \in {x \in DOMAIN Exports : batches[x] = "live"}}
    /\ kept \subseteq found

\* A grant has one live pair at most, and none once a spent refresh token came back.
OneLivePair ==
    /\ \A j, k \in DOMAIN pairs : pairs[j].live /\ pairs[k].live /\ pairs[j].grant = pairs[k].grant => j = k
    /\ \A k \in DOMAIN pairs : pairs[k].live => pairs[k].grant \notin reused

\* A setup that is cut off and run again never leaves a database its key cannot open.
SetupOpens == \A k \in Lanes : files[k].key # 0 /\ keys[k] # 0 => files[k].key = keys[k]

\* What the vault promises: one send per nonce of a draft's approvals, no acknowledged
\* webhook lost or doubled, imports that add up, one live pair per grant, keys that open
\* the databases they made.
VaultKeepsItsWord == SentOnce /\ AckedIsKept /\ ImportsAddUp /\ OneLivePair /\ SetupOpens
-----------------------------------------------------------------------------
(***************************************************************************)
(* Why it does: what the proofs assume of the constants, and the inductive *)
(* invariant, one part for each ward.                                      *)
(***************************************************************************)
VaultConstants ==
    /\ MaxNow \in Nat \ {0} /\ MaxDrafts \in Nat /\ MaxUses \in Nat /\ MaxPairs \in Nat
    /\ MaxUpsets \in Nat /\ TTL \in Nat /\ Window \in Nat /\ Lease \in Nat \ {0}
    /\ Envelopes \in Seq(DOMAIN Holds) /\ \A m \in Range(Envelopes) : Holds[m] \in Seq(Atoms)
    /\ DOMAIN Inbound \subseteq Atoms /\ \A a \in DOMAIN Inbound : Inbound[a] \in 0..MaxNow

SendAnswers == {"SUBMITTED", "timeout", "connect", "error"}
Hands ==
    [at : {"idle"}] \cup [at : {"checked"}, draft : 1..Len(drafts), nonce : Nonces]
    \cup [at : {"claimed"}, attempt : 1..Len(attempts)]
    \cup [at : {"answered"}, attempt : 1..Len(attempts), answer : SendAnswers]
    \cup [at : {"granted"}, seen : 0..(MaxUses - 1)]

SendTypes ==
    /\ now \in 1..MaxNow /\ guard \in [Senders -> 0..MaxNow]
    /\ device \in [Devices -> {"NONE", "ACTIVE", "REVOKED"}]
    /\ drafts \in Seq([body : Bodies \cup {"params"}, kind : {"text", "template"}, recipient : BOOLEAN, expires : Nat])
    /\ Len(drafts) <= MaxDrafts
    /\ decisions \subseteq [draft : 1..Len(drafts), device : Devices, decision : {"APPROVE", "REJECT"}, nonce : Nonces]
    /\ attempts \in Seq([draft : 1..Len(drafts), nonce : Nonces, wamid : BOOLEAN,
                         state : {"SUBMITTING", "SUBMITTED", "FAILED", "INDETERMINATE"}])
    /\ nonces \subseteq Nonces /\ posted \subseteq 1..Len(attempts) /\ candidates \subseteq posted
    /\ sender \in [Senders -> Hands]

\* A nonce is spent by one attempt, for a draft approved under it, and its record says no
\* more than is known of it.
AttemptsAreTrue ==
    /\ \A a \in 1..Len(attempts) :
         /\ attempts[a].nonce \in nonces /\ Approved(attempts[a].draft, attempts[a].nonce)
         /\ attempts[a].state = "FAILED" => a \notin posted
         /\ attempts[a].state = "SUBMITTED" => a \in posted
    /\ \A a, b \in 1..Len(attempts) : attempts[a].nonce = attempts[b].nonce => a = b

\* What a sender checked is approved.  An attempt is in the hands of one sender, who has
\* not sent it before the call and knows after it what the answer says; nobody else settles
\* it but as indeterminate.
HandsAreTrue ==
    /\ \A s \in Senders :
         /\ sender[s].at = "checked" => Approved(sender[s].draft, sender[s].nonce)
         /\ sender[s].at = "claimed" =>
              /\ sender[s].attempt \notin posted
              /\ attempts[sender[s].attempt].state \in {"SUBMITTING", "INDETERMINATE"}
         /\ sender[s].at = "answered" =>
              /\ sender[s].answer = "SUBMITTED" => sender[s].attempt \in posted
              /\ sender[s].answer \in {"connect", "error"} => sender[s].attempt \notin posted
    /\ \A s, t \in Senders :
         sender[s].at \in {"claimed", "answered"} /\ sender[t].at \in {"claimed", "answered"}
         /\ sender[s].attempt = sender[t].attempt => s = t

\* Every use of the permit is a message marked.
PermitIsCounted ==
    /\ permit = NoPermit \/ permit \in [device : Devices, used : 0..MaxUses]
    /\ marked = IF permit = NoPermit THEN 0 ELSE permit.used
    /\ permit = NoPermit => \A s \in Senders : sender[s].at # "granted"

\* What is done with an envelope that may be acknowledged.
Settled(m) == m \in quarantined \/ Range(Holds[m]) \subseteq ledger

StoreSound ==
    /\ pending \in Seq(Range(Envelopes)) /\ leased \subseteq Range(Envelopes) /\ acked \subseteq Range(Envelopes)
    /\ ledger \subseteq Atoms /\ rows = [a \in Atoms |-> IF a \in ledger THEN 1 ELSE 0]
    /\ indexed \subseteq Atoms /\ circuit \in {"OPEN", "CLOSED"} /\ keyring \in {"good", "absent", "wrong"}
    /\ \A m \in quarantined : Quality[m] # "sound"
    /\ \A m \in acked : Settled(m)
    /\ ward = "ingest" => window <= Evidence

\* A drain has settled what it will acknowledge, and of the envelope it is at the atoms before
\* the current one; a key it saw work is the right one until its end.
DrainIsTrue ==
    drain = IdleDrain
    \/ /\ drain \in [at : {"open", "atom", "after", "ack"}, batch : Seq(Range(Envelopes)),
                     acks : SUBSET Range(Envelopes), healthy : BOOLEAN, atom : Nat \ {0}]
       /\ \A m \in drain.acks : Settled(m)
       /\ drain.healthy => keyring = "good"
       /\ drain.at # "ack" => drain.batch # <<>>
       /\ drain.at \in {"atom", "after"} =>
            /\ drain.atom <= Len(Holds[Here])
            /\ \A j \in 1..(drain.atom - 1) : Holds[Here][j] \in ledger
       /\ drain.at = "after" => Atom \in ledger /\ Atom \in DOMAIN Inbound

\* What the live batches observed, and nothing else, is on record.
ImportsSound ==
    /\ batches \in [DOMAIN Exports -> {"NONE", "live", "undone"}]
    /\ \A o \in observed : \E b \in DOMAIN Exports : batches[b] = "live" /\ \E p \in import_fingerprint(b) : o = <<b, p>>
    /\ \A b \in DOMAIN Exports : batches[b] = "live" => \A p \in import_fingerprint(b) : <<b, p>> \in observed
    /\ ImportsAddUp

\* Tokens are of grants whose code was exchanged.
PairsSound ==
    /\ grants \in [GrantRequests -> {"NONE", "pending", "approved", "code", "consumed", "expired"}]
    /\ pairs \in Seq([grant : GrantRequests, live : BOOLEAN])
    /\ \A k \in 1..Len(pairs) : grants[pairs[k].grant] = "consumed"
    /\ \A g \in reused : g \in GrantRequests /\ grants[g] = "consumed"
    /\ OneLivePair

SetupSound ==
    /\ setup \in Seq(Lanes \cup ServiceKeys)
    /\ keys \in [Lanes \cup ServiceKeys -> Nat] /\ files \in [Lanes -> [key : Nat, version : Nat]]
    /\ SetupOpens

VaultInvariant ==
    /\ ward \in Wards /\ upsets \in 0..MaxUpsets /\ window \in 0..MaxNow
    /\ SendTypes /\ AttemptsAreTrue /\ HandsAreTrue /\ PermitIsCounted
    /\ StoreSound /\ DrainIsTrue /\ ImportsSound /\ PairsSound /\ SetupSound
=============================================================================
