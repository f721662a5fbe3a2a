----------------------------- MODULE AuditChain -----------------------------
(***************************************************************************)
(* The comms audit chain, its external anchor, the integrity latch, the    *)
(* cutover from the legacy chain, the rotation of the chain key and the    *)
(* retention run that truncates the chain (comms/core/audit,               *)
(* core/keys/rotate.py, core/maintenance/retention.py, runtime/state.py,   *)
(* runtime/operator/{audit,cutover,maintenance}.py).                       *)
(*                                                                         *)
(* Everything here runs on the daemon's event loop without an await, so    *)
(* the only interleaving is with crashes: op is the rest of the operation  *)
(* under way, and a crash may fall before each of its steps.  An event is  *)
(* its position and its minted id; a MAC verifies exactly when the key of  *)
(* its epoch can be loaded, so keys are slot rows and slot files.          *)
(***************************************************************************)
EXTENDS Integers, Sequences

CONSTANTS
    MaxEvents,   \* bound: events appended by operations outside the cutover
    MaxEpochs,   \* bound: epochs of the chain
    MaxCrashes,  \* bound: crashes of the daemon
    NoEvent      \* no anchor file, no checkpoint

VARIABLES
    chain,    \* audit_events ever committed, oldest first
    base,     \* how many of them a retention run deleted
    anchor,   \* the anchor file: the event it names, or NoEvent
    latch,    \* audit_integrity: "ok", or the first reason it was set for
    slots,    \* key_slots of audit-chain-key: version -> state
    files,    \* versions of audit-chain-key with a slot file
    phase,    \* cutover_state.phase
    digest,   \* cutover_state.legacy_checkpoint_digest, 0 before the seal
    lineage,  \* audit_lineage: the legacy seal it binds, 0 without a row
    legacy,   \* the legacy database: clean, its seal (0: unsealed), revoked
    up,       \* the daemon process is running
    op,       \* the rest of the operation under way, "idle" between two
    doomed,   \* versions the retention run marked and has still to unlink
    extra,    \* ground truth: events appended outside the cutover
    minted,   \* ground truth: event ids and seals minted so far
    crashes,  \* ground truth: crashes so far
    lost,     \* ground truth: the database was replaced by an older copy
    masked    \* ground truth: a stale anchor the cutover's hold hides

store == <<chain, base, lineage, phase, digest>>
keys == <<slots, files, doomed>>
truth == <<extra, minted, crashes, lost, masked>>
vars == <<chain, base, anchor, latch, slots, files, phase, digest, lineage,
          legacy, up, op, doomed, extra, minted, crashes, lost, masked>>

-----------------------------------------------------------------------------
Phases == <<"NONE", "CUTOVER_ENTERED", "LEGACY_DRAINED", "LEGACY_VERIFIED",
            "LEGACY_SEALED", "LEGACY_ANCHORED", "COMMS_GENESIS",
            "COMMS_ANCHORED", "LEGACY_CLIENT_AUTH_REVOKED", "COMPLETE">>
NotAfter(p, q) == \E i, j \in DOMAIN Phases : Phases[i] = p /\ Phases[j] = q /\ i <= j
Reached(p) == NotAfter(p, phase)

Versions == 1..MaxEpochs
Event == [epoch : Versions, seq : Nat \ {0}, id : Nat, genesis : BOOLEAN]

ASSUME AuditChainAssumption ==
    /\ MaxEvents \in Nat /\ MaxEpochs \in Nat \ {0} /\ MaxCrashes \in Nat
    /\ NoEvent \notin Event

\* What an operation has still to do.  The first four have committed events
\* and owe the anchor; the others are later steps of longer operations.
Owing == {"append", "genesis", "rotate", "repair", "resume"}
Ops == Owing \cup {"idle", "set_anchored", "clear", "activate", "purge",
                   "destroy"}

TypeOK ==
    /\ chain \in Seq(Event)
    /\ base \in 0..Len(chain)
    /\ anchor \in Event \cup {NoEvent}
    /\ latch \in {"ok", "CUTOVER_PENDING", "ANCHOR_REFRESH_FAILED",
                  "ANCHOR_MISMATCH_AT_START"}
    /\ slots \in [Versions -> {"none", "ACTIVE", "RETIRED", "DESTROYED"}]
    /\ files \subseteq Versions /\ doomed \subseteq Versions
    /\ \E i \in DOMAIN Phases : phase = Phases[i]
    /\ digest \in Nat /\ lineage \in Nat
    /\ legacy \in [clean : BOOLEAN, seal : Nat, revoked : BOOLEAN]
    /\ up \in BOOLEAN /\ lost \in BOOLEAN /\ masked \in BOOLEAN
    /\ op \in Ops
    /\ extra \in Nat /\ minted \in Nat /\ crashes \in Nat

\* A provisioned installation: the first chain key, no chain, no anchor; the
\* legacy chain may or may not verify.
Init ==
    /\ chain = <<>> /\ base = 0 /\ anchor = NoEvent /\ latch = "ok"
    /\ slots = [v \in Versions |-> IF v = 1 THEN "ACTIVE" ELSE "none"]
    /\ files = {1}
    /\ phase = "NONE" /\ digest = 0 /\ lineage = 0
    /\ legacy \in [clean : BOOLEAN, seal : {0}, revoked : {FALSE}]
    /\ up = FALSE /\ op = "idle" /\ doomed = {}
    /\ extra = 0 /\ minted = 0 /\ crashes = 0 /\ lost = FALSE /\ masked = FALSE

-----------------------------------------------------------------------------
\* Reading the chain.

head == IF chain = <<>> THEN NoEvent ELSE chain[Len(chain)]
Retained == (base + 1)..Len(chain)
Before(a, b) == a.epoch < b.epoch \/ (a.epoch = b.epoch /\ a.seq < b.seq)

\* load_version: a registered, undestroyed row whose file is there.
for_epoch(e) == e \in Versions /\ slots[e] \notin {"none", "DESTROYED"} /\ e \in files
active == CHOOSE v \in Versions : slots[v] = "ACTIVE"

\* seal_and_open_epoch signs the head before it opens the next epoch, and no
\* checkpoint is ever deleted: the sealed events are the last ones of every
\* epoch that has a successor.
Sealed(i) == i < Len(chain) /\ chain[i + 1].epoch > chain[i].epoch

\* verify_chain: from the genesis, or from a signed root when there is one.
verify_chain(rooted) ==
    /\ \A i \in Retained : for_epoch(chain[i].epoch)
    /\ Retained # {} =>
          \/ chain[base + 1].epoch = 1 /\ chain[base + 1].seq = 1
          \/ rooted /\ Sealed(base + 1)
    /\ \A i \in Retained : i + 1 \in Retained =>
          IF chain[i + 1].epoch = chain[i].epoch
          THEN chain[i + 1].seq = chain[i].seq + 1
          ELSE /\ chain[i + 1].epoch = chain[i].epoch + 1
               /\ chain[i + 1].seq = 1

\* read_anchor: the file authenticates under the key of the epoch it names.
read_anchor(epoch) == anchor # NoEvent /\ for_epoch(epoch) /\ anchor.epoch = epoch

\* Mutant: a start that only checks that the anchor authenticates.
derive_any_anchor == IF read_anchor(head.epoch) THEN "CLEAN" ELSE "FAIL_CLOSED"

\* The start's verification knows no truncation root.
derive_integrity ==
    IF \/ ~read_anchor(head.epoch)
       \/ Before(head, anchor)
       \/ ~verify_chain(FALSE)
    THEN "FAIL_CLOSED"
    ELSE IF anchor.seq = head.seq
    THEN IF anchor.id = head.id THEN "CLEAN" ELSE "FAIL_CLOSED"
    ELSE IF head.seq = anchor.seq + 1 THEN "RECOVERY_REQUIRED"
    ELSE "FAIL_CLOSED"

\* The root's signature is verified by rooted verification only.
verify_for_anchor_repair ==
    /\ anchor # NoEvent /\ read_anchor(anchor.epoch)
    /\ chain # <<>>
    /\ ~Before(head, anchor)
    /\ \E i \in Retained : chain[i] = anchor
    /\ verify_chain(TRUE)

-----------------------------------------------------------------------------
\* The audited transaction.

latch_degraded(reason) == latch' = IF latch = "ok" THEN reason ELSE latch
Held == latch # "ok"

\* append_event: the first event of the chain, or the next of its epoch.
append_event(genesis) ==
    chain' = Append(chain,
        IF chain = <<>>
        THEN [epoch |-> 1, seq |-> 1, id |-> minted, genesis |-> genesis]
        ELSE [epoch |-> head.epoch, seq |-> head.seq + 1, id |-> minted,
              genesis |-> genesis])

\* AuditWriter.transaction up to its commit; next is the operation that then
\* owes the anchor.  The key of new events is the active one.
transaction(genesis, next) ==
    /\ for_epoch(active)
    /\ append_event(genesis)
    /\ minted' = minted + 1
    /\ op' = next

Appending(next) ==
    /\ extra < MaxEvents
    /\ extra' = extra + 1
    /\ transaction(FALSE, next)
    /\ UNCHANGED <<base, anchor, latch, keys, phase, digest, lineage, legacy, up,
                   crashes, lost, masked>>

\* Audited writes.  A new effect (a send, a provider write, an import, a new
\* credential) is refused while the latch is set; recording what already
\* happened, startup recovery, revoking a credential, marking a signer and
\* exporting a backup are not, whatever the phase of the cutover.
new_effect == up /\ op = "idle" /\ ~Held /\ Appending("append")
recording == up /\ op = "idle" /\ Appending("append")

\* What follows an anchor refresh that succeeded.
AfterAnchor ==
    op' = CASE op \in {"genesis", "resume"} -> "set_anchored"
            [] op = "repair" -> "clear"
            [] OTHER -> "idle"

\* Mutant: a refresh that writes the head read before its own transaction began.
refresh_behind ==
    /\ up /\ op \in Owing
    /\ anchor' = IF Len(chain) > 1 THEN chain[Len(chain) - 1] ELSE head
    /\ masked' = FALSE
    /\ AfterAnchor
    /\ UNCHANGED <<store, latch, keys, legacy, up, extra, minted, crashes, lost>>

\* _refresh: the anchor names exactly the head this transaction committed.
refresh ==
    /\ up /\ op \in Owing
    /\ anchor' = head
    /\ masked' = FALSE
    /\ AfterAnchor
    /\ UNCHANGED <<store, latch, keys, legacy, up, extra, minted, crashes, lost>>

\* _refresh failing, before or after the rename: the latch is set, keeping an
\* earlier reason, and AnchorFailed abandons the operation.
refresh_fails ==
    /\ up /\ op \in Owing
    /\ anchor' \in {anchor, head}
    /\ latch_degraded("ANCHOR_REFRESH_FAILED")
    /\ masked' = (latch = "CUTOVER_PENDING" /\ anchor' # head)
    /\ op' = "idle"
    /\ UNCHANGED <<store, keys, legacy, up, extra, minted, crashes, lost>>

\* audit repair: the plan is verified and carried out in one operator command.
audit_repair == up /\ op = "idle" /\ verify_for_anchor_repair /\ Appending("repair")

clear_degraded ==
    /\ up /\ op = "clear"
    /\ latch' = "ok" /\ op' = "idle"
    /\ UNCHANGED <<store, anchor, keys, legacy, up, truth>>

-----------------------------------------------------------------------------
\* keys rotate audit-chain-key: clean the orphans, write the new version's
\* file, then retire, activate, seal and open the next epoch in one transaction.

write_version ==
    /\ up /\ op = "idle" /\ ~Held
    /\ chain # <<>> /\ active < MaxEpochs /\ extra < MaxEvents
    /\ files' = {v \in files : slots[v] # "none"} \cup {active + 1}
    /\ op' = "activate"
    /\ UNCHANGED <<store, anchor, latch, slots, doomed, legacy, up, truth>>

activate_in_tx ==
    /\ up /\ op = "activate"
    /\ head.epoch = active
    /\ slots' = [slots EXCEPT ![active] = "RETIRED", ![active + 1] = "ACTIVE"]
    /\ chain' = Append(chain, [epoch |-> head.epoch + 1, seq |-> 1,
                               id |-> minted, genesis |-> FALSE])
    /\ minted' = minted + 1 /\ extra' = extra + 1
    /\ op' = "rotate"
    /\ UNCHANGED <<base, anchor, latch, files, doomed, phase, digest, lineage,
                   legacy, up, crashes, lost, masked>>

-----------------------------------------------------------------------------
\* retention run: truncate, purge the keys of truncated epochs, delete their
\* files, append the event; each its own transaction.

\* choose_root takes the latest signed checkpoint before the cutoff; which one
\* that is depends on the clock, so any sealed event may be the root.
choose_root == {i \in Retained : Sealed(i) /\ for_epoch(chain[i].epoch)}

truncate ==
    /\ up /\ op = "idle" /\ ~Held
    /\ chain # <<>> /\ extra < MaxEvents
    /\ \/ base' = base
       \/ \E i \in choose_root : base' = i - 1
    /\ op' = "purge"
    /\ UNCHANGED <<chain, anchor, latch, keys, phase, digest, lineage, legacy,
                   up, truth>>

\* Mutant: the key of the root's own epoch marked as well.
DoomedWithRoot ==
    {v \in Versions : slots[v] = "RETIRED" /\ v <= chain[base + 1].epoch}

\* Versions retired before the epoch of the oldest retained event.
Doomed == {v \in Versions : slots[v] = "RETIRED" /\ v < chain[base + 1].epoch}

purge_retired_keys ==
    /\ up /\ op = "purge"
    /\ slots' = [v \in Versions |-> IF v \in Doomed THEN "DESTROYED" ELSE slots[v]]
    /\ doomed' = Doomed
    /\ op' = "destroy"
    /\ UNCHANGED <<store, anchor, latch, files, legacy, up, truth>>

destroy ==
    /\ up /\ op = "destroy"
    /\ \E v \in doomed :
          /\ files' = files \ {v}
          /\ doomed' = doomed \ {v}
    /\ UNCHANGED <<store, anchor, latch, slots, legacy, up, op, truth>>

record_purge == up /\ op = "destroy" /\ doomed = {} /\ Appending("append")

-----------------------------------------------------------------------------
\* cutover run, resumable from any persisted phase.

Step(from, to) == up /\ op = "idle" /\ phase = from /\ phase' = to

enter ==
    /\ Step("NONE", "CUTOVER_ENTERED")
    /\ UNCHANGED <<chain, base, lineage, digest, anchor, latch, keys, legacy, up,
                   op, truth>>

\* No legacy ingress is left to drain.
drain ==
    /\ Step("CUTOVER_ENTERED", "LEGACY_DRAINED")
    /\ UNCHANGED <<chain, base, lineage, digest, anchor, latch, keys, legacy, up,
                   op, truth>>

verify_legacy ==
    /\ legacy.seal # 0 \/ legacy.clean
    /\ Step("LEGACY_DRAINED", "LEGACY_VERIFIED")
    /\ UNCHANGED <<chain, base, lineage, digest, anchor, latch, keys, legacy, up,
                   op, truth>>

\* One legacy transaction: the final marker, its checkpoint and the sealed state.
seal ==
    /\ up /\ op = "idle" /\ phase = "LEGACY_VERIFIED" /\ legacy.seal = 0
    /\ legacy' = [legacy EXCEPT !.seal = minted + 1]
    /\ minted' = minted + 1
    /\ UNCHANGED <<store, anchor, latch, keys, up, op, extra, crashes, lost,
                   masked>>

record_seal ==
    /\ legacy.seal # 0 /\ digest \in {0, legacy.seal}
    /\ Step("LEGACY_VERIFIED", "LEGACY_SEALED")
    /\ digest' = legacy.seal
    /\ UNCHANGED <<chain, base, lineage, anchor, latch, keys, legacy, up, op,
                   truth>>

\* _current_seal: the legacy seal must be the one this cutover recorded.
current_seal == legacy.seal # 0 /\ legacy.seal = digest

anchor_legacy ==
    /\ current_seal
    /\ Step("LEGACY_SEALED", "LEGACY_ANCHORED")
    /\ UNCHANGED <<chain, base, lineage, digest, anchor, latch, keys, legacy, up,
                   op, truth>>

\* Mutant: a genesis that resumes over a chain somebody already started.
comms_genesis_anyway ==
    /\ up /\ op = "idle" /\ phase \in {"LEGACY_ANCHORED", "COMMS_GENESIS"}
    /\ current_seal
    /\ lineage' = legacy.seal
    /\ phase' = "COMMS_GENESIS"
    /\ transaction(TRUE, "genesis")
    /\ UNCHANGED <<base, digest, anchor, latch, keys, legacy, up, extra, crashes,
                   lost, masked>>

\* One audited transaction: the lineage row, the genesis event and the phase.
comms_genesis ==
    /\ up /\ op = "idle" /\ phase = "LEGACY_ANCHORED"
    /\ current_seal
    /\ chain = <<>> /\ lineage = 0
    /\ lineage' = legacy.seal
    /\ phase' = "COMMS_GENESIS"
    /\ transaction(TRUE, "genesis")
    /\ UNCHANGED <<base, digest, anchor, latch, keys, legacy, up, extra, crashes,
                   lost, masked>>

check_lineage == current_seal /\ lineage = digest

\* A run resumed at COMMS_GENESIS re-anchors the head it finds.
resume_genesis ==
    /\ up /\ op = "idle" /\ phase = "COMMS_GENESIS"
    /\ check_lineage
    /\ op' = "resume"
    /\ UNCHANGED <<store, anchor, latch, keys, legacy, up, truth>>

set_anchored ==
    /\ up /\ op = "set_anchored"
    /\ phase' = "COMMS_ANCHORED" /\ op' = "idle"
    /\ UNCHANGED <<chain, base, lineage, digest, anchor, latch, keys, legacy, up,
                   truth>>

\* revoke_client_auth in the legacy database, then the audited transaction; a
\* crash between the two repeats the first.
revoke_legacy ==
    /\ up /\ op = "idle" /\ phase = "COMMS_ANCHORED"
    /\ check_lineage
    /\ legacy' = [legacy EXCEPT !.revoked = TRUE]
    /\ UNCHANGED <<store, anchor, latch, keys, up, op, truth>>

record_revoked ==
    /\ up /\ op = "idle" /\ phase = "COMMS_ANCHORED"
    /\ check_lineage /\ legacy.revoked
    /\ phase' = "LEGACY_CLIENT_AUTH_REVOKED"
    /\ transaction(FALSE, "append")
    /\ UNCHANGED <<base, lineage, digest, anchor, latch, keys, legacy, up, extra,
                   crashes, lost, masked>>

complete ==
    /\ Step("LEGACY_CLIENT_AUTH_REVOKED", "COMPLETE")
    /\ UNCHANGED <<chain, base, lineage, digest, anchor, latch, keys, legacy, up,
                   op, truth>>

\* Mutant: a completed cutover that leaves the release to the next start, which keeps
\* the reason it finds.
release_at_start ==
    /\ ~up /\ phase = "COMPLETE" /\ latch = "CUTOVER_PENDING"
    /\ latch' = "ok"
    /\ UNCHANGED <<store, anchor, keys, legacy, up, op, truth>>

\* cutover run at COMPLETE releases the hold it is the reason of.
release_writes ==
    /\ up /\ op = "idle" /\ phase = "COMPLETE" /\ latch = "CUTOVER_PENDING"
    /\ latch' = "ok"
    /\ UNCHANGED <<store, anchor, keys, legacy, up, op, truth>>

-----------------------------------------------------------------------------
\* Starting, crashing, and a database replaced by an older copy.

\* open_comms_state (its anchor check, with re-anchoring) and the hold of
\* CommsServer.start.  A re-anchoring that fails refuses the start.
HeldAtStart(reason) ==
    latch' = IF latch # "ok" THEN latch
             ELSE IF reason # "ok" THEN reason
             ELSE IF phase # "COMPLETE" THEN "CUTOVER_PENDING" ELSE "ok"

start ==
    /\ ~up
    /\ up' = TRUE
    /\ CASE chain = <<>> -> HeldAtStart("ok") /\ UNCHANGED <<anchor, masked>>
         [] chain # <<>> /\ derive_integrity = "CLEAN" ->
              HeldAtStart("ok") /\ UNCHANGED <<anchor, masked>>
         [] chain # <<>> /\ derive_integrity = "RECOVERY_REQUIRED" ->
              /\ anchor' = head /\ masked' = FALSE
              /\ HeldAtStart("ok")
         [] OTHER ->
              /\ HeldAtStart("ANCHOR_MISMATCH_AT_START")
              /\ masked' = (latch = "CUTOVER_PENDING" /\ anchor # head)
              /\ UNCHANGED anchor
    /\ UNCHANGED <<store, keys, legacy, op, extra, minted, crashes, lost>>

start_refused ==
    /\ ~up
    /\ chain # <<>> /\ derive_integrity = "RECOVERY_REQUIRED"
    /\ anchor' \in {anchor, head}
    /\ latch_degraded("ANCHOR_REFRESH_FAILED")
    /\ masked' = (latch = "CUTOVER_PENDING" /\ anchor' # head)
    /\ UNCHANGED <<store, keys, legacy, up, op, extra, minted, crashes, lost>>

crash ==
    /\ up /\ crashes < MaxCrashes
    /\ up' = FALSE /\ op' = "idle" /\ doomed' = {}
    /\ crashes' = crashes + 1
    /\ UNCHANGED <<store, anchor, latch, slots, files, legacy, extra, minted, lost,
                   masked>>

\* comms.db is put back from a copy made after the cutover, since the last
\* rotation and the last retention run, while nothing was wrong.
restore_older_copy ==
    /\ ~up /\ ~lost /\ phase = "COMPLETE"
    /\ \E n \in base + 1..Len(chain) - 1 :
          /\ n >= 2 /\ chain[n].epoch = head.epoch
          /\ chain' = SubSeq(chain, 1, n)
    /\ latch' = "ok" /\ lost' = TRUE
    /\ UNCHANGED <<base, anchor, keys, phase, digest, lineage, legacy, up, op,
                   extra, minted, crashes, masked>>

\* meta.db is put back from a copy made before the seal.
restore_legacy ==
    /\ ~up /\ legacy.seal # 0 /\ crashes < MaxCrashes
    /\ legacy' = [legacy EXCEPT !.seal = 0, !.revoked = FALSE]
    /\ crashes' = crashes + 1
    /\ UNCHANGED <<store, anchor, latch, keys, up, op, extra, minted, lost,
                   masked>>

\* audit verify, status and doctor only read.
audit_verify == up /\ op = "idle" /\ UNCHANGED vars

Cutover ==
    \/ enter \/ drain \/ verify_legacy \/ seal \/ record_seal
    \/ anchor_legacy \/ comms_genesis \/ resume_genesis \/ set_anchored
    \/ revoke_legacy \/ record_revoked \/ complete \/ release_writes

Next ==
    \/ new_effect \/ recording \/ refresh \/ refresh_fails
    \/ audit_repair \/ clear_degraded
    \/ write_version \/ activate_in_tx
    \/ truncate \/ purge_retired_keys \/ destroy \/ record_purge
    \/ Cutover
    \/ start \/ start_refused \/ crash \/ restore_older_copy \/ restore_legacy
    \/ audit_verify

\* A daemon that is down, or an operation past its first step, goes on.
Continue ==
    \/ start \/ clear_degraded \/ activate_in_tx \/ purge_retired_keys \/ destroy
    \/ record_purge

\* The owner keeps running the cutover until it completes, restarts the daemon,
\* and the disk takes an anchor again in the end.
Fairness == WF_vars(Continue) /\ WF_vars(Cutover) /\ SF_vars(refresh)

Spec == Init /\ [][Next]_vars /\ Fairness

-----------------------------------------------------------------------------
\* The parts of the inductive invariant.

\* Events are numbered without a gap from the genesis on, each epoch after the
\* one before it, and no id is used twice.
ChainIsLinked ==
    /\ chain # <<>> => chain[1].epoch = 1 /\ chain[1].seq = 1
    /\ \A i \in DOMAIN chain : i + 1 \in DOMAIN chain =>
          \/ chain[i + 1].epoch = chain[i].epoch /\ chain[i + 1].seq = chain[i].seq + 1
          \/ chain[i + 1].epoch = chain[i].epoch + 1 /\ chain[i + 1].seq = 1
    /\ \A i, j \in DOMAIN chain : i < j =>
          Before(chain[i], chain[j]) /\ chain[i].id # chain[j].id
    /\ \A i \in DOMAIN chain : chain[i].id < minted

\* A truncated chain starts at a signed root.
RootIsSealed ==
    /\ chain = <<>> => base = 0
    /\ chain # <<>> => base < Len(chain)
    /\ base > 0 => Sealed(base + 1)

\* The active key is the one of the head's epoch; keys of later epochs do not
\* exist, and a destroyed one is of an epoch that is no longer retained.
KeysMatchChain ==
    /\ \E a \in Versions :
          /\ slots[a] = "ACTIVE"
          /\ \A v \in Versions : /\ v < a => slots[v] \in {"RETIRED", "DESTROYED"}
                                 /\ v > a => slots[v] = "none"
          /\ IF chain = <<>> THEN a = 1 ELSE head.epoch = a
          /\ op = "activate" => a < MaxEpochs /\ a + 1 \in files
    /\ \A v \in Versions : slots[v] = "DESTROYED" =>
          chain # <<>> /\ v < chain[base + 1].epoch
    /\ \A v \in Versions : slots[v] \in {"ACTIVE", "RETIRED"} => v \in files
    /\ \A v \in doomed : slots[v] = "DESTROYED"

OperationIsSound ==
    /\ op # "idle" => up /\ chain # <<>>
    /\ op \in {"genesis", "resume", "set_anchored"} => phase = "COMMS_GENESIS"

\* The anchor names an event, of this chain unless the database was replaced,
\* and nothing new can be written over another than the head.
AnchorIsSound ==
    /\ anchor # NoEvent =>
          /\ anchor.id < minted
          /\ \A i \in DOMAIN chain : chain[i].id = anchor.id => chain[i] = anchor
          /\ lost \/ \E i \in DOMAIN chain : chain[i] = anchor
    /\ op \in {"clear", "set_anchored"} => anchor = head
    /\ up /\ op \notin Owing /\ chain # <<>> /\ latch \in {"ok", "CUTOVER_PENDING"}
          /\ ~masked => anchor = head

LineageIsSound ==
    /\ (lineage # 0) = Reached("COMMS_GENESIS")
    /\ lineage # 0 => lineage = digest /\ chain # <<>>
    /\ \A i \in DOMAIN chain : chain[i].genesis = (i = 1 /\ lineage # 0)
    /\ Reached("COMMS_ANCHORED") => anchor # NoEvent
    /\ legacy.revoked => Reached("COMMS_ANCHORED")

AuditInvariant ==
    /\ TypeOK /\ ChainIsLinked /\ RootIsSealed /\ KeysMatchChain /\ OperationIsSound
    /\ AnchorIsSound /\ LineageIsSound

-----------------------------------------------------------------------------
\* Properties.

\* What retention leaves of the chain always verifies from its signed root, and
\* the key of every retained epoch can be loaded: no interleaving of rotations,
\* truncations, key purges and crashes destroys a key an event still needs
\* (purge_retired_keys, retention.py; verify_chain, chain.py).
RetainedChainVerifies == verify_chain(TRUE)

\* Writes are never accepted over a stale anchor: between two operations of a
\* running daemon whose latch is clear, the anchor names the head, also after a
\* crash at any step and after comms.db was put back from an older copy.  The
\* one gap is masked: a failure under the cutover's own hold is not recorded,
\* and the release clears it (integrity.py's first reason is kept).
StaleAnchorIsHeld ==
    up /\ op = "idle" /\ chain # <<>> /\ latch = "ok" /\ ~masked => anchor = head

\* A step that moves the anchor moves it to a later event, with nothing lost.
Advances ==
    anchor # anchor' /\ anchor # NoEvent /\ ~lost =>
        anchor' # NoEvent /\ Before(anchor, anchor')

\* The writer's promise that the anchor never moves backwards, with nothing lost
\* (writer.py): it goes from one event to a later one of the same chain.
AnchorOnlyAdvances == [][Advances]_vars

\* A cutover interrupted anywhere and resumed binds one seal once: the lineage
\* row, the one genesis event and the phase come together, the recorded digest
\* is the lineage's, and the legacy clients are cut off only after the comms
\* chain stands anchored (advance_legacy, advance_comms).
OneLineage ==
    /\ (lineage # 0) = Reached("COMMS_GENESIS")
    /\ lineage # 0 =>
          /\ lineage = digest
          /\ \A i \in DOMAIN chain : chain[i].genesis = (i = 1)
    /\ legacy.revoked => Reached("COMMS_ANCHORED") /\ anchor # NoEvent

\* A start over a chain that verifies and whose anchor names its head finds
\* nothing wrong (state.py's module text: "a clean anchor is READY").
CleanAnchorStartsReady ==
    [][~up /\ up' /\ chain # <<>> /\ anchor = head /\ verify_chain(TRUE)
          /\ latch # "ANCHOR_MISMATCH_AT_START"
          => latch' # "ANCHOR_MISMATCH_AT_START"]_vars

\* A cutover that is run again after every interruption completes and releases
\* its hold, unless the legacy chain does not verify, the legacy database was
\* put back behind the recorded seal, or an audited write came first.
CutoverCompletes ==
    legacy.clean =>
        \/ <>(phase = "COMPLETE" /\ latch # "CUTOVER_PENDING")
        \/ <>(digest # 0 /\ legacy.seal # digest)
        \/ <>(chain # <<>> /\ ~chain[1].genesis)
=============================================================================
