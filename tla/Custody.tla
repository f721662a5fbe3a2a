------------------------------ MODULE Custody ------------------------------
(***************************************************************************)
(* The secrets of an installation: the database key and its pointer        *)
(* (core/storage/rekey), the versioned key slots and provider credentials  *)
(* (core/keys, core/credentials), the client seeds (core/auth/clients),    *)
(* their provisioning (runtime/provision) and the backup import that       *)
(* replaces the directory and opens a chain epoch (core/backup).           *)
(*                                                                         *)
(* Material lives in files and its registration in the database, so every  *)
(* protocol here is a sequence of file writes and transactions, and a      *)
(* crash may fall between any two.  The runtime lock and the synchronous   *)
(* operator handlers let one protocol run at a time (run).  A version      *)
(* number stands for its material.                                         *)
(***************************************************************************)
EXTENDS Integers, FiniteSets

CONSTANTS
    Clients,      \* local clients
    Chunks,       \* chunks of a pushed backup
    MaxVersion,   \* bound: versions of one purpose
    MaxCrashes,   \* bound: crashes
    MaxEdits,     \* bound: edits of the directory
    Desks         \* bound: the sets of commands the operator uses in one behaviour

VARIABLES
    material,   \* versions of each purpose on disk
    slot,       \* key_slots.state of each purpose and version
    seeds,      \* clients.seed_version (0: not registered)
    helper,     \* the seed in a client's own helper file
    chainEpoch, \* epoch of the comms chain's head (0: no genesis)
    degraded,   \* the integrity latch
    dbKey,      \* the key comms.db is encrypted under (0: no file)
    pointer,    \* the key pointer file (0: none)
    directory,  \* version of the live directory
    upload,     \* TransferRegistry: chunks pushed in order
    staged,     \* StagedImports: the base digest a staged import was diffed with
    lock,       \* who holds runtime.lock
    run,        \* the protocol in progress
    desk,       \* the commands in use, fixed
    crashes

vars == <<material, slot, seeds, helper, chainEpoch, degraded, dbKey, pointer,
          directory, upload, staged, lock, run, desk, crashes>>
keyVars == <<material, slot, chainEpoch, degraded>>
dbVars == <<dbKey, pointer>>
clientVars == <<seeds, helper>>
importVars == <<directory, upload, staged>>

-----------------------------------------------------------------------------
\* The purposes that differ in protocol (purposes.PURPOSES): the chain key
\* (seal_epoch), a signer (new_id, at_rotation), a staged credential, the client
\* seeds and the database key.
CHAIN == "audit-chain-key"
SIGNER == "backup-key"
CREDENTIAL == "meta-access-token"
SEED == "cml1-client-seed"
DBKEY == "comms-db-key"
Slotted == {CHAIN, SIGNER, CREDENTIAL}
Provisioned == {CHAIN, SIGNER}
Versions == 1..MaxVersion
SlotStates == {"NONE", "ACTIVE", "RETIRED", "REVOKED", "ORPHAN", "DESTROYED"}

Protocols == {"none", "provision", "rotate", "credential", "revoke", "client",
              "rekey", "import"}
noRun == [op |-> "none", at |-> "", of |-> "", old |-> 0, new |-> 0]
RunStages == {"", "open", "pointer", "db", "keys", "write", "register", "commit",
              "prove", "recheck", "destroy", "mark", "pragma", "point"}
Subjects == {"", CHAIN, SIGNER, CREDENTIAL, DBKEY} \cup Clients
Run == [op : Protocols, at : RunStages, of : Subjects, old : 0..MaxVersion, new : 0..MaxVersion]

TypeOK ==
    /\ material \in [Slotted \cup {SEED, DBKEY} -> SUBSET Versions]
    /\ slot \in [Slotted -> [Versions -> SlotStates]]
    /\ seeds \in [Clients -> 0..MaxVersion] /\ helper \in [Clients -> 0..MaxVersion]
    /\ chainEpoch \in 0..MaxVersion /\ degraded \in BOOLEAN
    /\ dbKey \in 0..MaxVersion /\ pointer \in 0..MaxVersion
    /\ directory \in 0..MaxEdits /\ upload \in 0..Chunks /\ staged \in -1..MaxEdits
    /\ lock \in {"free", "daemon", "local"} /\ run \in Run /\ crashes \in 0..MaxCrashes
    /\ desk \in Desks

Init ==
    /\ material = [p \in Slotted \cup {SEED, DBKEY} |-> {}]
    /\ slot = [p \in Slotted |-> [v \in Versions |-> "NONE"]]
    /\ seeds = [c \in Clients |-> 0] /\ helper = [c \in Clients |-> 0]
    /\ chainEpoch = 0 /\ degraded = FALSE /\ dbKey = 0 /\ pointer = 0
    /\ directory = 0 /\ upload = 0 /\ staged = -1
    /\ lock = "free" /\ run = noRun /\ crashes = 0
    /\ desk \in Desks

-----------------------------------------------------------------------------
\* Slots and files.

Newest(S) == IF S = {} THEN 0 ELSE CHOOSE v \in S : \A w \in S : w <= v
Registered(p) ==
    IF p = SEED THEN {seeds[c] : c \in Clients} \ {0}
    ELSE {v \in Versions : slot[p][v] # "NONE"}
active_version(p) == Newest({v \in Versions : slot[p][v] = "ACTIVE"})

\* load_version, with the key ID check: registered, not destroyed, on disk.
Loads(p, v) ==
    v \in material[p] /\ v \in Registered(p) /\ slot[p][v] # "DESTROYED"

\* VersionedFiles.write and delete.
Written(p, v) == [material EXCEPT ![p] = @ \cup {v}]
Deleted(p, v) == [material EXCEPT ![p] = @ \ {v}]

\* write_version: one past the newest file.
NextFile(p) == Newest(material[p]) + 1
\* rotate_credential numbers past every file and every row.
NextCredential == Newest(material[CREDENTIAL] \cup Registered(CREDENTIAL)) + 1
clean_orphans(p) == material[p] \cap Registered(p)

\* register_version (the slot must be new) and activate_in_tx.
activate_in_tx(p, old, new) ==
    slot' = [slot EXCEPT ![p] =
               [v \in Versions |-> IF v = new THEN "ACTIVE"
                                   ELSE IF v = old THEN "RETIRED" ELSE @[v]]]
Mark(p, v, state) == slot' = [slot EXCEPT ![p][v] = state]

\* SlotChainKeys.for_epoch: epoch n is MACed under key version n.
for_epoch(n) == Loads(CHAIN, n)

Serving == lock = "daemon" /\ run = noRun
Begin(op, at, of, old, new) ==
    run' = [op |-> op, at |-> at, of |-> of, old |-> old, new |-> new]
Go(at) == run' = [run EXCEPT !.at = at]
At(op, at) == run.op = op /\ run.at = at

\* AuditWriter.transaction commits under the active chain key; the anchor
\* refresh that follows needs the head epoch's key and may fail anyway.
ChainWritable == Loads(CHAIN, active_version(CHAIN))
HeadKeyLoads == chainEpoch # 0 => for_epoch(chainEpoch)
Anchored(ok) == (ok => HeadKeyLoads') /\ degraded' = (degraded \/ ~ok)

\* require_not_degraded: the start latches an installation whose cutover has
\* not written the genesis.
Unheld == ~degraded /\ chainEpoch # 0

-----------------------------------------------------------------------------
\* runtime/provision, under the runtime lock with the daemon stopped.

\* Before a crash or after: no database and no key, or a database that opens.
provision ==
    /\ lock = "free" /\ lock' = "local"
    /\ dbKey = 0 => material[DBKEY] = {} /\ pointer = 0
    /\ Begin("provision", IF dbKey = 0 THEN "open" ELSE "keys", "", 0, 0)
    /\ UNCHANGED <<keyVars, clientVars, dbVars, importVars, desk, crashes>>

provision_db_key ==
    /\ At("provision", "open") /\ Go("pointer")
    /\ material' = Written(DBKEY, 1)
    /\ UNCHANGED <<slot, chainEpoch, degraded, clientVars, dbVars, importVars, lock, desk, crashes>>

provision_pointer ==
    /\ At("provision", "pointer") /\ Go("db")
    /\ pointer' = 1
    /\ UNCHANGED <<keyVars, clientVars, dbKey, importVars, lock, desk, crashes>>

provision_db ==
    /\ At("provision", "db") /\ Go("keys")
    /\ dbKey' = 1
    /\ UNCHANGED <<keyVars, clientVars, pointer, importVars, lock, desk, crashes>>

\* bootstrap_keys: each purpose without an active version, file first.
bootstrap_write ==
    /\ At("provision", "keys") /\ chainEpoch = 0
    /\ \E p \in Provisioned :
          /\ active_version(p) = 0 /\ NextFile(p) \in Versions
          /\ material' = Written(p, NextFile(p))
          /\ Begin("provision", "register", p, 0, NextFile(p))
    /\ UNCHANGED <<slot, chainEpoch, degraded, clientVars, dbVars, importVars, lock, desk, crashes>>

bootstrap_register ==
    /\ At("provision", "register")
    /\ activate_in_tx(run.of, 0, run.new)
    /\ Begin("provision", "keys", "", 0, 0)
    /\ UNCHANGED <<material, chainEpoch, degraded, clientVars, dbVars, importVars, lock,
                   desk, crashes>>

provision_done ==
    /\ At("provision", "keys")
    /\ \A p \in Provisioned : Loads(p, active_version(p))
    /\ lock' = "free" /\ run' = noRun
    /\ UNCHANGED <<keyVars, clientVars, dbVars, importVars, desk, crashes>>

-----------------------------------------------------------------------------
\* core/storage/rekey.

\* Opening: under the pointer's key, or under exactly one other stored key,
\* and then the pointer follows.
Opens(v) == v \in material[DBKEY] /\ v = dbKey
Openable == dbKey # 0 /\ \E v \in material[DBKEY] : Opens(v)
open_with_recovery ==
    /\ Openable
    /\ pointer' = CHOOSE v \in material[DBKEY] : Opens(v)

\* The daemon opens the database as it starts (open_comms_state), serving only
\* with its provisioned keys.
start ==
    /\ lock = "free" /\ lock' = "daemon"
    /\ open_with_recovery
    /\ \A p \in Provisioned : active_version(p) # 0
    /\ UNCHANGED <<keyVars, clientVars, dbKey, importVars, run, desk, crashes>>

stop ==
    /\ Serving /\ lock' = "free"
    /\ upload' = 0 /\ staged' = -1
    /\ UNCHANGED <<keyVars, clientVars, dbVars, directory, run, desk, crashes>>

\* Mutant: a rekey that destroys the old key before the file is under the new one.
rekey_stage_early ==
    /\ "rekey" \in desk /\ lock = "free" /\ lock' = "local"
    /\ open_with_recovery
    /\ LET new == Newest(material[DBKEY]) + 1
       IN /\ new \in Versions
          /\ material' = [material EXCEPT ![DBKEY] = {new}]
          /\ Begin("rekey", "pragma", DBKEY, dbKey, new)
    /\ UNCHANGED <<slot, chainEpoch, degraded, clientVars, dbKey, importVars, desk, crashes>>

\* rekey: what an interrupted run left is deleted, the new key is stored ...
rekey_stage ==
    /\ "rekey" \in desk /\ lock = "free" /\ lock' = "local"
    /\ open_with_recovery
    /\ LET new == Newest(material[DBKEY]) + 1
       IN /\ new \in Versions
          /\ material' = [material EXCEPT ![DBKEY] = {dbKey, new}]
          /\ Begin("rekey", "pragma", DBKEY, dbKey, new)
    /\ UNCHANGED <<slot, chainEpoch, degraded, clientVars, dbKey, importVars, desk, crashes>>

\* ... PRAGMA rekey, with the verified reopen ...
rekey_pragma ==
    /\ At("rekey", "pragma") /\ Go("point")
    /\ dbKey' = run.new
    /\ UNCHANGED <<keyVars, clientVars, pointer, importVars, lock, desk, crashes>>

\* ... the pointer, atomically ...
rekey_point ==
    /\ At("rekey", "point") /\ Go("destroy")
    /\ pointer' = run.new
    /\ UNCHANGED <<keyVars, clientVars, dbKey, importVars, lock, desk, crashes>>

\* ... and only then the old key.
rekey_destroy ==
    /\ At("rekey", "destroy")
    /\ material' = Deleted(DBKEY, run.old)
    /\ lock' = "free" /\ run' = noRun
    /\ UNCHANGED <<slot, chainEpoch, degraded, clientVars, dbVars, importVars, desk, crashes>>

-----------------------------------------------------------------------------
\* The chain: its genesis, and the repair that clears the latch.

genesis ==
    /\ Serving /\ chainEpoch = 0 /\ ~degraded /\ ChainWritable
    /\ chainEpoch' = 1 /\ UNCHANGED <<material, slot>>
    /\ \E ok \in BOOLEAN : Anchored(ok)
    /\ UNCHANGED <<clientVars, dbVars, importVars, lock, run, desk, crashes>>

\* verify_for_anchor_repair walks every epoch under its key.
audit_repair ==
    /\ Serving /\ degraded
    /\ \A n \in 1..chainEpoch : for_epoch(n)
    /\ degraded' = FALSE
    /\ UNCHANGED <<material, slot, chainEpoch, clientVars, dbVars, importVars, lock, run,
                   desk, crashes>>

-----------------------------------------------------------------------------
\* core/keys/rotate.

rotate ==
    /\ "keys" \in desk /\ Serving /\ Unheld
    /\ \E p \in {CHAIN, SIGNER} :
          LET kept == clean_orphans(p)
              new == Newest(kept) + 1
          IN /\ new \in Versions
             /\ material' = [material EXCEPT ![p] = kept \cup {new}]
             /\ Begin("rotate", "commit", p, active_version(p), new)
    /\ UNCHANGED <<slot, chainEpoch, degraded, clientVars, dbVars, importVars, lock, desk, crashes>>

\* One transaction: the slots, and for the chain key the new epoch's first
\* event.  A failed anchor stops the protocol after the commit.
rotate_commit ==
    /\ At("rotate", "commit") /\ ChainWritable
    /\ slot[run.of][run.new] = "NONE"
    /\ run.of = CHAIN => chainEpoch = run.old /\ run.new = run.old + 1
    /\ activate_in_tx(run.of, run.old, run.new)
    /\ chainEpoch' = IF run.of = CHAIN THEN run.new ELSE chainEpoch
    /\ UNCHANGED material
    /\ \E ok \in BOOLEAN :
          /\ Anchored(ok)
          /\ run' = IF ok /\ run.of # CHAIN THEN [run EXCEPT !.at = "destroy"] ELSE noRun
    /\ UNCHANGED <<clientVars, dbVars, importVars, lock, desk, crashes>>

\* private_destroy at_rotation: the file, then the row.
Destroying(op) == At(op, "destroy") /\ Go("mark")
destroy ==
    /\ Destroying("rotate") \/ Destroying("credential") \/ Destroying("revoke")
    /\ material' = Deleted(run.of, run.old)
    /\ UNCHANGED <<slot, chainEpoch, degraded, clientVars, dbVars, importVars, lock, desk, crashes>>

mark_destroyed ==
    /\ run.at = "mark" /\ run' = noRun
    /\ Mark(run.of, run.old, "DESTROYED")
    /\ UNCHANGED <<material, chainEpoch, degraded, clientVars, dbVars, importVars, lock,
                   desk, crashes>>

-----------------------------------------------------------------------------
\* core/credentials.

rotate_credential ==
    /\ "credentials" \in desk /\ Serving /\ Unheld /\ NextCredential \in Versions
    /\ material' = Written(CREDENTIAL, NextCredential)
    /\ Begin("credential", "prove", CREDENTIAL, active_version(CREDENTIAL), NextCredential)
    /\ UNCHANGED <<slot, chainEpoch, degraded, clientVars, dbVars, importVars, lock, desk, crashes>>

prove_fails ==
    /\ At("credential", "prove") /\ run' = noRun
    /\ material' = Deleted(CREDENTIAL, run.new)
    /\ UNCHANGED <<slot, chainEpoch, degraded, clientVars, dbVars, importVars, lock, desk, crashes>>

credential_commit ==
    /\ At("credential", "prove") /\ ChainWritable
    /\ activate_in_tx(CREDENTIAL, run.old, run.new)
    /\ UNCHANGED <<material, chainEpoch>>
    /\ \E ok \in BOOLEAN :
          Anchored(ok) /\ run' = IF ok THEN [run EXCEPT !.at = "recheck"] ELSE noRun
    /\ UNCHANGED <<clientVars, dbVars, importVars, lock, desk, crashes>>

recheck ==
    /\ At("credential", "recheck")
    /\ run' = IF run.old = 0 THEN noRun ELSE [run EXCEPT !.at = "destroy"]
    /\ UNCHANGED <<keyVars, clientVars, dbVars, importVars, lock, desk, crashes>>

\* A failed recheck puts the old version back, in one transaction.
recheck_fails ==
    /\ At("credential", "recheck") /\ run' = noRun /\ ChainWritable
    /\ slot' = [slot EXCEPT ![CREDENTIAL] =
                  [v \in Versions |-> IF v = run.new THEN "ORPHAN"
                                      ELSE IF v = run.old THEN "ACTIVE" ELSE @[v]]]
    /\ UNCHANGED <<material, chainEpoch>> /\ \E ok \in BOOLEAN : Anchored(ok)
    /\ UNCHANGED <<clientVars, dbVars, importVars, lock, desk, crashes>>

revoke_credential ==
    /\ Serving /\ active_version(CREDENTIAL) # 0 /\ ChainWritable
    /\ Mark(CREDENTIAL, active_version(CREDENTIAL), "REVOKED")
    /\ UNCHANGED <<material, chainEpoch>>
    /\ \/ /\ Anchored(TRUE)
          /\ Begin("revoke", "destroy", CREDENTIAL, active_version(CREDENTIAL), 0)
       \/ Anchored(FALSE) /\ run' = noRun
    /\ UNCHANGED <<clientVars, dbVars, importVars, lock, desk, crashes>>

-----------------------------------------------------------------------------
\* core/auth/clients: the client's helper file first, then the daemon's copy.

client_begin ==
    /\ "clients" \in desk /\ Serving
    /\ \E c \in Clients :
          /\ NextFile(SEED) \in Versions
          /\ helper' = [helper EXCEPT ![c] = NextFile(SEED)]
          /\ Begin("client", "write", c, seeds[c], NextFile(SEED))
    /\ UNCHANGED <<keyVars, seeds, dbVars, importVars, lock, desk, crashes>>

client_write ==
    /\ At("client", "write") /\ Go("register")
    /\ material' = Written(SEED, run.new)
    /\ UNCHANGED <<slot, chainEpoch, degraded, clientVars, dbVars, importVars, lock, desk, crashes>>

client_register ==
    /\ At("client", "register")
    /\ seeds' = [seeds EXCEPT ![run.of] = run.new]
    /\ run' = IF run.old = 0 THEN noRun ELSE [run EXCEPT !.at = "destroy"]
    /\ UNCHANGED <<keyVars, helper, dbVars, importVars, lock, desk, crashes>>

client_destroy ==
    /\ At("client", "destroy") /\ run' = noRun
    /\ material' = Deleted(SEED, run.old)
    /\ UNCHANGED <<slot, chainEpoch, degraded, clientVars, dbVars, importVars, lock, desk, crashes>>

-----------------------------------------------------------------------------
\* core/backup: a pushed backup, staged, then committed.

edit_directory ==
    /\ Serving /\ directory < MaxEdits
    /\ directory' = directory + 1
    /\ UNCHANGED <<keyVars, clientVars, dbVars, upload, staged, lock, run, desk, crashes>>

\* TransferRegistry.push: in order, within the announced size.
push ==
    /\ "backup" \in desk /\ Serving /\ upload < Chunks
    /\ upload' = upload + 1
    /\ UNCHANGED <<keyVars, clientVars, dbVars, directory, staged, lock, run, desk, crashes>>

\* complete and stage_import: signature, trust, identity, schema and binding
\* check out, and the diff is against the directory of now.
stage_import ==
    /\ Serving /\ upload = Chunks
    /\ staged' = directory /\ upload' = 0
    /\ UNCHANGED <<keyVars, clientVars, dbVars, directory, lock, run, desk, crashes>>

\* commit_import up to its transaction: the base still matches, and a new chain
\* key is staged.
commit_import ==
    LET kept == clean_orphans(CHAIN)
        new == Newest(kept) + 1
    IN /\ Serving /\ Unheld
       /\ staged = directory /\ new \in Versions
       /\ material' = [material EXCEPT ![CHAIN] = kept \cup {new}]
       /\ Begin("import", "commit", CHAIN, active_version(CHAIN), new)
       /\ UNCHANGED <<slot, chainEpoch, degraded, clientVars, dbVars, importVars, lock, desk, crashes>>

\* The transaction: recheck, the directory replaced, the key activated and a
\* new epoch opened; the staged import is not taken out of the registry.
import_commits ==
    /\ At("import", "commit") /\ ChainWritable /\ slot[CHAIN][run.new] = "NONE"
    /\ staged = directory
    /\ directory' \in {directory, MaxEdits}
    /\ activate_in_tx(CHAIN, run.old, run.new)
    /\ chainEpoch' = chainEpoch + 1 /\ chainEpoch' \in Versions
    /\ UNCHANGED <<upload, staged>>

import_tx ==
    /\ import_commits
    /\ UNCHANGED <<material, degraded>> /\ HeadKeyLoads'
    /\ run' = noRun
    /\ UNCHANGED <<clientVars, dbVars, lock, desk, crashes>>

\* Any exception of the with block destroys the staged key: one that rolled the
\* transaction back, and also the AnchorFailed that follows its commit.
import_refused ==
    /\ At("import", "commit") /\ run' = noRun
    /\ material' = Deleted(CHAIN, run.new)
    /\ UNCHANGED <<slot, chainEpoch, degraded, clientVars, dbVars, importVars, lock, desk, crashes>>

import_anchor_fails ==
    /\ import_commits /\ run' = noRun
    /\ material' = Deleted(CHAIN, run.new) /\ degraded' = TRUE
    /\ UNCHANGED <<clientVars, dbVars, lock, desk, crashes>>

-----------------------------------------------------------------------------
crash ==
    /\ lock # "free" /\ crashes < MaxCrashes
    /\ lock' = "free" /\ run' = noRun /\ crashes' = crashes + 1
    /\ upload' = 0 /\ staged' = -1
    /\ UNCHANGED <<keyVars, clientVars, dbVars, directory, desk>>

Provisioning == \/ provision \/ provision_db_key \/ provision_pointer \/ provision_db
                \/ bootstrap_write \/ bootstrap_register \/ provision_done
Rekeying == rekey_stage \/ rekey_pragma \/ rekey_point \/ rekey_destroy
Rotating == rotate \/ rotate_commit \/ destroy \/ mark_destroyed
Crediting == \/ rotate_credential \/ prove_fails \/ credential_commit \/ recheck
             \/ recheck_fails \/ revoke_credential
Enrolling == client_begin \/ client_write \/ client_register \/ client_destroy
Importing == \/ edit_directory \/ push \/ stage_import \/ commit_import \/ import_tx
             \/ import_refused \/ import_anchor_fails

Next ==
    \/ Provisioning \/ start \/ stop \/ Rekeying
    \/ genesis \/ audit_repair
    \/ Rotating \/ Crediting \/ Enrolling \/ Importing
    \/ crash

Spec == Init /\ [][Next]_vars

-----------------------------------------------------------------------------
\* Properties.

\* No crash loses a key that something still needs: the database's key is
\* stored and the pointer names it or exactly one other key opens the file;
\* every registered client's seed and every active slot has its material, and
\* every epoch of the chain the key it was MACed under - or the latch holds the
\* installation, and no repair clears it (rekey, rotate, rotate_credential,
\* rotate_client, commit_import over a crash at any step).
KeysStayUsable ==
    /\ dbKey # 0 => Openable
    /\ \A c \in Clients : seeds[c] # 0 => seeds[c] \in material[SEED]
    /\ \A p \in Slotted : \/ active_version(p) \in material[p] \cup {0}
                          \/ p = CHAIN /\ degraded
    /\ \A n \in 1..chainEpoch : for_epoch(n) \/ degraded

\* The key a committed import made ACTIVE is on disk: the comment of the
\* handler that destroys it says it was never registered (commit_import).
ImportedKeyIsKept == \A v \in Versions : slot[CHAIN][v] = "ACTIVE" => v \in material[CHAIN]

-----------------------------------------------------------------------------
\* The parts of the inductive invariant.

\* What the proofs take the bounds to be.
CustodyConstants ==
    MaxVersion \in Nat \ {0} /\ MaxCrashes \in Nat /\ MaxEdits \in Nat /\ Chunks \in Nat

\* The one active version, 0 for none.
ActiveIs(p, v) == \A w \in Versions : slot[p][w] = "ACTIVE" <=> w = v

\* The database is under a stored key, before and after each step of a rekey.
DbKeyIsStored ==
    /\ dbKey # 0 => dbKey \in material[DBKEY]
    /\ run.op = "provision" /\ run.at \in {"pointer", "db"} => 1 \in material[DBKEY]
    /\ run.op = "rekey" => /\ run.new \in material[DBKEY] /\ run.new # run.old
                           /\ dbKey = IF run.at = "pragma" THEN run.old ELSE run.new

\* No two clients share a seed, and none has the one that is being replaced.
SeedsAreStored ==
    /\ \A c \in Clients : seeds[c] # 0 => seeds[c] \in material[SEED]
    /\ \A c, d \in Clients : seeds[c] = seeds[d] /\ seeds[c] # 0 => c = d
    /\ run.op = "client" =>
          /\ run.of \in Clients /\ run.new \in Versions
          /\ run.at = "write" => run.new \notin material[SEED] /\ run.old = seeds[run.of]
          /\ run.at = "register" =>
                /\ run.new \in material[SEED] /\ run.old = seeds[run.of]
                /\ \A c \in Clients : seeds[c] # run.new
          /\ run.at = "destroy" => \A c \in Clients : seeds[c] # run.old

\* A purpose has one active version, whose file exists.
ActiveIsStored ==
    /\ \A p \in Slotted, v, w \in Versions :
          slot[p][v] = "ACTIVE" /\ slot[p][w] = "ACTIVE" => v = w
    /\ \A p \in Slotted, v \in Versions :
          slot[p][v] = "ACTIVE" => v \in material[p] \/ (p = CHAIN /\ degraded)

\* Until the genesis the chain has one key at most.  From then on epoch n is of
\* version n, unless provisioning was cut off and its first key is a later one,
\* which the genesis finds out.
ChainKeysFollowEpochs ==
    /\ \A v \in Versions : slot[CHAIN][v] \in {"NONE", "ACTIVE", "RETIRED"}
    /\ chainEpoch = 0 =>
          \A v \in Versions : slot[CHAIN][v] # "NONE" =>
                                 slot[CHAIN][v] = "ACTIVE" /\ v \in material[CHAIN]
    /\ chainEpoch # 0 /\ slot[CHAIN][1] # "NONE" =>
          /\ \A v \in Versions : slot[CHAIN][v] # "NONE" <=> v <= chainEpoch
          /\ ActiveIs(CHAIN, chainEpoch)
    /\ chainEpoch # 0 /\ ~degraded => slot[CHAIN][1] # "NONE" /\ 1..chainEpoch \subseteq material[CHAIN]

\* The protocol in progress still finds what it read when it began.
RunHoldsItsKeys ==
    /\ At("provision", "register") =>
          run.of \in Provisioned /\ run.new \in material[run.of] /\ ActiveIs(run.of, 0)
          /\ chainEpoch = 0
    /\ At("rotate", "commit") =>
          run.of \in Provisioned /\ run.new \in material[run.of] /\ ActiveIs(run.of, run.old)
    /\ At("import", "commit") => run.of = CHAIN
    /\ run.at = "commit" /\ run.of = CHAIN =>
          /\ chainEpoch # 0 /\ ~degraded /\ run.old = chainEpoch
          /\ run.new = chainEpoch + 1 /\ run.new \in material[CHAIN]
    /\ At("credential", "prove") =>
          /\ run.of = CREDENTIAL /\ run.new \in material[CREDENTIAL]
          /\ slot[CREDENTIAL][run.new] = "NONE" /\ ActiveIs(CREDENTIAL, run.old)
    /\ At("credential", "recheck") =>
          /\ run.of = CREDENTIAL /\ ActiveIs(CREDENTIAL, run.new)
          /\ run.new # run.old /\ run.old \in material[CREDENTIAL] \cup {0}
    /\ run.at = "mark" => run.op \in {"rotate", "credential", "revoke"}
    /\ run.at \in {"destroy", "mark"} /\ run.op \in {"rotate", "credential", "revoke"} =>
          /\ run.of \in {SIGNER, CREDENTIAL}
          /\ \A v \in Versions : slot[run.of][v] = "ACTIVE" => v # run.old

CustodyInvariant ==
    /\ TypeOK /\ DbKeyIsStored /\ SeedsAreStored /\ ActiveIsStored
    /\ ChainKeysFollowEpochs /\ RunHoldsItsKeys
=============================================================================
