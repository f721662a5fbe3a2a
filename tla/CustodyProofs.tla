---------------------------- MODULE CustodyProofs ----------------------------
(***************************************************************************)
(* Proofs about Custody, for any clients, versions and crashes: no crash   *)
(* loses a key that something still needs.                                 *)
(*                                                                         *)
(* Database key, client seeds and key slots are independent of each other; *)
(* a protocol concerns one of them, and the frames below carry the rest.   *)
(***************************************************************************)
EXTENDS Custody, WellFoundedInduction, TLAPS

USE DEF CHAIN, SIGNER, CREDENTIAL, SEED, DBKEY, Slotted, Provisioned

-----------------------------------------------------------------------------
(* Versions.                                                               *)

\* A non-empty set of naturals has a least element.
LEMMA LeastNatural ==
    ASSUME NEW T, T \subseteq Nat, T # {}
    PROVE  \E x \in T : \A y \in T : ~(y < x)
  <1> DEFINE Less == OpToRel(<, Nat)
  <1>1. IsWellFoundedOn(Less, Nat)
    BY NatLessThanWellFounded, Zenon
  <1>2. \A x, y \in Nat : y < x => <<y, x>> \in Less
    BY DEF OpToRel
  <1>3. \E x \in T : \A y \in T : ~ (<<y, x>> \in Less)
    <2> HIDE DEF Less
    <2> QED BY <1>1, WFMin
  <1> HIDE DEF Less
  <1> QED
    BY <1>2, <1>3

\* Newest is the greatest version of a set, and 0 of none.
LEMMA NewestIsGreatest ==
    ASSUME CustodyConstants, NEW S, S \subseteq Versions
    PROVE  /\ Newest(S) \in 0..MaxVersion
           /\ Newest(S) \in S \cup {0}
           /\ S # {} => Newest(S) \in S
           /\ \A w \in S : w <= Newest(S)
  <1>0. MaxVersion \in Nat /\ \A v \in S : v \in Nat /\ v # 0 /\ v <= MaxVersion
    BY DEF Versions, CustodyConstants
  <1>1. CASE S = {}
    BY <1>0, <1>1 DEF Newest
  <1>2. CASE S # {}
    <2> DEFINE T == {MaxVersion - v : v \in S}
    <2>1. T \subseteq Nat /\ T # {}
      <3>1. \A v \in S : MaxVersion - v \in Nat
        BY <1>0
      <3>2. T \subseteq Nat
        BY <3>1
      <3> QED BY <1>2, <3>2
    <2>2. PICK x \in T : \A y \in T : ~(y < x)
      <3> HIDE DEF T
      <3> QED BY <2>1, LeastNatural
    <2>3. PICK v \in S : x = MaxVersion - v
      BY <2>2
    <2>4. \A w \in S : w <= v
      BY <1>0, <2>2, <2>3
    <2>5. Newest(S) = CHOOSE u \in S : \A w \in S : w <= u
      BY <1>2 DEF Newest
    <2>6. Newest(S) \in S /\ \A w \in S : w <= Newest(S)
      BY <2>4, <2>5
    <2>7. Newest(S) \in 0..MaxVersion
      BY <1>0, <2>6
    <2> QED
      BY <2>6, <2>7
  <1> QED
    BY <1>1, <1>2

\* The version after the newest is a new one.
LEMMA PastNewest ==
    ASSUME CustodyConstants, NEW S, S \subseteq Versions
    PROVE  Newest(S) + 1 \notin S /\ Newest(S) + 1 # 0
  <1>1. MaxVersion \in Nat
    BY DEF CustodyConstants
  <1>2. PICK n \in Nat : n = Newest(S)
    BY <1>1, NewestIsGreatest
  <1>3. \A w \in S : w <= n
    BY <1>2, NewestIsGreatest
  <1> QED
    BY <1>2, <1>3

\* The active version is the one that is ACTIVE.
LEMMA ActiveVersion ==
    ASSUME CustodyConstants, TypeOK, ActiveIsStored, NEW p \in Slotted
    PROVE  /\ ActiveIs(p, active_version(p)) /\ active_version(p) \in 0..MaxVersion
           /\ active_version(p) # 0 => active_version(p) \in Versions
                                       /\ slot[p][active_version(p)] = "ACTIVE"
  <1> DEFINE A == {v \in Versions : slot[p][v] = "ACTIVE"}
  <1>1. A \subseteq Versions /\ active_version(p) = Newest(A)
    BY DEF active_version
  <1>2. \A v, w \in A : v = w
    BY DEF ActiveIsStored
  <1>3. \A w \in Versions : w \in A <=> slot[p][w] = "ACTIVE"
    OBVIOUS
  <1> HIDE DEF A
  <1>4. Newest(A) \in 0..MaxVersion /\ Newest(A) \in A \cup {0} /\ (A # {} => Newest(A) \in A)
    BY <1>1, NewestIsGreatest
  <1>5. \A w \in Versions : w # 0
    BY DEF Versions
  <1> QED
    BY <1>1, <1>2, <1>3, <1>4, <1>5 DEF ActiveIs

\* Activating a version retires the one that was active.
LEMMA Activated ==
    ASSUME CustodyConstants, TypeOK, NEW p \in Slotted, NEW old, NEW new \in Versions,
           ActiveIs(p, old), activate_in_tx(p, old, new)
    PROVE  /\ slot' \in [Slotted -> [Versions -> SlotStates]]
           /\ ActiveIs(p, new)'
           /\ \A q \in Slotted : q # p => slot'[q] = slot[q]
           /\ \A v \in Versions :
                 slot'[p][v] = IF v = new THEN "ACTIVE"
                               ELSE IF v = old THEN "RETIRED" ELSE slot[p][v]
  <1>1. slot \in [Slotted -> [Versions -> SlotStates]]
    BY DEF TypeOK
  <1>2. slot' = [slot EXCEPT ![p] =
                   [v \in Versions |-> IF v = new THEN "ACTIVE"
                                       ELSE IF v = old THEN "RETIRED" ELSE slot[p][v]]]
    BY DEF activate_in_tx
  <1>3. \A v \in Versions :
           slot'[p][v] = IF v = new THEN "ACTIVE"
                         ELSE IF v = old THEN "RETIRED" ELSE slot[p][v]
    BY <1>1, <1>2
  <1>4. slot' \in [Slotted -> [Versions -> SlotStates]]
    BY <1>1, <1>2 DEF SlotStates
  <1>5. ActiveIs(p, new)'
    BY <1>3 DEF ActiveIs
  <1> QED
    BY <1>1, <1>2, <1>3, <1>4, <1>5

-----------------------------------------------------------------------------
(* Frames: what a part of the invariant depends on.                        *)

\* A step that is not about the database key keeps its part.
LEMMA DbFrame ==
    ASSUME DbKeyIsStored, dbKey' = dbKey, material'[DBKEY] = material[DBKEY],
           run'.op \notin {"rekey", "provision"}
    PROVE  DbKeyIsStored'
  BY DEF DbKeyIsStored

\* Likewise for the client seeds,
LEMMA SeedFrame ==
    ASSUME SeedsAreStored, seeds' = seeds, material'[SEED] = material[SEED],
           run'.op # "client"
    PROVE  SeedsAreStored'
  BY DEF SeedsAreStored

\* the key slots,
LEMMA SlotFrame ==
    ASSUME ActiveIsStored, ChainKeysFollowEpochs, UNCHANGED <<slot, chainEpoch, degraded>>,
           \A p \in Slotted : material'[p] = material[p]
    PROVE  ActiveIsStored' /\ ChainKeysFollowEpochs'
  BY DEF ActiveIsStored, ChainKeysFollowEpochs, ActiveIs

\* and the protocols on them.
LEMMA RunFrame ==
    ASSUME run'.op \in {"none", "client", "rekey"}, run'.at \notin {"commit", "mark"}
    PROVE  RunHoldsItsKeys'
  BY DEF RunHoldsItsKeys, At

\* A step that changes no key, and ends the protocol if it changes that.
LEMMA Elsewhere ==
    ASSUME CustodyInvariant, TypeOK', run' \in {run, noRun},
           UNCHANGED <<material, slot, seeds, chainEpoch, degraded, dbKey>>
    PROVE  CustodyInvariant'
  <1> USE DEF CustodyInvariant
  <1>1. ActiveIsStored' /\ ChainKeysFollowEpochs'
    BY SlotFrame
  <1>2. CASE run' = run
    BY <1>1, <1>2 DEF DbKeyIsStored, SeedsAreStored, RunHoldsItsKeys, At, ActiveIs
  <1>3. CASE run' = noRun
    <2>1. run'.op = "none" /\ run'.at = ""
      BY <1>3 DEF noRun
    <2> QED
      BY <1>1, <2>1, DbFrame, SeedFrame, RunFrame
  <1> QED
    BY <1>2, <1>3

-----------------------------------------------------------------------------
(* The protocol in progress.                                               *)

\* It goes on,
LEMMA GoTyped ==
    ASSUME run \in Run, NEW a \in RunStages, Go(a)
    PROVE  /\ run' \in Run /\ run'.op = run.op /\ run'.at = a /\ run'.of = run.of
           /\ run'.old = run.old /\ run'.new = run.new
  BY DEF Go, Run

\* begins,
LEMMA BegunTyped ==
    ASSUME NEW op \in Protocols, NEW at \in RunStages, NEW of \in Subjects,
           NEW old \in 0..MaxVersion, NEW new \in 0..MaxVersion, Begin(op, at, of, old, new)
    PROVE  /\ run' \in Run /\ run'.op = op /\ run'.at = at /\ run'.of = of
           /\ run'.old = old /\ run'.new = new
  BY DEF Begin, Run

\* and ends.
LEMMA NoRunTyped ==
    ASSUME CustodyConstants
    PROVE  noRun \in Run /\ noRun.op = "none" /\ noRun.at = "" /\ noRun.of = ""
  BY DEF noRun, Run, Protocols, RunStages, Subjects, CustodyConstants

-----------------------------------------------------------------------------
(* The database key.                                                       *)

\* Provisioning up to the bootstrap of the keys.
LEMMA ProvisionDbStep ==
    ASSUME CustodyConstants, CustodyInvariant,
           provision \/ provision_db_key \/ provision_pointer \/ provision_db
    PROVE  CustodyInvariant'
  <1> USE DEF CustodyInvariant, clientVars, importVars, keyVars, dbVars
  <1>0. 1 \in Versions /\ 1 \in 0..MaxVersion /\ 0 \in 0..MaxVersion
    BY DEF CustodyConstants, Versions
  <1>1. /\ UNCHANGED <<slot, seeds, chainEpoch, degraded>>
        /\ material' \in {material, Written(DBKEY, 1)}
    BY DEF provision, provision_db_key, provision_pointer, provision_db
  <1>2. /\ material' \in [Slotted \cup {SEED, DBKEY} -> SUBSET Versions]
        /\ \A p \in Slotted \cup {SEED} : material'[p] = material[p]
        /\ material[DBKEY] \subseteq material'[DBKEY]
    BY <1>0, <1>1 DEF TypeOK, Written
  <1>3. run' \in Run /\ run'.op = "provision" /\ run'.at \in {"open", "pointer", "db", "keys"}
    <2>1. /\ run \in Run /\ {"open", "pointer", "db", "keys"} \subseteq RunStages
          /\ "provision" \in Protocols /\ "" \in Subjects
      BY DEF TypeOK, RunStages, Protocols, Subjects
    <2>2. CASE provision
      <3>1. PICK a \in {"open", "keys"} : Begin("provision", a, "", 0, 0)
        BY <2>2 DEF provision
      <3> QED BY <1>0, <2>1, <3>1, BegunTyped
    <2>3. ASSUME NEW a \in {"pointer", "db", "keys"}, Go(a), run.op = "provision"
          PROVE  run' \in Run /\ run'.op = "provision" /\ run'.at = a
      BY <2>1, <2>3, GoTyped
    <2> QED
      BY <2>2, <2>3 DEF provision_db_key, provision_pointer, provision_db, At
  <1>4. TypeOK'
    <2>2. dbKey' \in 0..MaxVersion /\ pointer' \in 0..MaxVersion
      BY <1>0 DEF provision, provision_db_key, provision_pointer, provision_db, TypeOK
    <2>3. UNCHANGED <<helper, directory, upload, staged, desk, crashes>>
          /\ lock' \in {lock, "local"}
      BY DEF provision, provision_db_key, provision_pointer, provision_db
    <2> QED
      BY <1>1, <1>2, <1>3, <2>2, <2>3 DEF TypeOK
  <1>5. DbKeyIsStored'
    <2>1. CASE provision
      BY <2>1 DEF provision, DbKeyIsStored, Begin
    <2>2. CASE provision_db_key
      <3>1. 1 \in material'[DBKEY]
        BY <2>2 DEF provision_db_key, Written, TypeOK
      <3> QED BY <1>2, <1>3, <2>2, <3>1 DEF provision_db_key, DbKeyIsStored
    <2>3. CASE provision_pointer
      BY <1>3, <2>3 DEF provision_pointer, DbKeyIsStored, At
    <2>4. CASE provision_db
      BY <1>3, <2>4 DEF provision_db, DbKeyIsStored, At
    <2> QED
      BY <2>1, <2>2, <2>3, <2>4
  <1>6. SeedsAreStored' /\ ActiveIsStored' /\ ChainKeysFollowEpochs'
    BY <1>1, <1>2, <1>3, SeedFrame, SlotFrame
  <1>7. RunHoldsItsKeys'
    BY <1>3 DEF RunHoldsItsKeys, At
  <1> QED
    BY <1>4, <1>5, <1>6, <1>7

\* A rekey stores the new key before, and deletes the old one after, the file
\* has changed hands.
LEMMA RekeyStep ==
    ASSUME CustodyConstants, CustodyInvariant, Rekeying
    PROVE  CustodyInvariant'
  <1> USE DEF CustodyInvariant, clientVars, importVars, keyVars, dbVars
  <1>0. material[DBKEY] \subseteq Versions
    BY DEF TypeOK
  <1> DEFINE new == Newest(material[DBKEY]) + 1
  <1>1. new \notin material[DBKEY]
    BY <1>0, PastNewest
  <1>2. rekey_stage => /\ new \in Versions /\ run' = [op |-> "rekey", at |-> "pragma", of |-> DBKEY,
                                                      old |-> dbKey, new |-> new]
                       /\ material' = [material EXCEPT ![DBKEY] = {dbKey, new}]
                       /\ dbKey \in material[DBKEY] /\ dbKey' = dbKey /\ pointer' = dbKey
    BY DEF rekey_stage, Begin, open_with_recovery, Openable, Opens
  <1> HIDE DEF new
  <1>3. UNCHANGED <<slot, seeds, chainEpoch, degraded>>
    BY DEF Rekeying, rekey_stage, rekey_pragma, rekey_point, rekey_destroy
  <1>4. /\ material' \in [Slotted \cup {SEED, DBKEY} -> SUBSET Versions]
        /\ \A p \in Slotted \cup {SEED} : material'[p] = material[p]
    BY <1>0, <1>2 DEF TypeOK, Rekeying, rekey_pragma, rekey_point, rekey_destroy, Deleted
  <1>5. /\ run' \in Run
        /\ rekey_stage => run'.op = "rekey" /\ run'.at = "pragma"
                          /\ run'.old = dbKey /\ run'.new = new
        /\ rekey_pragma \/ rekey_point =>
              /\ run'.op = "rekey" /\ run'.at \in {"point", "destroy"}
              /\ run'.old = run.old /\ run'.new = run.new
        /\ rekey_destroy => run'.op = "none" /\ run'.at = ""
    <2>1. /\ run \in Run /\ {"pragma", "point", "destroy"} \subseteq RunStages
          /\ "rekey" \in Protocols /\ DBKEY \in Subjects /\ Versions \subseteq 0..MaxVersion
          /\ dbKey \in 0..MaxVersion
      BY DEF TypeOK, RunStages, Protocols, Subjects, Versions, CustodyConstants
    <2>2. rekey_stage => new \in 0..MaxVersion /\ Begin("rekey", "pragma", DBKEY, dbKey, new)
      BY <1>2, <2>1 DEF Begin
    <2>3. rekey_stage => run' \in Run /\ run'.op = "rekey" /\ run'.at = "pragma"
                         /\ run'.old = dbKey /\ run'.new = new
      BY <2>1, <2>2, BegunTyped
    <2>4. ASSUME NEW a \in {"point", "destroy"}, Go(a), run.op = "rekey"
          PROVE  run' \in Run /\ run'.op = "rekey" /\ run'.at = a
                 /\ run'.old = run.old /\ run'.new = run.new
      BY <2>1, <2>4, GoTyped
    <2>5. CASE rekey_stage
      BY <2>3, <2>5 DEF rekey_stage, rekey_pragma, rekey_point, rekey_destroy, At
    <2> QED
      BY <2>3, <2>4, NoRunTyped DEF Rekeying, rekey_pragma, rekey_point, rekey_destroy, At
  <1>6. TypeOK'
    <2>2. dbKey' \in 0..MaxVersion /\ pointer' \in 0..MaxVersion
      BY <1>0, <1>2 DEF Rekeying, rekey_pragma, rekey_point, rekey_destroy, TypeOK, Run, Versions
    <2>3. UNCHANGED <<helper, directory, upload, staged, desk, crashes>>
          /\ lock' \in {lock, "local", "free"}
      BY DEF Rekeying, rekey_stage, rekey_pragma, rekey_point, rekey_destroy
    <2> QED
      BY <1>3, <1>4, <1>5, <2>2, <2>3 DEF TypeOK
  <1>7. DbKeyIsStored'
    <2>1. CASE rekey_stage
      BY <1>1, <1>2, <1>5, <2>1 DEF DbKeyIsStored, TypeOK
    <2>2. CASE rekey_pragma
      BY <1>5, <2>2 DEF rekey_pragma, DbKeyIsStored, At, Go
    <2>3. CASE rekey_point
      BY <1>5, <2>3 DEF rekey_point, DbKeyIsStored, At, Go
    <2>4. CASE rekey_destroy
      BY <1>5, <2>4 DEF rekey_destroy, DbKeyIsStored, At, Deleted, TypeOK
    <2> QED
      BY <2>1, <2>2, <2>3, <2>4 DEF Rekeying
  <1>8. SeedsAreStored' /\ ActiveIsStored' /\ ChainKeysFollowEpochs'
    BY <1>3, <1>4, <1>5, SeedFrame, SlotFrame DEF Rekeying
  <1>9. RunHoldsItsKeys'
    BY <1>5, RunFrame DEF Rekeying
  <1> QED
    BY <1>6, <1>7, <1>8, <1>9

-----------------------------------------------------------------------------
(* The client seeds.                                                       *)

\* A client's new seed is stored before it is registered, and the old one
\* deleted after.
LEMMA ClientStep ==
    ASSUME CustodyConstants, CustodyInvariant, Enrolling
    PROVE  CustodyInvariant'
  <1> USE DEF CustodyInvariant, clientVars, importVars, keyVars, dbVars
  <1>0. material[SEED] \subseteq Versions /\ \A v \in Versions : v \in 0..MaxVersion /\ v # 0
    BY DEF TypeOK, Versions, CustodyConstants
  <1> DEFINE new == NextFile(SEED)
  <1>1. new \notin material[SEED]
    BY <1>0, PastNewest DEF NextFile
  <1>2. client_begin =>
           \E c \in Clients :
              /\ new \in Versions /\ UNCHANGED <<material, seeds>>
              /\ helper' = [helper EXCEPT ![c] = new]
              /\ Begin("client", "write", c, seeds[c], new)
    BY DEF client_begin
  <1> HIDE DEF new
  <1>3. UNCHANGED <<slot, chainEpoch, degraded, dbKey, pointer, directory, upload, staged, lock,
                    desk, crashes>>
    BY DEF Enrolling, client_begin, client_write, client_register, client_destroy
  <1>4. run \in Run
    BY DEF TypeOK
  <1>5. client_write \/ client_register \/ client_destroy => run.op = "client" /\ run.of \in Clients
    BY DEF client_write, client_register, client_destroy, At, SeedsAreStored
  <1>6. client_write => run.new \in Versions
    BY <1>4 DEF client_write, At, SeedsAreStored
  <1>7. /\ material' \in [Slotted \cup {SEED, DBKEY} -> SUBSET Versions]
        /\ \A p \in Slotted \cup {DBKEY} : material'[p] = material[p]
    BY <1>0, <1>2, <1>6 DEF TypeOK, Enrolling, client_write, client_register, client_destroy,
                      Written, Deleted
  <1>8. /\ run' \in Run
        /\ client_begin => \E c \in Clients :
              /\ run'.op = "client" /\ run'.at = "write" /\ run'.of = c
              /\ run'.old = seeds[c] /\ run'.new = new
        /\ client_write =>
              /\ run'.op = "client" /\ run'.at = "register" /\ run'.of = run.of
              /\ run'.old = run.old /\ run'.new = run.new
        /\ client_register =>
              \/ run'.op = "none" /\ run'.at = ""
              \/ /\ run'.op = "client" /\ run'.at = "destroy" /\ run'.of = run.of
                 /\ run'.old = run.old /\ run.old # 0 /\ run'.new = run.new
        /\ client_destroy => run'.op = "none" /\ run'.at = ""
    <2>1. /\ {"write", "register", "destroy"} \subseteq RunStages /\ "client" \in Protocols
          /\ Clients \subseteq Subjects /\ seeds \in [Clients -> 0..MaxVersion]
      BY DEF TypeOK, RunStages, Protocols, Subjects
    <2>2. CASE client_begin
      <3>1. PICK c \in Clients : new \in Versions /\ Begin("client", "write", c, seeds[c], new)
        BY <1>2, <2>2
      <3>2. /\ run' \in Run /\ run'.op = "client" /\ run'.at = "write" /\ run'.of = c
            /\ run'.old = seeds[c] /\ run'.new = new
        BY <1>0, <2>1, <3>1, BegunTyped
      <3> QED BY <2>2, <3>2 DEF client_begin, client_write, client_register, client_destroy,
                               At, Serving, noRun
    <2>3. ASSUME NEW a \in {"register", "destroy"}, Go(a), run.op = "client"
          PROVE  run' \in Run /\ run'.op = "client" /\ run'.at = a /\ run'.of = run.of
                 /\ run'.old = run.old /\ run'.new = run.new
      BY <1>4, <2>1, <2>3, GoTyped
    <2>4. client_write => Go("register") /\ At("client", "write")
      BY DEF client_write
    <2>5. client_register => /\ At("client", "register")
                             /\ run' = noRun \/ (Go("destroy") /\ run.old # 0)
      BY DEF client_register, Go
    <2>6. client_destroy => run' = noRun /\ At("client", "destroy")
      BY DEF client_destroy
    <2>7. client_begin => run.op = "none"
      BY NoRunTyped DEF client_begin, Serving
    <2> QED
      BY <2>2, <2>3, <2>4, <2>5, <2>6, <2>7, NoRunTyped DEF Enrolling, At
  <1>9. TypeOK'
    <2>2. helper' \in [Clients -> 0..MaxVersion] /\ seeds' \in [Clients -> 0..MaxVersion]
      BY <1>0, <1>2, <1>4 DEF Enrolling, client_write, client_register, client_destroy, TypeOK, Run
    <2> QED
      BY <1>3, <1>7, <1>8, <2>2 DEF TypeOK
  <1>10. SeedsAreStored'
    <2>1. CASE client_begin
      <3>1. UNCHANGED <<material, seeds>> /\ new \in Versions
        BY <1>2, <2>1
      <3>2. PICK c \in Clients : /\ run'.op = "client" /\ run'.at = "write" /\ run'.of = c
                                 /\ run'.old = seeds[c] /\ run'.new = new
        BY <1>8, <2>1
      <3> QED BY <1>1, <3>1, <3>2 DEF SeedsAreStored
    <2>2. CASE client_write
      BY <1>0, <1>5, <1>7, <1>8, <2>2 DEF client_write, SeedsAreStored, At, TypeOK, Written
    <2>3. CASE client_register
      BY <1>5, <1>7, <1>8, <2>3 DEF client_register, SeedsAreStored, At, TypeOK
    <2>4. CASE client_destroy
      BY <1>5, <1>7, <1>8, <2>4 DEF client_destroy, SeedsAreStored, At, TypeOK, Deleted
    <2> QED
      BY <2>1, <2>2, <2>3, <2>4 DEF Enrolling
  <1>11. DbKeyIsStored' /\ ActiveIsStored' /\ ChainKeysFollowEpochs' /\ RunHoldsItsKeys'
    BY <1>3, <1>7, <1>8, DbFrame, SlotFrame, RunFrame DEF Enrolling
  <1> QED
    BY <1>9, <1>10, <1>11

-----------------------------------------------------------------------------
(* The key slots.                                                          *)

\* A protocol on the key slots is sound if its own three parts are.
LEMMA KeysStep ==
    ASSUME CustodyConstants, CustodyInvariant,
           material' \in [Slotted \cup {SEED, DBKEY} -> SUBSET Versions],
           material'[SEED] = material[SEED], material'[DBKEY] = material[DBKEY],
           slot' \in [Slotted -> [Versions -> SlotStates]],
           chainEpoch' \in 0..MaxVersion, degraded' \in BOOLEAN, directory' \in 0..MaxEdits,
           UNCHANGED <<clientVars, dbVars, upload, staged, lock, desk, crashes>>,
           run' \in Run, run'.op \notin {"client", "rekey"},
           run'.op = "provision" => run'.at \in {"keys", "register"},
           ActiveIsStored', ChainKeysFollowEpochs', RunHoldsItsKeys'
    PROVE  CustodyInvariant'
  <1> USE DEF CustodyInvariant, clientVars, dbVars
  <1>1. TypeOK'
    BY DEF TypeOK
  <1>2. DbKeyIsStored'
    BY DEF DbKeyIsStored
  <1>3. SeedsAreStored'
    BY SeedFrame
  <1> QED
    BY <1>1, <1>2, <1>3

\* Files may go that are neither active nor an epoch's key.
LEMMA FilesKept ==
    ASSUME CustodyConstants, TypeOK, ActiveIsStored, ChainKeysFollowEpochs,
           UNCHANGED <<slot, chainEpoch, degraded>>,
           \A p \in Slotted : \A v \in material[p] :
              slot[p][v] = "ACTIVE" \/ (p = CHAIN /\ slot[p][v] # "NONE") => v \in material'[p]
    PROVE  ActiveIsStored' /\ ChainKeysFollowEpochs'
  <1>1. ActiveIsStored'
    BY DEF ActiveIsStored
  <1>2. chainEpoch = 0 =>
          \A v \in Versions : slot[CHAIN][v] # "NONE" =>
                                 slot[CHAIN][v] = "ACTIVE" /\ v \in material'[CHAIN]
    BY DEF ChainKeysFollowEpochs
  <1>3. chainEpoch # 0 /\ ~degraded => 1..chainEpoch \subseteq material'[CHAIN]
    <2> SUFFICES ASSUME chainEpoch # 0, ~degraded, NEW n \in 1..chainEpoch
                 PROVE  n \in material'[CHAIN]
      OBVIOUS
    <2>1. n \in Versions /\ n <= chainEpoch
      BY DEF TypeOK, Versions, CustodyConstants
    <2>2. slot[CHAIN][n] # "NONE" /\ n \in material[CHAIN]
      BY <2>1 DEF ChainKeysFollowEpochs
    <2> QED
      BY <2>2
  <1>4. ChainKeysFollowEpochs'
    BY <1>2, <1>3 DEF ChainKeysFollowEpochs, ActiveIs
  <1> QED
    BY <1>1, <1>4

\* One purpose has another active version.
LEMMA OneSlot ==
    ASSUME ActiveIsStored, NEW p \in Slotted, NEW v, ActiveIs(p, v)',
           v \in material'[p] \cup {0} \/ (p = CHAIN /\ degraded'),
           \A q \in Slotted : q # p => slot'[q] = slot[q] /\ material'[q] = material[q],
           degraded => degraded', CustodyConstants
    PROVE  ActiveIsStored'
  <1>1. \A w \in Versions : w # 0
    BY DEF Versions
  <1>2. ASSUME NEW q \in Slotted, NEW w \in Versions, slot'[q][w] = "ACTIVE"
        PROVE  w \in material'[q] \/ (q = CHAIN /\ degraded')
    <2>1. CASE q = p
      BY <1>1, <1>2, <2>1 DEF ActiveIs
    <2>2. CASE q # p
      BY <1>2, <2>2 DEF ActiveIsStored
    <2> QED
      BY <2>1, <2>2
  <1>3. ASSUME NEW q \in Slotted, NEW u \in Versions, NEW w \in Versions,
               slot'[q][u] = "ACTIVE", slot'[q][w] = "ACTIVE"
        PROVE  u = w
    BY <1>3 DEF ActiveIs, ActiveIsStored
  <1> QED
    BY <1>2, <1>3 DEF ActiveIsStored

\* A change of another purpose leaves the chain's keys alone; so does the latch.
LEMMA ChainAside ==
    ASSUME ChainKeysFollowEpochs, chainEpoch' = chainEpoch, degraded => degraded',
           slot'[CHAIN] = slot[CHAIN], material'[CHAIN] = material[CHAIN]
    PROVE  ChainKeysFollowEpochs'
  BY DEF ChainKeysFollowEpochs, ActiveIs

\* What the latch makes of an anchor.
LEMMA AnchorTyped ==
    ASSUME degraded \in BOOLEAN, NEW ok \in BOOLEAN, Anchored(ok)
    PROVE  degraded' \in BOOLEAN /\ (degraded => degraded') /\ (~ok => degraded')
           /\ (~degraded' => ~degraded /\ HeadKeyLoads')
  BY DEF Anchored

\* With a clear latch the chain's files are those of its epochs, and the next one
\* follows.
LEMMA ChainIsNumbered ==
    ASSUME CustodyConstants, CustodyInvariant, Unheld
    PROVE  /\ chainEpoch \in Versions /\ ~degraded
           /\ active_version(CHAIN) = chainEpoch
           /\ clean_orphans(CHAIN) = 1..chainEpoch
           /\ Newest(clean_orphans(CHAIN)) + 1 = chainEpoch + 1
           /\ \A v \in Versions : slot[CHAIN][v] # "NONE" <=> v <= chainEpoch
  <1> USE DEF CustodyInvariant
  <1>1. chainEpoch \in Versions /\ ~degraded /\ chainEpoch # 0 /\ 1..chainEpoch \subseteq Versions
    BY DEF Unheld, TypeOK, Versions, CustodyConstants
  <1>2. /\ \A v \in Versions : slot[CHAIN][v] # "NONE" <=> v <= chainEpoch
        /\ ActiveIs(CHAIN, chainEpoch) /\ 1..chainEpoch \subseteq material[CHAIN]
    BY <1>1 DEF ChainKeysFollowEpochs
  <1>3. active_version(CHAIN) = chainEpoch
    BY <1>1, <1>2, ActiveVersion DEF ActiveIs
  <1>4. Registered(CHAIN) = 1..chainEpoch
    BY <1>1, <1>2 DEF Registered, Versions
  <1>5. clean_orphans(CHAIN) = 1..chainEpoch
    BY <1>2, <1>4 DEF clean_orphans
  <1>6. chainEpoch \in 1..chainEpoch /\ \A v \in 1..chainEpoch : v <= chainEpoch
    BY <1>1 DEF Versions
  <1>7. Newest(1..chainEpoch) \in 1..chainEpoch /\ chainEpoch <= Newest(1..chainEpoch)
    BY <1>1, <1>6, NewestIsGreatest
  <1>8. Newest(1..chainEpoch) = chainEpoch
    BY <1>1, <1>7 DEF Versions
  <1> QED
    BY <1>1, <1>2, <1>3, <1>5, <1>8

-----------------------------------------------------------------------------
(* New files: the first step of a protocol on the slots.                   *)

\* A protocol begins with a file of a new version.
LEMMA StagedFile ==
    ASSUME CustodyConstants, CustodyInvariant, NEW p \in Slotted, NEW kept, NEW new \in Versions,
           kept \subseteq material[p],
           \A v \in material[p] : slot[p][v] # "NONE" => v \in kept,
           material' = [material EXCEPT ![p] = kept \cup {new}],
           UNCHANGED <<slot, chainEpoch, degraded>>
    PROVE  /\ material' \in [Slotted \cup {SEED, DBKEY} -> SUBSET Versions]
           /\ material'[SEED] = material[SEED] /\ material'[DBKEY] = material[DBKEY]
           /\ new \in material'[p] /\ ActiveIsStored' /\ ChainKeysFollowEpochs'
           /\ \A v : ActiveIs(p, v) => ActiveIs(p, v)'
  <1> USE DEF CustodyInvariant
  <1>1. material \in [Slotted \cup {SEED, DBKEY} -> SUBSET Versions]
    BY DEF TypeOK
  <1>2. /\ material' \in [Slotted \cup {SEED, DBKEY} -> SUBSET Versions]
        /\ material'[p] = kept \cup {new} /\ \A q \in Slotted : q # p => material'[q] = material[q]
        /\ material'[SEED] = material[SEED] /\ material'[DBKEY] = material[DBKEY]
    BY <1>1
  <1>3. ActiveIsStored' /\ ChainKeysFollowEpochs'
    <2>1. \A q \in Slotted : \A v \in material[q] :
             slot[q][v] = "ACTIVE" \/ (q = CHAIN /\ slot[q][v] # "NONE") => v \in material'[q]
      BY <1>2
    <2> QED
      BY <2>1, FilesKept
  <1>4. \A v : ActiveIs(p, v) => ActiveIs(p, v)'
    BY DEF ActiveIs
  <1> QED
    BY <1>2, <1>3, <1>4

\* bootstrap_keys writes the first key of a purpose.
LEMMA BootstrapWriteStep ==
    ASSUME CustodyConstants, CustodyInvariant, bootstrap_write
    PROVE  CustodyInvariant'
  <1> USE DEF CustodyInvariant, importVars
  <1>1. PICK p \in Provisioned :
           /\ active_version(p) = 0 /\ NextFile(p) \in Versions
           /\ material' = Written(p, NextFile(p))
           /\ Begin("provision", "register", p, 0, NextFile(p))
    BY DEF bootstrap_write
  <1> DEFINE new == NextFile(p)
  <1>2. material' = [material EXCEPT ![p] = material[p] \cup {new}]
    BY <1>1 DEF Written, TypeOK
  <1>3. UNCHANGED <<slot, chainEpoch, degraded>> /\ chainEpoch = 0
    BY DEF bootstrap_write
  <1> HIDE DEF new
  <1>4. new \in Versions /\ new \in 0..MaxVersion /\ 0 \in 0..MaxVersion
    BY <1>1 DEF new, Versions, CustodyConstants
  <1>5. /\ run' \in Run /\ run'.op = "provision" /\ run'.at = "register" /\ run'.of = p
        /\ run'.old = 0 /\ run'.new = new
    <2>1. "provision" \in Protocols /\ "register" \in RunStages /\ p \in Subjects
      BY DEF Protocols, RunStages, Subjects
    <2> QED
      BY <1>1, <1>4, <2>1, BegunTyped DEF new
  <1>6. /\ material' \in [Slotted \cup {SEED, DBKEY} -> SUBSET Versions]
        /\ material'[SEED] = material[SEED] /\ material'[DBKEY] = material[DBKEY]
        /\ new \in material'[p] /\ ActiveIsStored' /\ ChainKeysFollowEpochs'
        /\ \A v : ActiveIs(p, v) => ActiveIs(p, v)'
    BY <1>2, <1>3, <1>4, StagedFile
  <1>7. ActiveIs(p, 0)
    BY <1>1, ActiveVersion
  <1>8. RunHoldsItsKeys'
    BY <1>3, <1>5, <1>6, <1>7 DEF RunHoldsItsKeys, At, ActiveIs
  <1>9. UNCHANGED <<clientVars, dbVars, directory, upload, staged, lock, desk, crashes>>
    BY DEF bootstrap_write
  <1> QED
    BY <1>3, <1>5, <1>6, <1>8, <1>9, KeysStep DEF TypeOK

\* rotate and commit_import: orphans of earlier runs go, the next key is stored.
LEMMA RotateStep ==
    ASSUME CustodyConstants, CustodyInvariant, rotate \/ commit_import
    PROVE  CustodyInvariant'
  <1> USE DEF CustodyInvariant, importVars
  <1>1. PICK p \in Provisioned, op \in {"rotate", "import"} :
           /\ Unheld /\ (op = "import" => p = CHAIN)
           /\ Newest(clean_orphans(p)) + 1 \in Versions
           /\ material' = [material EXCEPT ![p] = clean_orphans(p) \cup {Newest(clean_orphans(p)) + 1}]
           /\ Begin(op, "commit", p, active_version(p), Newest(clean_orphans(p)) + 1)
    BY DEF rotate, commit_import
  <1> DEFINE kept == clean_orphans(p)
             new == Newest(kept) + 1
             old == active_version(p)
  <1>2. kept \subseteq material[p] /\ \A v \in material[p] : slot[p][v] # "NONE" => v \in kept
    BY DEF clean_orphans, Registered, TypeOK
  <1>3. UNCHANGED <<slot, chainEpoch, degraded>>
    BY DEF rotate, commit_import
  <1>4. ActiveIs(p, old) /\ old \in 0..MaxVersion
    BY ActiveVersion
  <1>5. new \in Versions /\ new \in 0..MaxVersion /\ material' = [material EXCEPT ![p] = kept \cup {new}]
    BY <1>1 DEF Versions
  <1>6. p = CHAIN => /\ new = chainEpoch + 1 /\ old = chainEpoch /\ chainEpoch # 0 /\ ~degraded
    BY <1>1, ChainIsNumbered DEF Unheld
  <1>7. Begin(op, "commit", p, old, new)
    BY <1>1
  <1> HIDE DEF kept, new, old
  <1>8. /\ run' \in Run /\ run'.op = op /\ run'.at = "commit" /\ run'.of = p
        /\ run'.old = old /\ run'.new = new
    <2>1. op \in Protocols /\ "commit" \in RunStages /\ p \in Subjects
      BY DEF Protocols, RunStages, Subjects
    <2> QED
      BY <1>4, <1>5, <1>7, <2>1, BegunTyped
  <1>9. /\ material' \in [Slotted \cup {SEED, DBKEY} -> SUBSET Versions]
        /\ material'[SEED] = material[SEED] /\ material'[DBKEY] = material[DBKEY]
        /\ new \in material'[p] /\ ActiveIsStored' /\ ChainKeysFollowEpochs'
        /\ \A v : ActiveIs(p, v) => ActiveIs(p, v)'
    BY <1>2, <1>3, <1>5, StagedFile
  <1>10. RunHoldsItsKeys'
    BY <1>1, <1>3, <1>4, <1>6, <1>8, <1>9 DEF RunHoldsItsKeys, At, ActiveIs
  <1>11. UNCHANGED <<clientVars, dbVars, directory, upload, staged, lock, desk, crashes>>
    BY DEF rotate, commit_import
  <1> QED
    BY <1>3, <1>8, <1>9, <1>10, <1>11, KeysStep DEF TypeOK

\* rotate_credential stores the new secret before it is proved.
LEMMA RotateCredentialStep ==
    ASSUME CustodyConstants, CustodyInvariant, rotate_credential
    PROVE  CustodyInvariant'
  <1> USE DEF CustodyInvariant, importVars
  <1> DEFINE new == NextCredential
             old == active_version(CREDENTIAL)
  <1>1. /\ new \in Versions /\ material' = Written(CREDENTIAL, new)
        /\ Begin("credential", "prove", CREDENTIAL, old, new)
        /\ UNCHANGED <<slot, chainEpoch, degraded>>
    BY DEF rotate_credential
  <1>2. slot[CREDENTIAL][new] = "NONE"
    <2> DEFINE S == material[CREDENTIAL] \cup Registered(CREDENTIAL)
    <2>1. S \subseteq Versions
      BY DEF TypeOK, Registered
    <2>2. new \notin S
      <3> HIDE DEF S
      <3>1. Newest(S) + 1 \notin S
        BY <2>1, PastNewest
      <3> QED BY <3>1 DEF S, NextCredential
    <2> QED
      BY <1>1, <2>2 DEF Registered
  <1>3. ActiveIs(CREDENTIAL, old) /\ old \in 0..MaxVersion
    BY ActiveVersion
  <1> HIDE DEF new, old
  <1>4. new \in 0..MaxVersion
    BY <1>1 DEF Versions
  <1>5. material' = [material EXCEPT ![CREDENTIAL] = material[CREDENTIAL] \cup {new}]
    BY <1>1 DEF Written, TypeOK
  <1>6. /\ run' \in Run /\ run'.op = "credential" /\ run'.at = "prove" /\ run'.of = CREDENTIAL
        /\ run'.old = old /\ run'.new = new
    <2>1. "credential" \in Protocols /\ "prove" \in RunStages /\ CREDENTIAL \in Subjects
      BY DEF Protocols, RunStages, Subjects
    <2> QED
      BY <1>1, <1>3, <1>4, <2>1, BegunTyped
  <1>7. /\ material' \in [Slotted \cup {SEED, DBKEY} -> SUBSET Versions]
        /\ material'[SEED] = material[SEED] /\ material'[DBKEY] = material[DBKEY]
        /\ new \in material'[CREDENTIAL] /\ ActiveIsStored' /\ ChainKeysFollowEpochs'
        /\ \A v : ActiveIs(CREDENTIAL, v) => ActiveIs(CREDENTIAL, v)'
    BY <1>1, <1>5, StagedFile
  <1>8. RunHoldsItsKeys'
    BY <1>1, <1>2, <1>3, <1>6, <1>7 DEF RunHoldsItsKeys, At, ActiveIs
  <1>9. UNCHANGED <<clientVars, dbVars, directory, upload, staged, lock, desk, crashes>>
    BY DEF rotate_credential
  <1> QED
    BY <1>1, <1>6, <1>7, <1>8, <1>9, KeysStep DEF TypeOK

-----------------------------------------------------------------------------
(* Deleted files.                                                          *)

\* A file may be deleted that is of no active slot and no epoch.
LEMMA DeletedFile ==
    ASSUME CustodyConstants, CustodyInvariant, NEW p \in Slotted, NEW u,
           \A v \in Versions : slot[p][v] = "ACTIVE" \/ (p = CHAIN /\ slot[p][v] # "NONE") => v # u,
           material' = Deleted(p, u), UNCHANGED <<slot, chainEpoch, degraded>>
    PROVE  /\ material' \in [Slotted \cup {SEED, DBKEY} -> SUBSET Versions]
           /\ material'[SEED] = material[SEED] /\ material'[DBKEY] = material[DBKEY]
           /\ ActiveIsStored' /\ ChainKeysFollowEpochs'
  <1> USE DEF CustodyInvariant
  <1>1. material \in [Slotted \cup {SEED, DBKEY} -> SUBSET Versions]
    BY DEF TypeOK
  <1>2. /\ material' \in [Slotted \cup {SEED, DBKEY} -> SUBSET Versions]
        /\ material'[p] = material[p] \ {u}
        /\ \A q \in Slotted : q # p => material'[q] = material[q]
        /\ material'[SEED] = material[SEED] /\ material'[DBKEY] = material[DBKEY]
    BY <1>1 DEF Deleted
  <1>3. \A q \in Slotted : \A v \in material[q] :
           slot[q][v] = "ACTIVE" \/ (q = CHAIN /\ slot[q][v] # "NONE") => v \in material'[q]
    BY <1>1, <1>2
  <1> QED
    BY <1>2, <1>3, FilesKept

\* The old version's file goes once another one is active, or none is.
LEMMA DestroyStep ==
    ASSUME CustodyConstants, CustodyInvariant, destroy
    PROVE  CustodyInvariant'
  <1> USE DEF CustodyInvariant, importVars
  <1>1. /\ run.op \in {"rotate", "credential", "revoke"} /\ run.at = "destroy" /\ Go("mark")
        /\ material' = Deleted(run.of, run.old) /\ UNCHANGED <<slot, chainEpoch, degraded>>
    BY DEF destroy, Destroying, At
  <1>2. /\ run.of \in {SIGNER, CREDENTIAL}
        /\ \A v \in Versions : slot[run.of][v] = "ACTIVE" => v # run.old
    BY <1>1 DEF RunHoldsItsKeys
  <1>3. /\ run' \in Run /\ run'.op = run.op /\ run'.at = "mark" /\ run'.of = run.of
        /\ run'.old = run.old
    BY <1>1, GoTyped DEF TypeOK, RunStages
  <1>4. /\ material' \in [Slotted \cup {SEED, DBKEY} -> SUBSET Versions]
        /\ material'[SEED] = material[SEED] /\ material'[DBKEY] = material[DBKEY]
        /\ ActiveIsStored' /\ ChainKeysFollowEpochs'
    BY <1>1, <1>2, DeletedFile
  <1>5. RunHoldsItsKeys'
    BY <1>1, <1>2, <1>3 DEF RunHoldsItsKeys, At
  <1>6. UNCHANGED <<clientVars, dbVars, directory, upload, staged, lock, desk, crashes>>
    BY DEF destroy
  <1> QED
    BY <1>1, <1>3, <1>4, <1>5, <1>6, KeysStep DEF TypeOK

\* A secret that was not proved, and the key of an import that was refused, are
\* registered nowhere.
LEMMA WithdrawnStep ==
    ASSUME CustodyConstants, CustodyInvariant, prove_fails \/ import_refused
    PROVE  CustodyInvariant'
  <1> USE DEF CustodyInvariant, importVars
  <1>1. PICK p \in {CREDENTIAL, CHAIN} :
           /\ material' = Deleted(p, run.new)
           /\ p = CREDENTIAL => At("credential", "prove")
           /\ p = CHAIN => At("import", "commit")
    BY DEF prove_fails, import_refused
  <1>2. UNCHANGED <<slot, chainEpoch, degraded>> /\ run' = noRun
    BY DEF prove_fails, import_refused
  <1>3. \A v \in Versions : slot[p][v] = "ACTIVE" \/ (p = CHAIN /\ slot[p][v] # "NONE") => v # run.new
    <2>1. CASE p = CREDENTIAL
      BY <1>1, <2>1 DEF RunHoldsItsKeys
    <2>2. CASE p = CHAIN
      <3>1. chainEpoch # 0 /\ ~degraded /\ run.new = chainEpoch + 1
        BY <1>1, <2>2 DEF RunHoldsItsKeys, At
      <3>2. \A v \in Versions : slot[CHAIN][v] # "NONE" <=> v <= chainEpoch
        BY <3>1 DEF ChainKeysFollowEpochs
      <3>3. \A v \in Versions : v <= chainEpoch => v # run.new
        BY <3>1 DEF TypeOK, Versions, CustodyConstants
      <3> QED BY <2>2, <3>2, <3>3
    <2> QED
      BY <2>1, <2>2
  <1>4. /\ material' \in [Slotted \cup {SEED, DBKEY} -> SUBSET Versions]
        /\ material'[SEED] = material[SEED] /\ material'[DBKEY] = material[DBKEY]
        /\ ActiveIsStored' /\ ChainKeysFollowEpochs'
    BY <1>1, <1>2, <1>3, DeletedFile
  <1>5. run' \in Run /\ run'.op = "none" /\ run'.at = ""
    BY <1>2, NoRunTyped
  <1>6. RunHoldsItsKeys'
    BY <1>5, RunFrame
  <1>7. UNCHANGED <<clientVars, dbVars, directory, upload, staged, lock, desk, crashes>>
    BY DEF prove_fails, import_refused
  <1> QED
    BY <1>2, <1>4, <1>5, <1>6, <1>7, KeysStep DEF TypeOK

-----------------------------------------------------------------------------
(* Slots other than the chain's.                                           *)

\* A transaction that gives a purpose other than the chain another active version,
\* or none, with files left alone.
LEMMA SlotStep ==
    ASSUME CustodyConstants, CustodyInvariant, NEW p \in {SIGNER, CREDENTIAL}, NEW v,
           ActiveIs(p, v)', v \in material[p] \cup {0},
           slot' \in [Slotted -> [Versions -> SlotStates]],
           \A q \in Slotted : q # p => slot'[q] = slot[q],
           UNCHANGED <<material, chainEpoch, clientVars, dbVars, importVars, lock, desk, crashes>>,
           degraded' \in BOOLEAN, degraded => degraded',
           run' \in Run, run'.op \in {"none", "rotate", "credential", "revoke"}, RunHoldsItsKeys'
    PROVE  CustodyInvariant'
  <1> USE DEF CustodyInvariant, importVars
  <1>1. ActiveIsStored'
    BY OneSlot
  <1>2. ChainKeysFollowEpochs'
    BY ChainAside
  <1> QED
    BY <1>1, <1>2, KeysStep DEF TypeOK

\* mark_destroyed, and the recheck that passes.
LEMMA MarkStep ==
    ASSUME CustodyConstants, CustodyInvariant, mark_destroyed \/ recheck
    PROVE  CustodyInvariant'
  <1> USE DEF CustodyInvariant, keyVars
  <1>1. CASE mark_destroyed
    <2>1. /\ run.of \in {SIGNER, CREDENTIAL}
          /\ \A v \in Versions : slot[run.of][v] = "ACTIVE" => v # run.old
          /\ slot' = [slot EXCEPT ![run.of][run.old] = "DESTROYED"] /\ run' = noRun
      BY <1>1 DEF mark_destroyed, RunHoldsItsKeys, Mark
    <2>2. PICK p \in {SIGNER, CREDENTIAL} : p = run.of
      BY <2>1
    <2>3. slot \in [Slotted -> [Versions -> SlotStates]]
      BY DEF TypeOK
    <2>4. /\ slot' \in [Slotted -> [Versions -> SlotStates]]
          /\ \A q \in Slotted : q # p => slot'[q] = slot[q]
          /\ \A w \in Versions : slot'[p][w] = IF w = run.old THEN "DESTROYED" ELSE slot[p][w]
      BY <2>1, <2>2, <2>3 DEF SlotStates
    <2>5. PICK v \in material[p] \cup {0} : ActiveIs(p, v)
      BY ActiveVersion DEF ActiveIsStored
    <2>6. ActiveIs(p, v)'
      BY <2>1, <2>2, <2>4, <2>5 DEF ActiveIs
    <2>7. run' \in Run /\ run'.op = "none" /\ RunHoldsItsKeys'
      BY <2>1, NoRunTyped, RunFrame
    <2>8. /\ UNCHANGED <<material, chainEpoch, clientVars, dbVars, importVars, lock, desk, crashes>>
          /\ degraded' = degraded
      BY <1>1 DEF mark_destroyed
    <2> QED
      BY <2>4, <2>5, <2>6, <2>7, <2>8, SlotStep DEF TypeOK
  <1>2. CASE recheck
    <2>1. /\ run.op = "credential" /\ run.at = "recheck" /\ run.of = CREDENTIAL
          /\ ActiveIs(CREDENTIAL, run.new) /\ run.new # run.old
          /\ run' = noRun \/ Go("destroy")
      BY <1>2 DEF recheck, At, RunHoldsItsKeys, Go
    <2>2. run' \in Run /\ run'.op \in {"none", "credential"}
          /\ (run' = noRun \/ (run'.op = "credential" /\ run'.at = "destroy" /\ run'.of = CREDENTIAL
                               /\ run'.old = run.old))
      BY <2>1, NoRunTyped, GoTyped DEF TypeOK, RunStages
    <2>3. UNCHANGED <<keyVars, clientVars, dbVars, importVars, lock, desk, crashes>>
      BY <1>2 DEF recheck
    <2>4. RunHoldsItsKeys'
      <3>1. CASE run' = noRun
        BY <3>1, NoRunTyped, RunFrame
      <3>2. CASE run' # noRun
        BY <2>1, <2>2, <2>3, <3>2 DEF RunHoldsItsKeys, At, ActiveIs
      <3> QED BY <3>1, <3>2
    <2>5. ActiveIsStored' /\ ChainKeysFollowEpochs'
      BY <2>3, SlotFrame
    <2> QED
      BY <2>2, <2>3, <2>4, <2>5, KeysStep DEF TypeOK, importVars
  <1> QED
    BY <1>1, <1>2

\* The new secret is activated, or the old one put back, or the secret revoked.
LEMMA CredentialStep ==
    ASSUME CustodyConstants, CustodyInvariant,
           credential_commit \/ recheck_fails \/ revoke_credential
    PROVE  CustodyInvariant'
  <1> USE DEF CustodyInvariant
  <1>0. /\ slot \in [Slotted -> [Versions -> SlotStates]] /\ degraded \in BOOLEAN /\ run \in Run
        /\ material[CREDENTIAL] \subseteq Versions
    BY DEF TypeOK
  <1>1. UNCHANGED <<material, chainEpoch, clientVars, dbVars, importVars, lock, desk, crashes>>
    BY DEF credential_commit, recheck_fails, revoke_credential
  <1>2. PICK ok \in BOOLEAN :
           /\ Anchored(ok)
           /\ credential_commit => run' = IF ok THEN [run EXCEPT !.at = "recheck"] ELSE noRun
           /\ revoke_credential =>
                 IF ok THEN Begin("revoke", "destroy", CREDENTIAL, active_version(CREDENTIAL), 0)
                 ELSE run' = noRun
    <2>1. CASE credential_commit
      <3>1. ~revoke_credential
        BY <2>1, NoRunTyped DEF credential_commit, revoke_credential, At, Serving
      <3> QED BY <2>1, <3>1 DEF credential_commit
    <2>2. CASE recheck_fails
      <3>1. ~revoke_credential /\ ~credential_commit
        BY <2>2, NoRunTyped DEF credential_commit, recheck_fails, revoke_credential, At, Serving
      <3> QED BY <2>2, <3>1 DEF recheck_fails
    <2>3. CASE revoke_credential
      <3>1. ~credential_commit
        BY <2>3, NoRunTyped DEF credential_commit, revoke_credential, At, Serving
      <3>2. \/ Anchored(TRUE) /\ Begin("revoke", "destroy", CREDENTIAL, active_version(CREDENTIAL), 0)
            \/ Anchored(FALSE) /\ run' = noRun
        BY <2>3 DEF revoke_credential
      <3> QED BY <3>1, <3>2
    <2> QED
      BY <2>1, <2>2, <2>3
  <1>3. degraded' \in BOOLEAN /\ (degraded => degraded')
    BY <1>0, <1>2, AnchorTyped
  <1>4. noRun \in Run /\ noRun.op = "none" /\ (run' = noRun => RunHoldsItsKeys')
    BY NoRunTyped, RunFrame
  <1>5. CASE credential_commit
    <2>1. PICK old, new :
             /\ old = run.old /\ new = run.new /\ old \in 0..MaxVersion
             /\ run.op = "credential" /\ run.of = CREDENTIAL /\ new \in material[CREDENTIAL]
             /\ slot[CREDENTIAL][new] = "NONE" /\ ActiveIs(CREDENTIAL, old)
             /\ activate_in_tx(CREDENTIAL, old, new)
      BY <1>0, <1>5 DEF credential_commit, At, RunHoldsItsKeys, Run
    <2>2. /\ slot' \in [Slotted -> [Versions -> SlotStates]] /\ ActiveIs(CREDENTIAL, new)'
          /\ \A q \in Slotted : q # CREDENTIAL => slot'[q] = slot[q]
      BY <1>0, <2>1, Activated
    <2>3. run' = noRun \/ Go("recheck")
      BY <1>2, <1>5 DEF Go
    <2>4. /\ run' \in Run /\ run'.op \in {"none", "credential"}
          /\ \/ run' = noRun
             \/ /\ run'.op = "credential" /\ run'.at = "recheck" /\ run'.of = CREDENTIAL
                /\ run'.old = old /\ run'.new = new
      BY <1>0, <1>4, <2>1, <2>3, GoTyped DEF RunStages
    <2>5. new # old /\ old \in material[CREDENTIAL] \cup {0}
      <3>1. CASE old = 0
        BY <1>0, <2>1, <3>1 DEF Versions
      <3>2. CASE old # 0
        <4>1. old \in Versions
          BY <2>1, <3>2 DEF Versions, CustodyConstants
        <4>2. slot[CREDENTIAL][old] = "ACTIVE"
          BY <2>1, <4>1 DEF ActiveIs
        <4> QED BY <2>1, <4>1, <4>2 DEF ActiveIsStored
      <3> QED BY <3>1, <3>2
    <2>6. RunHoldsItsKeys'
      BY <1>1, <1>4, <2>2, <2>4, <2>5 DEF RunHoldsItsKeys, At, ActiveIs
    <2> QED
      BY <1>1, <1>3, <2>1, <2>2, <2>4, <2>6, SlotStep
  <1>6. CASE recheck_fails
    <2>1. PICK old, new :
             /\ old = run.old /\ new = run.new
             /\ run.of = CREDENTIAL /\ ActiveIs(CREDENTIAL, new) /\ new # old
             /\ old \in material[CREDENTIAL] \cup {0} /\ run' = noRun
             /\ slot' = [slot EXCEPT ![CREDENTIAL] =
                           [v \in Versions |-> IF v = new THEN "ORPHAN"
                                               ELSE IF v = old THEN "ACTIVE"
                                               ELSE slot[CREDENTIAL][v]]]
      BY <1>6 DEF recheck_fails, At, RunHoldsItsKeys
    <2>2. /\ slot' \in [Slotted -> [Versions -> SlotStates]]
          /\ \A q \in Slotted : q # CREDENTIAL => slot'[q] = slot[q]
          /\ \A v \in Versions :
                slot'[CREDENTIAL][v] = IF v = new THEN "ORPHAN"
                                       ELSE IF v = old THEN "ACTIVE" ELSE slot[CREDENTIAL][v]
      BY <1>0, <2>1 DEF SlotStates
    <2>3. ActiveIs(CREDENTIAL, old)'
      BY <2>1, <2>2 DEF ActiveIs
    <2> QED
      BY <1>1, <1>3, <1>4, <2>1, <2>2, <2>3, SlotStep
  <1>7. CASE revoke_credential
    <2>1. PICK old \in Versions :
             /\ old = active_version(CREDENTIAL) /\ ActiveIs(CREDENTIAL, old) /\ old \in 0..MaxVersion
             /\ slot' = [slot EXCEPT ![CREDENTIAL][old] = "REVOKED"]
      BY <1>7, ActiveVersion DEF revoke_credential, Mark
    <2>2. run' = noRun \/ Begin("revoke", "destroy", CREDENTIAL, old, 0)
      BY <1>2, <1>7, <2>1
    <2>3. /\ slot' \in [Slotted -> [Versions -> SlotStates]]
          /\ \A q \in Slotted : q # CREDENTIAL => slot'[q] = slot[q]
          /\ \A v \in Versions :
                slot'[CREDENTIAL][v] = IF v = old THEN "REVOKED" ELSE slot[CREDENTIAL][v]
      BY <1>0, <2>1 DEF SlotStates
    <2>4. ActiveIs(CREDENTIAL, 0)'
      BY <2>1, <2>3 DEF ActiveIs, Versions
    <2>5. /\ run' \in Run /\ run'.op \in {"none", "revoke"}
          /\ run' = noRun \/ (run'.op = "revoke" /\ run'.at = "destroy" /\ run'.of = CREDENTIAL)
      <3>1. /\ "revoke" \in Protocols /\ "destroy" \in RunStages /\ CREDENTIAL \in Subjects
            /\ 0 \in 0..MaxVersion
        BY DEF Protocols, RunStages, Subjects, CustodyConstants
      <3> QED BY <1>4, <2>1, <2>2, <3>1, BegunTyped
    <2>6. RunHoldsItsKeys'
      <3>1. \A v \in Versions : slot'[CREDENTIAL][v] # "ACTIVE"
        BY <2>4 DEF ActiveIs, Versions
      <3> QED BY <1>4, <2>5, <3>1 DEF RunHoldsItsKeys, At
    <2> QED
      BY <1>1, <1>3, <2>3, <2>4, <2>5, <2>6, SlotStep
  <1> QED
    BY <1>5, <1>6, <1>7

-----------------------------------------------------------------------------
(* The chain's slots.                                                      *)

\* The next epoch's key is activated with its first event.
LEMMA ChainAdvance ==
    ASSUME CustodyConstants, CustodyInvariant, chainEpoch # 0, ~degraded,
           NEW new \in Versions, new = chainEpoch + 1,
           activate_in_tx(CHAIN, chainEpoch, new), chainEpoch' = new,
           degraded' \/ (new \in material[CHAIN] /\ material'[CHAIN] = material[CHAIN]),
           \A p \in Slotted : p # CHAIN => material'[p] = material[p]
    PROVE  /\ slot' \in [Slotted -> [Versions -> SlotStates]]
           /\ ActiveIsStored' /\ ChainKeysFollowEpochs'
  <1> USE DEF CustodyInvariant
  <1>1. /\ slot[CHAIN][1] # "NONE" /\ 1..chainEpoch \subseteq material[CHAIN]
        /\ \A v \in Versions : slot[CHAIN][v] # "NONE" <=> v <= chainEpoch
        /\ ActiveIs(CHAIN, chainEpoch)
        /\ \A v \in Versions : slot[CHAIN][v] \in {"NONE", "ACTIVE", "RETIRED"}
    BY DEF ChainKeysFollowEpochs
  <1>2. /\ slot' \in [Slotted -> [Versions -> SlotStates]] /\ ActiveIs(CHAIN, new)'
        /\ \A q \in Slotted : q # CHAIN => slot'[q] = slot[q]
        /\ \A v \in Versions :
              slot'[CHAIN][v] = IF v = new THEN "ACTIVE"
                                ELSE IF v = chainEpoch THEN "RETIRED" ELSE slot[CHAIN][v]
    BY <1>1, Activated
  <1>3. ActiveIsStored'
    BY <1>2, OneSlot
  <1>4. /\ \A v \in Versions : (v <= new <=> v = new \/ v <= chainEpoch)
        /\ 1 \in Versions /\ chainEpoch \in Versions /\ 1..new = (1..chainEpoch) \cup {new}
        /\ new # 0 /\ chainEpoch <= chainEpoch
    BY DEF TypeOK, Versions, CustodyConstants
  <1>5. \A v \in Versions : slot'[CHAIN][v] # "NONE" <=> v <= new
    BY <1>1, <1>2, <1>4
  <1>6. ChainKeysFollowEpochs'
    <2>1. \A v \in Versions : slot'[CHAIN][v] \in {"NONE", "ACTIVE", "RETIRED"}
      BY <1>1, <1>2
    <2>2. slot'[CHAIN][1] # "NONE" /\ (~degraded' => 1..new \subseteq material'[CHAIN])
      BY <1>1, <1>2, <1>4
    <2> QED
      BY <1>2, <1>4, <1>5, <2>1, <2>2 DEF ChainKeysFollowEpochs
  <1> QED
    BY <1>2, <1>3, <1>6

\* The first key of a purpose is registered and active.
LEMMA BootstrapRegisterStep ==
    ASSUME CustodyConstants, CustodyInvariant, bootstrap_register
    PROVE  CustodyInvariant'
  <1> USE DEF CustodyInvariant, importVars
  <1>0. \A v \in Versions : v # 0
    BY DEF Versions
  <1>1. PICK p \in Provisioned, new \in Versions :
           /\ p = run.of /\ new = run.new /\ new \in material[p] /\ ActiveIs(p, 0) /\ chainEpoch = 0
           /\ activate_in_tx(p, 0, new)
    BY DEF bootstrap_register, RunHoldsItsKeys, TypeOK
  <1>2. /\ slot' \in [Slotted -> [Versions -> SlotStates]] /\ ActiveIs(p, new)'
        /\ \A q \in Slotted : q # p => slot'[q] = slot[q]
        /\ \A v \in Versions : slot'[p][v] = IF v = new THEN "ACTIVE"
                                             ELSE IF v = 0 THEN "RETIRED" ELSE slot[p][v]
    BY <1>1, Activated
  <1>3. UNCHANGED <<material, chainEpoch, degraded, clientVars, dbVars, importVars, lock, desk, crashes>>
    BY DEF bootstrap_register
  <1>4. ActiveIsStored'
    BY <1>1, <1>2, <1>3, OneSlot
  <1>5. ChainKeysFollowEpochs'
    <2>1. CASE p = CHAIN
      <3>1. \A v \in Versions : slot[CHAIN][v] = "NONE"
        BY <1>0, <1>1, <2>1 DEF ChainKeysFollowEpochs, ActiveIs
      <3>2. \A v \in Versions : slot'[CHAIN][v] = IF v = new THEN "ACTIVE" ELSE "NONE"
        BY <1>0, <1>2, <2>1, <3>1
      <3> QED BY <1>1, <1>3, <2>1, <3>2 DEF ChainKeysFollowEpochs
    <2>2. CASE p # CHAIN
      BY <1>2, <1>3, <2>2, ChainAside
    <2> QED
      BY <2>1, <2>2
  <1>6. run' \in Run /\ run'.op = "provision" /\ run'.at = "keys"
    <2>1. /\ "provision" \in Protocols /\ "keys" \in RunStages /\ "" \in Subjects /\ 0 \in 0..MaxVersion
      BY DEF Protocols, RunStages, Subjects, CustodyConstants
    <2> QED
      BY <2>1, BegunTyped DEF bootstrap_register
  <1>7. RunHoldsItsKeys'
    BY <1>6 DEF RunHoldsItsKeys, At
  <1> QED
    BY <1>2, <1>3, <1>4, <1>5, <1>6, <1>7, KeysStep DEF TypeOK

\* A rotation commits: the signer's old key is to be destroyed, the chain's stays.
LEMMA RotateCommitStep ==
    ASSUME CustodyConstants, CustodyInvariant, rotate_commit
    PROVE  CustodyInvariant'
  <1> USE DEF CustodyInvariant, importVars
  <1>1. PICK p \in Provisioned, new \in Versions, old \in 0..MaxVersion :
           /\ p = run.of /\ new = run.new /\ old = run.old /\ run.op = "rotate" /\ run.at = "commit"
           /\ new \in material[p] /\ ActiveIs(p, old) /\ slot[p][new] = "NONE"
           /\ activate_in_tx(p, old, new)
           /\ chainEpoch' = IF p = CHAIN THEN new ELSE chainEpoch
           /\ p = CHAIN => chainEpoch # 0 /\ ~degraded /\ old = chainEpoch /\ new = chainEpoch + 1
    BY DEF rotate_commit, At, RunHoldsItsKeys, TypeOK, Run
  <1>2. /\ slot' \in [Slotted -> [Versions -> SlotStates]] /\ ActiveIs(p, new)'
        /\ \A q \in Slotted : q # p => slot'[q] = slot[q]
        /\ \A v \in Versions : slot'[p][v] = IF v = new THEN "ACTIVE"
                                             ELSE IF v = old THEN "RETIRED" ELSE slot[p][v]
    BY <1>1, Activated
  <1>3. PICK ok \in BOOLEAN :
           /\ Anchored(ok)
           /\ run' = IF ok /\ run.of # CHAIN THEN [run EXCEPT !.at = "destroy"] ELSE noRun
    BY DEF rotate_commit
  <1>4. degraded' \in BOOLEAN /\ (degraded => degraded')
    BY <1>3, AnchorTyped DEF TypeOK
  <1>5. UNCHANGED <<material, clientVars, dbVars, importVars, lock, desk, crashes>>
    BY DEF rotate_commit
  <1>6. /\ run' \in Run /\ run'.op \in {"none", "rotate"}
        /\ \/ run' = noRun
           \/ /\ p # CHAIN /\ run'.op = "rotate" /\ run'.at = "destroy" /\ run'.of = p
              /\ run'.old = old
    <2>1. run' = noRun \/ (p # CHAIN /\ Go("destroy"))
      BY <1>1, <1>3 DEF Go
    <2> QED
      BY <1>1, <2>1, NoRunTyped, GoTyped DEF TypeOK, RunStages
  <1>7. RunHoldsItsKeys'
    <2>1. CASE run' = noRun
      BY <2>1, NoRunTyped, RunFrame
    <2>2. CASE run' # noRun
      <3>1. \A v \in Versions : slot'[p][v] = "ACTIVE" => v # old
        BY <1>1, <1>2 DEF ActiveIs
      <3> QED BY <1>6, <2>2, <3>1 DEF RunHoldsItsKeys, At
    <2> QED
      BY <2>1, <2>2
  <1>8. CASE p = CHAIN
    <2>1. ActiveIsStored' /\ ChainKeysFollowEpochs'
      BY <1>1, <1>5, <1>8, ChainAdvance
    <2>2. chainEpoch' \in 0..MaxVersion
      BY <1>1, <1>8 DEF Versions
    <2> QED
      BY <1>2, <1>4, <1>5, <1>6, <1>7, <2>1, <2>2, KeysStep DEF TypeOK
  <1>9. CASE p # CHAIN
    BY <1>1, <1>2, <1>4, <1>5, <1>6, <1>7, <1>9, SlotStep
  <1> QED
    BY <1>8, <1>9

\* An import commits: with its anchor, or with the latch and without its key.
LEMMA ImportStep ==
    ASSUME CustodyConstants, CustodyInvariant, import_tx \/ import_anchor_fails
    PROVE  CustodyInvariant'
  <1> USE DEF CustodyInvariant
  <1>1. import_commits /\ run' = noRun
        /\ UNCHANGED <<clientVars, dbVars, upload, staged, lock, desk, crashes>>
    BY DEF import_tx, import_anchor_fails, import_commits
  <1>2. PICK new \in Versions :
           /\ new = run.new /\ chainEpoch # 0 /\ ~degraded /\ new = chainEpoch + 1
           /\ new \in material[CHAIN] /\ activate_in_tx(CHAIN, chainEpoch, new)
           /\ chainEpoch' = new
    <2>1. /\ run.of = CHAIN /\ run.at = "commit"
          /\ activate_in_tx(CHAIN, run.old, run.new) /\ chainEpoch' = chainEpoch + 1
      BY <1>1 DEF import_commits, At, RunHoldsItsKeys
    <2> QED
      BY <2>1 DEF RunHoldsItsKeys, TypeOK
  <1>3. /\ degraded' \in BOOLEAN
        /\ degraded' \/ material'[CHAIN] = material[CHAIN]
        /\ material' \in [Slotted \cup {SEED, DBKEY} -> SUBSET Versions]
        /\ material'[SEED] = material[SEED] /\ material'[DBKEY] = material[DBKEY]
        /\ \A p \in Slotted : p # CHAIN => material'[p] = material[p]
    <2>1. CASE import_tx
      BY <2>1 DEF import_tx, TypeOK
    <2>2. CASE import_anchor_fails
      BY <2>2 DEF import_anchor_fails, Deleted, TypeOK
    <2> QED
      BY <2>1, <2>2
  <1>4. /\ slot' \in [Slotted -> [Versions -> SlotStates]]
        /\ ActiveIsStored' /\ ChainKeysFollowEpochs'
    BY <1>2, <1>3, ChainAdvance
  <1>5. directory' \in 0..MaxEdits /\ chainEpoch' \in 0..MaxVersion
    BY <1>1, <1>2 DEF import_commits, TypeOK, Versions, CustodyConstants
  <1>6. run' \in Run /\ run'.op = "none" /\ RunHoldsItsKeys'
    BY <1>1, NoRunTyped, RunFrame
  <1> QED
    BY <1>1, <1>3, <1>4, <1>5, <1>6, KeysStep

\* The genesis, which finds out a first key that is not version 1.
LEMMA GenesisStep ==
    ASSUME CustodyConstants, CustodyInvariant, genesis
    PROVE  CustodyInvariant'
  <1> USE DEF CustodyInvariant, importVars
  <1>1. /\ chainEpoch = 0 /\ chainEpoch' = 1 /\ run = noRun /\ run' = noRun
        /\ UNCHANGED <<material, slot, clientVars, dbVars, importVars, lock, desk, crashes>>
    BY DEF genesis, Serving
  <1>2. PICK ok \in BOOLEAN : Anchored(ok)
    BY DEF genesis
  <1>3. degraded' \in BOOLEAN /\ (degraded => degraded') /\ (~degraded' => HeadKeyLoads')
    BY <1>2, AnchorTyped DEF TypeOK
  <1>4. 1 \in Versions /\ 1 \in 0..MaxVersion /\ 1..1 = {1}
        /\ \A v \in Versions : v <= 1 <=> v = 1
    BY DEF Versions, CustodyConstants
  <1>5. ~degraded' => slot[CHAIN][1] # "NONE" /\ 1 \in material[CHAIN]
    BY <1>1, <1>3 DEF HeadKeyLoads, for_epoch, Loads, Registered
  <1>6. ActiveIsStored'
    BY <1>1, <1>3 DEF ActiveIsStored
  <1>7. ASSUME slot[CHAIN][1] # "NONE", NEW v \in Versions
        PROVE  /\ slot[CHAIN][v] # "NONE" <=> v = 1
               /\ slot[CHAIN][v] = "ACTIVE" <=> v = 1
    <2>1. \A w \in Versions : slot[CHAIN][w] # "NONE" => slot[CHAIN][w] = "ACTIVE"
      BY <1>1 DEF ChainKeysFollowEpochs
    <2>2. slot[CHAIN][v] = "ACTIVE" /\ slot[CHAIN][1] = "ACTIVE" => v = 1
      BY <1>4 DEF ActiveIsStored
    <2> QED
      BY <1>4, <1>7, <2>1, <2>2
  <1>8. ChainKeysFollowEpochs'
    <2>1. \A v \in Versions : slot'[CHAIN][v] \in {"NONE", "ACTIVE", "RETIRED"}
      BY <1>1 DEF ChainKeysFollowEpochs
    <2>2. slot'[CHAIN][1] # "NONE" =>
             /\ \A v \in Versions : slot'[CHAIN][v] # "NONE" <=> v <= chainEpoch'
             /\ ActiveIs(CHAIN, chainEpoch)'
      BY <1>1, <1>4, <1>7 DEF ActiveIs
    <2>3. ~degraded' => slot'[CHAIN][1] # "NONE" /\ 1..chainEpoch' \subseteq material'[CHAIN]
      BY <1>1, <1>4, <1>5
    <2> QED
      BY <1>1, <2>1, <2>2, <2>3 DEF ChainKeysFollowEpochs
  <1>9. run' \in Run /\ run'.op = "none" /\ RunHoldsItsKeys'
    BY <1>1, NoRunTyped, RunFrame
  <1> QED
    BY <1>1, <1>3, <1>4, <1>6, <1>8, <1>9, KeysStep DEF TypeOK

\* A repair finds every epoch's key, or clears nothing.
LEMMA RepairStep ==
    ASSUME CustodyConstants, CustodyInvariant, audit_repair
    PROVE  CustodyInvariant'
  <1> USE DEF CustodyInvariant, importVars
  <1>1. /\ \A n \in 1..chainEpoch : for_epoch(n)
        /\ run' = noRun /\ degraded' = FALSE
        /\ UNCHANGED <<material, slot, chainEpoch, clientVars, dbVars, importVars, lock, desk, crashes>>
    BY DEF audit_repair, Serving
  <1>2. \A n \in 1..chainEpoch : n \in material[CHAIN] /\ slot[CHAIN][n] # "NONE"
    BY <1>1 DEF for_epoch, Loads, Registered
  <1>3. chainEpoch # 0 => /\ 1 \in 1..chainEpoch /\ chainEpoch \in 1..chainEpoch
                          /\ chainEpoch \in Versions
    BY DEF TypeOK, Versions, CustodyConstants
  <1>4. ActiveIsStored'
    <2>1. \A v \in Versions : slot[CHAIN][v] = "ACTIVE" => v \in material[CHAIN]
      BY <1>2, <1>3 DEF ChainKeysFollowEpochs, ActiveIs
    <2> QED
      BY <1>1, <2>1 DEF ActiveIsStored
  <1>5. ChainKeysFollowEpochs'
    BY <1>1, <1>2, <1>3 DEF ChainKeysFollowEpochs, ActiveIs
  <1>6. run' \in Run /\ run'.op = "none" /\ RunHoldsItsKeys'
    BY <1>1, NoRunTyped, RunFrame
  <1> QED
    BY <1>1, <1>4, <1>5, <1>6, KeysStep DEF TypeOK

-----------------------------------------------------------------------------
(* The theorem.                                                            *)

\* Starts, stops, crashes and the directory change no key.
LEMMA NeutralStep ==
    ASSUME CustodyConstants, CustodyInvariant,
           provision_done \/ start \/ stop \/ edit_directory \/ push \/ stage_import \/ crash
           \/ UNCHANGED vars
    PROVE  CustodyInvariant'
  <1> USE DEF CustodyInvariant, keyVars, clientVars, dbVars, importVars
  <1>1. UNCHANGED <<material, slot, seeds, helper, chainEpoch, degraded, dbKey, desk>>
        /\ run' \in {run, noRun}
    BY DEF provision_done, start, stop, edit_directory, push, stage_import, crash, vars
  <1>2. directory' \in 0..MaxEdits /\ upload' \in 0..Chunks /\ staged' \in -1..MaxEdits
        /\ crashes' \in 0..MaxCrashes
    BY DEF provision_done, start, stop, edit_directory, push, stage_import, crash, vars, TypeOK,
           CustodyConstants
  <1>3. pointer' \in 0..MaxVersion
    <2>1. CASE start
      <3>1. pointer' \in material[DBKEY]
        BY <2>1 DEF start, open_with_recovery, Openable
      <3> QED BY <3>1 DEF TypeOK, Versions
    <2>2. CASE ~start
      BY <2>2 DEF provision_done, stop, edit_directory, push, stage_import, crash, vars, TypeOK
    <2> QED
      BY <2>1, <2>2
  <1>4. lock' \in {"free", "daemon", "local"} /\ run' \in Run
    BY <1>1, NoRunTyped DEF provision_done, start, stop, edit_directory, push, stage_import, crash,
                          vars, TypeOK
  <1>5. TypeOK'
    BY <1>1, <1>2, <1>3, <1>4 DEF TypeOK
  <1> QED
    BY <1>1, <1>5, Elsewhere

\* Nothing is stored at first.
LEMMA InitSound ==
    ASSUME CustodyConstants, Init
    PROVE  CustodyInvariant
  <1>1. 0 \in 0..MaxVersion /\ 0 \in 0..MaxEdits /\ -1 \in -1..MaxEdits /\ 0 \in 0..Chunks
        /\ 0 \in 0..MaxCrashes
    BY DEF CustodyConstants
  <1>2. TypeOK
    BY <1>1, NoRunTyped DEF Init, TypeOK, SlotStates
  <1>3. run.op = "none" /\ run.at = ""
    BY NoRunTyped DEF Init
  <1>4. DbKeyIsStored /\ SeedsAreStored
    BY <1>3 DEF Init, DbKeyIsStored, SeedsAreStored
  <1>5. ActiveIsStored /\ ChainKeysFollowEpochs
    BY DEF Init, ActiveIsStored, ChainKeysFollowEpochs
  <1>6. RunHoldsItsKeys
    BY <1>3 DEF RunHoldsItsKeys, At
  <1> QED
    BY <1>2, <1>4, <1>5, <1>6 DEF CustodyInvariant

\* Every step keeps the invariant.
LEMMA StepSound ==
    ASSUME CustodyConstants, CustodyInvariant, [Next]_vars
    PROVE  CustodyInvariant'
  <1>1. CASE Provisioning
    BY <1>1, ProvisionDbStep, BootstrapWriteStep, BootstrapRegisterStep, NeutralStep
       DEF Provisioning
  <1>2. CASE Rekeying \/ Enrolling
    BY <1>2, RekeyStep, ClientStep
  <1>3. CASE Rotating
    BY <1>3, RotateStep, RotateCommitStep, DestroyStep, MarkStep DEF Rotating
  <1>4. CASE Crediting
    BY <1>4, RotateCredentialStep, WithdrawnStep, CredentialStep, MarkStep DEF Crediting
  <1>5. CASE Importing
    BY <1>5, NeutralStep, RotateStep, ImportStep, WithdrawnStep DEF Importing
  <1>6. CASE genesis \/ audit_repair
    BY <1>6, GenesisStep, RepairStep
  <1>7. CASE start \/ stop \/ crash \/ UNCHANGED vars
    BY <1>7, NeutralStep
  <1> QED
    BY <1>1, <1>2, <1>3, <1>4, <1>5, <1>6, <1>7 DEF Next

\* The invariant says that what is needed can be used.
LEMMA InvariantUsable ==
    ASSUME CustodyConstants, CustodyInvariant
    PROVE  KeysStayUsable
  <1> USE DEF CustodyInvariant
  <1>1. dbKey # 0 => Openable
    BY DEF DbKeyIsStored, Openable, Opens
  <1>2. \A c \in Clients : seeds[c] # 0 => seeds[c] \in material[SEED]
    BY DEF SeedsAreStored
  <1>3. \A p \in Slotted : active_version(p) \in material[p] \cup {0} \/ (p = CHAIN /\ degraded)
    BY ActiveVersion DEF ActiveIsStored
  <1>4. \A n \in 1..chainEpoch : for_epoch(n) \/ degraded
    <2> SUFFICES ASSUME NEW n \in 1..chainEpoch, ~degraded
                 PROVE  for_epoch(n)
      OBVIOUS
    <2>1. n \in Versions /\ n <= chainEpoch /\ chainEpoch # 0
      BY DEF TypeOK, Versions, CustodyConstants
    <2>2. n \in material[CHAIN] /\ slot[CHAIN][n] # "NONE" /\ slot[CHAIN][n] # "DESTROYED"
      BY <2>1 DEF ChainKeysFollowEpochs
    <2> QED
      BY <2>1, <2>2 DEF for_epoch, Loads, Registered
  <1> QED
    BY <1>1, <1>2, <1>3, <1>4 DEF KeysStayUsable

\* The inductive invariant of keys, seeds, slots and the protocols on them, in
\* every reachable state.
THEOREM CustodyInductive ==
    ASSUME CustodyConstants
    PROVE  Spec => []CustodyInvariant
  <1>1. Init => CustodyInvariant
    BY InitSound
  <1>2. CustodyInvariant /\ [Next]_vars => CustodyInvariant'
    BY StepSound
  <1> QED
    BY <1>1, <1>2, PTL DEF Spec

\* No crash loses a key that something still needs, for any clients, versions and
\* crashes (rekey, rotate, rotate_credential, rotate_client, commit_import).
THEOREM KeysSurvive ==
    ASSUME CustodyConstants
    PROVE  Spec => []KeysStayUsable
  <1>1. CustodyInvariant => KeysStayUsable
    BY InvariantUsable
  <1> QED
    BY <1>1, CustodyInductive, PTL
=============================================================================
