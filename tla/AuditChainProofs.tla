-------------------------- MODULE AuditChainProofs --------------------------
(***************************************************************************)
(* Proofs about AuditChain, for any number of events, epochs and crashes:  *)
(* its inductive invariant, that what retention leaves of the chain        *)
(* verifies, that a stale anchor holds new writes, that the anchor only    *)
(* advances, and that a resumed cutover binds one seal once.               *)
(***************************************************************************)
EXTENDS AuditChain, SequenceTheorems, TLAPS

\* The phases from which the cutover's two milestones have been reached.
LEMMA Milestones ==
    ASSUME NEW q
    PROVE  /\ NotAfter("COMMS_GENESIS", q) <=>
                q \in {"COMMS_GENESIS", "COMMS_ANCHORED", "LEGACY_CLIENT_AUTH_REVOKED",
                       "COMPLETE"}
           /\ NotAfter("COMMS_ANCHORED", q) <=>
                q \in {"COMMS_ANCHORED", "LEGACY_CLIENT_AUTH_REVOKED", "COMPLETE"}
  <1>1. DOMAIN Phases = 1..10
    BY DEF Phases
  <1>2. /\ Phases[1] = "NONE" /\ Phases[2] = "CUTOVER_ENTERED" /\ Phases[3] = "LEGACY_DRAINED"
        /\ Phases[4] = "LEGACY_VERIFIED" /\ Phases[5] = "LEGACY_SEALED"
        /\ Phases[6] = "LEGACY_ANCHORED" /\ Phases[7] = "COMMS_GENESIS"
        /\ Phases[8] = "COMMS_ANCHORED" /\ Phases[9] = "LEGACY_CLIENT_AUTH_REVOKED"
        /\ Phases[10] = "COMPLETE"
    BY DEF Phases
  <1>3. \A i \in 1..10 : i = 1 \/ i = 2 \/ i = 3 \/ i = 4 \/ i = 5 \/ i = 6 \/ i = 7 \/ i = 8
                         \/ i = 9 \/ i = 10
    OBVIOUS
  <1>4. \A i \in 1..10 : (Phases[i] = "COMMS_GENESIS" => i = 7)
                         /\ (Phases[i] = "COMMS_ANCHORED" => i = 8)
    BY <1>2, <1>3
  <1>5. \A j \in 1..10 : 7 <= j => Phases[j] \in {"COMMS_GENESIS", "COMMS_ANCHORED",
                                        "LEGACY_CLIENT_AUTH_REVOKED", "COMPLETE"}
    BY <1>2, <1>3
  <1>6. \A j \in 1..10 : 8 <= j => Phases[j] \in {"COMMS_ANCHORED",
                                        "LEGACY_CLIENT_AUTH_REVOKED", "COMPLETE"}
    BY <1>2, <1>3
  <1>7. 7 \in 1..10 /\ 8 \in 1..10 /\ 9 \in 1..10 /\ 10 \in 1..10
        /\ 7 <= 7 /\ 7 <= 8 /\ 7 <= 9 /\ 7 <= 10 /\ 8 <= 8 /\ 8 <= 9 /\ 8 <= 10
    OBVIOUS
  <1>8. NotAfter("COMMS_GENESIS", q) <=>
           q \in {"COMMS_GENESIS", "COMMS_ANCHORED", "LEGACY_CLIENT_AUTH_REVOKED", "COMPLETE"}
    BY <1>1, <1>2, <1>4, <1>5, <1>7 DEF NotAfter
  <1>9. NotAfter("COMMS_ANCHORED", q) <=>
           q \in {"COMMS_ANCHORED", "LEGACY_CLIENT_AUTH_REVOKED", "COMPLETE"}
    BY <1>1, <1>2, <1>4, <1>6, <1>7 DEF NotAfter
  <1> QED BY <1>8, <1>9

\* A named phase is a phase.
LEMMA PhaseNames ==
    ASSUME NEW q \in {"NONE", "CUTOVER_ENTERED", "LEGACY_DRAINED", "LEGACY_VERIFIED",
                      "LEGACY_SEALED", "LEGACY_ANCHORED", "COMMS_GENESIS", "COMMS_ANCHORED",
                      "LEGACY_CLIENT_AUTH_REVOKED", "COMPLETE"}
    PROVE  \E i \in DOMAIN Phases : q = Phases[i]
  <1>1. DOMAIN Phases = 1..10
    BY DEF Phases
  <1>2. /\ Phases[1] = "NONE" /\ Phases[2] = "CUTOVER_ENTERED" /\ Phases[3] = "LEGACY_DRAINED"
        /\ Phases[4] = "LEGACY_VERIFIED" /\ Phases[5] = "LEGACY_SEALED"
        /\ Phases[6] = "LEGACY_ANCHORED" /\ Phases[7] = "COMMS_GENESIS"
        /\ Phases[8] = "COMMS_ANCHORED" /\ Phases[9] = "LEGACY_CLIENT_AUTH_REVOKED"
        /\ Phases[10] = "COMPLETE"
    BY DEF Phases
  <1>3. 1 \in 1..10 /\ 2 \in 1..10 /\ 3 \in 1..10 /\ 4 \in 1..10 /\ 5 \in 1..10
        /\ 6 \in 1..10 /\ 7 \in 1..10 /\ 8 \in 1..10 /\ 9 \in 1..10 /\ 10 \in 1..10
    OBVIOUS
  <1> QED
    BY <1>1, <1>2, <1>3

\* The head of a chain that has begun is its last event.
LEMMA HeadIsLast ==
    ASSUME TypeOK, chain # <<>>
    PROVE  /\ chain \in Seq(Event) /\ Len(chain) \in Nat \ {0}
           /\ DOMAIN chain = 1..Len(chain) /\ Len(chain) \in DOMAIN chain
           /\ 1 \in DOMAIN chain
           /\ head = chain[Len(chain)] /\ head \in Event /\ head # NoEvent
  <1>1. chain \in Seq(Event) /\ Len(chain) \in Nat \ {0} /\ DOMAIN chain = 1..Len(chain)
    BY DEF TypeOK
  <1>2. Len(chain) \in DOMAIN chain /\ 1 \in DOMAIN chain
    BY <1>1
  <1>3. head = chain[Len(chain)]
    BY DEF head
  <1>4. head \in Event
    BY <1>1, <1>2, <1>3
  <1> QED
    BY <1>1, <1>2, <1>3, <1>4, AuditChainAssumption

\* The epochs of a chain never fall.
LEMMA EpochsRise ==
    ASSUME TypeOK, ChainIsLinked, NEW i \in DOMAIN chain, NEW j \in DOMAIN chain, i <= j
    PROVE  chain[i].epoch <= chain[j].epoch
  <1>1. chain \in Seq(Event) /\ i \in Nat /\ j \in Nat
    BY DEF TypeOK
  <1>2. chain[i] \in Event /\ chain[j] \in Event
    BY <1>1
  <1>3. chain[i].epoch \in Nat /\ chain[j].epoch \in Nat
    BY <1>2, AuditChainAssumption DEF Event, Versions
  <1>4. i < j => Before(chain[i], chain[j])
    BY DEF ChainIsLinked
  <1> QED
    BY <1>1, <1>3, <1>4 DEF Before

\* The active key is the one the invariant names.
LEMMA ActiveIs ==
    ASSUME TypeOK, NEW a \in Versions, slots[a] = "ACTIVE",
           \A v \in Versions : /\ v < a => slots[v] \in {"RETIRED", "DESTROYED"}
                               /\ v > a => slots[v] = "none"
    PROVE  active = a
  <1>1. \A v \in Versions : slots[v] = "ACTIVE" => v = a
    BY AuditChainAssumption DEF Versions
  <1> QED
    BY <1>1 DEF active

\* The event a transaction appends continues the chain.
LEMMA AppendContinues ==
    ASSUME AuditInvariant, NEW e \in Event, e.id = minted, minted' = minted + 1,
           chain' = Append(chain, e), base' = base,
           IF chain = <<>> THEN e.epoch = 1 /\ e.seq = 1
           ELSE \/ e.epoch = head.epoch /\ e.seq = head.seq + 1
                \/ e.epoch = head.epoch + 1 /\ e.seq = 1
    PROVE  /\ ChainIsLinked' /\ RootIsSealed'
           /\ chain' \in Seq(Event) /\ chain' # <<>> /\ base' \in 0..Len(chain')
           /\ head' = e
           /\ DOMAIN chain \subseteq DOMAIN chain'
           /\ \A i \in DOMAIN chain : chain'[i] = chain[i]
           /\ \A i \in DOMAIN chain' : i \in DOMAIN chain \/ (chain'[i] = e /\ i = Len(chain) + 1)
           /\ chain # <<>> => chain'[base + 1] = chain[base + 1]
           /\ chain = <<>> => chain'[base + 1] = e
  <1> USE DEF AuditInvariant
  <1>1. chain \in Seq(Event) /\ minted \in Nat /\ base \in Nat
    BY DEF TypeOK
  <1>2. PICK n \in Nat : n = Len(chain)
    BY <1>1
  <1>3. PICK c : c = chain'
    OBVIOUS
  <1>4. /\ c \in Seq(Event) /\ Len(c) = n + 1 /\ c # <<>>
        /\ \A i \in 1..n : c[i] = chain[i]
        /\ c[n + 1] = e
    BY <1>1, <1>2, <1>3, AppendProperties
  <1>5. /\ DOMAIN chain = 1..n /\ DOMAIN c = 1..(n + 1) /\ n + 1 \in DOMAIN c
        /\ \A i \in DOMAIN c : i \in DOMAIN chain \/ i = n + 1
        /\ \A i \in DOMAIN chain : i \in DOMAIN c /\ c[i] = chain[i] /\ i < n + 1
        /\ chain = <<>> <=> n = 0
    BY <1>1, <1>2, <1>4
  <1>6. \A i \in DOMAIN chain : chain[i] \in Event
    BY <1>1
  <1>7. \A x \in Event : x.epoch \in Nat /\ x.seq \in Nat /\ x.id \in Nat
    BY AuditChainAssumption DEF Event, Versions
  <1>8. n # 0 => n \in DOMAIN chain /\ head = chain[n] /\ c[n] = head /\ head \in Event
    BY <1>2, <1>5, <1>6, <1>4 DEF head
  <1>9. c # <<>> => c[1].epoch = 1 /\ c[1].seq = 1
    <2>1. CASE n = 0
      BY <1>4, <1>5, <2>1
    <2>2. CASE n # 0
      BY <1>4, <1>5, <1>2, <2>2 DEF ChainIsLinked
    <2> QED BY <2>1, <2>2
  <1>10. ASSUME NEW i \in DOMAIN c, i + 1 \in DOMAIN c
         PROVE  \/ c[i + 1].epoch = c[i].epoch /\ c[i + 1].seq = c[i].seq + 1
                \/ c[i + 1].epoch = c[i].epoch + 1 /\ c[i + 1].seq = 1
    <2>1. i \in Nat /\ i \in DOMAIN chain
      BY <1>2, <1>5, <1>10
    <2>2. CASE i + 1 \in DOMAIN chain
      BY <1>5, <2>1, <2>2 DEF ChainIsLinked
    <2>3. CASE i + 1 \notin DOMAIN chain
      <3>1. i = n /\ n # 0
        BY <1>2, <1>5, <1>10, <2>1, <2>3
      <3> QED BY <1>4, <1>5, <1>8, <3>1
    <2> QED BY <2>2, <2>3
  <1>11. ASSUME NEW i \in DOMAIN chain
         PROVE  Before(c[i], e) /\ c[i].id # e.id /\ c[i].id < minted + 1
    <2>1. c[i] = chain[i] /\ chain[i] \in Event /\ n # 0
      BY <1>2, <1>5, <1>6
    <2>2. PICK x \in Event : x = chain[i]
      BY <2>1
    <2>3. PICK h \in Event : h = head
      BY <1>8, <2>1
    <2>4. x.id < minted
      BY <2>2 DEF ChainIsLinked
    <2>5. Before(h, e)
      BY <1>5, <1>7, <2>1, <2>3 DEF Before
    <2>6. i # n => Before(x, h)
      BY <1>2, <1>5, <1>8, <2>1, <2>2, <2>3 DEF ChainIsLinked
    <2>7. i = n => x = h
      BY <1>8, <2>1, <2>2, <2>3
    <2>8. Before(x, e)
      <3>1. CASE i = n
        BY <2>5, <2>7, <3>1
      <3>2. CASE i # n
        BY <1>7, <2>2, <2>3, <2>5, <2>6, <3>2, SMTT(60) DEF Before
      <3> QED BY <3>1, <3>2
    <2> QED BY <1>1, <1>7, <2>1, <2>2, <2>4, <2>8
  <1>12. \A i, j \in DOMAIN c : i < j => Before(c[i], c[j]) /\ c[i].id # c[j].id
    <2> SUFFICES ASSUME NEW i \in DOMAIN c, NEW j \in DOMAIN c, i < j
                 PROVE  Before(c[i], c[j]) /\ c[i].id # c[j].id
      OBVIOUS
    <2>1. i \in DOMAIN chain
      BY <1>2, <1>5
    <2>2. CASE j \in DOMAIN chain
      BY <1>5, <2>1, <2>2 DEF ChainIsLinked
    <2>3. CASE j = n + 1
      BY <1>4, <1>11, <2>1, <2>3
    <2> QED BY <1>5, <2>2, <2>3
  <1>13. \A i \in DOMAIN c : c[i].id < minted + 1
    <2>1. e.id < minted + 1
      BY <1>1
    <2> QED BY <1>4, <1>5, <1>11, <2>1
  <1>14. ChainIsLinked'
    BY <1>3, <1>9, <1>10, <1>12, <1>13, SMTT(60) DEF ChainIsLinked, Before
  <1>15. base \in 0..Len(c) /\ base < Len(c) /\ (chain # <<>> => base + 1 \in DOMAIN chain)
         /\ (chain = <<>> => base = 0)
    BY <1>1, <1>2, <1>4, <1>5 DEF RootIsSealed
  <1>16. RootIsSealed'
    <2>1. base > 0 => /\ base + 1 < Len(c) /\ c[base + 2].epoch > c[base + 1].epoch
      <3>1. base > 0 => base + 1 \in DOMAIN chain /\ base + 2 \in DOMAIN chain
                        /\ chain[base + 1 + 1].epoch > chain[base + 1].epoch
                        /\ base + 1 + 1 = base + 2
        BY <1>1, <1>2, <1>5, <1>15 DEF RootIsSealed, Sealed
      <3> QED BY <1>1, <1>2, <1>4, <1>5, <3>1
    <2>2. base + 1 + 1 = base + 2
      BY <1>1
    <2> QED BY <1>3, <1>4, <1>15, <2>1, <2>2 DEF RootIsSealed, Sealed
  <1>17. head' = e
    BY <1>3, <1>4 DEF head
  <1>18. /\ chain # <<>> => c[base + 1] = chain[base + 1]
         /\ chain = <<>> => c[base + 1] = e
    BY <1>4, <1>5, <1>15
  <1>19. \A i \in DOMAIN c : i \in DOMAIN chain \/ (c[i] = e /\ i = Len(chain) + 1)
    BY <1>2, <1>4, <1>5
  <1>20. chain' \in Seq(Event) /\ chain' # <<>> /\ base' \in 0..Len(chain')
    BY <1>3, <1>4, <1>15
  <1>21. DOMAIN chain \subseteq DOMAIN c
    BY <1>5
  <1>22. \A i \in DOMAIN chain : c[i] = chain[i]
    BY <1>5
  <1> HIDE DEF AuditInvariant
  <1> QED
    BY <1>3, <1>14, <1>16, <1>17, <1>18, <1>19, <1>20, <1>21, <1>22

\* Steps that leave the chain alone.
LEMMA ChainFrame ==
    ASSUME AuditInvariant, UNCHANGED <<chain, base>>, minted' \in Nat, minted <= minted'
    PROVE  ChainIsLinked' /\ RootIsSealed' /\ head' = head
  <1> USE DEF AuditInvariant
  <1>0. minted \in Nat /\ \A i \in DOMAIN chain : chain[i] \in Event
    BY DEF TypeOK
  <1>1. minted \in Nat /\ \A i \in DOMAIN chain : chain[i].id \in Nat
    BY <1>0 DEF Event
  <1>3. PICK m \in Nat : m = minted'
    OBVIOUS
  <1>4. \A i \in DOMAIN chain : chain[i].id < m
    BY <1>1, <1>3 DEF ChainIsLinked
  <1>2. ChainIsLinked'
    BY <1>3, <1>4 DEF ChainIsLinked, Before
  <1> QED
    BY <1>2 DEF RootIsSealed, Sealed, head

\* Steps that leave the chain and the keys alone, but for files no key needs.
LEMMA KeysFrame ==
    ASSUME AuditInvariant, UNCHANGED <<chain, base, slots, files>>, doomed' \subseteq doomed,
           op' = "activate" => op = "activate"
    PROVE  KeysMatchChain'
  <1>1. head' = head
    BY DEF head
  <1> QED
    BY <1>1 DEF AuditInvariant, KeysMatchChain

\* An append leaves the anchor where it is, naming an event of the chain.
LEMMA OwedAnchor ==
    ASSUME AuditInvariant, NEW e, e.id = minted, minted' = minted + 1,
           DOMAIN chain \subseteq DOMAIN chain',
           \A i \in DOMAIN chain : chain'[i] = chain[i],
           \A i \in DOMAIN chain' : i \in DOMAIN chain \/ (chain'[i] = e /\ i = Len(chain) + 1),
           op' \in Owing, UNCHANGED <<anchor, lost>>
    PROVE  AnchorIsSound'
  <1> USE DEF AuditInvariant
  <1>1. minted \in Nat
    BY DEF TypeOK
  <1>2. PICK c : c = chain'
    OBVIOUS
  <1>3. ASSUME anchor # NoEvent
        PROVE  /\ anchor.id < minted + 1
               /\ \A i \in DOMAIN c : c[i].id = anchor.id => c[i] = anchor
               /\ lost \/ \E i \in DOMAIN c : c[i] = anchor
    <2>1. anchor \in Event /\ anchor.id \in Nat
      BY <1>3 DEF TypeOK, Event
    <2>2. anchor.id < minted
      BY <1>3 DEF AnchorIsSound
    <2>3. \A i \in DOMAIN c : c[i].id = anchor.id => c[i] = anchor
      BY <1>1, <1>2, <1>3, <2>1, <2>2 DEF AnchorIsSound
    <2>4. lost \/ \E i \in DOMAIN c : c[i] = anchor
      BY <1>2, <1>3 DEF AnchorIsSound
    <2> QED BY <1>1, <2>1, <2>2, <2>3, <2>4
  <1>4. op' \notin {"clear", "set_anchored"}
    BY DEF Owing
  <1> QED
    BY <1>2, <1>3, <1>4 DEF AnchorIsSound

\* An event that is not a genesis leaves the lineage sound.
LEMMA LineageAppend ==
    ASSUME AuditInvariant, chain' # <<>>, UNCHANGED <<lineage, digest, anchor, legacy>>,
           \A i \in DOMAIN chain' :
                 \/ i \in DOMAIN chain /\ chain'[i] = chain[i]
                 \/ i = Len(chain) + 1 /\ chain'[i].genesis = FALSE,
           Reached("COMMS_GENESIS")' = Reached("COMMS_GENESIS"),
           Reached("COMMS_ANCHORED")' = Reached("COMMS_ANCHORED")
    PROVE  LineageIsSound'
  <1> USE DEF AuditInvariant
  <1>1. PICK c : c = chain'
    OBVIOUS
  <1>2. PICK n \in Nat : n = Len(chain) /\ (n = 0 <=> chain = <<>>)
    BY DEF TypeOK
  <1>3. ASSUME NEW i \in DOMAIN c
        PROVE  c[i].genesis = (i = 1 /\ lineage # 0)
    <2>1. CASE i \in DOMAIN chain /\ c[i] = chain[i]
      BY <2>1 DEF LineageIsSound
    <2>2. CASE i = n + 1 /\ c[i].genesis = FALSE
      <3>1. i = 1 => lineage = 0
        BY <1>2, <2>2 DEF LineageIsSound
      <3> QED BY <2>2, <3>1
    <2> QED BY <1>1, <1>2, <1>3, <2>1, <2>2
  <1> QED BY <1>1, <1>3 DEF LineageIsSound

\* A transaction extends the chain in its epoch, under the key that is active, and owes the
\* anchor.
LEMMA TransactionStep ==
    ASSUME AuditInvariant, NEW g \in BOOLEAN, NEW next \in {"append", "genesis", "repair"},
           transaction(g, next), UNCHANGED <<base, keys, anchor, lost>>
    PROVE  /\ ChainIsLinked' /\ RootIsSealed' /\ KeysMatchChain' /\ AnchorIsSound'
           /\ chain' \in Seq(Event) /\ chain' # <<>> /\ base' \in 0..Len(chain')
           /\ minted' \in Nat /\ op' \in Ops
           /\ \A i \in DOMAIN chain' :
                 \/ i \in DOMAIN chain /\ chain'[i] = chain[i]
                 \/ i = Len(chain) + 1 /\ chain'[i].genesis = g
  <1> USE DEF AuditInvariant
  <1>1. minted \in Nat /\ minted' = minted + 1 /\ op' = next /\ chain \in Seq(Event)
    BY DEF TypeOK, transaction
  <1>2. PICK e : e = IF chain = <<>>
                     THEN [epoch |-> 1, seq |-> 1, id |-> minted, genesis |-> g]
                     ELSE [epoch |-> head.epoch, seq |-> head.seq + 1, id |-> minted,
                           genesis |-> g]
    OBVIOUS
  <1>3. chain # <<>> => head \in Event
    BY HeadIsLast
  <1>4. 1 \in Versions
    BY AuditChainAssumption DEF Versions
  <1>5. e \in Event
    <2>1. CASE chain = <<>>
      BY <1>1, <1>2, <1>4, <2>1 DEF Event
    <2>2. CASE chain # <<>>
      <3>1. head.epoch \in Versions /\ head.seq + 1 \in Nat \ {0}
        BY <1>3, <2>2 DEF Event
      <3> QED BY <1>1, <1>2, <2>2, <3>1 DEF Event
    <2> QED BY <2>1, <2>2
  <1>6. /\ e.id = minted /\ e.genesis = g
        /\ chain = <<>> => e.epoch = 1 /\ e.seq = 1
        /\ chain # <<>> => e.epoch = head.epoch /\ e.seq = head.seq + 1
    BY <1>2
  <1>7. chain' = Append(chain, e)
    BY <1>2 DEF transaction, append_event
  <1>8. /\ ChainIsLinked' /\ RootIsSealed'
        /\ chain' \in Seq(Event) /\ chain' # <<>> /\ base' \in 0..Len(chain')
        /\ head' = e
        /\ DOMAIN chain \subseteq DOMAIN chain'
        /\ \A i \in DOMAIN chain : chain'[i] = chain[i]
        /\ \A i \in DOMAIN chain' : i \in DOMAIN chain \/ (chain'[i] = e /\ i = Len(chain) + 1)
        /\ chain # <<>> => chain'[base + 1] = chain[base + 1]
        /\ chain = <<>> => chain'[base + 1] = e
    <2> HIDE DEF AuditInvariant
    <2> QED BY <1>1, <1>5, <1>6, <1>7, AppendContinues
  <1>9. PICK c : c = chain'
    OBVIOUS
  <1>10. KeysMatchChain'
    <2>1. PICK a \in Versions :
          /\ slots[a] = "ACTIVE"
          /\ \A v \in Versions : /\ v < a => slots[v] \in {"RETIRED", "DESTROYED"}
                                 /\ v > a => slots[v] = "none"
          /\ IF chain = <<>> THEN a = 1 ELSE head.epoch = a
      BY DEF KeysMatchChain
    <2>2. head'.epoch = a
      BY <1>6, <1>8, <2>1
    <2>3. op' # "activate"
      BY <1>1
    <2>4. \A v \in Versions : slots[v] = "DESTROYED" => chain'[base + 1] = chain[base + 1]
      BY <1>8 DEF KeysMatchChain
    <2> QED
      BY <1>8, <2>1, <2>2, <2>3, <2>4 DEF KeysMatchChain, keys
  <1>11. AnchorIsSound'
    <2>1. op' \in Owing
      BY <1>1 DEF Owing
    <2> HIDE DEF AuditInvariant
    <2> QED BY <1>1, <1>6, <1>8, <2>1, OwedAnchor
  <1>12. minted' \in Nat /\ op' \in Ops
    BY <1>1 DEF Ops, Owing
  <1>13. \A i \in DOMAIN c :
                 \/ i \in DOMAIN chain /\ c[i] = chain[i]
                 \/ i = Len(chain) + 1 /\ c[i].genesis = g
    BY <1>6, <1>8, <1>9
  <1> HIDE DEF AuditInvariant
  <1> QED
    BY <1>8, <1>9, <1>10, <1>11, <1>12, <1>13

\* An audited write outside the cutover.
LEMMA AppendingStep ==
    ASSUME AuditInvariant, up, NEW next \in {"append", "repair"}, Appending(next)
    PROVE  AuditInvariant'
  <1> USE DEF AuditInvariant
  <1>1. transaction(FALSE, next) /\ UNCHANGED <<base, keys, anchor, lost>>
    BY DEF Appending
  <1>2. /\ ChainIsLinked' /\ RootIsSealed' /\ KeysMatchChain' /\ AnchorIsSound'
        /\ chain' \in Seq(Event) /\ chain' # <<>> /\ base' \in 0..Len(chain')
        /\ minted' \in Nat /\ op' \in Ops
        /\ \A i \in DOMAIN chain' :
                 \/ i \in DOMAIN chain /\ chain'[i] = chain[i]
                 \/ i = Len(chain) + 1 /\ chain'[i].genesis = FALSE
    <2> HIDE DEF AuditInvariant
    <2>1. FALSE \in BOOLEAN /\ next \in {"append", "genesis", "repair"}
      OBVIOUS
    <2> QED BY <1>1, <2>1, TransactionStep
  <1>3. op' = next
    BY <1>1 DEF transaction
  <1>4. TypeOK'
    <2>1. extra' \in Nat
      BY DEF TypeOK, Appending
    <2> QED BY <1>2, <2>1 DEF TypeOK, Appending, keys
  <1>5. OperationIsSound'
    BY <1>2, <1>3 DEF OperationIsSound, Appending
  <1>6. LineageIsSound'
    <2>1. UNCHANGED <<lineage, phase, digest, anchor, legacy>>
      BY DEF Appending
    <2>2. Reached("COMMS_GENESIS")' = Reached("COMMS_GENESIS")
      BY <2>1 DEF Reached
    <2>3. Reached("COMMS_ANCHORED")' = Reached("COMMS_ANCHORED")
      BY <2>1 DEF Reached
    <2> HIDE DEF AuditInvariant
    <2> QED BY <1>2, <2>1, <2>2, <2>3, LineageAppend
  <1> QED BY <1>2, <1>4, <1>5, <1>6

\* The genesis of the comms chain: the lineage row, the genesis event and the phase together.
LEMMA GenesisStep ==
    ASSUME AuditInvariant, comms_genesis
    PROVE  AuditInvariant'
  <1> USE DEF AuditInvariant
  <1>1. transaction(TRUE, "genesis") /\ UNCHANGED <<base, keys, anchor, lost>>
    BY DEF comms_genesis
  <1>2. /\ ChainIsLinked' /\ RootIsSealed' /\ KeysMatchChain' /\ AnchorIsSound'
        /\ chain' \in Seq(Event) /\ chain' # <<>> /\ base' \in 0..Len(chain')
        /\ minted' \in Nat /\ op' \in Ops
        /\ \A i \in DOMAIN chain' :
                 \/ i \in DOMAIN chain /\ chain'[i] = chain[i]
                 \/ i = Len(chain) + 1 /\ chain'[i].genesis = TRUE
    <2> HIDE DEF AuditInvariant
    <2>1. TRUE \in BOOLEAN /\ "genesis" \in {"append", "genesis", "repair"}
      OBVIOUS
    <2> QED BY <1>1, <2>1, TransactionStep
  <1>3. op' = "genesis" /\ phase' = "COMMS_GENESIS" /\ phase = "LEGACY_ANCHORED" /\ up
        /\ lineage' = digest /\ legacy.seal # 0 /\ legacy.seal = digest
    BY <1>1 DEF transaction, comms_genesis, current_seal
  <1>4. TypeOK'
    <2>1. \E i \in DOMAIN Phases : phase' = Phases[i]
      BY <1>3, PhaseNames
    <2> QED BY <1>2, <1>3, <2>1 DEF TypeOK, comms_genesis, keys
  <1>5. OperationIsSound'
    BY <1>2, <1>3 DEF OperationIsSound, comms_genesis
  <1>6. LineageIsSound'
    <2>1. PICK c : c = chain'
      OBVIOUS
    <2>2. chain = <<>>
      BY DEF comms_genesis
    <2>3. ASSUME NEW i \in DOMAIN c
          PROVE  i = 1 /\ c[i].genesis = TRUE
      BY <1>2, <2>1, <2>2, <2>3
    <2>4. UNCHANGED <<digest, anchor, legacy>>
      BY DEF comms_genesis
    <2>5. /\ NotAfter("COMMS_GENESIS", "COMMS_GENESIS")
          /\ ~NotAfter("COMMS_ANCHORED", "COMMS_GENESIS")
          /\ ~NotAfter("COMMS_ANCHORED", "LEGACY_ANCHORED")
      BY Milestones
    <2>6. ~legacy.revoked
      BY <1>3, <2>5 DEF LineageIsSound, Reached
    <2>7. lineage' # 0 /\ lineage' = digest'
      BY <1>3, <2>4
    <2>8. Reached("COMMS_GENESIS")' /\ ~Reached("COMMS_ANCHORED")'
      BY <1>3, <2>5 DEF Reached
    <2>9. \A i \in DOMAIN chain' : chain'[i].genesis = (i = 1 /\ lineage' # 0)
      BY <2>1, <2>3, <2>7
    <2> QED BY <1>2, <2>4, <2>6, <2>7, <2>8, <2>9 DEF LineageIsSound
  <1> QED BY <1>2, <1>4, <1>5, <1>6

\* The cutover's last audited transaction.
LEMMA RevokedStep ==
    ASSUME AuditInvariant, record_revoked
    PROVE  AuditInvariant'
  <1> USE DEF AuditInvariant
  <1>1. transaction(FALSE, "append") /\ UNCHANGED <<base, keys, anchor, lost>>
    BY DEF record_revoked
  <1>2. /\ ChainIsLinked' /\ RootIsSealed' /\ KeysMatchChain' /\ AnchorIsSound'
        /\ chain' \in Seq(Event) /\ chain' # <<>> /\ base' \in 0..Len(chain')
        /\ minted' \in Nat /\ op' \in Ops
        /\ \A i \in DOMAIN chain' :
                 \/ i \in DOMAIN chain /\ chain'[i] = chain[i]
                 \/ i = Len(chain) + 1 /\ chain'[i].genesis = FALSE
    <2> HIDE DEF AuditInvariant
    <2>1. FALSE \in BOOLEAN /\ "append" \in {"append", "genesis", "repair"}
      OBVIOUS
    <2> QED BY <1>1, <2>1, TransactionStep
  <1>3. op' = "append" /\ phase' = "LEGACY_CLIENT_AUTH_REVOKED" /\ phase = "COMMS_ANCHORED" /\ up
    BY <1>1 DEF transaction, record_revoked
  <1>4. TypeOK'
    <2>1. \E i \in DOMAIN Phases : phase' = Phases[i]
      BY <1>3, PhaseNames
    <2> QED BY <1>2, <1>3, <2>1 DEF TypeOK, record_revoked, keys
  <1>5. OperationIsSound'
    BY <1>2, <1>3 DEF OperationIsSound, record_revoked
  <1>6. LineageIsSound'
    <2>1. UNCHANGED <<lineage, digest, anchor, legacy>>
      BY DEF record_revoked
    <2>2. /\ NotAfter("COMMS_GENESIS", phase) /\ NotAfter("COMMS_GENESIS", phase')
          /\ NotAfter("COMMS_ANCHORED", phase) /\ NotAfter("COMMS_ANCHORED", phase')
      BY <1>3, Milestones
    <2>3. Reached("COMMS_GENESIS")' = Reached("COMMS_GENESIS")
      BY <2>2 DEF Reached, NotAfter
    <2>4. Reached("COMMS_ANCHORED")' = Reached("COMMS_ANCHORED")
      BY <2>2 DEF Reached, NotAfter
    <2> HIDE DEF AuditInvariant
    <2> QED BY <1>2, <2>1, <2>3, <2>4, LineageAppend
  <1> QED BY <1>2, <1>4, <1>5, <1>6

\* The rotation's transaction: the next epoch opens under the key that was written for it.
LEMMA ActivateStep ==
    ASSUME AuditInvariant, activate_in_tx
    PROVE  AuditInvariant'
  <1> USE DEF AuditInvariant
  <1>1. /\ up /\ op = "activate" /\ op' = "rotate" /\ minted' = minted + 1
        /\ UNCHANGED <<base, anchor, lost, lineage, digest, legacy, phase, files, doomed, up>>
    BY DEF activate_in_tx
  <1>2. minted \in Nat /\ chain # <<>>
    BY <1>1 DEF TypeOK, OperationIsSound
  <1>3. PICK a \in Versions :
          /\ slots[a] = "ACTIVE"
          /\ \A v \in Versions : /\ v < a => slots[v] \in {"RETIRED", "DESTROYED"}
                                 /\ v > a => slots[v] = "none"
          /\ IF chain = <<>> THEN a = 1 ELSE head.epoch = a
          /\ op = "activate" => a < MaxEpochs /\ a + 1 \in files
    BY DEF KeysMatchChain
  <1>4. active = a
    <2>1. slots[a] = "ACTIVE"
      BY <1>3
    <2>2. \A v \in Versions : /\ v < a => slots[v] \in {"RETIRED", "DESTROYED"}
                              /\ v > a => slots[v] = "none"
      BY <1>3
    <2> QED BY <2>1, <2>2, ActiveIs
  <1>5. head.epoch = a /\ a < MaxEpochs /\ a + 1 \in files /\ a \in Nat
    BY <1>1, <1>2, <1>3, AuditChainAssumption DEF Versions
  <1>6. a + 1 \in Versions /\ a + 1 # a
    BY <1>5, AuditChainAssumption DEF Versions
  <1>7. PICK e : e = [epoch |-> a + 1, seq |-> 1, id |-> minted, genesis |-> FALSE]
    OBVIOUS
  <1>8. e \in Event /\ e.id = minted /\ e.epoch = head.epoch + 1 /\ e.seq = 1 /\ ~e.genesis
    BY <1>2, <1>5, <1>6, <1>7 DEF Event
  <1>9. chain' = Append(chain, e)
    BY <1>5, <1>7 DEF activate_in_tx
  <1>10. /\ ChainIsLinked' /\ RootIsSealed'
         /\ chain' \in Seq(Event) /\ chain' # <<>> /\ base' \in 0..Len(chain')
         /\ head' = e
         /\ DOMAIN chain \subseteq DOMAIN chain'
         /\ \A i \in DOMAIN chain : chain'[i] = chain[i]
         /\ \A i \in DOMAIN chain' : i \in DOMAIN chain \/ (chain'[i] = e /\ i = Len(chain) + 1)
         /\ chain # <<>> => chain'[base + 1] = chain[base + 1]
    <2> HIDE DEF AuditInvariant
    <2> QED BY <1>1, <1>2, <1>8, <1>9, AppendContinues
  <1>11. PICK s : s = slots'
    OBVIOUS
  <1>12. /\ s \in [Versions -> {"none", "ACTIVE", "RETIRED", "DESTROYED"}]
         /\ s[a] = "RETIRED" /\ s[a + 1] = "ACTIVE"
         /\ \A v \in Versions : v # a /\ v # a + 1 => s[v] = slots[v]
    BY <1>4, <1>6, <1>11 DEF activate_in_tx, TypeOK
  <1>13. KeysMatchChain'
    <2>1. \A v \in Versions : /\ v < a + 1 => s[v] \in {"RETIRED", "DESTROYED"}
                              /\ v > a + 1 => s[v] = "none"
      <3> SUFFICES ASSUME NEW v \in Versions
                   PROVE  /\ v < a + 1 => s[v] \in {"RETIRED", "DESTROYED"}
                          /\ v > a + 1 => s[v] = "none"
        OBVIOUS
      <3>1. v \in Nat
        BY AuditChainAssumption DEF Versions
      <3>2. CASE v < a
        BY <1>3, <1>5, <1>12, <3>1, <3>2
      <3>3. CASE v = a
        BY <1>5, <1>12, <3>1, <3>3
      <3>4. CASE v > a
        BY <1>3, <1>5, <1>12, <3>1, <3>4
      <3> QED BY <1>5, <3>1, <3>2, <3>3, <3>4
    <2>2. \A v \in Versions : s[v] = "DESTROYED" => v < chain'[base + 1].epoch
      BY <1>2, <1>10, <1>12 DEF KeysMatchChain
    <2>3. \A v \in Versions : s[v] \in {"ACTIVE", "RETIRED"} => v \in files
      BY <1>3, <1>5, <1>12 DEF KeysMatchChain
    <2>4. \A v \in doomed : s[v] = "DESTROYED"
      <3> SUFFICES ASSUME NEW v \in doomed PROVE s[v] = "DESTROYED"
        OBVIOUS
      <3>1. v \in Versions /\ slots[v] = "DESTROYED"
        BY DEF KeysMatchChain, TypeOK
      <3>2. v # a /\ v # a + 1
        BY <1>3, <1>5, <1>6, <3>1
      <3> QED BY <1>12, <3>1, <3>2
    <2>5. head'.epoch = a + 1
      BY <1>7, <1>10
    <2> QED
      BY <1>1, <1>6, <1>10, <1>11, <1>12, <2>1, <2>2, <2>3, <2>4, <2>5 DEF KeysMatchChain
  <1>14. AnchorIsSound'
    <2>1. op' \in Owing
      BY <1>1 DEF Owing
    <2> HIDE DEF AuditInvariant
    <2> QED BY <1>1, <1>8, <1>10, <2>1, OwedAnchor
  <1>15. LineageIsSound'
    <2>1. Reached("COMMS_GENESIS")' = Reached("COMMS_GENESIS")
      BY <1>1 DEF Reached
    <2>2. Reached("COMMS_ANCHORED")' = Reached("COMMS_ANCHORED")
      BY <1>1 DEF Reached
    <2>3. \A i \in DOMAIN chain' :
                 \/ i \in DOMAIN chain /\ chain'[i] = chain[i]
                 \/ i = Len(chain) + 1 /\ chain'[i].genesis = FALSE
      BY <1>7, <1>10
    <2> HIDE DEF AuditInvariant
    <2> QED BY <1>1, <1>10, <2>1, <2>2, <2>3, LineageAppend
  <1>16. OperationIsSound'
    BY <1>1, <1>10 DEF OperationIsSound
  <1>17. TypeOK'
    <2>1. extra' \in Nat /\ minted' \in Nat
      BY DEF TypeOK, activate_in_tx
    <2>2. op' \in Ops
      BY <1>1 DEF Ops, Owing
    <2> QED BY <1>10, <1>11, <1>12, <2>1, <2>2 DEF TypeOK, activate_in_tx
  <1> QED BY <1>10, <1>13, <1>14, <1>15, <1>16, <1>17

\* An anchor that names the head is sound.
LEMMA AnchorAtHead ==
    ASSUME AuditInvariant, chain # <<>>, anchor' = head, UNCHANGED <<chain, minted>>
    PROVE  AnchorIsSound'
  <1> USE DEF AuditInvariant
  <1>1. PICK n \in Nat : n = Len(chain)
    BY HeadIsLast
  <1>2. n \in DOMAIN chain /\ DOMAIN chain = 1..n /\ head = chain[n]
    BY <1>1, HeadIsLast
  <1>3. head.id < minted
    BY <1>2 DEF ChainIsLinked
  <1>4. \A i \in DOMAIN chain : chain[i].id = head.id => chain[i] = head
    BY <1>1, <1>2 DEF ChainIsLinked
  <1>5. head' = head
    BY DEF head
  <1> QED BY <1>2, <1>3, <1>4, <1>5 DEF AnchorIsSound

\* An anchor that stays is sound when nothing new is written over it.
LEMMA AnchorStays ==
    ASSUME AuditInvariant, UNCHANGED <<chain, anchor, lost>>, minted' \in Nat, minted <= minted',
           op' \in {"clear", "set_anchored"} => anchor = head,
           up' /\ op' \notin Owing /\ chain # <<>> /\ latch' \in {"ok", "CUTOVER_PENDING"}
              /\ ~masked' => anchor = head
    PROVE  AnchorIsSound'
  <1> USE DEF AuditInvariant
  <1>1. head' = head
    BY DEF head
  <1>2. PICK m \in Nat : m = minted'
    OBVIOUS
  <1>3. anchor # NoEvent => anchor.id < m
    <2> SUFFICES ASSUME anchor # NoEvent PROVE anchor.id < m
      OBVIOUS
    <2>1. anchor \in Event /\ minted \in Nat
      BY DEF TypeOK
    <2>2. anchor.id \in Nat /\ anchor.id < minted
      BY <2>1 DEF Event, AnchorIsSound
    <2> QED BY <1>2, <2>1, <2>2
  <1> QED BY <1>1, <1>2, <1>3 DEF AnchorIsSound

\* Steps that leave the chain and the keys alone.
LEMMA Quiet ==
    ASSUME AuditInvariant, UNCHANGED <<chain, base, slots, files, doomed>>,
           minted' \in Nat, minted <= minted', op' = "activate" => op = "activate"
    PROVE  ChainIsLinked' /\ RootIsSealed' /\ KeysMatchChain' /\ head' = head
  <1>1. ChainIsLinked' /\ RootIsSealed' /\ head' = head
    BY ChainFrame
  <1>2. doomed' \subseteq doomed
    OBVIOUS
  <1>3. KeysMatchChain'
    BY <1>2, KeysFrame
  <1> QED BY <1>1, <1>3

\* Steps that leave the chain and the cutover alone keep the lineage sound.
LEMMA LineageFrame ==
    ASSUME AuditInvariant, UNCHANGED <<chain, lineage, digest, phase>>,
           anchor # NoEvent => anchor' # NoEvent,
           legacy'.revoked => legacy.revoked
    PROVE  LineageIsSound'
  <1>1. /\ Reached("COMMS_GENESIS")' = Reached("COMMS_GENESIS")
        /\ Reached("COMMS_ANCHORED")' = Reached("COMMS_ANCHORED")
    BY DEF Reached
  <1> QED BY <1>1 DEF AuditInvariant, LineageIsSound

\* The anchor refresh of a committed transaction.
LEMMA RefreshStep ==
    ASSUME AuditInvariant, refresh
    PROVE  AuditInvariant'
  <1> USE DEF AuditInvariant
  <1>1. /\ up /\ op \in Owing /\ anchor' = head /\ masked' = FALSE
        /\ UNCHANGED <<chain, base, lineage, phase, digest, latch, slots, files, doomed, legacy,
                       up, extra, minted, crashes, lost>>
    BY DEF refresh, store, keys
  <1>2. chain # <<>> /\ minted \in Nat /\ minted' \in Nat /\ minted <= minted'
    BY <1>1 DEF OperationIsSound, Owing, TypeOK
  <1>3. head \in Event /\ head # NoEvent
    BY <1>2, HeadIsLast
  <1>4. /\ op' \in {"set_anchored", "clear", "idle"}
        /\ op' = "set_anchored" => op \in {"genesis", "resume"}
    BY <1>1 DEF refresh, AfterAnchor, Owing
  <1>5. ChainIsLinked' /\ RootIsSealed' /\ KeysMatchChain' /\ head' = head
    <2> HIDE DEF AuditInvariant
    <2>1. op' = "activate" => op = "activate"
      BY <1>4
    <2> QED BY <1>1, <1>2, <2>1, Quiet
  <1>6. AnchorIsSound'
    <2> HIDE DEF AuditInvariant
    <2> QED BY <1>1, <1>2, AnchorAtHead
  <1>7. LineageIsSound'
    <2> HIDE DEF AuditInvariant
    <2> QED BY <1>1, <1>3, LineageFrame
  <1>8. OperationIsSound'
    BY <1>1, <1>2, <1>4 DEF OperationIsSound
  <1>9. TypeOK'
    BY <1>1, <1>3, <1>4 DEF TypeOK, Ops
  <1> QED BY <1>5, <1>6, <1>7, <1>8, <1>9

\* A refresh that fails sets the latch.
LEMMA RefreshFailsStep ==
    ASSUME AuditInvariant, refresh_fails
    PROVE  AuditInvariant'
  <1> USE DEF AuditInvariant
  <1>1. /\ up /\ op \in Owing /\ anchor' \in {anchor, head} /\ op' = "idle"
        /\ masked' = (latch = "CUTOVER_PENDING" /\ anchor' # head)
        /\ latch' = IF latch = "ok" THEN "ANCHOR_REFRESH_FAILED" ELSE latch
        /\ UNCHANGED <<chain, base, lineage, phase, digest, slots, files, doomed, legacy,
                       up, extra, minted, crashes, lost>>
    BY DEF refresh_fails, latch_degraded, store, keys
  <1>2. chain # <<>> /\ minted \in Nat /\ minted' \in Nat /\ minted <= minted'
    BY <1>1 DEF OperationIsSound, Owing, TypeOK
  <1>3. head \in Event /\ head # NoEvent
    BY <1>2, HeadIsLast
  <1>5. ChainIsLinked' /\ RootIsSealed' /\ KeysMatchChain' /\ head' = head
    <2> HIDE DEF AuditInvariant
    <2>1. op' = "activate" => op = "activate"
      BY <1>1
    <2> QED BY <1>1, <1>2, <2>1, Quiet
  <1>6. AnchorIsSound'
    <2>1. CASE anchor' = head
      <3> HIDE DEF AuditInvariant
      <3> QED BY <1>1, <1>2, <2>1, AnchorAtHead
    <2>2. CASE anchor' = anchor /\ anchor # head
      <3>1. op' \notin {"clear", "set_anchored"}
        BY <1>1
      <3>2. ~(latch' \in {"ok", "CUTOVER_PENDING"} /\ ~masked')
        BY <1>1, <2>2
      <3> HIDE DEF AuditInvariant
      <3> QED BY <1>1, <1>2, <2>2, <3>1, <3>2, AnchorStays
    <2> QED BY <1>1, <2>1, <2>2
  <1>7. LineageIsSound'
    <2> HIDE DEF AuditInvariant
    <2> QED BY <1>1, <1>3, LineageFrame
  <1>8. OperationIsSound'
    BY <1>1, <1>2 DEF OperationIsSound
  <1>9. TypeOK'
    <2>1. masked' \in BOOLEAN
      BY <1>1
    <2>2. anchor' \in Event \cup {NoEvent}
      BY <1>1, <1>3 DEF TypeOK
    <2>3. latch' \in {"ok", "CUTOVER_PENDING", "ANCHOR_REFRESH_FAILED",
                      "ANCHOR_MISMATCH_AT_START"}
      BY <1>1 DEF TypeOK
    <2> QED BY <1>1, <2>1, <2>2, <2>3 DEF TypeOK, Ops
  <1> QED BY <1>5, <1>6, <1>7, <1>8, <1>9

\* The end of an audit repair.
LEMMA ClearStep ==
    ASSUME AuditInvariant, clear_degraded
    PROVE  AuditInvariant'
  <1> USE DEF AuditInvariant
  <1>1. /\ up /\ op = "clear" /\ op' = "idle" /\ latch' = "ok"
        /\ UNCHANGED <<chain, base, lineage, phase, digest, anchor, slots, files, doomed, legacy,
                       up, extra, minted, crashes, lost, masked>>
    BY DEF clear_degraded, store, keys, truth
  <1>2. chain # <<>> /\ minted \in Nat /\ minted' \in Nat /\ minted <= minted'
    BY <1>1 DEF OperationIsSound, TypeOK
  <1>3. anchor' = head
    BY <1>1 DEF AnchorIsSound
  <1>5. ChainIsLinked' /\ RootIsSealed' /\ KeysMatchChain' /\ head' = head
    <2> HIDE DEF AuditInvariant
    <2>1. op' = "activate" => op = "activate"
      BY <1>1
    <2> QED BY <1>1, <1>2, <2>1, Quiet
  <1>6. AnchorIsSound'
    <2> HIDE DEF AuditInvariant
    <2> QED BY <1>1, <1>2, <1>3, AnchorAtHead
  <1>7. LineageIsSound'
    <2> HIDE DEF AuditInvariant
    <2> QED BY <1>1, LineageFrame
  <1>8. OperationIsSound'
    BY <1>1, <1>2 DEF OperationIsSound
  <1>9. TypeOK'
    BY <1>1 DEF TypeOK, Ops
  <1> QED BY <1>5, <1>6, <1>7, <1>8, <1>9

\* Between the steps of an operation the anchor stays sound as long as nothing moves it, the
\* latch or the head.
LEMMA AnchorFrame ==
    ASSUME AuditInvariant, UNCHANGED <<chain, anchor, lost, latch, masked>>,
           minted' \in Nat, minted <= minted',
           op' \in {"clear", "set_anchored"} => op = op',
           up' => up, op' \in Owing \/ op \notin Owing
    PROVE  AnchorIsSound'
  <1>1. op' \in {"clear", "set_anchored"} => anchor = head
    BY DEF AuditInvariant, AnchorIsSound
  <1>2. up' /\ op' \notin Owing /\ chain # <<>> /\ latch' \in {"ok", "CUTOVER_PENDING"}
              /\ ~masked' => anchor = head
    BY DEF AuditInvariant, AnchorIsSound
  <1> QED BY <1>1, <1>2, AnchorStays

\* The rotation's new key file.
LEMMA WriteVersionStep ==
    ASSUME AuditInvariant, write_version
    PROVE  AuditInvariant'
  <1> USE DEF AuditInvariant
  <1>1. /\ up /\ op = "idle" /\ op' = "activate" /\ chain # <<>> /\ active < MaxEpochs
        /\ files' = {v \in files : slots[v] # "none"} \cup {active + 1}
        /\ UNCHANGED <<chain, base, lineage, phase, digest, anchor, latch, slots, doomed, legacy,
                       up, extra, minted, crashes, lost, masked>>
    BY DEF write_version, store, truth
  <1>2. minted \in Nat /\ minted' \in Nat /\ minted <= minted'
    BY <1>1 DEF TypeOK
  <1>3. ChainIsLinked' /\ RootIsSealed' /\ head' = head
    <2> HIDE DEF AuditInvariant
    <2> QED BY <1>1, <1>2, ChainFrame
  <1>4. PICK a \in Versions :
          /\ slots[a] = "ACTIVE"
          /\ \A v \in Versions : v < a => slots[v] \in {"RETIRED", "DESTROYED"}
          /\ \A v \in Versions : v > a => slots[v] = "none"
          /\ IF chain = <<>> THEN a = 1 ELSE head.epoch = a
    BY DEF KeysMatchChain
  <1>5. active = a
    BY <1>4, ActiveIs
  <1>6. a + 1 \in Versions /\ a < MaxEpochs
    BY <1>1, <1>4, <1>5, AuditChainAssumption DEF Versions
  <1>7. KeysMatchChain'
    <2>1. a + 1 \in files' /\ \A v \in files : slots[v] # "none" => v \in files'
      BY <1>1, <1>5
    <2>2. \A v \in Versions : slots[v] \in {"ACTIVE", "RETIRED"} => v \in files'
      BY <2>1 DEF KeysMatchChain
    <2> QED BY <1>1, <1>3, <1>4, <1>6, <2>1, <2>2 DEF KeysMatchChain
  <1>8. AnchorIsSound'
    <2>1. op' \in Owing \/ op \notin Owing
      BY <1>1 DEF Owing
    <2> HIDE DEF AuditInvariant
    <2> QED BY <1>1, <1>2, <2>1, AnchorFrame
  <1>9. LineageIsSound'
    <2> HIDE DEF AuditInvariant
    <2> QED BY <1>1, LineageFrame
  <1>10. OperationIsSound'
    BY <1>1 DEF OperationIsSound
  <1>11. TypeOK'
    <2>1. files' \subseteq Versions
      BY <1>1, <1>5, <1>6 DEF TypeOK
    <2> QED BY <1>1, <2>1 DEF TypeOK, Ops
  <1> QED BY <1>3, <1>7, <1>8, <1>9, <1>10, <1>11

\* The truncation starts the chain at a signed root.
LEMMA TruncateStep ==
    ASSUME AuditInvariant, truncate
    PROVE  AuditInvariant'
  <1> USE DEF AuditInvariant
  <1>1. /\ up /\ op = "idle" /\ op' = "purge" /\ chain # <<>>
        /\ UNCHANGED <<chain, lineage, phase, digest, anchor, latch, slots, files, doomed, legacy,
                       up, extra, minted, crashes, lost, masked>>
    BY DEF truncate, keys, truth
  <1>2. minted \in Nat /\ minted' \in Nat /\ minted <= minted' /\ base \in Nat
    BY <1>1 DEF TypeOK
  <1>3. PICK n \in Nat : n = Len(chain) /\ DOMAIN chain = 1..n /\ base < n
    BY <1>1, HeadIsLast DEF RootIsSealed
  <1>4. PICK b \in Nat : /\ b = base' /\ base <= b /\ b < n
                         /\ b > 0 => Sealed(b + 1)
    <2>1. CASE base' = base
      BY <1>2, <1>3, <2>1 DEF RootIsSealed
    <2>2. CASE \E i \in choose_root : base' = i - 1
      <3>1. PICK i \in choose_root : base' = i - 1
        BY <2>2
      <3>2. i \in base + 1..n /\ Sealed(i)
        BY <1>3, <3>1 DEF choose_root, Retained
      <3>3. i - 1 \in Nat /\ base <= i - 1 /\ i - 1 < n /\ (i - 1) + 1 = i
        BY <1>2, <1>3, <3>2
      <3> QED BY <3>1, <3>2, <3>3
    <2> QED BY <2>1, <2>2 DEF truncate
  <1>5. ChainIsLinked' /\ head' = head
    BY <1>1 DEF ChainIsLinked, Before, head
  <1>6. RootIsSealed'
    BY <1>1, <1>3, <1>4 DEF RootIsSealed, Sealed
  <1>7. KeysMatchChain'
    <2>1. base + 1 \in DOMAIN chain /\ b + 1 \in DOMAIN chain /\ base + 1 <= b + 1
      <3>1. base \in Nat /\ base < n /\ base <= b /\ b < n
        BY <1>2, <1>3, <1>4
      <3>2. base + 1 \in 1..n /\ b + 1 \in 1..n /\ base + 1 <= b + 1
        BY <3>1
      <3>3. DOMAIN chain = 1..n
        BY <1>3
      <3> QED BY <3>2, <3>3
    <2>2. chain[base + 1].epoch <= chain[b + 1].epoch
      BY <2>1, EpochsRise
    <2>3. chain[base + 1] \in Event /\ chain[b + 1] \in Event
      BY <2>1 DEF TypeOK
    <2>4. chain[base + 1].epoch \in Nat /\ chain[b + 1].epoch \in Nat
      BY <2>3, AuditChainAssumption DEF Event, Versions
    <2>5. \A v \in Versions : slots[v] = "DESTROYED" => v < chain[b + 1].epoch
      <3> SUFFICES ASSUME NEW v \in Versions, slots[v] = "DESTROYED"
                   PROVE  v < chain[b + 1].epoch
        OBVIOUS
      <3>1. v < chain[base + 1].epoch /\ v \in Nat
        BY AuditChainAssumption DEF KeysMatchChain, Versions
      <3> QED BY <2>2, <2>4, <3>1
    <2> QED BY <1>1, <1>4, <1>5, <2>5 DEF KeysMatchChain
  <1>8. AnchorIsSound'
    <2>1. op' \in Owing \/ op \notin Owing
      BY <1>1 DEF Owing
    <2> HIDE DEF AuditInvariant
    <2> QED BY <1>1, <1>2, <2>1, AnchorFrame
  <1>9. LineageIsSound'
    <2> HIDE DEF AuditInvariant
    <2> QED BY <1>1, LineageFrame
  <1>10. OperationIsSound'
    BY <1>1 DEF OperationIsSound
  <1>11. TypeOK'
    <2>1. base' \in 0..Len(chain)
      BY <1>3, <1>4
    <2> QED BY <1>1, <2>1 DEF TypeOK, Ops
  <1> QED BY <1>5, <1>6, <1>7, <1>8, <1>9, <1>10, <1>11

\* The keys of truncated epochs are marked.
LEMMA PurgeStep ==
    ASSUME AuditInvariant, purge_retired_keys
    PROVE  AuditInvariant'
  <1> USE DEF AuditInvariant
  <1>1. /\ up /\ op = "purge" /\ op' = "destroy" /\ doomed' = Doomed
        /\ slots' = [v \in Versions |-> IF v \in Doomed THEN "DESTROYED" ELSE slots[v]]
        /\ UNCHANGED <<chain, base, lineage, phase, digest, anchor, latch, files, legacy,
                       up, extra, minted, crashes, lost, masked>>
    BY DEF purge_retired_keys, store, truth
  <1>2. minted \in Nat /\ minted' \in Nat /\ minted <= minted' /\ chain # <<>>
    BY <1>1 DEF TypeOK, OperationIsSound
  <1>3. ChainIsLinked' /\ RootIsSealed' /\ head' = head
    <2> HIDE DEF AuditInvariant
    <2> QED BY <1>1, <1>2, ChainFrame
  <1>4. /\ Doomed \subseteq Versions
        /\ \A v \in Doomed : slots[v] = "RETIRED" /\ v < chain[base + 1].epoch
    BY DEF Doomed
  <1>5. PICK s : s = slots'
    OBVIOUS
  <1>6. /\ \A v \in Doomed : s[v] = "DESTROYED"
        /\ \A v \in Versions : v \notin Doomed => s[v] = slots[v]
        /\ s \in [Versions -> {"none", "ACTIVE", "RETIRED", "DESTROYED"}]
    BY <1>1, <1>4, <1>5 DEF TypeOK
  <1>7. KeysMatchChain'
    <2>1. PICK a \in Versions :
          /\ slots[a] = "ACTIVE"
          /\ \A v \in Versions : v < a => slots[v] \in {"RETIRED", "DESTROYED"}
          /\ \A v \in Versions : v > a => slots[v] = "none"
          /\ IF chain = <<>> THEN a = 1 ELSE head.epoch = a
      BY DEF KeysMatchChain
    <2>2. /\ s[a] = "ACTIVE"
          /\ \A v \in Versions : v < a => s[v] \in {"RETIRED", "DESTROYED"}
          /\ \A v \in Versions : v > a => s[v] = "none"
      BY <1>4, <1>6, <2>1
    <2>3. \A v \in Versions : s[v] = "DESTROYED" => v < chain[base + 1].epoch
      BY <1>4, <1>6 DEF KeysMatchChain
    <2>4. \A v \in Versions : s[v] \in {"ACTIVE", "RETIRED"} => v \in files
      BY <1>6 DEF KeysMatchChain
    <2> QED BY <1>1, <1>2, <1>3, <1>5, <1>6, <2>1, <2>2, <2>3, <2>4 DEF KeysMatchChain
  <1>8. AnchorIsSound'
    <2>1. op' \in Owing \/ op \notin Owing
      BY <1>1 DEF Owing
    <2> HIDE DEF AuditInvariant
    <2> QED BY <1>1, <1>2, <2>1, AnchorFrame
  <1>9. LineageIsSound'
    <2> HIDE DEF AuditInvariant
    <2> QED BY <1>1, LineageFrame
  <1>10. OperationIsSound'
    BY <1>1, <1>2 DEF OperationIsSound
  <1>11. TypeOK'
    BY <1>1, <1>4, <1>5, <1>6 DEF TypeOK, Ops
  <1> QED BY <1>3, <1>7, <1>8, <1>9, <1>10, <1>11

\* The file of a marked key is unlinked.
LEMMA DestroyStep ==
    ASSUME AuditInvariant, destroy
    PROVE  AuditInvariant'
  <1> USE DEF AuditInvariant
  <1>1. /\ up /\ op = "destroy" /\ op' = op
        /\ UNCHANGED <<chain, base, lineage, phase, digest, anchor, latch, slots, legacy,
                       up, extra, minted, crashes, lost, masked>>
    BY DEF destroy, store, truth
  <1>2. minted \in Nat /\ minted' \in Nat /\ minted <= minted' /\ chain # <<>>
    BY <1>1 DEF TypeOK, OperationIsSound
  <1>3. ChainIsLinked' /\ RootIsSealed' /\ head' = head
    <2> HIDE DEF AuditInvariant
    <2> QED BY <1>1, <1>2, ChainFrame
  <1>4. PICK v \in doomed : files' = files \ {v} /\ doomed' = doomed \ {v}
    BY DEF destroy
  <1>5. slots[v] = "DESTROYED"
    BY DEF KeysMatchChain
  <1>7. KeysMatchChain'
    BY <1>1, <1>3, <1>4, <1>5 DEF KeysMatchChain
  <1>8. AnchorIsSound'
    <2>1. op' \in Owing \/ op \notin Owing
      BY <1>1 DEF Owing
    <2> HIDE DEF AuditInvariant
    <2> QED BY <1>1, <1>2, <2>1, AnchorFrame
  <1>9. LineageIsSound'
    <2> HIDE DEF AuditInvariant
    <2> QED BY <1>1, LineageFrame
  <1>10. OperationIsSound'
    BY <1>1, <1>2 DEF OperationIsSound
  <1>11. TypeOK'
    BY <1>1, <1>4 DEF TypeOK
  <1> QED BY <1>3, <1>7, <1>8, <1>9, <1>10, <1>11

\* A step of the cutover that commits no event: what is left to show is the lineage.
LEMMA CutoverFrame ==
    ASSUME AuditInvariant, up, op \notin Owing,
           UNCHANGED <<chain, base, lineage, anchor, slots, files, doomed, up, extra, crashes,
                       lost, masked, latch>>,
           minted' \in Nat, minted <= minted', digest' \in Nat,
           legacy' \in [clean : BOOLEAN, seal : Nat, revoked : BOOLEAN],
           \E i \in DOMAIN Phases : phase' = Phases[i],
           op' \in {"idle", "resume"},
           op' = "resume" => chain # <<>> /\ phase' = "COMMS_GENESIS",
           LineageIsSound'
    PROVE  AuditInvariant'
  <1>1. ChainIsLinked' /\ RootIsSealed' /\ KeysMatchChain' /\ head' = head
    <2>1. op' = "activate" => op = "activate"
      OBVIOUS
    <2> QED BY <2>1, Quiet
  <1>2. AnchorIsSound'
    <2>1. op' \notin {"clear", "set_anchored"}
      OBVIOUS
    <2> QED BY <2>1, AnchorFrame
  <1>3. OperationIsSound'
    BY DEF OperationIsSound
  <1>4. TypeOK'
    BY DEF AuditInvariant, TypeOK, Ops, Owing
  <1> QED BY <1>1, <1>2, <1>3, <1>4 DEF AuditInvariant

\* The phases before the genesis bind nothing.
LEMMA BeforeGenesis ==
    ASSUME AuditInvariant, UNCHANGED <<chain, lineage, anchor>>,
           legacy'.revoked = legacy.revoked,
           phase \in {"NONE", "CUTOVER_ENTERED", "LEGACY_DRAINED", "LEGACY_VERIFIED",
                      "LEGACY_SEALED", "LEGACY_ANCHORED"},
           phase' \in {"NONE", "CUTOVER_ENTERED", "LEGACY_DRAINED", "LEGACY_VERIFIED",
                      "LEGACY_SEALED", "LEGACY_ANCHORED"}
    PROVE  LineageIsSound' /\ \E i \in DOMAIN Phases : phase' = Phases[i]
  <1>1. /\ ~NotAfter("COMMS_GENESIS", phase) /\ ~NotAfter("COMMS_GENESIS", phase')
        /\ ~NotAfter("COMMS_ANCHORED", phase) /\ ~NotAfter("COMMS_ANCHORED", phase')
    <2>1. /\ phase \notin {"COMMS_GENESIS", "COMMS_ANCHORED", "LEGACY_CLIENT_AUTH_REVOKED",
                           "COMPLETE"}
          /\ phase' \notin {"COMMS_GENESIS", "COMMS_ANCHORED", "LEGACY_CLIENT_AUTH_REVOKED",
                            "COMPLETE"}
      OBVIOUS
    <2>2. PICK p, q : p = phase /\ q = phase'
      OBVIOUS
    <2>3. /\ ~NotAfter("COMMS_GENESIS", p) /\ ~NotAfter("COMMS_GENESIS", q)
          /\ ~NotAfter("COMMS_ANCHORED", p) /\ ~NotAfter("COMMS_ANCHORED", q)
      BY <2>1, <2>2, Milestones
    <2> QED BY <2>2, <2>3
  <1>2. /\ ~Reached("COMMS_GENESIS") /\ ~Reached("COMMS_ANCHORED")
        /\ ~Reached("COMMS_GENESIS")' /\ ~Reached("COMMS_ANCHORED")'
    BY <1>1 DEF Reached
  <1>3. lineage = 0 /\ ~legacy.revoked
    BY <1>2 DEF AuditInvariant, LineageIsSound
  <1>4. LineageIsSound'
    <2>1. (lineage' # 0) = Reached("COMMS_GENESIS")'
      BY <1>2, <1>3 DEF Reached, NotAfter
    <2>2. \A i \in DOMAIN chain' : chain'[i].genesis = (i = 1 /\ lineage' # 0)
      BY DEF AuditInvariant, LineageIsSound
    <2> QED BY <1>2, <1>3, <2>1, <2>2 DEF LineageIsSound
  <1>5. \E i \in DOMAIN Phases : phase' = Phases[i]
    BY PhaseNames
  <1> QED BY <1>4, <1>5

\* The cutover's steps on the legacy side.
LEMMA LegacyStep ==
    ASSUME AuditInvariant,
           enter \/ drain \/ verify_legacy \/ seal \/ record_seal \/ anchor_legacy
    PROVE  AuditInvariant'
  <1> DEFINE Early == {"NONE", "CUTOVER_ENTERED", "LEGACY_DRAINED", "LEGACY_VERIFIED",
                       "LEGACY_SEALED", "LEGACY_ANCHORED"}
  <1>0. minted \in Nat /\ digest \in Nat
        /\ legacy \in [clean : BOOLEAN, seal : Nat, revoked : BOOLEAN]
    BY DEF AuditInvariant, TypeOK
  <1>1. /\ up /\ op = "idle" /\ op' = "idle" /\ phase \in Early /\ phase' \in Early
        /\ UNCHANGED <<chain, base, lineage, anchor, slots, files, doomed, up, extra, crashes,
                       lost, masked, latch>>
        /\ legacy' = legacy \/ legacy' = [legacy EXCEPT !.seal = minted + 1]
        /\ minted' = minted \/ minted' = minted + 1
        /\ digest' = digest \/ digest' = legacy.seal
    <2>1. CASE enter
      BY <2>1 DEF enter, Step, keys, truth
    <2>2. CASE drain
      BY <2>2 DEF drain, Step, keys, truth
    <2>3. CASE verify_legacy
      BY <2>3 DEF verify_legacy, Step, keys, truth
    <2>4. CASE seal
      BY <2>4 DEF seal, store, keys
    <2>5. CASE record_seal
      BY <2>5 DEF record_seal, Step, keys, truth
    <2>6. CASE anchor_legacy
      BY <2>6 DEF anchor_legacy, Step, keys, truth
    <2> QED BY <2>1, <2>2, <2>3, <2>4, <2>5, <2>6
  <1>2. /\ minted' \in Nat /\ minted <= minted' /\ digest' \in Nat
        /\ legacy' \in [clean : BOOLEAN, seal : Nat, revoked : BOOLEAN]
        /\ legacy'.revoked = legacy.revoked
    <2>1. minted' \in Nat /\ minted <= minted'
      BY <1>0, <1>1
    <2>2. digest' \in Nat
      BY <1>0, <1>1
    <2>3. /\ legacy' \in [clean : BOOLEAN, seal : Nat, revoked : BOOLEAN]
          /\ legacy'.revoked = legacy.revoked
      BY <1>0, <1>1
    <2> QED BY <2>1, <2>2, <2>3
  <1>3. LineageIsSound' /\ \E i \in DOMAIN Phases : phase' = Phases[i]
    BY <1>1, <1>2, BeforeGenesis
  <1>4. op \notin Owing /\ op' # "resume"
    BY <1>1 DEF Owing
  <1> QED BY <1>1, <1>2, <1>3, <1>4, CutoverFrame

\* A resumed run re-anchors the head it finds.
LEMMA ResumeStep ==
    ASSUME AuditInvariant, resume_genesis
    PROVE  AuditInvariant'
  <1>1. /\ up /\ op = "idle" /\ op' = "resume" /\ phase = "COMMS_GENESIS"
        /\ UNCHANGED <<chain, base, lineage, phase, digest, anchor, slots, files, doomed, legacy,
                       up, extra, minted, crashes, lost, masked, latch>>
    BY DEF resume_genesis, store, keys, truth
  <1>2. /\ minted \in Nat /\ digest \in Nat /\ \E i \in DOMAIN Phases : phase = Phases[i]
    BY DEF AuditInvariant, TypeOK
  <1>3. legacy \in [clean : BOOLEAN, seal : Nat, revoked : BOOLEAN]
    BY DEF AuditInvariant, TypeOK
  <1>4. lineage # 0
    BY DEF resume_genesis, check_lineage, current_seal
  <1>5. chain # <<>>
    BY <1>4 DEF AuditInvariant, LineageIsSound
  <1>6. LineageIsSound'
    BY <1>1, LineageFrame
  <1>7. op \notin Owing
    BY <1>1 DEF Owing
  <1>8. minted' \in Nat /\ minted <= minted'
    BY <1>1, <1>2
  <1> QED BY <1>1, <1>2, <1>3, <1>5, <1>6, <1>7, <1>8, CutoverFrame

\* The cutover's phases after the genesis.
LEMMA LateStep ==
    ASSUME AuditInvariant, set_anchored \/ revoke_legacy \/ complete
    PROVE  AuditInvariant'
  <1> DEFINE Late == {"COMMS_ANCHORED", "LEGACY_CLIENT_AUTH_REVOKED", "COMPLETE"}
  <1>0. minted \in Nat /\ digest \in Nat
        /\ legacy \in [clean : BOOLEAN, seal : Nat, revoked : BOOLEAN]
    BY DEF AuditInvariant, TypeOK
  <1>1. /\ up /\ op \in {"idle", "set_anchored"} /\ op' = "idle"
        /\ UNCHANGED <<chain, base, lineage, anchor, slots, files, doomed, up, extra, crashes,
                       lost, masked, latch, minted, digest>>
        /\ legacy' = legacy \/ legacy' = [legacy EXCEPT !.revoked = TRUE]
        /\ phase' \in Late
        /\ phase \in Late \/ op = "set_anchored"
    <2>1. CASE set_anchored
      BY <2>1 DEF set_anchored, keys, truth
    <2>2. CASE revoke_legacy
      BY <2>2 DEF revoke_legacy, store, keys, truth
    <2>3. CASE complete
      BY <2>3 DEF complete, Step, keys, truth
    <2> QED BY <2>1, <2>2, <2>3
  <1>2. legacy' \in [clean : BOOLEAN, seal : Nat, revoked : BOOLEAN]
    BY <1>0, <1>1
  <1>3. \E i \in DOMAIN Phases : phase' = Phases[i]
    BY <1>1, PhaseNames
  <1>4. phase = "COMMS_GENESIS" \/ phase \in Late
    BY <1>1 DEF AuditInvariant, OperationIsSound
  <1>5. Reached("COMMS_GENESIS") /\ Reached("COMMS_GENESIS")' /\ Reached("COMMS_ANCHORED")'
        /\ (phase \in Late => Reached("COMMS_ANCHORED"))
    <2>1. PICK p, q : p = phase /\ q = phase'
      OBVIOUS
    <2>2. NotAfter("COMMS_GENESIS", p) /\ NotAfter("COMMS_GENESIS", q)
          /\ NotAfter("COMMS_ANCHORED", q) /\ (p \in Late => NotAfter("COMMS_ANCHORED", p))
      BY <1>1, <1>4, <2>1, Milestones
    <2> QED BY <2>1, <2>2 DEF Reached
  <1>6. anchor # NoEvent
    <2>1. CASE op = "set_anchored"
      <3>1. chain # <<>> /\ anchor = head
        BY <2>1 DEF AuditInvariant, OperationIsSound, AnchorIsSound
      <3>2. TypeOK
        BY DEF AuditInvariant
      <3> QED BY <3>1, <3>2, HeadIsLast
    <2>2. CASE phase \in Late
      BY <1>5, <2>2 DEF AuditInvariant, LineageIsSound
    <2> QED BY <1>1, <2>1, <2>2
  <1>7. LineageIsSound'
    BY <1>1, <1>5, <1>6 DEF AuditInvariant, LineageIsSound
  <1>8. op \notin Owing /\ op' # "resume" /\ minted' \in Nat /\ minted <= minted'
    BY <1>0, <1>1 DEF Owing
  <1> QED BY <1>0, <1>1, <1>2, <1>3, <1>7, <1>8, CutoverFrame

\* The hold a completed cutover releases is its own.
LEMMA ReleaseStep ==
    ASSUME AuditInvariant, release_writes
    PROVE  AuditInvariant'
  <1>1. /\ up /\ op = "idle" /\ latch = "CUTOVER_PENDING" /\ latch' = "ok"
        /\ UNCHANGED <<chain, base, lineage, phase, digest, anchor, slots, files, doomed, legacy,
                       up, op, extra, minted, crashes, lost, masked>>
    BY DEF release_writes, store, keys, truth
  <1>2. minted' \in Nat /\ minted <= minted'
    BY <1>1 DEF AuditInvariant, TypeOK
  <1>3. ChainIsLinked' /\ RootIsSealed' /\ KeysMatchChain' /\ head' = head
    <2>1. op' = "activate" => op = "activate"
      BY <1>1
    <2> QED BY <1>1, <1>2, <2>1, Quiet
  <1>4. AnchorIsSound'
    <2>1. chain # <<>> /\ ~masked => anchor = head
      BY <1>1 DEF AuditInvariant, AnchorIsSound, Owing
    <2> QED BY <1>1, <1>2, <2>1, AnchorStays
  <1>5. LineageIsSound'
    BY <1>1, LineageFrame
  <1>6. OperationIsSound'
    BY <1>1 DEF AuditInvariant, OperationIsSound
  <1>7. TypeOK'
    BY <1>1 DEF AuditInvariant, TypeOK
  <1> QED BY <1>3, <1>4, <1>5, <1>6, <1>7 DEF AuditInvariant

\* A clean start finds the anchor at the head.
LEMMA CleanMeansHead ==
    ASSUME AuditInvariant, chain # <<>>, derive_integrity = "CLEAN"
    PROVE  anchor = head
  <1>1. anchor # NoEvent /\ anchor.id = head.id
    BY DEF derive_integrity, read_anchor
  <1>2. TypeOK
    BY DEF AuditInvariant
  <1>3. Len(chain) \in DOMAIN chain /\ head = chain[Len(chain)]
    BY <1>2, HeadIsLast
  <1> QED BY <1>1, <1>3 DEF AuditInvariant, AnchorIsSound

\* A start checks the anchor before it serves.
LEMMA StartStep ==
    ASSUME AuditInvariant, start
    PROVE  AuditInvariant'
  <1>1. /\ ~up /\ up' = TRUE /\ op' = op
        /\ UNCHANGED <<chain, base, lineage, phase, digest, slots, files, doomed, legacy, extra,
                       minted, crashes, lost>>
    BY DEF start, store, keys
  <1>2. op = "idle" /\ minted \in Nat
    BY <1>1 DEF AuditInvariant, OperationIsSound, TypeOK
  <1>3. TypeOK
    BY DEF AuditInvariant
  <1>4. chain # <<>> => head \in Event /\ head # NoEvent
    BY <1>3, HeadIsLast
  <1>5. PICK d : d = derive_integrity
    OBVIOUS
  <1>6. \/ (chain = <<>> \/ d = "CLEAN") /\ HeldAtStart("ok") /\ UNCHANGED <<anchor, masked>>
        \/ chain # <<>> /\ anchor' = head /\ masked' = FALSE /\ HeldAtStart("ok")
        \/ /\ HeldAtStart("ANCHOR_MISMATCH_AT_START")
           /\ masked' = (latch = "CUTOVER_PENDING" /\ anchor # head)
           /\ anchor' = anchor
    BY <1>5 DEF start
  <1>7. masked' \in BOOLEAN
    BY <1>3, <1>6 DEF TypeOK
  <1>8. anchor' \in Event \cup {NoEvent} /\ (anchor # NoEvent => anchor' # NoEvent)
    BY <1>3, <1>4, <1>6 DEF TypeOK
  <1>9. latch' \in {"ok", "CUTOVER_PENDING", "ANCHOR_REFRESH_FAILED", "ANCHOR_MISMATCH_AT_START"}
    BY <1>3, <1>6 DEF TypeOK, HeldAtStart
  <1>10. TypeOK'
    BY <1>1, <1>3, <1>7, <1>8, <1>9 DEF TypeOK
  <1>11. minted' \in Nat /\ minted <= minted'
    BY <1>1, <1>2
  <1>12. ChainIsLinked' /\ RootIsSealed' /\ KeysMatchChain' /\ head' = head
    <2>1. op' = "activate" => op = "activate"
      BY <1>1
    <2> QED BY <1>1, <1>11, <2>1, Quiet
  <1>13. AnchorIsSound'
    <2>1. op' \notin {"clear", "set_anchored"}
      BY <1>1, <1>2
    <2>2. CASE (chain = <<>> \/ d = "CLEAN") /\ UNCHANGED <<anchor, masked>>
      <3>1. chain # <<>> => anchor = head
        BY <1>5, <2>2, CleanMeansHead
      <3> QED BY <1>1, <1>11, <2>1, <2>2, <3>1, AnchorStays
    <2>3. CASE chain # <<>> /\ anchor' = head
      BY <1>1, <2>3, AnchorAtHead
    <2>4. CASE /\ HeldAtStart("ANCHOR_MISMATCH_AT_START")
               /\ masked' = (latch = "CUTOVER_PENDING" /\ anchor # head)
               /\ anchor' = anchor
      <3>1. latch' \in {"ok", "CUTOVER_PENDING"} => latch = "CUTOVER_PENDING"
        BY <2>4 DEF HeldAtStart
      <3>2. latch' \in {"ok", "CUTOVER_PENDING"} /\ ~masked' => anchor = head
        BY <2>4, <3>1
      <3> QED BY <1>1, <1>11, <2>1, <2>4, <3>2, AnchorStays
    <2> QED BY <1>6, <2>2, <2>3, <2>4
  <1>14. LineageIsSound'
    BY <1>1, <1>8, LineageFrame
  <1>15. OperationIsSound'
    BY <1>1, <1>2 DEF OperationIsSound
  <1> QED BY <1>10, <1>12, <1>13, <1>14, <1>15 DEF AuditInvariant

\* A start refused because the disk does not take the anchor.
LEMMA RefusedStep ==
    ASSUME AuditInvariant, start_refused
    PROVE  AuditInvariant'
  <1>1. /\ ~up /\ chain # <<>> /\ anchor' \in {anchor, head}
        /\ latch' = IF latch = "ok" THEN "ANCHOR_REFRESH_FAILED" ELSE latch
        /\ masked' = (latch = "CUTOVER_PENDING" /\ anchor' # head)
        /\ UNCHANGED <<chain, base, lineage, phase, digest, slots, files, doomed, legacy, up, op,
                       extra, minted, crashes, lost>>
    BY DEF start_refused, latch_degraded, store, keys
  <1>2. op = "idle" /\ minted \in Nat
    BY <1>1 DEF AuditInvariant, OperationIsSound, TypeOK
  <1>3. TypeOK
    BY DEF AuditInvariant
  <1>4. head \in Event /\ head # NoEvent
    BY <1>1, <1>3, HeadIsLast
  <1>5. masked' \in BOOLEAN
    BY <1>1
  <1>6. anchor' \in Event \cup {NoEvent} /\ (anchor # NoEvent => anchor' # NoEvent)
    BY <1>1, <1>3, <1>4 DEF TypeOK
  <1>7. latch' \in {"ok", "CUTOVER_PENDING", "ANCHOR_REFRESH_FAILED", "ANCHOR_MISMATCH_AT_START"}
    BY <1>1, <1>3 DEF TypeOK
  <1>8. TypeOK'
    BY <1>1, <1>3, <1>5, <1>6, <1>7 DEF TypeOK
  <1>9. minted' \in Nat /\ minted <= minted'
    BY <1>1, <1>2
  <1>10. ChainIsLinked' /\ RootIsSealed' /\ KeysMatchChain' /\ head' = head
    <2>1. op' = "activate" => op = "activate"
      BY <1>1
    <2> QED BY <1>1, <1>9, <2>1, Quiet
  <1>11. AnchorIsSound'
    <2>1. CASE anchor' = head
      BY <1>1, <2>1, AnchorAtHead
    <2>2. CASE anchor' = anchor
      <3>1. op' \notin {"clear", "set_anchored"} /\ ~up'
        BY <1>1, <1>2
      <3> QED BY <1>1, <1>9, <2>2, <3>1, AnchorStays
    <2> QED BY <1>1, <2>1, <2>2
  <1>12. LineageIsSound'
    BY <1>1, <1>6, LineageFrame
  <1>13. OperationIsSound'
    BY <1>1, <1>2 DEF OperationIsSound
  <1> QED BY <1>8, <1>10, <1>11, <1>12, <1>13 DEF AuditInvariant

\* A crash abandons the operation where it is.
LEMMA CrashStep ==
    ASSUME AuditInvariant, crash
    PROVE  AuditInvariant'
  <1>1. /\ up' = FALSE /\ op' = "idle" /\ doomed' = {}
        /\ UNCHANGED <<chain, base, lineage, phase, digest, anchor, latch, slots, files, legacy,
                       extra, minted, lost, masked>>
    BY DEF crash, store
  <1>2. crashes' \in Nat /\ minted' \in Nat /\ minted <= minted'
    <2>1. crashes \in Nat /\ minted \in Nat /\ crashes' = crashes + 1
      BY DEF AuditInvariant, TypeOK, crash
    <2> QED BY <1>1, <2>1
  <1>3. ChainIsLinked' /\ RootIsSealed'
    BY <1>1, <1>2, ChainFrame
  <1>4. KeysMatchChain'
    <2>1. doomed' \subseteq doomed
      BY <1>1
    <2> QED BY <1>1, <2>1, KeysFrame
  <1>5. AnchorIsSound'
    <2>1. op' \notin {"clear", "set_anchored"} /\ ~up'
      BY <1>1
    <2> QED BY <1>1, <1>2, <2>1, AnchorStays
  <1>6. LineageIsSound'
    BY <1>1, LineageFrame
  <1>7. OperationIsSound'
    BY <1>1 DEF OperationIsSound
  <1>8. TypeOK'
    BY <1>1, <1>2 DEF AuditInvariant, TypeOK, Ops
  <1> QED BY <1>3, <1>4, <1>5, <1>6, <1>7, <1>8 DEF AuditInvariant

\* The legacy database put back.
LEMMA RestoreLegacyStep ==
    ASSUME AuditInvariant, restore_legacy
    PROVE  AuditInvariant'
  <1>1. /\ legacy' = [legacy EXCEPT !.seal = 0, !.revoked = FALSE]
        /\ UNCHANGED <<chain, base, lineage, phase, digest, anchor, latch, slots, files, doomed,
                       up, op, extra, minted, lost, masked>>
    BY DEF restore_legacy, store, keys
  <1>2. legacy' \in [clean : BOOLEAN, seal : Nat, revoked : BOOLEAN] /\ ~legacy'.revoked
    <2>1. legacy \in [clean : BOOLEAN, seal : Nat, revoked : BOOLEAN]
      BY DEF AuditInvariant, TypeOK
    <2> QED BY <1>1, <2>1
  <1>3. crashes' \in Nat /\ minted' \in Nat /\ minted <= minted'
    <2>1. crashes \in Nat /\ minted \in Nat /\ crashes' = crashes + 1
      BY DEF AuditInvariant, TypeOK, restore_legacy
    <2> QED BY <1>1, <2>1
  <1>4. ChainIsLinked' /\ RootIsSealed' /\ KeysMatchChain'
    <2>1. op' = "activate" => op = "activate"
      BY <1>1
    <2> QED BY <1>1, <1>3, <2>1, Quiet
  <1>5. AnchorIsSound'
    <2>1. op' \in Owing \/ op \notin Owing
      BY <1>1
    <2> QED BY <1>1, <1>3, <2>1, AnchorFrame
  <1>6. LineageIsSound'
    BY <1>1, <1>2, LineageFrame
  <1>7. OperationIsSound'
    BY <1>1 DEF AuditInvariant, OperationIsSound
  <1>8. TypeOK'
    BY <1>1, <1>2, <1>3 DEF AuditInvariant, TypeOK
  <1> QED BY <1>4, <1>5, <1>6, <1>7, <1>8 DEF AuditInvariant

\* comms.db put back from a copy of the head's epoch keeps a prefix of the chain.
LEMMA RestoreCopyStep ==
    ASSUME AuditInvariant, restore_older_copy
    PROVE  AuditInvariant'
  <1>1. /\ ~up /\ latch' = "ok" /\ lost' = TRUE
        /\ UNCHANGED <<base, anchor, slots, files, doomed, phase, digest, lineage, legacy, up, op,
                       extra, minted, crashes, masked>>
    BY DEF restore_older_copy, keys
  <1>2. PICK n \in base + 1..Len(chain) - 1 :
          n >= 2 /\ chain[n].epoch = head.epoch /\ chain' = SubSeq(chain, 1, n)
    BY DEF restore_older_copy
  <1>3. chain \in Seq(Event) /\ base \in Nat /\ minted \in Nat /\ TypeOK
    BY DEF AuditInvariant, TypeOK
  <1>4. PICK l \in Nat : l = Len(chain) /\ DOMAIN chain = 1..l
    BY <1>3
  <1>5. n \in Nat /\ base < n /\ 2 <= n /\ n < l
    BY <1>2, <1>3, <1>4
  <1>6. PICK c : c = chain'
    OBVIOUS
  <1>7. /\ c \in Seq(Event) /\ Len(c) = n /\ DOMAIN c = 1..n
        /\ \A i \in 1..n : c[i] = chain[i]
    BY <1>2, <1>3, <1>4, <1>5, <1>6
  <1>8. c # <<>> /\ chain # <<>> /\ DOMAIN c \subseteq DOMAIN chain
    BY <1>3, <1>4, <1>5, <1>7
  <1>9. head' = c[n] /\ head = chain[l] /\ head' = chain[n] /\ head'.epoch = head.epoch
    <2>1. head' = c[n]
      BY <1>6, <1>7, <1>8 DEF head
    <2>2. head = chain[l]
      BY <1>4, <1>8 DEF head
    <2>3. n \in 1..n
      BY <1>5
    <2> QED BY <1>2, <1>7, <2>1, <2>2, <2>3
  <1>10. ChainIsLinked'
    <2>1. ChainIsLinked
      BY DEF AuditInvariant
    <2>2. c[1].epoch = 1 /\ c[1].seq = 1
      BY <1>5, <1>7, <1>8, <2>1 DEF ChainIsLinked
    <2>3. \A i \in DOMAIN c : i + 1 \in DOMAIN c =>
             \/ c[i + 1].epoch = c[i].epoch /\ c[i + 1].seq = c[i].seq + 1
             \/ c[i + 1].epoch = c[i].epoch + 1 /\ c[i + 1].seq = 1
      BY <1>7, <1>8, <2>1 DEF ChainIsLinked
    <2>4. \A i, j \in DOMAIN c : i < j => Before(c[i], c[j]) /\ c[i].id # c[j].id
      BY <1>7, <1>8, <2>1 DEF ChainIsLinked
    <2>5. \A i \in DOMAIN c : c[i].id < minted
      BY <1>7, <1>8, <2>1 DEF ChainIsLinked
    <2> QED BY <1>1, <1>6, <2>2, <2>3, <2>4, <2>5 DEF ChainIsLinked, Before
  <1>11. RootIsSealed'
    <2>1. base > 0 => base + 1 < n /\ c[(base + 1) + 1].epoch > c[base + 1].epoch
      <3> SUFFICES ASSUME base > 0
                   PROVE  base + 1 < n /\ c[(base + 1) + 1].epoch > c[base + 1].epoch
        OBVIOUS
      <3>1. base + 1 < l /\ chain[(base + 1) + 1].epoch > chain[base + 1].epoch
        BY <1>4 DEF AuditInvariant, RootIsSealed, Sealed
      <3>2. (base + 1) + 1 \in DOMAIN chain /\ l \in DOMAIN chain /\ (base + 1) + 1 <= l
            /\ n \in DOMAIN chain
        BY <1>3, <1>4, <1>5, <3>1
      <3>3. chain[(base + 1) + 1].epoch <= chain[l].epoch
        BY <1>3, <3>2, EpochsRise DEF AuditInvariant
      <3>4. chain[(base + 1) + 1] \in Event /\ chain[n] \in Event /\ chain[l] \in Event
        BY <1>3, <3>2
      <3>5. chain[(base + 1) + 1].epoch \in Nat /\ chain[n].epoch \in Nat
            /\ chain[l].epoch \in Nat
        <4>1. \A x \in Event : x.epoch \in Nat
          BY AuditChainAssumption DEF Event, Versions
        <4> QED BY <3>4, <4>1
      <3>6. chain[n].epoch = chain[l].epoch
        BY <1>2, <1>9
      <3>7. base + 1 # n
        BY <3>1, <3>3, <3>5, <3>6
      <3>8. base + 1 < n /\ base + 1 \in 1..n /\ (base + 1) + 1 \in 1..n
        BY <1>3, <1>5, <3>7
      <3> QED BY <1>7, <3>1, <3>8
    <2> QED BY <1>1, <1>5, <1>6, <1>7, <1>8, <2>1 DEF RootIsSealed, Sealed
  <1>12. KeysMatchChain'
    <2>1. c[base + 1] = chain[base + 1]
      BY <1>3, <1>5, <1>7
    <2> QED BY <1>1, <1>6, <1>8, <1>9, <2>1 DEF AuditInvariant, KeysMatchChain
  <1>13. op = "idle"
    BY <1>1 DEF AuditInvariant, OperationIsSound
  <1>14. AnchorIsSound'
    <2>1. anchor # NoEvent =>
             anchor.id < minted /\ \A i \in DOMAIN c : c[i].id = anchor.id => c[i] = anchor
      BY <1>7, <1>8 DEF AuditInvariant, AnchorIsSound
    <2>2. op' \notin {"clear", "set_anchored"} /\ ~up' /\ lost'
      BY <1>1, <1>13
    <2> QED BY <1>1, <1>6, <2>1, <2>2 DEF AnchorIsSound
  <1>15. LineageIsSound'
    <2>1. /\ Reached("COMMS_GENESIS")' = Reached("COMMS_GENESIS")
          /\ Reached("COMMS_ANCHORED")' = Reached("COMMS_ANCHORED")
      BY <1>1 DEF Reached
    <2>2. \A i \in DOMAIN c : c[i].genesis = (i = 1 /\ lineage # 0)
      BY <1>7, <1>8 DEF AuditInvariant, LineageIsSound
    <2> QED BY <1>1, <1>6, <1>8, <2>1, <2>2 DEF AuditInvariant, LineageIsSound
  <1>16. OperationIsSound'
    BY <1>1, <1>13 DEF OperationIsSound
  <1>17. TypeOK'
    <2>1. base' \in 0..Len(c)
      BY <1>1, <1>3, <1>5, <1>7
    <2> QED BY <1>1, <1>3, <1>6, <1>7, <2>1 DEF TypeOK
  <1> QED BY <1>10, <1>11, <1>12, <1>14, <1>15, <1>16, <1>17 DEF AuditInvariant

\* Steps that change nothing.
LEMMA AuditStutter ==
    ASSUME AuditInvariant, UNCHANGED vars
    PROVE  AuditInvariant'
  <1>1. UNCHANGED <<chain, base, anchor, latch, slots, files, phase, digest, lineage, legacy, up,
                    op, doomed, extra, minted, crashes, lost, masked>>
    BY DEF vars
  <1>2. minted' \in Nat /\ minted <= minted'
    BY <1>1 DEF AuditInvariant, TypeOK
  <1>3. ChainIsLinked' /\ RootIsSealed' /\ KeysMatchChain'
    <2>1. op' = "activate" => op = "activate"
      BY <1>1
    <2> QED BY <1>1, <1>2, <2>1, Quiet
  <1>4. AnchorIsSound'
    <2>1. op' \in Owing \/ op \notin Owing
      BY <1>1
    <2> QED BY <1>1, <1>2, <2>1, AnchorFrame
  <1>5. LineageIsSound'
    BY <1>1, LineageFrame
  <1>6. OperationIsSound' /\ TypeOK'
    BY <1>1 DEF AuditInvariant, OperationIsSound, TypeOK
  <1> QED BY <1>3, <1>4, <1>5, <1>6 DEF AuditInvariant

\* Every step of the program keeps the invariant.
LEMMA NextAudit ==
    ASSUME AuditInvariant, [Next]_vars
    PROVE  AuditInvariant'
  <1>1. CASE new_effect \/ recording \/ audit_repair \/ record_purge
    <2>1. up /\ \E next \in {"append", "repair"} : Appending(next)
      BY <1>1 DEF new_effect, recording, audit_repair, record_purge
    <2> QED BY <2>1, AppendingStep
  <1>2. CASE refresh
    BY <1>2, RefreshStep
  <1>3. CASE refresh_fails
    BY <1>3, RefreshFailsStep
  <1>4. CASE clear_degraded
    BY <1>4, ClearStep
  <1>5. CASE write_version
    BY <1>5, WriteVersionStep
  <1>6. CASE activate_in_tx
    BY <1>6, ActivateStep
  <1>7. CASE truncate
    BY <1>7, TruncateStep
  <1>8. CASE purge_retired_keys
    BY <1>8, PurgeStep
  <1>9. CASE destroy
    BY <1>9, DestroyStep
  <1>10. CASE Cutover
    <2>1. CASE enter \/ drain \/ verify_legacy \/ seal \/ record_seal \/ anchor_legacy
      BY <2>1, LegacyStep
    <2>2. CASE comms_genesis
      BY <2>2, GenesisStep
    <2>3. CASE resume_genesis
      BY <2>3, ResumeStep
    <2>4. CASE set_anchored \/ revoke_legacy \/ complete
      BY <2>4, LateStep
    <2>5. CASE record_revoked
      BY <2>5, RevokedStep
    <2>6. CASE release_writes
      BY <2>6, ReleaseStep
    <2> QED BY <1>10, <2>1, <2>2, <2>3, <2>4, <2>5, <2>6 DEF Cutover
  <1>11. CASE start
    BY <1>11, StartStep
  <1>12. CASE start_refused
    BY <1>12, RefusedStep
  <1>13. CASE crash
    BY <1>13, CrashStep
  <1>14. CASE restore_older_copy
    BY <1>14, RestoreCopyStep
  <1>15. CASE restore_legacy
    BY <1>15, RestoreLegacyStep
  <1>16. CASE audit_verify \/ UNCHANGED vars
    <2>1. UNCHANGED vars
      BY <1>16 DEF audit_verify
    <2> QED BY <2>1, AuditStutter
  <1> QED
    BY <1>1, <1>2, <1>3, <1>4, <1>5, <1>6, <1>7, <1>8, <1>9, <1>10, <1>11, <1>12, <1>13, <1>14,
       <1>15, <1>16 DEF Next

\* A provisioned installation satisfies the invariant.
LEMMA InitAudit ==
    ASSUME Init
    PROVE  AuditInvariant
  <1>1. 1 \in Versions /\ chain = <<>> /\ DOMAIN chain = {} /\ Len(chain) = 0 /\ base = 0
    BY AuditChainAssumption DEF Init, Versions
  <1>2. TypeOK
    <2>1. chain \in Seq(Event) /\ base \in 0..Len(chain)
      BY <1>1
    <2>2. slots \in [Versions -> {"none", "ACTIVE", "RETIRED", "DESTROYED"}]
      BY DEF Init
    <2>3. legacy \in [clean : BOOLEAN, seal : Nat, revoked : BOOLEAN]
      <3>1. PICK x \in [clean : BOOLEAN, seal : {0}, revoked : {FALSE}] : x = legacy
        BY DEF Init
      <3>2. x = [clean |-> x.clean, seal |-> x.seal, revoked |-> x.revoked]
        BY <3>1
      <3>3. x.clean \in BOOLEAN
        BY <3>1
      <3>4. x.seal \in Nat
        BY <3>1
      <3>5. x.revoked \in BOOLEAN
        BY <3>1, Zenon
      <3> QED BY <3>1, <3>2, <3>3, <3>4, <3>5
    <2>4. \E i \in DOMAIN Phases : phase = Phases[i]
      BY PhaseNames DEF Init
    <2>5. files \subseteq Versions /\ doomed \subseteq Versions
      BY <1>1 DEF Init
    <2>6. up \in BOOLEAN /\ lost \in BOOLEAN /\ masked \in BOOLEAN
      BY DEF Init
    <2> QED BY <2>1, <2>2, <2>3, <2>4, <2>5, <2>6 DEF TypeOK, Init, Ops
  <1>3. ChainIsLinked /\ RootIsSealed
    BY <1>1 DEF ChainIsLinked, RootIsSealed
  <1>4. KeysMatchChain
    <2>1. slots[1] = "ACTIVE" /\ \A v \in Versions : v # 1 => slots[v] = "none"
      BY <1>1 DEF Init
    <2>2. \A v \in Versions : ~(v < 1) /\ (v > 1 => v # 1)
      BY AuditChainAssumption DEF Versions
    <2>3. \A v \in Versions : slots[v] # "DESTROYED"
                              /\ (slots[v] \in {"ACTIVE", "RETIRED"} => v = 1)
      BY <2>1
    <2> QED BY <1>1, <2>1, <2>2, <2>3 DEF KeysMatchChain, Init
  <1>5. OperationIsSound /\ AnchorIsSound
    BY DEF OperationIsSound, AnchorIsSound, Init
  <1>6. LineageIsSound
    <2>1. ~NotAfter("COMMS_GENESIS", "NONE") /\ ~NotAfter("COMMS_ANCHORED", "NONE")
      BY Milestones
    <2>2. ~Reached("COMMS_GENESIS") /\ ~Reached("COMMS_ANCHORED")
      BY <2>1 DEF Reached, Init
    <2>3. (lineage # 0) = Reached("COMMS_GENESIS")
      BY <2>2 DEF Init, Reached, NotAfter
    <2>4. ~legacy.revoked /\ lineage = 0
      BY DEF Init
    <2> QED BY <1>1, <2>2, <2>3, <2>4 DEF LineageIsSound
  <1> QED BY <1>2, <1>3, <1>4, <1>5, <1>6 DEF AuditInvariant

\* The invariant of the chain, its keys, its anchor and the cutover holds of every execution,
\* whatever crashes fall between two steps (core/audit, keys/rotate.py, retention.py, cutover.py).
THEOREM AuditInductive == Spec => []AuditInvariant
  <1>1. Init => AuditInvariant
    BY InitAudit
  <1>2. AuditInvariant /\ [Next]_vars => AuditInvariant'
    BY NextAudit
  <1> QED BY <1>1, <1>2, PTL DEF Spec

\* No key a retained event needs is gone, and the links between retained events hold.
LEMMA VerifiesNow ==
    ASSUME AuditInvariant
    PROVE  RetainedChainVerifies
  <1>0. TypeOK /\ ChainIsLinked /\ RootIsSealed /\ KeysMatchChain
    BY DEF AuditInvariant
  <1>1. chain \in Seq(Event) /\ base \in Nat
    BY <1>0 DEF TypeOK
  <1>2. PICK n \in Nat : n = Len(chain) /\ DOMAIN chain = 1..n
    BY <1>1
  <1>3. Retained = base + 1..n
    BY <1>2 DEF Retained
  <1>4. \A i \in Retained : i \in DOMAIN chain /\ n \in DOMAIN chain /\ base + 1 \in DOMAIN chain
                            /\ base + 1 <= i /\ i <= n /\ i \in Nat
    BY <1>1, <1>2, <1>3
  <1>5. \A i \in Retained : for_epoch(chain[i].epoch)
    <2> SUFFICES ASSUME NEW i \in Retained PROVE for_epoch(chain[i].epoch)
      OBVIOUS
    <2>1. i \in DOMAIN chain /\ n \in DOMAIN chain /\ base + 1 \in DOMAIN chain
          /\ base + 1 <= i /\ i <= n
      BY <1>4
    <2>2. chain # <<>> /\ head = chain[n]
      BY <1>2, <2>1 DEF head
    <2>3. chain[i] \in Event /\ chain[base + 1] \in Event /\ chain[n] \in Event
      BY <1>1, <2>1
    <2>4. \A x \in Event : x.epoch \in Versions /\ x.epoch \in Nat
      BY AuditChainAssumption DEF Event, Versions
    <2>5. PICK e \in Versions : e = chain[i].epoch /\ e \in Nat
      BY <2>3, <2>4
    <2>6. e <= chain[n].epoch
      BY <1>0, <2>1, <2>5, EpochsRise
    <2>7. chain[base + 1].epoch <= e
      BY <1>0, <2>1, <2>5, EpochsRise
    <2>8. PICK a \in Versions :
          /\ slots[a] = "ACTIVE"
          /\ \A v \in Versions : v < a => slots[v] \in {"RETIRED", "DESTROYED"}
          /\ IF chain = <<>> THEN a = 1 ELSE head.epoch = a
      BY <1>0 DEF KeysMatchChain
    <2>9. a = chain[n].epoch /\ a \in Nat
      BY <2>2, <2>3, <2>4, <2>8
    <2>10. e < a \/ e = a
      BY <2>5, <2>6, <2>9
    <2>11. slots[e] # "DESTROYED"
      <3>1. slots[e] = "DESTROYED" => e < chain[base + 1].epoch
        BY <1>0 DEF KeysMatchChain
      <3>2. chain[base + 1].epoch \in Nat
        BY <2>3, <2>4
      <3> QED BY <2>5, <2>7, <3>1, <3>2
    <2>12. slots[e] \in {"ACTIVE", "RETIRED"}
      BY <2>8, <2>10, <2>11
    <2>13. e \in files
      BY <1>0, <2>12 DEF KeysMatchChain
    <2> QED BY <2>5, <2>12, <2>13 DEF for_epoch
  <1>6. Retained # {} =>
          \/ chain[base + 1].epoch = 1 /\ chain[base + 1].seq = 1
          \/ Sealed(base + 1)
    <2>1. CASE base = 0
      <3>1. Retained # {} => 1 \in DOMAIN chain
        BY <1>4, <2>1
      <3>2. base + 1 = 1
        BY <2>1
      <3>3. 1 \in DOMAIN chain => chain # <<>>
        BY <1>1
      <3> QED BY <1>0, <3>1, <3>2, <3>3 DEF ChainIsLinked
    <2>2. CASE base > 0
      BY <1>0, <2>2 DEF RootIsSealed
    <2> QED BY <1>1, <2>1, <2>2
  <1>7. \A i \in Retained : i + 1 \in Retained =>
          IF chain[i + 1].epoch = chain[i].epoch
          THEN chain[i + 1].seq = chain[i].seq + 1
          ELSE /\ chain[i + 1].epoch = chain[i].epoch + 1
               /\ chain[i + 1].seq = 1
    <2> SUFFICES ASSUME NEW i \in Retained, i + 1 \in Retained
                 PROVE  IF chain[i + 1].epoch = chain[i].epoch
                        THEN chain[i + 1].seq = chain[i].seq + 1
                        ELSE /\ chain[i + 1].epoch = chain[i].epoch + 1
                             /\ chain[i + 1].seq = 1
      OBVIOUS
    <2>1. i \in DOMAIN chain /\ i + 1 \in DOMAIN chain
      BY <1>4
    <2>2. chain[i] \in Event
      BY <1>1, <2>1
    <2>3. chain[i].epoch \in Nat
      BY <2>2, AuditChainAssumption DEF Event, Versions
    <2>4. \/ chain[i + 1].epoch = chain[i].epoch /\ chain[i + 1].seq = chain[i].seq + 1
          \/ chain[i + 1].epoch = chain[i].epoch + 1 /\ chain[i + 1].seq = 1
      BY <1>0, <2>1 DEF ChainIsLinked
    <2> QED BY <2>3, <2>4
  <1> QED BY <1>5, <1>6, <1>7 DEF RetainedChainVerifies, verify_chain

\* Whatever rotations, truncations, key purges and crashes came before, what retention left of
\* the chain verifies from its signed root, and every key it needs can be loaded
\* (purge_retired_keys, retention.py; verify_chain, chain.py).
THEOREM ChainAlwaysVerifies == Spec => []RetainedChainVerifies
  <1>1. AuditInvariant => RetainedChainVerifies
    BY VerifiesNow
  <1> QED BY <1>1, AuditInductive, PTL

\* A running daemon whose latch is clear accepts a write only over an anchor that names the head,
\* but for a failure that the cutover's own hold masked (integrity.py, state.py).
THEOREM StaleIsHeld == Spec => []StaleAnchorIsHeld
  <1>1. AuditInvariant => StaleAnchorIsHeld
    BY DEF AuditInvariant, AnchorIsSound, StaleAnchorIsHeld, Owing
  <1> QED BY <1>1, AuditInductive, PTL

\* A cutover interrupted anywhere and resumed binds one seal once, with one genesis event, and
\* cuts the legacy clients off only behind an anchored chain (advance_legacy, advance_comms).
THEOREM SealBoundOnce == Spec => []OneLineage
  <1>1. AuditInvariant => OneLineage
    BY DEF AuditInvariant, LineageIsSound, OneLineage
  <1> QED BY <1>1, AuditInductive, PTL

\* Only a refresh or a start moves the anchor, and it moves it to the head.
LEMMA AnchorMoves ==
    ASSUME AuditInvariant, [Next]_vars, anchor' # anchor
    PROVE  chain # <<>> /\ anchor' = head
  <1>1. CASE new_effect \/ recording \/ audit_repair \/ record_purge
    BY <1>1 DEF new_effect, recording, audit_repair, record_purge, Appending
  <1>2. CASE refresh
    BY <1>2 DEF refresh, AuditInvariant, OperationIsSound, Owing
  <1>3. CASE refresh_fails
    BY <1>3 DEF refresh_fails, AuditInvariant, OperationIsSound, Owing
  <1>4. CASE clear_degraded \/ write_version \/ activate_in_tx \/ truncate \/ purge_retired_keys
             \/ destroy
    BY <1>4 DEF clear_degraded, write_version, activate_in_tx, truncate, purge_retired_keys,
                destroy
  <1>5. CASE Cutover
    BY <1>5 DEF Cutover, enter, drain, verify_legacy, seal, record_seal, anchor_legacy,
                comms_genesis, resume_genesis, set_anchored, revoke_legacy, record_revoked,
                complete, release_writes
  <1>6. CASE start
    <2>1. PICK d : d = derive_integrity
      OBVIOUS
    <2> QED BY <1>6, <2>1 DEF start
  <1>7. CASE start_refused
    BY <1>7 DEF start_refused
  <1>8. CASE crash \/ restore_older_copy \/ restore_legacy
    BY <1>8 DEF crash, restore_older_copy, restore_legacy
  <1>9. CASE audit_verify \/ UNCHANGED vars
    BY <1>9 DEF audit_verify, vars
  <1> QED BY <1>1, <1>2, <1>3, <1>4, <1>5, <1>6, <1>7, <1>8, <1>9 DEF Next

\* The anchor goes from one event of the chain to a later one and never back, unless comms.db was
\* put back from an older copy (writer.py).
THEOREM AnchorNeverRetreats == Spec => AnchorOnlyAdvances
  <1>1. AuditInvariant /\ [Next]_vars => [Advances]_vars
    <2> SUFFICES ASSUME AuditInvariant, [Next]_vars, anchor # anchor', anchor # NoEvent, ~lost
                 PROVE  anchor' # NoEvent /\ Before(anchor, anchor')
      BY DEF Advances
    <2>1. chain # <<>> /\ anchor' = head
      BY AnchorMoves
    <2>2. TypeOK
      BY DEF AuditInvariant
    <2>3. Len(chain) \in DOMAIN chain /\ DOMAIN chain = 1..Len(chain) /\ Len(chain) \in Nat
          /\ head = chain[Len(chain)] /\ head # NoEvent
      BY <2>1, <2>2, HeadIsLast
    <2>4. PICK i \in DOMAIN chain : chain[i] = anchor
      BY DEF AuditInvariant, AnchorIsSound
    <2>5. i < Len(chain)
      BY <2>1, <2>3, <2>4
    <2>6. Before(chain[i], chain[Len(chain)])
      BY <2>3, <2>4, <2>5 DEF AuditInvariant, ChainIsLinked
    <2>7. Before(anchor, head)
      BY <2>3, <2>4, <2>6
    <2> QED BY <2>1, <2>3, <2>7 DEF Before
  <1> QED BY <1>1, AuditInductive, PTL DEF Spec, AnchorOnlyAdvances
=============================================================================
