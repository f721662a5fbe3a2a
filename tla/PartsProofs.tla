---------------------------- MODULE PartsProofs -----------------------------
(***************************************************************************)
(* Proofs about four parts of the installation: who may come in (Access),  *)
(* who is written to (Directory), what is published at Instagram           *)
(* (Instagram) and what the WhatsApp vault takes in and lets out (Vault).  *)
(* They share no state; each section below is about one of them.           *)
(*                                                                         *)
(* Access, for any clients, requests, approvals, tokens and owner's        *)
(* commands: one live refresh token per approval, and nothing that is      *)
(* accepted predates a command that was meant to end it.  The four doors   *)
(* share the owner's commands only.  Every step is one of the owner, which *)
(* counts a cut and moves nobody's grants, or it leaves the owner's tables *)
(* alone and concerns one door.                                            *)
(*                                                                         *)
(* Directory, for any locations, people, audiences, identities and         *)
(* creations: member audiences never form a cycle, nothing is sent twice   *)
(* to one phone or to one that opted out, a created group is filed once,   *)
(* and the check of a job's origin before its send agrees with the         *)
(* resolution.                                                             *)
(*                                                                         *)
(* Instagram, for any accounts, requests, users and listings: a container  *)
(* becomes one post at most, the ledger and the recorded outcomes are      *)
(* true, a container no row names is owed by a request of unknown outcome, *)
(* the budget of every account is kept, and a token acts for its own       *)
(* account only.                                                           *)
(*                                                                         *)
(* Vault, for any devices, senders, envelopes, exports and grants: a draft *)
(* goes out once, an acknowledged webhook is kept once or lies in the dead *)
(* letter table, imports add up, a grant has one live pair of tokens, and  *)
(* a key opens the database it made.                                       *)
(***************************************************************************)
EXTENDS Access, Directory, Instagram, Vault, FiniteSetTheorems, SequenceTheorems, WellFoundedInduction,
        TLAPS

-----------------------------------------------------------------------------
(* What a part of the invariant depends on.                                *)

\* The types of the tables each door keeps.
OwnerTypes ==
    /\ door \in Doors /\ epoch \in Nat \ {0} /\ signing \in Nat /\ cursorKey \in Nat
    /\ enabled \in [Everybody -> BOOLEAN] /\ seed \in [Local -> Nat]
    /\ cuts \in [Cuttable -> Nat]
LocalTypes ==
    /\ proxy \in [Local -> [seed : Nat, epoch : Nat]]
    /\ lease \in [Local -> {None} \cup
          [seed : Nat, sec : Nat, live : BOOLEAN, since : [Cuttable -> Nat]]]
GrantTypes ==
    /\ approvals \subseteq 1..approved /\ codes \subseteq 1..approved
    /\ tokens \in Seq(Token) /\ Len(tokens) <= MaxTokens
    /\ request \in [Requests -> {None} \cup [kind : {"code", "refresh"}, of : Nat]]
    /\ approved \in 0..MaxApprovals /\ spent \subseteq 1..Len(tokens)
BearerTypes == bearer \subseteq [key : Nat, sec : Nat, since : [Cuttable -> Nat]]
ContextTypes ==
    /\ handles \subseteq Handle /\ cursors \subseteq Handle
    /\ held \subseteq [kind : {"handle", "cursor"}, row : Handle]

GrantsSound ==
    GrantTypes /\ FamiliesAreApproved /\ FamiliesAreChains /\ RequestsNameTokens

\* The invariant is that of the doors and of the owner's tables.
DoorsSound ==
    /\ OwnerTypes /\ CutsAreCounted
    /\ LocalTypes /\ LeasesAreDated
    /\ GrantsSound
    /\ BearerTypes /\ BearersAreDated
    /\ ContextTypes /\ HandlesAreDated

\* It may be read door by door, before a step and after it.
LEMMA InvariantByDoor ==
    (AccessInvariant <=> DoorsSound) /\ (AccessInvariant' <=> DoorsSound')
  BY DEF AccessInvariant, DoorsSound, GrantsSound, TypeOK, OwnerTypes, LocalTypes,
         GrantTypes, BearerTypes, ContextTypes

\* A grant is none of the owner's tables.
LEMMA GrantsUntouched ==
    ASSUME GrantsSound,
           UNCHANGED <<approvals, codes, tokens, request, approved, spent>>
    PROVE  GrantsSound'
  BY DEF GrantsSound, GrantTypes, FamiliesAreApproved, FamiliesAreChains, RequestsNameTokens

\* Leases are compared with the owner's tables only.
LEMMA LeasesUntouched ==
    ASSUME LocalTypes, LeasesAreDated, UNCHANGED <<proxy, lease, seed, epoch, cuts>>
    PROVE  LocalTypes' /\ LeasesAreDated'
  BY DEF LocalTypes, LeasesAreDated

\* Access tokens are compared with the cuts of the remote client only.
LEMMA BearersUntouched ==
    ASSUME BearerTypes, BearersAreDated, UNCHANGED <<bearer, cuts>>
    PROVE  BearerTypes' /\ BearersAreDated'
  BY DEF BearerTypes, BearersAreDated

\* Handles are compared with the cursor key only.
LEMMA HandlesUntouched ==
    ASSUME ContextTypes, HandlesAreDated, UNCHANGED <<handles, cursors, held, cursorKey>>
    PROVE  ContextTypes' /\ HandlesAreDated'
  BY DEF ContextTypes, HandlesAreDated, Dated

\* The owner's tables.
LEMMA OwnerUntouched ==
    ASSUME OwnerTypes, CutsAreCounted, UNCHANGED owner
    PROVE  OwnerTypes' /\ CutsAreCounted'
  BY DEF OwnerTypes, CutsAreCounted, owner

-----------------------------------------------------------------------------
(* The owner's commands.                                                   *)

\* A cut adds one to one target and so makes nothing newer than it was.
LEMMA CutGrows ==
    ASSUME OwnerTypes, NEW x \in Cuttable, Cut(x)
    PROVE  /\ cuts' \in [Cuttable -> Nat]
           /\ cuts'[x] = cuts[x] + 1
           /\ \A y \in Cuttable : y # x => cuts'[y] = cuts[y]
           /\ \A y \in Cuttable : cuts[y] <= cuts'[y]
  <1>1. cuts' = [cuts EXCEPT ![x] = cuts[x] + 1]
    BY Zenon DEF Cut
  <1> QED
    BY <1>1 DEF OwnerTypes

\* Leases and access tokens stay dated when cuts, seeds and the epoch grow.
LEMMA LeasesStayDated ==
    ASSUME LocalTypes, LeasesAreDated, OwnerTypes, OwnerTypes', UNCHANGED local,
           \A y \in Cuttable : cuts[y] <= cuts'[y],
           \A c \in Local : seed[c] <= seed'[c], epoch <= epoch'
    PROVE  LocalTypes' /\ LeasesAreDated'
  <1>1. LocalTypes'
    BY DEF LocalTypes, local
  <1>2. ASSUME NEW c \in Local
        PROVE  /\ proxy'[c].seed <= seed'[c] /\ proxy'[c].epoch <= epoch'
               /\ lease'[c] # None =>
                     /\ \A x \in Cuttable : lease'[c].since[x] <= cuts'[x]
                     /\ lease'[c].sec <= 1 + lease'[c].since["epoch"]
                     /\ lease'[c].seed <= 1 + lease'[c].since[c]
    <2>1. proxy' = proxy /\ lease' = lease
      BY DEF local
    <2>2. proxy[c].seed \in Nat /\ proxy[c].epoch \in Nat /\ seed[c] \in Nat /\ seed'[c] \in Nat
          /\ epoch \in Nat /\ epoch' \in Nat
      BY DEF LocalTypes, OwnerTypes
    <2>3. proxy'[c].seed <= seed'[c] /\ proxy'[c].epoch <= epoch'
      BY <2>1, <2>2 DEF LeasesAreDated
    <2>4. ASSUME lease[c] # None, NEW x \in Cuttable PROVE lease[c].since[x] <= cuts'[x]
      <3>1. lease[c].since[x] \in Nat /\ cuts[x] \in Nat /\ cuts'[x] \in Nat
        BY <2>4 DEF LocalTypes, OwnerTypes
      <3>2. lease[c].since[x] <= cuts[x]
        BY <2>4 DEF LeasesAreDated
      <3> QED BY <3>1, <3>2
    <2> QED BY <2>1, <2>3, <2>4 DEF LeasesAreDated
  <1> QED
    BY <1>1, <1>2 DEF LeasesAreDated

\* Access tokens stay dated when cuts grow.
LEMMA BearersStayDated ==
    ASSUME BearerTypes, BearersAreDated, OwnerTypes, OwnerTypes', bearer' = bearer,
           \A y \in Cuttable : cuts[y] <= cuts'[y]
    PROVE  BearerTypes' /\ BearersAreDated'
  <1>1. BearerTypes'
    BY DEF BearerTypes
  <1>2. ASSUME NEW t \in bearer PROVE t.since[Remote] <= cuts'[Remote]
    <2>1. Remote \in Cuttable
      BY DEF Cuttable, Everybody
    <2>2. t.since[Remote] \in Nat /\ cuts[Remote] \in Nat /\ cuts'[Remote] \in Nat
      BY <2>1 DEF BearerTypes, OwnerTypes
    <2>3. t.since[Remote] <= cuts[Remote]
      BY DEF BearersAreDated
    <2> QED BY <2>1, <2>2, <2>3
  <1> QED
    BY <1>1, <1>2 DEF BearersAreDated

\* Every command of the owner counts a cut and keeps the invariant.
LEMMA OwnerStep ==
    ASSUME AccessInvariant, Owner
    PROVE  AccessInvariant'
  <1> USE AccessAssumption
  <1>1. /\ OwnerTypes /\ CutsAreCounted /\ LocalTypes /\ LeasesAreDated /\ GrantsSound
        /\ BearerTypes /\ BearersAreDated /\ ContextTypes /\ HandlesAreDated
    BY InvariantByDoor DEF DoorsSound
  <1>2. /\ "epoch" \in Cuttable /\ "signing" \in Cuttable /\ "cursor" \in Cuttable
        /\ Everybody \subseteq Cuttable /\ Remote \in Everybody /\ Local \subseteq Everybody
    BY DEF Cuttable, Everybody
  <1> DEFINE Sound ==
           /\ OwnerTypes' /\ CutsAreCounted'
           /\ \A y \in Cuttable : cuts[y] <= cuts'[y]
           /\ \A c \in Local : seed[c] <= seed'[c]
           /\ epoch <= epoch'
           /\ UNCHANGED <<local, oauth, held>>
           /\ \/ UNCHANGED <<handles, cursors, cursorKey>>
              \/ handles' = {} /\ cursors' = {}
  <1>3. ASSUME Sound PROVE AccessInvariant'
    <2>1. GrantsSound'
      BY <1>1, <1>3, GrantsUntouched DEF oauth
    <2>2. LocalTypes' /\ LeasesAreDated'
      BY <1>1, <1>3, LeasesStayDated
    <2>3. BearerTypes' /\ BearersAreDated'
      BY <1>1, <1>3, BearersStayDated DEF oauth
    <2>4. ContextTypes' /\ HandlesAreDated'
      <3>1. CASE UNCHANGED <<handles, cursors, cursorKey>>
        BY <1>1, <1>3, <3>1, HandlesUntouched
      <3>2. CASE handles' = {} /\ cursors' = {}
        BY <1>1, <1>3, <3>2 DEF ContextTypes, HandlesAreDated
      <3> QED BY <1>3, <3>1, <3>2
    <2> QED
      BY <1>3, <2>1, <2>2, <2>3, <2>4, InvariantByDoor DEF DoorsSound
  <1>4. ASSUME bump_security_epoch PROVE Sound
    <2>1. /\ Cut("epoch") /\ epoch' = epoch + 1
          /\ UNCHANGED <<door, enabled, seed, signing, cursorKey, local, oauth, context>>
      BY <1>4, Zenon DEF bump_security_epoch
    <2>2. /\ cuts' \in [Cuttable -> Nat] /\ cuts'["epoch"] = cuts["epoch"] + 1
          /\ \A y \in Cuttable : y # "epoch" => cuts'[y] = cuts[y]
          /\ \A y \in Cuttable : cuts[y] <= cuts'[y]
      BY <1>1, <1>2, <2>1, CutGrows
    <2>3. OwnerTypes'
      BY <1>1, <2>1, <2>2 DEF OwnerTypes
    <2>4. CutsAreCounted'
      BY <1>1, <1>2, <2>1, <2>2 DEF CutsAreCounted, OwnerTypes
    <2> QED
      BY <1>1, <2>1, <2>2, <2>3, <2>4 DEF OwnerTypes, context
  <1>5. ASSUME rotate_signing PROVE Sound
    <2>1. /\ Cut("signing") /\ signing' = signing + 1
          /\ UNCHANGED <<door, epoch, enabled, seed, cursorKey, local, oauth, context>>
      BY <1>5, Zenon DEF rotate_signing
    <2>2. /\ cuts' \in [Cuttable -> Nat] /\ cuts'["signing"] = cuts["signing"] + 1
          /\ \A y \in Cuttable : y # "signing" => cuts'[y] = cuts[y]
          /\ \A y \in Cuttable : cuts[y] <= cuts'[y]
      BY <1>1, <1>2, <2>1, CutGrows
    <2>3. OwnerTypes'
      BY <1>1, <2>1, <2>2 DEF OwnerTypes
    <2>4. CutsAreCounted'
      BY <1>1, <1>2, <2>1, <2>2 DEF CutsAreCounted, OwnerTypes
    <2> QED
      BY <1>1, <2>1, <2>2, <2>3, <2>4 DEF OwnerTypes, context
  <1>6. ASSUME rotate_cursor_key PROVE Sound
    <2>1. /\ Cut("cursor") /\ cursorKey' = cursorKey + 1 /\ handles' = {} /\ cursors' = {}
          /\ UNCHANGED <<door, epoch, enabled, seed, signing, local, oauth, held>>
      BY <1>6, Zenon DEF rotate_cursor_key
    <2>2. /\ cuts' \in [Cuttable -> Nat] /\ cuts'["cursor"] = cuts["cursor"] + 1
          /\ \A y \in Cuttable : y # "cursor" => cuts'[y] = cuts[y]
          /\ \A y \in Cuttable : cuts[y] <= cuts'[y]
      BY <1>1, <1>2, <2>1, CutGrows
    <2>3. OwnerTypes'
      BY <1>1, <2>1, <2>2 DEF OwnerTypes
    <2>4. CutsAreCounted'
      BY <1>1, <1>2, <2>1, <2>2 DEF CutsAreCounted, OwnerTypes
    <2> QED
      BY <1>1, <2>1, <2>2, <2>3, <2>4 DEF OwnerTypes
  <1>7. ASSUME NEW c \in Everybody, disable_client(c)
        PROVE  Sound
    <2>1. /\ Cut(c) /\ enabled' = [enabled EXCEPT ![c] = FALSE]
          /\ UNCHANGED <<door, epoch, seed, signing, cursorKey, local, oauth, context>>
      BY <1>7, Zenon DEF disable_client
    <2>2. /\ cuts' \in [Cuttable -> Nat] /\ cuts'[c] = cuts[c] + 1
          /\ \A y \in Cuttable : y # c => cuts'[y] = cuts[y]
          /\ \A y \in Cuttable : cuts[y] <= cuts'[y]
      BY <1>1, <1>2, <2>1, CutGrows
    <2>3. OwnerTypes'
      BY <1>1, <2>1, <2>2 DEF OwnerTypes
    <2>4. CutsAreCounted'
      <3>1. c \notin {"epoch", "signing", "cursor"}
        OBVIOUS
      <3>2. \A d \in Local : seed'[d] <= 1 + cuts'[d] /\ (enabled'[d] => seed'[d] = 1 + cuts'[d])
        BY <1>1, <1>2, <2>1, <2>2 DEF CutsAreCounted, OwnerTypes
      <3> QED
        BY <1>1, <1>2, <2>1, <2>2, <3>1, <3>2 DEF CutsAreCounted, OwnerTypes
    <2> QED
      BY <1>1, <2>1, <2>2, <2>3, <2>4 DEF OwnerTypes, context
  <1>8. ASSUME NEW c \in Local, rotate_client(c)
        PROVE  Sound
    <2>1. /\ enabled[c] /\ Cut(c) /\ seed' = [seed EXCEPT ![c] = seed[c] + 1]
          /\ UNCHANGED <<door, epoch, enabled, signing, cursorKey, local, oauth, context>>
      BY <1>8, Zenon DEF rotate_client
    <2>2. /\ cuts' \in [Cuttable -> Nat] /\ cuts'[c] = cuts[c] + 1
          /\ \A y \in Cuttable : y # c => cuts'[y] = cuts[y]
          /\ \A y \in Cuttable : cuts[y] <= cuts'[y]
      BY <1>1, <1>2, <2>1, CutGrows
    <2>3. OwnerTypes'
      BY <1>1, <2>1, <2>2 DEF OwnerTypes
    <2>4. CutsAreCounted'
      <3>1. c \notin {"epoch", "signing", "cursor"} /\ c # Remote
        BY DEF Everybody
      <3>2. \A d \in Local : seed'[d] <= 1 + cuts'[d] /\ (enabled'[d] => seed'[d] = 1 + cuts'[d])
        BY <1>1, <1>2, <2>1, <2>2 DEF CutsAreCounted, OwnerTypes
      <3> QED
        BY <1>1, <1>2, <2>1, <2>2, <3>1, <3>2 DEF CutsAreCounted, OwnerTypes
    <2> QED
      BY <1>1, <2>1, <2>2, <2>3, <2>4 DEF OwnerTypes, context
  <1> QED
    <2> HIDE DEF Sound
    <2> QED BY <1>3, <1>4, <1>5, <1>6, <1>7, <1>8 DEF Owner

-----------------------------------------------------------------------------
(* The local door.                                                         *)

\* A proxy reads what the owner's tables say now, and makes leases of it.
LEMMA LocalStep ==
    ASSUME AccessInvariant,
           NEW c \in Local, proxy_start(c) \/ mint(c) \/ answered(c)
    PROVE  AccessInvariant'
  <1>1. /\ OwnerTypes /\ CutsAreCounted /\ LocalTypes /\ LeasesAreDated /\ GrantsSound
        /\ BearerTypes /\ BearersAreDated /\ ContextTypes /\ HandlesAreDated
    BY InvariantByDoor DEF DoorsSound
  <1>2. UNCHANGED <<owner, oauth, context>>
    BY DEF proxy_start, mint, answered
  <1>3. /\ OwnerTypes' /\ CutsAreCounted' /\ GrantsSound'
        /\ BearerTypes' /\ BearersAreDated' /\ ContextTypes' /\ HandlesAreDated'
    BY <1>1, <1>2, OwnerUntouched, GrantsUntouched, BearersUntouched, HandlesUntouched
       DEF owner, oauth, context
  <1>4. LocalTypes' /\ LeasesAreDated'
    <2>1. UNCHANGED <<seed, epoch, cuts>>
      BY <1>2 DEF owner
    <2>2. CASE proxy_start(c)
      <3>1. /\ proxy' = [proxy EXCEPT ![c] = [seed |-> seed[c], epoch |-> 0]]
            /\ lease' = lease
        BY <2>2 DEF proxy_start
      <3> QED
        BY <1>1, <2>1, <3>1 DEF LocalTypes, LeasesAreDated, OwnerTypes
    <2>3. CASE mint(c)
      <3>1. PICK sec \in {epoch, proxy[c].epoch} \ {0} :
               /\ proxy' = [proxy EXCEPT ![c].epoch = sec]
               /\ lease' = [lease EXCEPT ![c] = [seed |-> proxy[c].seed, sec |-> sec,
                                                 live |-> TRUE, since |-> cuts]]
        BY <2>3 DEF mint
      <3>2. sec \in Nat /\ sec <= epoch /\ epoch = 1 + cuts["epoch"]
            /\ seed[c] <= 1 + cuts[c] /\ proxy[c].seed <= seed[c] /\ proxy[c].seed \in Nat
            /\ seed[c] \in Nat /\ cuts \in [Cuttable -> Nat] /\ c \in Cuttable
        BY <1>1 DEF LocalTypes, LeasesAreDated, OwnerTypes, CutsAreCounted, Cuttable, Everybody
      <3>3. LocalTypes'
        BY <1>1, <3>1, <3>2 DEF LocalTypes
      <3>4. lease'[c] = [seed |-> proxy[c].seed, sec |-> sec, live |-> TRUE, since |-> cuts]
            /\ proxy'[c] = [seed |-> proxy[c].seed, epoch |-> sec]
            /\ \A d \in Local : d # c => lease'[d] = lease[d] /\ proxy'[d] = proxy[d]
        BY <1>1, <3>1 DEF LocalTypes
      <3> QED
        BY <1>1, <2>1, <3>2, <3>3, <3>4 DEF LeasesAreDated
    <2>4. CASE answered(c)
      <3>1. lease' = [lease EXCEPT ![c] = None] /\ proxy' = proxy
        BY <2>4 DEF answered
      <3> QED
        BY <1>1, <2>1, <3>1 DEF LocalTypes, LeasesAreDated
    <2> QED
      BY <2>2, <2>3, <2>4
  <1> QED
    BY <1>3, <1>4, InvariantByDoor DEF DoorsSound

-----------------------------------------------------------------------------
(* The remote door.                                                        *)

\* Rows in which tokens were used, revoked or expired, and nothing else.
Marks(revised) ==
    /\ revised \in Seq(Token) /\ Len(revised) = Len(tokens)
    /\ \A i \in 1..Len(tokens) :
          /\ revised[i].family = tokens[i].family
          /\ tokens[i].used => revised[i].used
          /\ tokens[i].revoked => revised[i].revoked

\* A token's row has its fields.
LEMMA TokenRow ==
    ASSUME GrantsSound, NEW i \in 1..Len(tokens)
    PROVE  /\ tokens[i] \in Token
           /\ tokens[i].family \in Nat /\ tokens[i].used \in BOOLEAN
           /\ tokens[i].revoked \in BOOLEAN
           /\ [tokens[i] EXCEPT !.used = TRUE] \in Token
           /\ [tokens[i] EXCEPT !.live = FALSE] \in Token
           /\ [tokens[i] EXCEPT !.revoked = TRUE] \in Token
  <1>1. tokens[i] \in Token
    BY DEF GrantsSound, GrantTypes
  <1> QED
    BY <1>1 DEF Token

\* The marks the daemon makes: none, a use, an expiry.
LEMMA MarksOfOne ==
    ASSUME GrantsSound
    PROVE  /\ Marks(tokens)
           /\ \A i \in 1..Len(tokens) :
                 /\ Marks([tokens EXCEPT ![i].used = TRUE])
                 /\ Marks([tokens EXCEPT ![i].live = FALSE])
                 /\ [tokens EXCEPT ![i].used = TRUE][i].used
  <1>1. tokens \in Seq(Token)
    BY DEF GrantsSound, GrantTypes
  <1>2. Marks(tokens)
    BY <1>1 DEF Marks
  <1>3. ASSUME NEW i \in 1..Len(tokens)
        PROVE  /\ Marks([tokens EXCEPT ![i].used = TRUE])
               /\ [tokens EXCEPT ![i].used = TRUE][i].used
    <2>1. [tokens[i] EXCEPT !.used = TRUE] \in Token
      BY TokenRow
    <2> QED BY <1>1, <2>1 DEF Marks, Token
  <1>4. ASSUME NEW i \in 1..Len(tokens)
        PROVE  Marks([tokens EXCEPT ![i].live = FALSE])
    <2>1. [tokens[i] EXCEPT !.live = FALSE] \in Token
      BY TokenRow
    <2> QED BY <1>1, <2>1 DEF Marks, Token
  <1> QED
    BY <1>2, <1>3, <1>4

\* revoke_family marks every token of the family.
LEMMA MarksOfFamily ==
    ASSUME GrantsSound, NEW i \in 1..Len(tokens)
    PROVE  /\ Marks(revoke_family(tokens, i))
           /\ \A j \in 1..Len(tokens) :
                 tokens[j].family = tokens[i].family => revoke_family(tokens, i)[j].revoked
  <1> DEFINE revised == revoke_family(tokens, i)
  <1>1. tokens \in Seq(Token) /\ Len(tokens) \in Nat /\ DOMAIN tokens = 1..Len(tokens)
    BY DEF GrantsSound, GrantTypes
  <1>2. ASSUME NEW j \in 1..Len(tokens)
        PROVE  /\ revised[j] = IF tokens[j].family = tokens[i].family
                            THEN [tokens[j] EXCEPT !.revoked = TRUE] ELSE tokens[j]
               /\ revised[j] \in Token
    <2>1. revised[j] = IF tokens[j].family = tokens[i].family
                    THEN [tokens[j] EXCEPT !.revoked = TRUE] ELSE tokens[j]
      BY <1>1 DEF revoke_family
    <2>2. tokens[j] \in Token /\ [tokens[j] EXCEPT !.revoked = TRUE] \in Token
      BY TokenRow
    <2> QED BY <2>1, <2>2
  <1>3. revised = [j \in 1..Len(tokens) |-> revised[j]]
    BY <1>1 DEF revoke_family
  <1> HIDE DEF revised
  <1>4. revised \in [1..Len(tokens) -> Token]
    BY <1>2, <1>3
  <1>5. revised \in Seq(Token) /\ Len(revised) = Len(tokens)
    BY <1>1, <1>4
  <1>6. ASSUME NEW j \in 1..Len(tokens)
        PROVE  /\ revised[j].family = tokens[j].family
               /\ tokens[j].used => revised[j].used
               /\ tokens[j].revoked => revised[j].revoked
               /\ tokens[j].family = tokens[i].family => revised[j].revoked
    <2>1. tokens[j] \in Token
      BY <1>1
    <2> QED BY <1>2, <2>1 DEF Token
  <1>7. Marks(revised)
    BY <1>5, <1>6 DEF Marks
  <1> QED
    BY <1>6, <1>7 DEF revised

\* Requests still name tokens they may name.
RequestsSound ==
    /\ request \in [Requests -> {None} \cup [kind : {"code", "refresh"}, of : Nat]]
    /\ \A q \in Requests : request[q].kind = "refresh" => request[q].of \in DOMAIN tokens

\* Marking tokens, spending approvals and codes, and moving requests on keep
\* the grants sound, if a replay revokes its family.
LEMMA TokensMarked ==
    ASSUME GrantsSound, Marks(tokens'), RequestsSound', approved' = approved,
           approvals' \subseteq approvals,
           codes' \subseteq approvals \cup codes, approvals' \cap codes' = {},
           spent' \subseteq 1..Len(tokens),
           \A i \in spent' \ spent : \A j \in 1..Len(tokens) :
              tokens[j].family = tokens[i].family => tokens'[j].revoked
    PROVE  GrantsSound'
  <1>1. /\ tokens \in Seq(Token) /\ DOMAIN tokens = 1..Len(tokens)
        /\ tokens' \in Seq(Token) /\ Len(tokens') = Len(tokens)
        /\ DOMAIN tokens' = 1..Len(tokens)
    BY DEF GrantsSound, GrantTypes, Marks
  <1>2. GrantTypes'
    BY <1>1 DEF GrantsSound, GrantTypes, RequestsSound
  <1>3. FamiliesAreApproved'
    BY <1>1 DEF GrantsSound, GrantTypes, FamiliesAreApproved, Marks
  <1>4. FamiliesAreChains'
    BY <1>1 DEF GrantsSound, GrantTypes, FamiliesAreChains, Marks
  <1>5. RequestsNameTokens'
    BY DEF RequestsSound, RequestsNameTokens
  <1> QED
    BY <1>2, <1>3, <1>4, <1>5 DEF GrantsSound

\* A new token joins a family whose tokens are all used up and of which none
\* was replayed.
LEMMA TokenIssued ==
    ASSUME GrantsSound, NEW revised, Marks(revised), NEW f \in 1..approved,
           tokens' = issued(revised, f), epoch \in Nat, Len(tokens) < MaxTokens, MaxTokens \in Nat,
           RequestsSound', approved' = approved,
           approvals' = approvals, codes' \subseteq codes,
           f \notin approvals' \cup codes', spent' = spent,
           \A i \in 1..Len(tokens) : revised[i].family = f =>
              (revised[i].used \/ revised[i].revoked) /\ i \notin spent
    PROVE  GrantsSound'
  <1> DEFINE new == [family |-> f, epoch |-> epoch, live |-> TRUE,
                     used |-> FALSE, revoked |-> FALSE]
             n == Len(tokens)
  <1>1. /\ tokens \in Seq(Token) /\ DOMAIN tokens = 1..n /\ n \in Nat /\ approved \in Nat
        /\ revised \in Seq(Token) /\ Len(revised) = n /\ DOMAIN revised = 1..n
    BY DEF GrantsSound, GrantTypes, Marks
  <1>2. new \in Token /\ new.family = f /\ tokens' = Append(revised, new)
    BY <1>1 DEF Token, issued
  <1> HIDE DEF new
  <1>3. /\ tokens' \in Seq(Token) /\ Len(tokens') = n + 1 /\ DOMAIN tokens' = 1..n + 1
        /\ tokens'[n + 1] = new
        /\ \A i \in 1..n : tokens'[i] = revised[i]
    BY <1>1, <1>2
  <1>4. \A i \in 1..n : /\ tokens'[i].family = tokens[i].family
                        /\ tokens[i].used => tokens'[i].used
                        /\ tokens[i].revoked => tokens'[i].revoked
    BY <1>3 DEF Marks
  <1>5. GrantTypes'
    BY <1>1, <1>3 DEF GrantsSound, GrantTypes, RequestsSound
  <1>6. FamiliesAreApproved'
    <2>1. \A i \in 1..n + 1 : tokens'[i].family \in 1..approved
      BY <1>1, <1>2, <1>3, <1>4 DEF GrantsSound, FamiliesAreApproved
    <2>2. \A a \in approvals' \cup codes', i \in 1..n + 1 : tokens'[i].family # a
      BY <1>1, <1>2, <1>3, <1>4 DEF GrantsSound, FamiliesAreApproved
    <2> QED
      BY <1>3, <2>1, <2>2 DEF GrantsSound, FamiliesAreApproved
  <1>7. FamiliesAreChains'
    <2>1. ASSUME NEW i \in 1..n + 1, NEW j \in 1..n + 1, i < j,
                 tokens'[i].family = tokens'[j].family
          PROVE  tokens'[i].used \/ tokens'[i].revoked
      <3>1. i \in 1..n
        BY <1>1, <2>1
      <3>2. CASE j = n + 1
        BY <1>2, <1>3, <2>1, <3>1, <3>2
      <3>3. CASE j \in 1..n
        BY <1>1, <1>4, <2>1, <3>1, <3>3 DEF GrantsSound, FamiliesAreChains
      <3> QED BY <1>1, <3>2, <3>3
    <2>2. ASSUME NEW i \in spent, NEW j \in 1..n + 1, tokens'[i].family = tokens'[j].family
          PROVE  tokens'[j].revoked
      <3>1. i \in 1..n
        BY DEF GrantsSound, GrantTypes
      <3>2. CASE j = n + 1
        BY <1>2, <1>3, <2>2, <3>1, <3>2
      <3>3. CASE j \in 1..n
        BY <1>1, <1>4, <2>2, <3>1, <3>3 DEF GrantsSound, FamiliesAreChains
      <3> QED BY <1>1, <3>2, <3>3
    <2> QED
      BY <1>3, <2>1, <2>2 DEF FamiliesAreChains
  <1>8. RequestsNameTokens'
    BY DEF RequestsSound, RequestsNameTokens
  <1> QED
    BY <1>5, <1>6, <1>7, <1>8 DEF GrantsSound

\* An access token is issued under the present key, epoch and cuts.
LEMMA BearersJoined ==
    ASSUME OwnerTypes, CutsAreCounted, BearerTypes, BearersAreDated,
           UNCHANGED owner, bearer' \subseteq bearer \cup {AccessToken}
    PROVE  BearerTypes' /\ BearersAreDated'
  <1>1. /\ AccessToken \in [key : Nat, sec : Nat, since : [Cuttable -> Nat]]
        /\ AccessToken.key = signing /\ AccessToken.sec = epoch /\ AccessToken.since = cuts
    BY DEF AccessToken, OwnerTypes
  <1>2. cuts[Remote] \in Nat /\ cuts' = cuts
    BY DEF OwnerTypes, Cuttable, Everybody, owner
  <1>3. BearerTypes'
    BY <1>1 DEF BearerTypes
  <1>4. ASSUME NEW t \in bearer'
        PROVE  /\ t.since[Remote] <= cuts'[Remote]
               /\ t.sec = 1 + t.since["epoch"] /\ t.key = 1 + t.since["signing"]
    <2>1. CASE t \in bearer
      BY <1>2, <2>1 DEF BearersAreDated
    <2>2. CASE t = AccessToken
      BY <1>1, <1>2, <2>2 DEF CutsAreCounted
    <2> QED BY <2>1, <2>2
  <1> QED
    BY <1>3, <1>4 DEF BearersAreDated

\* What is left to prove of a step at the remote door.
LEMMA RemoteStep ==
    ASSUME AccessInvariant, GrantsSound', UNCHANGED <<owner, local, context>>,
           bearer' \subseteq bearer \cup {AccessToken}
    PROVE  AccessInvariant'
  <1>1. DoorsSound
    BY InvariantByDoor
  <1>2. OwnerTypes' /\ CutsAreCounted' /\ LocalTypes' /\ LeasesAreDated'
    BY <1>1, OwnerUntouched, LeasesUntouched DEF DoorsSound, owner, local
  <1>3. BearerTypes' /\ BearersAreDated' /\ ContextTypes' /\ HandlesAreDated'
    BY <1>1, BearersJoined, HandlesUntouched DEF DoorsSound, owner, context
  <1> QED
    BY <1>2, <1>3, InvariantByDoor DEF DoorsSound

\* The owner approves, and an approval becomes a code or is lost.
LEMMA ApprovalStep ==
    ASSUME AccessInvariant, approve \/ \E a \in 1..MaxApprovals : authorize(a)
    PROVE  AccessInvariant'
  <1>1. GrantsSound
    BY InvariantByDoor DEF DoorsSound
  <1>2. CASE approve
    <2>1. /\ approved < MaxApprovals /\ approved' = approved + 1
          /\ approvals' = approvals \cup {approved'}
          /\ UNCHANGED <<owner, local, codes, tokens, request, bearer, spent, context>>
      BY <1>2 DEF approve
    <2>2. approved \in Nat /\ MaxApprovals \in Nat
      BY <1>1, AccessAssumption DEF GrantsSound, GrantTypes
    <2>3. GrantTypes'
      BY <1>1, <2>1, <2>2 DEF GrantsSound, GrantTypes
    <2>4. FamiliesAreApproved'
      BY <1>1, <2>1, <2>2 DEF GrantsSound, GrantTypes, FamiliesAreApproved
    <2>5. FamiliesAreChains' /\ RequestsNameTokens'
      BY <1>1, <2>1 DEF GrantsSound, FamiliesAreChains, RequestsNameTokens
    <2> QED
      BY <2>1, <2>3, <2>4, <2>5, RemoteStep DEF GrantsSound
  <1>3. ASSUME NEW a \in 1..MaxApprovals, authorize(a) PROVE AccessInvariant'
    <2>1. /\ a \in approvals /\ approvals' = approvals \ {a} /\ codes' \in {codes, codes \cup {a}}
          /\ UNCHANGED <<owner, local, tokens, request, bearer, approved, spent, context>>
      BY <1>3 DEF authorize
    <2>2. Marks(tokens')
      BY <1>1, <2>1, MarksOfOne
    <2>3. RequestsSound'
      BY <1>1, <2>1 DEF RequestsSound, GrantsSound, GrantTypes, RequestsNameTokens
    <2>4. GrantsSound'
      <3>1. codes' \subseteq approvals \cup codes /\ approvals' \cap codes' = {}
        BY <1>1, <2>1 DEF GrantsSound, FamiliesAreApproved
      <3>2. spent' = spent /\ spent \subseteq 1..Len(tokens)
        BY <1>1, <2>1 DEF GrantsSound, GrantTypes
      <3> QED
        BY <1>1, <2>1, <2>2, <2>3, <3>1, <3>2, TokensMarked
    <2> QED
      BY <2>1, <2>4, RemoteStep
  <1> QED
    BY <1>2, <1>3

\* A request that loads a grant and one that leaves it.
LEMMA RequestMoves ==
    ASSUME GrantsSound, DOMAIN tokens \subseteq DOMAIN tokens', NEW q \in Requests,
           NEW r \in {None} \cup [kind : {"code", "refresh"}, of : Nat],
           r.kind = "refresh" => r.of \in DOMAIN tokens',
           request' = [request EXCEPT ![q] = r]
    PROVE  RequestsSound'
  BY DEF RequestsSound, GrantsSound, GrantTypes, RequestsNameTokens

\* The two steps of a token request that presents a code.
LEMMA CodeStep ==
    ASSUME AccessInvariant, NEW q \in Requests,
           \/ \E a \in codes : load_authorization_code(q, a)
           \/ exchange_authorization_code(q)
    PROVE  AccessInvariant'
  <1>1. GrantsSound /\ OwnerTypes /\ MaxTokens \in Nat
    BY AccessAssumption, InvariantByDoor DEF DoorsSound
  <1>2. /\ spent \subseteq 1..Len(tokens) /\ approvals \cap codes = {}
        /\ approvals \subseteq 1..approved /\ codes \subseteq 1..approved
        /\ approved \in Nat /\ tokens \in Seq(Token) /\ DOMAIN tokens = 1..Len(tokens)
    BY <1>1 DEF GrantsSound, GrantTypes, FamiliesAreApproved
  <1>3. None \in {None} \cup [kind : {"code", "refresh"}, of : Nat] /\ None.kind # "refresh"
    BY DEF None
  <1>4. ASSUME NEW a \in codes, load_authorization_code(q, a) PROVE AccessInvariant'
    <2>1. /\ request' = [request EXCEPT ![q] = [kind |-> "code", of |-> a]]
          /\ UNCHANGED <<owner, local, approvals, codes, tokens, bearer, approved, spent, context>>
      BY <1>4 DEF load_authorization_code
    <2>2. RequestsSound'
      <3>1. [kind |-> "code", of |-> a] \in {None} \cup [kind : {"code", "refresh"}, of : Nat]
        BY <1>2
      <3> QED BY <1>1, <2>1, <3>1, RequestMoves
    <2>3. GrantsSound'
      BY <1>1, <1>2, <2>1, <2>2, MarksOfOne, TokensMarked
    <2> QED
      BY <2>1, <2>3, RemoteStep
  <1>5. ASSUME exchange_authorization_code(q) PROVE AccessInvariant'
    <2> DEFINE a == request[q].of
    <2>1. /\ Len(tokens) < MaxTokens
          /\ request' = [request EXCEPT ![q] = None]
          /\ codes' = codes \ {a}
          /\ tokens' = IF a \in codes THEN issued(tokens, a) ELSE tokens
          /\ bearer' = IF a \in codes THEN bearer \cup {AccessToken} ELSE bearer
          /\ UNCHANGED <<owner, local, approvals, approved, spent, context>>
      BY <1>5 DEF exchange_authorization_code
    <2> HIDE DEF a
    <2>2. CASE a \in codes
      <3>1. \A i \in 1..Len(tokens) : tokens[i].family # a
        BY <1>1, <1>2, <2>2 DEF GrantsSound, FamiliesAreApproved
      <3>2. a \in 1..approved /\ a \notin approvals' \cup codes' /\ codes' \subseteq codes
        BY <1>2, <2>1, <2>2
      <3>3. DOMAIN tokens \subseteq DOMAIN tokens'
        <4>1. tokens' = issued(tokens, a)
          BY <2>1, <2>2
        <4> QED BY <1>2, <4>1 DEF issued
      <3>4. RequestsSound'
        BY <1>1, <1>3, <2>1, <3>3, RequestMoves
      <3>5. GrantsSound'
        BY <1>1, <2>1, <2>2, <3>1, <3>2, <3>4, MarksOfOne, TokenIssued DEF OwnerTypes
      <3> QED
        BY <2>1, <2>2, <3>5, RemoteStep
    <2>3. CASE a \notin codes
      <3>1. RequestsSound'
        BY <1>1, <1>3, <2>1, <2>3, RequestMoves
      <3>2. GrantsSound'
        BY <1>1, <1>2, <2>1, <2>3, <3>1, MarksOfOne, TokensMarked
      <3> QED
        BY <2>1, <2>3, <3>2, RemoteStep
    <2> QED
      BY <2>2, <2>3
  <1> QED
    BY <1>4, <1>5

\* The two steps of a token request that presents a refresh token: whichever
\* meets a used one revokes its family, and a usable one is replaced.
LEMMA RefreshStep ==
    ASSUME AccessInvariant, NEW q \in Requests,
           \/ \E i \in DOMAIN tokens : load_refresh_token(q, i)
           \/ exchange_refresh_token(q)
    PROVE  AccessInvariant'
  <1>1. GrantsSound /\ OwnerTypes /\ MaxTokens \in Nat
    BY AccessAssumption, InvariantByDoor DEF DoorsSound
  <1>2. /\ spent \subseteq 1..Len(tokens) /\ approvals \cap codes = {}
        /\ tokens \in Seq(Token) /\ DOMAIN tokens = 1..Len(tokens)
        /\ request \in [Requests -> {None} \cup [kind : {"code", "refresh"}, of : Nat]]
    BY <1>1 DEF GrantsSound, GrantTypes, FamiliesAreApproved
  <1>3. None \in {None} \cup [kind : {"code", "refresh"}, of : Nat] /\ None.kind # "refresh"
    BY DEF None
  <1>4. ASSUME NEW i \in 1..Len(tokens), tokens' = revoke_family(tokens, i),
               spent' = spent \cup {i}, RequestsSound',
               UNCHANGED <<approvals, codes, approved>>
        PROVE  GrantsSound'
    BY <1>1, <1>2, <1>4, MarksOfFamily, TokensMarked
  <1>5. \A i \in 1..Len(tokens) : DOMAIN revoke_family(tokens, i) = 1..Len(tokens)
    BY <1>2 DEF revoke_family
  <1>6. ASSUME NEW i \in DOMAIN tokens, load_refresh_token(q, i) PROVE AccessInvariant'
    <2> DEFINE r == IF ~tokens[i].used /\ usable(tokens[i])
                    THEN [kind |-> "refresh", of |-> i] ELSE None
    <2>1. /\ IF tokens[i].used
             THEN tokens' = revoke_family(tokens, i) /\ spent' = spent \cup {i}
             ELSE tokens' = tokens /\ spent' = spent
          /\ request' = [request EXCEPT ![q] = r]
          /\ UNCHANGED <<owner, local, approvals, codes, bearer, approved, context>>
      BY <1>6 DEF load_refresh_token
    <2>2. r \in {None} \cup [kind : {"code", "refresh"}, of : Nat] /\ DOMAIN tokens' = DOMAIN tokens
          /\ (r.kind = "refresh" => r.of \in DOMAIN tokens')
      BY <1>2, <1>3, <1>5, <2>1
    <2> HIDE DEF r
    <2>3. RequestsSound'
      BY <1>1, <2>1, <2>2, RequestMoves
    <2>4. GrantsSound'
      <3>1. CASE tokens[i].used
        BY <1>2, <1>4, <2>1, <2>3, <3>1
      <3>2. CASE ~tokens[i].used
        BY <1>1, <1>2, <2>1, <2>3, <3>2, MarksOfOne, TokensMarked
      <3> QED BY <3>1, <3>2
    <2> QED
      BY <2>1, <2>4, RemoteStep
  <1>7. ASSUME exchange_refresh_token(q) PROVE AccessInvariant'
    <2> DEFINE i == request[q].of
               revised == [tokens EXCEPT ![i].used = TRUE]
    <2>1. /\ request[q].kind = "refresh" /\ Len(tokens) < MaxTokens
          /\ request' = [request EXCEPT ![q] = None]
          /\ IF tokens[i].used
             THEN tokens' = revoke_family(tokens, i) /\ spent' = spent \cup {i} /\ bearer' = bearer
             ELSE IF ~usable(tokens[i]) THEN UNCHANGED <<tokens, spent, bearer>>
             ELSE /\ tokens' = issued(revised, tokens[i].family) /\ spent' = spent
                  /\ bearer' = bearer \cup {AccessToken}
          /\ UNCHANGED <<owner, local, approvals, codes, approved, context>>
      BY <1>7 DEF exchange_refresh_token
    <2>2. i \in 1..Len(tokens)
      BY <1>1, <1>2, <2>1 DEF GrantsSound, RequestsNameTokens
    <2>3. Marks(revised) /\ revised[i].used
      BY <1>1, <2>2, MarksOfOne
    <2> HIDE DEF i, revised
    <2>4. CASE tokens[i].used
      <3>1. RequestsSound'
        BY <1>1, <1>2, <1>3, <1>5, <2>1, <2>2, <2>4, RequestMoves
      <3>2. GrantsSound'
        BY <1>4, <2>1, <2>2, <2>4, <3>1
      <3> QED
        BY <2>1, <2>4, <3>2, RemoteStep
    <2>5. CASE ~tokens[i].used /\ ~usable(tokens[i])
      <3>1. RequestsSound'
        BY <1>1, <1>2, <1>3, <2>1, <2>5, RequestMoves
      <3>2. GrantsSound'
        BY <1>1, <1>2, <2>1, <2>5, <3>1, MarksOfOne, TokensMarked
      <3> QED
        BY <2>1, <2>5, <3>2, RemoteStep
    <2>6. CASE ~tokens[i].used /\ usable(tokens[i])
      <3> DEFINE f == tokens[i].family
      <3>1. tokens' = issued(revised, f) /\ spent' = spent /\ bearer' = bearer \cup {AccessToken}
        BY <2>1, <2>6
      <3>2. f \in 1..approved /\ f \notin approvals \cup codes
        BY <1>1, <1>2, <2>2 DEF GrantsSound, FamiliesAreApproved
      <3>3. ASSUME NEW j \in 1..Len(tokens), revised[j].family = f
            PROVE  (revised[j].used \/ revised[j].revoked) /\ j \notin spent
        <4>1. tokens[j].family = f
          BY <2>3, <3>3 DEF Marks
        <4>2. ~tokens[i].revoked
          BY <2>6 DEF usable
        <4>3. j \notin spent
          BY <1>1, <1>2, <2>2, <4>1, <4>2 DEF GrantsSound, FamiliesAreChains
        <4>4. CASE j = i
          BY <2>3, <4>3, <4>4
        <4>5. CASE j < i
          BY <1>1, <1>2, <2>2, <2>3, <4>1, <4>3, <4>5 DEF GrantsSound, FamiliesAreChains, Marks
        <4>6. CASE i < j
          BY <1>1, <1>2, <2>2, <2>6, <4>1, <4>2, <4>6 DEF GrantsSound, FamiliesAreChains
        <4> QED
          BY <2>2, <4>4, <4>5, <4>6
      <3>4. DOMAIN tokens \subseteq DOMAIN tokens'
        <4>1. revised \in Seq(Token) /\ Len(revised) = Len(tokens)
          BY <2>3 DEF Marks
        <4> QED BY <1>2, <3>1, <4>1 DEF issued
      <3>5. RequestsSound'
        BY <1>1, <1>3, <2>1, <3>4, RequestMoves
      <3> HIDE DEF f
      <3>6. GrantsSound'
        BY <1>1, <2>1, <2>3, <3>1, <3>2, <3>3, <3>5, TokenIssued DEF OwnerTypes
      <3> QED
        BY <2>1, <3>1, <3>6, RemoteStep
    <2> QED
      BY <2>4, <2>5, <2>6
  <1> QED
    BY <1>6, <1>7

\* A stop forgets approvals, codes and requests, and may leave a token used
\* without a successor.
LEMMA RestartStep ==
    ASSUME AccessInvariant, restart
    PROVE  AccessInvariant'
  <1>1. GrantsSound
    BY InvariantByDoor DEF DoorsSound
  <1>2. spent \subseteq 1..Len(tokens) /\ DOMAIN tokens = 1..Len(tokens)
    BY <1>1 DEF GrantsSound, GrantTypes
  <1>3. /\ approvals' = {} /\ codes' = {} /\ request' = [q \in Requests |-> None]
        /\ UNCHANGED <<owner, local, bearer, approved, spent, context>>
    BY DEF restart
  <1>4. Marks(tokens')
    <2>1. \/ tokens' = tokens
          \/ \E q \in Requests : /\ request[q].kind = "refresh"
                                 /\ tokens' = [tokens EXCEPT ![request[q].of].used = TRUE]
      BY DEF restart
    <2>2. CASE tokens' = tokens
      BY <1>1, <2>2, MarksOfOne
    <2>3. ASSUME NEW q \in Requests, request[q].kind = "refresh",
                 tokens' = [tokens EXCEPT ![request[q].of].used = TRUE]
          PROVE  Marks(tokens')
      <3>1. request[q].of \in 1..Len(tokens)
        BY <1>1, <1>2, <2>3 DEF GrantsSound, RequestsNameTokens
      <3> QED BY <1>1, <2>3, <3>1, MarksOfOne
    <2> QED BY <2>1, <2>2, <2>3
  <1>5. RequestsSound'
    BY <1>3 DEF RequestsSound, None
  <1>6. GrantsSound'
    BY <1>1, <1>2, <1>3, <1>4, <1>5, TokensMarked
  <1> QED
    BY <1>3, <1>6, RemoteStep

-----------------------------------------------------------------------------
(* Handles, cursors and time.                                              *)

\* What is left to prove of a step that concerns handles and cursors.
LEMMA ContextStep ==
    ASSUME AccessInvariant, ContextTypes', HandlesAreDated',
           UNCHANGED <<owner, local, oauth>>
    PROVE  AccessInvariant'
  <1>1. DoorsSound
    BY InvariantByDoor
  <1>2. OwnerTypes' /\ CutsAreCounted' /\ LocalTypes' /\ LeasesAreDated'
    BY <1>1, OwnerUntouched, LeasesUntouched DEF DoorsSound, owner, local
  <1>3. GrantsSound' /\ BearerTypes' /\ BearersAreDated'
    BY <1>1, GrantsUntouched, BearersUntouched DEF DoorsSound, owner, oauth
  <1> QED
    BY <1>2, <1>3, InvariantByDoor DEF DoorsSound

\* A new handle is of the present epoch and key, and a cursor copies its handle.
LEMMA PagingStep ==
    ASSUME AccessInvariant, Paging
    PROVE  AccessInvariant'
  <1>1. OwnerTypes /\ CutsAreCounted /\ ContextTypes /\ HandlesAreDated
    BY InvariantByDoor DEF DoorsSound
  <1>2. ASSUME NEW c \in Everybody, open_handle(c) PROVE AccessInvariant'
    <2> DEFINE h == [client |-> c, epoch |-> epoch, key |-> cursorKey, live |-> TRUE,
                     since |-> cuts]
    <2>1. /\ handles' = handles \cup {h} /\ held' = held \cup {[kind |-> "handle", row |-> h]}
          /\ UNCHANGED <<owner, local, oauth, cursors>>
      BY <1>2 DEF open_handle
    <2>2. h \in Handle /\ Dated(h) /\ h.key = cursorKey
      BY <1>1 DEF Handle, Dated, OwnerTypes, CutsAreCounted
    <2>3. cursorKey' = cursorKey
      BY <2>1 DEF owner
    <2> HIDE DEF h
    <2>4. ContextTypes'
      BY <1>1, <2>1, <2>2 DEF ContextTypes
    <2>5. HandlesAreDated'
      BY <1>1, <2>1, <2>2, <2>3 DEF HandlesAreDated
    <2> QED
      BY <2>1, <2>4, <2>5, ContextStep
  <1>3. ASSUME NEW c \in Everybody, NEW x \in held, new_cursor(c, x.row) PROVE AccessInvariant'
    <2>1. /\ cursors' = cursors \cup RowOf(handles, x.row)
          /\ held' = held \cup {[kind |-> "cursor", row |-> x.row]}
          /\ UNCHANGED <<owner, local, oauth, handles>>
      BY <1>3 DEF new_cursor
    <2>2. x.row \in Handle /\ Dated(x.row) /\ cursorKey' = cursorKey
      BY <1>1, <2>1 DEF ContextTypes, HandlesAreDated, owner
    <2>3. RowOf(handles, x.row) \subseteq Handle
      BY <1>1 DEF RowOf, ContextTypes
    <2>4. ContextTypes'
      BY <1>1, <2>1, <2>2, <2>3 DEF ContextTypes
    <2>5. HandlesAreDated'
      BY <1>1, <2>1, <2>2 DEF HandlesAreDated
    <2> QED
      BY <2>1, <2>4, <2>5, ContextStep
  <1> QED
    BY <1>2, <1>3 DEF Paging

\* Time only takes away.
LEMMA ExpireStep ==
    ASSUME AccessInvariant, expire
    PROVE  AccessInvariant'
  <1>1. /\ OwnerTypes /\ CutsAreCounted /\ LocalTypes /\ LeasesAreDated /\ GrantsSound
        /\ BearerTypes /\ BearersAreDated /\ ContextTypes /\ HandlesAreDated
    BY InvariantByDoor DEF DoorsSound
  <1>2. /\ spent \subseteq 1..Len(tokens) /\ approvals \cap codes = {}
        /\ DOMAIN tokens = 1..Len(tokens)
    BY <1>1 DEF GrantsSound, GrantTypes, FamiliesAreApproved
  <1>3. ASSUME UNCHANGED request, DOMAIN tokens' = DOMAIN tokens PROVE RequestsSound'
    BY <1>1, <1>3 DEF RequestsSound, GrantsSound, GrantTypes, RequestsNameTokens
  <1>4. ASSUME NEW c \in Local, lease[c] # None, lease' = [lease EXCEPT ![c].live = FALSE],
               UNCHANGED <<owner, proxy, oauth, context>>
        PROVE  AccessInvariant'
    <2>1. OwnerTypes' /\ CutsAreCounted'
      BY <1>1, <1>4, OwnerUntouched
    <2>2. GrantsSound' /\ BearerTypes' /\ BearersAreDated' /\ ContextTypes' /\ HandlesAreDated'
      BY <1>1, <1>4, GrantsUntouched, BearersUntouched, HandlesUntouched
         DEF owner, oauth, context
    <2>3. lease[c] \in [seed : Nat, sec : Nat, live : BOOLEAN, since : [Cuttable -> Nat]]
      BY <1>1, <1>4 DEF LocalTypes
    <2>4. /\ [lease[c] EXCEPT !.live = FALSE] \in
                [seed : Nat, sec : Nat, live : BOOLEAN, since : [Cuttable -> Nat]]
          /\ [lease[c] EXCEPT !.live = FALSE].seed = lease[c].seed
          /\ [lease[c] EXCEPT !.live = FALSE].sec = lease[c].sec
          /\ [lease[c] EXCEPT !.live = FALSE].since = lease[c].since
      BY <2>3
    <2>5. /\ lease'[c] = [lease[c] EXCEPT !.live = FALSE]
          /\ \A d \in Local : d # c => lease'[d] = lease[d]
      BY <1>1, <1>4 DEF LocalTypes
    <2>6. LocalTypes'
      BY <1>1, <1>4, <2>4 DEF LocalTypes
    <2>7. LeasesAreDated'
      <3>1. UNCHANGED <<proxy, seed, epoch, cuts>>
        BY <1>4 DEF owner
      <3> QED
        BY <1>1, <1>4, <2>4, <2>5, <3>1 DEF LeasesAreDated
    <2> QED
      BY <2>1, <2>2, <2>6, <2>7, InvariantByDoor DEF DoorsSound
  <1>5. ASSUME NEW a, approvals' = approvals \ {a}, codes' = codes \ {a},
               UNCHANGED <<owner, local, tokens, request, bearer, approved, spent, context>>
        PROVE  AccessInvariant'
    <2>1. Marks(tokens') /\ RequestsSound'
      BY <1>1, <1>3, <1>5, MarksOfOne
    <2>2. GrantsSound'
      BY <1>1, <1>2, <1>5, <2>1, TokensMarked
    <2> QED
      BY <1>5, <2>2, RemoteStep
  <1>6. ASSUME NEW i \in DOMAIN tokens, tokens' = [tokens EXCEPT ![i].live = FALSE],
               UNCHANGED <<owner, local, approvals, codes, request, bearer, approved, spent,
                           context>>
        PROVE  AccessInvariant'
    <2>1. Marks(tokens') /\ DOMAIN tokens' = DOMAIN tokens
      BY <1>1, <1>2, <1>6, MarksOfOne
    <2>2. GrantsSound'
      BY <1>1, <1>2, <1>3, <1>6, <2>1, TokensMarked
    <2> QED
      BY <1>6, <2>2, RemoteStep
  <1>7. ASSUME NEW t \in bearer, bearer' = bearer \ {t},
               UNCHANGED <<owner, local, approvals, codes, tokens, request, approved, spent,
                           context>>
        PROVE  AccessInvariant'
    <2>1. GrantsSound'
      BY <1>1, <1>7, GrantsUntouched
    <2> QED
      BY <1>7, <2>1, RemoteStep
  <1>8. ASSUME NEW h \in handles,
               handles' = (handles \ {h}) \cup {[h EXCEPT !.live = FALSE]},
               cursors' = {[k EXCEPT !.live = FALSE] : k \in cursors},
               UNCHANGED <<owner, local, oauth, held>>
        PROVE  AccessInvariant'
    <2>1. ASSUME NEW k \in Handle
          PROVE  /\ [k EXCEPT !.live = FALSE] \in Handle
                 /\ [k EXCEPT !.live = FALSE].epoch = k.epoch
                 /\ [k EXCEPT !.live = FALSE].key = k.key
                 /\ [k EXCEPT !.live = FALSE].since = k.since
      BY DEF Handle
    <2>2. h \in Handle
      BY <1>1 DEF ContextTypes
    <2>3. ContextTypes'
      BY <1>1, <1>8, <2>1, <2>2 DEF ContextTypes
    <2>4. HandlesAreDated'
      <3>1. cursorKey' = cursorKey
        BY <1>8 DEF owner
      <3>2. Dated([h EXCEPT !.live = FALSE]) /\ [h EXCEPT !.live = FALSE].key = cursorKey
        BY <1>1, <2>1, <2>2 DEF HandlesAreDated, Dated
      <3> QED
        BY <1>1, <1>8, <3>1, <3>2 DEF HandlesAreDated
    <2> QED
      BY <1>8, <2>3, <2>4, ContextStep
  <1> QED
    BY <1>4, <1>5, <1>6, <1>7, <1>8 DEF expire

-----------------------------------------------------------------------------
(* The theorems.                                                           *)

\* The installation starts with nothing issued.
LEMMA InitSound ==
    ASSUME Init
    PROVE  AccessInvariant
  <1>1. "epoch" \in Cuttable /\ "signing" \in Cuttable /\ "cursor" \in Cuttable
        /\ Everybody \subseteq Cuttable /\ Remote \in Everybody /\ Local \subseteq Everybody
    BY DEF Cuttable, Everybody
  <1>2. OwnerTypes /\ CutsAreCounted
    BY <1>1 DEF Init, OwnerTypes, CutsAreCounted
  <1>3. LocalTypes /\ LeasesAreDated
    BY DEF Init, LocalTypes, LeasesAreDated
  <1>4. GrantsSound
    BY AccessAssumption
       DEF Init, GrantsSound, GrantTypes, FamiliesAreApproved, FamiliesAreChains,
           RequestsNameTokens, None
  <1>5. BearerTypes /\ BearersAreDated /\ ContextTypes /\ HandlesAreDated
    BY DEF Init, BearerTypes, BearersAreDated, ContextTypes, HandlesAreDated
  <1> QED
    BY <1>2, <1>3, <1>4, <1>5, InvariantByDoor DEF DoorsSound

\* Every step keeps the invariant.
LEMMA StepSound ==
    ASSUME AccessInvariant, [Next]_vars
    PROVE  AccessInvariant'
  <1>1. CASE Owner
    BY <1>1, OwnerStep
  <1>2. CASE Proxies
    BY <1>2, LocalStep DEF Proxies
  <1>3. CASE OAuth
    BY <1>3, ApprovalStep, CodeStep, RefreshStep, RestartStep DEF OAuth
  <1>4. CASE Paging
    BY <1>4, PagingStep
  <1>5. CASE expire
    BY <1>5, ExpireStep
  <1>6. CASE UNCHANGED vars
    BY <1>6, InvariantByDoor, OwnerUntouched, LeasesUntouched, GrantsUntouched,
       BearersUntouched, HandlesUntouched DEF DoorsSound, vars, owner
  <1> QED
    BY <1>1, <1>2, <1>3, <1>4, <1>5, <1>6 DEF Next

\* The inductive invariant of leases, grants, handles and cursors, in every
\* reachable state.
THEOREM AccessInductive ==
    Spec => []AccessInvariant
  <1>1. Init => AccessInvariant
    BY InitSound
  <1>2. AccessInvariant /\ [Next]_vars => AccessInvariant'
    BY StepSound
  <1> QED
    BY <1>1, <1>2, PTL DEF Spec

\* What the invariant says of grants: two tokens of a family cannot both be
\* alive, since the earlier one is used or revoked.
LEMMA InvariantSingle ==
    ASSUME AccessInvariant
    PROVE  GrantsStaySingle
  <1>1. GrantsSound
    BY InvariantByDoor DEF DoorsSound
  <1>2. tokens \in Seq(Token) /\ DOMAIN tokens = 1..Len(tokens)
    BY <1>1 DEF GrantsSound, GrantTypes
  <1>3. ASSUME NEW a \in 1..MaxApprovals PROVE Cardinality(Alive(a)) <= 1
    <2>1. ASSUME NEW i \in Alive(a), NEW j \in Alive(a) PROVE i = j
      <3>1. /\ i \in 1..Len(tokens) /\ j \in 1..Len(tokens)
            /\ tokens[i].family = tokens[j].family
            /\ ~tokens[i].used /\ ~tokens[i].revoked /\ ~tokens[j].used /\ ~tokens[j].revoked
        BY <1>2, <2>1 DEF Alive, usable
      <3>2. ~(i < j) /\ ~(j < i)
        BY <1>1, <1>2, <3>1 DEF GrantsSound, FamiliesAreChains
      <3> QED BY <3>1, <3>2
    <2>2. CASE Alive(a) = {}
      BY <2>2, FS_EmptySet
    <2>3. CASE Alive(a) # {}
      <3>1. PICK i \in Alive(a) : TRUE
        BY <2>3
      <3>2. Alive(a) = {i}
        BY <2>1, <3>1
      <3>3. Cardinality({i}) = 1
        BY FS_Singleton, Zenon
      <3> QED BY <3>2, <3>3
    <2> QED BY <2>2, <2>3
  <1>4. ASSUME NEW a \in 1..MaxApprovals, NEW i \in spent, tokens[i].family = a
        PROVE  Alive(a) = {}
    BY <1>1, <1>2, <1>4 DEF GrantsSound, FamiliesAreChains, Alive, usable
  <1> QED
    BY <1>1, <1>3, <1>4 DEF GrantsStaySingle, GrantsSound, FamiliesAreApproved, FamiliesAreChains

\* What the invariant says of credentials: one that passes the daemon's checks
\* has the present epoch, seed and keys, and these count the owner's commands.
LEMMA InvariantCurrent ==
    ASSUME AccessInvariant
    PROVE  AcceptedIsCurrent
  <1>1. /\ OwnerTypes /\ CutsAreCounted /\ LocalTypes /\ LeasesAreDated
        /\ BearerTypes /\ BearersAreDated /\ ContextTypes /\ HandlesAreDated
    BY InvariantByDoor DEF DoorsSound
  <1>2. ASSUME NEW c \in Local, lease[c] # None, verify_lease(c)
        PROVE  Fresh(lease[c].since, {"epoch", c})
    <2>1. lease[c] \in [seed : Nat, sec : Nat, live : BOOLEAN, since : [Cuttable -> Nat]]
      BY <1>1, <1>2 DEF LocalTypes
    <2>2. "epoch" \in Cuttable /\ c \in Cuttable
      BY DEF Cuttable, Everybody
    <2>3. /\ lease[c].since["epoch"] \in Nat /\ lease[c].since[c] \in Nat
          /\ cuts["epoch"] \in Nat /\ cuts[c] \in Nat /\ lease[c].sec \in Nat
          /\ lease[c].seed \in Nat
      BY <1>1, <2>1, <2>2 DEF OwnerTypes
    <2>4. /\ lease[c].since["epoch"] <= cuts["epoch"] /\ lease[c].since[c] <= cuts[c]
          /\ lease[c].sec <= 1 + lease[c].since["epoch"]
          /\ lease[c].seed <= 1 + lease[c].since[c]
      BY <1>1, <1>2, <2>2 DEF LeasesAreDated
    <2>5. lease[c].sec = 1 + cuts["epoch"] /\ lease[c].seed = 1 + cuts[c]
      BY <1>1, <1>2 DEF verify_lease, CutsAreCounted
    <2>6. lease[c].since["epoch"] = cuts["epoch"] /\ lease[c].since[c] = cuts[c]
      BY <2>3, <2>4, <2>5
    <2> QED BY <2>6 DEF Fresh
  <1>3. ASSUME NEW t \in bearer, verify_bearer(t)
        PROVE  Fresh(t.since, {"epoch", "signing", Remote})
    <2>1. "epoch" \in Cuttable /\ "signing" \in Cuttable /\ Remote \in Cuttable
      BY DEF Cuttable, Everybody
    <2>2. /\ t.since["epoch"] \in Nat /\ t.since["signing"] \in Nat /\ t.since[Remote] \in Nat
          /\ cuts["epoch"] \in Nat /\ cuts["signing"] \in Nat /\ cuts[Remote] \in Nat
      BY <1>1, <2>1 DEF OwnerTypes, BearerTypes
    <2>3. /\ t.sec = 1 + cuts["epoch"] /\ t.key = 1 + cuts["signing"] /\ cuts[Remote] = 0
      BY <1>1, <1>3 DEF verify_bearer, CutsAreCounted
    <2>4. /\ t.since[Remote] <= cuts[Remote]
          /\ t.sec = 1 + t.since["epoch"] /\ t.key = 1 + t.since["signing"]
      BY <1>1 DEF BearersAreDated
    <2>5. /\ t.since["epoch"] = cuts["epoch"] /\ t.since["signing"] = cuts["signing"]
          /\ t.since[Remote] = cuts[Remote]
      BY <2>2, <2>3, <2>4
    <2> QED BY <2>5 DEF Fresh
  <1>4. ASSUME NEW x \in held, NEW c \in Everybody,
               IF x.kind = "handle" THEN resume(c, x.row) ELSE position(c, x.row)
        PROVE  x.row.client = c /\ Fresh(x.row.since, {"epoch", "cursor"})
    <2> DEFINE h == x.row
    <2>1. h \in Handle /\ h.epoch = 1 + h.since["epoch"] /\ h.key = 1 + h.since["cursor"]
      BY <1>1 DEF ContextTypes, HandlesAreDated, Dated
    <2> HIDE DEF h
    <2>2. ASSUME NEW r \in Handle, [r EXCEPT !.live = h.live] = h
          PROVE  r.client = h.client /\ r.epoch = h.epoch /\ r.key = h.key
      BY <2>1, <2>2 DEF Handle
    <2>3. h.client = c /\ h.epoch = epoch /\ h.key = cursorKey
      <3>1. CASE x.kind = "handle"
        <4>1. PICK r \in handles : [r EXCEPT !.live = h.live] = h /\ r.client = c /\ r.epoch = epoch
          BY <1>4, <3>1 DEF resume, RowOf, stale, h
        <4>2. r \in Handle /\ r.key = cursorKey
          BY <1>1 DEF ContextTypes, HandlesAreDated
        <4>3. r.client = h.client /\ r.epoch = h.epoch /\ r.key = h.key
          BY <2>2, <4>1, <4>2
        <4> QED BY <4>1, <4>2, <4>3
      <3>2. CASE x.kind # "handle"
        <4>1. h.key = cursorKey /\ h.client = c
          BY <1>4, <3>2 DEF position, h
        <4>2. PICK r \in cursors : [r EXCEPT !.live = h.live] = h /\ r.epoch = epoch
          BY <1>4, <3>2 DEF position, RowOf, stale, h
        <4>3. r \in Handle
          BY <1>1 DEF ContextTypes
        <4>4. r.epoch = h.epoch
          BY <2>2, <4>2, <4>3
        <4> QED BY <4>1, <4>2, <4>4
      <3> QED BY <3>1, <3>2
    <2>4. /\ h.since["epoch"] \in Nat /\ h.since["cursor"] \in Nat
          /\ cuts["epoch"] \in Nat /\ cuts["cursor"] \in Nat
      BY <1>1, <2>1 DEF OwnerTypes, Handle, Cuttable
    <2>5. h.since["epoch"] = cuts["epoch"] /\ h.since["cursor"] = cuts["cursor"]
      BY <1>1, <2>1, <2>3, <2>4 DEF CutsAreCounted
    <2> QED BY <2>3, <2>5 DEF Fresh, h
  <1> QED
    BY <1>2, <1>3, <1>4 DEF AcceptedIsCurrent

\* One owner approval stays one grant, for any number of approvals, tokens and
\* concurrent requests, and through restarts.
THEOREM OneGrantPerApproval ==
    Spec => []GrantsStaySingle
  <1>1. AccessInvariant => GrantsStaySingle
    BY InvariantSingle
  <1> QED
    BY <1>1, AccessInductive, PTL

\* Nothing the daemon accepts predates a command of the owner that was meant to
\* end it.
THEOREM RevokedIsRefused ==
    Spec => []AcceptedIsCurrent
  <1>1. AccessInvariant => AcceptedIsCurrent
    BY InvariantCurrent
  <1> QED
    BY <1>1, AccessInductive, PTL

-----------------------------------------------------------------------------
(* Directory: audiences.                                                   *)

\* Where no audience gains a member, none becomes reachable.
LEMMA FewerMembers ==
    ASSUME Acyclic, \A b \in Audiences : MembersOf(b)' \subseteq MembersOf(b)
    PROVE  Acyclic'
  <1> SUFFICES ASSUME NEW a \in Audiences, NEW m \in MembersOf(a)' \cap Audiences
               PROVE  ~_reaches(m, a)'
    BY DEF Acyclic
  <1>1. ~_reaches(m, a)
    BY DEF Acyclic
  <1>2. PICK S \in SUBSET Audiences : m \in S /\ Closed(S) /\ a \notin S
    BY <1>1 DEF _reaches
  <1>3. Closed(S)'
    BY <1>2 DEF Closed
  <1> QED
    BY <1>2, <1>3 DEF _reaches

\* A member that does not reach its audience closes no cycle: what separated two
\* audiences is extended by what the member reaches, or cut down to it.
LEMMA MemberAdded ==
    ASSUME Acyclic, NEW a \in Audiences, NEW m \in Audiences, ~_reaches(m, a),
           \A b \in Audiences : MembersOf(b)' \subseteq MembersOf(b) \cup (IF b = a THEN {m} ELSE {})
    PROVE  Acyclic'
  <1>1. PICK S \in SUBSET Audiences : m \in S /\ Closed(S) /\ a \notin S
    BY DEF _reaches
  <1> SUFFICES ASSUME NEW x \in Audiences, NEW y \in MembersOf(x)' \cap Audiences
               PROVE  \E T \in SUBSET Audiences : y \in T /\ Closed(T)' /\ x \notin T
    BY DEF Acyclic, _reaches
  <1>2. ASSUME NEW T \in SUBSET Audiences, Closed(T), a \notin T
        PROVE  Closed(T)'
    BY <1>2 DEF Closed
  <1>3. CASE y \notin MembersOf(x)
    <2>1. x = a /\ y = m
      BY <1>3
    <2> QED BY <1>1, <1>2, <2>1
  <1>4. CASE y \in MembersOf(x)
    <2>1. PICK R \in SUBSET Audiences : y \in R /\ Closed(R) /\ x \notin R
      BY <1>4 DEF Acyclic, _reaches
    <2>2. CASE a \notin R
      BY <1>2, <2>1, <2>2
    <2>3. CASE a \in R /\ x \in S
      <3>1. y \in S
        BY <1>1, <1>4, <2>3 DEF Closed
      <3>2. Closed(R \cap S) /\ a \notin R \cap S
        BY <1>1, <2>1 DEF Closed
      <3> QED BY <1>2, <2>1, <3>1, <3>2
    <2>4. CASE a \in R /\ x \notin S
      <3>1. Closed(R \cup S)'
        BY <1>1, <2>1 DEF Closed
      <3> QED BY <2>1, <2>4, <3>1
    <2> QED BY <2>2, <2>3, <2>4
  <1> QED
    BY <1>3, <1>4

\* What a step may do to the audiences.
CirclesStep ==
    \/ circles' = circles
    \/ \E a \in Audiences : ~Exists(a) /\ circles' = [circles EXCEPT ![a] = {}]
    \/ \E a \in Audiences, m \in Nodes : add_audience_member(a, m) \/ remove_audience_member(a, m)

LEMMA CirclesKept ==
    ASSUME DirectoryConstants, DirectoryTypeOK, Acyclic, CirclesStep
    PROVE  Acyclic' /\ circles' \in [Audiences -> {NoRow} \cup SUBSET Nodes]
  <1>0. circles \in [Audiences -> {NoRow} \cup SUBSET Nodes]
    BY DEF DirectoryTypeOK
  <1>1. CASE circles' = circles
    <2>1. \A b \in Audiences : MembersOf(b)' \subseteq MembersOf(b)
      BY <1>1 DEF MembersOf, Exists
    <2> QED BY <1>0, <1>1, <2>1, FewerMembers
  <1>2. ASSUME NEW a \in Audiences, ~Exists(a), circles' = [circles EXCEPT ![a] = {}]
        PROVE  Acyclic' /\ circles' \in [Audiences -> {NoRow} \cup SUBSET Nodes]
    <2>1. \A b \in Audiences : MembersOf(b)' \subseteq MembersOf(b)
      BY <1>0, <1>2 DEF MembersOf, Exists
    <2> QED BY <1>0, <1>2, <2>1, FewerMembers
  <1>3. ASSUME NEW a \in Audiences, NEW m \in Nodes, remove_audience_member(a, m)
        PROVE  Acyclic' /\ circles' \in [Audiences -> {NoRow} \cup SUBSET Nodes]
    <2>1. /\ Exists(a) /\ circles[a] \in SUBSET Nodes
          /\ circles' = [circles EXCEPT ![a] = circles[a] \ {m}]
      BY <1>0, <1>3 DEF remove_audience_member, MembersOf, Exists
    <2>2. \A b \in Audiences : MembersOf(b)' \subseteq MembersOf(b)
      BY <1>0, <2>1 DEF MembersOf, Exists
    <2> QED BY <1>0, <2>1, <2>2, FewerMembers
  <1>4. ASSUME NEW a \in Audiences, NEW m \in Nodes, add_audience_member(a, m)
        PROVE  Acyclic' /\ circles' \in [Audiences -> {NoRow} \cup SUBSET Nodes]
    <2>1. /\ Exists(a) /\ circles[a] \in SUBSET Nodes /\ (m \in Audiences => ~_reaches(m, a))
          /\ circles' = [circles EXCEPT ![a] = circles[a] \cup {m}]
      BY <1>0, <1>4 DEF add_audience_member, Exists
    <2>2. circles' \in [Audiences -> {NoRow} \cup SUBSET Nodes]
      BY <1>0, <2>1
    <2>3. \A b \in Audiences : MembersOf(b)' \subseteq MembersOf(b) \cup (IF b = a THEN {m} ELSE {})
      BY <1>0, <2>1 DEF MembersOf, Exists
    <2>4. CASE m \in Audiences
      BY <2>1, <2>2, <2>3, <2>4, MemberAdded
    <2>5. CASE m \notin Audiences
      <3> SUFFICES ASSUME NEW x \in Audiences, NEW y \in MembersOf(x)' \cap Audiences
                   PROVE  \E T \in SUBSET Audiences : y \in T /\ Closed(T)' /\ x \notin T
        BY <2>2 DEF Acyclic, _reaches
      <3>1. y \in MembersOf(x)
        BY <2>3, <2>5
      <3>2. PICK T \in SUBSET Audiences : y \in T /\ Closed(T) /\ x \notin T
        BY <3>1 DEF Acyclic, _reaches
      <3>3. Closed(T)'
        BY <2>3, <2>5, <3>2 DEF Closed
      <3> QED BY <3>2, <3>3
    <2> QED BY <2>4, <2>5
  <1> QED
    BY <1>1, <1>2, <1>3, <1>4 DEF CirclesStep

-----------------------------------------------------------------------------
(* Endpoints.                                                              *)

\* Sets of at most one element, and of one, without counting.
LEMMA AtMostOne ==
    ASSUME NEW n \in Nat, NEW S \in SUBSET (1..n)
    PROVE  /\ Cardinality(S) <= 1 <=> \A i, j \in S : i = j
           /\ Cardinality(S) = 0 <=> S = {}
           /\ Cardinality(S) = 1 <=> \E i : S = {i}
  <1>1. IsFiniteSet(S)
    <2>1. IsFiniteSet(1..n)
      BY FS_Interval
    <2> QED BY <2>1, FS_Subset
  <1>2. Cardinality(S) \in Nat /\ (Cardinality(S) = 0 <=> S = {}) /\ (Cardinality(S) = 1 <=> \E i : S = {i})
    BY <1>1, FS_CardinalityType, FS_EmptySet, FS_Singleton
  <1>3. (\A i, j \in S : i = j) <=> S = {} \/ \E i : S = {i}
    <2>1. ASSUME \A i, j \in S : i = j, S # {}
          PROVE  \E i : S = {i}
      <3>1. PICK i : i \in S
        BY <2>1
      <3>2. S = {i}
        BY <2>1, <3>1
      <3> QED BY <3>2
    <2> QED BY <2>1
  <1> QED
    BY <1>2, <1>3

\* OneEndpoint and GroupFiledOnce in those terms.
PointsApart ==
    /\ \A i, j \in 1..Len(points) : points[i].on /\ points[j].on /\ points[i].id = points[j].id => i = j
    /\ \A i, j \in 1..Len(points) :
          /\ points[i].on /\ points[j].on /\ points[i].of = points[j].of
          /\ TransportOf[points[i].id] = TransportOf[points[j].id]
          => i = j
SpotsApart ==
    \A i, j \in 1..Len(spots) : spots[i].on /\ spots[j].on /\ spots[i].id = spots[j].id => i = j
FiledBy(q) == {i \in 1..Len(spots) : spots[i].by = q}
FiledOnce ==
    \A q \in Creations :
       IF orders[q] = "filed" THEN \E i : FiledBy(q) = {i} ELSE FiledBy(q) = {}

Rows == points \in Seq(ContactPoint) /\ spots \in Seq(Destination)

LEMMA EndpointsByPart ==
    ASSUME Rows
    PROVE  (OneEndpoint <=> PointsApart /\ SpotsApart) /\ (GroupFiledOnce <=> FiledOnce)
  <1>0. Len(points) \in Nat /\ Len(spots) \in Nat
    BY DEF Rows
  <1>1. \A id : EnabledFor(points, id) \in SUBSET (1..Len(points)) /\ EnabledFor(spots, id) \in SUBSET (1..Len(spots))
    BY DEF EnabledFor
  <1>2. ASSUME NEW id
        PROVE  /\ Cardinality(EnabledFor(points, id)) <= 1 <=> \A i, j \in EnabledFor(points, id) : i = j
               /\ Cardinality(EnabledFor(spots, id)) <= 1 <=> \A i, j \in EnabledFor(spots, id) : i = j
    <2>1. EnabledFor(points, id) \in SUBSET (1..Len(points)) /\ EnabledFor(spots, id) \in SUBSET (1..Len(spots))
      BY <1>1
    <2> HIDE DEF EnabledFor
    <2> QED BY <1>0, <2>1, AtMostOne
  <1>3. ASSUME NEW i \in 1..Len(points)
        PROVE  points[i].id \in Identities
    <2>1. points[i] \in ContactPoint
      BY DEF Rows
    <2> QED BY <2>1 DEF ContactPoint
  <1>4. ASSUME NEW i \in 1..Len(spots)
        PROVE  spots[i].id \in Identities \cup Groups
    <2>1. spots[i] \in Destination
      BY DEF Rows
    <2> QED BY <2>1 DEF Destination
  <1>5. (\A id \in Identities \cup Groups : Cardinality(EnabledFor(points, id)) <= 1)
        <=> \A i, j \in 1..Len(points) : points[i].on /\ points[j].on /\ points[i].id = points[j].id => i = j
    <2>1. ASSUME NEW i \in 1..Len(points), NEW id, points[i].id = id, points[i].on
          PROVE  i \in EnabledFor(points, id)
      BY <2>1 DEF EnabledFor
    <2>2. ASSUME NEW id, NEW i \in EnabledFor(points, id)
          PROVE  i \in 1..Len(points) /\ points[i].id = id /\ points[i].on
      BY DEF EnabledFor
    <2> QED BY <1>2, <1>3, <2>1, <2>2
  <1>6. (\A id \in Identities \cup Groups : Cardinality(EnabledFor(spots, id)) <= 1) <=> SpotsApart
    <2>1. ASSUME NEW i \in 1..Len(spots), NEW id, spots[i].id = id, spots[i].on
          PROVE  i \in EnabledFor(spots, id)
      BY <2>1 DEF EnabledFor
    <2>2. ASSUME NEW id, NEW i \in EnabledFor(spots, id)
          PROVE  i \in 1..Len(spots) /\ spots[i].id = id /\ spots[i].on
      BY DEF EnabledFor
    <2> QED BY <1>2, <1>4, <2>1, <2>2 DEF SpotsApart
  <1>7. OneEndpoint <=> PointsApart /\ SpotsApart
    BY <1>5, <1>6 DEF OneEndpoint, PointsApart
  <1>8. ASSUME NEW q \in Creations
        PROVE  /\ Cardinality(FiledBy(q)) = 0 <=> FiledBy(q) = {}
               /\ Cardinality(FiledBy(q)) = 1 <=> \E i : FiledBy(q) = {i}
    <2>1. FiledBy(q) \in SUBSET (1..Len(spots))
      BY DEF FiledBy
    <2> QED BY <1>0, <2>1, AtMostOne
  <1>9. GroupFiledOnce <=> FiledOnce
    BY <1>8 DEF GroupFiledOnce, FiledOnce, FiledBy
  <1> QED
    BY <1>7, <1>9

\* What a step may do to the contact points.
PointsStep ==
    \/ points' = points
    \/ \E r \in Recipients, id \in Identities : add_contact_point(r, id)
    \/ \E i \in 1..Len(points) : points[i].on /\ points' = [points EXCEPT ![i].on = FALSE]
    \/ \E i \in 1..Len(points) : opt_out(i)

\* Whose a row is and with which identity, is never edited.
PointsGrow ==
    /\ Len(points') >= Len(points)
    /\ \A i \in 1..Len(points) : points'[i].of = points[i].of /\ points'[i].id = points[i].id

LEMMA PointsKept ==
    ASSUME DirectoryConstants, DirectoryTypeOK, PointsApart, OptOutHolds, PointsStep
    PROVE  /\ points' \in Seq(ContactPoint) /\ Len(points') <= MaxPoints /\ PointsGrow
           /\ PointsApart' /\ OptOutHolds'
  <1> DEFINE Kept == /\ points' \in Seq(ContactPoint) /\ Len(points') <= MaxPoints /\ PointsGrow
                     /\ PointsApart' /\ OptOutHolds'
  <1>0. /\ points \in Seq(ContactPoint) /\ Len(points) <= MaxPoints /\ MaxPoints \in Nat
        /\ Len(points) \in Nat /\ \A i \in 1..Len(points) : points[i] \in ContactPoint
    BY DEF DirectoryTypeOK, DirectoryConstants
  <1>1. CASE points' = points
    BY <1>0, <1>1 DEF PointsApart, OptOutHolds, PointsGrow
  <1>2. ASSUME NEW r \in Recipients, NEW id \in Identities, add_contact_point(r, id)
        PROVE  Kept
    <2> DEFINE p == [of |-> r, id |-> id, on |-> TRUE, out |-> "no"]
    <2>1. p \in ContactPoint /\ p.of = r /\ p.id = id /\ p.on /\ p.out = "no"
      BY DEF ContactPoint
    <2>2. points' = Append(points, p) /\ Len(points) < MaxPoints
      BY <1>2 DEF add_contact_point
    <2> HIDE DEF p
    <2>3. /\ points' \in Seq(ContactPoint) /\ Len(points') = Len(points) + 1
          /\ \A i \in 1..Len(points) : points'[i] = points[i]
          /\ points'[Len(points) + 1] = p
      BY <1>0, <2>1, <2>2
    <2>4. /\ \A i \in 1..Len(points) : points[i].on => points[i].id # id
          /\ \A i \in 1..Len(points) : points[i].id = id => points[i].out = "no"
          /\ \A i \in 1..Len(points) :
                ~(points[i].of = r /\ TransportOf[points[i].id] = TransportOf[id] /\ points[i].on)
      BY <1>2 DEF add_contact_point, EnabledFor, OptedOut
    <2>5. \A i \in 1..Len(points') : i \in 1..Len(points) \/ i = Len(points) + 1
      BY <1>0, <2>3
    <2>6. PointsApart'
      BY <2>1, <2>3, <2>4, <2>5, SMTT(60) DEF PointsApart
    <2>7. OptOutHolds'
      BY <2>1, <2>3, <2>4, <2>5 DEF OptOutHolds
    <2>8. PointsGrow /\ Len(points') <= MaxPoints
      BY <1>0, <2>2, <2>3 DEF PointsGrow
    <2> QED BY <2>3, <2>6, <2>7, <2>8
  <1>3. ASSUME NEW k \in 1..Len(points), NEW p \in ContactPoint,
               p.of = points[k].of, p.id = points[k].id, points' = [points EXCEPT ![k] = p]
        PROVE  /\ points' \in Seq(ContactPoint) /\ Len(points') = Len(points) /\ PointsGrow
               /\ points'[k] = p /\ \A i \in 1..Len(points) : i # k => points'[i] = points[i]
    BY <1>0, <1>3 DEF PointsGrow
  <1>4. ASSUME NEW k \in 1..Len(points), points[k].on, points' = [points EXCEPT ![k].on = FALSE]
        PROVE  Kept
    <2>1. PICK p \in ContactPoint : p.of = points[k].of /\ p.id = points[k].id /\ ~p.on
                                    /\ p.out = points[k].out /\ points' = [points EXCEPT ![k] = p]
      <3> DEFINE q == [points[k] EXCEPT !.on = FALSE]
      <3>1. points' = [points EXCEPT ![k] = q]
        BY <1>4
      <3>2. q \in ContactPoint /\ q.of = points[k].of /\ q.id = points[k].id /\ ~q.on /\ q.out = points[k].out
        BY <1>0 DEF ContactPoint
      <3> HIDE DEF q
      <3> QED BY <3>1, <3>2
    <2>2. /\ points' \in Seq(ContactPoint) /\ Len(points') = Len(points) /\ PointsGrow
          /\ points'[k] = p /\ \A i \in 1..Len(points) : i # k => points'[i] = points[i]
      BY <1>3, <2>1
    <2>3. PointsApart'
      BY <2>1, <2>2 DEF PointsApart
    <2>4. OptOutHolds'
      BY <2>1, <2>2 DEF OptOutHolds
    <2> QED BY <1>0, <2>2, <2>3, <2>4
  <1>5. ASSUME NEW k \in 1..Len(points), opt_out(k)
        PROVE  Kept
    <2>1. PICK p \in ContactPoint : p.of = points[k].of /\ p.id = points[k].id /\ p.on = points[k].on
                                    /\ p.out = (IF points[k].on THEN "enabled" ELSE "disabled")
                                    /\ points' = [points EXCEPT ![k] = p]
      <3> DEFINE q == [points[k] EXCEPT !.out = IF points[k].on THEN "enabled" ELSE "disabled"]
      <3>1. points' = [points EXCEPT ![k] = q]
        BY <1>5 DEF opt_out
      <3>2. /\ q \in ContactPoint /\ q.of = points[k].of /\ q.id = points[k].id /\ q.on = points[k].on
            /\ q.out = (IF points[k].on THEN "enabled" ELSE "disabled")
        BY <1>0 DEF ContactPoint
      <3> HIDE DEF q
      <3> QED BY <3>1, <3>2
    <2>2. /\ points' \in Seq(ContactPoint) /\ Len(points') = Len(points) /\ PointsGrow
          /\ points'[k] = p /\ \A i \in 1..Len(points) : i # k => points'[i] = points[i]
      BY <1>3, <2>1
    <2>3. PointsApart'
      BY <2>1, <2>2 DEF PointsApart
    <2>4. OptOutHolds'
      BY <2>1, <2>2 DEF OptOutHolds, PointsApart
    <2> QED BY <1>0, <2>2, <2>3, <2>4
  <1> QED
    BY <1>1, <1>2, <1>4, <1>5 DEF PointsStep

\* What a step may do to the destinations and the creations they are filed by.
SpotsStep ==
    \/ spots' = spots /\ orders' = orders
    \/ spots' = spots /\ \E q \in Creations, l \in Locations :
          orders[q] = NoRow /\ orders' = [orders EXCEPT ![q] = l]
    \/ orders' = orders /\ \E l \in Locations, id \in Identities \cup Groups : add_destination(l, id, NoRow)
    \/ orders' = orders /\ \E i \in 1..Len(spots) : spots[i].on /\ spots' = [spots EXCEPT ![i].on = FALSE]
    \/ \E q \in Creations :
          /\ orders[q] \in Locations
          /\ \/ spots' = spots /\ orders' = [orders EXCEPT ![q] = "failed"]
             \/ add_destination(orders[q], GroupOf[q], q) /\ orders' = [orders EXCEPT ![q] = "filed"]

LEMMA SpotsKept ==
    ASSUME DirectoryConstants, DirectoryTypeOK, SpotsApart, FiledOnce, SpotsStep
    PROVE  /\ spots' \in Seq(Destination) /\ Len(spots') <= MaxSpots /\ Len(spots') >= Len(spots)
           /\ orders' \in [Creations -> {NoRow, "filed", "failed"} \cup Locations]
           /\ SpotsApart' /\ FiledOnce'
  <1> DEFINE Kept == /\ spots' \in Seq(Destination) /\ Len(spots') <= MaxSpots /\ Len(spots') >= Len(spots)
                     /\ orders' \in [Creations -> {NoRow, "filed", "failed"} \cup Locations]
                     /\ SpotsApart' /\ FiledOnce'
  <1>0. /\ spots \in Seq(Destination) /\ Len(spots) <= MaxSpots /\ MaxSpots \in Nat
        /\ Len(spots) \in Nat /\ \A i \in 1..Len(spots) : spots[i] \in Destination
        /\ orders \in [Creations -> {NoRow, "filed", "failed"} \cup Locations]
        /\ {NoRow, "filed", "failed"} \cap Locations = {} /\ NoRow # "filed" /\ NoRow # "failed"
        /\ GroupOf \in [Creations -> Groups] /\ NoRow \notin Creations
    BY DEF DirectoryTypeOK, DirectoryConstants
  <1>1. CASE spots' = spots /\ orders' = orders
    <2>1. SpotsApart'
      BY <1>1 DEF SpotsApart
    <2>2. FiledOnce'
      BY <1>1 DEF FiledOnce, FiledBy
    <2> QED BY <1>0, <1>1, <2>1, <2>2
  <1>2. ASSUME NEW q \in Creations, NEW v \in {"failed"} \cup Locations, orders[q] # "filed",
               spots' = spots, orders' = [orders EXCEPT ![q] = v]
        PROVE  Kept
    <2>1. orders' \in [Creations -> {NoRow, "filed", "failed"} \cup Locations] /\ v # "filed"
      BY <1>0, <1>2
    <2>2. FiledOnce'
      BY <1>0, <1>2, <2>1 DEF FiledOnce, FiledBy
    <2> QED BY <1>0, <1>2, <2>1, <2>2 DEF SpotsApart
  <1>3. ASSUME NEW l \in Locations, NEW id \in Identities \cup Groups, NEW by \in Creations \cup {NoRow},
               add_destination(l, id, by)
        PROVE  /\ spots' \in Seq(Destination) /\ Len(spots') <= MaxSpots /\ Len(spots') >= Len(spots)
               /\ SpotsApart'
               /\ \A q \in Creations : FiledBy(q)' = IF q = by THEN FiledBy(q) \cup {Len(spots) + 1} ELSE FiledBy(q)
    <2> DEFINE d == [at |-> l, id |-> id, on |-> TRUE, by |-> by]
    <2>1. d \in Destination /\ d.id = id /\ d.by = by
      BY DEF Destination
    <2>2. spots' = Append(spots, d) /\ Len(spots) < MaxSpots
      BY <1>3 DEF add_destination
    <2> HIDE DEF d
    <2>3. /\ spots' \in Seq(Destination) /\ Len(spots') = Len(spots) + 1
          /\ \A i \in 1..Len(spots) : spots'[i] = spots[i]
          /\ spots'[Len(spots) + 1] = d
      BY <1>0, <2>1, <2>2
    <2>4. \A i \in 1..Len(spots) : spots[i].on => spots[i].id # id
      BY <1>3 DEF add_destination, EnabledFor
    <2>5. \A i \in 1..Len(spots') : i \in 1..Len(spots) \/ i = Len(spots) + 1
      BY <1>0, <2>3
    <2>6. SpotsApart'
      BY <2>1, <2>3, <2>4, <2>5 DEF SpotsApart
    <2>7. \A q \in Creations : FiledBy(q)' = IF q = by THEN FiledBy(q) \cup {Len(spots) + 1} ELSE FiledBy(q)
      <3> SUFFICES ASSUME NEW q \in Creations
                   PROVE  FiledBy(q)' = IF q = by THEN FiledBy(q) \cup {Len(spots) + 1} ELSE FiledBy(q)
        OBVIOUS
      <3>1. FiledBy(q)' = {i \in 1..Len(spots') : spots'[i].by = q}
        BY DEF FiledBy
      <3>2. \A i : i \in FiledBy(q)' <=> (i \in 1..Len(spots) /\ spots[i].by = q) \/ (i = Len(spots) + 1 /\ by = q)
        BY <1>0, <2>1, <2>3, <2>5, <3>1
      <3> QED BY <3>2 DEF FiledBy
    <2> QED BY <1>0, <2>2, <2>3, <2>6, <2>7
  <1>4. ASSUME NEW l \in Locations, NEW id \in Identities \cup Groups, add_destination(l, id, NoRow),
               orders' = orders
        PROVE  Kept
    <2>1. \A q \in Creations : FiledBy(q)' = FiledBy(q)
      BY <1>0, <1>3, <1>4
    <2>2. FiledOnce'
      BY <1>4, <2>1 DEF FiledOnce
    <2> QED BY <1>0, <1>3, <1>4, <2>2
  <1>5. ASSUME NEW k \in 1..Len(spots), spots[k].on, spots' = [spots EXCEPT ![k].on = FALSE], orders' = orders
        PROVE  Kept
    <2> DEFINE d == [spots[k] EXCEPT !.on = FALSE]
    <2>1. spots' = [spots EXCEPT ![k] = d]
      BY <1>5
    <2>2. d \in Destination /\ ~d.on /\ d.by = spots[k].by
      BY <1>0 DEF Destination
    <2> HIDE DEF d
    <2>3. /\ spots' \in Seq(Destination) /\ Len(spots') = Len(spots) /\ spots'[k] = d
          /\ \A i \in 1..Len(spots) : i # k => spots'[i] = spots[i]
      BY <1>0, <2>1, <2>2
    <2>4. SpotsApart'
      BY <2>2, <2>3 DEF SpotsApart
    <2>5. \A q \in Creations : FiledBy(q)' = FiledBy(q)
      BY <2>2, <2>3 DEF FiledBy
    <2>6. FiledOnce'
      BY <1>5, <2>5 DEF FiledOnce
    <2> QED BY <1>0, <1>5, <2>3, <2>4, <2>6
  <1>6. ASSUME NEW q \in Creations, orders[q] \in Locations,
               add_destination(orders[q], GroupOf[q], q), orders' = [orders EXCEPT ![q] = "filed"]
        PROVE  Kept
    <2>1. /\ spots' \in Seq(Destination) /\ Len(spots') <= MaxSpots /\ Len(spots') >= Len(spots) /\ SpotsApart'
          /\ \A x \in Creations : FiledBy(x)' = IF x = q THEN FiledBy(x) \cup {Len(spots) + 1} ELSE FiledBy(x)
      BY <1>0, <1>3, <1>6
    <2>2. FiledBy(q) = {}
      BY <1>0, <1>6 DEF FiledOnce
    <2>3. orders' \in [Creations -> {NoRow, "filed", "failed"} \cup Locations]
      BY <1>0, <1>6
    <2>4. FiledOnce'
      <3> SUFFICES ASSUME NEW x \in Creations
                   PROVE  IF orders'[x] = "filed" THEN \E i : FiledBy(x)' = {i} ELSE FiledBy(x)' = {}
        BY DEF FiledOnce
      <3>1. CASE x = q
        <4>1. orders'[q] = "filed" /\ FiledBy(q)' = {Len(spots) + 1}
          BY <1>0, <1>6, <2>1, <2>2
        <4> QED BY <3>1, <4>1
      <3>2. CASE x # q
        <4>1. orders'[x] = orders[x] /\ FiledBy(x)' = FiledBy(x)
          BY <1>0, <1>6, <2>1, <3>2
        <4> QED BY <4>1 DEF FiledOnce
      <3> QED BY <3>1, <3>2
    <2> QED BY <2>1, <2>3, <2>4
  <1> QED
    BY <1>0, <1>1, <1>2, <1>4, <1>5, <1>6 DEF SpotsStep

-----------------------------------------------------------------------------
(* Paths: a route is found by the resolution exactly when it is valid.     *)

Refs == Nodes \cup {Point(i) : i \in 1..MaxPoints}

\* The kinds of refs, and the rows they are minted for.
LEMMA KindsOfNodes ==
    ASSUME DirectoryConstants, DirectoryTypeOK
    PROVE  /\ \A i \in 1..Len(points) : /\ points[i].of \in Recipients /\ i \in 1..MaxPoints
                                        /\ Point(i) \in Refs \ (Audiences \cup Locations \cup Recipients)
           /\ \A i \in 1..Len(spots) : /\ spots[i].at \in Locations /\ i \in 1..MaxSpots
                                       /\ Spot(i) \in Refs \ (Audiences \cup Locations \cup Recipients)
           /\ \A i, j : Point(i) # Spot(j) /\ (Point(i) = Point(j) => i = j) /\ (Spot(i) = Spot(j) => i = j)
           /\ Locations \cap Recipients = {} /\ Audiences \cap (Locations \cup Recipients) = {}
           /\ Audiences \cup Locations \cup Recipients \subseteq Refs
  <1>0. /\ points \in Seq(ContactPoint) /\ Len(points) <= MaxPoints
        /\ spots \in Seq(Destination) /\ Len(spots) <= MaxSpots
        /\ Len(points) \in Nat /\ Len(spots) \in Nat /\ MaxPoints \in Nat /\ MaxSpots \in Nat
    BY DEF DirectoryTypeOK, DirectoryConstants
  <1>1. ASSUME NEW i \in 1..Len(points)
        PROVE  points[i].of \in Recipients /\ i \in 1..MaxPoints
    <2>1. points[i] \in ContactPoint
      BY <1>0
    <2> QED BY <1>0, <2>1 DEF ContactPoint
  <1>2. ASSUME NEW i \in 1..Len(spots)
        PROVE  spots[i].at \in Locations /\ i \in 1..MaxSpots
    <2>1. spots[i] \in Destination
      BY <1>0
    <2> QED BY <1>0, <2>1 DEF Destination
  <1>3. \A i, j : Point(i) # Spot(j) /\ (Point(i) = Point(j) => i = j) /\ (Spot(i) = Spot(j) => i = j)
    BY DEF Point, Spot
  <1>4. \A i \in 1..MaxPoints : Point(i) \in Refs \ (Audiences \cup Locations \cup Recipients)
    BY DEF Refs, DirectoryConstants
  <1>5. \A i \in 1..MaxSpots : Spot(i) \in Refs \ (Audiences \cup Locations \cup Recipients)
    BY DEF Refs, Nodes, DirectoryConstants
  <1> QED
    BY <1>1, <1>2, <1>3, <1>4, <1>5 DEF Refs, Nodes, DirectoryConstants

\* The nodes and edges of a path that is put together from two.
Upper(w) ==
    /\ \A i \in 1..Len(w) : _node_valid(w[i])
    /\ \A i \in 1..Len(w) - 1 : _edge_valid(w[i], w[i + 1])

LEMMA Joined ==
    ASSUME NEW w \in Seq(Refs), NEW p \in Seq(Refs), Len(w) >= 1, Len(p) >= 1
    PROVE  /\ w \o p \in Seq(Refs) /\ (w \o p)[1] = w[1]
           /\ path_is_valid(w \o p) <=> Upper(w) /\ _edge_valid(w[Len(w)], p[1]) /\ path_is_valid(p)
  <1> DEFINE x == w \o p
  <1>1. /\ x \in Seq(Refs) /\ Len(w) \in Nat /\ Len(p) \in Nat /\ Len(x) = Len(w) + Len(p)
        /\ \A i \in 1..Len(w) : x[i] = w[i]
        /\ \A i \in 1..Len(p) : x[Len(w) + i] = p[i]
    OBVIOUS
  <1> HIDE DEF x
  <1>2. x[1] = w[1] /\ x[Len(x)] = p[Len(p)] /\ x[Len(w)] = w[Len(w)] /\ x[Len(w) + 1] = p[1]
    BY <1>1
  <1>3. (\A i \in 1..Len(x) : _node_valid(x[i]))
        <=> (\A i \in 1..Len(w) : _node_valid(w[i])) /\ (\A i \in 1..Len(p) : _node_valid(p[i]))
    <2>1. ASSUME \A i \in 1..Len(x) : _node_valid(x[i])
          PROVE  (\A i \in 1..Len(w) : _node_valid(w[i])) /\ (\A i \in 1..Len(p) : _node_valid(p[i]))
      <3>1. ASSUME NEW i \in 1..Len(w) PROVE _node_valid(w[i])
        <4>1. i \in 1..Len(x) /\ x[i] = w[i] BY <1>1
        <4> QED BY <2>1, <4>1
      <3>2. ASSUME NEW i \in 1..Len(p) PROVE _node_valid(p[i])
        <4>1. Len(w) + i \in 1..Len(x) /\ x[Len(w) + i] = p[i] BY <1>1
        <4> QED BY <2>1, <4>1
      <3> QED BY <3>1, <3>2
    <2>2. ASSUME (\A i \in 1..Len(w) : _node_valid(w[i])) /\ (\A i \in 1..Len(p) : _node_valid(p[i])),
                 NEW i \in 1..Len(x)
          PROVE  _node_valid(x[i])
      <3>1. CASE i \in 1..Len(w)
        <4>1. x[i] = w[i] BY <1>1, <3>1
        <4> QED BY <2>2, <3>1, <4>1
      <3>2. CASE i \notin 1..Len(w)
        <4>1. i - Len(w) \in 1..Len(p) /\ i = Len(w) + (i - Len(w)) BY <1>1, <3>2
        <4>2. x[i] = p[i - Len(w)] BY <1>1, <4>1
        <4> QED BY <2>2, <4>1, <4>2
      <3> QED BY <3>1, <3>2
    <2> QED BY <2>1, <2>2
  <1>4. (\A i \in 1..Len(x) - 1 : _edge_valid(x[i], x[i + 1]))
        <=> /\ \A i \in 1..Len(w) - 1 : _edge_valid(w[i], w[i + 1])
            /\ _edge_valid(w[Len(w)], p[1])
            /\ \A i \in 1..Len(p) - 1 : _edge_valid(p[i], p[i + 1])
    <2>1. ASSUME \A i \in 1..Len(x) - 1 : _edge_valid(x[i], x[i + 1])
          PROVE  /\ \A i \in 1..Len(w) - 1 : _edge_valid(w[i], w[i + 1])
                 /\ _edge_valid(w[Len(w)], p[1])
                 /\ \A i \in 1..Len(p) - 1 : _edge_valid(p[i], p[i + 1])
      <3>1. ASSUME NEW i \in 1..Len(w) - 1 PROVE _edge_valid(w[i], w[i + 1])
        <4>1. i \in 1..Len(x) - 1 /\ x[i] = w[i] /\ x[i + 1] = w[i + 1] BY <1>1
        <4> QED BY <2>1, <4>1
      <3>2. _edge_valid(w[Len(w)], p[1])
        <4>1. Len(w) \in 1..Len(x) - 1 BY <1>1
        <4>2. _edge_valid(x[Len(w)], x[Len(w) + 1]) BY <2>1, <4>1
        <4> QED BY <1>2, <4>2
      <3>3. ASSUME NEW i \in 1..Len(p) - 1 PROVE _edge_valid(p[i], p[i + 1])
        <4>1. /\ Len(w) + i \in 1..Len(x) - 1 /\ x[Len(w) + i] = p[i]
              /\ Len(w) + (i + 1) = (Len(w) + i) + 1 /\ i + 1 \in 1..Len(p)
          <5>0. Len(w) \in Nat /\ Len(p) \in Nat /\ Len(x) = Len(w) + Len(p)
            BY <1>1
          <5>1. i \in 1..Len(p) /\ i + 1 \in 1..Len(p)
            BY <5>0
          <5>2. Len(w) + i \in 1..Len(x) - 1 /\ Len(w) + (i + 1) = (Len(w) + i) + 1
            BY <5>0
          <5>3. x[Len(w) + i] = p[i]
            BY <1>1, <5>1
          <5> QED BY <5>1, <5>2, <5>3
        <4>2. x[(Len(w) + i) + 1] = p[i + 1]
          <5>1. x[Len(w) + (i + 1)] = p[i + 1] BY <1>1, <4>1
          <5> QED BY <4>1, <5>1
        <4> QED BY <2>1, <4>1, <4>2
      <3> QED BY <3>1, <3>2, <3>3
    <2>2. ASSUME /\ \A i \in 1..Len(w) - 1 : _edge_valid(w[i], w[i + 1])
                 /\ _edge_valid(w[Len(w)], p[1])
                 /\ \A i \in 1..Len(p) - 1 : _edge_valid(p[i], p[i + 1]),
                 NEW i \in 1..Len(x) - 1
          PROVE  _edge_valid(x[i], x[i + 1])
      <3>1. CASE i < Len(w)
        <4>1. i \in 1..Len(w) - 1 /\ x[i] = w[i] /\ x[i + 1] = w[i + 1] BY <1>1, <3>1
        <4> QED BY <2>2, <4>1
      <3>2. CASE i = Len(w)
        BY <1>2, <2>2, <3>2
      <3>3. CASE i > Len(w)
        <4> DEFINE k == i - Len(w)
        <4>1. k \in 1..Len(p) - 1 /\ k \in 1..Len(p) /\ k + 1 \in 1..Len(p) /\ i = Len(w) + k
              /\ i + 1 = Len(w) + (k + 1)
          BY <1>1, <3>3
        <4> HIDE DEF k
        <4>2. x[i] = p[k] /\ x[i + 1] = p[k + 1] BY <1>1, <4>1
        <4> QED BY <2>2, <4>1, <4>2
      <3> QED BY <1>1, <3>1, <3>2, <3>3
    <2> QED BY <2>1, <2>2
  <1>5. path_is_valid(x) <=> Upper(w) /\ _edge_valid(w[Len(w)], p[1]) /\ path_is_valid(p)
    BY <1>2, <1>3, <1>4 DEF path_is_valid, Upper
  <1> QED
    BY <1>1, <1>2, <1>5 DEF x

\* The first node of a lead, and what makes it valid.
LEMMA LeadsByKind ==
    ASSUME DirectoryConstants, DirectoryTypeOK, NEW transports, NEW p \in Leads(transports)
    PROVE  /\ p \in Seq(Refs) /\ Len(p) >= 1 /\ p[1] \notin Audiences \cup Locations
           /\ path_is_valid(p) <=> p \in Endpoints(p[1], transports)
  <1>1. ASSUME NEW i \in 1..Len(points), TransportOf[points[i].id] \in transports, p = <<points[i].of, Point(i)>>
        PROVE  /\ p \in Seq(Refs) /\ Len(p) >= 1 /\ p[1] \notin Audiences \cup Locations
               /\ path_is_valid(p) <=> p \in Endpoints(p[1], transports)
    <2>1. /\ points[i].of \in Recipients /\ Point(i) \in Refs \ (Audiences \cup Locations \cup Recipients)
          /\ points[i].of \notin Audiences \cup Locations /\ points[i].of \in Refs
      BY KindsOfNodes
    <2>2. p \in Seq(Refs) /\ Len(p) = 2 /\ p[1] = points[i].of /\ p[2] = Point(i)
      BY <1>1, <2>1
    <2> DEFINE Sendable == points[i].on /\ points[i].out = "no" /\ person[points[i].of] = "on"
    <2>3. _node_valid(Point(i)) <=> Sendable
      BY <2>1, KindsOfNodes DEF _node_valid
    <2>4. person[points[i].of] = "on" => _node_valid(points[i].of)
      BY <2>1 DEF _node_valid
    <2>5. _edge_valid(points[i].of, Point(i))
      BY <2>1 DEF _edge_valid
    <2>6. path_is_valid(p) <=> _node_valid(points[i].of) /\ _node_valid(Point(i))
      <3>1. 1..Len(p) = {1, 2} /\ 1..Len(p) - 1 = {1}
        BY <2>2
      <3> QED BY <2>2, <2>5, <3>1 DEF path_is_valid
    <2>7. path_is_valid(p) <=> Sendable
      BY <2>3, <2>4, <2>6
    <2>8. p \in Endpoints(p[1], transports) <=> p \in person_paths(points[i].of, transports)
      BY <2>1, <2>2 DEF Endpoints
    <2>9. p \in person_paths(points[i].of, transports) <=> Sendable
      <3>1. ASSUME NEW j \in 1..Len(points), p = <<points[i].of, Point(j)>>
            PROVE  j = i
        <4>1. p[2] = Point(j) BY <3>1
        <4> QED BY <2>2, <4>1, KindsOfNodes
      <3> QED BY <1>1, <3>1 DEF person_paths
    <2> QED BY <2>1, <2>2, <2>7, <2>8, <2>9
  <1>2. ASSUME NEW i \in 1..Len(spots), "telegram" \in transports, p = <<Spot(i)>>
        PROVE  /\ p \in Seq(Refs) /\ Len(p) >= 1 /\ p[1] \notin Audiences \cup Locations
               /\ path_is_valid(p) <=> p \in Endpoints(p[1], transports)
    <2>1. Spot(i) \in Refs \ (Audiences \cup Locations \cup Recipients)
      BY KindsOfNodes
    <2>2. p \in Seq(Refs) /\ Len(p) = 1 /\ p[1] = Spot(i)
      BY <1>2, <2>1
    <2>3. _node_valid(Spot(i)) <=> spots[i].on /\ place[spots[i].at] = "on"
      BY <2>1, KindsOfNodes DEF _node_valid
    <2>4. path_is_valid(p) <=> _node_valid(Spot(i))
      <3>1. 1..Len(p) = {1} /\ 1..Len(p) - 1 = {}
        BY <2>2
      <3> QED BY <2>2, <3>1 DEF path_is_valid
    <2>5. p \in Endpoints(p[1], transports) <=> p \in spot_paths(Spot(i), transports)
      BY <2>1, <2>2 DEF Endpoints
    <2>6. p \in spot_paths(Spot(i), transports) <=> spots[i].on /\ place[spots[i].at] = "on"
      BY <1>2, KindsOfNodes DEF spot_paths
    <2> QED BY <2>1, <2>2, <2>3, <2>4, <2>5, <2>6
  <1> QED
    BY <1>1, <1>2 DEF Leads

\* The filters of the traversal find the valid leads and nothing else.
LEMMA EndpointsAreLeads ==
    ASSUME DirectoryConstants, DirectoryTypeOK, NEW transports, NEW n
    PROVE  \A p : p \in Endpoints(n, transports) <=> p \in Leads(transports) /\ p[1] = n /\ path_is_valid(p)
  <1>1. ASSUME NEW p \in Endpoints(n, transports)
        PROVE  p \in Leads(transports) /\ p[1] = n
    <2>1. CASE n \in Recipients
      BY <2>1 DEF Endpoints, person_paths, Leads
    <2>2. CASE n \notin Recipients
      BY <2>2 DEF Endpoints, spot_paths, Leads
    <2> QED BY <2>1, <2>2
  <1> QED
    BY <1>1, LeadsByKind

\* A descent through a location, or a lead.
LEMMA DescentsByKind ==
    ASSUME DirectoryConstants, DirectoryTypeOK, NEW transports, NEW p \in Descents(transports)
    PROVE  /\ p \in Seq(Refs) /\ Len(p) >= 1 /\ p[1] \notin Audiences
           /\ path_is_valid(p) <=> p \in Hops(p[1], transports)
  <1>1. CASE p \in Leads(transports)
    <2>1. p \in Seq(Refs) /\ Len(p) >= 1 /\ p[1] \notin Audiences \cup Locations
      BY <1>1, LeadsByKind
    <2>2. Hops(p[1], transports) = Endpoints(p[1], transports)
      BY <2>1 DEF Hops
    <2> QED BY <1>1, <2>1, <2>2, LeadsByKind
  <1>2. ASSUME NEW l \in Locations, NEW q \in Leads(transports), p = <<l>> \o q
        PROVE  /\ p \in Seq(Refs) /\ Len(p) >= 1 /\ p[1] \notin Audiences
               /\ path_is_valid(p) <=> p \in Hops(p[1], transports)
    <2>1. q \in Seq(Refs) /\ Len(q) >= 1 /\ q[1] \notin Audiences \cup Locations
      BY LeadsByKind
    <2>2. l \in Refs /\ l \notin Audiences \cup Recipients
      BY KindsOfNodes
    <2>3. <<l>> \in Seq(Refs) /\ Len(<<l>>) = 1 /\ <<l>>[1] = l
      BY <2>2
    <2>4. /\ p \in Seq(Refs) /\ p[1] = l
          /\ path_is_valid(p) <=> Upper(<<l>>) /\ _edge_valid(l, q[1]) /\ path_is_valid(q)
      <3>1. PICK w \in Seq(Refs) : w = <<l>> /\ Len(w) = 1 /\ w[1] = l
        BY <2>3
      <3>2. p = w \o q /\ w[Len(w)] = l
        BY <1>2, <3>1
      <3>3. /\ w \o q \in Seq(Refs) /\ (w \o q)[1] = w[1]
            /\ path_is_valid(w \o q) <=> Upper(w) /\ _edge_valid(w[Len(w)], q[1]) /\ path_is_valid(q)
        <4>1. Len(w) >= 1
          BY <3>1
        <4> QED BY <2>1, <4>1, Joined
      <3>4. p \in Seq(Refs) /\ p[1] = l
        BY <3>1, <3>2, <3>3, Zenon
      <3>5. path_is_valid(p) <=> Upper(w) /\ _edge_valid(l, q[1]) /\ path_is_valid(q)
        BY <3>2, <3>3, Zenon
      <3> QED BY <3>1, <3>4, <3>5, Zenon
    <2>5. Upper(<<l>>) <=> place[l] = "on"
      <3>1. 1..Len(<<l>>) = {1} /\ 1..Len(<<l>>) - 1 = {}
        BY <2>3
      <3>2. Upper(<<l>>) <=> _node_valid(l)
        BY <2>3, <3>1 DEF Upper
      <3>3. _node_valid(l) <=> place[l] = "on"
        BY <2>2, KindsOfNodes DEF _node_valid
      <3> QED BY <3>2, <3>3
    <2>6. _edge_valid(l, q[1]) <=> q[1] \in Under(l)
      BY <2>2 DEF _edge_valid
    <2>7. p \in Hops(l, transports)
          <=> \E m \in Under(l) : place[l] = "on" /\ \E e \in Endpoints(m, transports) : p = <<l>> \o e
      <3> HIDE DEF Endpoints, Under
      <3> QED BY Zenon DEF Hops
    <2>8. ASSUME NEW e \in Leads(transports), p = <<l>> \o e
          PROVE  e = q
      <3>1. e \in Seq(Refs)
        BY LeadsByKind
      <3>2. Len(e) = Len(q) /\ \A i \in 1..Len(q) : e[i] = q[i]
        <4>1. Len(p) = 1 + Len(q) /\ Len(p) = 1 + Len(e) /\ Len(q) \in Nat /\ Len(e) \in Nat
          BY <1>2, <2>1, <2>2, <2>8, <3>1
        <4>2. ASSUME NEW i \in 1..Len(q) PROVE e[i] = q[i]
          <5>1. (<<l>> \o q)[1 + i] = q[i]
            BY <2>1, <2>3
          <5>2. (<<l>> \o e)[1 + i] = e[i]
            BY <2>3, <3>1, <4>1
          <5> QED BY <1>2, <2>8, <5>1, <5>2
        <4> QED BY <4>1, <4>2
      <3> QED BY <2>1, <3>1, <3>2, SeqEqual
    <2>9. p \in Hops(l, transports) <=> place[l] = "on" /\ q[1] \in Under(l) /\ path_is_valid(q)
      <3>1. ASSUME p \in Hops(l, transports)
            PROVE  place[l] = "on" /\ q[1] \in Under(l) /\ path_is_valid(q)
        <4>0. PICK m \in Under(l) : place[l] = "on" /\ \E e \in Endpoints(m, transports) : p = <<l>> \o e
          BY <2>7, <3>1, Zenon
        <4>1. PICK e \in Endpoints(m, transports) : p = <<l>> \o e
          BY <4>0, Zenon
        <4>2. e \in Leads(transports) /\ e[1] = m /\ path_is_valid(e)
          BY EndpointsAreLeads
        <4>3. e = q
          BY <2>8, <4>1, <4>2, Zenon
        <4> QED BY <4>0, <4>2, <4>3, Zenon
      <3>2. ASSUME place[l] = "on", q[1] \in Under(l), path_is_valid(q)
            PROVE  p \in Hops(l, transports)
        <4>1. q \in Endpoints(q[1], transports)
          BY <3>2, EndpointsAreLeads
        <4> QED BY <1>2, <2>7, <3>2, <4>1, Zenon
      <3> QED BY <3>1, <3>2
    <2>10. Len(p) >= 1
      BY <1>2, <2>1, <2>3
    <2> QED BY <2>2, <2>4, <2>5, <2>6, <2>9, <2>10
  <1> QED
    BY <1>1, <1>2 DEF Descents

\* So the hops below a node are the valid descents from it.
LEMMA HopsAreDescents ==
    ASSUME DirectoryConstants, DirectoryTypeOK, NEW transports, NEW n
    PROVE  \A p : p \in Hops(n, transports) <=> p \in Descents(transports) /\ p[1] = n /\ path_is_valid(p)
  <1>1. ASSUME NEW p \in Hops(n, transports)
        PROVE  p \in Descents(transports) /\ p[1] = n
    <2>1. CASE n \notin Locations
      BY <2>1, EndpointsAreLeads DEF Hops, Descents
    <2>2. CASE n \in Locations
      <3>1. PICK m \in Under(n) : \E e \in Endpoints(m, transports) : p = <<n>> \o e
        BY <2>2, Zenon DEF Hops
      <3>2. PICK e \in Leads(transports) : p = <<n>> \o e
        BY <3>1, EndpointsAreLeads
      <3>3. p \in Descents(transports)
        BY <2>2, <3>2 DEF Descents
      <3>4. e \in Seq(Refs)
        BY LeadsByKind
      <3>5. p[1] = n
        BY <3>2, <3>4
      <3> QED BY <3>3, <3>5
    <2> QED BY <2>1, <2>2
  <1> QED
    BY <1>1, DescentsByKind

\* A way is a sequence of audiences.
LEMMA WaysAreSequences ==
    ASSUME DirectoryConstants, NEW w \in SeqOf(Audiences, Cardinality(Audiences))
    PROVE  w \in Seq(Audiences) /\ w \in Seq(Refs) /\ (w # <<>> => Len(w) >= 1)
  <1>1. Cardinality(Audiences) \in Nat
    BY FS_CardinalityType DEF DirectoryConstants
  <1>2. PICK m \in 0..Cardinality(Audiences) : w \in [1..m -> Audiences]
    BY DEF SeqOf
  <1>3. m \in Nat
    BY <1>1
  <1>4. w \in Seq(Audiences)
    BY <1>2, <1>3, SeqDef
  <1>5. Audiences \subseteq Refs
    BY DEF Refs, Nodes
  <1>6. w \in Seq(Refs)
    BY <1>4, <1>5
  <1>7. w # <<>> => Len(w) >= 1
    BY <1>4
  <1> QED
    BY <1>4, <1>6, <1>7

\* A walk is a way whose audiences and memberships are still there.
LEMMA WalksAreWays ==
    ASSUME DirectoryConstants, DirectoryTypeOK, NEW targets, NEW w, NEW m, m \notin Audiences
    PROVE  (\E t \in targets \cap Audiences : w \in Walks(t) /\ m \in MembersOf(Last(w)))
           <=> w \in Ways(targets) /\ Upper(w) /\ _edge_valid(w[Len(w)], m)
  <1>1. ASSUME NEW a \in Audiences
        PROVE  /\ \A b : _edge_valid(a, b) <=> b \in MembersOf(a)
               /\ \A b \in MembersOf(a) : _node_valid(a)
    <2>1. a \notin Locations /\ a \notin Recipients
      BY DEF DirectoryConstants
    <2> QED BY <2>1 DEF _edge_valid, _node_valid, MembersOf
  <1>2. ASSUME NEW t \in targets \cap Audiences, w \in Walks(t), m \in MembersOf(Last(w))
        PROVE  w \in Ways(targets) /\ Upper(w) /\ _edge_valid(w[Len(w)], m)
    <2>1. /\ w \in SeqOf(Audiences, Cardinality(Audiences)) /\ w # <<>> /\ w[1] = t /\ IsInjective(w)
          /\ \A i \in 1..Len(w) - 1 : w[i + 1] \in MembersOf(w[i])
      BY <1>2 DEF Walks
    <2>2. w \in Ways(targets)
      BY <2>1 DEF Ways
    <2>3. w \in Seq(Audiences) /\ Len(w) >= 1 /\ Len(w) \in Nat
      BY <2>1, WaysAreSequences
    <2>4. \A i \in 1..Len(w) : w[i] \in Audiences
      BY <2>3
    <2>5. w[Len(w)] \in Audiences /\ m \in MembersOf(w[Len(w)])
      BY <1>2, <2>3, <2>4 DEF Last
    <2>6. ASSUME NEW i \in 1..Len(w)
          PROVE  _node_valid(w[i])
      <3>1. CASE i = Len(w)
        BY <1>1, <2>5, <3>1
      <3>2. CASE i # Len(w)
        <4>1. i \in 1..Len(w) - 1
          BY <2>3, <3>2
        <4> QED BY <1>1, <2>1, <2>4, <4>1
      <3> QED BY <3>1, <3>2
    <2>7. ASSUME NEW i \in 1..Len(w) - 1
          PROVE  _edge_valid(w[i], w[i + 1])
      <3>1. i \in 1..Len(w)
        BY <2>3
      <3> QED BY <1>1, <2>1, <2>4, <3>1
    <2> QED BY <1>1, <2>2, <2>5, <2>6, <2>7 DEF Upper
  <1>3. ASSUME w \in Ways(targets), Upper(w), _edge_valid(w[Len(w)], m)
        PROVE  \E t \in targets \cap Audiences : w \in Walks(t) /\ m \in MembersOf(Last(w))
    <2>1. w \in SeqOf(Audiences, Cardinality(Audiences)) /\ w # <<>> /\ w[1] \in targets /\ IsInjective(w)
      BY <1>3 DEF Ways
    <2>2. w \in Seq(Audiences) /\ Len(w) >= 1 /\ Len(w) \in Nat
      BY <2>1, WaysAreSequences
    <2>3. \A i \in 1..Len(w) : w[i] \in Audiences
      BY <2>2
    <2>4. w[1] \in Audiences /\ w[Len(w)] \in Audiences
      BY <2>2, <2>3
    <2>5. m \in MembersOf(Last(w))
      BY <1>1, <1>3, <2>4 DEF Last
    <2>6. ASSUME NEW i \in 1..Len(w) - 1
          PROVE  w[i + 1] \in MembersOf(w[i])
      <3>1. i \in 1..Len(w)
        BY <2>2
      <3>2. _edge_valid(w[i], w[i + 1])
        BY <1>3 DEF Upper
      <3> QED BY <1>1, <2>3, <3>1, <3>2
    <2>7. w \in Walks(w[1])
      BY <2>1, <2>6 DEF Walks
    <2> QED BY <2>1, <2>4, <2>5, <2>7
  <1> QED
    BY <1>2, <1>3

\* The parts of a descent and of a route.
LEMMA DescentParts ==
    ASSUME NEW transports, NEW x
    PROVE  x \in Descents(transports)
           <=> x \in Leads(transports) \/ \E l \in Locations : \E p \in Leads(transports) : x = <<l>> \o p
  <1> DEFINE At(l) == {<<l>> \o p : p \in Leads(transports)}
  <1>1. ASSUME NEW l
        PROVE  x \in At(l) <=> \E p \in Leads(transports) : x = <<l>> \o p
    BY Zenon
  <1>2. Descents(transports) = Leads(transports) \cup UNION {At(l) : l \in Locations}
    BY Zenon DEF Descents
  <1> HIDE DEF At
  <1>3. x \in UNION {At(l) : l \in Locations} <=> \E l \in Locations : x \in At(l)
    OBVIOUS
  <1> QED BY <1>1, <1>2, <1>3, Zenon

LEMMA RouteParts ==
    ASSUME NEW targets, NEW transports, NEW x
    PROVE  x \in Routes(targets, transports)
           <=> \/ x \in Descents(transports) /\ x[1] \in targets \ Audiences
               \/ \E w \in Ways(targets) : \E p \in Descents(transports) : x = w \o p
  <1> DEFINE Over(w) == {w \o p : p \in Descents(transports)}
  <1>1. ASSUME NEW w
        PROVE  x \in Over(w) <=> \E p \in Descents(transports) : x = w \o p
    BY Zenon
  <1>2. Routes(targets, transports)
        = {p \in Descents(transports) : p[1] \in targets \ Audiences} \cup UNION {Over(w) : w \in Ways(targets)}
    BY Zenon DEF Routes
  <1> HIDE DEF Over
  <1>3. x \in UNION {Over(w) : w \in Ways(targets)} <=> \E w \in Ways(targets) : x \in Over(w)
    OBVIOUS
  <1>4. x \in {p \in Descents(transports) : p[1] \in targets \ Audiences}
        <=> x \in Descents(transports) /\ x[1] \in targets \ Audiences
    OBVIOUS
  <1> QED BY <1>1, <1>2, <1>3, <1>4, Zenon

\* The resolution of targets is the set of their routes that are valid.
LEMMA ResolutionIsValidity ==
    ASSUME DirectoryConstants, DirectoryTypeOK, NEW targets, NEW transports
    PROVE  \A x : x \in resolve_targets(targets, transports)
                  <=> x \in Routes(targets, transports) /\ path_is_valid(x)
  <1>1. ASSUME NEW x
        PROVE  (\E t \in targets \ Audiences : x \in Hops(t, transports))
               <=> x \in Descents(transports) /\ x[1] \in targets \ Audiences /\ path_is_valid(x)
    BY HopsAreDescents
  <1>2. ASSUME NEW w \in Ways(targets), NEW p \in Descents(transports)
        PROVE  /\ path_is_valid(w \o p) <=> Upper(w) /\ _edge_valid(w[Len(w)], p[1]) /\ path_is_valid(p)
               /\ p[1] \notin Audiences
    <2>1. w \in Seq(Refs) /\ Len(w) >= 1
      BY WaysAreSequences DEF Ways
    <2>2. p \in Seq(Refs) /\ Len(p) >= 1 /\ p[1] \notin Audiences
      BY DescentsByKind
    <2> QED BY <2>1, <2>2, Joined
  <1> DEFINE Below(x) == \E t \in targets \cap Audiences : \E w \in Walks(t) :
                            \E m \in MembersOf(Last(w)) \ Audiences : \E p \in Hops(m, transports) : x = w \o p
  <1>3. ASSUME NEW x, Below(x)
        PROVE  (\E w \in Ways(targets) : \E p \in Descents(transports) : x = w \o p) /\ path_is_valid(x)
    <2>1. PICK t \in targets \cap Audiences : \E w \in Walks(t) :
                 \E m \in MembersOf(Last(w)) \ Audiences : \E p \in Hops(m, transports) : x = w \o p
      BY <1>3
    <2>2. PICK w \in Walks(t) : \E m \in MembersOf(Last(w)) \ Audiences : \E p \in Hops(m, transports) : x = w \o p
      BY <2>1
    <2>3. PICK m \in MembersOf(Last(w)) \ Audiences : \E p \in Hops(m, transports) : x = w \o p
      BY <2>2
    <2>4. PICK p \in Hops(m, transports) : x = w \o p
      BY <2>3
    <2>5. p \in Descents(transports) /\ p[1] = m /\ path_is_valid(p)
      BY HopsAreDescents
    <2>6. w \in Ways(targets) /\ Upper(w) /\ _edge_valid(w[Len(w)], m)
      BY WalksAreWays
    <2>7. path_is_valid(w \o p)
      BY <1>2, <2>5, <2>6
    <2> QED BY <2>4, <2>5, <2>6, <2>7
  <1>4. ASSUME NEW w \in Ways(targets), NEW p \in Descents(transports), path_is_valid(w \o p)
        PROVE  Below(w \o p)
    <2>1. Upper(w) /\ _edge_valid(w[Len(w)], p[1]) /\ path_is_valid(p) /\ p[1] \notin Audiences
      BY <1>2, <1>4
    <2>2. PICK t \in targets \cap Audiences : w \in Walks(t) /\ p[1] \in MembersOf(Last(w))
      BY <2>1, WalksAreWays
    <2>3. p \in Hops(p[1], transports)
      BY <2>1, HopsAreDescents
    <2> QED BY <2>1, <2>2, <2>3
  <1>5. ASSUME NEW x
        PROVE  x \in resolve_targets(targets, transports)
               <=> (\E t \in targets \ Audiences : x \in Hops(t, transports)) \/ Below(x)
    <2> DEFINE Under_(w) == {w \o p : p \in UNION {Hops(m, transports) : m \in MembersOf(Last(w)) \ Audiences}}
               From(t) == UNION {Under_(w) : w \in Walks(t)}
               A == UNION {Hops(t, transports) : t \in targets \ Audiences}
               B == UNION {From(t) : t \in targets \cap Audiences}
    <2>0. resolve_targets(targets, transports) = A \cup B
      BY DEF resolve_targets
    <2>1. ASSUME NEW w
          PROVE  x \in Under_(w) <=> \E m \in MembersOf(Last(w)) \ Audiences : \E p \in Hops(m, transports) : x = w \o p
      <3>1. \A p : p \in UNION {Hops(m, transports) : m \in MembersOf(Last(w)) \ Audiences}
                   <=> \E m \in MembersOf(Last(w)) \ Audiences : p \in Hops(m, transports)
        OBVIOUS
      <3>2. x \in Under_(w) <=> \E p \in UNION {Hops(m, transports) : m \in MembersOf(Last(w)) \ Audiences} : x = w \o p
        BY Zenon
      <3> QED BY <3>1, <3>2, Zenon
    <2> HIDE DEF Under_
    <2>2. ASSUME NEW t
          PROVE  x \in From(t) <=> \E w \in Walks(t) : x \in Under_(w)
      OBVIOUS
    <2> HIDE DEF From
    <2>3. x \in B <=> \E t \in targets \cap Audiences : x \in From(t)
      OBVIOUS
    <2>4. x \in A <=> \E t \in targets \ Audiences : x \in Hops(t, transports)
      OBVIOUS
    <2>5. Below(x) <=> \E t \in targets \cap Audiences : x \in From(t)
      BY <2>1, <2>2, Zenon
    <2> HIDE DEF A, B
    <2>6. x \in B <=> Below(x)
      BY <2>3, <2>5, Zenon
    <2> HIDE DEF Below
    <2> QED BY <2>0, <2>4, <2>6
  <1>6. ASSUME NEW x
        PROVE  x \in Routes(targets, transports)
               <=> \/ x \in Descents(transports) /\ x[1] \in targets \ Audiences
                   \/ \E w \in Ways(targets) : \E p \in Descents(transports) : x = w \o p
    BY RouteParts
  <1> HIDE DEF Below
  <1> SUFFICES ASSUME NEW x
               PROVE  x \in resolve_targets(targets, transports)
                      <=> x \in Routes(targets, transports) /\ path_is_valid(x)
    OBVIOUS
  <1>7. Below(x) <=> path_is_valid(x) /\ \E w \in Ways(targets) : \E p \in Descents(transports) : x = w \o p
    <2>1. ASSUME path_is_valid(x), NEW w \in Ways(targets), NEW p \in Descents(transports), x = w \o p
          PROVE  Below(x)
      <3>1. path_is_valid(w \o p)
        BY <2>1, Zenon
      <3>2. Below(w \o p)
        BY <1>4, <3>1
      <3> QED BY <2>1, <3>2, Zenon
    <2> QED BY <1>3, <2>1, Zenon
  <1> QED
    BY <1>1, <1>5, <1>6, <1>7, Zenon

\* What was a route stays one: contact points keep their person, rows are only added.
LEMMA RoutesGrow ==
    ASSUME Rows, Rows', PointsGrow, Len(spots') >= Len(spots), NEW CONSTANT targets, NEW CONSTANT transports
    PROVE  Routes(targets, transports) \subseteq Routes(targets, transports)'
  <1>0. Len(points) \in Nat /\ Len(points') \in Nat /\ Len(spots) \in Nat /\ Len(spots') \in Nat
    BY DEF Rows
  <1>1. ASSUME NEW p \in Leads(transports)
        PROVE  p \in Leads(transports)'
    <2>1. ASSUME NEW i \in 1..Len(points), TransportOf[points[i].id] \in transports, p = <<points[i].of, Point(i)>>
          PROVE  p \in Leads(transports)'
      <3>1. i \in 1..Len(points') /\ points'[i].of = points[i].of /\ points'[i].id = points[i].id
        BY <1>0 DEF PointsGrow
      <3> QED BY <2>1, <3>1 DEF Leads, Point
    <2>2. ASSUME NEW i \in 1..Len(spots), "telegram" \in transports, p = <<Spot(i)>>
          PROVE  p \in Leads(transports)'
      <3>1. i \in 1..Len(spots')
        BY <1>0
      <3> QED BY <2>2, <3>1 DEF Leads, Spot
    <2> QED BY <2>1, <2>2 DEF Leads
  <1>2. Descents(transports) \subseteq Descents(transports)'
    <2> SUFFICES ASSUME NEW x \in Descents(transports)
                 PROVE  x \in Descents(transports)'
      OBVIOUS
    <2>1. CASE x \in Leads(transports)
      BY <1>1, <2>1 DEF Descents
    <2>2. ASSUME NEW l \in Locations, NEW p \in Leads(transports), x = <<l>> \o p
          PROVE  x \in Descents(transports)'
      <3>1. p \in Leads(transports)'
        BY <1>1
      <3> DEFINE At(k) == {<<k>> \o q : q \in Leads(transports)'}
      <3>2. x \in At(l)
        BY <2>2, <3>1, Zenon
      <3>3. Descents(transports)' = Leads(transports)' \cup UNION {At(k) : k \in Locations}
        BY Zenon DEF Descents
      <3> HIDE DEF At
      <3> QED BY <3>2, <3>3
    <2> QED BY <2>1, <2>2, DescentParts
  <1>3. Ways(targets)' = Ways(targets)
    BY DEF Ways
  <1> SUFFICES ASSUME NEW x \in Routes(targets, transports)
               PROVE  x \in Routes(targets, transports)'
    OBVIOUS
  <1>4. CASE x \in Descents(transports) /\ x[1] \in targets \ Audiences
    BY <1>2, <1>4 DEF Routes
  <1>5. ASSUME NEW w \in Ways(targets), NEW p \in Descents(transports), x = w \o p
        PROVE  x \in Routes(targets, transports)'
    <2>1. w \in Ways(targets)' /\ p \in Descents(transports)'
      BY <1>2, <1>3
    <2> DEFINE Over(v) == {v \o q : q \in Descents(transports)'}
    <2>2. x \in Over(w)
      BY <1>5, <2>1, Zenon
    <2>3. Routes(targets, transports)'
          = {q \in Descents(transports)' : q[1] \in targets \ Audiences} \cup UNION {Over(v) : v \in Ways(targets)'}
      BY Zenon DEF Routes
    <2> HIDE DEF Over
    <2> QED BY <2>1, <2>2, <2>3
  <1> QED
    BY <1>4, <1>5, RouteParts

-----------------------------------------------------------------------------
(* The invariant.                                                          *)

\* What an edit of the directory may change, and the freeze of a campaign.
Edited ==
    /\ CirclesStep /\ PointsStep /\ SpotsStep /\ frozen' = frozen
    /\ place' \in [Locations -> States] /\ person' \in [Recipients -> States]
    /\ sits' \subseteq Locations \X Recipients
    /\ meta' \in [Creations -> {NoRow, "asked", "made", "failed"}]
    /\ edits' \in 0..MaxChanges
Frozen ==
    /\ UNCHANGED <<place, person, sits, circles, points, spots, orders, meta, edits>>
    /\ \E targets, transports :
          frozen' = [targets |-> targets, transports |-> transports,
                     origins |-> resolve_targets(targets, transports)]

LEMMA EditKeeps ==
    ASSUME DirectoryConstants, DirectoryInvariant, Edited
    PROVE  DirectoryInvariant'
  <1>0. /\ DirectoryTypeOK /\ Acyclic /\ OneEndpoint /\ OptOutHolds /\ GroupFiledOnce /\ OriginsAreRoutes
        /\ CirclesStep /\ PointsStep /\ SpotsStep /\ frozen' = frozen
    BY DEF DirectoryInvariant, Edited
  <1>1. Rows
    BY <1>0 DEF DirectoryTypeOK, Rows
  <1>2. PointsApart /\ SpotsApart /\ FiledOnce
    BY <1>0, <1>1, EndpointsByPart
  <1>3. Acyclic' /\ circles' \in [Audiences -> {NoRow} \cup SUBSET Nodes]
    BY <1>0, CirclesKept
  <1>4. /\ points' \in Seq(ContactPoint) /\ Len(points') <= MaxPoints /\ PointsGrow
        /\ PointsApart' /\ OptOutHolds'
    BY <1>0, <1>2, PointsKept
  <1>5. /\ spots' \in Seq(Destination) /\ Len(spots') <= MaxSpots /\ Len(spots') >= Len(spots)
        /\ orders' \in [Creations -> {NoRow, "filed", "failed"} \cup Locations]
        /\ SpotsApart' /\ FiledOnce'
    BY <1>0, <1>2, SpotsKept
  <1>6. DirectoryTypeOK'
    BY <1>3, <1>4, <1>5 DEF DirectoryTypeOK, Edited, ContactPoint, Destination, Nodes, States, Spot
  <1>7. Rows'
    BY <1>4, <1>5 DEF Rows, ContactPoint, Destination
  <1>8. OneEndpoint' /\ GroupFiledOnce'
    <2>1. Rows' => (OneEndpoint' <=> PointsApart' /\ SpotsApart') /\ (GroupFiledOnce' <=> FiledOnce')
      BY EndpointsByPart, PTL
    <2> QED BY <1>4, <1>5, <1>7, <2>1
  <1>9. OriginsAreRoutes'
    <2>1. PICK targets, transports, origins :
             targets = frozen.targets /\ transports = frozen.transports /\ origins = frozen.origins
      OBVIOUS
    <2>2. origins \subseteq Routes(targets, transports)
      BY <1>0, <2>1 DEF OriginsAreRoutes
    <2>3. origins \subseteq Routes(targets, transports)'
      BY <1>1, <1>4, <1>5, <1>7, <2>2, RoutesGrow
    <2> QED BY <1>0, <2>1, <2>3 DEF OriginsAreRoutes
  <1> QED
    BY <1>3, <1>4, <1>6, <1>8, <1>9 DEF DirectoryInvariant

LEMMA FreezeKeeps ==
    ASSUME DirectoryConstants, DirectoryInvariant, Frozen
    PROVE  DirectoryInvariant'
  <1>0. UNCHANGED <<place, person, sits, circles, points, spots, orders, meta, edits>>
    BY DEF Frozen
  <1>1. DirectoryTypeOK'
    BY <1>0 DEF DirectoryInvariant, DirectoryTypeOK, ContactPoint, Destination, Nodes, States, Spot
  <1>2. Acyclic' /\ OneEndpoint' /\ OptOutHolds' /\ GroupFiledOnce'
    <2>1. Acyclic'
      BY <1>0, CirclesKept DEF DirectoryInvariant, CirclesStep
    <2>2. OneEndpoint' /\ OptOutHolds'
      BY <1>0 DEF DirectoryInvariant, OneEndpoint, EnabledFor, OptOutHolds
    <2>3. GroupFiledOnce'
      BY <1>0 DEF DirectoryInvariant, GroupFiledOnce
    <2> QED BY <2>1, <2>2, <2>3
  <1>3. OriginsAreRoutes'
    <2>1. PICK targets, transports :
             frozen' = [targets |-> targets, transports |-> transports,
                        origins |-> resolve_targets(targets, transports)]
      BY DEF Frozen
    <2>2. resolve_targets(targets, transports) \subseteq Routes(targets, transports)
      BY ResolutionIsValidity DEF DirectoryInvariant
    <2>3. Routes(targets, transports)' = Routes(targets, transports)
      BY <1>0 DEF Routes, Descents, Leads, Ways, Point, Spot
    <2>4. frozen'.targets = targets /\ frozen'.transports = transports
          /\ frozen'.origins = resolve_targets(targets, transports)
      BY <2>1
    <2> QED BY <2>2, <2>3, <2>4 DEF OriginsAreRoutes
  <1> QED
    BY <1>1, <1>2, <1>3 DEF DirectoryInvariant

\* Every action is an edit or the freeze.
LEMMA StepByKind ==
    ASSUME DirectoryConstants, DirectoryTypeOK, DirectoryNext
    PROVE  Edited \/ Frozen
  <1>0. /\ place \in [Locations -> States] /\ person \in [Recipients -> States]
        /\ sits \subseteq Locations \X Recipients
        /\ meta \in [Creations -> {NoRow, "asked", "made", "failed"}]
        /\ edits \in 0..MaxChanges /\ MaxChanges \in Nat
    BY DEF DirectoryTypeOK, DirectoryConstants
  <1>1. run_local => edits' \in 0..MaxChanges
    BY <1>0 DEF run_local
  <1> DEFINE People == /\ place' \in [Locations -> States] /\ person' \in [Recipients -> States]
                       /\ sits' \subseteq Locations \X Recipients
  <1>2. place' = place /\ person' = person /\ sits' = sits => People
    BY <1>0
  <1>3. ASSUME NEW l \in Locations,
               location_create(l) \/ \E to \in {"on", "off"} : location_enabled(l, to)
        PROVE  Edited
    <2>1. PICK v \in {"on", "off"} : place' = [place EXCEPT ![l] = v]
      BY <1>3 DEF location_create, location_enabled, Insert, set_enabled
    <2>2. People
      BY <1>0, <1>3, <2>1 DEF location_create, location_enabled, States
    <2> QED BY <1>0, <1>1, <1>3, <2>2
            DEF location_create, location_enabled, Edited, CirclesStep, PointsStep, SpotsStep
  <1>4. ASSUME NEW r \in Recipients,
               recipient_create(r) \/ \E to \in {"on", "off"} : recipient_enabled(r, to)
        PROVE  Edited
    <2>1. PICK v \in {"on", "off"} : person' = [person EXCEPT ![r] = v]
      BY <1>4 DEF recipient_create, recipient_enabled, Insert, set_enabled
    <2>2. People
      BY <1>0, <1>4, <2>1 DEF recipient_create, recipient_enabled, States
    <2> QED BY <1>0, <1>1, <1>4, <2>2
            DEF recipient_create, recipient_enabled, Edited, CirclesStep, PointsStep, SpotsStep
  <1>5. ASSUME NEW r \in Recipients, NEW l \in Locations, location_member_add(l, r) \/ location_member_remove(l, r)
        PROVE  Edited
    <2>1. People
      BY <1>0, <1>5 DEF location_member_add, location_member_remove
    <2> QED BY <1>0, <1>1, <1>5, <2>1
            DEF location_member_add, location_member_remove, Edited, CirclesStep, PointsStep, SpotsStep
  <1>6. ASSUME NEW r \in Recipients, NEW id \in Identities, contact_add(r, id)
        PROVE  Edited
    BY <1>0, <1>1, <1>2, <1>6 DEF contact_add, Edited, CirclesStep, PointsStep, SpotsStep
  <1>7. ASSUME NEW a \in Audiences, audience_create(a)
        PROVE  Edited
    BY <1>0, <1>1, <1>2, <1>7 DEF audience_create, Insert, Edited, CirclesStep, PointsStep, SpotsStep
  <1>8. ASSUME NEW a \in Audiences, NEW m \in Nodes, audience_add(a, m) \/ audience_remove(a, m)
        PROVE  Edited
    BY <1>0, <1>1, <1>2, <1>8 DEF audience_add, audience_remove, Edited, CirclesStep, PointsStep, SpotsStep
  <1>9. ASSUME NEW i \in 1..Len(points), contact_disable(i) \/ contact_opt_out(i)
        PROVE  Edited
    BY <1>0, <1>1, <1>2, <1>9 DEF contact_disable, contact_opt_out, Edited, CirclesStep, PointsStep, SpotsStep
  <1>10. ASSUME NEW l \in Locations, NEW id \in Identities \cup Groups, destination_create(l, id)
         PROVE  Edited
    BY <1>0, <1>1, <1>2, <1>10 DEF destination_create, Edited, CirclesStep, PointsStep, SpotsStep
  <1>11. ASSUME NEW i \in 1..Len(spots), destination_disable(i)
         PROVE  Edited
    BY <1>0, <1>1, <1>2, <1>11 DEF destination_disable, Edited, CirclesStep, PointsStep, SpotsStep
  <1>12. ASSUME NEW q \in Creations, group_create(q) \/ \E how \in {"made", "failed"} : meta_decides(q, how)
         PROVE  Edited
    <2>1. PICK v \in {"asked", "made", "failed"} : meta' = [meta EXCEPT ![q] = v]
      BY <1>12 DEF group_create, meta_decides
    <2>2. meta' \in [Creations -> {NoRow, "asked", "made", "failed"}]
      BY <1>0, <2>1
    <2> QED BY <1>0, <1>1, <1>2, <1>12, <2>2
            DEF group_create, meta_decides, Edited, CirclesStep, PointsStep, SpotsStep
  <1>13. ASSUME NEW q \in Creations, pend_group_creation(q) \/ settle_group_creation(q)
         PROVE  Edited
    BY <1>0, <1>2, <1>13
       DEF pend_group_creation, settle_group_creation, Edited, CirclesStep, PointsStep, SpotsStep
  <1>14. ASSUME NEW targets, NEW transports, freeze(targets, transports)
         PROVE  Frozen
    BY <1>14 DEF freeze, Frozen
  <1> QED
    BY <1>3, <1>4, <1>5, <1>6, <1>7, <1>8, <1>9, <1>10, <1>11, <1>12, <1>13, <1>14 DEF DirectoryNext

LEMMA DirectoryInitSound ==
    ASSUME DirectoryConstants, DirectoryInit
    PROVE  DirectoryInvariant
  <1>1. /\ points = <<>> /\ spots = <<>> /\ sits = {} /\ Len(points) = 0 /\ Len(spots) = 0
        /\ orders = [q \in Creations |-> NoRow] /\ frozen.origins = {}
    BY DEF DirectoryInit, NotFrozen
  <1>2. circles \in [Audiences -> {NoRow} \cup SUBSET Nodes] /\ \A a \in Audiences : MembersOf(a) = {}
    BY DEF DirectoryInit, MembersOf, Exists
  <1>3. DirectoryTypeOK
    BY <1>1, <1>2 DEF DirectoryInit, DirectoryTypeOK, States, DirectoryConstants
  <1>4. Acyclic
    BY <1>2 DEF Acyclic
  <1>5. OptOutHolds /\ OriginsAreRoutes
    BY <1>1 DEF OptOutHolds, OriginsAreRoutes
  <1>6. Rows
    BY <1>3 DEF DirectoryTypeOK, Rows
  <1>7. PointsApart /\ SpotsApart
    BY <1>1 DEF PointsApart, SpotsApart
  <1>8. FiledOnce
    BY <1>1 DEF FiledOnce, FiledBy, DirectoryConstants
  <1>9. OneEndpoint /\ GroupFiledOnce
    BY <1>6, <1>7, <1>8, EndpointsByPart
  <1> QED
    BY <1>3, <1>4, <1>5, <1>9 DEF DirectoryInvariant

LEMMA DirectoryStepSound ==
    ASSUME DirectoryConstants, DirectoryInvariant, [DirectoryNext]_directoryVars
    PROVE  DirectoryInvariant'
  <1>1. CASE UNCHANGED directoryVars
    <2>1. Edited
      BY <1>1 DEF directoryVars, Edited, CirclesStep, PointsStep, SpotsStep, DirectoryInvariant, DirectoryTypeOK
    <2> QED BY <2>1, EditKeeps
  <1>2. CASE DirectoryNext
    <2>1. Edited \/ Frozen
      BY <1>2, StepByKind DEF DirectoryInvariant
    <2> QED BY <2>1, EditKeeps, FreezeKeeps
  <1> QED
    BY <1>1, <1>2

LEMMA InvariantSound ==
    ASSUME DirectoryConstants, DirectoryInvariant
    PROVE  DirectoryStaysSound
  <1>1. RevalidationAgrees
    BY ResolutionIsValidity DEF DirectoryInvariant, OriginsAreRoutes, RevalidationAgrees
  <1> QED
    BY <1>1 DEF DirectoryInvariant, DirectoryStaysSound

\* DirectoryInvariant is inductive: whatever the owner edits and in whichever order Meta answers,
\* rows keep their kind, memberships stay acyclic, no identity has two enabled endpoints, an
\* opt-out is kept, a created group is filed once, and every frozen origin stays a route.
THEOREM DirectoryInductive ==
    ASSUME DirectoryConstants
    PROVE  DirectorySpec => []DirectoryInvariant
  <1>1. DirectoryInit => DirectoryInvariant
    BY DirectoryInitSound
  <1>2. DirectoryInvariant /\ [DirectoryNext]_directoryVars => DirectoryInvariant'
    BY DirectoryStepSound
  <1> QED
    BY <1>1, <1>2, PTL DEF DirectorySpec

\* What the directory promises its callers holds in every reachable state; in particular
\* path_is_valid, asked before every send, agrees with what resolve_targets would find.
THEOREM DirectorySound ==
    ASSUME DirectoryConstants
    PROVE  DirectorySpec => []DirectoryStaysSound
  <1>1. DirectoryInvariant => DirectoryStaysSound
    BY InvariantSound
  <1>2. DirectorySpec => []DirectoryInvariant
    BY DirectoryInductive
  <1> QED
    BY <1>1, <1>2, PTL

-----------------------------------------------------------------------------
(* Instagram: the desks.                                                   *)

\* The publishing desk's share of the invariant.
PublishTypes ==
    /\ days \in 0 .. MaxDays /\ boxes \in Seq(Box) /\ book \in SUBSET Row /\ IsFiniteSet(book)
    /\ asks \in Seq(Ask) /\ post \in Post /\ thread \in Seq([dir : {"in", "out"}, day : Nat])
AsksAreTrue == \A i \in 1 .. Len(asks) : AskIsTrue(asks[i])
PublishingSound ==
    /\ PublishTypes /\ PostsAreContainers /\ RowsAreContainers /\ PublicationsAreOwned
    /\ AsksAreTrue /\ CallIsTrue /\ LossesAreOwned /\ BudgetKept /\ NoColdMessage
AccountTypes ==
    /\ accountOf \in [Aliases -> Users \cup {Nobody}] /\ tokenOf \in [Aliases -> Users \cup {Nobody}]
    /\ linked \in [Aliases -> Users \cup {Nobody}] /\ checked \subseteq Aliases /\ clerk \in Clerk
PageTypes == feed \in [Feeds -> Nat] /\ reading \in Reading

\* The desks share the daemon only.
LEMMA InstagramByDesk ==
    InstagramInvariant <=>
      /\ stops \in 0 .. MaxStops /\ serving \in BOOLEAN /\ PublishingSound
      /\ AccountTypes /\ AccountsSound /\ PageTypes /\ WalkSound
  BY DEF InstagramInvariant, InstagramTypeOK, PublishingSound, PublishTypes, AsksAreTrue, AccountTypes, PageTypes

LEMMA InstagramByDeskNext ==
    InstagramInvariant' <=>
      /\ stops' \in 0 .. MaxStops /\ serving' \in BOOLEAN /\ PublishingSound'
      /\ AccountTypes' /\ AccountsSound' /\ PageTypes' /\ WalkSound'
  BY DEF InstagramInvariant, InstagramTypeOK, PublishingSound, PublishTypes, AsksAreTrue, AccountTypes, PageTypes

LEMMA PublishingRests ==
    ASSUME PublishingSound, UNCHANGED <<publishVars, serving>>
    PROVE  PublishingSound'
  BY DEF PublishingSound, publishVars, PublishTypes, Post, PostsAreContainers, RowsAreContainers, LedgerIsTrue,
         PublicationsAreOwned, Named, Mine, AsksAreTrue, AskIsTrue, CallIsTrue, LossesAreOwned, Owing, Unrecorded,
         BudgetKept, budget_used, NoColdMessage

LEMMA AccountsRest ==
    ASSUME AccountTypes, AccountsSound, UNCHANGED <<accountVars, serving>>
    PROVE  AccountTypes' /\ AccountsSound'
  BY DEF AccountTypes, AccountsSound, accountVars, Taken, reload

LEMMA PagesRest ==
    ASSUME PageTypes, WalkSound, UNCHANGED pageVars
    PROVE  PageTypes' /\ WalkSound'
  BY DEF PageTypes, WalkSound, pageVars

-----------------------------------------------------------------------------
(* Instagram: requests.                                                    *)

LEMMA OpFacts ==
    ASSUME NEW op \in Op
    PROVE  /\ op.tool \in WriteTools /\ op.owner \in Owners
           /\ Creates(op) => Kind(op) \in Kinds /\ op.tool # "publish" /\ op.tool # "message" /\ ~Repeatable(op)
           /\ op.tool = "publish" => op.box \in Nat /\ ~Repeatable(op) /\ op.tool # "message"
           /\ Repeatable(op) => op.tool # "message"
  BY DEF Op, WriteTools, Creates, Kind, Kinds, Repeatable

LEMMA OpsAreOps ==
    ASSUME PublishTypes, MaxDays \in Nat
    PROVE  Ops \subseteq Op
  <1>1. Len(boxes) \in Nat
    BY LenProperties DEF PublishTypes
  <1>2. 1 .. Len(boxes) \subseteq Nat /\ 0 .. MaxDays \subseteq Nat
    BY <1>1
  <1>3. \A c \in SUBSET (1 .. Len(boxes)) : c \in SUBSET Nat
    BY <1>2
  <1> QED BY <1>2, <1>3 DEF Ops, Op

LEMMA AskFacts ==
    ASSUME PublishTypes, NEW i \in 1 .. Len(asks)
    PROVE  /\ asks[i] \in Ask /\ asks[i].op \in Op /\ asks[i].effects \in Nat /\ asks[i].state \in Outcomes
           /\ asks[i].called \in BOOLEAN /\ asks[i].retried \in BOOLEAN /\ asks[i].made \in Nat
  <1>1. asks[i] \in Ask
    BY ElementOfSeq DEF PublishTypes
  <1> QED BY <1>1 DEF Ask

LEMMA PostFacts ==
    ASSUME PublishTypes, post # NoPost
    PROVE  /\ post.ask \in 1 .. Len(asks) /\ post.at \in {"start", "check", "status", "call", "ledger", "hook", "finish"}
           /\ post.at \in {"start", "check", "status", "call"} => post \in [at : {"start", "check", "status", "call"}, ask : 1 .. Len(asks)]
           /\ post.at \in {"ledger", "hook"} => post.made \in 1 .. Len(boxes)
           /\ post.at = "finish" => post.outcome \in Outcomes /\ post.made \in Nat
  BY DEF PublishTypes, Post

LEMMA PostIdle ==
    ASSUME PublishTypes
    PROVE  post.at = "idle" <=> post = NoPost
  BY DEF PublishTypes, Post, NoPost

\* What was said of a request stays true while rows stay and posts stay out.
BookGrows == \A r \in book : \E q \in book' : q.box = r.box /\ q.owner = r.owner
BoxesGrow ==
    \A b \in 1 .. Len(boxes) :
       /\ b \in 1 .. Len(boxes') /\ boxes'[b].owner = boxes[b].owner /\ boxes'[b].kind = boxes[b].kind
       /\ boxes[b].status = "PUBLISHED" => boxes'[b].status = "PUBLISHED"

LEMMA NamedKept ==
    ASSUME BookGrows, NEW acc, NEW box, Named(acc, box)
    PROVE  Named(acc, box)'
  BY DEF BookGrows, Named, Mine

LEMMA NamedIsContainer ==
    ASSUME RowsAreContainers, NEW acc, NEW box, Named(acc, box)
    PROVE  box \in 1 .. Len(boxes) /\ boxes[box].owner = acc
  BY DEF RowsAreContainers, LedgerIsTrue, Named, Mine

LEMMA AskKept ==
    ASSUME NEW a, AskIsTrue(a), BookGrows, BoxesGrow, a.op.tool = "publish" => a.op.box \in 1 .. Len(boxes)
    PROVE  AskIsTrue(a)'
  BY DEF AskIsTrue, BookGrows, BoxesGrow, Creates, Repeatable

\* A step that changes one request, or adds one.
LEMMA AsksKept ==
    ASSUME PublishTypes, RowsAreContainers, PublicationsAreOwned, AsksAreTrue, BookGrows, BoxesGrow, NEW k,
           \A i \in 1 .. Len(asks') : i # k => i \in 1 .. Len(asks) /\ asks'[i] = asks[i],
           AskIsTrue(asks[k])', (asks[k].op.tool = "publish" => Named(asks[k].op.owner, asks[k].op.box))'
    PROVE  AsksAreTrue' /\ PublicationsAreOwned'
  <1>1. ASSUME NEW i \in 1 .. Len(asks')
        PROVE  (AskIsTrue(asks[i]) /\ (asks[i].op.tool = "publish" => Named(asks[i].op.owner, asks[i].op.box)))'
    <2>1. CASE i = k
      BY <2>1
    <2>2. CASE i # k
      <3>1. PICK a : a = asks[i]
        OBVIOUS
      <3>2. i \in 1 .. Len(asks) /\ asks'[i] = a
        BY <2>2, <3>1
      <3>3. AskIsTrue(a) /\ (a.op.tool = "publish" => Named(a.op.owner, a.op.box))
        BY <3>1, <3>2 DEF AsksAreTrue, PublicationsAreOwned
      <3>4. a.op.tool = "publish" => a.op.box \in 1 .. Len(boxes)
        BY <3>3, NamedIsContainer
      <3>5. AskIsTrue(a)'
        BY <3>3, <3>4, AskKept
      <3>6. a.op.tool = "publish" => Named(a.op.owner, a.op.box)'
        BY <3>3, NamedKept
      <3> QED BY <3>2, <3>5, <3>6
    <2> QED BY <2>1, <2>2
  <1> QED BY <1>1 DEF AsksAreTrue, PublicationsAreOwned

-----------------------------------------------------------------------------
(* Steps that leave Meta and the ledger alone.                             *)

LEMMA Counted ==
    ASSUME NEW n \in Nat, NEW T \in SUBSET (1 .. n)
    PROVE  IsFiniteSet(T) /\ Cardinality(T) \in Nat
  <1>1. IsFiniteSet(1 .. n)
    BY FS_Interval
  <1>2. IsFiniteSet(T)
    BY <1>1, FS_Subset
  <1> QED BY <1>2, FS_CardinalityType

LEMMA LossesKept ==
    ASSUME PublishTypes, PublishTypes', LossesAreOwned, Unrecorded' \subseteq Unrecorded, Owing \subseteq Owing'
    PROVE  LossesAreOwned'
  <1>1. Len(boxes) \in Nat /\ Len(asks) \in Nat
    BY LenProperties DEF PublishTypes
  <1>2. Len(boxes') \in Nat /\ Len(asks') \in Nat
    BY LenProperties DEF PublishTypes
  <1>3. IsFiniteSet(Unrecorded) /\ Cardinality(Unrecorded) \in Nat
    BY <1>1, Counted DEF Unrecorded
  <1>4. Cardinality(Unrecorded') <= Cardinality(Unrecorded) /\ Cardinality(Unrecorded') \in Nat
    BY <1>3, FS_Subset, FS_CardinalityType
  <1>5. Owing' \in SUBSET (1 .. Len(asks'))
    BY DEF Owing
  <1>6. IsFiniteSet(Owing') /\ Cardinality(Owing') \in Nat
    BY <1>2, <1>5, Counted
  <1>7. Cardinality(Owing) <= Cardinality(Owing') /\ Cardinality(Owing) \in Nat
    BY <1>6, FS_Subset, FS_CardinalityType
  <1> QED BY <1>3, <1>4, <1>6, <1>7 DEF LossesAreOwned

LEMMA BudgetRests ==
    ASSUME UNCHANGED <<book, days>>
    PROVE  \A acc \in Owners : budget_used(acc)' = budget_used(acc)
  BY DEF budget_used, Mine

\* One request moves, and the call with it.
LEMMA RequestStep ==
    ASSUME PublishingSound, PublishTypes', UNCHANGED <<boxes, book, days, thread>>, NEW k,
           \A i \in 1 .. Len(asks') : i # k => i \in 1 .. Len(asks) /\ asks'[i] = asks[i],
           AskIsTrue(asks[k])', (asks[k].op.tool = "publish" => Named(asks[k].op.owner, asks[k].op.box))',
           asks'[k].op.tool = "message" => \E n \in 1 .. Len(thread) : thread[n].dir = "in" /\ thread[n].day = asks'[k].op.day,
           CallIsTrue', Owing \subseteq Owing'
    PROVE  PublishingSound'
  <1>1. BookGrows /\ BoxesGrow
    BY DEF BookGrows, BoxesGrow
  <1>2. AsksAreTrue' /\ PublicationsAreOwned'
    BY <1>1, AsksKept DEF PublishingSound
  <1>3. PostsAreContainers' /\ RowsAreContainers'
    BY DEF PublishingSound, PostsAreContainers, RowsAreContainers, LedgerIsTrue
  <1>4. Unrecorded' = Unrecorded
    BY DEF Unrecorded
  <1>5. LossesAreOwned'
    BY <1>4, LossesKept DEF PublishingSound
  <1>6. BudgetKept'
    BY BudgetRests DEF PublishingSound, BudgetKept
  <1>7. NoColdMessage'
    BY DEF PublishingSound, NoColdMessage
  <1> QED BY <1>2, <1>3, <1>5, <1>6, <1>7 DEF PublishingSound

LEMMA SmallestOf ==
    ASSUME NEW T, T \subseteq Nat, T # {}
    PROVE  \E x \in T : \A y \in T : ~(y < x)
  <1> DEFINE Less == OpToRel(<, Nat)
  <1>1. IsWellFoundedOn(Less, Nat)
    BY NatLessThanWellFounded, Zenon
  <1>2. \A x, y \in Nat : y < x => <<y, x>> \in Less
    BY DEF OpToRel
  <1>3. \E x \in T : \A y \in T : ~ (<<y, x>> \in Less)
    <2> HIDE DEF Less
    <2> QED BY <1>1, WFMin
  <1> HIDE DEF Less
  <1> QED
    BY <1>2, <1>3

\* The newest of some messages is one of them.
LEMMA Newest ==
    ASSUME NEW n \in Nat, NEW T \in SUBSET (0 .. n), T # {}
    PROVE  LET newest == CHOOSE i \in T : \A j \in T : j <= i IN newest \in T /\ \A j \in T : j <= newest
  <1> DEFINE R == {m \in Nat : n - m \in T}
  <1>1. R \subseteq Nat /\ R # {}
    <2>1. PICK i \in T : TRUE
      OBVIOUS
    <2>2. n - i \in Nat /\ n - (n - i) = i
      BY <2>1
    <2> QED BY <2>1, <2>2
  <1>2. PICK m \in R : \A y \in R : ~(y < m)
    <2> HIDE DEF R
    <2> QED BY <1>1, SmallestOf
  <1>3. n - m \in T /\ \A j \in T : j <= n - m
    <2>1. n - m \in T /\ m \in Nat
      BY <1>2
    <2>2. ASSUME NEW j \in T
          PROVE  j <= n - m
      <3>1. n - j \in R
        <4>1. n - j \in Nat /\ n - (n - j) = j
          BY <2>2
        <4> QED BY <4>1
      <3> QED BY <1>2, <3>1, <2>1
    <2> QED BY <2>1, <2>2
  <1> QED BY <1>3

\* A window that is open was opened by a message of today.
LEMMA WindowIsOpened ==
    ASSUME PublishTypes, LOOKBACK \in Nat, window_open
    PROVE  \E n \in 1 .. Len(thread) : thread[n].dir = "in" /\ thread[n].day = days
  <1> DEFINE M == [dir : {"in", "out"}, day : Nat]
             skip == IF Len(thread) < LOOKBACK THEN 0 ELSE Len(thread) - LOOKBACK
             recent == SubSeq(thread, skip + 1, Len(thread))
             inbound == {i \in 1 .. Len(recent) : recent[i].dir = "in"}
  <1>1. Len(thread) \in Nat /\ \A n \in 1 .. Len(thread) : thread[n] \in M
    BY LenProperties, ElementOfSeq DEF PublishTypes
  <1>2. skip \in Nat /\ skip <= Len(thread)
    BY <1>1
  <1>3. Len(recent) = Len(thread) - skip /\ \A i \in 1 .. Len(thread) - skip : recent[i] = thread[i + skip]
    <2>1. \A i \in skip + 1 .. Len(thread) : thread[i] \in M
      BY <1>1, <1>2
    <2> HIDE DEF M, skip
    <2>2. /\ Len(recent) = IF skip + 1 <= Len(thread) THEN Len(thread) - (skip + 1) + 1 ELSE 0
          /\ \A i \in 1 .. Len(thread) - (skip + 1) + 1 : recent[i] = thread[(skip + 1) + i - 1]
      BY <1>1, <1>2, <2>1, SubSeqProperties
    <2> QED BY <1>1, <1>2, <2>2
  <1>4. inbound # {} /\ recent[CHOOSE i \in inbound : \A j \in inbound : j <= i].day = days
    BY DEF window_open
  <1>5. inbound \in SUBSET (1 .. Len(recent)) /\ inbound \in SUBSET (0 .. Len(recent)) /\ Len(recent) \in Nat
    <2> HIDE DEF skip, recent
    <2> QED BY <1>1, <1>2, <1>3
  <1>6. PICK i : i = CHOOSE x \in inbound : \A j \in inbound : j <= x
    OBVIOUS
  <1>7. i \in inbound
    <2> HIDE DEF inbound, recent
    <2> QED BY <1>4, <1>5, <1>6, Newest
  <1>8. i \in 1 .. Len(recent) /\ recent[i].dir = "in" /\ recent[i].day = days
    <2> HIDE DEF recent
    <2> QED BY <1>4, <1>6, <1>7
  <1> HIDE DEF skip, recent
  <1>9. i + skip \in 1 .. Len(thread) /\ thread[i + skip] = recent[i]
    BY <1>1, <1>2, <1>3, <1>8
  <1> QED BY <1>8, <1>9

LEMMA PostTyped ==
    ASSUME PublishTypes
    PROVE  Len(asks) \in Nat /\ Len(boxes) \in Nat /\ Len(thread) \in Nat
  BY LenProperties DEF PublishTypes

LEMMA WriteStep ==
    ASSUME InstagramConstants, PublishingSound, serving, NEW op \in Ops, write(op)
    PROVE  PublishingSound'
  <1> PICK k : k = Len(asks) + 1
    OBVIOUS
  <1> DEFINE a == [op |-> op, state |-> "IN_FLIGHT", called |-> FALSE, retried |-> FALSE, made |-> 0, effects |-> 0]
  <1>1. /\ post = NoPost /\ op.tool \in WriteTools /\ prepare(op) /\ asks' = Append(asks, a)
        /\ post' = [at |-> "start", ask |-> k] /\ UNCHANGED <<boxes, book, days, thread, serving>>
    BY DEF write
  <1>2. PublishTypes /\ Len(asks) \in Nat /\ Len(boxes) \in Nat
    BY PostTyped DEF PublishingSound
  <1>3. op \in Op /\ op.owner \in Owners
    BY <1>2, OpsAreOps, OpFacts DEF InstagramConstants
  <1>4. a \in Ask
    BY <1>3 DEF Ask, Outcomes
  <1>5. asks' \in Seq(Ask) /\ Len(asks') = k /\ asks'[k] = a /\ \A i \in 1 .. Len(asks) : asks'[i] = asks[i]
    <2> HIDE DEF a
    <2> QED BY <1>1, <1>2, <1>4, AppendProperties DEF PublishTypes
  <1>6. k \in 1 .. Len(asks') /\ k = Len(asks) + 1
    BY <1>2, <1>5
  <1>7. PublishTypes'
    <2>1. post' \in [at : {"start", "check", "status", "call"}, ask : 1 .. Len(asks')]
      BY <1>1, <1>6
    <2> QED BY <1>1, <1>2, <1>5, <2>1 DEF PublishTypes, Post
  <1>8. AskIsTrue(asks[k])'
    BY <1>5, <1>6 DEF AskIsTrue
  <1>9. (asks[k].op.tool = "publish" => Named(asks[k].op.owner, asks[k].op.box))'
    BY <1>1, <1>5 DEF prepare, Named, Mine
  <1>10. op.tool = "message" => \E n \in 1 .. Len(thread) : thread[n].dir = "in" /\ thread[n].day = op.day
    <2>1. op.tool = "message" => window_open /\ op.day = days
      BY <1>1 DEF prepare
    <2> QED BY <1>2, <2>1, WindowIsOpened DEF InstagramConstants
  <1>11. Creates(op) => budget_used(op.owner) < CONTAINER_BUDGET
    <2>1. Creates(op) => ~blocked(op.owner)
      BY <1>1 DEF prepare, Creates
    <2>2. budget_used(op.owner) \in Nat
      BY <1>2, FS_Subset, FS_CardinalityType DEF budget_used, Mine, PublishTypes
    <2> QED BY <2>1, <2>2 DEF blocked, InstagramConstants
  <1>12. CallIsTrue'
    <2>1. budget_used(op.owner)' = budget_used(op.owner)
      BY <1>1, <1>3, BudgetRests
    <2> QED BY <1>1, <1>5, <1>6, <1>11, <2>1 DEF CallIsTrue, Creates
  <1>13. Owing \subseteq Owing'
    BY <1>1, <1>2, <1>5, <1>6 DEF Owing, NoPost
  <1>14. \A i \in 1 .. Len(asks') : i # k => i \in 1 .. Len(asks) /\ asks'[i] = asks[i]
    BY <1>2, <1>5, <1>6
  <1>15. asks'[k].op.tool = "message" => \E n \in 1 .. Len(thread) : thread[n].dir = "in" /\ thread[n].day = asks'[k].op.day
    BY <1>5, <1>10
  <1> HIDE DEF a
  <1> QED BY <1>1, <1>7, <1>8, <1>9, <1>12, <1>13, <1>14, <1>15, RequestStep

LEMMA AskReplaced ==
    ASSUME PublishTypes, NEW k \in 1 .. Len(asks), NEW b \in Ask, asks' = [asks EXCEPT ![k] = b]
    PROVE  /\ asks' \in Seq(Ask) /\ Len(asks') = Len(asks) /\ asks'[k] = b
           /\ \A i \in 1 .. Len(asks') : i # k => i \in 1 .. Len(asks) /\ asks'[i] = asks[i]
  BY ExceptSeq DEF PublishTypes

LEMMA ReplayStep ==
    ASSUME InstagramConstants, PublishingSound, serving, NEW k \in 1 .. Len(asks), replay(k)
    PROVE  PublishingSound'
  <1> DEFINE a == asks[k]
             b == [a EXCEPT !.retried = TRUE]
  <1>1. /\ post = NoPost /\ Repeatable(a.op) /\ asks' = [asks EXCEPT ![k] = b] /\ a.state = "OUTCOME_UNKNOWN"
        /\ post' = [at |-> "start", ask |-> k] /\ UNCHANGED <<boxes, book, days, thread, serving>>
    BY DEF replay
  <1>2. PublishTypes /\ a \in Ask /\ AskIsTrue(a) /\ ~Creates(a.op) /\ a.op.tool \notin {"publish", "message"}
    BY <1>1, AskFacts, OpFacts DEF PublishingSound, AsksAreTrue
  <1>3. /\ b \in Ask /\ b.op = a.op /\ b.state = a.state /\ b.effects = a.effects /\ b.retried = TRUE
        /\ b.called = a.called /\ b.made = a.made
    BY <1>2 DEF Ask
  <1> HIDE DEF b
  <1>4. /\ asks' \in Seq(Ask) /\ Len(asks') = Len(asks) /\ asks'[k] = b
        /\ \A i \in 1 .. Len(asks') : i # k => i \in 1 .. Len(asks) /\ asks'[i] = asks[i]
    BY <1>1, <1>2, <1>3, AskReplaced
  <1>5. PublishTypes'
    BY <1>1, <1>2, <1>4 DEF PublishTypes, Post
  <1>6. AskIsTrue(asks[k])'
    BY <1>1, <1>2, <1>3, <1>4 DEF AskIsTrue, Creates, Repeatable
  <1>7. CallIsTrue'
    BY <1>1, <1>2, <1>3, <1>4 DEF CallIsTrue, Creates
  <1>8. Owing \subseteq Owing'
    BY <1>1, <1>2, <1>3, <1>4 DEF Owing, NoPost, Creates
  <1> QED BY <1>1, <1>2, <1>3, <1>4, <1>5, <1>6, <1>7, <1>8, RequestStep

LEMMA StartStep ==
    ASSUME InstagramConstants, PublishingSound, start_step
    PROVE  PublishingSound'
  <1> DEFINE k == post.ask
             a == asks[k]
             b == [a EXCEPT !.called = TRUE]
  <1>1. /\ post.at = "start" /\ asks' = [asks EXCEPT ![k] = b]
        /\ post' = [post EXCEPT !.at = IF a.op.tool = "publish" THEN "check" ELSE "call"]
        /\ UNCHANGED <<boxes, book, days, thread, serving>>
    BY DEF start_step
  <1>2. PublishTypes /\ post # NoPost /\ k \in 1 .. Len(asks)
        /\ post \in [at : {"start", "check", "status", "call"}, ask : 1 .. Len(asks)]
    BY <1>1, PostFacts DEF PublishingSound, NoPost
  <1>3. a \in Ask /\ AskIsTrue(a) /\ a.op \in Op
    BY <1>2, AskFacts DEF PublishingSound, AsksAreTrue
  <1>4. /\ b \in Ask /\ b.op = a.op /\ b.state = a.state /\ b.effects = a.effects /\ b.retried = a.retried
        /\ b.called = TRUE /\ b.made = a.made
    BY <1>3 DEF Ask
  <1> HIDE DEF b
  <1>5. /\ asks' \in Seq(Ask) /\ Len(asks') = Len(asks) /\ asks'[k] = b
        /\ \A i \in 1 .. Len(asks') : i # k => i \in 1 .. Len(asks) /\ asks'[i] = asks[i]
    BY <1>1, <1>2, <1>4, AskReplaced
  <1>6. post' \in [at : {"check", "call"}, ask : {k}] /\ (post'.at = "check" <=> a.op.tool = "publish") /\ post'.ask = k
    BY <1>1, <1>2
  <1>7. PublishTypes'
    BY <1>1, <1>2, <1>5, <1>6 DEF PublishTypes, Post
  <1>8. AskIsTrue(asks[k])'
    BY <1>1, <1>3, <1>4, <1>5 DEF AskIsTrue, Creates, Repeatable
  <1>9. CallIsTrue'
    <2> PICK acc : acc = a.op.owner
      OBVIOUS
    <2>1. Creates(a.op) => a.op.tool # "publish" /\ budget_used(acc)' = budget_used(acc)
      BY <1>1, <1>3, OpFacts, BudgetRests
    <2>2. /\ serving /\ (~a.retried => a.state = "IN_FLIGHT" /\ a.effects = 0)
          /\ Creates(a.op) => budget_used(acc) < CONTAINER_BUDGET
      BY <1>1, <1>2 DEF PublishingSound, CallIsTrue
    <2> QED BY <1>1, <1>4, <1>5, <1>6, <2>1, <2>2 DEF CallIsTrue, Creates
  <1>10. Owing \subseteq Owing'
    BY <1>1, <1>2, <1>4, <1>5, <1>6 DEF Owing, Creates
  <1>11. a.op.tool = "publish" => Named(a.op.owner, a.op.box)
    BY <1>2 DEF PublishingSound, PublicationsAreOwned
  <1>12. (asks[k].op.tool = "publish" => Named(asks[k].op.owner, asks[k].op.box))'
    BY <1>1, <1>4, <1>5, <1>11 DEF Named, Mine
  <1>13. asks'[k].op.tool = "message" => \E n \in 1 .. Len(thread) : thread[n].dir = "in" /\ thread[n].day = asks'[k].op.day
    BY <1>2, <1>4, <1>5 DEF PublishingSound, NoColdMessage
  <1> QED BY <1>1, <1>5, <1>7, <1>8, <1>9, <1>10, <1>12, <1>13, RequestStep

\* Only the call moves.
LEMMA CallMoves ==
    ASSUME PublishingSound, PublishTypes', post # NoPost, UNCHANGED <<boxes, book, asks, days, thread>>,
           CallIsTrue', Owing \subseteq Owing'
    PROVE  PublishingSound'
  <1>1. PICK k : k = post.ask
    OBVIOUS
  <1>2. k \in 1 .. Len(asks)
    BY <1>1, PostFacts DEF PublishingSound
  <1>3. AskIsTrue(asks[k])'
    BY <1>2 DEF PublishingSound, AsksAreTrue, AskIsTrue
  <1>4. (asks[k].op.tool = "publish" => Named(asks[k].op.owner, asks[k].op.box))'
    BY <1>2 DEF PublishingSound, PublicationsAreOwned, Named, Mine
  <1>5. asks'[k].op.tool = "message" => \E n \in 1 .. Len(thread) : thread[n].dir = "in" /\ thread[n].day = asks'[k].op.day
    BY <1>2 DEF PublishingSound, NoColdMessage
  <1> QED BY <1>3, <1>4, <1>5, RequestStep

\* What a publication under way may rest on.
LEMMA PublicationFacts ==
    ASSUME PublishingSound, post.at \in {"check", "status"}
    PROVE  /\ post # NoPost /\ post.ask \in 1 .. Len(asks) /\ serving
           /\ asks[post.ask] \in Ask /\ AskIsTrue(asks[post.ask]) /\ asks[post.ask].called
           /\ asks[post.ask].op.tool = "publish" /\ ~asks[post.ask].retried
           /\ asks[post.ask].effects = 0 /\ asks[post.ask].state = "IN_FLIGHT" /\ ~Creates(asks[post.ask].op)
           /\ Named(asks[post.ask].op.owner, asks[post.ask].op.box)
           /\ asks[post.ask].op.box \in 1 .. Len(boxes)
  <1>1. post # NoPost /\ PublishTypes
    BY DEF NoPost, PublishingSound
  <1>2. post.ask \in 1 .. Len(asks)
    BY <1>1, PostFacts
  <1>3. asks[post.ask] \in Ask /\ AskIsTrue(asks[post.ask]) /\ asks[post.ask].op \in Op
    BY <1>1, <1>2, AskFacts DEF PublishingSound, AsksAreTrue
  <1>4. serving /\ asks[post.ask].called /\ asks[post.ask].op.tool = "publish"
    BY <1>1 DEF PublishingSound, CallIsTrue
  <1>5. ~asks[post.ask].retried /\ ~Creates(asks[post.ask].op)
    BY <1>3, <1>4, OpFacts DEF AskIsTrue, Creates
  <1>6. asks[post.ask].effects = 0 /\ asks[post.ask].state = "IN_FLIGHT"
    BY <1>1, <1>5 DEF PublishingSound, CallIsTrue
  <1>7. Named(asks[post.ask].op.owner, asks[post.ask].op.box)
    BY <1>2, <1>4 DEF PublishingSound, PublicationsAreOwned
  <1>8. asks[post.ask].op.box \in 1 .. Len(boxes)
    BY <1>7, NamedIsContainer DEF PublishingSound
  <1> QED BY <1>1, <1>2, <1>3, <1>4, <1>5, <1>6, <1>7, <1>8

\* A result to record for an ask: what finish is about to write.
LEMMA OutcomeTyped ==
    ASSUME PublishTypes, post # NoPost, NEW o \in Outcomes, NEW made \in Nat
    PROVE  Outcome(o, made) \in [at : {"finish"}, ask : 1 .. Len(asks), outcome : Outcomes, made : Nat]
  BY PostFacts DEF Outcome

LEMMA LedgerStep ==
    ASSUME PublishingSound, publish_ledger
    PROVE  PublishingSound'
  <1> DEFINE a == asks[post.ask]
             row == CHOOSE r \in Mine(a.op.owner) : r.box = a.op.box
  <1>1. post.at = "check" /\ UNCHANGED <<boxes, book, asks, days, thread, serving>>
    BY DEF publish_ledger
  <1>2. /\ PublishTypes /\ post # NoPost /\ post.ask \in 1 .. Len(asks) /\ serving /\ a \in Ask
        /\ AskIsTrue(a) /\ a.called /\ a.op.tool = "publish" /\ ~a.retried /\ a.effects = 0 /\ a.state = "IN_FLIGHT"
        /\ ~Creates(a.op) /\ Named(a.op.owner, a.op.box) /\ a.op.box \in 1 .. Len(boxes)
    BY <1>1, PublicationFacts DEF PublishingSound
  <1>3. row \in book /\ row.box = a.op.box /\ row \in Row
    BY <1>2 DEF Named, Mine, PublishTypes
  <1>4. row.status = "PUBLISHED" => boxes[a.op.box].status = "PUBLISHED"
    BY <1>3 DEF PublishingSound, RowsAreContainers, LedgerIsTrue
  <1>5. \/ post' = Outcome("FAILED", 0)
        \/ post' = Outcome("SUCCEEDED", row.media) /\ boxes[a.op.box].status = "PUBLISHED"
        \/ post' = [post EXCEPT !.at = "status"]
    BY <1>1, <1>4 DEF publish_ledger
  <1>6. CASE post' = [post EXCEPT !.at = "status"]
    <2>1. post' = [at |-> "status", ask |-> post.ask]
      BY <1>1, <1>2, <1>6, PostFacts
    <2>2. PublishTypes'
      BY <1>1, <1>2, <2>1 DEF PublishTypes, Post
    <2>3. CallIsTrue'
      BY <1>1, <1>2, <2>1 DEF CallIsTrue, Creates
    <2>4. Owing \subseteq Owing'
      BY <1>1, <1>2, <2>1 DEF Owing
    <2> QED BY <1>1, <1>2, <2>2, <2>3, <2>4, CallMoves
  <1>7. CASE \E o \in {"FAILED", "SUCCEEDED"}, m \in Nat :
               post' = Outcome(o, m) /\ (o = "SUCCEEDED" => boxes[a.op.box].status = "PUBLISHED")
    <2>1. PICK o \in {"FAILED", "SUCCEEDED"}, m \in Nat :
             post' = Outcome(o, m) /\ (o = "SUCCEEDED" => boxes[a.op.box].status = "PUBLISHED")
      BY <1>7
    <2>2. post' = [at |-> "finish", ask |-> post.ask, outcome |-> o, made |-> m]
      BY <2>1 DEF Outcome
    <2>3. PublishTypes'
      BY <1>1, <1>2, <2>2 DEF PublishTypes, Post, Outcomes
    <2>4. AskIsTrue([a EXCEPT !.state = o, !.made = m])
      BY <1>2, <2>1 DEF AskIsTrue, Ask, Creates
    <2>5. CallIsTrue'
      <3>1. AskIsTrue([asks[post.ask] EXCEPT !.state = post.outcome, !.made = post.made])'
        BY <1>1, <2>2, <2>4 DEF AskIsTrue
      <3> QED BY <1>1, <1>2, <2>2, <3>1 DEF CallIsTrue, Creates
    <2>6. Owing \subseteq Owing'
      BY <1>1, <1>2, <2>2 DEF Owing
    <2> QED BY <1>1, <1>2, <2>3, <2>5, <2>6, CallMoves
  <1>8. row.media \in Nat
    BY <1>3 DEF Row
  <1> QED BY <1>5, <1>6, <1>7, <1>8

LEMMA FinishStep ==
    ASSUME PublishingSound, finish
    PROVE  PublishingSound'
  <1> DEFINE a == asks[post.ask]
             b == [a EXCEPT !.state = post.outcome, !.made = post.made]
  <1>1. /\ post.at = "finish" /\ asks' = [asks EXCEPT ![post.ask] = b] /\ post' = NoPost
        /\ UNCHANGED <<boxes, book, days, thread, serving>>
    BY DEF finish
  <1>2. PublishTypes /\ post # NoPost
    BY <1>1 DEF NoPost, PublishingSound
  <1>3. post.ask \in 1 .. Len(asks) /\ post.outcome \in Outcomes /\ post.made \in Nat
    BY <1>1, <1>2, PostFacts
  <1>4. a \in Ask /\ AskIsTrue(a) /\ a.op \in Op
    BY <1>2, <1>3, AskFacts DEF PublishingSound, AsksAreTrue
  <1>5. /\ b \in Ask /\ b.op = a.op /\ b.state = post.outcome /\ b.effects = a.effects /\ b.retried = a.retried
        /\ b.called = a.called /\ b.made = post.made
    BY <1>3, <1>4 DEF Ask
  <1>6. AskIsTrue(b)
    BY <1>1, <1>2 DEF PublishingSound, CallIsTrue
  <1> PICK k : k = post.ask
    OBVIOUS
  <1> PICK c : c = b
    OBVIOUS
  <1> HIDE DEF b
  <1>7. /\ asks' \in Seq(Ask) /\ Len(asks') = Len(asks) /\ asks'[k] = c
        /\ \A i \in 1 .. Len(asks') : i # k => i \in 1 .. Len(asks) /\ asks'[i] = asks[i]
    <2>1. asks' = [asks EXCEPT ![k] = c] /\ k \in 1 .. Len(asks) /\ c \in Ask
      BY <1>1, <1>3, <1>5
    <2> QED BY <1>2, <2>1, AskReplaced
  <1>8. PublishTypes'
    BY <1>1, <1>2, <1>7 DEF PublishTypes, Post
  <1>9. AskIsTrue(asks[k])'
    <2>1. AskIsTrue(c)'
      BY <1>1, <1>6 DEF AskIsTrue
    <2> QED BY <1>7, <2>1
  <1>10. CallIsTrue'
    BY <1>1 DEF CallIsTrue
  <1>11. Owing \subseteq Owing'
    <2> SUFFICES ASSUME NEW i \in Owing PROVE i \in Owing'
      OBVIOUS
    <2>1. i \in 1 .. Len(asks) /\ Creates(asks[i].op) /\ asks[i].state \in {"IN_FLIGHT", "OUTCOME_UNKNOWN"} /\ asks[i].effects > 0
          /\ ~(post.outcome = "SUCCEEDED" /\ post.ask = i)
      BY <1>1 DEF Owing
    <2>2. CASE i # k
      BY <1>1, <1>7, <2>1, <2>2 DEF Owing, NoPost, Creates
    <2>3. CASE i = k
      <3>1. ~Repeatable(a.op) /\ a.effects \in Nat
        BY <1>4, <2>1, <2>3, OpFacts DEF Ask
      <3>2. ~c.retried
        BY <1>6, <3>1, <1>5 DEF AskIsTrue
      <3>3. c.state # "FAILED"
        BY <1>6, <1>5, <2>1, <2>3, <3>1, <3>2 DEF AskIsTrue
      <3>4. c.state \in {"IN_FLIGHT", "OUTCOME_UNKNOWN"}
        BY <1>3, <1>5, <2>1, <2>3, <3>3 DEF Outcomes
      <3> QED BY <1>1, <1>5, <1>7, <2>1, <2>3, <3>4 DEF Owing, NoPost, Creates
    <2> QED BY <2>2, <2>3
  <1>12. (asks[k].op.tool = "publish" => Named(asks[k].op.owner, asks[k].op.box))'
    <2>1. c.op.tool = "publish" => Named(c.op.owner, c.op.box)
      BY <1>3, <1>5 DEF PublishingSound, PublicationsAreOwned
    <2> QED BY <1>1, <1>7, <2>1 DEF Named, Mine
  <1>13. asks'[k].op.tool = "message" => \E n \in 1 .. Len(thread) : thread[n].dir = "in" /\ thread[n].day = asks'[k].op.day
    BY <1>3, <1>5, <1>7 DEF PublishingSound, NoColdMessage
  <1> QED BY <1>1, <1>7, <1>8, <1>9, <1>10, <1>11, <1>12, <1>13, RequestStep

-----------------------------------------------------------------------------
(* The ledger.                                                             *)

\* The rows are marked, none is added and none is taken away.
LEMMA Marked ==
    ASSUME PublishTypes, RowsAreContainers, BudgetKept, CONTAINER_BUDGET \in Nat, NEW f \in [book -> Row],
           \A r \in book : /\ f[r].box = r.box /\ f[r].owner = r.owner /\ f[r].kind = r.kind /\ f[r].day = r.day
                           /\ f[r].status = "PUBLISHED" => boxes[r.box].status = "PUBLISHED"
                           /\ f[r].media # 0 => boxes[r.box].media > 0,
           book' = {f[r] : r \in book}, UNCHANGED <<boxes, days>>
    PROVE  /\ book' \in SUBSET Row /\ IsFiniteSet(book') /\ RowsAreContainers' /\ BookGrows /\ BoxesGrow
           /\ BudgetKept' /\ Unrecorded' = Unrecorded
           /\ \A box : (\E r \in book' : r.box = box) <=> \E r \in book : r.box = box
           /\ \A acc \in Owners, n \in Nat : budget_used(acc) < n => budget_used(acc)' < n
  <1>1. IsFiniteSet(book)
    BY DEF PublishTypes
  <1>2. f \in Surjection(book, book')
    BY DEF Surjection
  <1>3. IsFiniteSet(book')
    BY <1>1, <1>2, FS_Surjection
  <1>4. RowsAreContainers'
    BY DEF RowsAreContainers, LedgerIsTrue
  <1>5. BookGrows /\ BoxesGrow
    BY DEF BookGrows, BoxesGrow
  <1>6. \A box : (\E r \in book' : r.box = box) <=> \E r \in book : r.box = box
    OBVIOUS
  <1>7. Unrecorded' = Unrecorded
    BY <1>6 DEF Unrecorded
  <1>8. ASSUME NEW acc
        PROVE  /\ budget_used(acc)' <= budget_used(acc) /\ budget_used(acc)' \in Nat /\ budget_used(acc) \in Nat
    <2> DEFINE S == {r \in Mine(acc) : r.day = days}
               T == {r \in book' : r.owner = acc /\ r.day = days}
    <2>1. S \in SUBSET book /\ IsFiniteSet(S) /\ Cardinality(S) \in Nat
      BY <1>1, FS_Subset, FS_CardinalityType DEF Mine
    <2>2. [r \in S |-> f[r]] \in Surjection(S, T)
      BY <2>1 DEF Surjection, Mine
    <2>3. Cardinality(T) <= Cardinality(S) /\ IsFiniteSet(T)
      <3> HIDE DEF S, T
      <3> QED BY <2>1, <2>2, FS_Surjection
    <2>4. Cardinality(T) \in Nat
      BY <2>3, FS_CardinalityType
    <2>5. budget_used(acc)' = Cardinality(T) /\ budget_used(acc) = Cardinality(S)
      BY DEF budget_used, Mine
    <2> QED BY <2>1, <2>3, <2>4, <2>5
  <1>9. BudgetKept'
    BY <1>8 DEF BudgetKept
  <1>10. \A acc \in Owners, n \in Nat : budget_used(acc) < n => budget_used(acc)' < n
    BY <1>8
  <1> QED BY <1>3, <1>4, <1>5, <1>6, <1>7, <1>9, <1>10

\* A status that Meta reports is true of the container it is written to.
LEMMA StatusMarked ==
    ASSUME PublishingSound, CONTAINER_BUDGET \in Nat, NEW box \in 1 .. Len(boxes), NEW status \in Statuses,
           status = "PUBLISHED" => boxes[box].status = "PUBLISHED", book' = mark(box, status), UNCHANGED <<boxes, days>>
    PROVE  /\ book' \in SUBSET Row /\ IsFiniteSet(book') /\ RowsAreContainers' /\ BookGrows /\ BoxesGrow
           /\ BudgetKept' /\ Unrecorded' = Unrecorded
           /\ \A b : (\E r \in book' : r.box = b) <=> \E r \in book : r.box = b
           /\ \A acc \in Owners, n \in Nat : budget_used(acc) < n => budget_used(acc)' < n
  <1> DEFINE f == [r \in book |-> IF r.box = box THEN [r EXCEPT !.status = status] ELSE r]
  <1>1. \A r \in book : r \in Row /\ (r.status = "PUBLISHED" => boxes[r.box].status = "PUBLISHED")
                        /\ (r.media # 0 => boxes[r.box].media > 0)
    BY DEF PublishingSound, PublishTypes, RowsAreContainers, LedgerIsTrue
  <1>2. ASSUME NEW r \in book
        PROVE  /\ f[r] \in Row /\ f[r].box = r.box /\ f[r].owner = r.owner /\ f[r].kind = r.kind /\ f[r].day = r.day
               /\ f[r].status = "PUBLISHED" => boxes[r.box].status = "PUBLISHED"
               /\ f[r].media # 0 => boxes[r.box].media > 0
    BY <1>1 DEF Row
  <1>3. f \in [book -> Row]
    BY <1>2
  <1>4. book' = {f[r] : r \in book}
    BY DEF mark
  <1> HIDE DEF f
  <1> QED BY <1>2, <1>3, <1>4, Marked DEF PublishingSound

LEMMA PostMarked ==
    ASSUME PublishingSound, CONTAINER_BUDGET \in Nat, NEW box \in 1 .. Len(boxes),
           boxes[box].status = "PUBLISHED", book' = mark_published(box), UNCHANGED <<boxes, days>>
    PROVE  /\ book' \in SUBSET Row /\ IsFiniteSet(book') /\ RowsAreContainers' /\ BookGrows /\ BoxesGrow
           /\ BudgetKept' /\ Unrecorded' = Unrecorded
           /\ \A b : (\E r \in book' : r.box = b) <=> \E r \in book : r.box = b
           /\ \A acc \in Owners, n \in Nat : budget_used(acc) < n => budget_used(acc)' < n
  <1> DEFINE f == [r \in book |-> IF r.box = box THEN [r EXCEPT !.status = "PUBLISHED", !.media = box] ELSE r]
  <1>1. \A r \in book : r \in Row /\ (r.status = "PUBLISHED" => boxes[r.box].status = "PUBLISHED")
                        /\ (r.media # 0 => boxes[r.box].media > 0)
    BY DEF PublishingSound, PublishTypes, RowsAreContainers, LedgerIsTrue
  <1>2. boxes[box].media > 0 /\ box \in Nat
    BY PostTyped DEF PublishingSound, PostsAreContainers
  <1>3. ASSUME NEW r \in book
        PROVE  /\ f[r] \in Row /\ f[r].box = r.box /\ f[r].owner = r.owner /\ f[r].kind = r.kind /\ f[r].day = r.day
               /\ f[r].status = "PUBLISHED" => boxes[r.box].status = "PUBLISHED"
               /\ f[r].media # 0 => boxes[r.box].media > 0
    BY <1>1, <1>2 DEF Row, Statuses
  <1>4. f \in [book -> Row]
    BY <1>3
  <1>5. book' = {f[r] : r \in book}
    BY DEF mark_published
  <1> HIDE DEF f
  <1> QED BY <1>3, <1>4, <1>5, Marked DEF PublishingSound

\* The ledger, Meta's containers and the call move; no request does.
LEMMA RecordsStep ==
    ASSUME PublishingSound, PublishTypes', UNCHANGED <<asks, thread>>, BookGrows, BoxesGrow, PostsAreContainers',
           RowsAreContainers', BudgetKept', LossesAreOwned', CallIsTrue'
    PROVE  PublishingSound'
  <1>1. ASSUME NEW i \in 1 .. Len(asks)
        PROVE  (AskIsTrue(asks[i]) /\ (asks[i].op.tool = "publish" => Named(asks[i].op.owner, asks[i].op.box)))'
    <2>1. PICK a : a = asks[i]
      OBVIOUS
    <2>2. AskIsTrue(a) /\ (a.op.tool = "publish" => Named(a.op.owner, a.op.box))
      BY <2>1 DEF PublishingSound, AsksAreTrue, PublicationsAreOwned
    <2>3. a.op.tool = "publish" => a.op.box \in 1 .. Len(boxes)
      BY <2>2, NamedIsContainer DEF PublishingSound
    <2>4. AskIsTrue(a)'
      BY <2>2, <2>3, AskKept
    <2>5. a.op.tool = "publish" => Named(a.op.owner, a.op.box)'
      BY <2>2, NamedKept
    <2> QED BY <2>1, <2>4, <2>5
  <1>2. AsksAreTrue' /\ PublicationsAreOwned'
    BY <1>1 DEF AsksAreTrue, PublicationsAreOwned
  <1>3. NoColdMessage'
    BY DEF PublishingSound, NoColdMessage
  <1> QED BY <1>2, <1>3 DEF PublishingSound

LEMMA StatusStep ==
    ASSUME InstagramConstants, PublishingSound, publish_status
    PROVE  PublishingSound'
  <1> DEFINE a == asks[post.ask]
             status == boxes[a.op.box].status
  <1>1. post.at = "status" /\ UNCHANGED <<boxes, asks, days, thread, serving>>
    BY DEF publish_status
  <1>2. /\ PublishTypes /\ post # NoPost /\ post.ask \in 1 .. Len(asks) /\ serving /\ a \in Ask
        /\ AskIsTrue(a) /\ a.called /\ a.op.tool = "publish" /\ ~a.retried /\ a.effects = 0 /\ a.state = "IN_FLIGHT"
        /\ ~Creates(a.op) /\ Named(a.op.owner, a.op.box) /\ a.op.box \in 1 .. Len(boxes)
    BY <1>1, PublicationFacts DEF PublishingSound
  <1>3. boxes[a.op.box] \in Box /\ status \in Statuses
    <2>1. boxes[a.op.box] \in Box
      BY <1>2, ElementOfSeq DEF PublishTypes
    <2> QED BY <2>1 DEF Box
  <1>4. \/ book' = book /\ post' = Outcome("FAILED", 0)
        \/ /\ book' = mark(a.op.box, status)
           /\ \/ \E o \in {"FAILED", "OUTCOME_UNKNOWN"} : post' = Outcome(o, 0)
              \/ status = "FINISHED" /\ post' = [post EXCEPT !.at = "call"]
    BY DEF publish_status
  <1>5. /\ book' \in SUBSET Row /\ IsFiniteSet(book') /\ RowsAreContainers' /\ BookGrows /\ BoxesGrow
        /\ BudgetKept' /\ Unrecorded' = Unrecorded
    <2>1. CASE book' = book
      <3>1. BudgetKept'
        BY <1>1, <2>1, BudgetRests DEF PublishingSound, BudgetKept
      <3> QED BY <1>1, <1>2, <2>1, <3>1
              DEF PublishingSound, PublishTypes, RowsAreContainers, LedgerIsTrue, BookGrows, BoxesGrow, Unrecorded
    <2>2. CASE book' = mark(a.op.box, status)
      <3> PICK box : box = a.op.box
        OBVIOUS
      <3> PICK st : st = status
        OBVIOUS
      <3> QED BY <1>1, <1>2, <1>3, <2>2, StatusMarked DEF InstagramConstants
    <2> QED BY <1>4, <2>1, <2>2
  <1>6. PostsAreContainers'
    BY <1>1 DEF PublishingSound, PostsAreContainers
  <1>7. CASE \E o \in {"FAILED", "OUTCOME_UNKNOWN"} : post' = Outcome(o, 0)
    <2>1. PICK o \in {"FAILED", "OUTCOME_UNKNOWN"} : post' = [at |-> "finish", ask |-> post.ask, outcome |-> o, made |-> 0]
      BY <1>7 DEF Outcome
    <2>2. PublishTypes'
      BY <1>1, <1>2, <1>5, <2>1 DEF PublishTypes, Post, Outcomes
    <2>3. AskIsTrue([a EXCEPT !.state = o, !.made = 0])
      BY <1>2 DEF AskIsTrue, Ask, Creates
    <2>4. CallIsTrue'
      <3>1. PICK c : c = [a EXCEPT !.state = o, !.made = 0]
        OBVIOUS
      <3>2. AskIsTrue(c)'
        BY <1>2, <1>5, <2>3, <3>1, AskKept DEF Ask
      <3>3. c = [asks[post.ask] EXCEPT !.state = post.outcome, !.made = post.made]'
        BY <1>1, <2>1, <3>1
      <3>4. AskIsTrue([asks[post.ask] EXCEPT !.state = post.outcome, !.made = post.made])'
        BY <3>2, <3>3
      <3> QED BY <1>1, <1>2, <2>1, <3>4 DEF CallIsTrue, Creates
    <2>5. Owing \subseteq Owing'
      BY <1>1, <1>2, <2>1 DEF Owing
    <2>6. LossesAreOwned'
      BY <1>2, <1>5, <2>2, <2>5, LossesKept DEF PublishingSound
    <2> QED BY <1>1, <1>5, <1>6, <2>2, <2>4, <2>6, RecordsStep
  <1>8. CASE status = "FINISHED" /\ post' = [post EXCEPT !.at = "call"]
    <2>1. post' = [at |-> "call", ask |-> post.ask]
      BY <1>1, <1>2, <1>8, PostFacts
    <2>2. PublishTypes'
      BY <1>1, <1>2, <1>5, <2>1 DEF PublishTypes, Post
    <2>3. boxes[a.op.box].media = 0
      BY <1>2, <1>3, <1>8 DEF PublishingSound, PostsAreContainers, Box
    <2>4. CallIsTrue'
      BY <1>1, <1>2, <2>1, <2>3 DEF CallIsTrue, Creates
    <2>5. Owing \subseteq Owing'
      BY <1>1, <1>2, <2>1 DEF Owing
    <2>6. LossesAreOwned'
      BY <1>2, <1>5, <2>2, <2>5, LossesKept DEF PublishingSound
    <2> QED BY <1>1, <1>5, <1>6, <2>2, <2>4, <2>6, RecordsStep
  <1> QED BY <1>4, <1>7, <1>8

\* The row of a new container: there was none, so one is added and one fewer is missing.
LEMMA Recorded ==
    ASSUME PublishingSound, NEW acc \in Owners, NEW kind \in Kinds, NEW box \in 1 .. Len(boxes),
           boxes[box].owner = acc, boxes[box].kind = kind, ~\E r \in book : r.box = box,
           budget_used(acc) < CONTAINER_BUDGET, CONTAINER_BUDGET \in Nat, MaxDays \in Nat,
           book' = record_container(acc, kind, box), UNCHANGED <<boxes, days>>
    PROVE  /\ book' \in SUBSET Row /\ IsFiniteSet(book') /\ RowsAreContainers' /\ BookGrows /\ BoxesGrow
           /\ BudgetKept' /\ Unrecorded' = Unrecorded \ {box} /\ box \in Unrecorded /\ Named(acc, box)'
  <1> DEFINE row == [owner |-> acc, kind |-> kind, box |-> box, status |-> "NONE", media |-> 0, day |-> days]
  <1>1. book' = book \cup {row}
    BY DEF record_container, Mine
  <1>2. box \in Nat /\ days \in Nat
    BY PostTyped DEF PublishingSound, PublishTypes
  <1>3. row \in Row
    BY <1>2 DEF Row
  <1>4. book' \in SUBSET Row /\ IsFiniteSet(book')
    <2>1. book \in SUBSET Row /\ IsFiniteSet(book)
      BY DEF PublishingSound, PublishTypes
    <2> HIDE DEF row
    <2>2. IsFiniteSet(book \cup {row})
      BY <2>1, FS_AddElement
    <2> QED BY <1>1, <1>3, <2>1, <2>2
  <1>5. RowsAreContainers'
    BY <1>1, <1>2 DEF PublishingSound, RowsAreContainers, LedgerIsTrue
  <1>6. BookGrows /\ BoxesGrow
    BY <1>1 DEF BookGrows, BoxesGrow
  <1>7. Unrecorded' = Unrecorded \ {box} /\ box \in Unrecorded
    <2>1. \A b : (\E r \in book' : r.box = b) <=> b = box \/ \E r \in book : r.box = b
      <3>1. row.box = box
        OBVIOUS
      <3> HIDE DEF row
      <3> QED BY <1>1, <3>1
    <2> QED BY <2>1 DEF Unrecorded
  <1>8. Named(acc, box)'
    <2>1. row \in book' /\ row.owner = acc /\ row.box = box
      BY <1>1
    <2>2. \E q \in book' : q.owner = acc /\ q.box = box
      BY <2>1
    <2> HIDE DEF row
    <2> QED BY <2>2 DEF Named, Mine
  <1>9. BudgetKept'
    <2> SUFFICES ASSUME NEW x \in Owners PROVE budget_used(x)' <= CONTAINER_BUDGET
      BY DEF BudgetKept
    <2> DEFINE S == {r \in Mine(x) : r.day = days}
    <2>1. IsFiniteSet(S) /\ Cardinality(S) \in Nat /\ budget_used(x) = Cardinality(S)
      BY FS_Subset, FS_CardinalityType DEF PublishingSound, PublishTypes, budget_used, Mine
    <2>2. CASE x # acc
      <3>1. {r \in Mine(x) : r.day = days}' = S
        BY <1>1, <2>2 DEF Mine
      <3> QED BY <3>1, <2>1 DEF budget_used, PublishingSound, BudgetKept
    <2>3. CASE x = acc
      <3>1. {r \in Mine(x) : r.day = days}' = S \cup {row}
        BY <1>1, <2>3 DEF Mine
      <3>2. Cardinality(S \cup {row}) <= Cardinality(S) + 1 /\ Cardinality(S \cup {row}) \in Nat
        <4>1. IsFiniteSet(S) /\ Cardinality(S) \in Nat
          BY <2>1
        <4> HIDE DEF S, row
        <4>2. Cardinality(S \cup {row}) = IF row \in S THEN Cardinality(S) ELSE Cardinality(S) + 1
          BY <4>1, FS_AddElement
        <4> QED BY <4>1, <4>2
      <3>3. budget_used(x)' = Cardinality(S \cup {row})
        BY <3>1 DEF budget_used
      <3> QED BY <2>1, <2>3, <3>2, <3>3
    <2> QED BY <2>2, <2>3
  <1> QED BY <1>4, <1>5, <1>6, <1>7, <1>8, <1>9

\* What may be rested on when the result of a creation or a publication is filed.
LEMMA FilingFacts ==
    ASSUME PublishingSound, post.at \in {"ledger", "hook"}
    PROVE  LET a == asks[post.ask] IN
           /\ post # NoPost /\ post.ask \in 1 .. Len(asks) /\ serving /\ post.made \in 1 .. Len(boxes)
           /\ post = [at |-> post.at, ask |-> post.ask, made |-> post.made]
           /\ a \in Ask /\ a.op \in Op /\ AskIsTrue(a) /\ a.called /\ ~a.retried /\ a.state = "IN_FLIGHT"
           /\ Creates(a.op) \/ a.op.tool = "publish"
           /\ a.op.tool = "publish" => /\ ~Creates(a.op) /\ boxes[a.op.box].status = "PUBLISHED"
                                       /\ post.made = a.op.box
           /\ Creates(a.op) => /\ a.op.tool # "publish" /\ boxes[post.made].owner = a.op.owner
                               /\ boxes[post.made].kind = Kind(a.op) /\ Kind(a.op) \in Kinds
  <1>1. post # NoPost /\ PublishTypes
    BY DEF NoPost, PublishingSound
  <1>2. /\ post.ask \in 1 .. Len(asks) /\ post.made \in 1 .. Len(boxes)
        /\ post = [at |-> post.at, ask |-> post.ask, made |-> post.made]
    BY <1>1 DEF PublishTypes, Post
  <1>3. asks[post.ask] \in Ask /\ AskIsTrue(asks[post.ask]) /\ asks[post.ask].op \in Op
    BY <1>1, <1>2, AskFacts DEF PublishingSound, AsksAreTrue
  <1>4. /\ serving /\ asks[post.ask].called /\ (~asks[post.ask].retried => asks[post.ask].state = "IN_FLIGHT")
        /\ Creates(asks[post.ask].op) \/ asks[post.ask].op.tool = "publish"
        /\ asks[post.ask].op.tool = "publish" =>
              boxes[asks[post.ask].op.box].status = "PUBLISHED" /\ post.made = asks[post.ask].op.box
        /\ Creates(asks[post.ask].op) => /\ boxes[post.made].owner = asks[post.ask].op.owner
                                         /\ boxes[post.made].kind = Kind(asks[post.ask].op)
    BY <1>1 DEF PublishingSound, CallIsTrue
  <1>5. ~asks[post.ask].retried
    BY <1>3, <1>4, OpFacts DEF AskIsTrue
  <1> QED BY <1>1, <1>2, <1>3, <1>4, <1>5, OpFacts

LEMMA FileStep ==
    ASSUME InstagramConstants, PublishingSound, file_result
    PROVE  PublishingSound'
  <1> DEFINE a == asks[post.ask]
  <1>1. /\ post.at = "ledger" /\ UNCHANGED <<boxes, asks, days, thread, serving>> /\ post' = [post EXCEPT !.at = "hook"]
        /\ book' = IF a.op.tool = "publish" THEN mark_published(a.op.box)
                   ELSE record_container(a.op.owner, Kind(a.op), post.made)
    BY DEF file_result
  <1>2. /\ post # NoPost /\ post.ask \in 1 .. Len(asks) /\ serving /\ post.made \in 1 .. Len(boxes)
        /\ post = [at |-> post.at, ask |-> post.ask, made |-> post.made]
        /\ a \in Ask /\ a.op \in Op /\ AskIsTrue(a) /\ a.called /\ ~a.retried /\ a.state = "IN_FLIGHT"
        /\ Creates(a.op) \/ a.op.tool = "publish"
        /\ a.op.tool = "publish" => /\ ~Creates(a.op) /\ boxes[a.op.box].status = "PUBLISHED"
                                    /\ post.made = a.op.box
        /\ Creates(a.op) => /\ a.op.tool # "publish" /\ boxes[post.made].owner = a.op.owner
                            /\ boxes[post.made].kind = Kind(a.op) /\ Kind(a.op) \in Kinds
    BY <1>1, FilingFacts
  <1>3. PublishTypes /\ a.op.owner \in Owners
    BY <1>2, OpFacts DEF PublishingSound
  <1>4. post' = [at |-> "hook", ask |-> post.ask, made |-> post.made]
    BY <1>1, <1>2
  <1>5. PostsAreContainers'
    BY <1>1 DEF PublishingSound, PostsAreContainers
  <1>6. CASE a.op.tool = "publish"
    <2>1. /\ book' \in SUBSET Row /\ IsFiniteSet(book') /\ RowsAreContainers' /\ BookGrows /\ BoxesGrow
          /\ BudgetKept' /\ Unrecorded' = Unrecorded
      <3>1. PICK box : box = post.made
        OBVIOUS
      <3> QED BY <1>1, <1>2, <1>6, <3>1, PostMarked DEF InstagramConstants
    <2>2. PublishTypes'
      BY <1>1, <1>2, <1>3, <1>4, <2>1 DEF PublishTypes, Post
    <2>3. CallIsTrue'
      BY <1>1, <1>2, <1>4, <1>6 DEF CallIsTrue, Creates
    <2>4. Owing \subseteq Owing'
      BY <1>1, <1>2, <1>4, <1>6 DEF Owing
    <2>5. LossesAreOwned'
      BY <1>3, <2>1, <2>2, <2>4, LossesKept DEF PublishingSound
    <2> QED BY <1>1, <1>5, <2>1, <2>2, <2>3, <2>5, RecordsStep
  <1>7. CASE Creates(a.op)
    <2>1. PICK acc, kind, box, k : acc = a.op.owner /\ kind = Kind(a.op) /\ box = post.made /\ k = post.ask
      OBVIOUS
    <2>2. ~(\E r \in book : r.box = box) /\ budget_used(acc) < CONTAINER_BUDGET
      BY <1>1, <1>2, <1>7, <2>1 DEF PublishingSound, CallIsTrue
    <2>3. /\ book' \in SUBSET Row /\ IsFiniteSet(book') /\ RowsAreContainers' /\ BookGrows /\ BoxesGrow
          /\ BudgetKept' /\ Unrecorded' = Unrecorded \ {box} /\ box \in Unrecorded /\ Named(acc, box)'
      BY <1>1, <1>2, <1>3, <1>7, <2>1, <2>2, Recorded DEF InstagramConstants
    <2>4. PublishTypes'
      BY <1>1, <1>2, <1>3, <1>4, <2>3 DEF PublishTypes, Post
    <2>5. CallIsTrue'
      <3>1. a' = a /\ post'.made = box /\ (a.op.owner)' = acc /\ Kind(a.op)' = kind
        BY <1>1, <1>4, <2>1
      <3>2. Named(asks[post.ask].op.owner, post.made)'
        BY <2>3, <3>1
      <3> QED BY <1>1, <1>2, <1>4, <1>7, <3>2 DEF CallIsTrue, Creates
    <2>6. Owing \ {k} \subseteq Owing'
      BY <1>1, <1>2, <1>4, <2>1 DEF Owing
    <2>7. LossesAreOwned'
      <3>1. Len(boxes) \in Nat /\ Len(asks) \in Nat /\ Len(asks') \in Nat
        BY <1>1, <1>3, PostTyped
      <3>2. IsFiniteSet(Unrecorded) /\ Cardinality(Unrecorded) \in Nat
        BY <3>1, Counted DEF Unrecorded
      <3>3. Cardinality(Unrecorded') = Cardinality(Unrecorded) - 1
        BY <2>3, <3>2, FS_RemoveElement
      <3>4. IsFiniteSet(Owing) /\ Cardinality(Owing) \in Nat
        BY <3>1, Counted DEF Owing
      <3>5. IsFiniteSet(Owing') /\ Cardinality(Owing') \in Nat
        <4>1. Owing' \in SUBSET (1 .. Len(asks'))
          BY DEF Owing
        <4> QED BY <3>1, <4>1, Counted
      <3>6. IsFiniteSet(Owing \ {k}) /\ Cardinality(Owing \ {k}) >= Cardinality(Owing) - 1 /\ Cardinality(Owing \ {k}) \in Nat
        BY <3>4, FS_RemoveElement, FS_CardinalityType
      <3>7. Cardinality(Owing \ {k}) <= Cardinality(Owing')
        BY <2>6, <3>5, FS_Subset
      <3>8. Cardinality(Unrecorded) <= Cardinality(Owing)
        BY DEF PublishingSound, LossesAreOwned
      <3>9. Cardinality(Unrecorded') <= Cardinality(Owing')
        BY <3>2, <3>3, <3>4, <3>5, <3>6, <3>7, <3>8
      <3> QED BY <3>9 DEF LossesAreOwned
    <2> QED BY <1>1, <1>5, <2>3, <2>4, <2>5, <2>7, RecordsStep
  <1> QED BY <1>2, <1>6, <1>7

LEMMA HookStep ==
    ASSUME InstagramConstants, PublishingSound, on_created
    PROVE  PublishingSound'
  <1> DEFINE a == asks[post.ask]
  <1>1. /\ post.at = "hook" /\ UNCHANGED <<boxes, asks, days, thread, serving>> /\ post' = Outcome("SUCCEEDED", post.made)
        /\ book' = IF a.op.tool = "publish" THEN mark_published(a.op.box)
                   ELSE record_container(a.op.owner, Kind(a.op), post.made)
    BY DEF on_created
  <1>2. /\ post # NoPost /\ post.ask \in 1 .. Len(asks) /\ serving /\ post.made \in 1 .. Len(boxes)
        /\ post = [at |-> post.at, ask |-> post.ask, made |-> post.made]
        /\ a \in Ask /\ a.op \in Op /\ AskIsTrue(a) /\ a.called /\ ~a.retried /\ a.state = "IN_FLIGHT"
        /\ Creates(a.op) \/ a.op.tool = "publish"
        /\ a.op.tool = "publish" => /\ ~Creates(a.op) /\ boxes[a.op.box].status = "PUBLISHED"
                                    /\ post.made = a.op.box
        /\ Creates(a.op) => /\ a.op.tool # "publish" /\ boxes[post.made].owner = a.op.owner
                            /\ boxes[post.made].kind = Kind(a.op) /\ Kind(a.op) \in Kinds
    BY <1>1, FilingFacts
  <1>3. PublishTypes
    BY DEF PublishingSound
  <1>4. post' = [at |-> "finish", ask |-> post.ask, outcome |-> "SUCCEEDED", made |-> post.made]
    BY <1>1 DEF Outcome
  <1>5. PostsAreContainers'
    BY <1>1 DEF PublishingSound, PostsAreContainers
  <1>6. Creates(a.op) => Named(a.op.owner, post.made)
    BY <1>1, <1>2 DEF PublishingSound, CallIsTrue
  <1>7. /\ book' \in SUBSET Row /\ IsFiniteSet(book') /\ RowsAreContainers' /\ BookGrows /\ BoxesGrow
        /\ BudgetKept' /\ Unrecorded' = Unrecorded
    <2>1. CASE a.op.tool = "publish"
      <3>1. PICK box : box = post.made
        OBVIOUS
      <3> QED BY <1>1, <1>2, <2>1, <3>1, PostMarked DEF InstagramConstants
    <2>2. CASE Creates(a.op)
      <3>1. book' = book
        BY <1>1, <1>2, <1>6, <2>2 DEF record_container, Named
      <3>2. BudgetKept'
        BY <1>1, <3>1, BudgetRests DEF PublishingSound, BudgetKept
      <3> QED BY <1>1, <1>3, <3>1, <3>2
              DEF PublishingSound, PublishTypes, RowsAreContainers, LedgerIsTrue, BookGrows, BoxesGrow, Unrecorded
    <2> QED BY <1>2, <2>1, <2>2
  <1>8. PublishTypes'
    <2>1. post.made \in Nat
      BY <1>2, <1>3, PostTyped
    <2> QED BY <1>1, <1>2, <1>3, <1>4, <1>7, <2>1 DEF PublishTypes, Post, Outcomes
  <1>9. CallIsTrue'
    <2>1. PICK c : c = [a EXCEPT !.state = "SUCCEEDED", !.made = post.made]
      OBVIOUS
    <2>0. /\ c.op = a.op /\ c.state = "SUCCEEDED" /\ c.effects = a.effects /\ c.retried = a.retried
          /\ c.called = a.called /\ c.made = post.made
      BY <1>2, <2>1 DEF Ask
    <2>1a. Creates(c.op) => \E r \in book : r.box = c.made
      BY <1>6, <2>0 DEF Named, Mine
    <2>2. AskIsTrue(c)
      <3>1. AskIsTrue(a)
        BY <1>2
      <3> HIDE DEF a
      <3> QED BY <1>2, <2>0, <2>1a, <3>1 DEF AskIsTrue
    <2>3. AskIsTrue(c)'
      <3>1. c.op.tool = "publish" => c.op.box \in 1 .. Len(boxes)
        BY <1>2, <2>1 DEF Ask
      <3> QED BY <1>7, <2>2, <3>1, AskKept
    <2>4. c = [asks[post.ask] EXCEPT !.state = post.outcome, !.made = post.made]'
      <3>1. asks'[post'.ask] = a /\ post'.outcome = "SUCCEEDED" /\ post'.made = post.made
        BY <1>1, <1>4
      <3> QED BY <2>1, <3>1
    <2>5. AskIsTrue([asks[post.ask] EXCEPT !.state = post.outcome, !.made = post.made])'
      BY <2>3, <2>4
    <2> QED BY <1>1, <1>2, <1>4, <2>5 DEF CallIsTrue, Creates
  <1>10. Owing \subseteq Owing'
    BY <1>1, <1>2, <1>4 DEF Owing
  <1>11. LossesAreOwned'
    BY <1>3, <1>7, <1>8, <1>10, LossesKept DEF PublishingSound
  <1> QED BY <1>1, <1>5, <1>7, <1>8, <1>9, <1>11, RecordsStep

-----------------------------------------------------------------------------
(* The write at Meta.                                                      *)

\* Posts stay out.
PostsStay == \A b \in 1 .. Len(boxes) : boxes[b].media > 0 => boxes'[b].media > 0

LEMMA RowsKept ==
    ASSUME RowsAreContainers, BoxesGrow, PostsStay, book' = book, days \in Nat, days' \in Nat, days <= days',
           \A r \in book : r.day \in Nat
    PROVE  RowsAreContainers' /\ BookGrows
  <1>1. BookGrows
    BY DEF BookGrows
  <1>2. ASSUME NEW r \in book
        PROVE  /\ r.box \in 1 .. Len(boxes') /\ r.day <= days'
               /\ boxes'[r.box].owner = r.owner /\ boxes'[r.box].kind = r.kind
               /\ r.status = "PUBLISHED" => boxes'[r.box].status = "PUBLISHED"
               /\ r.media # 0 => boxes'[r.box].media > 0
    <2>1. /\ r.box \in 1 .. Len(boxes) /\ r.day <= days
          /\ boxes[r.box].owner = r.owner /\ boxes[r.box].kind = r.kind
          /\ r.status = "PUBLISHED" => boxes[r.box].status = "PUBLISHED"
          /\ r.media # 0 => boxes[r.box].media > 0
      BY DEF RowsAreContainers, LedgerIsTrue
    <2> QED BY <2>1 DEF BoxesGrow, PostsStay
  <1> QED BY <1>1, <1>2 DEF RowsAreContainers, LedgerIsTrue

LEMMA BoxReplaced ==
    ASSUME PublishTypes, PostsAreContainers, NEW k \in 1 .. Len(boxes), NEW b \in Box, boxes' = [boxes EXCEPT ![k] = b],
           b.owner = boxes[k].owner, b.kind = boxes[k].kind, b.media <= 1, b.media > 0 <=> b.status = "PUBLISHED",
           boxes[k].status = "PUBLISHED" => b.status = "PUBLISHED"
    PROVE  /\ boxes' \in Seq(Box) /\ Len(boxes') = Len(boxes) /\ boxes'[k] = b
           /\ \A i \in 1 .. Len(boxes) : i # k => boxes'[i] = boxes[i]
           /\ BoxesGrow /\ PostsStay /\ PostsAreContainers'
  <1>1. /\ boxes' \in Seq(Box) /\ Len(boxes') = Len(boxes) /\ boxes'[k] = b
        /\ \A i \in 1 .. Len(boxes) : i # k => boxes'[i] = boxes[i]
    BY ExceptSeq DEF PublishTypes
  <1>2. BoxesGrow
    BY <1>1 DEF BoxesGrow
  <1>3. PostsStay
    BY <1>1 DEF PostsStay, PostsAreContainers
  <1>4. PostsAreContainers'
    BY <1>1 DEF PostsAreContainers
  <1> QED BY <1>1, <1>2, <1>3, <1>4

LEMMA BoxAdded ==
    ASSUME PublishTypes, PostsAreContainers, NEW b \in Box, boxes' = Append(boxes, b),
           b.media = 0, b.status = "IN_PROGRESS"
    PROVE  /\ boxes' \in Seq(Box) /\ Len(boxes') = Len(boxes) + 1 /\ boxes'[Len(boxes) + 1] = b
           /\ BoxesGrow /\ PostsStay /\ PostsAreContainers'
  <1>1. /\ boxes' \in Seq(Box) /\ Len(boxes') = Len(boxes) + 1 /\ boxes'[Len(boxes) + 1] = b
        /\ \A i \in 1 .. Len(boxes) : boxes'[i] = boxes[i]
    BY AppendProperties DEF PublishTypes
  <1>2. Len(boxes) \in Nat
    BY PostTyped
  <1>3. BoxesGrow
    BY <1>1, <1>2 DEF BoxesGrow
  <1>4. PostsStay
    BY <1>1 DEF PostsStay
  <1>5. PostsAreContainers'
    BY <1>1, <1>2 DEF PostsAreContainers
  <1> QED BY <1>1, <1>3, <1>4, <1>5

\* The effect of a write: a container more, a post of a container that had none, or nothing here.
LEMMA EffectFacts ==
    ASSUME PublishTypes, PostsAreContainers, NEW op \in Op, NEW done \in BOOLEAN,
           op.tool = "publish" => op.box \in 1 .. Len(boxes) /\ boxes[op.box].media = 0,
           boxes' = IF done THEN Effect(op) ELSE boxes
    PROVE  /\ boxes' \in Seq(Box) /\ BoxesGrow /\ PostsStay /\ PostsAreContainers'
           /\ done /\ Creates(op) => /\ Len(boxes') = Len(boxes) + 1
                                     /\ boxes'[Len(boxes) + 1].owner = op.owner
                                     /\ boxes'[Len(boxes) + 1].kind = Kind(op)
           /\ ~(done /\ Creates(op)) => Len(boxes') = Len(boxes)
           /\ done /\ op.tool = "publish" => boxes'[op.box].status = "PUBLISHED"
  <1>1. CASE boxes' = boxes /\ ~(done /\ Creates(op)) /\ ~(done /\ op.tool = "publish")
    BY <1>1 DEF PublishTypes, BoxesGrow, PostsStay, PostsAreContainers
  <1>2. CASE done /\ Creates(op)
    <2> DEFINE b == [owner |-> op.owner, kind |-> Kind(op), status |-> "IN_PROGRESS", media |-> 0]
    <2>1. b \in Box /\ op.tool # "publish"
      BY <1>2, OpFacts DEF Box, Statuses
    <2>2. boxes' = Append(boxes, b)
      BY <1>2 DEF Effect, Creates
    <2>3. b.media = 0 /\ b.status = "IN_PROGRESS" /\ b.owner = op.owner /\ b.kind = Kind(op)
      OBVIOUS
    <2> HIDE DEF b
    <2> QED BY <1>2, <2>1, <2>2, <2>3, BoxAdded
  <1>3. CASE done /\ op.tool = "publish"
    <2> DEFINE b == [boxes[op.box] EXCEPT !.status = "PUBLISHED", !.media = @ + 1]
    <2>1. boxes[op.box] \in Box /\ op.box \in 1 .. Len(boxes) /\ boxes[op.box].media = 0
      BY <1>3, ElementOfSeq DEF PublishTypes
    <2>2. b \in Box /\ b.owner = boxes[op.box].owner /\ b.kind = boxes[op.box].kind /\ b.media = 1 /\ b.status = "PUBLISHED"
      <3>1. PICK x : x = boxes[op.box]
        OBVIOUS
      <3>2. x \in Box /\ x.media = 0
        BY <2>1, <3>1
      <3>3. b = [x EXCEPT !.status = "PUBLISHED", !.media = 1]
        BY <3>1, <3>2
      <3> HIDE DEF b
      <3>4. b = [owner |-> x.owner, kind |-> x.kind, status |-> "PUBLISHED", media |-> 1]
        BY <3>2, <3>3 DEF Box
      <3>5. x.owner \in Owners /\ x.kind \in Kinds
        BY <3>2 DEF Box
      <3> QED BY <3>1, <3>4, <3>5 DEF Box, Statuses
    <2>3. boxes' = [boxes EXCEPT ![op.box] = b] /\ ~Creates(op)
      <3>1. op.tool \notin {"create", "carousel"}
        BY <1>3
      <3>2. Effect(op) = [boxes EXCEPT ![op.box] = b]
        BY <1>3, <3>1 DEF Effect
      <3> QED BY <1>3, <3>1, <3>2 DEF Creates
    <2> HIDE DEF b
    <2> QED BY <1>3, <2>1, <2>2, <2>3, BoxReplaced
  <1> QED BY <1>1, <1>2, <1>3 DEF Effect, Creates

\* What a call may rest on when it is made.
LEMMA CallFacts ==
    ASSUME PublishingSound, post.at = "call"
    PROVE  LET a == asks[post.ask] IN
           /\ post # NoPost /\ post.ask \in 1 .. Len(asks) /\ serving
           /\ a \in Ask /\ a.op \in Op /\ AskIsTrue(a) /\ a.called
           /\ ~a.retried => a.state = "IN_FLIGHT" /\ a.effects = 0
           /\ Creates(a.op) => ~a.retried /\ a.op.tool # "publish" /\ budget_used(a.op.owner) < CONTAINER_BUDGET
           /\ a.op.tool = "publish" => /\ ~a.retried /\ ~Creates(a.op) /\ Named(a.op.owner, a.op.box)
                                       /\ a.op.box \in 1 .. Len(boxes) /\ boxes[a.op.box].media = 0
  <1>1. post # NoPost /\ PublishTypes
    BY DEF NoPost, PublishingSound
  <1>2. post.ask \in 1 .. Len(asks)
    BY <1>1, PostFacts
  <1>3. asks[post.ask] \in Ask /\ AskIsTrue(asks[post.ask]) /\ asks[post.ask].op \in Op
    BY <1>1, <1>2, AskFacts DEF PublishingSound, AsksAreTrue
  <1>4. /\ serving /\ asks[post.ask].called
        /\ ~asks[post.ask].retried => asks[post.ask].state = "IN_FLIGHT" /\ asks[post.ask].effects = 0
        /\ asks[post.ask].op.tool = "publish" => boxes[asks[post.ask].op.box].media = 0
        /\ Creates(asks[post.ask].op) => budget_used(asks[post.ask].op.owner) < CONTAINER_BUDGET
    BY <1>1 DEF PublishingSound, CallIsTrue
  <1>5. /\ Creates(asks[post.ask].op) => ~asks[post.ask].retried /\ asks[post.ask].op.tool # "publish"
        /\ asks[post.ask].op.tool = "publish" => ~asks[post.ask].retried /\ ~Creates(asks[post.ask].op)
    BY <1>3, OpFacts DEF AskIsTrue
  <1>6. asks[post.ask].op.tool = "publish" => Named(asks[post.ask].op.owner, asks[post.ask].op.box)
    BY <1>2 DEF PublishingSound, PublicationsAreOwned
  <1>7. asks[post.ask].op.tool = "publish" => asks[post.ask].op.box \in 1 .. Len(boxes)
    BY <1>6, NamedIsContainer DEF PublishingSound
  <1> QED BY <1>1, <1>2, <1>3, <1>4, <1>5, <1>6, <1>7

LEMMA InvokeStep ==
    ASSUME InstagramConstants, PublishingSound, invoke
    PROVE  PublishingSound'
  <1> DEFINE a == asks[post.ask]
             made == IF a.op.tool = "publish" THEN a.op.box ELSE Len(boxes) + 1
  <1>1. PICK answer \in Answers, done \in BOOLEAN :
          /\ done => answer \in MayHaveDone
          /\ ~done => answer \in MayHaveNot
          /\ boxes' = IF done THEN Effect(a.op) ELSE boxes
          /\ asks' = [asks EXCEPT ![post.ask].effects = IF done THEN @ + 1 ELSE @]
          /\ thread' = IF done /\ a.op.tool = "message" THEN Append(thread, [dir |-> "out", day |-> days])
                       ELSE thread
          /\ post' = IF classify_write(answer) = "SUCCEEDED" /\ a.op.tool \in {"create", "carousel", "publish"}
                     THEN [at |-> "ledger", ask |-> post.ask, made |-> made]
                     ELSE Outcome(classify_write(answer), 0)
    BY DEF invoke
  <1>2. post.at = "call" /\ UNCHANGED <<book, days, serving>>
    BY DEF invoke
  <1> PICK k : k = post.ask
    OBVIOUS
  <1> PICK op : op = a.op
    OBVIOUS
  <1> PICK verdict : verdict = classify_write(answer)
    OBVIOUS
  <1> PICK b : b = [a EXCEPT !.effects = IF done THEN a.effects + 1 ELSE a.effects]
    OBVIOUS
  <1>3. /\ post # NoPost /\ k \in 1 .. Len(asks) /\ serving /\ a \in Ask /\ op \in Op /\ AskIsTrue(a) /\ a.called
        /\ ~a.retried => a.state = "IN_FLIGHT" /\ a.effects = 0
        /\ Creates(op) => ~a.retried /\ op.tool # "publish" /\ budget_used(op.owner) < CONTAINER_BUDGET
        /\ op.tool = "publish" => /\ ~a.retried /\ ~Creates(op) /\ Named(op.owner, op.box)
                                  /\ op.box \in 1 .. Len(boxes) /\ boxes[op.box].media = 0
    BY <1>2, CallFacts
  <1>4. /\ PublishTypes /\ Len(asks) \in Nat /\ Len(boxes) \in Nat /\ op.owner \in Owners /\ days \in Nat
        /\ a.effects \in Nat /\ a.op = op /\ a.state \in Outcomes
    <2>1. PublishTypes
      BY DEF PublishingSound
    <2>2. a.effects \in Nat /\ a.state \in Outcomes
      BY <1>3 DEF Ask
    <2>3. days \in Nat
      BY <2>1 DEF PublishTypes, InstagramConstants
    <2> QED BY <1>3, <2>1, <2>2, <2>3, PostTyped, OpFacts
  <1>5. /\ b \in Ask /\ b.op = op /\ b.state = a.state /\ b.retried = a.retried /\ b.called /\ b.made = a.made
        /\ b.effects = IF done THEN a.effects + 1 ELSE a.effects
    BY <1>3, <1>4 DEF Ask
  <1>6. /\ asks' \in Seq(Ask) /\ Len(asks') = Len(asks) /\ asks'[k] = b
        /\ \A i \in 1 .. Len(asks') : i # k => i \in 1 .. Len(asks) /\ asks'[i] = asks[i]
    <2>1. asks' = [asks EXCEPT ![k] = b]
      BY <1>1
    <2> QED BY <1>3, <1>4, <1>5, <2>1, AskReplaced
  <1>7. /\ boxes' \in Seq(Box) /\ BoxesGrow /\ PostsStay /\ PostsAreContainers'
        /\ done /\ Creates(op) => /\ Len(boxes') = Len(boxes) + 1
                                  /\ boxes'[Len(boxes) + 1].owner = op.owner
                                  /\ boxes'[Len(boxes) + 1].kind = Kind(op)
        /\ ~(done /\ Creates(op)) => Len(boxes') = Len(boxes)
        /\ done /\ op.tool = "publish" => boxes'[op.box].status = "PUBLISHED"
    <2>1. PostsAreContainers
      BY DEF PublishingSound
    <2>2. boxes' = IF done THEN Effect(op) ELSE boxes
      BY <1>1
    <2> QED BY <1>3, <1>4, <2>1, <2>2, EffectFacts
  <1>8. RowsAreContainers' /\ BookGrows
    <2>1. \A r \in book : r.day \in Nat
      BY <1>4 DEF PublishTypes, Row
    <2>2. RowsAreContainers
      BY DEF PublishingSound
    <2> QED BY <1>2, <1>4, <1>7, <2>1, <2>2, RowsKept
  <1>9. /\ verdict \in Outcomes
        /\ verdict = "SUCCEEDED" => done
        /\ verdict = "FAILED" => ~done
    <2>1. done => answer \in {"named", "unnamed", "lost", "server"}
      BY <1>1 DEF MayHaveDone
    <2>2. ~done => answer \in {"refused", "odd", "not_sent", "lost", "server"}
      BY <1>1 DEF MayHaveNot
    <2>3. verdict = "SUCCEEDED" => answer = "named"
      BY DEF classify_write
    <2>4. verdict = "FAILED" => answer \in {"refused", "not_sent"}
      BY DEF classify_write
    <2>5. verdict \in Outcomes
      BY DEF classify_write, Outcomes
    <2> QED BY <2>1, <2>2, <2>3, <2>4, <2>5
  <1>10. \/ /\ verdict = "SUCCEEDED" /\ (Creates(op) \/ op.tool = "publish") /\ done
            /\ post' = [at |-> "ledger", ask |-> k, made |-> made]
         \/ /\ ~(verdict = "SUCCEEDED" /\ (Creates(op) \/ op.tool = "publish"))
            /\ post' = [at |-> "finish", ask |-> k, outcome |-> verdict, made |-> 0]
    BY <1>1, <1>9 DEF Outcome, Creates
  <1>11. thread' \in Seq([dir : {"in", "out"}, day : Nat]) /\ \A n \in 1 .. Len(thread) : n \in 1 .. Len(thread') /\ thread'[n] = thread[n]
    <2> DEFINE m == [dir |-> "out", day |-> days]
    <2>1. m \in [dir : {"in", "out"}, day : Nat]
      BY <1>4
    <2>2. thread' = thread \/ thread' = Append(thread, m)
      BY <1>1
    <2> HIDE DEF m
    <2>3. CASE thread' = Append(thread, m)
      <3>1. thread \in Seq([dir : {"in", "out"}, day : Nat]) /\ Len(thread) \in Nat
        BY <1>4, PostTyped DEF PublishTypes
      <3>2. thread' \in Seq([dir : {"in", "out"}, day : Nat])
        BY <2>1, <2>3, <3>1, AppendProperties
      <3>3. Len(thread') = Len(thread) + 1 /\ \A n \in 1 .. Len(thread) : thread'[n] = thread[n]
        BY <2>1, <2>3, <3>1, AppendProperties
      <3> QED BY <3>1, <3>2, <3>3
    <2> QED BY <1>4, <2>2, <2>3 DEF PublishTypes
  <1>12. done /\ (Creates(op) \/ op.tool = "publish") => made \in 1 .. Len(boxes') /\ made \in Nat
    BY <1>3, <1>4, <1>7
  <1>13. PublishTypes'
    BY <1>2, <1>3, <1>4, <1>6, <1>7, <1>9, <1>10, <1>11, <1>12 DEF PublishTypes, Post
  <1>14. AskIsTrue(b)
    <2>1. a.effects > 0 => a.retried
      BY <1>3, <1>4
    <2> HIDE DEF a
    <2> QED BY <1>3, <1>4, <1>5, <2>1 DEF AskIsTrue
  <1>15. AskIsTrue(b)'
    <2>1. b.op.tool = "publish" => b.op.box \in 1 .. Len(boxes)
      BY <1>3, <1>5
    <2> QED BY <1>7, <1>8, <1>14, <2>1, AskKept
  <1>16. AsksAreTrue' /\ PublicationsAreOwned'
    <2>1. AskIsTrue(asks[k])'
      BY <1>6, <1>15
    <2>2. op.tool = "publish" => Named(op.owner, op.box)'
      BY <1>3, <1>8, NamedKept
    <2>3. (asks[k].op.tool = "publish" => Named(asks[k].op.owner, asks[k].op.box))'
      BY <1>5, <1>6, <2>2
    <2> QED BY <1>6, <1>7, <1>8, <2>1, <2>3, AsksKept DEF PublishingSound
  <1>17. budget_used(op.owner)' = budget_used(op.owner)
    BY <1>2, <1>4, BudgetRests
  <1>18. CallIsTrue'
    <2>1. CASE /\ verdict = "SUCCEEDED" /\ (Creates(op) \/ op.tool = "publish") /\ done
               /\ post' = [at |-> "ledger", ask |-> k, made |-> made]
      <3>1. ~b.retried /\ b.state = "IN_FLIGHT"
        BY <1>3, <1>5, <2>1
      <3>2. Creates(op) => /\ boxes'[made].owner = op.owner /\ boxes'[made].kind = Kind(op)
                           /\ budget_used(op.owner)' < CONTAINER_BUDGET
                           /\ ~\E r \in book : r.box = made
        <4>1. \A r \in book : r.box \in 1 .. Len(boxes)
          BY DEF PublishingSound, RowsAreContainers
        <4>2. Creates(op) => made = Len(boxes) + 1
          BY <1>3
        <4> QED BY <1>3, <1>4, <1>7, <1>17, <2>1, <4>1, <4>2
      <3>3. op.tool = "publish" => boxes'[op.box].status = "PUBLISHED" /\ made = op.box
        BY <1>4, <1>7, <2>1
      <3> PICK m : m = made
        OBVIOUS
      <3>4. post' = [at |-> "ledger", ask |-> k, made |-> m] /\ asks'[post'.ask] = b
        BY <1>6, <2>1
      <3>5. /\ (asks[post.ask].op.owner)' = op.owner /\ Kind(asks[post.ask].op)' = Kind(op)
            /\ budget_used(asks[post.ask].op.owner)' = budget_used(op.owner)'
        BY <1>5, <3>4
      <3> HIDE DEF made
      <3> QED BY <1>2, <1>3, <1>5, <2>1, <3>1, <3>2, <3>3, <3>4, <3>5 DEF CallIsTrue, Creates
    <2>2. CASE /\ ~(verdict = "SUCCEEDED" /\ (Creates(op) \/ op.tool = "publish"))
               /\ post' = [at |-> "finish", ask |-> k, outcome |-> verdict, made |-> 0]
      <3>1. PICK c : c = [b EXCEPT !.state = verdict, !.made = 0]
        OBVIOUS
      <3>2. /\ c.op = op /\ c.state = verdict /\ c.effects = b.effects /\ c.retried = b.retried
            /\ c.called = b.called /\ c.made = 0
        BY <1>5, <3>1 DEF Ask
      <3>3. /\ verdict = "FAILED" /\ ~b.retried => b.effects = 0
            /\ verdict = "SUCCEEDED" => b.effects > 0
        BY <1>3, <1>4, <1>5, <1>9
      <3>4. AskIsTrue(c)
        BY <1>5, <1>14, <2>2, <3>2, <3>3 DEF AskIsTrue, Creates
      <3>5. AskIsTrue(c)'
        <4>1. c.op.tool = "publish" => c.op.box \in 1 .. Len(boxes)
          BY <1>3, <3>2
        <4> QED BY <1>7, <1>8, <3>4, <4>1, AskKept
      <3>6. c = [asks[post.ask] EXCEPT !.state = post.outcome, !.made = post.made]'
        <4>1. asks'[post'.ask] = b /\ post'.outcome = verdict /\ post'.made = 0
          BY <1>6, <2>2
        <4> QED BY <3>1, <4>1
      <3>7. AskIsTrue([asks[post.ask] EXCEPT !.state = post.outcome, !.made = post.made])'
        BY <3>5, <3>6
      <3> QED BY <1>2, <1>3, <1>5, <1>6, <2>2, <3>7 DEF CallIsTrue, Creates
    <2> QED BY <1>10, <2>1, <2>2
  <1>19. Owing \subseteq Owing'
    <2> SUFFICES ASSUME NEW i \in Owing PROVE i \in Owing'
      OBVIOUS
    <2>1. i \in 1 .. Len(asks) /\ Creates(asks[i].op) /\ asks[i].state \in {"IN_FLIGHT", "OUTCOME_UNKNOWN"} /\ asks[i].effects > 0
      BY DEF Owing
    <2>2. i # k
      BY <1>3, <1>4, <2>1
    <2>3. asks'[i] = asks[i] /\ i \in 1 .. Len(asks')
      BY <1>6, <2>1, <2>2
    <2> QED BY <1>10, <2>1, <2>2, <2>3 DEF Owing, Creates
  <1>20. LossesAreOwned'
    <2>1. \A x : (\E r \in book' : r.box = x) <=> \E r \in book : r.box = x
      BY <1>2
    <2>2. CASE ~(done /\ Creates(op))
      <3>1. Unrecorded' = Unrecorded
        BY <1>7, <2>1, <2>2 DEF Unrecorded
      <3> QED BY <1>4, <1>13, <1>19, <3>1, LossesKept DEF PublishingSound
    <2>3. CASE done /\ Creates(op)
      <3>1. Unrecorded' \subseteq Unrecorded \cup {Len(boxes) + 1}
        <4>1. Len(boxes') = Len(boxes) + 1
          BY <1>7, <2>3
        <4>2. \A x \in Unrecorded' : x \in 1 .. Len(boxes') /\ ~\E r \in book' : r.box = x
          BY DEF Unrecorded
        <4>3. ASSUME NEW x \in Unrecorded', x # Len(boxes) + 1
              PROVE  x \in Unrecorded
          <5>1. x \in 1 .. Len(boxes) + 1
            BY <4>1, <4>2
          <5>2. x \in 1 .. Len(boxes)
            BY <1>4, <4>3, <5>1
          <5>3. ~\E r \in book : r.box = x
            BY <1>2, <4>2
          <5> QED BY <5>2, <5>3 DEF Unrecorded
        <4> QED BY <4>3
      <3>2. k \in Owing'
        <4>1. /\ k \in 1 .. Len(asks') /\ asks'[k].effects > 0 /\ asks'[k].op = op
              /\ asks'[k].state \in {"IN_FLIGHT", "OUTCOME_UNKNOWN"}
          BY <1>3, <1>4, <1>5, <1>6, <2>3
        <4>2. post'.at \in {"ledger", "finish"} /\ ~(post'.at = "finish" /\ post'.outcome = "SUCCEEDED")
          BY <1>10, <2>3
        <4> QED BY <2>3, <4>1, <4>2 DEF Owing, Creates
      <3>3. k \notin Owing
        BY <1>3, <1>4, <2>3 DEF Owing
      <3>4. IsFiniteSet(Unrecorded) /\ Cardinality(Unrecorded) \in Nat
        BY <1>4, Counted DEF Unrecorded
      <3>5. /\ IsFiniteSet(Unrecorded \cup {Len(boxes) + 1})
            /\ Cardinality(Unrecorded \cup {Len(boxes) + 1}) <= Cardinality(Unrecorded) + 1
            /\ Cardinality(Unrecorded \cup {Len(boxes) + 1}) \in Nat
        <4>1. IsFiniteSet(Unrecorded \cup {Len(boxes) + 1})
          BY <3>4, FS_AddElement
        <4>2. Cardinality(Unrecorded \cup {Len(boxes) + 1})
                = IF Len(boxes) + 1 \in Unrecorded THEN Cardinality(Unrecorded) ELSE Cardinality(Unrecorded) + 1
          BY <3>4, FS_AddElement
        <4> QED BY <3>4, <4>1, <4>2
      <3>6. Cardinality(Unrecorded') <= Cardinality(Unrecorded) + 1 /\ Cardinality(Unrecorded') \in Nat
        <4>1. IsFiniteSet(Unrecorded') /\ Cardinality(Unrecorded') <= Cardinality(Unrecorded \cup {Len(boxes) + 1})
          BY <3>1, <3>5, FS_Subset
        <4>2. Cardinality(Unrecorded') \in Nat
          BY <4>1, FS_CardinalityType
        <4> QED BY <3>4, <3>5, <4>1, <4>2
      <3>7. IsFiniteSet(Owing') /\ Cardinality(Owing') \in Nat
        <4>1. Owing' \in SUBSET (1 .. Len(asks')) /\ Len(asks') \in Nat
          BY <1>4, <1>6 DEF Owing
        <4> QED BY <4>1, Counted
      <3>8. Cardinality(Owing \cup {k}) <= Cardinality(Owing') /\ IsFiniteSet(Owing) /\ IsFiniteSet(Owing \cup {k})
        <4>1. Owing \cup {k} \subseteq Owing' /\ Owing \subseteq Owing'
          BY <1>19, <3>2
        <4> QED BY <3>7, <4>1, FS_Subset
      <3>9. Cardinality(Owing \cup {k}) = Cardinality(Owing) + 1 /\ Cardinality(Owing) \in Nat
        BY <3>3, <3>8, FS_AddElement, FS_CardinalityType
      <3>10. Cardinality(Unrecorded) <= Cardinality(Owing)
        BY DEF PublishingSound, LossesAreOwned
      <3>11. Cardinality(Unrecorded') <= Cardinality(Owing')
        BY <3>4, <3>6, <3>7, <3>8, <3>9, <3>10
      <3> QED BY <3>11 DEF LossesAreOwned
    <2> QED BY <2>2, <2>3
  <1>21. BudgetKept'
    BY <1>2, BudgetRests DEF PublishingSound, BudgetKept
  <1>22. NoColdMessage'
    <2> SUFFICES ASSUME NEW i \in 1 .. Len(asks'), asks'[i].op.tool = "message"
                 PROVE  \E n \in 1 .. Len(thread') : thread'[n].dir = "in" /\ thread'[n].day = asks'[i].op.day
      BY DEF NoColdMessage
    <2>1. i \in 1 .. Len(asks) /\ asks'[i].op = asks[i].op
      BY <1>3, <1>4, <1>5, <1>6
    <2>2. PICK n \in 1 .. Len(thread) : thread[n].dir = "in" /\ thread[n].day = asks[i].op.day
      BY <2>1 DEF PublishingSound, NoColdMessage
    <2> QED BY <1>11, <2>1, <2>2
  <1> QED BY <1>7, <1>8, <1>13, <1>16, <1>18, <1>20, <1>21, <1>22 DEF PublishingSound

-----------------------------------------------------------------------------
(* What moves while no request does.                                       *)

LEMMA ProcessStep ==
    ASSUME InstagramConstants, PublishingSound, NEW k \in 1 .. Len(boxes), process(k)
    PROVE  PublishingSound'
  <1>1. UNCHANGED <<book, asks, post, days, thread, serving>>
    BY DEF process
  <1>2. PublishTypes /\ boxes[k] \in Box /\ Len(boxes) \in Nat /\ days \in Nat
    BY ElementOfSeq, PostTyped DEF PublishingSound, PublishTypes, InstagramConstants
  <1>3. PICK status \in {"FINISHED", "ERROR", "EXPIRED"} :
          boxes' = [boxes EXCEPT ![k].status = status] /\ boxes[k].status # "PUBLISHED"
    BY DEF process
  <1> PICK b : b = [boxes[k] EXCEPT !.status = status]
    OBVIOUS
  <1>4. /\ b \in Box /\ b.owner = boxes[k].owner /\ b.kind = boxes[k].kind /\ b.media = boxes[k].media
        /\ b.status = status /\ boxes[k].media = 0
    <2>1. boxes[k].media = 0
      BY <1>2, <1>3 DEF Box, PublishingSound, PostsAreContainers
    <2> QED BY <1>2, <2>1 DEF Box, Statuses
  <1>5. boxes' = [boxes EXCEPT ![k] = b]
    BY <1>3
  <1>6. /\ boxes' \in Seq(Box) /\ Len(boxes') = Len(boxes) /\ boxes'[k] = b
        /\ \A i \in 1 .. Len(boxes) : i # k => boxes'[i] = boxes[i]
        /\ BoxesGrow /\ PostsStay /\ PostsAreContainers'
    <2>1. PostsAreContainers
      BY DEF PublishingSound
    <2>2. b.media = 0 /\ b.status # "PUBLISHED" /\ boxes[k].status # "PUBLISHED"
      BY <1>3, <1>4
    <2>3. b.media <= 1 /\ ~(b.media > 0)
      BY <2>2
    <2> QED BY <1>2, <1>4, <1>5, <2>1, <2>2, <2>3, BoxReplaced
  <1>7. PublishTypes'
    BY <1>1, <1>2, <1>6 DEF PublishTypes, Post
  <1>8. RowsAreContainers' /\ BookGrows
    <2>1. \A r \in book : r.day \in Nat
      BY <1>2 DEF PublishTypes, Row
    <2>2. RowsAreContainers
      BY DEF PublishingSound
    <2> QED BY <1>1, <1>2, <1>6, <2>1, <2>2, RowsKept
  <1>9. CallIsTrue'
    <2> SUFFICES ASSUME post # NoPost PROVE CallIsTrue'
      BY <1>1 DEF CallIsTrue
    <2>1. post.at \in {"status", "call"}
      BY <1>2, PostIdle DEF process
    <2>2. PICK a : a = asks[post.ask]
      OBVIOUS
    <2>3. /\ serving /\ a.called /\ (~a.retried => a.state = "IN_FLIGHT" /\ a.effects = 0)
          /\ post.at = "status" => a.op.tool = "publish"
          /\ post.at = "call" /\ a.op.tool = "publish" => boxes[a.op.box].media = 0 /\ a.op.box \in 1 .. Len(boxes)
          /\ post.at = "call" /\ Creates(a.op) => budget_used(a.op.owner) < CONTAINER_BUDGET
      <3>1. CASE post.at = "call"
        BY <2>2, <3>1, CallFacts
      <3>2. CASE post.at = "status"
        BY <2>2, <3>2, PublicationFacts
      <3> QED BY <2>1, <3>1, <3>2
    <2>4. post.at = "call" /\ a.op.tool = "publish" => boxes'[a.op.box].media = 0
      BY <1>4, <1>6, <2>3
    <2>5. a' = a /\ asks'[post'.ask] = a /\ post' = post
      BY <1>1, <2>2
    <2>6. budget_used(asks[post.ask].op.owner)' = budget_used(a.op.owner)
      BY <1>1, <2>2 DEF budget_used, Mine
    <2> QED BY <1>1, <2>1, <2>2, <2>3, <2>4, <2>5, <2>6 DEF CallIsTrue, Creates
  <1>10. Unrecorded' = Unrecorded /\ Owing' = Owing
    BY <1>1, <1>6 DEF Unrecorded, Owing
  <1>11. LossesAreOwned'
    BY <1>10 DEF LossesAreOwned, PublishingSound
  <1>12. BudgetKept'
    BY <1>1, BudgetRests DEF PublishingSound, BudgetKept
  <1> QED BY <1>1, <1>6, <1>7, <1>8, <1>9, <1>11, <1>12, RecordsStep

LEMMA ReceiveStep ==
    ASSUME InstagramConstants, PublishingSound, receive
    PROVE  PublishingSound'
  <1> DEFINE m == [dir |-> "in", day |-> days]
  <1>1. thread' = Append(thread, m) /\ UNCHANGED <<boxes, book, asks, post, days, serving>>
    BY DEF receive
  <1>2. PublishTypes /\ Len(thread) \in Nat /\ days \in Nat
    BY PostTyped DEF PublishingSound, PublishTypes, InstagramConstants
  <1>3. m \in [dir : {"in", "out"}, day : Nat]
    BY <1>2
  <1>4. /\ thread' \in Seq([dir : {"in", "out"}, day : Nat])
        /\ \A n \in 1 .. Len(thread) : n \in 1 .. Len(thread') /\ thread'[n] = thread[n]
    <2>1. thread \in Seq([dir : {"in", "out"}, day : Nat])
      BY <1>2 DEF PublishTypes
    <2> HIDE DEF m
    <2>2. thread' \in Seq([dir : {"in", "out"}, day : Nat])
      BY <1>1, <1>3, <2>1, AppendProperties
    <2>3. Len(thread') = Len(thread) + 1 /\ \A n \in 1 .. Len(thread) : thread'[n] = thread[n]
      BY <1>1, <1>3, <2>1, AppendProperties
    <2> QED BY <1>2, <2>2, <2>3
  <1>5. NoColdMessage'
    BY <1>1, <1>4 DEF PublishingSound, NoColdMessage
  <1>6. PublishTypes'
    BY <1>1, <1>2, <1>4 DEF PublishTypes, Post
  <1> QED
    BY <1>1, <1>5, <1>6
       DEF PublishingSound, PostsAreContainers, RowsAreContainers, LedgerIsTrue, PublicationsAreOwned, Named, Mine,
           AsksAreTrue, AskIsTrue, CallIsTrue, LossesAreOwned, Owing, Unrecorded, BudgetKept, budget_used

LEMMA DayStep ==
    ASSUME InstagramConstants, PublishingSound, day
    PROVE  PublishingSound'
  <1>1. post = NoPost /\ days < MaxDays /\ days' = days + 1 /\ UNCHANGED <<boxes, book, asks, post, thread, serving>>
    BY DEF day
  <1>2. PublishTypes /\ days \in Nat /\ \A r \in book : r.day \in Nat /\ r.day <= days
    <2>1. PublishTypes /\ RowsAreContainers
      BY DEF PublishingSound
    <2> QED BY <2>1 DEF PublishTypes, InstagramConstants, Row, RowsAreContainers
  <1>3. PublishTypes'
    BY <1>1, <1>2 DEF PublishTypes, Post, InstagramConstants
  <1>4. BudgetKept'
    <2> SUFFICES ASSUME NEW acc \in Owners PROVE budget_used(acc)' <= CONTAINER_BUDGET
      BY DEF BudgetKept
    <2>1. {r \in Mine(acc) : r.day = days}' = {}
      BY <1>1, <1>2 DEF Mine
    <2>2. budget_used(acc)' = 0
      BY <2>1, FS_EmptySet DEF budget_used
    <2> QED BY <2>2 DEF InstagramConstants
  <1>5. RowsAreContainers'
    BY <1>1, <1>2 DEF PublishingSound, RowsAreContainers, LedgerIsTrue
  <1>6. CallIsTrue'
    BY <1>1 DEF CallIsTrue
  <1> QED
    BY <1>1, <1>3, <1>4, <1>5, <1>6
       DEF PublishingSound, PostsAreContainers, PublicationsAreOwned, Named, Mine,
           AsksAreTrue, AskIsTrue, LossesAreOwned, Owing, Unrecorded, NoColdMessage

\* The call in progress is gone; what it did stays done.
LEMMA CutShort ==
    ASSUME PublishingSound, post' = NoPost, UNCHANGED <<boxes, book, asks, days, thread>>
    PROVE  PublishingSound'
  <1>1. PublishTypes'
    BY DEF PublishingSound, PublishTypes, Post
  <1>2. Owing \subseteq Owing' /\ Unrecorded' = Unrecorded
    BY DEF Owing, Unrecorded, NoPost
  <1>3. LossesAreOwned'
    BY <1>1, <1>2, LossesKept DEF PublishingSound
  <1>4. CallIsTrue'
    BY DEF CallIsTrue
  <1> QED
    BY <1>1, <1>3, <1>4
       DEF PublishingSound, PostsAreContainers, RowsAreContainers, LedgerIsTrue, PublicationsAreOwned, Named, Mine,
           AsksAreTrue, AskIsTrue, BudgetKept, budget_used, NoColdMessage

\* After a restart every request has an outcome; one that may have left a container stays unknown.
LEMMA RecoveryStep ==
    ASSUME InstagramConstants, PublishingSound, startup_recovery
    PROVE  PublishingSound'
  <1>1. /\ ~serving /\ asks' = [i \in 1 .. Len(asks) |-> Recovered(asks[i])]
        /\ UNCHANGED <<boxes, book, post, days, thread>>
    BY DEF startup_recovery
  <1>2. PublishTypes /\ post = NoPost /\ Len(asks) \in Nat
    BY <1>1, PostTyped DEF PublishingSound, CallIsTrue
  <1>3. ASSUME NEW i \in 1 .. Len(asks)
        PROVE  /\ Recovered(asks[i]) \in Ask /\ Recovered(asks[i]).op = asks[i].op
               /\ Recovered(asks[i]).effects = asks[i].effects
               /\ AskIsTrue(Recovered(asks[i]))
               /\ asks[i].state \in {"IN_FLIGHT", "OUTCOME_UNKNOWN"} /\ asks[i].effects > 0
                    => Recovered(asks[i]).state = "OUTCOME_UNKNOWN"
    <2>1. asks[i] \in Ask /\ AskIsTrue(asks[i])
      BY <1>2, AskFacts DEF PublishingSound, AsksAreTrue
    <2>2. PICK a : a = asks[i]
      OBVIOUS
    <2>3. PICK b : b = Recovered(a)
      OBVIOUS
    <2>4. CASE a.state # "IN_FLIGHT"
      BY <2>1, <2>2, <2>4 DEF Recovered
    <2>5. CASE a.state = "IN_FLIGHT"
      <3>1. b = [a EXCEPT !.state = IF a.called THEN "OUTCOME_UNKNOWN" ELSE "FAILED"]
        BY <2>3, <2>5 DEF Recovered
      <3>2. /\ b \in Ask /\ b.op = a.op /\ b.effects = a.effects /\ b.called = a.called /\ b.retried = a.retried
            /\ b.made = a.made /\ b.state = IF a.called THEN "OUTCOME_UNKNOWN" ELSE "FAILED"
        BY <2>1, <2>2, <3>1 DEF Ask, Outcomes
      <3>3. a.effects \in Nat /\ AskIsTrue(a)
        BY <2>1, <2>2 DEF Ask
      <3>4. AskIsTrue(b)
        BY <3>2, <3>3 DEF AskIsTrue
      <3>5. a.effects > 0 => b.state = "OUTCOME_UNKNOWN"
        BY <3>2, <3>3 DEF AskIsTrue
      <3> QED BY <2>2, <2>3, <3>2, <3>4, <3>5
    <2> QED BY <2>4, <2>5, <2>2
  <1>4. /\ asks' \in Seq(Ask) /\ Len(asks') = Len(asks)
        /\ \A i \in 1 .. Len(asks) : asks'[i] = Recovered(asks[i])
    <2>1. asks' \in [1 .. Len(asks) -> Ask]
      BY <1>1, <1>3
    <2>2. asks' \in Seq(Ask)
      BY <1>2, <2>1, SeqDef
    <2>3. DOMAIN asks' = 1 .. Len(asks)
      BY <2>1
    <2>4. Len(asks') = Len(asks)
      <3>1. DOMAIN asks' = 1 .. Len(asks') /\ Len(asks') \in Nat
        BY <2>2, LenProperties
      <3> QED BY <1>2, <2>3, <3>1
    <2> QED BY <1>1, <2>2, <2>4
  <1>5. PublishTypes'
    BY <1>1, <1>2, <1>4 DEF PublishTypes, Post
  <1>6. AsksAreTrue'
    <2> SUFFICES ASSUME NEW i \in 1 .. Len(asks) PROVE AskIsTrue(asks[i])'
      BY <1>4 DEF AsksAreTrue
    <2>1. PICK b : b = Recovered(asks[i])
      OBVIOUS
    <2>2. AskIsTrue(b) /\ asks'[i] = b
      BY <1>3, <1>4, <2>1
    <2>3. AskIsTrue(b)'
      BY <1>1, <2>2 DEF AskIsTrue
    <2> QED BY <2>2, <2>3
  <1>7. PublicationsAreOwned'
    <2> SUFFICES ASSUME NEW i \in 1 .. Len(asks), asks'[i].op.tool = "publish"
                 PROVE  Named(asks[i].op.owner, asks[i].op.box)'
      BY <1>4 DEF PublicationsAreOwned
    <2>1. asks'[i].op = asks[i].op
      BY <1>3, <1>4
    <2>2. Named(asks[i].op.owner, asks[i].op.box)
      BY <2>1 DEF PublishingSound, PublicationsAreOwned
    <2> QED BY <1>1, <2>1, <2>2 DEF Named, Mine
  <1>8. Owing \subseteq Owing' /\ Unrecorded' = Unrecorded
    <2>1. Unrecorded' = Unrecorded
      BY <1>1 DEF Unrecorded
    <2>2. ASSUME NEW i \in Owing
          PROVE  i \in Owing'
      <3>1. i \in 1 .. Len(asks) /\ Creates(asks[i].op) /\ asks[i].state \in {"IN_FLIGHT", "OUTCOME_UNKNOWN"} /\ asks[i].effects > 0
        BY DEF Owing
      <3>2. asks'[i].op = asks[i].op /\ asks'[i].state = "OUTCOME_UNKNOWN" /\ asks'[i].effects > 0 /\ i \in 1 .. Len(asks')
        BY <1>3, <1>4, <3>1
      <3> QED BY <1>1, <1>2, <3>1, <3>2 DEF Owing, NoPost, Creates
    <2> QED BY <2>1, <2>2
  <1>9. LossesAreOwned'
    BY <1>2, <1>5, <1>8, LossesKept DEF PublishingSound
  <1>10. CallIsTrue'
    BY <1>1, <1>2 DEF CallIsTrue
  <1>11. NoColdMessage'
    BY <1>1, <1>3, <1>4 DEF PublishingSound, NoColdMessage
  <1> QED
    BY <1>1, <1>5, <1>6, <1>7, <1>9, <1>10, <1>11
       DEF PublishingSound, PostsAreContainers, RowsAreContainers, LedgerIsTrue, BudgetKept, budget_used, Mine

LEMMA WorkStep ==
    ASSUME InstagramConstants, PublishingSound, Work
    PROVE  PublishingSound'
  <1>1. CASE \E op \in Ops : write(op)
    <2>1. PICK op \in Ops : write(op)
      BY <1>1
    <2>2. serving
      BY <2>1 DEF write
    <2> QED BY <2>1, <2>2, WriteStep
  <1>2. CASE \E i \in 1 .. Len(asks) : replay(i)
    <2>1. PICK i \in 1 .. Len(asks) : replay(i)
      BY <1>2
    <2>2. serving
      BY <2>1 DEF replay
    <2> QED BY <2>1, <2>2, ReplayStep
  <1>3. CASE start_step
    BY <1>3, StartStep
  <1>4. CASE publish_ledger
    BY <1>4, LedgerStep
  <1>5. CASE publish_status
    BY <1>5, StatusStep
  <1>6. CASE invoke
    BY <1>6, InvokeStep
  <1>7. CASE file_result
    BY <1>7, FileStep
  <1>8. CASE on_created
    BY <1>8, HookStep
  <1>9. CASE finish
    BY <1>9, FinishStep
  <1>10. CASE \E b \in 1 .. Len(boxes) : process(b)
    BY <1>10, ProcessStep
  <1>11. CASE receive
    BY <1>11, ReceiveStep
  <1>12. CASE day
    BY <1>12, DayStep
  <1> QED BY <1>1, <1>2, <1>3, <1>4, <1>5, <1>6, <1>7, <1>8, <1>9, <1>10, <1>11, <1>12 DEF Work

-----------------------------------------------------------------------------
(* Accounts and their tokens.                                              *)

\* What the running adapters are made of.
LEMMA Reloaded ==
    ASSUME AccountTypes
    PROVE  /\ reload(accountOf, tokenOf) \in [Aliases -> Users \cup {Nobody}]
           /\ \A al \in Aliases : reload(accountOf, tokenOf)[al] =
                IF accountOf[al] = Nobody \/ tokenOf[al] = Nobody THEN Nobody ELSE tokenOf[al]
  BY DEF AccountTypes, reload

LEMMA AddStep ==
    ASSUME InstagramConstants, AccountTypes, AccountsSound, NEW al \in Aliases, NEW u \in Users, add_token(al, u)
    PROVE  AccountTypes' /\ AccountsSound'
  <1>1. /\ serving /\ clerk = NoClerk /\ accountOf[al] = Nobody /\ ~Taken(u)
        /\ tokenOf' = [tokenOf EXCEPT ![al] = u] /\ clerk' = [at |-> "register", alias |-> al, user |-> u]
        /\ UNCHANGED <<accountOf, linked, checked, serving>>
    BY DEF add_token
  <1>2. AccountTypes'
    BY <1>1 DEF AccountTypes, Clerk
  <1>3. ~Taken(u)'
    BY <1>1 DEF Taken
  <1> QED BY <1>1, <1>2, <1>3 DEF AccountTypes, AccountsSound, NoClerk

LEMMA RegisterStep ==
    ASSUME InstagramConstants, AccountTypes, AccountsSound, add_account
    PROVE  AccountTypes' /\ AccountsSound'
  <1>1. /\ clerk.at = "register" /\ accountOf' = [accountOf EXCEPT ![clerk.alias] = clerk.user]
        /\ clerk' = [at |-> "reload"] /\ UNCHANGED <<tokenOf, linked, checked, serving>>
    BY DEF add_account
  <1>2. clerk.alias \in Aliases /\ clerk.user \in Users /\ clerk # NoClerk
    BY <1>1 DEF AccountTypes, Clerk, NoClerk
  <1>3. serving /\ tokenOf[clerk.alias] = clerk.user /\ \A x \in Aliases : accountOf[x] # clerk.user
    BY <1>1, <1>2 DEF AccountsSound, Taken
  <1>4. AccountTypes'
    BY <1>1, <1>2 DEF AccountTypes, Clerk
  <1> QED BY <1>1, <1>2, <1>3, <1>4 DEF AccountTypes, AccountsSound, NoClerk

LEMMA RemoveStep ==
    ASSUME InstagramConstants, AccountTypes, AccountsSound, NEW al \in Aliases, remove_token(al)
    PROVE  AccountTypes' /\ AccountsSound'
  <1>1. /\ serving /\ clerk = NoClerk /\ tokenOf' = [tokenOf EXCEPT ![al] = Nobody]
        /\ clerk' = [at |-> "unregister", alias |-> al] /\ UNCHANGED <<accountOf, linked, checked, serving>>
    BY DEF remove_token
  <1>2. AccountTypes'
    BY <1>1 DEF AccountTypes, Clerk
  <1> QED BY <1>1, <1>2 DEF AccountTypes, AccountsSound, NoClerk

LEMMA UnregisterStep ==
    ASSUME InstagramConstants, AccountTypes, AccountsSound, remove_account
    PROVE  AccountTypes' /\ AccountsSound'
  <1>1. /\ clerk.at = "unregister" /\ accountOf' = [accountOf EXCEPT ![clerk.alias] = Nobody]
        /\ clerk' = [at |-> "reload"] /\ UNCHANGED <<tokenOf, linked, checked, serving>>
    BY DEF remove_account
  <1>2. clerk.alias \in Aliases /\ clerk # NoClerk
    BY <1>1 DEF AccountTypes, Clerk, NoClerk
  <1>3. AccountTypes'
    BY <1>1, <1>2 DEF AccountTypes, Clerk
  <1> QED BY <1>1, <1>2, <1>3 DEF AccountTypes, AccountsSound, NoClerk

\* A new token of the account itself, set or refreshed.
LEMMA TokenStep ==
    ASSUME InstagramConstants, AccountTypes, AccountsSound, NEW al \in Aliases,
           \E u \in Users : u = accountOf[al] /\ tokenOf' = [tokenOf EXCEPT ![al] = u],
           serving, clerk' = [at |-> "reload"], UNCHANGED <<accountOf, linked, checked, serving>>
    PROVE  AccountTypes' /\ AccountsSound'
  <1>1. AccountTypes'
    BY DEF AccountTypes, Clerk
  <1> QED BY <1>1 DEF AccountTypes, AccountsSound, NoClerk

LEMMA ReloadStep ==
    ASSUME InstagramConstants, AccountTypes, AccountsSound, linked' = reload(accountOf, tokenOf), checked' = {},
           clerk' = NoClerk, UNCHANGED <<accountOf, tokenOf>>
    PROVE  AccountTypes' /\ AccountsSound'
  <1>1. AccountTypes'
    BY Reloaded DEF AccountTypes, Clerk
  <1>2. reload(accountOf, tokenOf)' = reload(accountOf, tokenOf)
    BY DEF reload
  <1> QED BY <1>1, <1>2 DEF AccountsSound, NoClerk

LEMMA UsernameStep ==
    ASSUME InstagramConstants, AccountTypes, AccountsSound, NEW al \in Aliases, username(al)
    PROVE  AccountTypes' /\ AccountsSound'
  <1>1. /\ clerk = NoClerk /\ linked[al] # Nobody /\ checked' = checked \cup {al}
        /\ UNCHANGED <<accountOf, tokenOf, linked, clerk, serving>>
    BY DEF username
  <1>2. AccountTypes'
    BY <1>1 DEF AccountTypes
  <1>3. reload(accountOf, tokenOf)' = reload(accountOf, tokenOf)
    BY <1>1 DEF reload
  <1> QED BY <1>1, <1>2, <1>3 DEF AccountsSound, NoClerk

LEMMA ManageStep ==
    ASSUME InstagramConstants, AccountTypes, AccountsSound, Manage
    PROVE  AccountTypes' /\ AccountsSound'
  <1>1. CASE \E al \in Aliases, u \in Users : add_token(al, u)
    BY <1>1, AddStep
  <1>2. CASE \E al \in Aliases, u \in Users : credential_set(al, u)
    BY <1>2, TokenStep DEF credential_set
  <1>3. CASE add_account
    BY <1>3, RegisterStep
  <1>4. CASE remove_account
    BY <1>4, UnregisterStep
  <1>5. CASE reloaded
    BY <1>5, ReloadStep DEF reloaded
  <1>6. CASE \E al \in Aliases : remove_token(al)
    BY <1>6, RemoveStep
  <1>7. CASE \E al \in Aliases : _refresh(al)
    BY <1>7, TokenStep DEF _refresh
  <1>8. CASE \E al \in Aliases : username(al)
    BY <1>8, UsernameStep
  <1> QED BY <1>1, <1>2, <1>3, <1>4, <1>5, <1>6, <1>7, <1>8 DEF Manage

-----------------------------------------------------------------------------
(* Pages of a listing.                                                     *)

Items == Feeds \X Int

\* A page holds the items below a position, newest first.
LEMMA PageFacts ==
    ASSUME InstagramConstants, NEW f \in Feeds, NEW after \in Nat
    PROVE  /\ page_of(f, after) \in Seq(Items)
           /\ Len(page_of(f, after)) = IF after < PageSize THEN after ELSE PageSize
           /\ \A i \in 1 .. Len(page_of(f, after)) : page_of(f, after)[i] = <<f, after - i + 1>>
  <1> DEFINE n == IF after < PageSize THEN after ELSE PageSize
             page == [i \in 1 .. n |-> <<f, after - i + 1>>]
  <1>1. n \in Nat
    BY DEF InstagramConstants
  <1>2. page \in [1 .. n -> Items]
    <2> HIDE DEF n
    <2> QED BY <1>1 DEF Items
  <1>3. page \in Seq(Items) /\ Len(page) = n
    <2> HIDE DEF n
    <2>1. DOMAIN page = 1 .. n
      OBVIOUS
    <2> HIDE DEF page
    <2>2. page \in Seq(Items)
      BY <1>1, <1>2, SeqDef
    <2>3. DOMAIN page = 1 .. Len(page) /\ Len(page) \in Nat
      BY <2>2, LenProperties
    <2> QED BY <1>1, <2>1, <2>2, <2>3
  <1>4. page_of(f, after) = page
    BY DEF page_of
  <1>5. \A i \in 1 .. n : page[i] = <<f, after - i + 1>>
    OBVIOUS
  <1> HIDE DEF page
  <1> QED BY <1>3, <1>4, <1>5

LEMMA FirstStep ==
    ASSUME InstagramConstants, PageTypes, WalkSound, NEW f \in Feeds, first_page(f)
    PROVE  PageTypes' /\ WalkSound'
  <1>1. /\ reading' = [kind |-> f, after |-> feed[f] - PageSize, got |-> page_of(f, feed[f])]
        /\ UNCHANGED feed
    BY DEF first_page
  <1>2. feed[f] \in Nat /\ feed[f] >= PageSize /\ PageSize \in Nat /\ PageSize >= 1
    BY DEF PageTypes, WalkSound, InstagramConstants
  <1> PICK page : page = page_of(f, feed[f])
    OBVIOUS
  <1>3. page \in Seq(Items) /\ Len(page) = PageSize /\ \A i \in 1 .. Len(page) : page[i] = <<f, feed[f] - i + 1>>
    <2>1. PICK n : n = feed[f]
      OBVIOUS
    <2>2. n \in Nat /\ page = page_of(f, n) /\ ~(n < PageSize)
      BY <1>2, <2>1
    <2>3. Len(page) = PageSize
      BY <2>2, PageFacts
    <2>4. page \in Seq(Items) /\ \A i \in 1 .. Len(page) : page[i] = <<f, n - i + 1>>
      BY <2>2, PageFacts
    <2> QED BY <2>1, <2>3, <2>4
  <1>4. page # <<>> /\ page[1] = <<f, feed[f]>>
    BY <1>2, <1>3
  <1>5. PageTypes'
    BY <1>1, <1>2, <1>3 DEF PageTypes, Reading, Items
  <1> QED BY <1>1, <1>2, <1>3, <1>4, <1>5 DEF WalkSound

LEMMA WalkJoined ==
    ASSUME NEW T, NEW s \in Seq(T), NEW t \in Seq(T), NEW u, u = s \o t
    PROVE  /\ u \in Seq(T) /\ Len(u) = Len(s) + Len(t)
           /\ \A i \in 1 .. Len(u) : u[i] = IF i <= Len(s) THEN s[i] ELSE t[i - Len(s)]
  <1>1. u \in Seq(T) /\ Len(u) = Len(s) + Len(t)
    BY ConcatProperties
  <1>2. \A i \in 1 .. Len(s) + Len(t) : (s \o t)[i] = IF i <= Len(s) THEN s[i] ELSE t[i - Len(s)]
    BY ConcatProperties
  <1> QED BY <1>1, <1>2

LEMMA NextStep ==
    ASSUME InstagramConstants, PageTypes, WalkSound, NEW f \in Feeds, next_page(f)
    PROVE  PageTypes' /\ WalkSound'
  <1>1. /\ reading # NoReading /\ reading.after > 0 /\ reading.kind = f
        /\ reading' = [kind |-> f, after |-> reading.after - PageSize,
                       got |-> reading.got \o page_of(f, reading.after)]
        /\ UNCHANGED feed
    BY DEF next_page, BoundTo
  <1>1a. PICK got, after : got = reading.got /\ after = reading.after
    OBVIOUS
  <1>2. got \in Seq(Items) /\ after \in Nat /\ PageSize \in Nat /\ PageSize >= 1
    BY <1>1, <1>1a DEF PageTypes, Reading, Items, InstagramConstants
  <1>2a. PICK page : page = page_of(f, after)
    OBVIOUS
  <1>3. /\ page \in Seq(Items) /\ Len(page) = (IF after < PageSize THEN after ELSE PageSize)
        /\ \A i \in 1 .. Len(page) : page[i] = <<f, after - i + 1>>
    BY <1>2, <1>2a, PageFacts
  <1>3a. PICK walk : walk = got \o page
    OBVIOUS
  <1>3b. PICK newest : newest = got[1][2]
    OBVIOUS
  <1>4. got # <<>> /\ (\A i \in 1 .. Len(got) : got[i] = <<f, newest - i + 1>>) /\ after = newest - Len(got)
    BY <1>1, <1>1a, <1>3b DEF WalkSound
  <1>5. /\ Len(got) \in Nat \ {0} /\ Len(page) \in Nat /\ got[1] \in Items /\ newest \in Int
    <2>1. Len(got) \in Nat \ {0} /\ Len(page) \in Nat
      BY <1>2, <1>3, <1>4, EmptySeq, LenProperties
    <2>2. got[1] \in Items
      BY <1>2, <2>1, ElementOfSeq
    <2> QED BY <1>3b, <2>1, <2>2 DEF Items
  <1>6. /\ walk \in Seq(Items) /\ Len(walk) = Len(got) + Len(page)
        /\ \A i \in 1 .. Len(walk) : walk[i] = IF i <= Len(got) THEN got[i] ELSE page[i - Len(got)]
    <2>1. got \in Seq(Items) /\ page \in Seq(Items)
      BY <1>2, <1>3
    <2> QED BY <1>3a, <2>1, WalkJoined
  <1>7. walk[1][2] = newest /\ walk # <<>>
    BY <1>3b, <1>5, <1>6
  <1>8. ASSUME NEW i \in 1 .. Len(walk)
        PROVE  walk[i] = <<f, newest - i + 1>>
    <2>1. CASE i <= Len(got)
      <3>1. walk[i] = got[i] /\ i \in 1 .. Len(got)
        BY <1>5, <1>6, <2>1
      <3> QED BY <1>4, <3>1
    <2>2. CASE i > Len(got)
      <3>1. i - Len(got) \in 1 .. Len(page)
        BY <1>5, <1>6, <2>2
      <3>2. walk[i] = <<f, after - (i - Len(got)) + 1>>
        <4>1. walk[i] = page[i - Len(got)]
          BY <1>5, <1>6, <2>2
        <4> QED BY <1>3, <3>1, <4>1
      <3>3. after - (i - Len(got)) + 1 = newest - i + 1
        BY <1>4, <1>5
      <3> QED BY <3>2, <3>3
    <2> QED BY <1>5, <2>1, <2>2
  <1>9. after - PageSize > 0 => after - PageSize = newest - Len(walk)
    BY <1>2, <1>3, <1>4, <1>5, <1>6
  <1>10. reading' = [kind |-> f, after |-> after - PageSize, got |-> walk]
    BY <1>1, <1>1a, <1>2a, <1>3a
  <1>11. PageTypes'
    <2>1. after - PageSize \in Int /\ walk \in Seq(Items)
      BY <1>2, <1>6
    <2>2. reading' \in [kind : Feeds, after : Int, got : Seq(Items)]
      BY <1>10, <2>1
    <2> QED BY <1>1, <2>2 DEF PageTypes, Reading, Items
  <1>12. /\ reading'.got # <<>> /\ reading'.kind = f /\ reading'.got[1][2] = newest /\ Len(reading'.got) = Len(walk)
         /\ reading'.after > 0 => reading'.after = newest - Len(walk)
    BY <1>7, <1>9, <1>10
  <1>13. \A i \in 1 .. Len(reading'.got) : reading'.got[i] = <<f, newest - i + 1>>
    BY <1>8, <1>10
  <1> QED BY <1>1, <1>11, <1>12, <1>13 DEF WalkSound

LEMMA ReadStep ==
    ASSUME InstagramConstants, PageTypes, WalkSound, Read
    PROVE  PageTypes' /\ WalkSound'
  <1>1. CASE \E f \in Listings \cap Feeds : first_page(f)
    BY <1>1, FirstStep
  <1>2. CASE \E f \in Listings \cap Feeds : next_page(f)
    BY <1>2, NextStep
  <1>3. CASE \E f \in Listings \cap Feeds : appears(f)
    <2>1. PICK f \in Feeds : feed' = [feed EXCEPT ![f] = feed[f] + 1] /\ UNCHANGED reading
      BY <1>3 DEF appears
    <2> QED BY <2>1 DEF PageTypes, WalkSound, InstagramConstants
  <1>4. CASE forget
    BY <1>4 DEF forget, PageTypes, WalkSound, Reading
  <1> QED BY <1>1, <1>2, <1>3, <1>4 DEF Read

-----------------------------------------------------------------------------
(* The whole transport.                                                    *)

LEMMA InstagramStarts ==
    ASSUME InstagramConstants, InstagramInit
    PROVE  InstagramInvariant
  <1>1. stops \in 0 .. MaxStops /\ serving \in BOOLEAN
    BY DEF InstagramInit, InstagramConstants
  <1>2. PublishingSound
    <2>1. /\ boxes = <<>> /\ book = {} /\ asks = <<>> /\ post = NoPost /\ days = 0 /\ thread = <<>>
      BY DEF InstagramInit
    <2>2. Len(boxes) = 0 /\ Len(asks) = 0 /\ Len(thread) = 0
      BY <2>1
    <2>3. PublishTypes
      BY <2>1, FS_EmptySet DEF PublishTypes, Post, InstagramConstants
    <2>4. Owing = {} /\ Unrecorded = {}
      BY <2>2 DEF Owing, Unrecorded
    <2>5. LossesAreOwned
      BY <2>4, FS_EmptySet DEF LossesAreOwned
    <2>6. BudgetKept
      <3>1. \A acc : {r \in Mine(acc) : r.day = days} = {}
        BY <2>1 DEF Mine
      <3> QED BY <3>1, FS_EmptySet DEF BudgetKept, budget_used, InstagramConstants
    <2> QED BY <2>1, <2>2, <2>3, <2>5, <2>6
            DEF PublishingSound, PostsAreContainers, RowsAreContainers, LedgerIsTrue, PublicationsAreOwned,
                AsksAreTrue, CallIsTrue, NoColdMessage
  <1>3. AccountTypes
    BY DEF InstagramInit, AccountTypes, Clerk
  <1>4. AccountsSound
    BY <1>3, Reloaded DEF InstagramInit, AccountTypes, AccountsSound, NoClerk
  <1>5. PageTypes /\ WalkSound
    BY DEF InstagramInit, PageTypes, WalkSound, Reading, InstagramConstants
  <1> QED BY <1>1, <1>2, <1>3, <1>4, <1>5, InstagramByDesk

LEMMA InstagramSteps ==
    ASSUME InstagramConstants, InstagramInvariant, [InstagramNext]_instagramVars
    PROVE  InstagramInvariant'
  <1>1. /\ stops \in 0 .. MaxStops /\ serving \in BOOLEAN /\ PublishingSound
        /\ AccountTypes /\ AccountsSound /\ PageTypes /\ WalkSound
    BY InstagramByDesk
  <1>2. CASE Work
    <2>1. UNCHANGED <<accountVars, pageVars>> /\ UNCHANGED <<stops, serving>>
      BY <1>2
         DEF Work, write, replay, start_step, publish_ledger, publish_status, invoke, file_result, on_created, finish,
             process, receive, day, Publishing
    <2>2. PublishingSound'
      BY <1>1, <1>2, WorkStep
    <2>3. AccountTypes' /\ AccountsSound'
      BY <1>1, <2>1, AccountsRest
    <2>4. PageTypes' /\ WalkSound'
      BY <1>1, <2>1, PagesRest
    <2> QED BY <1>1, <2>1, <2>2, <2>3, <2>4, InstagramByDeskNext
  <1>3. CASE Manage
    <2>1. UNCHANGED <<publishVars, pageVars>> /\ UNCHANGED <<stops, serving>>
      BY <1>3
         DEF Manage, add_token, credential_set, add_account, remove_account, reloaded, remove_token, _refresh, username,
             Managing
    <2>2. AccountTypes' /\ AccountsSound'
      BY <1>1, <1>3, ManageStep
    <2>3. PublishingSound'
      BY <1>1, <2>1, PublishingRests
    <2>4. PageTypes' /\ WalkSound'
      BY <1>1, <2>1, PagesRest
    <2> QED BY <1>1, <2>1, <2>2, <2>3, <2>4, InstagramByDeskNext
  <1>4. CASE Read
    <2>1. UNCHANGED <<publishVars, accountVars>> /\ UNCHANGED <<stops, serving>>
      BY <1>4 DEF Read, first_page, next_page, appears, forget, Listing
    <2>2. PageTypes' /\ WalkSound'
      BY <1>1, <1>4, ReadStep
    <2>3. PublishingSound'
      BY <1>1, <2>1, PublishingRests
    <2>4. AccountTypes' /\ AccountsSound'
      BY <1>1, <2>1, AccountsRest
    <2> QED BY <1>1, <2>1, <2>2, <2>3, <2>4, InstagramByDeskNext
  <1>5. CASE crash
    <2>1. /\ stops < MaxStops /\ stops' = stops + 1 /\ serving' = FALSE /\ post' = NoPost /\ clerk' = NoClerk
          /\ UNCHANGED <<boxes, book, asks, days, thread, accountOf, tokenOf, linked, checked, pageVars>>
      BY <1>5 DEF crash
    <2>2. PublishingSound'
      BY <1>1, <2>1, CutShort
    <2>3. AccountTypes' /\ AccountsSound'
      <3>1. AccountTypes'
        BY <1>1, <2>1 DEF AccountTypes, Clerk
      <3> QED BY <1>1, <2>1, <3>1 DEF AccountsSound, NoClerk
    <2>4. PageTypes' /\ WalkSound'
      BY <1>1, <2>1, PagesRest
    <2>5. stops' \in 0 .. MaxStops
      <3>1. stops \in 0 .. MaxStops /\ stops < MaxStops /\ stops' = stops + 1 /\ MaxStops \in Nat
        BY <1>1, <2>1 DEF InstagramConstants
      <3> QED BY <3>1
    <2>6. serving' \in BOOLEAN
      BY <2>1
    <2> QED BY <2>2, <2>3, <2>4, <2>5, <2>6, InstagramByDeskNext
  <1>6. CASE startup_recovery
    <2>1. /\ ~serving /\ serving' = TRUE /\ linked' = reload(accountOf, tokenOf) /\ checked' = {}
          /\ UNCHANGED <<stops, accountOf, tokenOf, clerk, pageVars>>
      BY <1>6 DEF startup_recovery
    <2>2. PublishingSound'
      BY <1>1, <1>6, RecoveryStep
    <2>3. clerk = NoClerk
      BY <1>1, <2>1 DEF AccountsSound
    <2>4. AccountTypes' /\ AccountsSound'
      BY <1>1, <2>1, <2>3, ReloadStep
    <2>5. PageTypes' /\ WalkSound'
      BY <1>1, <2>1, PagesRest
    <2> QED BY <1>1, <2>1, <2>2, <2>4, <2>5, InstagramByDeskNext
  <1>7. CASE UNCHANGED instagramVars
    <2>1. UNCHANGED <<publishVars, accountVars, pageVars, stops, serving>>
      BY <1>7 DEF instagramVars
    <2>2. PublishingSound'
      BY <1>1, <2>1, PublishingRests
    <2>3. AccountTypes' /\ AccountsSound'
      BY <1>1, <2>1, AccountsRest
    <2>4. PageTypes' /\ WalkSound'
      BY <1>1, <2>1, PagesRest
    <2> QED BY <1>1, <2>1, <2>2, <2>3, <2>4, InstagramByDeskNext
  <1> QED BY <1>2, <1>3, <1>4, <1>5, <1>6, <1>7 DEF InstagramNext

\* Every behaviour of the transport keeps the inductive invariant.
THEOREM InstagramInductive ==
    ASSUME InstagramConstants
    PROVE  InstagramSpec => []InstagramInvariant
  <1>1. InstagramInit => InstagramInvariant
    BY InstagramStarts
  <1>2. InstagramInvariant /\ [InstagramNext]_instagramVars => InstagramInvariant'
    BY InstagramSteps
  <1> QED BY <1>1, <1>2, PTL DEF InstagramSpec

LEMMA InstagramPromise ==
    ASSUME InstagramConstants, InstagramInvariant
    PROVE  InstagramKeepsCount
  <1>1. /\ stops \in 0 .. MaxStops /\ serving \in BOOLEAN /\ PublishingSound
        /\ AccountTypes /\ AccountsSound /\ PageTypes /\ WalkSound
    BY InstagramByDesk
  <1>2. PublishTypes /\ Len(asks) \in Nat /\ Len(boxes) \in Nat
    BY <1>1, PostTyped DEF PublishingSound
  <1>3. PublishedOnce
    BY <1>1 DEF PublishingSound, PostsAreContainers, PublishedOnce
  <1>4. LedgerIsTrue /\ BudgetKept /\ NoColdMessage
    BY <1>1 DEF PublishingSound, RowsAreContainers
  <1>5. OutcomesAreTrue
    <2>1. ASSUME NEW i \in 1 .. Len(asks)
          PROVE  LET a == asks[i] IN
                   /\ a.state = "FAILED" /\ ~a.retried => a.effects = 0
                   /\ a.effects > 1 => Repeatable(a.op)
                   /\ a.state = "SUCCEEDED" =>
                        CASE a.op.tool \in {"create", "carousel"} -> \E r \in book : r.box = a.made
                          [] a.op.tool = "publish" -> boxes[a.op.box].status = "PUBLISHED"
                          [] OTHER -> a.effects > 0
      <3>1. PICK a : a = asks[i]
        OBVIOUS
      <3>2. AskIsTrue(a)
        BY <1>1, <3>1 DEF PublishingSound, AsksAreTrue
      <3> QED BY <3>1, <3>2 DEF AskIsTrue, Creates
    <2> DEFINE S == {i \in 1 .. Len(asks) : asks[i].op.tool \in {"create", "carousel"}
                                              /\ asks[i].state \in {"IN_FLIGHT", "OUTCOME_UNKNOWN"}}
    <2>2. Owing \subseteq S
      BY DEF Owing, Creates
    <2>3. IsFiniteSet(S) /\ Cardinality(S) \in Nat
      <3>1. S \in SUBSET (1 .. Len(asks))
        OBVIOUS
      <3> HIDE DEF S
      <3> QED BY <1>2, <3>1, Counted
    <2>4. Cardinality(Owing) <= Cardinality(S) /\ Cardinality(Owing) \in Nat
      <3> HIDE DEF S
      <3> QED BY <2>2, <2>3, FS_Subset, FS_CardinalityType
    <2>5. Cardinality(Unrecorded) \in Nat
      BY <1>2, Counted DEF Unrecorded
    <2>6. Cardinality(Unrecorded) <= Cardinality(S)
      <3>1. Cardinality(Unrecorded) <= Cardinality(Owing)
        BY <1>1 DEF PublishingSound, LossesAreOwned
      <3> HIDE DEF S
      <3> QED BY <2>3, <2>4, <2>5, <3>1
    <2>7. Cardinality({b \in 1 .. Len(boxes) : ~\E r \in book : r.box = b}) <= Cardinality(S)
      BY <2>6 DEF Unrecorded
    <2> QED BY <2>1, <2>7 DEF OutcomesAreTrue
  <1>6. OwnTokenOnly
    <2>1. ASSUME NEW al \in Aliases, clerk = NoClerk, serving
          PROVE  /\ linked[al] \in {Nobody, accountOf[al]}
                 /\ findings(al) = {} <=> linked[al] # Nobody
                 /\ al \in checked => linked[al] # Nobody
      <3>1. linked[al] = (IF accountOf[al] = Nobody \/ tokenOf[al] = Nobody THEN Nobody ELSE tokenOf[al])
        BY <1>1, <2>1, Reloaded DEF AccountsSound
      <3>2. accountOf[al] # Nobody => tokenOf[al] \in {Nobody, accountOf[al]}
        BY <1>1 DEF AccountsSound
      <3>3. al \in checked => linked[al] # Nobody
        BY <1>1, <2>1 DEF AccountsSound
      <3> QED BY <3>1, <3>2, <3>3 DEF findings
    <2>2. checked \subseteq Aliases
      BY <1>1 DEF AccountTypes
    <2> QED BY <1>1, <2>1, <2>2 DEF OwnTokenOnly, AccountsSound
  <1>7. WalkIsOneListing
    <2>1. CASE reading = NoReading
      BY <2>1 DEF WalkIsOneListing, NoReading
    <2>2. CASE reading # NoReading
      <3>1. \A i \in 1 .. Len(reading.got) : reading.got[i] = <<reading.kind, reading.got[1][2] - i + 1>>
        BY <1>1, <2>2 DEF WalkSound
      <3>2. Len(reading.got) \in Nat
        BY <1>1, <2>2, LenProperties DEF PageTypes, Reading
      <3> SUFFICES ASSUME NEW i \in 2 .. Len(reading.got)
                   PROVE  /\ reading.got[i][1] = reading.got[1][1]
                          /\ reading.got[i][2] = reading.got[1][2] - i + 1
        BY DEF WalkIsOneListing
      <3>3. i \in 1 .. Len(reading.got) /\ 1 \in 1 .. Len(reading.got)
        BY <3>2
      <3>4. reading.got[i] = <<reading.kind, reading.got[1][2] - i + 1>>
        BY <3>1, <3>3
      <3>5. reading.got[1][1] = reading.kind
        <4>1. reading.got[1] = <<reading.kind, reading.got[1][2] - 1 + 1>>
          BY <3>1, <3>3
        <4>2. <<reading.kind, reading.got[1][2] - 1 + 1>>[1] = reading.kind
          OBVIOUS
        <4> QED BY <4>1, <4>2, Zenon
      <3>6. reading.got[i][1] = reading.kind /\ reading.got[i][2] = reading.got[1][2] - i + 1
        BY <3>4
      <3> QED BY <3>5, <3>6
    <2> QED BY <2>1, <2>2
  <1> QED BY <1>3, <1>4, <1>5, <1>6, <1>7 DEF InstagramKeepsCount

\* Instagram publishes a container once, records what happened of every request, keeps the
\* budget of every account, answers only who wrote the same day, calls with the account's own
\* token, and pages without a gap or a repeat.
THEOREM InstagramKept ==
    ASSUME InstagramConstants
    PROVE  InstagramSpec => []InstagramKeepsCount
  <1>1. InstagramInvariant => InstagramKeepsCount
    BY InstagramPromise
  <1> QED BY <1>1, InstagramInductive, PTL

-----------------------------------------------------------------------------
(* Sequences, and the one table of the vault's sending.                    *)

\* A sequence over a set is one over a wider set.
LEMMA WiderSequence ==
    ASSUME NEW S, NEW T, S \subseteq T, NEW q \in Seq(S)
    PROVE  q \in Seq(T)
  OBVIOUS

\* An element of a sequence, and one element of it replaced.
LEMMA Elements ==
    ASSUME NEW S, NEW q \in Seq(S)
    PROVE  /\ DOMAIN q = 1..Len(q) /\ Len(q) \in Nat /\ \A i \in 1..Len(q) : q[i] \in S
           /\ \A i \in 1..Len(q), e \in S :
                 [q EXCEPT ![i] = e] \in Seq(S) /\ Len([q EXCEPT ![i] = e]) = Len(q)
                 /\ \A j \in 1..Len(q) : [q EXCEPT ![i] = e][j] = IF j = i THEN e ELSE q[j]
  OBVIOUS

SendSound == SendTypes /\ AttemptsAreTrue /\ HandsAreTrue /\ PermitIsCounted

-----------------------------------------------------------------------------
(* The vault: sending.                                                     *)

\* What was approved stays approved: no envelope is taken back.
LEMMA ApprovalsLast ==
    ASSUME decisions \subseteq decisions'
    PROVE  \A i, n : Approved(i, n) => Approved(i, n)'
  BY DEF Approved, Approval

\* What a sender has in hand, by where it is.
LEMMA HandsByPlace ==
    ASSUME SendTypes, NEW s \in Senders
    PROVE  /\ sender[s] \in Hands /\ sender[s].at \in {"idle", "checked", "claimed", "answered", "granted"}
           /\ sender[s].at = "checked" => sender[s].draft \in 1..Len(drafts) /\ sender[s].nonce \in Nonces
           /\ sender[s].at \in {"claimed", "answered"} => sender[s].attempt \in 1..Len(attempts)
           /\ sender[s].at = "answered" => sender[s].answer \in SendAnswers
           /\ sender[s].at = "granted" => sender[s].seen \in 0..(MaxUses - 1)
  <1>1. sender[s] \in Hands
    BY DEF SendTypes
  <1> QED
    BY <1>1 DEF Hands

\* Nothing of the drafts and attempts moves.
LEMMA SendingKept ==
    ASSUME SendSound, UNCHANGED <<drafts, nonces, attempts, posted, candidates, sender, permits>>,
           now' \in 1..MaxNow, guard' = guard,
           device' \in [Devices -> {"NONE", "ACTIVE", "REVOKED"}],
           decisions' \subseteq [draft : 1..Len(drafts), device : Devices, decision : {"APPROVE", "REJECT"}, nonce : Nonces],
           decisions \subseteq decisions'
    PROVE  SendSound'
  <1>0. \A i, n : Approved(i, n) => Approved(i, n)'
    BY ApprovalsLast
  <1>1. SendTypes'
    BY DEF SendSound, SendTypes, Hands
  <1>2. AttemptsAreTrue'
    BY <1>0 DEF SendSound, AttemptsAreTrue
  <1>3. HandsAreTrue'
    BY <1>0 DEF SendSound, HandsAreTrue
  <1>4. PermitIsCounted'
    BY DEF SendSound, PermitIsCounted, permits
  <1> QED
    BY <1>1, <1>2, <1>3, <1>4 DEF SendSound

\* One sender lets go of what it had, or takes up something that is no attempt.
LEMMA SenderMoves ==
    ASSUME SendSound, NEW s \in Senders, NEW h \in Hands, h.at \in {"idle", "checked"},
           h.at = "checked" => Approved(h.draft, h.nonce),
           sender' = [sender EXCEPT ![s] = h], guard' \in [Senders -> 0..MaxNow],
           UNCHANGED <<now, pairing, drafting, sending, permits>>
    PROVE  SendSound'
  <1>0. \A i, n : Approved(i, n) => Approved(i, n)'
    BY ApprovalsLast DEF drafting
  <1>1. SendTypes'
    BY DEF SendSound, SendTypes, Hands, pairing, drafting, sending
  <1>2. AttemptsAreTrue'
    BY <1>0 DEF SendSound, AttemptsAreTrue, sending
  <1>3. \A t \in Senders : sender'[t] = IF t = s THEN h ELSE sender[t]
    BY DEF SendSound, SendTypes
  <1>4. HandsAreTrue'
    BY <1>0, <1>3 DEF SendSound, HandsAreTrue, sending
  <1>5. PermitIsCounted'
    BY <1>3 DEF SendSound, PermitIsCounted, permits
  <1> QED
    BY <1>1, <1>2, <1>4, <1>5 DEF SendSound

\* A draft is added at the end.
LEMMA TextsAreDrafted ==
    ASSUME SendSound, NEW d \in [body : Bodies \cup {"params"}, kind : {"text", "template"}, recipient : BOOLEAN,
                                 expires : Nat],
           Len(drafts) < MaxDrafts, drafts' = Append(drafts, d), MaxDrafts \in Nat,
           UNCHANGED <<timeVars, pairing, decisions, sending, permits, sender>>
    PROVE  SendSound'
  <1>1. Len(drafts') = Len(drafts) + 1 /\ Len(drafts) \in Nat
    BY DEF SendSound, SendTypes
  <1>2. 1..Len(drafts) \subseteq 1..Len(drafts')
    BY <1>1
  <1>3. Hands \subseteq Hands'
    BY <1>2 DEF Hands, sending
  <1>4. SendTypes'
    <2>1. sender' \in [Senders -> Hands']
      BY <1>3 DEF SendSound, SendTypes
    <2>2. attempts' \in Seq([draft : 1..Len(drafts'), nonce : Nonces, wamid : BOOLEAN,
                             state : {"SUBMITTING", "SUBMITTED", "FAILED", "INDETERMINATE"}])
      <3> DEFINE R(D) == [draft : D, nonce : Nonces, wamid : BOOLEAN, state : {"SUBMITTING", "SUBMITTED", "FAILED", "INDETERMINATE"}]
      <3>1. R(1..Len(drafts)) \subseteq R(1..Len(drafts'))
        BY <1>2
      <3>2. attempts' = attempts /\ attempts \in Seq(R(1..Len(drafts)))
        BY DEF SendSound, SendTypes, sending
      <3> HIDE DEF R
      <3>3. attempts' \in Seq(R(1..Len(drafts')))
        BY <3>1, <3>2, WiderSequence
      <3> QED
        BY <3>3 DEF R
    <2>3. decisions' \subseteq [draft : 1..Len(drafts'), device : Devices, decision : {"APPROVE", "REJECT"}, nonce : Nonces]
      BY <1>2 DEF SendSound, SendTypes
    <2> QED
      BY <1>1, <1>2, <2>1, <2>2, <2>3 DEF SendSound, SendTypes, timeVars, pairing, sending
  <1>5. \A i, n : Approved(i, n) => Approved(i, n)'
    BY ApprovalsLast
  <1>6. AttemptsAreTrue' /\ HandsAreTrue'
    BY <1>5 DEF SendSound, AttemptsAreTrue, HandsAreTrue, sending
  <1>7. PermitIsCounted'
    BY DEF SendSound, PermitIsCounted, permits
  <1> QED
    BY <1>4, <1>6, <1>7 DEF SendSound

\* The nonce and the attempt, in one commit.
LEMMA ClaimKeeps ==
    ASSUME SendSound, NEW s \in Senders, claim(s), UNCHANGED timeVars
    PROVE  SendSound'
  <1> DEFINE n == sender[s].nonce
             i == sender[s].draft
             new == _attempt(s)
  <1>0. n \in Nonces /\ i \in 1..Len(drafts) /\ Approved(i, n) /\ Len(drafts) \in Nat /\ Len(attempts) \in Nat
    <2>1. n \in Nonces /\ i \in 1..Len(drafts)
      BY HandsByPlace DEF SendSound, claim
    <2>1a. Approved(i, n)
      BY DEF SendSound, HandsAreTrue, claim
    <2>2. Len(drafts) \in Nat /\ Len(attempts) \in Nat
      BY DEF SendSound, SendTypes
    <2> QED
      BY <2>1, <2>1a, <2>2
  <1>0a. \A j, k : Approved(j, k) => Approved(j, k)'
    BY ApprovalsLast DEF claim, drafting
  <1>1. CASE n \in nonces
    <2>1. sender' = [sender EXCEPT ![s] = IdleSender] /\ UNCHANGED <<nonces, attempts>>
      BY <1>1 DEF claim
    <2>2. IdleSender \in Hands /\ IdleSender.at = "idle"
      BY DEF IdleSender, Hands
    <2>3. guard' \in [Senders -> 0..MaxNow] /\ UNCHANGED <<now, pairing, drafting, sending, permits>>
      BY <2>1 DEF claim, timeVars, sending, SendSound, SendTypes
    <2> QED
      BY <2>1, <2>2, <2>3, SenderMoves
  <1>2. CASE n \notin nonces
    <2>1. /\ nonces' = nonces \cup {n} /\ attempts' = Append(attempts, new)
          /\ sender' = [sender EXCEPT ![s] = [at |-> "claimed", attempt |-> Len(attempts) + 1]]
          /\ UNCHANGED <<now, guard, device, template, drafts, decisions, posted, candidates, permit, marked>>
      BY <1>2 DEF claim, timeVars, pairing, drafting, permits
    <2>2. new \in [draft : 1..Len(drafts), nonce : Nonces, wamid : BOOLEAN,
                   state : {"SUBMITTING", "SUBMITTED", "FAILED", "INDETERMINATE"}]
          /\ new.draft = i /\ new.nonce = n /\ new.state = "SUBMITTING"
      BY <1>0 DEF _attempt
    <2> HIDE DEF n, i, new
    <2>3. /\ Len(attempts') = Len(attempts) + 1
          /\ attempts' \in Seq([draft : 1..Len(drafts), nonce : Nonces, wamid : BOOLEAN,
                                state : {"SUBMITTING", "SUBMITTED", "FAILED", "INDETERMINATE"}])
          /\ attempts'[Len(attempts) + 1] = new /\ \A a \in 1..Len(attempts) : attempts'[a] = attempts[a]
      BY <1>0, <2>1, <2>2 DEF SendSound, SendTypes
    <2>4. Hands \subseteq Hands' /\ [at |-> "claimed", attempt |-> Len(attempts) + 1] \in Hands'
      BY <1>0, <2>1, <2>3 DEF Hands
    <2>5. SendTypes'
      <3>1. sender' \in [Senders -> Hands']
        BY <2>1, <2>4 DEF SendSound, SendTypes
      <3>2. 1..Len(attempts) \subseteq 1..Len(attempts')
        BY <1>0, <2>3
      <3> QED
        BY <1>0, <2>1, <2>3, <3>1, <3>2 DEF SendSound, SendTypes
    <2>6. \A t \in Senders : sender'[t] = IF t = s THEN [at |-> "claimed", attempt |-> Len(attempts) + 1] ELSE sender[t]
      BY <2>1 DEF SendSound, SendTypes
    <2>7. posted \subseteq 1..Len(attempts) /\ Len(attempts) + 1 \notin posted
      BY <1>0 DEF SendSound, SendTypes
    <2>8. AttemptsAreTrue'
      <3>1. \A a \in 1..Len(attempts) : attempts[a].nonce # n
        BY <1>2 DEF SendSound, AttemptsAreTrue
      <3>2. \A a \in 1..Len(attempts') : a \in 1..Len(attempts) \/ a = Len(attempts) + 1
        BY <1>0, <2>3
      <3>3. ASSUME NEW a \in 1..Len(attempts')
            PROVE  /\ attempts'[a].nonce \in nonces' /\ Approved(attempts[a].draft, attempts[a].nonce)'
                   /\ attempts'[a].state = "FAILED" => a \notin posted'
                   /\ attempts'[a].state = "SUBMITTED" => a \in posted'
        BY <1>0, <1>0a, <2>1, <2>2, <2>3, <3>2 DEF SendSound, AttemptsAreTrue
      <3>4. ASSUME NEW a \in 1..Len(attempts'), NEW b \in 1..Len(attempts'),
                   attempts'[a].nonce = attempts'[b].nonce
            PROVE  a = b
        BY <2>2, <2>3, <3>1, <3>2, <3>4 DEF SendSound, AttemptsAreTrue
      <3> QED
        BY <3>3, <3>4 DEF AttemptsAreTrue
    <2>9. HandsAreTrue'
      <3>1. \A t \in Senders : sender[t].at \in {"claimed", "answered"} => sender[t].attempt \in 1..Len(attempts)
        BY HandsByPlace DEF SendSound
      <3>2. \A t \in Senders : sender[t].at \in {"claimed", "answered"} => sender[t].attempt # Len(attempts) + 1
        BY <3>1, <1>0
      <3> QED
        BY <1>0a, <2>1, <2>2, <2>3, <2>6, <2>7, <3>1, <3>2 DEF SendSound, HandsAreTrue
    <2>10. PermitIsCounted'
      BY <2>1, <2>6 DEF SendSound, PermitIsCounted
    <2> QED
      BY <2>5, <2>8, <2>9, <2>10 DEF SendSound
  <1> QED
    BY <1>1, <1>2

\* The call: nobody else has the attempt in hand, and it was not out before.
LEMMA CallKeeps ==
    ASSUME SendSound, NEW s \in Senders, NEW sent \in BOOLEAN, NEW answer \in SendAnswers,
           send_text(s, sent, answer), UNCHANGED timeVars
    PROVE  SendSound'
  <1> DEFINE a == sender[s].attempt
  <1>0. a \in 1..Len(attempts) /\ sender[s].at = "claimed"
    BY HandsByPlace DEF SendSound, send_text
  <1>1. /\ posted' = IF sent THEN posted \cup {a} ELSE posted
        /\ sender' = [sender EXCEPT ![s] = [at |-> "answered", attempt |-> a, answer |-> answer]]
        /\ sent => answer \in {"SUBMITTED", "timeout"}
        /\ ~sent => answer \in {"connect", "error", "timeout"}
        /\ UNCHANGED <<now, guard, device, template, drafts, decisions, nonces, attempts, candidates, permit, marked>>
    BY DEF send_text, timeVars, pairing, drafting, permits
  <1>2. \A t \in Senders : sender'[t] = IF t = s THEN [at |-> "answered", attempt |-> a, answer |-> answer]
                                       ELSE sender[t]
    BY <1>1 DEF SendSound, SendTypes
  <1> HIDE DEF a
  <1>2a. \A i, n : Approved(i, n) => Approved(i, n)'
    BY <1>1, ApprovalsLast
  <1>3. SendTypes'
    <2>1. [at |-> "answered", attempt |-> a, answer |-> answer] \in Hands /\ Hands' = Hands
      BY <1>0, <1>1 DEF Hands
    <2>2. sender' \in [Senders -> Hands']
      BY <1>1, <2>1 DEF SendSound, SendTypes
    <2> QED
      BY <1>0, <1>1, <2>2 DEF SendSound, SendTypes
  <1>4. AttemptsAreTrue'
    <2>1. attempts[a].state \in {"SUBMITTING", "INDETERMINATE"}
      BY <1>0 DEF SendSound, HandsAreTrue, a
    <2> QED
      BY <1>0, <1>1, <1>2a, <2>1 DEF SendSound, AttemptsAreTrue
  <1>5. HandsAreTrue'
    <2>1. /\ a \notin posted
          /\ \A t \in Senders : sender[t].at \in {"claimed", "answered"} /\ sender[t].attempt = a => t = s
      BY <1>0 DEF SendSound, HandsAreTrue, a
    <2>2. ASSUME NEW t \in Senders
          PROVE  /\ sender'[t].at = "checked" => Approved(sender[t].draft, sender[t].nonce)'
                 /\ sender'[t].at = "claimed" =>
                      /\ sender'[t].attempt \notin posted'
                      /\ attempts'[sender'[t].attempt].state \in {"SUBMITTING", "INDETERMINATE"}
                 /\ sender'[t].at = "answered" =>
                      /\ sender'[t].answer = "SUBMITTED" => sender'[t].attempt \in posted'
                      /\ sender'[t].answer \in {"connect", "error"} => sender'[t].attempt \notin posted'
      <3>1. CASE t = s
        BY <1>1, <1>2, <2>1, <3>1
      <3>2. CASE t # s
        BY <1>1, <1>2, <1>2a, <2>1, <3>2 DEF SendSound, HandsAreTrue
      <3> QED
        BY <3>1, <3>2
    <2>3. \A t, u \in Senders :
             sender'[t].at \in {"claimed", "answered"} /\ sender'[u].at \in {"claimed", "answered"}
             /\ sender'[t].attempt = sender'[u].attempt => t = u
      <3>1. \A t, u \in Senders :
               sender[t].at \in {"claimed", "answered"} /\ sender[u].at \in {"claimed", "answered"}
               /\ sender[t].attempt = sender[u].attempt => t = u
        BY DEF SendSound, HandsAreTrue
      <3> QED
        BY <1>2, <2>1, <3>1
    <2> QED
      BY <2>2, <2>3 DEF HandsAreTrue
  <1>6. PermitIsCounted'
    BY <1>1, <1>2 DEF SendSound, PermitIsCounted
  <1> QED
    BY <1>3, <1>4, <1>5, <1>6 DEF SendSound

\* What is written into the record of an attempt that is none of the caller's hands'.
LEMMA RecordsMove ==
    ASSUME SendSound, NEW new \in Seq([draft : 1..Len(drafts), nonce : Nonces, wamid : BOOLEAN,
                                       state : {"SUBMITTING", "SUBMITTED", "FAILED", "INDETERMINATE"}]),
           Len(new) = Len(attempts), attempts' = new,
           \A a \in 1..Len(attempts) :
              /\ new[a].draft = attempts[a].draft /\ new[a].nonce = attempts[a].nonce
              /\ new[a].state = "FAILED" => a \notin posted
              /\ new[a].state = "SUBMITTED" => a \in posted
              /\ new[a].state # attempts[a].state /\ new[a].state # "INDETERMINATE" =>
                    \/ a \in posted
                    \/ \E s \in Senders : sender[s].at = "answered" /\ sender[s].attempt = a,
           candidates' \subseteq posted,
           UNCHANGED <<now, guard, device, template, drafts, decisions, nonces, posted, sender, permit, marked>>
    PROVE  SendSound'
  <1>0. Len(attempts) \in Nat
    BY DEF SendSound, SendTypes
  <1>0a. \A i, n : Approved(i, n) => Approved(i, n)'
    BY ApprovalsLast
  <1>1. SendTypes'
    <2>1. Hands' = Hands
      BY DEF Hands
    <2> QED
      BY <2>1 DEF SendSound, SendTypes
  <1>2. AttemptsAreTrue'
    BY <1>0a DEF SendSound, AttemptsAreTrue
  <1>3. HandsAreTrue'
    <2>1. ASSUME NEW s \in Senders, sender[s].at = "claimed"
          PROVE  attempts'[sender[s].attempt].state \in {"SUBMITTING", "INDETERMINATE"}
      <3>1. sender[s].attempt \in 1..Len(attempts) /\ sender[s].attempt \notin posted
            /\ attempts[sender[s].attempt].state \in {"SUBMITTING", "INDETERMINATE"}
        BY <2>1, HandsByPlace DEF SendSound, HandsAreTrue
      <3>2. ~\E t \in Senders : sender[t].at = "answered" /\ sender[t].attempt = sender[s].attempt
        BY <2>1 DEF SendSound, HandsAreTrue
      <3> QED
        BY <3>1, <3>2
    <2> QED
      BY <1>0a, <2>1 DEF SendSound, HandsAreTrue
  <1>4. PermitIsCounted'
    BY DEF SendSound, PermitIsCounted
  <1> QED
    BY <1>1, <1>2, <1>3, <1>4 DEF SendSound

\* What the answer says is what happened, unless it was lost; the sender is done.
LEMMA FinishKeeps ==
    ASSUME SendSound, NEW s \in Senders, _finish(s), UNCHANGED timeVars
    PROVE  SendSound'
  <1> DEFINE a == sender[s].attempt
             state == CASE sender[s].answer = "timeout" -> "INDETERMINATE"
                        [] sender[s].answer = "SUBMITTED" -> "SUBMITTED"
                        [] OTHER -> "FAILED"
             Attempt == [draft : 1..Len(drafts), nonce : Nonces, wamid : BOOLEAN,
                     state : {"SUBMITTING", "SUBMITTED", "FAILED", "INDETERMINATE"}]
  <1>0. a \in 1..Len(attempts) /\ sender[s].at = "answered" /\ sender[s].answer \in SendAnswers
        /\ attempts \in Seq(Attempt)
    BY HandsByPlace DEF SendSound, SendTypes, _finish
  <1> HIDE DEF Attempt
  <1>1. /\ state \in {"SUBMITTING", "SUBMITTED", "FAILED", "INDETERMINATE"}
        /\ state = "FAILED" => a \notin posted
        /\ state = "SUBMITTED" => a \in posted
    BY <1>0 DEF SendSound, HandsAreTrue, SendAnswers
  <1>2. /\ attempts' = [attempts EXCEPT ![a].state = state, ![a].wamid = IF state = "SUBMITTED" THEN TRUE ELSE @]
        /\ sender' = [sender EXCEPT ![s] = IdleSender]
        /\ UNCHANGED <<now, guard, device, template, drafts, decisions, nonces, posted, candidates, permit, marked>>
    BY DEF _finish, timeVars, pairing, drafting, permits
  <1> HIDE DEF a, state
  <1>3. \A b \in 1..Len(attempts) : attempts[b] \in Attempt
    BY <1>0, Elements
  <1> DEFINE row == [attempts[a] EXCEPT !.state = state, !.wamid = IF state = "SUBMITTED" THEN TRUE ELSE @]
  <1>3a. attempts' = [attempts EXCEPT ![a] = row]
    BY <1>0, <1>2
  <1>3b. row \in Attempt /\ row.draft = attempts[a].draft /\ row.nonce = attempts[a].nonce /\ row.state = state
    <2>1. attempts[a] \in Attempt
      BY <1>0, <1>3
    <2> QED
      BY <1>1, <2>1 DEF Attempt
  <1> HIDE DEF row
  <1>4. attempts' \in Seq(Attempt) /\ Len(attempts') = Len(attempts)
        /\ \A b \in 1..Len(attempts) : attempts'[b].draft = attempts[b].draft /\ attempts'[b].nonce = attempts[b].nonce
              /\ attempts'[b].state = IF b = a THEN state ELSE attempts[b].state
    BY <1>0, <1>3a, <1>3b, Elements
  <1>4a. \A i, n : Approved(i, n) => Approved(i, n)'
    BY <1>2, ApprovalsLast
  <1>5. SendTypes'
    <2>1. Hands' = Hands /\ IdleSender \in Hands
      BY <1>2, <1>4 DEF Hands, IdleSender
    <2> QED
      BY <1>2, <1>4, <2>1 DEF SendSound, SendTypes, Attempt
  <1>6. AttemptsAreTrue'
    BY <1>0, <1>1, <1>2, <1>4, <1>4a DEF SendSound, AttemptsAreTrue
  <1>7. \A t \in Senders : sender'[t] = IF t = s THEN IdleSender ELSE sender[t]
    BY <1>2 DEF SendSound, SendTypes
  <1>8. HandsAreTrue'
    <2>1. ASSUME NEW t \in Senders, sender'[t].at = "claimed"
          PROVE  t # s /\ sender[t].attempt # a /\ sender[t].attempt \in 1..Len(attempts) /\ sender'[t] = sender[t]
      <3>1. t # s /\ sender[t].at = "claimed" /\ sender'[t] = sender[t]
        BY <1>7, <2>1 DEF IdleSender
      <3> QED
        BY <1>0, <3>1, HandsByPlace DEF SendSound, HandsAreTrue, a
    <2> QED
      BY <1>2, <1>4, <1>4a, <1>7, <2>1 DEF SendSound, HandsAreTrue, IdleSender
  <1>9. PermitIsCounted'
    BY <1>2, <1>7 DEF SendSound, PermitIsCounted, IdleSender
  <1> QED
    BY <1>5, <1>6, <1>8, <1>9 DEF SendSound

\* A start makes an attempt in flight indeterminate, whoever makes it.
LEMMA RecoveryKeeps ==
    ASSUME SendSound, recover_startup, UNCHANGED timeVars
    PROVE  SendSound'
  <1> DEFINE Attempt == [draft : 1..Len(drafts), nonce : Nonces, wamid : BOOLEAN,
                     state : {"SUBMITTING", "SUBMITTED", "FAILED", "INDETERMINATE"}]
             settle(a) == IF attempts[a].state = "SUBMITTING" THEN [attempts[a] EXCEPT !.state = "INDETERMINATE"]
                          ELSE attempts[a]
  <1>0. attempts \in Seq(Attempt) /\ DOMAIN attempts = 1..Len(attempts) /\ Len(attempts) \in Nat
    BY DEF SendSound, SendTypes
  <1>1. attempts' = [a \in 1..Len(attempts) |-> settle(a)]
    BY <1>0 DEF recover_startup
  <1>2. ASSUME NEW a \in 1..Len(attempts)
        PROVE  settle(a) \in Attempt /\ settle(a).draft = attempts[a].draft /\ settle(a).nonce = attempts[a].nonce
               /\ settle(a).state \in {attempts[a].state, "INDETERMINATE"}
    <2> HIDE DEF Attempt
    <2>1. attempts[a] \in Attempt
      BY <1>0, Elements
    <2> QED
      BY <2>1 DEF Attempt
  <1> HIDE DEF settle
  <1>3. attempts' \in Seq(Attempt) /\ Len(attempts') = Len(attempts)
        /\ \A a \in 1..Len(attempts) : attempts'[a] = settle(a)
    BY <1>0, <1>1, <1>2
  <1>4. candidates' \subseteq posted
        /\ UNCHANGED <<now, guard, device, template, drafts, decisions, nonces, posted, sender, permit, marked>>
    BY DEF recover_startup, timeVars, pairing, drafting, permits, SendSound, SendTypes
  <1>5. \A a \in 1..Len(attempts) :
              /\ attempts'[a].draft = attempts[a].draft /\ attempts'[a].nonce = attempts[a].nonce
              /\ attempts'[a].state = "FAILED" => a \notin posted
              /\ attempts'[a].state = "SUBMITTED" => a \in posted
              /\ attempts'[a].state # attempts[a].state => attempts'[a].state = "INDETERMINATE"
    BY <1>2, <1>3 DEF SendSound, AttemptsAreTrue
  <1> QED
    BY <1>3, <1>4, <1>5, RecordsMove

\* A status webhook speaks of a message that is out.
LEMMA StatusKeeps ==
    ASSUME SendSound, NEW a, NEW named, on_status_event(a, named), UNCHANGED timeVars
    PROVE  SendSound'
  <1> DEFINE Attempt == [draft : 1..Len(drafts), nonce : Nonces, wamid : BOOLEAN,
                     state : {"SUBMITTING", "SUBMITTED", "FAILED", "INDETERMINATE"}]
  <1>0. attempts \in Seq(Attempt) /\ DOMAIN attempts = 1..Len(attempts) /\ Len(attempts) \in Nat
    BY DEF SendSound, SendTypes
  <1>1. a \in posted /\ a \in 1..Len(attempts)
        /\ UNCHANGED <<now, guard, device, template, drafts, decisions, nonces, posted, sender, permit, marked>>
    BY <1>0 DEF on_status_event, timeVars, pairing, drafting, permits
  <1>2. candidates' \subseteq posted
    BY <1>1 DEF on_status_event, SendSound, SendTypes
  <1>3. attempts' = attempts \/ attempts' = [attempts EXCEPT ![a].state = "SUBMITTED", ![a].wamid = TRUE]
    BY DEF on_status_event
  <1> DEFINE row == [attempts[a] EXCEPT !.state = "SUBMITTED", !.wamid = TRUE]
  <1> HIDE DEF Attempt
  <1>3a. attempts[a] \in Attempt
    BY <1>0, <1>1, Elements
  <1>3b. row \in Attempt /\ row.draft = attempts[a].draft /\ row.nonce = attempts[a].nonce /\ row.state = "SUBMITTED"
    BY <1>3a DEF Attempt
  <1>3c. attempts' = attempts \/ attempts' = [attempts EXCEPT ![a] = row]
    BY <1>0, <1>1, <1>3
  <1> HIDE DEF row
  <1>4. /\ attempts' \in Seq(Attempt) /\ Len(attempts') = Len(attempts)
        /\ \A b \in 1..Len(attempts) : attempts'[b].draft = attempts[b].draft /\ attempts'[b].nonce = attempts[b].nonce
              /\ (attempts'[b].state = attempts[b].state \/ (b = a /\ attempts'[b].state = "SUBMITTED"))
    <2>1. CASE attempts' = attempts
      BY <1>0, <2>1
    <2>2. CASE attempts' = [attempts EXCEPT ![a] = row]
      BY <1>0, <1>1, <1>3b, <2>2, Elements
    <2> QED
      BY <1>3c, <2>1, <2>2
  <1>5. \A b \in 1..Len(attempts) :
              /\ attempts'[b].draft = attempts[b].draft /\ attempts'[b].nonce = attempts[b].nonce
              /\ attempts'[b].state = "FAILED" => b \notin posted
              /\ attempts'[b].state = "SUBMITTED" => b \in posted
              /\ attempts'[b].state # attempts[b].state => b \in posted
    BY <1>1, <1>4 DEF SendSound, AttemptsAreTrue
  <1> QED
    BY <1>1, <1>2, <1>4, <1>5, RecordsMove DEF Attempt

\* A person takes a candidate off the list.
LEMMA ResolutionKeeps ==
    ASSUME SendSound, NEW a, resolve(a), UNCHANGED timeVars
    PROVE  SendSound'
  <1>1. UNCHANGED <<now, guard, device, template, drafts, decisions, nonces, attempts, posted, sender, permit, marked>>
        /\ candidates' \subseteq posted
    BY DEF resolve, timeVars, pairing, drafting, permits, SendSound, SendTypes
  <1>2. attempts \in Seq([draft : 1..Len(drafts), nonce : Nonces, wamid : BOOLEAN,
                     state : {"SUBMITTING", "SUBMITTED", "FAILED", "INDETERMINATE"}]) /\ Len(attempts') = Len(attempts)
    BY <1>1 DEF SendSound, SendTypes
  <1> QED
    BY <1>1, <1>2, RecordsMove DEF SendSound, AttemptsAreTrue

\* The permit to mark messages read: a use is spent for every one that is marked.
LEMMA MarkingKeeps ==
    ASSUME SendSound, MaxUses \in Nat, UNCHANGED timeVars,
           \/ \E d \in Devices : store_grant(d)
           \/ \E s \in Senders : mark_read(s) \/ verify_and_consume(s)
    PROVE  SendSound'
  <1>0. UNCHANGED <<now, guard, device, template, drafts, decisions, nonces, attempts, posted, candidates>>
    BY DEF store_grant, mark_read, verify_and_consume, timeVars, pairing, drafting, sending
  <1>0a. \A i, n : Approved(i, n) => Approved(i, n)'
    BY <1>0, ApprovalsLast
  <1>1. AttemptsAreTrue' /\ Hands' = Hands
    BY <1>0, <1>0a DEF SendSound, AttemptsAreTrue, Hands
  <1>2. ASSUME NEW s \in Senders, NEW h \in Hands, sender' = [sender EXCEPT ![s] = h], h.at \in {"idle", "granted"}
        PROVE  SendTypes' /\ HandsAreTrue' /\ \A t \in Senders : sender'[t] = IF t = s THEN h ELSE sender[t]
    <2>1. SendTypes'
      BY <1>0, <1>1, <1>2 DEF SendSound, SendTypes
    <2>2. \A t \in Senders : sender'[t] = IF t = s THEN h ELSE sender[t]
      BY <1>2 DEF SendSound, SendTypes
    <2>3. HandsAreTrue'
      BY <1>0, <1>0a, <1>2, <2>2 DEF SendSound, HandsAreTrue
    <2> QED
      BY <2>1, <2>2, <2>3
  <1>3. ASSUME NEW d \in Devices, store_grant(d)
        PROVE  SendSound'
    <2>1. permit = NoPermit /\ permit' = [device |-> d, used |-> 0] /\ UNCHANGED <<marked, sender>>
      BY <1>3 DEF store_grant
    <2>2. SendTypes' /\ HandsAreTrue'
      BY <1>0, <1>0a, <1>1, <2>1 DEF SendSound, SendTypes, HandsAreTrue
    <2>3. permit' \in [device : Devices, used : 0..MaxUses] /\ permit'.used = 0 /\ permit' # NoPermit
      BY <2>1 DEF NoPermit
    <2>4. PermitIsCounted'
      BY <2>1, <2>3 DEF SendSound, PermitIsCounted
    <2> QED
      BY <1>1, <2>2, <2>4 DEF SendSound
  <1>4. ASSUME NEW s \in Senders, mark_read(s)
        PROVE  SendSound'
    <2>1. permit # NoPermit /\ permit.used < MaxUses /\ sender' = [sender EXCEPT ![s] = [at |-> "granted", seen |-> permit.used]]
          /\ UNCHANGED <<permit, marked>>
      BY <1>4 DEF mark_read, permits
    <2>2. permit.used \in 0..(MaxUses - 1)
      BY <2>1 DEF SendSound, PermitIsCounted
    <2>3. [at |-> "granted", seen |-> permit.used] \in Hands
      BY <2>2 DEF Hands
    <2>4. SendTypes' /\ HandsAreTrue'
      BY <1>2, <2>1, <2>3
    <2>5. PermitIsCounted'
      BY <2>1 DEF SendSound, PermitIsCounted
    <2> QED
      BY <1>1, <2>4, <2>5 DEF SendSound
  <1>5. ASSUME NEW s \in Senders, verify_and_consume(s)
        PROVE  SendSound'
    <2>1. sender[s].at = "granted" /\ sender' = [sender EXCEPT ![s] = IdleSender]
          /\ IF permit.used = sender[s].seen
             THEN permit' = [permit EXCEPT !.used = @ + 1] /\ marked' = marked + 1
             ELSE UNCHANGED <<permit, marked>>
      BY <1>5 DEF verify_and_consume, permits
    <2>2. IdleSender \in Hands /\ IdleSender.at = "idle"
      BY DEF Hands, IdleSender
    <2>3. SendTypes' /\ HandsAreTrue' /\ \A t \in Senders : sender'[t] = IF t = s THEN IdleSender ELSE sender[t]
      BY <1>2, <2>1, <2>2
    <2>4. permit \in [device : Devices, used : 0..MaxUses] /\ permit # NoPermit /\ marked = permit.used
          /\ sender[s].seen \in 0..(MaxUses - 1)
      BY <2>1, HandsByPlace DEF SendSound, PermitIsCounted
    <2>5. permit' \in [device : Devices, used : 0..MaxUses] /\ marked' = permit'.used
      BY <2>1, <2>4
    <2>6. permit' # NoPermit
      BY <2>5 DEF NoPermit
    <2> QED
      BY <1>1, <2>3, <2>5, <2>6 DEF SendSound, PermitIsCounted
  <1> QED
    BY <1>3, <1>4, <1>5

\* Every step of the sending ward.
LEMMA SendingStep ==
    ASSUME VaultConstants, SendSound, window \in 0..MaxNow, upsets \in 0..MaxUpsets, Sending
    PROVE  SendSound' /\ window' \in 0..MaxNow /\ upsets' \in 0..MaxUpsets
  <1> USE DEF VaultConstants
  <1>0. now \in 1..MaxNow /\ Len(drafts) \in Nat /\ Len(drafts) <= MaxDrafts
    BY DEF SendSound, SendTypes
  <1>1. ASSUME tick \/ clock_jump
        PROVE  SendSound' /\ window' = window /\ upsets' \in 0..MaxUpsets
    <2>1. now' \in 1..MaxNow /\ guard' = guard /\ upsets' \in 0..MaxUpsets /\ UNCHANGED <<sendVars, window>>
      BY <1>0, <1>1 DEF tick, clock_jump
    <2>2. /\ UNCHANGED <<drafts, nonces, attempts, posted, candidates, sender, permits>>
          /\ device' = device /\ decisions' = decisions
      BY <2>1 DEF sendVars, pairing, drafting, sending
    <2> QED
      BY <2>1, <2>2, SendingKept DEF SendSound, SendTypes
  <1>2. ASSUME NEW s \in Senders, NEW i \in 1..MaxDrafts, NEW d \in Devices, NEW n \in Nonces, execute_write(s, i, d, n),
               UNCHANGED <<upsets, now, window>>
        PROVE  SendSound'
    <2> DEFINE h == IF device[d] = "ACTIVE" /\ evaluate(drafts[i].recipient, drafts[i].kind, drafts[i].expires) = "ok"
                    THEN [at |-> "checked", draft |-> i, nonce |-> n] ELSE IdleSender
    <2>1. Approval(i, d, n) \in decisions /\ sender' = [sender EXCEPT ![s] = h] /\ guard' = [guard EXCEPT ![s] = now]
          /\ UNCHANGED <<now, pairing, drafting, sending, permits>>
      BY <1>2 DEF execute_write
    <2>2. i \in 1..Len(drafts)
      BY <2>1 DEF SendSound, SendTypes, Approval
    <2>3. h \in Hands /\ h.at \in {"idle", "checked"}
      BY <2>2 DEF Hands, IdleSender
    <2>3a. h.at = "checked" => Approved(h.draft, h.nonce)
      BY <2>1 DEF Approved, IdleSender
    <2>4. guard' \in [Senders -> 0..MaxNow]
      BY <1>0, <2>1 DEF SendSound, SendTypes
    <2> HIDE DEF h
    <2> QED
      BY <2>1, <2>3, <2>3a, <2>4, SenderMoves
  <1>3. ASSUME NEW s \in Senders, sender_dies(s)
        PROVE  SendSound' /\ upsets' \in 0..MaxUpsets
    <2>1. /\ sender' = [sender EXCEPT ![s] = IdleSender] /\ guard' = [guard EXCEPT ![s] = 0]
          /\ upsets' \in 0..MaxUpsets /\ UNCHANGED <<now, pairing, drafting, sending, permits>>
      BY <1>3 DEF sender_dies
    <2>2. IdleSender \in Hands /\ IdleSender.at = "idle" /\ guard' \in [Senders -> 0..MaxNow]
      BY <2>1 DEF Hands, IdleSender, SendSound, SendTypes
    <2> QED
      BY <2>1, <2>2, SenderMoves
  <1>4. ASSUME UNCHANGED timeVars,
               \/ \E d \in Devices : enroll(d) \/ revoke(d)
               \/ \E state \in {"APPROVED", "PAUSED"} : upsert_from_sync(state)
               \/ \E i \in 1..MaxDrafts, d \in Devices, v \in {"APPROVE", "REJECT"}, n \in Nonces :
                     accept_envelope(i, d, v, n)
        PROVE  SendSound'
    <2>1. /\ UNCHANGED <<now, guard, drafts, nonces, attempts, posted, candidates, sender, permits>>
      BY <1>4 DEF timeVars, enroll, revoke, upsert_from_sync, accept_envelope, drafting, sending
    <2>2. device' \in [Devices -> {"NONE", "ACTIVE", "REVOKED"}]
      BY <1>4 DEF enroll, revoke, upsert_from_sync, accept_envelope, SendSound, SendTypes, pairing
    <2>3. decisions' \subseteq [draft : 1..Len(drafts), device : Devices, decision : {"APPROVE", "REJECT"}, nonce : Nonces]
      <3>1. CASE decisions' = decisions
        BY <3>1 DEF SendSound, SendTypes
      <3>2. ASSUME NEW i \in 1..MaxDrafts, NEW d \in Devices, NEW v \in {"APPROVE", "REJECT"},
                   NEW n \in Nonces, accept_envelope(i, d, v, n)
            PROVE  decisions' \subseteq [draft : 1..Len(drafts), device : Devices, decision : {"APPROVE", "REJECT"}, nonce : Nonces]
        <4>1. i \in 1..Len(drafts) /\ decisions' = decisions \cup {[draft |-> i, device |-> d, decision |-> v, nonce |-> n]}
          BY <3>2 DEF accept_envelope, SendSound, SendTypes
        <4> QED
          BY <4>1 DEF SendSound, SendTypes
      <3> QED
        BY <1>4, <3>1, <3>2 DEF enroll, revoke, upsert_from_sync, drafting
    <2>4. decisions \subseteq decisions'
      BY <1>4 DEF enroll, revoke, upsert_from_sync, accept_envelope, drafting
    <2> QED
      BY <1>0, <2>1, <2>2, <2>3, <2>4, SendingKept
  <1>5. ASSUME UNCHANGED timeVars, (\E b \in Bodies : prepare_text(b)) \/ prepare_template
        PROVE  SendSound'
    <2> DEFINE Draft == [body : Bodies \cup {"params"}, kind : {"text", "template"}, recipient : BOOLEAN, expires : Nat]
    <2>1. ASSUME NEW b \in Bodies, prepare_text(b)
          PROVE  \E d \in Draft : drafts' = Append(drafts, d)
      <3>1. [body |-> b, kind |-> "text", recipient |-> TRUE, expires |-> now + TTL] \in Draft
        BY <1>0
      <3> QED
        BY <2>1, <3>1 DEF prepare_text
    <2>2. ASSUME prepare_template
          PROVE  \E d \in Draft : drafts' = Append(drafts, d)
      <3>1. [body |-> "params", kind |-> "template", recipient |-> FALSE, expires |-> now + TTL] \in Draft
        BY <1>0
      <3> QED
        BY <2>2, <3>1 DEF prepare_template
    <2>3. Len(drafts) < MaxDrafts /\ UNCHANGED <<timeVars, pairing, decisions, sending, permits, sender>>
      BY <1>5 DEF prepare_text, prepare_template
    <2>4. PICK d \in Draft : drafts' = Append(drafts, d)
      BY <1>5, <2>1, <2>2
    <2> QED
      BY <2>3, <2>4, TextsAreDrafted
  <1>6. ASSUME UNCHANGED timeVars,
               \/ \E s \in Senders : claim(s) \/ _finish(s)
               \/ \E s \in Senders, sent \in BOOLEAN, answer \in SendAnswers : send_text(s, sent, answer)
               \/ recover_startup
               \/ \E a \in posted, named \in BOOLEAN : on_status_event(a, named)
               \/ \E a \in candidates : resolve(a)
        PROVE  SendSound'
    BY <1>6, ClaimKeeps, FinishKeeps, CallKeeps, RecoveryKeeps, StatusKeeps, ResolutionKeeps
  <1>7. ASSUME advance_window(now), UNCHANGED <<upsets, timeVars, sendVars>>
        PROVE  SendSound' /\ window' \in 0..MaxNow
    <2>1. window' \in 0..MaxNow
      BY <1>0, <1>7 DEF advance_window
    <2>2. /\ UNCHANGED <<now, guard, drafts, nonces, attempts, posted, candidates, sender, permits>>
          /\ device' = device /\ decisions' = decisions
      BY <1>7 DEF sendVars, pairing, drafting, sending, timeVars
    <2> QED
      BY <2>1, <2>2, SendingKept DEF SendSound, SendTypes
  <1> QED
    <2>1. CASE tick \/ clock_jump
      BY <1>1, <2>1
    <2>2. CASE \E s \in Senders, i \in 1..MaxDrafts, d \in Devices, n \in Nonces :
                  execute_write(s, i, d, n) /\ UNCHANGED <<upsets, now, window>>
      BY <1>2, <2>2
    <2>3. CASE \E s \in Senders : sender_dies(s) /\ UNCHANGED window
      BY <1>3, <2>3
    <2>4. CASE /\ \/ \E d \in Devices : enroll(d) \/ revoke(d)
                  \/ \E b \in Bodies : prepare_text(b)
                  \/ \E state \in {"APPROVED", "PAUSED"} : upsert_from_sync(state)
                  \/ prepare_template
                  \/ \E i \in 1..MaxDrafts, d \in Devices, v \in {"APPROVE", "REJECT"}, n \in Nonces :
                     accept_envelope(i, d, v, n)
                  \/ \E s \in Senders : claim(s) \/ _finish(s)
                  \/ \E s \in Senders, sent \in BOOLEAN, answer \in SendAnswers : send_text(s, sent, answer)
                  \/ recover_startup
                  \/ \E a \in posted, named \in BOOLEAN : on_status_event(a, named)
                  \/ \E a \in candidates : resolve(a)
               /\ UNCHANGED <<upsets, timeVars, window>>
      <3>1. UNCHANGED timeVars /\ window' = window /\ upsets' = upsets
        BY <2>4
      <3>2. SendSound'
        BY <1>4, <1>5, <1>6, <2>4, <3>1
      <3> QED
        BY <3>1, <3>2
    <2>5. CASE advance_window(now) /\ UNCHANGED <<upsets, timeVars, sendVars>>
      BY <1>7, <2>5
    <2> QED
      BY <2>1, <2>2, <2>3, <2>4, <2>5 DEF Sending, SendAnswers

-----------------------------------------------------------------------------
(* The vault: ingest.                                                      *)

Drains == [at : {"open", "atom", "after", "ack"}, batch : Seq(Range(Envelopes)),
           acks : SUBSET Range(Envelopes), healthy : BOOLEAN, atom : Nat \ {0}]

\* The newest time among some inbound messages.
LastOf(K) ==
    LET at == {Inbound[a] : a \in K} IN IF at = {} THEN 0 ELSE CHOOSE t \in at : \A u \in at : u <= t

\* The newest time is the time of one of them, or none.
LEMMA NewestTime ==
    ASSUME VaultConstants, NEW K \in SUBSET DOMAIN Inbound
    PROVE  /\ LastOf(K) \in 0..MaxNow /\ \A a \in K : Inbound[a] <= LastOf(K)
           /\ LastOf(K) = 0 \/ \E a \in K : Inbound[a] = LastOf(K)
  <1> DEFINE e == LastOf(K)
             at == {Inbound[a] : a \in K}
             newest == CHOOSE t \in at : \A u \in at : u <= t
  <1>1. at \in SUBSET (0..MaxNow) /\ MaxNow \in Nat
    BY DEF VaultConstants
  <1>2. e = IF at = {} THEN 0 ELSE newest
    BY DEF LastOf
  <1>3. at # {} => newest \in at /\ \A u \in at : u <= newest
    <2> HIDE DEF at
    <2> QED
      BY <1>1, Newest
  <1>4. \A a \in K : Inbound[a] \in at
    OBVIOUS
  <1>5. \A t \in at : \E a \in K : Inbound[a] = t
    OBVIOUS
  <1>5a. LastOf(K) = e
    OBVIOUS
  <1> HIDE DEF e, at, newest
  <1>6. CASE at = {}
    BY <1>1, <1>2, <1>4, <1>5a, <1>6
  <1>7. CASE at # {}
    <2>1. e \in at /\ \A u \in at : u <= e
      BY <1>2, <1>3, <1>7
    <2> QED
      BY <1>1, <1>4, <1>5, <1>5a, <2>1
  <1> QED
    BY <1>6, <1>7

\* What is kept stays, so the evidence does not go back.
LEMMA EvidenceGrows ==
    ASSUME VaultConstants, \A a \in DOMAIN Inbound : rows[a] > 0 => rows'[a] > 0
    PROVE  /\ Evidence \in 0..MaxNow /\ Evidence' \in 0..MaxNow /\ Evidence <= Evidence'
           /\ \A a \in DOMAIN Inbound : rows[a] > 0 => Inbound[a] <= Evidence
  <1>1. /\ Evidence \in 0..MaxNow
        /\ \A a \in DOMAIN Inbound : rows[a] > 0 => Inbound[a] <= Evidence
        /\ Evidence = 0 \/ \E a \in DOMAIN Inbound : rows[a] > 0 /\ Inbound[a] = Evidence
    <2> DEFINE K == {x \in DOMAIN Inbound : rows[x] > 0}
    <2>1. Evidence = LastOf(K)
      BY DEF Evidence, LastOf
    <2>2. K \in SUBSET DOMAIN Inbound /\ \A x \in DOMAIN Inbound : x \in K <=> rows[x] > 0
      OBVIOUS
    <2> HIDE DEF K
    <2>3. Evidence \in 0..MaxNow /\ (\A a \in K : Inbound[a] <= Evidence)
          /\ (Evidence = 0 \/ \E a \in K : Inbound[a] = Evidence)
      BY <2>1, <2>2, NewestTime
    <2> QED
      BY <2>2, <2>3
  <1>2. /\ Evidence' \in 0..MaxNow
        /\ \A a \in DOMAIN Inbound : rows'[a] > 0 => Inbound[a] <= Evidence'
    <2> DEFINE K == {x \in DOMAIN Inbound : rows'[x] > 0}
    <2>1. Evidence' = LastOf(K)
      BY DEF Evidence, LastOf
    <2>2. K \in SUBSET DOMAIN Inbound /\ \A x \in DOMAIN Inbound : x \in K <=> rows'[x] > 0
      OBVIOUS
    <2> HIDE DEF K
    <2>3. Evidence' \in 0..MaxNow /\ \A a \in K : Inbound[a] <= Evidence'
      BY <2>1, <2>2, NewestTime
    <2> QED
      BY <2>2, <2>3
  <1> QED
    BY <1>1, <1>2

\* The envelopes are finitely many.
LEMMA EnvelopesAreFinite ==
    ASSUME VaultConstants
    PROVE  IsFiniteSet(Range(Envelopes))
  <1>1. Envelopes \in Surjection(1..Len(Envelopes), Range(Envelopes)) /\ Len(Envelopes) \in Nat
    <2>1. DOMAIN Envelopes = 1..Len(Envelopes) /\ Len(Envelopes) \in Nat
          /\ Envelopes \in [1..Len(Envelopes) -> DOMAIN Holds]
      BY LenProperties DEF VaultConstants
    <2> QED
      BY <2>1 DEF Surjection, Range
  <1> QED
    BY <1>1, FS_Interval, FS_Surjection

\* The queue and the drain move; the store and the window do not.
LEMMA QueueMoves ==
    ASSUME StoreSound, UNCHANGED <<ward, storeVars, window>>,
           pending' \in Seq(Range(Envelopes)), leased' \subseteq Range(Envelopes), acked' \subseteq Range(Envelopes),
           \A m \in acked' : m \in acked \/ Settled(m),
           circuit' \in {"OPEN", "CLOSED"}, keyring' \in {"good", "absent", "wrong"}
    PROVE  StoreSound' /\ \A m : Settled(m)' <=> Settled(m)
  <1>1. \A m : Settled(m)' <=> Settled(m)
    BY DEF Settled, storeVars
  <1>2. Evidence' = Evidence
    BY DEF Evidence, storeVars
  <1> QED
    BY <1>1, <1>2 DEF StoreSound, storeVars

\* What the drain has at the end of one envelope: settled with an acknowledgement due, or handed back.
LEMMA NextEnvelope ==
    ASSUME DrainIsTrue, drain # IdleDrain, drain.batch # <<>>
    PROVE  /\ Here \in Range(Envelopes)
           /\ settled \in Drains /\ settled.acks = drain.acks \cup {Here} /\ settled.healthy = drain.healthy
           /\ settled.at \in {"open", "ack"} /\ (settled.at = "open" => settled.batch # <<>>)
           /\ nacked \in Drains /\ nacked.acks = drain.acks /\ nacked.healthy = drain.healthy
           /\ nacked.at \in {"open", "ack"} /\ (nacked.at = "open" => nacked.batch # <<>>)
  <1> DEFINE E == Range(Envelopes)
  <1>1. drain \in Drains /\ drain.batch \in Seq(E)
    BY DEF DrainIsTrue, Drains
  <1> HIDE DEF E
  <1>2. Here \in E /\ Tail(drain.batch) \in Seq(E) /\ (Len(drain.batch) # 1 => Tail(drain.batch) # <<>>)
    <2>1. drain.batch # <<>> /\ drain.batch \in Seq(E)
      BY <1>1
    <2>2. Len(drain.batch) \in Nat \ {0}
      BY <2>1, EmptySeq
    <2>3. Tail(drain.batch) \in Seq(E) /\ Len(Tail(drain.batch)) = Len(drain.batch) - 1
      BY <2>1, HeadTailProperties
    <2>4. drain.batch[1] \in E
      BY <2>1, <2>2, ElementOfSeq
    <2>5. Len(drain.batch) # 1 => Len(Tail(drain.batch)) # 0
      BY <2>2, <2>3
    <2>6. Tail(drain.batch) = <<>> => Len(Tail(drain.batch)) = 0
      BY <2>3, EmptySeq, Zenon
    <2> QED
      BY <2>3, <2>4, <2>5, <2>6 DEF Here
  <1>3. settled \in Drains /\ nacked \in Drains
    BY <1>1, <1>2 DEF settled, nacked, Drains, E
  <1>4. /\ settled.acks = drain.acks \cup {Here} /\ settled.healthy = drain.healthy
        /\ settled.at = (IF Len(drain.batch) = 1 THEN "ack" ELSE "open") /\ settled.batch = Tail(drain.batch)
        /\ nacked.acks = drain.acks /\ nacked.healthy = drain.healthy
        /\ nacked.at = (IF Len(drain.batch) = 1 THEN "ack" ELSE "open") /\ nacked.batch = Tail(drain.batch)
    BY <1>1 DEF settled, nacked, Drains
  <1> QED
    BY <1>2, <1>3, <1>4 DEF E

\* A drain between two envelopes.
LEMMA DrainMoves ==
    ASSUME NEW d \in Drains, d.at \in {"open", "ack"}, d.at = "open" => d.batch # <<>>,
           d.healthy => keyring' = "good", \A m \in d.acks : Settled(m)', drain' = d
    PROVE  DrainIsTrue'
  BY DEF DrainIsTrue, Drains

\* The drain at another atom.
LEMMA AtomTaken ==
    ASSUME NEW d \in Drains, NEW n \in Nat \ {0}, drain' = [d EXCEPT !.at = "atom", !.atom = n]
    PROVE  /\ drain' \in Drains /\ drain'.at = "atom" /\ drain'.acks = d.acks /\ drain'.batch = d.batch
           /\ drain'.healthy = d.healthy /\ drain'.atom = n
  BY DEF Drains

\* An envelope goes back to the end of the queue.
LEMMA NackTypes ==
    ASSUME StoreSound, NEW m \in Range(Envelopes), nack(m)
    PROVE  pending' \in Seq(Range(Envelopes)) /\ leased' \subseteq Range(Envelopes)
  <1> DEFINE E == Range(Envelopes)
  <1>1. pending \in Seq(E) /\ leased \subseteq E /\ m \in E
    BY DEF StoreSound
  <1> HIDE DEF E
  <1>2. pending' \in Seq(E) /\ leased' \subseteq E
    BY <1>1 DEF nack
  <1> QED
    BY <1>2 DEF E

\* What the queue does on its own, and the consumer's end.
LEMMA QueueKeeps ==
    ASSUME VaultConstants, StoreSound, DrainIsTrue, UNCHANGED ward, upsets \in 0..MaxUpsets,
           add \/ drain_once \/ ack \/ consumer_dies \/ reset
           \/ (\E m \in Range(Envelopes) : lease_lapses(m)) \/ (\E k \in {"good", "absent", "wrong"} : set_keyring(k))
    PROVE  StoreSound' /\ DrainIsTrue' /\ window' = window /\ upsets' \in 0..MaxUpsets
  <1> DEFINE E == Range(Envelopes)
  <1>1. /\ pending \in Seq(E) /\ leased \subseteq E /\ acked \subseteq E
        /\ circuit \in {"OPEN", "CLOSED"} /\ keyring \in {"good", "absent", "wrong"}
    BY DEF StoreSound
  <1>2. ASSUME UNCHANGED <<storeVars, window, drain, keyring>>
        PROVE  (\A m : Settled(m)' <=> Settled(m)) => DrainIsTrue'
    BY <1>2 DEF DrainIsTrue, Here, Atom, storeVars
  <1>3. ASSUME add
        PROVE  StoreSound' /\ DrainIsTrue' /\ window' = window /\ upsets' \in 0..MaxUpsets
    <2> DEFINE seen == Cardinality(leased \cup acked \cup Range(pending))
    <2>1. seen \in Nat
      <3>1. Range(pending) \subseteq E
        BY <1>1, ElementOfSeq, LenProperties DEF Range
      <3>2. IsFiniteSet(leased \cup acked \cup Range(pending))
        BY <1>1, <3>1, EnvelopesAreFinite, FS_Subset
      <3> QED
        BY <3>2, FS_CardinalityType
    <2>2. seen < Len(Envelopes) /\ pending' = Append(pending, Envelopes[seen + 1])
          /\ UNCHANGED <<upsets, leased, acked, circuit, keyring, drain, storeVars, window>>
      BY <1>3 DEF add
    <2>3. DOMAIN Envelopes = 1..Len(Envelopes) /\ Len(Envelopes) \in Nat
      BY LenProperties DEF VaultConstants
    <2> HIDE DEF seen
    <2>4. Envelopes[seen + 1] \in E
      BY <2>1, <2>2, <2>3 DEF Range
    <2> HIDE DEF E
    <2>5. pending' \in Seq(E)
      BY <1>1, <2>2, <2>4
    <2> QED
      BY <1>1, <1>2, <2>2, <2>5, QueueMoves DEF E
  <1>4. ASSUME drain_once
        PROVE  StoreSound' /\ DrainIsTrue' /\ window' = window /\ upsets' \in 0..MaxUpsets
    <2> DEFINE n == IF Len(pending) < Lease THEN Len(pending) ELSE Lease
               batch == SubSeq(pending, 1, n)
               d == [at |-> "open", batch |-> batch, acks |-> {}, healthy |-> FALSE, atom |-> 1]
    <2>1. /\ pending # <<>> /\ leased' = leased \cup Range(batch) /\ pending' = SubSeq(pending, n + 1, Len(pending))
          /\ drain' = d /\ UNCHANGED <<upsets, acked, circuit, keyring, storeVars, window>>
      BY <1>4 DEF drain_once
    <2>2. Len(pending) \in Nat \ {0} /\ Lease \in Nat \ {0}
      BY <1>1, <2>1, EmptySeq DEF VaultConstants
    <2>3. n \in 1..Len(pending)
      BY <2>2
    <2> HIDE DEF n, E
    <2>4. \A i \in 1..Len(pending) : pending[i] \in E
      BY <1>1, ElementOfSeq
    <2>5. batch \in Seq(E) /\ Len(batch) = n
      BY <1>1, <2>2, <2>3, <2>4, SubSeqProperties
    <2>6. pending' \in Seq(E)
      BY <1>1, <2>1, <2>2, <2>3, <2>4, SubSeqProperties
    <2> HIDE DEF batch
    <2>7. Range(batch) \subseteq E /\ batch # <<>>
      BY <2>3, <2>5, ElementOfSeq, LenProperties, EmptySeq DEF Range
    <2>8. d \in Drains
      BY <2>5 DEF Drains, E
    <2>9. StoreSound'
      BY <1>1, <2>1, <2>6, <2>7, QueueMoves DEF E
    <2>10. DrainIsTrue'
      BY <2>1, <2>7, <2>8, DrainMoves
    <2> QED
      BY <2>1, <2>9, <2>10
  <1>5. ASSUME ack
        PROVE  StoreSound' /\ DrainIsTrue' /\ window' = window /\ upsets' \in 0..MaxUpsets
    <2>1. /\ drain # IdleDrain /\ acked' = acked \cup drain.acks /\ leased' = leased \ drain.acks /\ drain' = IdleDrain
          /\ UNCHANGED <<upsets, pending, circuit, keyring, storeVars, window>>
      BY <1>5 DEF ack, IdleDrain
    <2>2. drain.acks \subseteq E /\ \A m \in drain.acks : Settled(m)
      BY <2>1 DEF DrainIsTrue
    <2>3. StoreSound'
      BY <1>1, <2>1, <2>2, QueueMoves
    <2> QED
      BY <2>1, <2>3 DEF DrainIsTrue
  <1>6. ASSUME consumer_dies
        PROVE  StoreSound' /\ DrainIsTrue' /\ window' = window /\ upsets' \in 0..MaxUpsets
    <2>1. /\ upsets' \in 0..MaxUpsets /\ drain' = IdleDrain
          /\ UNCHANGED <<pending, leased, acked, circuit, keyring, storeVars, window>>
      BY <1>6 DEF consumer_dies, VaultConstants
    <2> QED
      BY <1>1, <2>1, QueueMoves DEF DrainIsTrue
  <1>7. ASSUME reset \/ \E k \in {"good", "absent", "wrong"} : set_keyring(k)
        PROVE  StoreSound' /\ DrainIsTrue' /\ window' = window /\ upsets' \in 0..MaxUpsets
    <2>1. /\ upsets' \in 0..MaxUpsets /\ drain = IdleDrain /\ drain' = drain
          /\ circuit' \in {"OPEN", "CLOSED"} /\ keyring' \in {"good", "absent", "wrong"}
          /\ UNCHANGED <<pending, leased, acked, storeVars, window>>
      BY <1>1, <1>7 DEF reset, set_keyring, VaultConstants
    <2> QED
      BY <1>1, <2>1, QueueMoves DEF DrainIsTrue
  <1>8. ASSUME NEW m \in Range(Envelopes), lease_lapses(m)
        PROVE  StoreSound' /\ DrainIsTrue' /\ window' = window /\ upsets' \in 0..MaxUpsets
    <2>1. nack(m) /\ UNCHANGED <<upsets, acked, circuit, keyring, drain, storeVars, window>>
      BY <1>8 DEF lease_lapses
    <2>2. pending' \in Seq(E) /\ leased' \subseteq E
      BY <2>1, NackTypes
    <2> QED
      BY <1>1, <1>2, <2>1, <2>2, QueueMoves
  <1> QED
    BY <1>3, <1>4, <1>5, <1>6, <1>7, <1>8

\* Poison and envelopes that cannot be opened, and the ones that can.
LEMMA OpeningKeeps ==
    ASSUME VaultConstants, StoreSound, DrainIsTrue, UNCHANGED ward,
           quarantine \/ key_unavailable \/ trip \/ opened
    PROVE  StoreSound' /\ DrainIsTrue' /\ window' = window /\ upsets' = upsets
  <1>0. /\ drain.at = "open" /\ drain # IdleDrain /\ drain.batch # <<>> /\ drain \in Drains
        /\ \A m \in drain.acks : Settled(m)
        /\ drain.healthy => keyring = "good"
    BY DEF quarantine, key_unavailable, trip, opened, IdleDrain, DrainIsTrue, Drains
  <1>1. /\ pending \in Seq(Range(Envelopes)) /\ leased \subseteq Range(Envelopes) /\ acked \subseteq Range(Envelopes)
        /\ circuit \in {"OPEN", "CLOSED"} /\ keyring \in {"good", "absent", "wrong"}
    BY DEF StoreSound
  <1>2. Here \in Range(Envelopes) /\ Holds[Here] \in Seq(Atoms)
    BY <1>0, NextEnvelope DEF VaultConstants
  <1>3. ASSUME quarantine
        PROVE  StoreSound' /\ DrainIsTrue' /\ window' = window /\ upsets' = upsets
    <2>1. /\ quarantined' = quarantined \cup {Here} /\ drain' = settled
          /\ UNCHANGED <<upsets, pending, leased, acked, circuit, keyring, ledger, rows, indexed, window>>
      BY <1>3 DEF quarantine
    <2>2. Quality[Here] # "sound"
      <3>1. open_sealed \in {"POISON_MALFORMED", "AEAD_AUTH_FAILED_ISOLATED"}
        BY <1>3 DEF quarantine
      <3>2. CASE open_sealed = "POISON_MALFORMED"
        BY <3>2 DEF open_sealed
      <3>3. CASE open_sealed = "AEAD_AUTH_FAILED_ISOLATED"
        <4>1. drain.healthy /\ (Quality[Here] = "aead" \/ keyring = "wrong")
          BY <3>3 DEF open_sealed
        <4> QED
          BY <1>0, <4>1
      <3> QED
        BY <3>1, <3>2, <3>3
    <2>3. \A m : Settled(m) \/ m = Here => Settled(m)'
      BY <2>1 DEF Settled
    <2>4. Evidence' = Evidence
      BY <2>1 DEF Evidence
    <2>5. StoreSound'
      <3>1. \A m \in quarantined' : Quality[m] # "sound"
        BY <2>1, <2>2 DEF StoreSound
      <3>2. \A m \in acked' : Settled(m)'
        BY <2>1, <2>3 DEF StoreSound
      <3> QED
        BY <2>1, <2>4, <3>1, <3>2 DEF StoreSound
    <2>6. DrainIsTrue'
      <3>1. /\ settled \in Drains /\ settled.acks = drain.acks \cup {Here} /\ settled.healthy = drain.healthy
            /\ settled.at \in {"open", "ack"} /\ (settled.at = "open" => settled.batch # <<>>)
        BY <1>0, NextEnvelope
      <3>2. \A m \in settled.acks : Settled(m)'
        BY <1>0, <2>3, <3>1
      <3> QED
        BY <1>0, <2>1, <3>1, <3>2, DrainMoves
    <2> QED
      BY <2>1, <2>5, <2>6
  <1>4. ASSUME key_unavailable
        PROVE  StoreSound' /\ DrainIsTrue' /\ window' = window /\ upsets' = upsets
    <2>1. /\ nack(Here) /\ drain' = nacked /\ UNCHANGED <<upsets, acked, circuit, keyring, storeVars, window>>
      BY <1>4 DEF key_unavailable
    <2>2. StoreSound' /\ \A m : Settled(m)' <=> Settled(m)
      BY <1>1, <1>2, <2>1, NackTypes, QueueMoves
    <2>3. DrainIsTrue'
      BY <1>0, <2>1, <2>2, NextEnvelope, DrainMoves
    <2> QED
      BY <2>1, <2>2, <2>3
  <1>5. ASSUME trip
        PROVE  StoreSound' /\ DrainIsTrue' /\ window' = window /\ upsets' = upsets
    <2>1. /\ circuit' = "OPEN" /\ drain' = [drain EXCEPT !.at = "ack"]
          /\ UNCHANGED <<upsets, pending, leased, acked, keyring, storeVars, window>>
      BY <1>5 DEF trip
    <2>2. StoreSound' /\ \A m : Settled(m)' <=> Settled(m)
      BY <1>1, <2>1, QueueMoves
    <2>3. /\ [drain EXCEPT !.at = "ack"] \in Drains /\ [drain EXCEPT !.at = "ack"].at = "ack"
          /\ [drain EXCEPT !.at = "ack"].acks = drain.acks /\ [drain EXCEPT !.at = "ack"].healthy = drain.healthy
      BY <1>0 DEF Drains
    <2>4. DrainIsTrue'
      BY <1>0, <2>1, <2>2, <2>3, DrainMoves
    <2> QED
      BY <2>1, <2>2, <2>4
  <1>6. ASSUME opened
        PROVE  StoreSound' /\ DrainIsTrue' /\ window' = window /\ upsets' = upsets
    <2>1. /\ drain' = IF Holds[Here] = <<>> THEN [settled EXCEPT !.healthy = TRUE]
                      ELSE [drain EXCEPT !.at = "atom", !.healthy = TRUE, !.atom = 1]
          /\ UNCHANGED <<upsets, pending, leased, acked, circuit, keyring, storeVars, window>>
      BY <1>6 DEF opened
    <2>2. StoreSound' /\ \A m : Settled(m)' <=> Settled(m)
      BY <1>1, <2>1, QueueMoves
    <2>3. keyring' = "good"
      BY <1>1, <1>6, <2>1 DEF opened, open_sealed
    <2>4. CASE Holds[Here] = <<>>
      <3> DEFINE d == [settled EXCEPT !.healthy = TRUE]
      <3>1. settled \in Drains /\ settled.acks = drain.acks \cup {Here}
            /\ settled.at \in {"open", "ack"} /\ (settled.at = "open" => settled.batch # <<>>)
        BY <1>0, NextEnvelope
      <3>2. d \in Drains /\ d.acks = settled.acks /\ d.at = settled.at /\ d.batch = settled.batch
        BY <3>1 DEF Drains
      <3>3. Settled(Here)
        BY <2>4, EmptySeq DEF Settled, Range
      <3>4. drain' = d
        BY <2>1, <2>4
      <3> HIDE DEF d
      <3>5. DrainIsTrue'
        BY <1>0, <2>2, <2>3, <3>1, <3>2, <3>3, <3>4, DrainMoves
      <3> QED
        BY <2>1, <2>2, <3>5
    <2>5. CASE Holds[Here] # <<>>
      <3>1. drain' = [[drain EXCEPT !.healthy = TRUE] EXCEPT !.at = "atom", !.atom = 1]
        BY <2>1, <2>5
      <3>2. /\ drain' \in Drains /\ drain'.at = "atom" /\ drain'.acks = drain.acks /\ drain'.batch = drain.batch
            /\ drain'.atom = 1
        <4> DEFINE d == [drain EXCEPT !.healthy = TRUE]
        <4>1. d \in Drains /\ d.acks = drain.acks /\ d.batch = drain.batch
          BY <1>0 DEF Drains
        <4>2. drain' = [d EXCEPT !.at = "atom", !.atom = 1]
          BY <3>1
        <4>3. 1 \in Nat \ {0}
          OBVIOUS
        <4> HIDE DEF d
        <4> QED
          BY <4>1, <4>2, <4>3, AtomTaken
      <3>3. Len(Holds[Here]) >= 1
        BY <1>2, <2>5, EmptySeq
      <3>4. Here' = Here
        BY <3>2 DEF Here
      <3>5. DrainIsTrue'
        BY <1>0, <2>2, <2>3, <3>2, <3>3, <3>4 DEF DrainIsTrue, Drains
      <3> QED
        BY <2>1, <2>2, <3>5
    <2> QED
      BY <2>4, <2>5
  <1> QED
    BY <1>3, <1>4, <1>5, <1>6

\* When the atom at hand is on record: the drain goes on to the next, or settles the envelope.
LEMMA NextAtom ==
    ASSUME VaultConstants, DrainIsTrue, drain # IdleDrain, drain.at \in {"atom", "after"}, drain' = next_atom,
           \A m : Settled(m) => Settled(m)', ledger \subseteq ledger', Atom \in ledger', keyring' = keyring
    PROVE  DrainIsTrue'
  <1>0. /\ drain \in Drains /\ drain.batch # <<>>
        /\ \A m \in drain.acks : Settled(m)
        /\ drain.healthy => keyring = "good"
        /\ drain.atom <= Len(Holds[Here])
        /\ \A j \in 1..(drain.atom - 1) : Holds[Here][j] \in ledger
    BY DEF DrainIsTrue, Drains
  <1>1. drain.atom \in Nat \ {0} /\ Here \in Range(Envelopes) /\ Holds[Here] \in Seq(Atoms) /\ Len(Holds[Here]) \in Nat
    BY <1>0, NextEnvelope, LenProperties DEF VaultConstants, Drains
  <1>2. \A j \in 1..drain.atom : Holds[Here][j] \in ledger'
    BY <1>0, <1>1 DEF Atom
  <1>3. CASE drain.atom = Len(Holds[Here])
    <2>1. drain' = settled
      BY <1>3 DEF next_atom
    <2>2. \A m : m = Here => Settled(m)'
      <3>1. DOMAIN Holds[Here] = 1..Len(Holds[Here])
        BY <1>1, LenProperties
      <3>2. Range(Holds[Here]) \subseteq ledger'
        BY <1>2, <1>3, <3>1 DEF Range
      <3> QED
        BY <3>2 DEF Settled
    <2>3. /\ settled \in Drains /\ settled.acks = drain.acks \cup {Here} /\ settled.healthy = drain.healthy
          /\ settled.at \in {"open", "ack"} /\ (settled.at = "open" => settled.batch # <<>>)
      BY <1>0, NextEnvelope
    <2>4. \A m \in settled.acks : Settled(m)'
      BY <1>0, <2>2, <2>3
    <2> QED
      BY <1>0, <2>1, <2>3, <2>4, DrainMoves
  <1>4. CASE drain.atom # Len(Holds[Here])
    <2>1. drain' = [drain EXCEPT !.at = "atom", !.atom = @ + 1]
      BY <1>4 DEF next_atom
    <2>2. /\ drain' \in Drains /\ drain'.at = "atom" /\ drain'.acks = drain.acks /\ drain'.batch = drain.batch
          /\ drain'.healthy = drain.healthy /\ drain'.atom = drain.atom + 1
      <3>1. drain.atom + 1 \in Nat \ {0}
        BY <1>1
      <3>2. drain' = [drain EXCEPT !.at = "atom", !.atom = drain.atom + 1]
        BY <2>1
      <3> QED
        BY <1>0, <3>1, <3>2, AtomTaken
    <2>3. Here' = Here
      BY <2>2 DEF Here
    <2>4. drain'.atom <= Len(Holds[Here]) /\ \A j \in 1..(drain'.atom - 1) : Holds[Here][j] \in ledger'
      BY <1>0, <1>1, <1>2, <1>4, <2>2
    <2> QED
      BY <1>0, <2>2, <2>3, <2>4 DEF DrainIsTrue, Drains
  <1> QED
    BY <1>3, <1>4

\* The commit, the work after it, and the failure between the two.
LEMMA PayloadKeeps ==
    ASSUME VaultConstants, StoreSound, DrainIsTrue, UNCHANGED ward, ward = "ingest", window \in 0..MaxNow,
           upsets \in 0..MaxUpsets,
           _process_payload \/ (\E ok \in BOOLEAN : after_commit(ok)) \/ transient
    PROVE  StoreSound' /\ DrainIsTrue' /\ window' \in 0..MaxNow /\ upsets' \in 0..MaxUpsets
  <1>0. /\ drain # IdleDrain /\ drain.at \in {"atom", "after"} /\ drain.batch # <<>> /\ drain \in Drains
        /\ drain.atom <= Len(Holds[Here])
        /\ drain.at = "after" => Atom \in ledger /\ Atom \in DOMAIN Inbound
    BY DEF _process_payload, after_commit, transient, IdleDrain, DrainIsTrue, Drains
  <1>1. /\ pending \in Seq(Range(Envelopes)) /\ leased \subseteq Range(Envelopes) /\ acked \subseteq Range(Envelopes)
        /\ ledger \subseteq Atoms /\ rows = [a \in Atoms |-> IF a \in ledger THEN 1 ELSE 0]
        /\ circuit \in {"OPEN", "CLOSED"} /\ keyring \in {"good", "absent", "wrong"} /\ window <= Evidence
    BY DEF StoreSound
  <1>2. Here \in Range(Envelopes) /\ Atom \in Atoms
    <2>1. Here \in Range(Envelopes) /\ Holds[Here] \in Seq(Atoms) /\ drain.atom \in Nat \ {0}
      BY <1>0, NextEnvelope DEF VaultConstants, Drains
    <2>2. drain.atom \in 1..Len(Holds[Here])
      BY <1>0, <2>1, LenProperties
    <2> QED
      BY <2>1, <2>2, ElementOfSeq DEF Atom
  <1>3. ASSUME _process_payload
        PROVE  StoreSound' /\ DrainIsTrue' /\ window' \in 0..MaxNow /\ upsets' \in 0..MaxUpsets
    <2>1. /\ drain.at = "atom" /\ _apply_rows(Atom)
          /\ drain' = (IF Atom \notin ledger /\ Atom \in DOMAIN Inbound THEN [drain EXCEPT !.at = "after"] ELSE next_atom)
          /\ UNCHANGED <<upsets, pending, leased, acked, circuit, keyring, indexed, quarantined, window>>
      BY <1>3 DEF _process_payload
    <2>2. ledger' = ledger \cup {Atom} /\ rows' = [a \in Atoms |-> IF a \in ledger' THEN 1 ELSE 0]
      <3>1. CASE Atom \in ledger
        BY <1>1, <2>1, <3>1 DEF _apply_rows
      <3>2. CASE Atom \notin ledger
        BY <1>1, <1>2, <2>1, <3>2 DEF _apply_rows
      <3> QED
        BY <3>1, <3>2
    <2>3. \A m : Settled(m) => Settled(m)'
      BY <2>1, <2>2 DEF Settled
    <2>4. Evidence \in 0..MaxNow /\ Evidence' \in 0..MaxNow /\ Evidence <= Evidence'
      <3>1. \A a \in DOMAIN Inbound : rows[a] > 0 => rows'[a] > 0
        BY <1>1, <2>2 DEF VaultConstants
      <3> QED
        BY <3>1, EvidenceGrows
    <2>5. StoreSound'
      <3>1. \A m \in acked' : Settled(m)'
        BY <2>1, <2>3 DEF StoreSound
      <3>2. window' <= Evidence'
        BY <1>1, <2>1, <2>4
      <3>3. ledger' \subseteq Atoms
        BY <1>1, <1>2, <2>2
      <3> QED
        BY <2>1, <2>2, <3>1, <3>2, <3>3 DEF StoreSound
    <2>6. DrainIsTrue'
      <3>1. CASE Atom \notin ledger /\ Atom \in DOMAIN Inbound
        <4>1. drain' = [drain EXCEPT !.at = "after"]
          BY <2>1, <3>1
        <4>2. /\ drain' \in Drains /\ drain'.at = "after" /\ drain'.acks = drain.acks /\ drain'.batch = drain.batch
              /\ drain'.healthy = drain.healthy /\ drain'.atom = drain.atom
          BY <1>0, <4>1 DEF Drains
        <4>3. Here' = Here /\ Atom' = Atom
          BY <4>2 DEF Here, Atom
        <4>4. /\ \A m \in drain.acks : Settled(m)
              /\ drain.healthy => keyring = "good"
              /\ \A j \in 1..(drain.atom - 1) : Holds[Here][j] \in ledger
          BY <1>0 DEF DrainIsTrue, Drains
        <4> QED
          BY <1>0, <2>1, <2>2, <2>3, <3>1, <4>2, <4>3, <4>4 DEF DrainIsTrue, Drains
      <3>2. CASE ~(Atom \notin ledger /\ Atom \in DOMAIN Inbound)
        BY <1>0, <2>1, <2>2, <2>3, <3>2, NextAtom
      <3> QED
        BY <3>1, <3>2
    <2> QED
      BY <2>1, <2>5, <2>6
  <1>4. ASSUME NEW ok \in BOOLEAN, after_commit(ok)
        PROVE  StoreSound' /\ DrainIsTrue' /\ window' \in 0..MaxNow /\ upsets' \in 0..MaxUpsets
    <2>1. /\ drain.at = "after" /\ advance_window(Inbound[Atom]) /\ drain' = next_atom
          /\ indexed' = (IF ok THEN indexed \cup {Atom} ELSE indexed)
          /\ UNCHANGED <<upsets, pending, leased, acked, circuit, keyring, ledger, rows, quarantined>>
      BY <1>4 DEF after_commit
    <2>2. \A m : Settled(m)' <=> Settled(m)
      BY <2>1 DEF Settled
    <2>3. Evidence' = Evidence
      BY <2>1 DEF Evidence
    <2>4. Evidence \in 0..MaxNow /\ Inbound[Atom] <= Evidence /\ Inbound[Atom] \in 0..MaxNow
      <3>1. \A a \in DOMAIN Inbound : rows[a] > 0 => rows'[a] > 0
        BY <2>1
      <3>2. rows[Atom] > 0 /\ Atom \in DOMAIN Inbound
        BY <1>0, <1>1, <1>2, <2>1
      <3>3. Evidence \in 0..MaxNow /\ \A a \in DOMAIN Inbound : rows[a] > 0 => Inbound[a] <= Evidence
        BY <3>1, EvidenceGrows
      <3> QED
        BY <3>2, <3>3 DEF VaultConstants
    <2>5. window' \in 0..MaxNow /\ window' <= Evidence'
      BY <1>1, <2>1, <2>3, <2>4 DEF advance_window
    <2>6. StoreSound'
      <3>1. indexed' \subseteq Atoms
        BY <1>2, <2>1 DEF StoreSound
      <3>2. \A m \in acked' : Settled(m)'
        BY <2>1, <2>2 DEF StoreSound
      <3> QED
        BY <2>1, <2>5, <3>1, <3>2 DEF StoreSound
    <2>7. DrainIsTrue'
      BY <1>0, <2>1, <2>2, NextAtom
    <2> QED
      BY <2>1, <2>5, <2>6, <2>7
  <1>5. ASSUME transient
        PROVE  StoreSound' /\ DrainIsTrue' /\ window' \in 0..MaxNow /\ upsets' \in 0..MaxUpsets
    <2>1. /\ upsets' \in 0..MaxUpsets /\ nack(Here) /\ drain' = nacked
          /\ UNCHANGED <<acked, circuit, keyring, storeVars, window>>
      BY <1>5 DEF transient, VaultConstants
    <2>2. StoreSound' /\ \A m : Settled(m)' <=> Settled(m)
      BY <1>1, <1>2, <2>1, NackTypes, QueueMoves
    <2>3. /\ \A m \in drain.acks : Settled(m)
          /\ drain.healthy => keyring = "good"
      BY <1>0 DEF DrainIsTrue
    <2>4. DrainIsTrue'
      BY <1>0, <2>1, <2>2, <2>3, NextEnvelope, DrainMoves
    <2> QED
      BY <2>1, <2>2, <2>4
  <1> QED
    BY <1>3, <1>4, <1>5

\* The doctor's repairs, of the window and of the index.
LEMMA RepairKeeps ==
    ASSUME VaultConstants, StoreSound, DrainIsTrue, UNCHANGED ward, window \in 0..MaxNow,
           rebuild_window_from_evidence \/ rebuild_all
    PROVE  StoreSound' /\ DrainIsTrue' /\ window' \in 0..MaxNow /\ upsets' = upsets
  <1>1. /\ drain = IdleDrain /\ window' \in {window, Evidence} /\ (window' = window \/ window' = Evidence)
        /\ UNCHANGED <<upsets, queueVars, ledger, rows, quarantined>>
        /\ indexed' = indexed \/ indexed' = {a \in DOMAIN Inbound : rows[a] > 0}
    BY DEF rebuild_window_from_evidence, rebuild_all, storeVars
  <1>2. Evidence \in 0..MaxNow /\ Evidence' = Evidence
    <2>1. \A a \in DOMAIN Inbound : rows[a] > 0 => rows'[a] > 0
      BY <1>1
    <2>2. Evidence \in 0..MaxNow
      BY <2>1, EvidenceGrows
    <2> QED
      BY <1>1, <2>2 DEF Evidence
  <1>3. \A m : Settled(m)' <=> Settled(m)
    BY <1>1 DEF Settled
  <1>4. indexed' \subseteq Atoms
    BY <1>1 DEF StoreSound, VaultConstants
  <1>5. StoreSound'
    <2>1. \A m \in acked' : Settled(m)'
      BY <1>1, <1>3 DEF StoreSound, queueVars
    <2>2. ward' = "ingest" => window' <= Evidence'
      BY <1>1, <1>2 DEF StoreSound
    <2> QED
      BY <1>1, <1>4, <2>1, <2>2 DEF StoreSound, queueVars
  <1> QED
    BY <1>1, <1>2, <1>5 DEF DrainIsTrue, queueVars

\* Every step of the ingest ward.
LEMMA IngestingStep ==
    ASSUME VaultConstants, StoreSound, DrainIsTrue, UNCHANGED ward, ward = "ingest", window \in 0..MaxNow,
           upsets \in 0..MaxUpsets, Ingesting
    PROVE  StoreSound' /\ DrainIsTrue' /\ window' \in 0..MaxNow /\ upsets' \in 0..MaxUpsets
  <1>1. CASE \/ add \/ drain_once \/ ack \/ consumer_dies \/ reset
             \/ (\E m \in Range(Envelopes) : lease_lapses(m)) \/ (\E k \in {"good", "absent", "wrong"} : set_keyring(k))
    BY <1>1, QueueKeeps
  <1>2. CASE quarantine \/ key_unavailable \/ trip \/ opened
    BY <1>2, OpeningKeeps
  <1>3. CASE _process_payload \/ (\E ok \in BOOLEAN : after_commit(ok)) \/ transient
    BY <1>3, PayloadKeeps
  <1>4. CASE rebuild_window_from_evidence \/ rebuild_all
    BY <1>4, RepairKeeps
  <1> QED
    BY <1>1, <1>2, <1>3, <1>4 DEF Ingesting

-----------------------------------------------------------------------------
(* The vault: imports.                                                     *)

\* A message is kept exactly when a live batch has it.
KeptByLive == \A p : p \in kept <=> \E b \in DOMAIN Exports : batches[b] = "live" /\ p \in import_fingerprint(b)

\* The union of the live batches, message by message.
LEMMA KeptOneByOne ==
    /\ ImportsSound => KeptByLive
    /\ KeptByLive' => kept' = UNION {import_fingerprint(b) : b \in {x \in DOMAIN Exports : batches'[x] = "live"}}
  BY DEF ImportsSound, ImportsAddUp, KeptByLive

\* A batch is imported: nothing observed before is touched.
LEMMA ImportKeeps ==
    ASSUME ImportsSound, NEW b \in DOMAIN Exports, import_batch(b)
    PROVE  ImportsSound'
  <1> DEFINE fp == import_fingerprint(b)
  <1>1. /\ batches' = [batches EXCEPT ![b] = "live"] /\ observed' = observed \cup {<<b, p>> : p \in fp}
        /\ kept' = kept \cup fp /\ found' = found \cup (fp \ kept) /\ kept \subseteq found
    BY DEF import_batch, ImportsSound, ImportsAddUp
  <1>2. /\ batches' \in [DOMAIN Exports -> {"NONE", "live", "undone"}]
        /\ \A c \in DOMAIN Exports : batches'[c] = IF c = b THEN "live" ELSE batches[c]
        /\ batches[b] = "NONE"
    BY <1>1 DEF ImportsSound, import_batch
  <1> HIDE DEF fp
  <1>3. KeptByLive'
    BY <1>1, <1>2, KeptOneByOne DEF KeptByLive, fp
  <1>4. \A o \in observed' : \E c \in DOMAIN Exports : batches'[c] = "live" /\ \E p \in import_fingerprint(c) : o = <<c, p>>
    <2> SUFFICES ASSUME NEW o \in observed'
                 PROVE  \E c \in DOMAIN Exports : batches'[c] = "live" /\ \E p \in import_fingerprint(c) : o = <<c, p>>
      OBVIOUS
    <2>1. CASE o \in observed
      <3>1. PICK c \in DOMAIN Exports : batches[c] = "live" /\ \E p \in import_fingerprint(c) : o = <<c, p>>
        BY <2>1 DEF ImportsSound
      <3> QED
        BY <1>2, <3>1
    <2>2. CASE o \notin observed
      <3>1. PICK p \in fp : o = <<b, p>>
        BY <1>1, <2>2
      <3> QED
        BY <1>2, <3>1 DEF fp
    <2> QED
      BY <2>1, <2>2
  <1>5. \A c \in DOMAIN Exports : batches'[c] = "live" => \A p \in import_fingerprint(c) : <<c, p>> \in observed'
    BY <1>1, <1>2 DEF ImportsSound, fp
  <1>6. ImportsAddUp'
    BY <1>1, <1>3, KeptOneByOne DEF ImportsAddUp
  <1> QED
    BY <1>2, <1>4, <1>5, <1>6 DEF ImportsSound

\* A batch is undone: what another batch observed stays.
LEMMA UndoKeeps ==
    ASSUME ImportsSound, NEW b \in DOMAIN Exports, undo_batch(b)
    PROVE  ImportsSound'
  <1>1. /\ batches[b] = "live" /\ batches' = [batches EXCEPT ![b] = "undone"]
        /\ observed' = {o \in observed : o[1] # b}
        /\ kept' = {p \in kept : <<b, p>> \in observed => \E o \in observed' : o[2] = p}
        /\ found' = found /\ kept \subseteq found
    BY DEF undo_batch, ImportsSound, ImportsAddUp
  <1>2. /\ batches' \in [DOMAIN Exports -> {"NONE", "live", "undone"}]
        /\ \A c \in DOMAIN Exports : batches'[c] = IF c = b THEN "undone" ELSE batches[c]
    BY <1>1 DEF ImportsSound
  <1>3. \A o \in observed : \E c \in DOMAIN Exports : batches[c] = "live" /\ \E p \in import_fingerprint(c) : o = <<c, p>>
    BY DEF ImportsSound
  <1>4. \A c \in DOMAIN Exports : batches[c] = "live" => \A p \in import_fingerprint(c) : <<c, p>> \in observed
    BY DEF ImportsSound
  <1>5. \A c, p : <<c, p>> \in observed' <=> <<c, p>> \in observed /\ c # b
    BY <1>1
  <1>6. KeptByLive'
    <2> SUFFICES ASSUME NEW p
                 PROVE  p \in kept' <=> \E c \in DOMAIN Exports : batches'[c] = "live" /\ p \in import_fingerprint(c)
      BY DEF KeptByLive
    <2>1. ASSUME p \in kept'
          PROVE  \E c \in DOMAIN Exports : batches'[c] = "live" /\ p \in import_fingerprint(c)
      <3>1. PICK c \in DOMAIN Exports : batches[c] = "live" /\ p \in import_fingerprint(c)
        BY <1>1, <2>1, KeptOneByOne DEF KeptByLive
      <3>2. CASE c # b
        BY <1>2, <3>1, <3>2
      <3>3. CASE c = b
        <4>1. PICK o \in observed' : o[2] = p
          BY <1>1, <1>4, <2>1, <3>1, <3>3
        <4>2. o \in observed /\ o[1] # b
          BY <1>1, <4>1
        <4>3. PICK e \in DOMAIN Exports : batches[e] = "live" /\ \E q \in import_fingerprint(e) : o = <<e, q>>
          BY <1>3, <4>2
        <4>4. e # b /\ p \in import_fingerprint(e)
          BY <4>1, <4>2, <4>3
        <4> QED
          BY <1>2, <4>3, <4>4
      <3> QED
        BY <3>2, <3>3
    <2>2. ASSUME NEW c \in DOMAIN Exports, batches'[c] = "live", p \in import_fingerprint(c)
          PROVE  p \in kept'
      <3>1. c # b /\ batches[c] = "live"
        BY <1>2, <2>2
      <3>2. <<c, p>> \in observed'
        BY <1>4, <1>5, <2>2, <3>1
      <3>3. \E o \in observed' : o[2] = p
        BY <3>2
      <3>4. p \in kept
        BY <2>2, <3>1, KeptOneByOne DEF KeptByLive
      <3> QED
        BY <1>1, <3>3, <3>4
    <2> QED
      BY <2>1, <2>2
  <1>7. \A o \in observed' : \E c \in DOMAIN Exports : batches'[c] = "live" /\ \E p \in import_fingerprint(c) : o = <<c, p>>
    <2> SUFFICES ASSUME NEW o \in observed'
                 PROVE  \E c \in DOMAIN Exports : batches'[c] = "live" /\ \E p \in import_fingerprint(c) : o = <<c, p>>
      OBVIOUS
    <2>1. o \in observed /\ o[1] # b
      BY <1>1
    <2>2. PICK c \in DOMAIN Exports : batches[c] = "live" /\ \E p \in import_fingerprint(c) : o = <<c, p>>
      BY <1>3, <2>1
    <2> QED
      BY <1>2, <2>1, <2>2
  <1>8. \A c \in DOMAIN Exports : batches'[c] = "live" => \A p \in import_fingerprint(c) : <<c, p>> \in observed'
    <2> SUFFICES ASSUME NEW c \in DOMAIN Exports, batches'[c] = "live", NEW p \in import_fingerprint(c)
                 PROVE  <<c, p>> \in observed'
      OBVIOUS
    <2>1. c # b /\ batches[c] = "live"
      BY <1>2
    <2> QED
      BY <1>4, <1>5, <2>1
  <1>9. ImportsAddUp'
    BY <1>1, <1>6, KeptOneByOne DEF ImportsAddUp
  <1> QED
    BY <1>2, <1>7, <1>8, <1>9 DEF ImportsSound

\* Every step of the import ward.
LEMMA ImportingStep ==
    ASSUME ImportsSound, Importing
    PROVE  ImportsSound'
  <1>1. CASE reindex
    BY <1>1 DEF reindex, ImportsSound, ImportsAddUp
  <1> QED
    BY <1>1, ImportKeeps, UndoKeeps DEF Importing

-----------------------------------------------------------------------------
(* The vault: grants.                                                      *)

\* No token of a family is live once it is revoked, and the others stand.
LEMMA FamilyRevoked ==
    ASSUME PairsSound, NEW g
    PROVE  /\ _revoke_family(g) \in Seq([grant : GrantRequests, live : BOOLEAN])
           /\ Len(_revoke_family(g)) = Len(pairs)
           /\ \A k \in 1..Len(pairs) :
                 /\ _revoke_family(g)[k].grant = pairs[k].grant
                 /\ _revoke_family(g)[k].live <=> pairs[k].live /\ pairs[k].grant # g
  <1> DEFINE P == [grant : GrantRequests, live : BOOLEAN]
  <1>1. DOMAIN pairs = 1..Len(pairs) /\ Len(pairs) \in Nat /\ \A k \in 1..Len(pairs) : pairs[k] \in P
    BY Elements DEF PairsSound
  <1>2. /\ _revoke_family(g) \in [1..Len(pairs) -> P]
        /\ \A k \in 1..Len(pairs) :
              _revoke_family(g)[k] = IF pairs[k].grant = g THEN [pairs[k] EXCEPT !.live = FALSE] ELSE pairs[k]
    BY <1>1 DEF _revoke_family
  <1>3. _revoke_family(g) \in Seq(P) /\ Len(_revoke_family(g)) = Len(pairs)
    <2> HIDE DEF P
    <2> QED
      BY <1>1, <1>2
  <1> QED
    BY <1>1, <1>2, <1>3

\* Tokens of one more sequence of pairs: what makes them sound.
LEMMA PairsKeep ==
    ASSUME pairs' \in Seq([grant : GrantRequests, live : BOOLEAN]),
           grants' \in [GrantRequests -> {"NONE", "pending", "approved", "code", "consumed", "expired"}],
           \A k \in 1..Len(pairs') : grants'[pairs'[k].grant] = "consumed",
           \A g \in reused' : g \in GrantRequests /\ grants'[g] = "consumed",
           \A j, k \in 1..Len(pairs') : pairs'[j].live /\ pairs'[k].live /\ pairs'[j].grant = pairs'[k].grant => j = k,
           \A k \in 1..Len(pairs') : pairs'[k].live => pairs'[k].grant \notin reused'
    PROVE  PairsSound'
  <1>1. DOMAIN pairs' = 1..Len(pairs')
    BY Elements
  <1>2. OneLivePair'
    BY <1>1 DEF OneLivePair
  <1> QED
    BY <1>2 DEF PairsSound

\* A grant is consumed once, and a new pair comes in the place of its family.
LEMMA GrantingStep ==
    ASSUME VaultConstants, PairsSound, Granting
    PROVE  PairsSound'
  <1> DEFINE P == [grant : GrantRequests, live : BOOLEAN]
             Standings == {"NONE", "pending", "approved", "code", "consumed", "expired"}
  <1>0. /\ grants \in [GrantRequests -> Standings] /\ pairs \in Seq(P) /\ Len(pairs) \in Nat
        /\ DOMAIN pairs = 1..Len(pairs) /\ \A k \in 1..Len(pairs) : pairs[k] \in P
        /\ \A k \in 1..Len(pairs) : grants[pairs[k].grant] = "consumed"
        /\ \A g \in reused : g \in GrantRequests /\ grants[g] = "consumed"
        /\ \A j, k \in 1..Len(pairs) : pairs[j].live /\ pairs[k].live /\ pairs[j].grant = pairs[k].grant => j = k
        /\ \A k \in 1..Len(pairs) : pairs[k].live => pairs[k].grant \notin reused
    <2>1. pairs \in Seq(P)
      BY DEF PairsSound
    <2> HIDE DEF P
    <2>2. Len(pairs) \in Nat /\ DOMAIN pairs = 1..Len(pairs) /\ \A k \in 1..Len(pairs) : pairs[k] \in P
      BY <2>1, Elements
    <2> QED
      BY <2>1, <2>2 DEF PairsSound, OneLivePair
  <1>1. ASSUME NEW g \in GrantRequests, begin_authorization(g) \/ approve_request(g) \/ poll(g) \/ collect_expired(g)
        PROVE  PairsSound'
    <2>1. /\ pairs' = pairs /\ reused' = reused
          /\ \E v \in Standings : grants' = [grants EXCEPT ![g] = v]
          /\ grants[g] # "consumed"
      BY <1>1 DEF begin_authorization, approve_request, poll, collect_expired
    <2>2. /\ grants' \in [GrantRequests -> Standings]
          /\ \A h \in GrantRequests : grants[h] = "consumed" => grants'[h] = "consumed"
      BY <1>0, <2>1
    <2> HIDE DEF Standings
    <2> QED
      BY <1>0, <2>1, <2>2, PairsKeep DEF Standings
  <1>2. ASSUME NEW g \in GrantRequests, exchange_code(g)
        PROVE  PairsSound'
    <2>1. /\ grants[g] = "code" /\ grants' = [grants EXCEPT ![g] = "consumed"]
          /\ pairs' = Append(pairs, _issue(g)) /\ reused' = reused
      BY <1>2 DEF exchange_code
    <2>2. _issue(g) \in P /\ _issue(g).grant = g /\ _issue(g).live
      BY DEF _issue
    <2>3. /\ pairs' \in Seq(P) /\ Len(pairs') = Len(pairs) + 1
          /\ \A k \in 1..Len(pairs) : pairs'[k] = pairs[k]
          /\ pairs'[Len(pairs) + 1] = _issue(g)
      <3> HIDE DEF P
      <3> QED
        BY <1>0, <2>1, <2>2, AppendProperties
    <2>4. /\ grants' \in [GrantRequests -> Standings] /\ grants'[g] = "consumed"
          /\ \A h \in GrantRequests : grants[h] = "consumed" => grants'[h] = "consumed"
      BY <1>0, <2>1
    <2>5. g \notin reused /\ \A k \in 1..Len(pairs) : pairs[k].grant # g
      BY <1>0, <2>1
    <2>6. \A k \in 1..Len(pairs') : k \in 1..Len(pairs) \/ k = Len(pairs) + 1
      BY <1>0, <2>3
    <2>7. \A j \in 1..Len(pairs') : grants'[pairs'[j].grant] = "consumed"
      BY <1>0, <2>2, <2>3, <2>4, <2>6
    <2>8. \A i, j \in 1..Len(pairs') : pairs'[i].live /\ pairs'[j].live /\ pairs'[i].grant = pairs'[j].grant => i = j
      BY <1>0, <2>2, <2>3, <2>5, <2>6
    <2>9. \A j \in 1..Len(pairs') : pairs'[j].live => pairs'[j].grant \notin reused'
      BY <1>0, <2>1, <2>2, <2>3, <2>5, <2>6
    <2>10. \A h \in reused' : h \in GrantRequests /\ grants'[h] = "consumed"
      BY <1>0, <2>1, <2>4
    <2> QED
      BY <2>3, <2>4, <2>7, <2>8, <2>9, <2>10, PairsKeep
  <1>3. ASSUME NEW k \in 1..MaxPairs, refresh(k)
        PROVE  PairsSound'
    <2> DEFINE g == pairs[k].grant
               less == _revoke_family(g)
    <2>1. k \in 1..Len(pairs) /\ g \in GrantRequests /\ grants[g] = "consumed" /\ grants' = grants
      BY <1>0, <1>3 DEF refresh
    <2>2. /\ less \in Seq(P) /\ Len(less) = Len(pairs)
          /\ \A j \in 1..Len(pairs) : less[j].grant = pairs[j].grant /\ (less[j].live <=> pairs[j].live /\ pairs[j].grant # g)
      BY FamilyRevoked
    <2>3. CASE pairs[k].live
      <3>1. pairs' = Append(less, _issue(g)) /\ reused' = reused
        BY <1>3, <2>3 DEF refresh
      <3>2. _issue(g) \in P /\ _issue(g).grant = g /\ _issue(g).live
        BY <2>1 DEF _issue
      <3>3. g \notin reused
        BY <1>0, <2>1, <2>3
      <3> HIDE DEF less, g
      <3>4. /\ pairs' \in Seq(P) /\ Len(pairs') = Len(pairs) + 1
            /\ \A j \in 1..Len(pairs) : pairs'[j] = less[j]
            /\ pairs'[Len(pairs) + 1] = _issue(g)
        <4> HIDE DEF P
        <4> QED
          BY <1>0, <2>2, <3>1, <3>2, AppendProperties
      <3>5. \A j \in 1..Len(pairs') : j \in 1..Len(pairs) \/ j = Len(pairs) + 1
        BY <1>0, <3>4
      <3>6. \A j \in 1..Len(pairs') : grants'[pairs'[j].grant] = "consumed"
        BY <1>0, <2>1, <2>2, <3>2, <3>4, <3>5
      <3>7. \A i, j \in 1..Len(pairs') : pairs'[i].live /\ pairs'[j].live /\ pairs'[i].grant = pairs'[j].grant => i = j
        BY <1>0, <2>2, <3>2, <3>4, <3>5
      <3>8. \A j \in 1..Len(pairs') : pairs'[j].live => pairs'[j].grant \notin reused'
        BY <1>0, <2>2, <3>1, <3>2, <3>3, <3>4, <3>5
      <3> QED
        BY <1>0, <2>1, <3>1, <3>4, <3>6, <3>7, <3>8, PairsKeep
    <2>4. CASE ~pairs[k].live
      <3>1. pairs' = less /\ reused' = reused \cup {g}
        BY <1>3, <2>4 DEF refresh
      <3> HIDE DEF less, g
      <3>2. \A j \in 1..Len(pairs') : grants'[pairs'[j].grant] = "consumed"
        BY <1>0, <2>1, <2>2, <3>1
      <3>3. \A i, j \in 1..Len(pairs') : pairs'[i].live /\ pairs'[j].live /\ pairs'[i].grant = pairs'[j].grant => i = j
        BY <1>0, <2>2, <3>1
      <3>4. \A j \in 1..Len(pairs') : pairs'[j].live => pairs'[j].grant \notin reused'
        BY <1>0, <2>2, <3>1
      <3>5. \A h \in reused' : h \in GrantRequests /\ grants'[h] = "consumed"
        BY <1>0, <2>1, <3>1
      <3> QED
        BY <1>0, <2>1, <2>2, <3>1, <3>2, <3>3, <3>4, <3>5, PairsKeep
    <2> QED
      BY <2>3, <2>4
  <1>4. ASSUME revoke_all
        PROVE  PairsSound'
    <2>1. pairs' = [k \in 1..Len(pairs) |-> [pairs[k] EXCEPT !.live = FALSE]] /\ grants' = grants /\ reused' = reused
      BY <1>0, <1>4 DEF revoke_all
    <2>2. /\ pairs' \in [1..Len(pairs) -> P]
          /\ \A k \in 1..Len(pairs) : pairs'[k].grant = pairs[k].grant /\ ~pairs'[k].live
      BY <1>0, <2>1
    <2>3. pairs' \in Seq(P) /\ Len(pairs') = Len(pairs)
      <3> HIDE DEF P
      <3> QED
        BY <1>0, <2>2
    <2> QED
      BY <1>0, <2>1, <2>2, <2>3, PairsKeep
  <1> QED
    BY <1>1, <1>2, <1>3, <1>4 DEF Granting

-----------------------------------------------------------------------------
(* The vault: setting up.                                                  *)

\* A key is made only where there is no database, and a database only with the key there is.
LEMMA SettingUpStep ==
    ASSUME VaultConstants, SetupSound, upsets \in 0..MaxUpsets, SettingUp
    PROVE  SetupSound' /\ upsets' \in 0..MaxUpsets
  <1> DEFINE L == Lanes \cup ServiceKeys
  <1>0. /\ setup \in Seq(L) /\ keys \in [L -> Nat] /\ files \in [Lanes -> [key : Nat, version : Nat]]
        /\ \A k \in Lanes : files[k].key # 0 /\ keys[k] # 0 => files[k].key = keys[k]
        /\ MaxUpsets \in Nat
    BY DEF SetupSound, SetupOpens, VaultConstants
  <1>1. CASE init_vault
    BY <1>0, <1>1 DEF init_vault, SetupSound, SetupOpens, Lanes, ServiceKeys
  <1>2. setup # <<>> => Task \in L
    <2> HIDE DEF L
    <2> QED
      BY <1>0 DEF Task
  <1>3. CASE provision
    <2>1. keys' \in [L -> Nat] /\ \A k \in L : k # Task => keys'[k] = keys[k]
      BY <1>0, <1>2, <1>3 DEF provision
    <2>2. UNCHANGED <<upsets, files, setup>> /\ (Task \in Lanes => files[Task].key = 0)
      BY <1>3 DEF provision
    <2> QED
      BY <1>0, <2>1, <2>2 DEF SetupSound, SetupOpens
  <1>4. CASE _ensure_database
    <2>1. /\ Task \in Lanes /\ files' = [files EXCEPT ![Task] = [key |-> keys[Task], version |-> 0]]
          /\ UNCHANGED <<upsets, keys, setup>>
      BY <1>4 DEF _ensure_database
    <2>2. keys[Task] \in Nat
      BY <1>0, <2>1
    <2>3. /\ files' \in [Lanes -> [key : Nat, version : Nat]]
          /\ \A k \in Lanes : files'[k].key = IF k = Task THEN keys[Task] ELSE files[k].key
      BY <1>0, <2>1, <2>2
    <2> QED
      BY <1>0, <2>1, <2>3 DEF SetupSound, SetupOpens
  <1>5. CASE migrate
    <2>1. /\ Task \in Lanes /\ files' = [files EXCEPT ![Task].version = @ + 1] /\ UNCHANGED <<upsets, keys, setup>>
      BY <1>5 DEF migrate
    <2>2. /\ files' \in [Lanes -> [key : Nat, version : Nat]] /\ \A k \in Lanes : files'[k].key = files[k].key
      BY <1>0, <2>1
    <2> QED
      BY <1>0, <2>1, <2>2 DEF SetupSound, SetupOpens
  <1>6. CASE task_done
    <2>1. setup # <<>> /\ setup' = Tail(setup) /\ UNCHANGED <<upsets, keys, files>>
      BY <1>6 DEF task_done
    <2>2. setup' \in Seq(L)
      <3> HIDE DEF L
      <3> QED
        BY <1>0, <2>1
    <2> QED
      BY <1>0, <2>1, <2>2 DEF SetupSound, SetupOpens
  <1>7. CASE setup_dies
    <2>1. upsets' \in 0..MaxUpsets /\ setup' = <<>> /\ UNCHANGED <<keys, files>>
      BY <1>0, <1>7 DEF setup_dies
    <2> QED
      BY <1>0, <2>1 DEF SetupSound, SetupOpens
  <1>8. ASSUME NEW k \in Lanes, key_lost(k)
        PROVE  SetupSound' /\ upsets' \in 0..MaxUpsets
    <2>1. upsets' \in 0..MaxUpsets /\ keys' = [keys EXCEPT ![k] = 0] /\ UNCHANGED <<files, setup>>
      BY <1>0, <1>8 DEF key_lost
    <2>2. keys' \in [L -> Nat] /\ \A j \in L : keys'[j] = IF j = k THEN 0 ELSE keys[j]
      BY <1>0, <2>1
    <2> QED
      BY <1>0, <2>1, <2>2 DEF SetupSound, SetupOpens
  <1>9. ASSUME NEW k \in Lanes, moved_aside(k)
        PROVE  SetupSound' /\ upsets' \in 0..MaxUpsets
    <2>1. files' = [files EXCEPT ![k] = [key |-> 0, version |-> 0]] /\ UNCHANGED <<upsets, keys, setup>>
      BY <1>9 DEF moved_aside
    <2>2. /\ files' \in [Lanes -> [key : Nat, version : Nat]]
          /\ \A j \in Lanes : files'[j].key = IF j = k THEN 0 ELSE files[j].key
      BY <1>0, <2>1
    <2> QED
      BY <1>0, <2>1, <2>2 DEF SetupSound, SetupOpens
  <1> QED
    BY <1>1, <1>3, <1>4, <1>5, <1>6, <1>7, <1>8, <1>9 DEF SettingUp

-----------------------------------------------------------------------------
(* The whole vault.                                                        *)

\* A ward that stands keeps its part of the invariant.
LEMMA VaultFrames ==
    /\ SendSound /\ UNCHANGED <<timeVars, sendVars>> => SendSound'
    /\ StoreSound /\ DrainIsTrue /\ UNCHANGED <<ward, queueVars, storeVars>> /\ (ward = "ingest" => window' = window)
       => StoreSound' /\ DrainIsTrue'
    /\ ImportsSound /\ UNCHANGED importVars => ImportsSound'
    /\ PairsSound /\ UNCHANGED grantVars => PairsSound'
    /\ SetupSound /\ UNCHANGED setupVars => SetupSound'
  <1>1. SendSound /\ UNCHANGED <<timeVars, sendVars>> => SendSound'
    <2> SUFFICES ASSUME SendSound, UNCHANGED <<timeVars, sendVars>>
                 PROVE  SendSound'
      OBVIOUS
    <2>1. UNCHANGED <<now, guard, device, decisions, drafts, nonces, attempts, posted, candidates, sender, permits>>
      BY DEF timeVars, sendVars, pairing, drafting, sending
    <2>2. /\ now' \in 1..MaxNow /\ device' \in [Devices -> {"NONE", "ACTIVE", "REVOKED"}]
          /\ decisions' \subseteq [draft : 1..Len(drafts), device : Devices, decision : {"APPROVE", "REJECT"}, nonce : Nonces]
      BY <2>1 DEF SendSound, SendTypes
    <2> QED
      BY <2>1, <2>2, SendingKept
  <1>2. ASSUME StoreSound, DrainIsTrue, UNCHANGED <<ward, queueVars, storeVars>>, ward = "ingest" => window' = window
        PROVE  StoreSound' /\ DrainIsTrue'
    <2>1. UNCHANGED <<pending, leased, acked, circuit, keyring, drain, ledger, rows, indexed, quarantined>>
      BY <1>2 DEF queueVars, storeVars
    <2>2. (\A m : Settled(m)' <=> Settled(m)) /\ Evidence' = Evidence
      BY <2>1 DEF Settled, Evidence
    <2>3. Here' = Here /\ Atom' = Atom
      BY <2>1 DEF Here, Atom
    <2>4. StoreSound'
      BY <1>2, <2>1, <2>2 DEF StoreSound
    <2>5. DrainIsTrue'
      BY <1>2, <2>1, <2>2, <2>3 DEF DrainIsTrue
    <2> QED
      BY <2>4, <2>5
  <1>3. ImportsSound /\ UNCHANGED importVars => ImportsSound'
    BY DEF ImportsSound, ImportsAddUp, importVars
  <1>4. PairsSound /\ UNCHANGED grantVars => PairsSound'
    BY DEF PairsSound, OneLivePair, grantVars
  <1>5. SetupSound /\ UNCHANGED setupVars => SetupSound'
    BY DEF SetupSound, SetupOpens, setupVars
  <1> QED
    BY <1>1, <1>2, <1>3, <1>4, <1>5

\* The vault before its first step.
LEMMA VaultStarts ==
    ASSUME VaultConstants, VaultInit
    PROVE  VaultInvariant
  <1>1. ward \in Wards /\ upsets \in 0..MaxUpsets /\ window \in 0..MaxNow
    BY DEF VaultConstants, VaultInit
  <1>2. /\ now = 1 /\ guard = [s \in Senders |-> 0] /\ device = [d \in Devices |-> "NONE"]
        /\ drafts = <<>> /\ decisions = {} /\ nonces = {} /\ attempts = <<>> /\ posted = {} /\ candidates = {}
        /\ sender = [s \in Senders |-> IdleSender] /\ permit = NoPermit /\ marked = 0
        /\ Len(drafts) = 0 /\ Len(attempts) = 0
    BY DEF VaultInit
  <1>3. SendTypes
    <2>1. IdleSender \in Hands
      BY DEF IdleSender, Hands
    <2> QED
      BY <1>2, <2>1 DEF SendTypes, VaultConstants
  <1>4. AttemptsAreTrue
    BY <1>2 DEF AttemptsAreTrue
  <1>5. HandsAreTrue /\ PermitIsCounted
    BY <1>2 DEF HandsAreTrue, PermitIsCounted, IdleSender
  <1>6. StoreSound
    <2>1. /\ pending = <<>> /\ leased = {} /\ acked = {} /\ ledger = {} /\ rows = [a \in Atoms |-> 0]
          /\ indexed = {} /\ quarantined = {} /\ circuit = "CLOSED" /\ keyring = "good" /\ window = 0
      BY DEF VaultInit
    <2>2. \A a \in DOMAIN Inbound : rows[a] = 0
      BY <2>1 DEF VaultConstants
    <2>3. {x \in DOMAIN Inbound : rows[x] > 0} = {}
      BY <2>2
    <2>4. {Inbound[a] : a \in {x \in DOMAIN Inbound : rows[x] > 0}} = {}
      BY <2>3
    <2>5. Evidence = 0
      BY <2>4 DEF Evidence
    <2> QED
      BY <2>1, <2>5 DEF StoreSound
  <1>7. DrainIsTrue
    BY DEF VaultInit, DrainIsTrue
  <1>8. ImportsSound
    <2>1. /\ batches = [b \in DOMAIN Exports |-> "NONE"] /\ observed = {} /\ kept = {} /\ found = {}
      BY DEF VaultInit
    <2>2. kept = UNION {import_fingerprint(b) : b \in {x \in DOMAIN Exports : batches[x] = "live"}}
      BY <2>1
    <2> QED
      BY <2>1, <2>2 DEF ImportsSound, ImportsAddUp
  <1>9. PairsSound
    BY DEF VaultInit, PairsSound, OneLivePair
  <1>10. SetupSound
    BY DEF VaultInit, SetupSound, SetupOpens
  <1> QED
    BY <1>1, <1>3, <1>4, <1>5, <1>6, <1>7, <1>8, <1>9, <1>10 DEF VaultInvariant

\* In a step one ward moves and the others stand.
LEMMA VaultSteps ==
    ASSUME VaultConstants, VaultInvariant, [VaultNext]_vaultVars
    PROVE  VaultInvariant'
  <1> DEFINE Rest == ward \in Wards /\ upsets \in 0..MaxUpsets /\ window \in 0..MaxNow
  <1>1. Rest /\ SendSound /\ StoreSound /\ DrainIsTrue /\ ImportsSound /\ PairsSound /\ SetupSound
    BY DEF VaultInvariant, SendSound
  <1>2. SUFFICES Rest' /\ SendSound' /\ StoreSound' /\ DrainIsTrue' /\ ImportsSound' /\ PairsSound' /\ SetupSound'
    BY DEF VaultInvariant, SendSound
  <1>3. CASE UNCHANGED vaultVars
    <2>1. UNCHANGED <<ward, upsets, timeVars, sendVars, window, queueVars, storeVars, importVars, grantVars, setupVars>>
      BY <1>3 DEF vaultVars
    <2> QED
      BY <1>1, <2>1, VaultFrames
  <1>4. CASE ward = "send" /\ Sending /\ UNCHANGED ward
    <2>1. UNCHANGED <<queueVars, storeVars, importVars, grantVars, setupVars>>
      BY <1>4 DEF Sending
    <2>2. SendSound' /\ window' \in 0..MaxNow /\ upsets' \in 0..MaxUpsets
      BY <1>1, <1>4, SendingStep
    <2> QED
      BY <1>1, <1>4, <2>1, <2>2, VaultFrames
  <1>5. CASE ward = "mark" /\ Marking /\ UNCHANGED ward
    <2>1. UNCHANGED <<upsets, timeVars, window, queueVars, storeVars, importVars, grantVars, setupVars>>
      BY <1>5 DEF Marking
    <2>2. SendSound'
      <3>1. CASE \E d \in Devices : enroll(d) \/ revoke(d)
        <4>1. UNCHANGED <<now, guard, drafts, nonces, attempts, posted, candidates, sender, permits, decisions>>
          BY <2>1, <3>1 DEF enroll, revoke, timeVars, drafting, sending
        <4>2. device' \in [Devices -> {"NONE", "ACTIVE", "REVOKED"}]
          BY <1>1, <3>1 DEF enroll, revoke, SendSound, SendTypes
        <4>3. /\ now' \in 1..MaxNow
              /\ decisions' \subseteq [draft : 1..Len(drafts), device : Devices, decision : {"APPROVE", "REJECT"}, nonce : Nonces]
          BY <1>1, <4>1 DEF SendSound, SendTypes
        <4> QED
          BY <1>1, <4>1, <4>2, <4>3, SendingKept
      <3>2. CASE \/ \E d \in Devices : store_grant(d)
                 \/ \E s \in Senders : mark_read(s) \/ verify_and_consume(s)
        BY <1>1, <2>1, <3>2, MarkingKeeps DEF VaultConstants
      <3> QED
        BY <1>5, <3>1, <3>2 DEF Marking
    <2> QED
      BY <1>1, <1>5, <2>1, <2>2, VaultFrames
  <1>6. CASE ward = "ingest" /\ Ingesting /\ UNCHANGED ward
    <2>1. UNCHANGED <<timeVars, sendVars, importVars, grantVars, setupVars>>
      BY <1>6 DEF Ingesting
    <2>2. StoreSound' /\ DrainIsTrue' /\ window' \in 0..MaxNow /\ upsets' \in 0..MaxUpsets
      BY <1>1, <1>6, IngestingStep
    <2> QED
      BY <1>1, <1>6, <2>1, <2>2, VaultFrames
  <1>7. CASE ward = "import" /\ Importing /\ UNCHANGED ward
    <2>1. UNCHANGED <<upsets, timeVars, sendVars, window, queueVars, storeVars, grantVars, setupVars>>
      BY <1>7 DEF Importing
    <2>2. ImportsSound'
      BY <1>1, <1>7, ImportingStep
    <2> QED
      BY <1>1, <1>7, <2>1, <2>2, VaultFrames
  <1>8. CASE ward = "grants" /\ Granting /\ UNCHANGED ward
    <2>1. UNCHANGED <<upsets, timeVars, sendVars, window, queueVars, storeVars, importVars, setupVars>>
      BY <1>8 DEF Granting
    <2>2. PairsSound'
      BY <1>1, <1>8, GrantingStep
    <2> QED
      BY <1>1, <1>8, <2>1, <2>2, VaultFrames
  <1>9. CASE ward = "setup" /\ SettingUp /\ UNCHANGED ward
    <2>1. UNCHANGED <<timeVars, sendVars, window, queueVars, storeVars, importVars, grantVars>>
      BY <1>9 DEF SettingUp
    <2>2. SetupSound' /\ upsets' \in 0..MaxUpsets
      BY <1>1, <1>9, SettingUpStep
    <2> QED
      BY <1>1, <1>9, <2>1, <2>2, VaultFrames
  <1> QED
    BY <1>3, <1>4, <1>5, <1>6, <1>7, <1>8, <1>9 DEF VaultNext

\* What the invariant says to whoever uses the vault.
LEMMA VaultPromise ==
    ASSUME VaultConstants, VaultInvariant
    PROVE  VaultKeepsItsWord
  <1>1. SentOnce
    <2>1. DOMAIN attempts = 1..Len(attempts) /\ posted \subseteq 1..Len(attempts)
      <3>1. DOMAIN attempts = 1..Len(attempts)
        BY Elements DEF VaultInvariant, SendTypes
      <3> QED
        BY <3>1 DEF VaultInvariant, SendTypes
    <2>2. marked <= MaxUses
      BY DEF VaultInvariant, PermitIsCounted, VaultConstants
    <2> QED
      BY <2>1, <2>2 DEF VaultInvariant, AttemptsAreTrue, SentOnce
  <1>2. AckedIsKept
    <2>1. /\ ledger \subseteq Atoms /\ rows = [a \in Atoms |-> IF a \in ledger THEN 1 ELSE 0]
          /\ \A m \in quarantined : Quality[m] # "sound"
          /\ \A m \in acked : Settled(m)
          /\ ward = "ingest" => window <= Evidence
      BY DEF VaultInvariant, StoreSound
    <2>2. \A m \in acked : m \in quarantined \/ \A a \in Range(Holds[m]) : rows[a] = 1
      BY <2>1 DEF Settled
    <2> QED
      BY <2>1, <2>2 DEF AckedIsKept
  <1> QED
    BY <1>1, <1>2 DEF VaultInvariant, ImportsSound, PairsSound, SetupSound, VaultKeepsItsWord

\* Whatever ward moves, crash, upset or lapse: the parts of VaultInvariant hold in every
\* reachable state, for any devices, senders, drafts, envelopes, exports and grants.
THEOREM VaultInductive ==
    ASSUME VaultConstants
    PROVE  VaultSpec => []VaultInvariant
  <1>1. VaultInit => VaultInvariant
    BY VaultStarts
  <1>2. VaultInvariant /\ [VaultNext]_vaultVars => VaultInvariant'
    BY VaultSteps
  <1> QED
    BY <1>1, <1>2, PTL DEF VaultSpec

\* A nonce is sent at most once, for a draft that an accepted envelope approves under it,
\* and its record says no more than is known; no acknowledged webhook is lost or doubled;
\* imports add up; a grant has one live pair; a key opens the database it made
\* (sender.execute_write, consumer.drain_once, undo_batch, oauth, init_vault).
THEOREM VaultKept ==
    ASSUME VaultConstants
    PROVE  VaultSpec => []VaultKeepsItsWord
  <1>1. VaultInvariant => VaultKeepsItsWord
    BY VaultPromise
  <1> QED
    BY <1>1, VaultInductive, PTL
=============================================================================
