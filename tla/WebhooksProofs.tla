--------------------------- MODULE WebhooksProofs ---------------------------
(***************************************************************************)
(* Proofs about Webhooks, for any bodies, page sizes and bounds: its       *)
(* inductive invariant, that no mailbox row disappears, that a finished    *)
(* inbox row had every effect once, and that the daemon implements the     *)
(* report channel of Reports, which Delivery relies on.                    *)
(***************************************************************************)
EXTENDS Webhooks, SequenceTheorems, WellFoundedInduction, TLAPS

\* A non-empty set of naturals has a least element.
LEMMA LeastNatural ==
    ASSUME NEW T, T \subseteq Nat, T # {}
    PROVE  \E x \in T : \A y \in T : ~(y < x)
  <1> DEFINE Less == OpToRel(<, Nat)
  <1>1. IsWellFoundedOn(Less, Nat)
    BY NatLessThanWellFounded, Zenon
  <1>2. \A x, y \in Nat : y < x => <<y, x>> \in Less
    BY DEF OpToRel
  <1>3. \E x \in T : \A y \in T : ~ (<<y, x>> \in Less)
    <2> HIDE DEF Less
    <2> QED BY <1>1, WFMin
  <1> HIDE DEF Less
  <1> QED
    BY <1>2, <1>3

\* A page with a first row is not empty.
LEMMA HasFirst == \A S : \A q \in Seq(S) : 1 \in DOMAIN q => q # <<>>
  OBVIOUS

\* Rows are counted from the first one of a page or from the one before it.
LEMMA ShiftBack == \A s, t \in Nat : s + t = (s + 1) + t - 1
  OBVIOUS

\* The worker's row is an unfinished one of the inbox.
LEMMA CurrentIsUndone ==
    ASSUME TypeOK, Undone # {}
    PROVE  Current \in Undone /\ Current \in 1..Len(inbox) /\ Here \in Entry
  <1> DEFINE U == Undone
  <1>1. inbox \in Seq(Entry) /\ U \subseteq 1..Len(inbox) /\ U \subseteq Nat
    BY DEF TypeOK, Undone
  <1> HIDE DEF U
  <1>2. \E x \in U : \A y \in U : ~(y < x)
    BY <1>1, LeastNatural DEF U
  <1>3. \E x \in Undone : \A y \in Undone : x <= y
    BY <1>1, <1>2 DEF U
  <1>4. Current \in Undone
    BY <1>3 DEF Current
  <1> QED
    BY <1>1, <1>4 DEF U, Here

\* Setting a flag of the worker's row leaves the bodies and the other rows alone.
LEMMA FlagKeepsBodies ==
    ASSUME TypeOK, Working, NEW flag \in {"archive", "window", "status", "done"},
           Set(flag)
    PROVE  /\ inbox' \in Seq(Entry) /\ DOMAIN inbox' = DOMAIN inbox
           /\ \A i \in DOMAIN inbox : inbox'[i].body = inbox[i].body
           /\ \A i \in DOMAIN inbox : i # Current => inbox'[i] = inbox[i]
           /\ inbox'[Current] = [Here EXCEPT ![flag] = TRUE]
           /\ Current \in DOMAIN inbox /\ Here \in Entry /\ Here = inbox[Current]
  <1>1. Current \in 1..Len(inbox) /\ Here \in Entry /\ inbox \in Seq(Entry)
    BY CurrentIsUndone DEF Working, TypeOK
  <1>2. PICK c \in 1..Len(inbox) : c = Current
    BY <1>1
  <1>3. PICK e \in Entry : e = Here
    BY <1>1
  <1>4. PICK f : f = [e EXCEPT ![flag] = TRUE]
    OBVIOUS
  <1>5. f \in Entry /\ f.body = e.body
    BY <1>3, <1>4 DEF Entry
  <1>6. inbox' = [inbox EXCEPT ![c] = f]
    BY <1>2, <1>3, <1>4 DEF Set
  <1>7. /\ inbox' \in Seq(Entry) /\ Len(inbox') = Len(inbox)
        /\ \A j \in 1..Len(inbox) : inbox'[j] = IF j = c THEN f ELSE inbox[j]
    BY <1>1, <1>2, <1>5, <1>6, ExceptSeq
  <1>8. DOMAIN inbox' = DOMAIN inbox /\ DOMAIN inbox = 1..Len(inbox)
    BY <1>1, <1>7
  <1>9. e = inbox[c] /\ Here = inbox[Current]
    BY <1>2, <1>3 DEF Here
  <1>10. \A i \in DOMAIN inbox : inbox'[i].body = inbox[i].body
    BY <1>5, <1>7, <1>8, <1>9
  <1>11. \A i \in DOMAIN inbox : i # Current => inbox'[i] = inbox[i]
    BY <1>2, <1>7, <1>8
  <1>12. inbox'[Current] = [Here EXCEPT ![flag] = TRUE]
    BY <1>2, <1>3, <1>4, <1>7
  <1> QED
    BY <1>1, <1>7, <1>8, <1>9, <1>10, <1>11, <1>12

\* Whatever the worker does to flags and effects, the mailbox, the collector and
\* the bodies of the inbox stay as they are.
LEMMA WorkerFrame ==
    ASSUME WebhooksInvariant, UNCHANGED <<relayVars, collected, tick, up, truthVars>>,
           inbox' \in Seq(Entry), DOMAIN inbox' = DOMAIN inbox,
           \A i \in DOMAIN inbox : inbox'[i].body = inbox[i].body
    PROVE  /\ RowsAreTrue' /\ MailboxIsASuffix' /\ AckedIsSettled' /\ TickIsSound'
           /\ PageFollowsCursor' /\ InboxIsTrue'
           /\ \A b : Stored(b)' = Stored(b)
           /\ Malformed' = Malformed
  <1> USE DEF WebhooksInvariant, relayVars, collected, truthVars
  <1>1. \A b : Stored(b)' = Stored(b)
    BY DEF Stored
  <1>2. \A s : Settled(s)' = Settled(s)
    BY <1>1 DEF Settled
  <1>3. Unverified' = Unverified /\ Malformed' = Malformed
    BY DEF Unverified, Malformed
  <1>4. \A r : RowIsTrue(r)' = RowIsTrue(r)
    BY <1>3 DEF RowIsTrue
  <1>5. RowsAreTrue'
    BY <1>4 DEF RowsAreTrue
  <1>6. MailboxIsASuffix'
    BY DEF MailboxIsASuffix
  <1>7. AckedIsSettled'
    BY <1>2 DEF AckedIsSettled
  <1>8. TickIsSound'
    BY <1>2 DEF TickIsSound, noTick, Seqs
  <1>9. PageFollowsCursor'
    BY DEF PageFollowsCursor, Greater
  <1>10. InboxIsTrue'
    BY <1>3 DEF InboxIsTrue
  <1> QED
    BY <1>1, <1>3, <1>5, <1>6, <1>7, <1>8, <1>9, <1>10

\* archive.ingest preserves the invariant.
LEMMA IngestStep ==
    ASSUME WebhooksInvariant, ingest
    PROVE  WebhooksInvariant'
  <1> USE DEF WebhooksInvariant
  <1>1. /\ Current \in DOMAIN inbox /\ Here = inbox[Current] /\ Here \in Entry
        /\ inbox \in Seq(Entry) /\ inbox' = inbox
    BY CurrentIsUndone DEF ingest, Working, TypeOK, Here
  <1>2. /\ RowsAreTrue' /\ MailboxIsASuffix' /\ AckedIsSettled' /\ TickIsSound'
        /\ PageFollowsCursor' /\ InboxIsTrue'
        /\ \A b : Stored(b)' = Stored(b)
        /\ Malformed' = Malformed
    BY <1>1, WorkerFrame DEF ingest
  <1>3. TypeOK'
    BY <1>1 DEF TypeOK, ingest, relayVars, collected, truthVars, Entry
  <1>4. Stored(Here.body)
    BY <1>1 DEF Stored
  <1>5. EffectsMatchFlags'
    <2>1. \A i \in DOMAIN inbox : inbox[i].body = Here.body => ~inbox[i].window /\ ~inbox[i].archive
      BY <1>1 DEF ingest, EffectsMatchFlags, InboxIsTrue
    <2>2. archive' = archive \cup {Here.body} /\ Here.body \notin Malformed
          /\ windowRuns' = windowRuns /\ applied' = applied
      BY DEF ingest
    <2> QED
      BY <1>1, <1>2, <1>4, <2>1, <2>2 DEF EffectsMatchFlags
  <1> QED
    BY <1>2, <1>3, <1>5

\* Setting a flag of a row preserves the invariant when its effects are then done.
LEMMA FlagStep ==
    ASSUME WebhooksInvariant, Working,
           NEW flag \in {"archive", "window", "status", "done"}, Set(flag),
           UNCHANGED <<relayVars, collected, tick, up, truthVars>>
    PROVE  /\ RowsAreTrue' /\ MailboxIsASuffix' /\ AckedIsSettled' /\ TickIsSound'
           /\ PageFollowsCursor' /\ InboxIsTrue'
           /\ \A b : Stored(b)' = Stored(b)
           /\ Malformed' = Malformed
           /\ Stored(Here.body)
           /\ \A i \in DOMAIN inbox : inbox[i].body = Here.body => i = Current
  <1> USE DEF WebhooksInvariant
  <1>1. /\ inbox' \in Seq(Entry) /\ DOMAIN inbox' = DOMAIN inbox
        /\ \A i \in DOMAIN inbox : inbox'[i].body = inbox[i].body
        /\ Current \in DOMAIN inbox /\ Here = inbox[Current]
    BY FlagKeepsBodies
  <1>2. /\ RowsAreTrue' /\ MailboxIsASuffix' /\ AckedIsSettled' /\ TickIsSound'
        /\ PageFollowsCursor' /\ InboxIsTrue'
        /\ \A b : Stored(b)' = Stored(b)
        /\ Malformed' = Malformed
    BY <1>1, WorkerFrame
  <1>3. Stored(Here.body)
    BY <1>1 DEF Stored
  <1>4. \A i \in DOMAIN inbox : inbox[i].body = Here.body => i = Current
    BY <1>1 DEF InboxIsTrue
  <1> QED
    BY <1>2, <1>3, <1>4

\* The archive flag of the row at hand is set.
LEMMA FlagArchiveStep ==
    ASSUME WebhooksInvariant, flag_archive
    PROVE  WebhooksInvariant'
  <1> USE DEF WebhooksInvariant
  <1>1. Working /\ Set("archive") /\ UNCHANGED <<relayVars, collected, effects, tick, up, truthVars>>
    BY DEF flag_archive
  <1>2. /\ RowsAreTrue' /\ MailboxIsASuffix' /\ AckedIsSettled' /\ TickIsSound'
        /\ PageFollowsCursor' /\ InboxIsTrue'
        /\ \A b : Stored(b)' = Stored(b)
        /\ Malformed' = Malformed
    BY <1>1, FlagStep
  <1>3. /\ inbox' \in Seq(Entry) /\ DOMAIN inbox' = DOMAIN inbox
        /\ \A i \in DOMAIN inbox : inbox'[i].body = inbox[i].body
        /\ \A i \in DOMAIN inbox : i # Current => inbox'[i] = inbox[i]
        /\ inbox'[Current] = [Here EXCEPT !["archive"] = TRUE]
        /\ Current \in DOMAIN inbox /\ Here \in Entry /\ Here = inbox[Current]
    BY <1>1, FlagKeepsBodies
  <1>4. TypeOK'
    BY <1>1, <1>3 DEF TypeOK, relayVars, collected, effects, truthVars
  <1>5. EffectsMatchFlags'
    <2>1. /\ inbox'[Current].archive = TRUE /\ inbox'[Current].window = Here.window
          /\ inbox'[Current].status = Here.status /\ inbox'[Current].done = Here.done
          /\ inbox'[Current].body = Here.body
      BY <1>3 DEF Entry
    <2>2. Here.body \in Malformed \cup archive
      BY DEF flag_archive
    <2> QED
      BY <1>1, <1>2, <1>3, <2>1, <2>2, ZenonT(60) DEF EffectsMatchFlags, effects
  <1> QED
    BY <1>2, <1>4, <1>5

\* The window effect of the row at hand.
LEMMA MirrorWindowStep ==
    ASSUME WebhooksInvariant, mirror_window
    PROVE  WebhooksInvariant'
  <1> USE DEF WebhooksInvariant
  <1>1. Working /\ Set("window") /\ UNCHANGED <<relayVars, collected, applied, archive, tick, up, truthVars>>
    BY DEF mirror_window
  <1>2. /\ RowsAreTrue' /\ MailboxIsASuffix' /\ AckedIsSettled' /\ TickIsSound'
        /\ PageFollowsCursor' /\ InboxIsTrue'
        /\ \A b : Stored(b)' = Stored(b)
        /\ Malformed' = Malformed
        /\ Stored(Here.body)
        /\ \A i \in DOMAIN inbox : inbox[i].body = Here.body => i = Current
    BY <1>1, FlagStep
  <1>3. /\ inbox' \in Seq(Entry) /\ DOMAIN inbox' = DOMAIN inbox
        /\ \A i \in DOMAIN inbox : inbox'[i].body = inbox[i].body
        /\ \A i \in DOMAIN inbox : i # Current => inbox'[i] = inbox[i]
        /\ inbox'[Current] = [Here EXCEPT !["window"] = TRUE]
        /\ Current \in DOMAIN inbox /\ Here \in Entry /\ Here = inbox[Current]
    BY <1>1, FlagKeepsBodies
  <1>4. Here.body \in Bodies /\ windowRuns \in [Bodies -> Nat]
        /\ \A i \in DOMAIN inbox : inbox[i].body \in Bodies
    <2>1. inbox \in Seq(Entry) /\ windowRuns \in [Bodies -> Nat]
      BY DEF TypeOK
    <2>2. \A i \in DOMAIN inbox : inbox[i] \in Entry
      BY <2>1
    <2> QED BY <1>3, <2>1, <2>2 DEF Entry
  <1>5. /\ windowRuns' \in [Bodies -> Nat]
        /\ \A b \in Bodies : b # Here.body => windowRuns'[b] = windowRuns[b]
        /\ windowRuns'[Here.body] = IF Here.body \in Malformed THEN windowRuns[Here.body]
                                    ELSE windowRuns[Here.body] + 1
    BY <1>4 DEF mirror_window
  <1>6. TypeOK'
    BY <1>1, <1>3, <1>5 DEF TypeOK, relayVars, collected, truthVars
  <1>7. EffectsMatchFlags'
    <2>1. /\ inbox'[Current].archive = Here.archive /\ inbox'[Current].window = TRUE
          /\ inbox'[Current].status = Here.status /\ inbox'[Current].done = Here.done
          /\ inbox'[Current].body = Here.body
      BY <1>3 DEF Entry
    <2>2. Here.archive /\ ~Here.window
      BY DEF mirror_window
    <2>3. ASSUME NEW i \in DOMAIN inbox
          PROVE  LET e == inbox'[i] IN
                 /\ (e.window => e.archive) /\ (e.status => e.window) /\ (e.done => e.status)
                 /\ e.body \in Malformed => e.body \notin archive /\ windowRuns'[e.body] = 0
                 /\ e.body \notin Malformed =>
                      /\ e.archive => e.body \in archive
                      /\ windowRuns'[e.body] = IF e.window THEN 1 ELSE 0
                      /\ e.status => Carries[e.body] \subseteq applied
      <3>1. CASE i = Current
        <4>1. /\ Here.status => Here.window
              /\ Here.done => Here.status
              /\ Here.body \in Malformed => Here.body \notin archive /\ windowRuns[Here.body] = 0
              /\ Here.body \notin Malformed => Here.body \in archive /\ windowRuns[Here.body] = 0
          BY <1>3, <2>2 DEF EffectsMatchFlags
        <4>2. PICK e : e = inbox'[i]
          OBVIOUS
        <4>3. e.body = Here.body /\ e.window /\ e.archive /\ ~e.status /\ ~e.done
          BY <2>1, <2>2, <3>1, <4>1, <4>2
        <4>4. e.body \in Malformed => e.body \notin archive /\ windowRuns'[e.body] = 0
          BY <1>5, <4>1, <4>3
        <4>5. e.body \notin Malformed => e.body \in archive /\ windowRuns'[e.body] = 1
          BY <1>5, <4>1, <4>3
        <4> QED
          BY <4>2, <4>3, <4>4, <4>5
      <3>2. CASE i # Current
        BY <1>2, <1>3, <1>4, <1>5, <3>2 DEF EffectsMatchFlags
      <3> QED BY <3>1, <3>2
    <2>4. \A b \in Bodies : ~Stored(b) => b \notin archive /\ windowRuns'[b] = 0
      BY <1>2, <1>5 DEF EffectsMatchFlags
    <2> QED
      BY <1>1, <1>2, <1>3, <2>3, <2>4 DEF EffectsMatchFlags
  <1> QED
    BY <1>2, <1>6, <1>7

\* The statuses of the row at hand are applied.
LEMMA ApplyStatusesStep ==
    ASSUME WebhooksInvariant, apply_statuses
    PROVE  WebhooksInvariant'
  <1> USE DEF WebhooksInvariant
  <1>1. Working /\ Set("status") /\ UNCHANGED <<relayVars, collected, archive, windowRuns, tick, up, truthVars>>
    BY DEF apply_statuses
  <1>2. /\ RowsAreTrue' /\ MailboxIsASuffix' /\ AckedIsSettled' /\ TickIsSound'
        /\ PageFollowsCursor' /\ InboxIsTrue'
        /\ \A b : Stored(b)' = Stored(b)
        /\ Malformed' = Malformed
    BY <1>1, FlagStep
  <1>3. /\ inbox' \in Seq(Entry) /\ DOMAIN inbox' = DOMAIN inbox
        /\ \A i \in DOMAIN inbox : inbox'[i].body = inbox[i].body
        /\ \A i \in DOMAIN inbox : i # Current => inbox'[i] = inbox[i]
        /\ inbox'[Current] = [Here EXCEPT !["status"] = TRUE]
        /\ Current \in DOMAIN inbox /\ Here \in Entry /\ Here = inbox[Current]
    BY <1>1, FlagKeepsBodies
  <1>4. applied' \subseteq Refs /\ applied \subseteq applied'
        /\ (Here.body \notin Malformed => Carries[Here.body] \subseteq applied')
    <2>1. Here.body \in Bodies
      BY <1>3 DEF Entry
    <2>2. Carries[Here.body] \subseteq Refs
      BY <2>1, WebhooksAssumption
    <2> QED BY <2>2 DEF apply_statuses, TypeOK
  <1>5. TypeOK'
    BY <1>1, <1>3, <1>4 DEF TypeOK, relayVars, collected, truthVars
  <1>6. EffectsMatchFlags'
    <2>1. /\ inbox'[Current].archive = Here.archive /\ inbox'[Current].window = Here.window
          /\ inbox'[Current].status = TRUE /\ inbox'[Current].done = Here.done
          /\ inbox'[Current].body = Here.body
      BY <1>3 DEF Entry
    <2>2. Here.window
      BY DEF apply_statuses
    <2>3. ASSUME NEW i \in DOMAIN inbox
          PROVE  LET e == inbox'[i] IN
                 /\ (e.window => e.archive) /\ (e.status => e.window) /\ (e.done => e.status)
                 /\ e.body \in Malformed => e.body \notin archive /\ windowRuns[e.body] = 0
                 /\ e.body \notin Malformed =>
                      /\ e.archive => e.body \in archive
                      /\ windowRuns[e.body] = IF e.window THEN 1 ELSE 0
                      /\ e.status => Carries[e.body] \subseteq applied'
      <3>1. CASE i = Current
        BY <1>3, <1>4, <2>1, <2>2, <3>1, ZenonT(60) DEF EffectsMatchFlags
      <3>2. CASE i # Current
        BY <1>3, <1>4, <3>2 DEF EffectsMatchFlags
      <3> QED BY <3>1, <3>2
    <2> QED
      BY <1>1, <1>2, <1>3, <2>3 DEF EffectsMatchFlags
  <1> QED
    BY <1>2, <1>5, <1>6

\* The row at hand is marked done.
LEMMA CompleteStep ==
    ASSUME WebhooksInvariant, complete
    PROVE  WebhooksInvariant'
  <1> USE DEF WebhooksInvariant
  <1>1. Working /\ Set("done") /\ UNCHANGED <<relayVars, collected, effects, tick, up, truthVars>>
    BY DEF complete
  <1>2. /\ RowsAreTrue' /\ MailboxIsASuffix' /\ AckedIsSettled' /\ TickIsSound'
        /\ PageFollowsCursor' /\ InboxIsTrue'
        /\ \A b : Stored(b)' = Stored(b)
        /\ Malformed' = Malformed
    BY <1>1, FlagStep
  <1>3. /\ inbox' \in Seq(Entry) /\ DOMAIN inbox' = DOMAIN inbox
        /\ \A i \in DOMAIN inbox : inbox'[i].body = inbox[i].body
        /\ \A i \in DOMAIN inbox : i # Current => inbox'[i] = inbox[i]
        /\ inbox'[Current] = [Here EXCEPT !["done"] = TRUE]
        /\ Current \in DOMAIN inbox /\ Here \in Entry /\ Here = inbox[Current]
    BY <1>1, FlagKeepsBodies
  <1>4. TypeOK'
    BY <1>1, <1>3 DEF TypeOK, relayVars, collected, effects, truthVars
  <1>5. EffectsMatchFlags'
    <2>1. /\ inbox'[Current].archive = Here.archive /\ inbox'[Current].window = Here.window
          /\ inbox'[Current].status = Here.status /\ inbox'[Current].done = TRUE
          /\ inbox'[Current].body = Here.body
      BY <1>3 DEF Entry
    <2>2. Here.status
      BY DEF complete
    <2> QED
      BY <1>1, <1>2, <1>3, <2>1, <2>2 DEF EffectsMatchFlags, effects
  <1> QED
    BY <1>2, <1>4, <1>5

\* Inbox.store keeps what the inbox promises, and the body is then in it.
LEMMA KeptBody ==
    ASSUME TypeOK, InboxIsTrue, EffectsMatchFlags, NEW b \in Bodies,
           b \notin Unverified, Carries[b] \subseteq made', made \subseteq made',
           inbox' = Kept(b), UNCHANGED kind, UNCHANGED effects
    PROVE  /\ inbox' \in Seq(Entry) /\ InboxIsTrue' /\ EffectsMatchFlags'
           /\ Stored(b)' /\ \A c : Stored(c) => Stored(c)'
  <1> DEFINE new == [body |-> b, archive |-> FALSE, window |-> FALSE,
                     status |-> FALSE, done |-> FALSE]
  <1>1. inbox \in Seq(Entry) /\ new \in Entry
    BY DEF TypeOK, Entry
  <1>2. Unverified' = Unverified /\ Malformed' = Malformed
    BY DEF Unverified, Malformed
  <1>3. CASE Stored(b)
    <2>1. inbox' = inbox
      BY <1>3 DEF Kept
    <2>2. \A c : Stored(c)' = Stored(c)
      BY <2>1 DEF Stored
    <2>3. InboxIsTrue'
      BY <1>2, <2>1 DEF InboxIsTrue
    <2>4. EffectsMatchFlags'
      BY <1>2, <2>1, <2>2 DEF EffectsMatchFlags, effects
    <2> QED
      BY <1>1, <1>3, <2>1, <2>2, <2>3, <2>4
  <1>4. CASE ~Stored(b)
    <2>1. inbox' = Append(inbox, new)
      BY <1>4 DEF Kept
    <2>2. PICK n \in Nat : n = Len(inbox)
      BY <1>1
    <2>3. PICK e \in Entry : e = new
      BY <1>1
    <2>4. /\ inbox' \in Seq(Entry) /\ Len(inbox') = n + 1
          /\ \A i \in 1..n : inbox'[i] = inbox[i]
          /\ inbox'[n + 1] = e
      BY <1>1, <2>1, <2>2, <2>3, AppendProperties
    <2>5. /\ DOMAIN inbox = 1..n /\ DOMAIN inbox' = 1..(n + 1)
          /\ n + 1 \in DOMAIN inbox' /\ DOMAIN inbox \subseteq DOMAIN inbox'
          /\ \A i \in DOMAIN inbox' : i # n + 1 => i \in DOMAIN inbox
          /\ \A i \in DOMAIN inbox : inbox'[i] = inbox[i]
      BY <1>1, <2>2, <2>4
    <2>6. e.body = b /\ ~e.archive /\ ~e.window /\ ~e.status /\ ~e.done
      BY <2>3
    <2>7. Stored(b)' /\ \A c : Stored(c) => Stored(c)'
      BY <2>4, <2>5, <2>6 DEF Stored
    <2>8. \A i \in DOMAIN inbox : inbox[i].body # b
      BY <1>4 DEF Stored
    <2>9. InboxIsTrue'
      BY <1>2, <2>4, <2>5, <2>6, <2>8 DEF InboxIsTrue
    <2>10. EffectsMatchFlags'
      <3>1. b \notin archive /\ windowRuns[b] = 0
        BY <1>4 DEF EffectsMatchFlags
      <3> QED
        BY <1>2, <2>4, <2>5, <2>6, <2>7, <3>1 DEF EffectsMatchFlags, effects
    <2> QED
      BY <2>4, <2>7, <2>9, <2>10
  <1> QED
    BY <1>3, <1>4

\* Steps that leave the inbox alone keep what it promises.
LEMMA InboxFrame ==
    ASSUME InboxIsTrue, EffectsMatchFlags, made \subseteq made',
           UNCHANGED <<inbox, kind, effects>>
    PROVE  InboxIsTrue' /\ EffectsMatchFlags' /\ \A c : Stored(c) => Stored(c)'
  <1>1. Unverified' = Unverified /\ Malformed' = Malformed
    BY DEF Unverified, Malformed
  <1>2. \A c : Stored(c)' = Stored(c)
    BY DEF Stored
  <1>3. InboxIsTrue'
    BY <1>1 DEF InboxIsTrue
  <1>4. EffectsMatchFlags'
    BY <1>1, <1>2 DEF EffectsMatchFlags, effects
  <1> QED BY <1>2, <1>3, <1>4

\* What is settled stays settled.
LEMMA SettledStays ==
    ASSUME TypeOK, purged \in Nat, purged' \in Nat, purged <= purged',
           quarantine \subseteq quarantine',
           \A s \in 1..top : rowOf'[s] = rowOf[s],
           \A c : Stored(c) => Stored(c)',
           NEW s \in 1..top, Settled(s)
    PROVE  Settled(s)'
  BY DEF Settled

\* A true row stays true while rows and reports are only added.
LEMMA RowStaysTrue ==
    ASSUME TypeOK, top' \in Nat, top <= top', \A s \in 1..top : rowOf'[s] = rowOf[s],
           made \subseteq made', UNCHANGED kind, NEW r, RowIsTrue(r)
    PROVE  RowIsTrue(r)'
  <1>1. Unverified' = Unverified
    BY DEF Unverified
  <1> QED
    BY <1>1 DEF RowIsTrue, TypeOK

\* Posting a body makes its reports, if the body verifies.
LEMMA PostingAdds ==
    ASSUME TypeOK, NEW b \in Bodies, Posting(b)
    PROVE  /\ made' \subseteq Refs /\ made \subseteq made'
           /\ b \in Unverified \/ Carries[b] \subseteq made'
  <1>1. Carries[b] \subseteq Refs
    BY WebhooksAssumption
  <1> QED
    BY <1>1 DEF Posting, TypeOK

\* Mailbox.store preserves the invariant.
LEMMA StoreStep ==
    ASSUME WebhooksInvariant, NEW b \in Bodies, store(b)
    PROVE  WebhooksInvariant'
  <1> USE DEF WebhooksInvariant
  <1>1. PICK n \in Nat \ {0} : n = Parts[b]
    BY WebhooksAssumption
  <1>2. PICK t \in Nat : t = top
    BY DEF TypeOK
  <1>3. PICK rows : rows = [i \in 1..n |-> [seq |-> t + i, body |-> b, batch |-> t + 1,
                                            part |-> i - 1, parts |-> n]]
    OBVIOUS
  <1>4. PICK ids : ids = [i \in 1..n |-> b]
    OBVIOUS
  <1>5. /\ mail' = mail \o rows /\ top' = t + n /\ rowOf' = rowOf \o ids
        /\ Posting(b) /\ Answer(b)
        /\ UNCHANGED <<purged, collected, inbox, effects, tick, up, faults, kind>>
    BY <1>1, <1>2, <1>3, <1>4 DEF store
  <1>6. rows \in Seq(Row) /\ Len(rows) = n /\ ids \in Seq(Bodies) /\ Len(ids) = n
        /\ \A i \in 1..n : ids[i] = b
    <2>1. \A i \in 1..n : [seq |-> t + i, body |-> b, batch |-> t + 1, part |-> i - 1,
                           parts |-> n] \in Row
      BY <1>1, <1>2 DEF Row
    <2>2. rows \in [1..n -> Row] /\ ids \in [1..n -> Bodies]
      BY <1>3, <1>4, <2>1
    <2>3. rows \in Seq(Row) /\ ids \in Seq(Bodies)
      BY <1>1, <2>2, SeqDef
    <2>4. Len(rows) \in Nat /\ Len(ids) \in Nat /\ 1..Len(rows) = 1..n /\ 1..Len(ids) = 1..n
      BY <2>2, <2>3, LenProperties
    <2>5. Len(rows) = n /\ Len(ids) = n
      BY <1>1, <2>4
    <2> QED
      BY <1>4, <2>3, <2>5
  <1>7. /\ mail \in Seq(Row) /\ rowOf \in Seq(Bodies) /\ Len(rowOf) = t
        /\ made' \subseteq Refs /\ made \subseteq made'
        /\ b \in Unverified \/ Carries[b] \subseteq made'
    BY <1>2, <1>5, PostingAdds DEF TypeOK
  <1>8. PICK l \in Nat : l = Len(mail)
    BY <1>7
  <1>9. /\ mail' \in Seq(Row) /\ Len(mail') = l + n
        /\ \A i \in 1..(l + n) : mail'[i] = IF i <= l THEN mail[i] ELSE rows[i - l]
    <2>1. PICK m : m = mail \o rows
      OBVIOUS
    <2>2. /\ m \in Seq(Row) /\ Len(m) = Len(mail) + Len(rows)
          /\ \A i \in 1..Len(mail) + Len(rows) :
                m[i] = IF i <= Len(mail) THEN mail[i] ELSE rows[i - Len(mail)]
      BY <1>6, <1>7, <2>1, ConcatProperties, Zenon
    <2>3. m = mail'
      BY <1>5, <2>1
    <2> QED
      BY <1>6, <1>8, <2>2, <2>3
  <1>10. /\ rowOf' \in Seq(Bodies) /\ Len(rowOf') = t + n
         /\ \A i \in 1..(t + n) : rowOf'[i] = IF i <= t THEN rowOf[i] ELSE ids[i - t]
    <2>1. PICK m : m = rowOf \o ids
      OBVIOUS
    <2>2. /\ m \in Seq(Bodies) /\ Len(m) = Len(rowOf) + Len(ids)
          /\ \A i \in 1..Len(rowOf) + Len(ids) :
                m[i] = IF i <= Len(rowOf) THEN rowOf[i] ELSE ids[i - Len(rowOf)]
      BY <1>6, <1>7, <2>1, ConcatProperties, Zenon
    <2>3. m = rowOf'
      BY <1>5, <2>1
    <2> QED
      BY <1>6, <1>7, <2>2, <2>3
  <1>11. \A s \in 1..top : rowOf'[s] = rowOf[s]
    BY <1>2, <1>10
  <1>12. \A s \in t + 1..t + n : rowOf'[s] = b
    <2>1. \A s \in t + 1..t + n : s \in 1..(t + n) /\ ~(s <= t) /\ s - t \in 1..n
      BY <1>1, <1>2
    <2> QED BY <1>6, <1>10, <2>1
  <1>13. TypeOK'
    <2>1. answered' \subseteq Bodies
      BY <1>5 DEF Answer, TypeOK
    <2>2. purged' \in 0..top' /\ acked' \in 0..top' /\ quarantine' \subseteq 1..top'
          /\ gaps' \subseteq 1..top' /\ known' \in 0..purged'
      BY <1>1, <1>2, <1>5, SMTT(60) DEF TypeOK, collected
    <2>3. top' \in Nat /\ top' = t + n
      BY <1>1, <1>2, <1>5
    <2> QED
      BY <1>5, <1>7, <1>9, <1>10, <2>1, <2>2, <2>3 DEF TypeOK, effects
  <1>14. InboxIsTrue' /\ EffectsMatchFlags' /\ \A c : Stored(c) => Stored(c)'
    BY <1>5, <1>7, InboxFrame
  <1>15. top' \in Nat /\ top <= top' /\ kind' = kind /\ tick' = tick
    BY <1>1, <1>2, <1>5
  <1>16. \A r : RowIsTrue(r) => RowIsTrue(r)'
    BY <1>7, <1>11, <1>15, RowStaysTrue
  <1>17. \A i \in 1..n : RowIsTrue(rows[i])'
    <2> SUFFICES ASSUME NEW i \in 1..n
                 PROVE  RowIsTrue(rows[i])'
      OBVIOUS
    <2>1. PICK r : r = rows[i]
      OBVIOUS
    <2>2. r.seq = t + i /\ r.batch = t + 1 /\ r.body = b
      BY <1>3, <2>1
    <2>3. t + i \in t + 1..t + n /\ t + 1 \in t + 1..t + n
      BY <1>1, <1>2
    <2>4. t + i \in 1..top' /\ t + 1 \in 1..top'
      BY <1>1, <1>2, <1>5
    <2>5. Unverified' = Unverified
      BY <1>15 DEF Unverified
    <2>6. RowIsTrue(r)'
      BY <1>7, <1>12, <2>2, <2>3, <2>4, <2>5 DEF RowIsTrue
    <2> QED
      BY <2>1, <2>6
  <1>18. RowsAreTrue'
    <2>1. ASSUME NEW i \in DOMAIN mail'
          PROVE  RowIsTrue(mail[i])'
      <3>1. i \in 1..(l + n) /\ (i > l => i - l \in 1..n) /\ (i <= l => i \in DOMAIN mail)
        BY <1>1, <1>7, <1>8, <1>9, SMTT(60)
      <3>2. PICK r : r = mail'[i]
        OBVIOUS
      <3>3. CASE i <= l
        <4>1. RowIsTrue(r)
          BY <1>9, <3>1, <3>2, <3>3 DEF RowsAreTrue
        <4> QED BY <1>16, <3>2, <4>1 DEF RowIsTrue
      <3>4. CASE i > l
        <4>1. r = rows[i - l]
          BY <1>8, <1>9, <3>1, <3>2, <3>4
        <4> QED BY <1>8, <1>17, <3>1, <3>2, <3>4, <4>1 DEF RowIsTrue
      <3> QED BY <1>8, <3>1, <3>3, <3>4
    <2>2. ASSUME NEW i \in DOMAIN tick.page
          PROVE  RowIsTrue(tick.page[i])'
      <3>1. PICK r : r = tick.page[i]
        OBVIOUS
      <3> QED BY <1>15, <1>16, <3>1 DEF RowsAreTrue, RowIsTrue
    <2>3. ASSUME NEW i \in DOMAIN tick.pending
          PROVE  RowIsTrue(tick.pending[i])'
      <3>1. PICK r : r = tick.pending[i]
        OBVIOUS
      <3> QED BY <1>15, <1>16, <3>1 DEF RowsAreTrue, RowIsTrue
    <2> QED
      BY <1>15, <2>1, <2>2, <2>3 DEF RowsAreTrue
  <1>19. MailboxIsASuffix'
    <2>1. top' - Len(mail') = t - l /\ top - Len(mail) = t - l
      <3>1. (t + n) - (l + n) = t - l
        BY <1>1, <1>2, <1>8, SMTT(60)
      <3> QED BY <1>2, <1>5, <1>8, <1>9, <3>1
    <2>2. ASSUME NEW i \in DOMAIN mail'
          PROVE  mail'[i].seq = t - l + i
      <3>1. i \in 1..(l + n) /\ (i > l => i - l \in 1..n) /\ (i <= l => i \in DOMAIN mail)
        BY <1>1, <1>7, <1>8, <1>9, SMTT(60)
      <3>2. CASE i <= l
        BY <1>9, <2>1, <3>1, <3>2 DEF MailboxIsASuffix
      <3>3. CASE i > l
        <4>1. mail'[i] = rows[i - l]
          BY <1>8, <1>9, <3>1, <3>3
        <4>2. rows[i - l].seq = t + (i - l)
          BY <1>3, <3>1, <3>3
        <4> QED BY <1>2, <1>8, <3>1, <4>1, <4>2, SMTT(60)
      <3> QED BY <1>8, <3>1, <3>2, <3>3
    <2>3. l + n <= t + n /\ purged' <= t - l
          /\ (t - l <= purged' \/ t - l <= acked')
      BY <1>1, <1>2, <1>5, <1>8, <2>1, SMTT(60) DEF MailboxIsASuffix, collected
    <2> QED
      BY <1>5, <1>9, <2>1, <2>2, <2>3 DEF MailboxIsASuffix
  <1>20. \A s \in 1..top : Settled(s) => Settled(s)'
    <2>1. purged \in Nat /\ purged' = purged /\ quarantine' = quarantine
      BY <1>5 DEF TypeOK, collected
    <2> QED
      BY <1>11, <1>14, <2>1, SettledStays
  <1>21. AckedIsSettled'
    BY <1>5, <1>20 DEF AckedIsSettled, TypeOK, collected
  <1>22. TickIsSound'
    <2>1. acked' = acked
      BY <1>5 DEF collected
    <2>2. PICK k \in Nat : k = tick.cursor
      BY DEF TypeOK, Tick
    <2>3. k <= top /\ k <= top'
      BY <1>1, <1>2, <1>5, <2>2 DEF TickIsSound
    <2>4. \A s \in 1..k : Settled(s)' \/ s \in Seqs(tick.pending)
      BY <1>2, <1>20, <2>2, <2>3 DEF TickIsSound
    <2> QED
      BY <1>15, <2>1, <2>2, <2>3, <2>4 DEF TickIsSound, Seqs, noTick
  <1>23. PageFollowsCursor'
    BY <1>5, <1>15 DEF PageFollowsCursor, Greater, collected
  <1> QED
    BY <1>13, <1>14, <1>18, <1>19, <1>21, <1>22, <1>23

\* The listener preserves the invariant: it only adds a body to the inbox.
LEMMA PostStep ==
    ASSUME WebhooksInvariant, NEW b \in Bodies, post(b)
    PROVE  WebhooksInvariant'
  <1> USE DEF WebhooksInvariant
  <1>1. /\ inbox' = Kept(b) /\ b \notin Unverified /\ Posting(b) /\ Answer(b)
        /\ UNCHANGED <<relayVars, collected, effects, tick, up, faults, kind>>
    BY DEF post
  <1>2. /\ made' \subseteq Refs /\ made \subseteq made' /\ Carries[b] \subseteq made'
    BY <1>1, PostingAdds
  <1>3. /\ inbox' \in Seq(Entry) /\ InboxIsTrue' /\ EffectsMatchFlags'
        /\ \A c : Stored(c) => Stored(c)'
    BY <1>1, <1>2, KeptBody
  <1>4. UNCHANGED <<mail, top, purged, rowOf, acked, known, quarantine, gaps, tick, kind>>
    BY <1>1 DEF relayVars, collected
  <1>5. TypeOK'
    BY <1>1, <1>2, <1>3, <1>4 DEF TypeOK, effects, Answer
  <1>6. \A r : RowIsTrue(r) => RowIsTrue(r)'
    <2>1. Unverified' = Unverified
      BY <1>4 DEF Unverified
    <2> QED BY <1>2, <1>4, <2>1 DEF RowIsTrue
  <1>7. RowsAreTrue'
    <2>1. ASSUME NEW i \in DOMAIN mail PROVE RowIsTrue(mail[i])'
      <3>1. PICK r : r = mail[i]
        OBVIOUS
      <3> QED BY <1>4, <1>6, <3>1 DEF RowsAreTrue, RowIsTrue
    <2>2. ASSUME NEW i \in DOMAIN tick.page PROVE RowIsTrue(tick.page[i])'
      <3>1. PICK r : r = tick.page[i]
        OBVIOUS
      <3> QED BY <1>4, <1>6, <3>1 DEF RowsAreTrue, RowIsTrue
    <2>3. ASSUME NEW i \in DOMAIN tick.pending PROVE RowIsTrue(tick.pending[i])'
      <3>1. PICK r : r = tick.pending[i]
        OBVIOUS
      <3> QED BY <1>4, <1>6, <3>1 DEF RowsAreTrue, RowIsTrue
    <2> QED
      BY <1>4, <2>1, <2>2, <2>3 DEF RowsAreTrue
  <1>8. MailboxIsASuffix'
    BY <1>4 DEF MailboxIsASuffix
  <1>9. \A s : Settled(s) => Settled(s)'
    BY <1>3, <1>4 DEF Settled
  <1>10. AckedIsSettled'
    BY <1>4, <1>9 DEF AckedIsSettled
  <1>11. TickIsSound'
    BY <1>4, <1>9 DEF TickIsSound, Seqs, noTick
  <1>12. PageFollowsCursor'
    BY <1>4 DEF PageFollowsCursor, Greater
  <1> QED
    BY <1>3, <1>5, <1>7, <1>8, <1>10, <1>11, <1>12

\* What is left of the mailbox after its first n rows are gone is again without
\* a gap.
LEMMA CutMailbox ==
    ASSUME TypeOK, MailboxIsASuffix, NEW n \in 0..Len(mail),
           mail' = SubSeq(mail, n + 1, Len(mail)), top' = top
    PROVE  /\ mail' \in Seq(Row) /\ Len(mail') = Len(mail) - n
           /\ top' - Len(mail') = top - Len(mail) + n
           /\ \A i \in DOMAIN mail' : n + i \in DOMAIN mail /\ mail'[i] = mail[n + i]
           /\ \A i \in DOMAIN mail' : mail'[i].seq = top' - Len(mail') + i
  <1>1. mail \in Seq(Row) /\ top \in Nat
    BY DEF TypeOK
  <1>2. PICK l \in Nat : l = Len(mail)
    BY <1>1
  <1>3. \A i \in n + 1..l : mail[i] \in Row
    BY <1>1, <1>2
  <1>4. PICK m : m = SubSeq(mail, n + 1, l)
    OBVIOUS
  <1>5. n + 1 \in Int /\ l \in Int
    BY <1>2
  <1>6. /\ m \in Seq(Row)
        /\ Len(m) = IF n + 1 <= l THEN l - (n + 1) + 1 ELSE 0
        /\ \A i \in 1..l - (n + 1) + 1 : m[i] = mail[n + 1 + i - 1]
    <2>1. PICK k \in Int : k = n + 1
      BY <1>5
    <2>2. \A i \in k..l : mail[i] \in Row
      BY <1>3, <2>1
    <2>3. /\ SubSeq(mail, k, l) \in Seq(Row)
          /\ Len(SubSeq(mail, k, l)) = IF k <= l THEN l - k + 1 ELSE 0
          /\ \A i \in 1..l - k + 1 : SubSeq(mail, k, l)[i] = mail[k + i - 1]
      BY <1>5, <2>1, <2>2, SubSeqProperties
    <2> QED
      BY <1>4, <2>1, <2>3
  <1>7. Len(m) = l - n
    BY <1>2, <1>6
  <1>8. DOMAIN m = 1..(l - n)
    BY <1>6, <1>7
  <1>9. ASSUME NEW i \in DOMAIN m
        PROVE  n + i \in DOMAIN mail /\ m[i] = mail[n + i]
    <2>1. i \in 1..l - (n + 1) + 1 /\ n + 1 + i - 1 = n + i /\ n + i \in 1..l
      BY <1>2, <1>8
    <2> QED
      BY <1>1, <1>2, <1>6, <2>1
  <1>10. m = mail'
    BY <1>2, <1>4
  <1>11. top' - Len(mail') = top - Len(mail) + n
    <2>1. top - (l - n) = top - l + n
      BY <1>1, <1>2
    <2> QED BY <1>2, <1>7, <1>10, <2>1
  <1>12. \A i \in DOMAIN m : m[i].seq = top' - Len(mail') + i
    BY <1>1, <1>2, <1>8, <1>9, <1>11 DEF MailboxIsASuffix
  <1> QED
    BY <1>2, <1>6, <1>7, <1>9, <1>10, <1>11, <1>12

\* Mailbox.alarm preserves the invariant: what it removes it says it purged.
LEMMA AlarmStep ==
    ASSUME WebhooksInvariant, alarm
    PROVE  WebhooksInvariant'
  <1> USE DEF WebhooksInvariant
  <1>1. PICK n \in DOMAIN mail : /\ mail' = SubSeq(mail, n + 1, Len(mail))
                                 /\ purged' = mail[n].seq
    BY DEF alarm
  <1>2. mail \in Seq(Row) /\ n \in 1..Len(mail) /\ n \in 0..Len(mail) /\ Len(mail) \in Nat
        /\ top \in Nat /\ purged \in Nat /\ acked \in Nat
    BY <1>1 DEF TypeOK
  <1>3. UNCHANGED <<top, rowOf, acked, known, quarantine, gaps, inbox, applied, archive,
                    windowRuns, tick, up, answered, made, kind>>
    BY DEF alarm, collected, effects
  <1>4. /\ mail' \in Seq(Row) /\ Len(mail') = Len(mail) - n
        /\ top' - Len(mail') = top - Len(mail) + n
        /\ \A i \in DOMAIN mail' : n + i \in DOMAIN mail /\ mail'[i] = mail[n + i]
        /\ \A i \in DOMAIN mail' : mail'[i].seq = top' - Len(mail') + i
    BY <1>1, <1>2, <1>3, CutMailbox
  <1>5. purged' = top - Len(mail) + n
    BY <1>1 DEF MailboxIsASuffix
  <1>6. purged <= purged' /\ purged' \in 0..top /\ purged' \in Nat
    BY <1>2, <1>5 DEF MailboxIsASuffix
  <1>7. TypeOK'
    <2>1. known' \in 0..purged'
      BY <1>3, <1>6 DEF TypeOK
    <2>2. faults' \in Nat
      BY DEF alarm, TypeOK
    <2> QED
      BY <1>3, <1>4, <1>6, <2>1, <2>2 DEF TypeOK
  <1>8. InboxIsTrue' /\ EffectsMatchFlags' /\ \A c : Stored(c) => Stored(c)'
    BY <1>3, InboxFrame DEF effects
  <1>9. \A r : RowIsTrue(r)' = RowIsTrue(r)
    <2>1. Unverified' = Unverified
      BY <1>3 DEF Unverified
    <2> QED BY <1>3, <2>1 DEF RowIsTrue
  <1>10. RowsAreTrue'
    <2>1. ASSUME NEW i \in DOMAIN mail' PROVE RowIsTrue(mail[i])'
      <3>1. PICK r : r = mail'[i]
        OBVIOUS
      <3>2. RowIsTrue(r)
        BY <1>4, <3>1 DEF RowsAreTrue
      <3> QED BY <1>9, <3>1, <3>2 DEF RowIsTrue
    <2> QED
      BY <1>3, <1>9, <2>1 DEF RowsAreTrue
  <1>11. MailboxIsASuffix'
    <2>1. Len(mail') <= top' /\ purged' <= top' - Len(mail')
          /\ top' - Len(mail') <= purged'
      BY <1>2, <1>3, <1>4, <1>5, SMTT(60) DEF MailboxIsASuffix
    <2> QED
      BY <1>4, <2>1 DEF MailboxIsASuffix
  <1>12. \A s \in 1..top : Settled(s) => Settled(s)'
    BY <1>2, <1>3, <1>6, <1>8 DEF Settled
  <1>13. AckedIsSettled'
    BY <1>3, <1>12 DEF AckedIsSettled, TypeOK
  <1>14. TickIsSound'
    <2>1. PICK k \in Nat : k = tick.cursor
      BY DEF TypeOK, Tick
    <2>2. \A s \in 1..k : Settled(s)' \/ s \in Seqs(tick.pending)
      BY <1>2, <1>12, <2>1 DEF TickIsSound
    <2> QED
      BY <1>3, <2>1, <2>2 DEF TickIsSound, Seqs, noTick
  <1>15. PageFollowsCursor'
    BY <1>3 DEF PageFollowsCursor, Greater
  <1> QED
    BY <1>7, <1>8, <1>10, <1>11, <1>13, <1>14, <1>15

\* A crash, a restart and a pull that fails lose at most the tick under way.
LEMMA LostTickStep ==
    ASSUME WebhooksInvariant, tick' = noTick, up' \in BOOLEAN, faults' \in Nat,
           UNCHANGED <<relayVars, collected, inbox, effects, answered, made, kind>>
    PROVE  WebhooksInvariant'
  <1> USE DEF WebhooksInvariant
  <1>1. UNCHANGED <<mail, top, purged, rowOf, acked, known, quarantine, gaps, inbox, applied,
                    archive, windowRuns, answered, made, kind>>
    BY DEF relayVars, collected, effects
  <1>2. /\ noTick \in Tick /\ noTick.phase = "off" /\ noTick.cursor = 0
        /\ noTick.page = <<>> /\ noTick.pending = <<>> /\ noTick.settled = 0
    BY DEF noTick, Tick
  <1>3. TypeOK'
    BY <1>1, <1>2 DEF TypeOK
  <1>4. InboxIsTrue' /\ EffectsMatchFlags' /\ \A c : Stored(c) => Stored(c)'
    BY <1>1, InboxFrame DEF effects
  <1>5. \A r : RowIsTrue(r)' = RowIsTrue(r)
    <2>1. Unverified' = Unverified
      BY <1>1 DEF Unverified
    <2> QED BY <1>1, <2>1 DEF RowIsTrue
  <1>6. RowsAreTrue'
    <2>1. DOMAIN tick'.page = {} /\ DOMAIN tick'.pending = {}
      BY <1>2
    <2> QED
      BY <1>1, <1>5, <2>1 DEF RowsAreTrue
  <1>7. MailboxIsASuffix'
    BY <1>1 DEF MailboxIsASuffix
  <1>8. AckedIsSettled'
    BY <1>1, <1>4 DEF AckedIsSettled, Settled
  <1>9. TickIsSound' /\ PageFollowsCursor'
    <2>1. DOMAIN tick'.page = {} /\ DOMAIN tick'.pending = {} /\ tick'.page = <<>>
          /\ tick'.phase = "off" /\ tick'.cursor = 0 /\ noTick' = noTick /\ gaps' = {}
      BY <1>1, <1>2 DEF noTick, PageFollowsCursor
    <2>2. 0 <= top' /\ 1..0 = {}
      BY <1>1 DEF TypeOK
    <2> QED
      BY <2>1, <2>2 DEF TickIsSound, PageFollowsCursor
  <1> QED
    BY <1>3, <1>4, <1>6, <1>7, <1>8, <1>9

\* Where a pull reads from: every row up to there is settled or held.
LEMMA CursorOfPull ==
    ASSUME WebhooksInvariant, tick.phase \in {"off", "pull"},
           NEW c, c = IF tick.phase = "off" THEN acked ELSE tick.cursor
    PROVE  /\ c \in Nat /\ c <= top /\ acked <= c
           /\ \A s \in 1..c : Settled(s) \/ s \in Seqs(tick.pending)
           /\ \A i \in DOMAIN tick.pending : tick.pending[i].seq <= c
  <1> USE DEF WebhooksInvariant
  <1>1. CASE tick.phase = "off"
    <2>1. c = acked /\ acked \in Nat /\ acked <= top
      BY <1>1 DEF TypeOK
    <2>2. tick.pending = <<>> /\ DOMAIN tick.pending = {}
      BY <1>1 DEF TickIsSound, noTick
    <2> QED
      BY <2>1, <2>2 DEF AckedIsSettled
  <1>2. CASE tick.phase = "pull"
    BY <1>2 DEF TickIsSound, TypeOK, Tick
  <1> QED BY <1>1, <1>2

\* The rows of a page are the ones of the mailbox past the cursor, in order.
LEMMA PageOfMailbox ==
    ASSUME WebhooksInvariant, NEW c \in Nat, acked <= c,
           NEW n \in 0..Len(mail) - 1, NEW m \in n + 1..LowerOf(Len(mail), n + PageRows),
           Past(c, n), NEW p, p = SubSeq(mail, n + 1, m)
    PROVE  /\ p \in Seq(Row) /\ p # <<>>
           /\ \A i \in DOMAIN p : RowIsTrue(p[i])
           /\ \A i \in DOMAIN p : p[i].seq = p[1].seq + i - 1
           /\ c < p[1].seq
           /\ p[1].seq <= c + 1 \/ p[1].seq <= purged + 1
  <1> USE DEF WebhooksInvariant
  <1>1. mail \in Seq(Row) /\ top \in Nat /\ purged \in Nat /\ acked \in Nat /\ PageRows \in Nat
    BY WebhooksAssumption DEF TypeOK
  <1>2. PICK l \in Nat : l = Len(mail)
    BY <1>1
  <1>3. n \in Nat /\ m \in Nat /\ n < m /\ m <= l
    BY <1>1, <1>2 DEF LowerOf
  <1>4. PICK k \in Int : k = n + 1
    BY <1>3
  <1>5. \A i \in k..m : mail[i] \in Row
    BY <1>1, <1>2, <1>3, <1>4
  <1>6. /\ SubSeq(mail, k, m) \in Seq(Row)
        /\ Len(SubSeq(mail, k, m)) = IF k <= m THEN m - k + 1 ELSE 0
        /\ \A i \in 1..m - k + 1 : SubSeq(mail, k, m)[i] = mail[k + i - 1]
    BY <1>3, <1>4, <1>5, SubSeqProperties
  <1>7. p \in Seq(Row) /\ Len(p) = m - n /\ DOMAIN p = 1..(m - n) /\ 1 \in DOMAIN p
    BY <1>3, <1>4, <1>6
  <1>8. ASSUME NEW i \in DOMAIN p
        PROVE  n + i \in DOMAIN mail /\ p[i] = mail[n + i]
    <2>1. i \in 1..m - k + 1 /\ k + i - 1 = n + i /\ n + i \in 1..l
      BY <1>2, <1>3, <1>4, <1>7
    <2> QED
      BY <1>1, <1>2, <1>4, <1>6, <2>1, SMTT(60)
  <1>9. PICK g \in Int : g = top - l
    <2>1. top - l \in Int
      BY <1>1, <1>2
    <2> QED BY <2>1
  <1>10. \A i \in DOMAIN mail : mail[i].seq = g + i
    BY <1>2, <1>9 DEF MailboxIsASuffix
  <1>11. p[1] = mail[n + 1] /\ n + 1 \in DOMAIN mail /\ p[1].seq = g + n + 1
    BY <1>3, <1>7, <1>8, <1>9, <1>10
  <1>12. \A i \in DOMAIN p : p[i].seq = p[1].seq + i - 1
    <2>1. \A i \in DOMAIN p : p[i].seq = g + (n + i) /\ i \in Nat
      BY <1>3, <1>7, <1>8, <1>10
    <2> QED BY <1>3, <1>9, <1>11, <2>1, SMTT(60)
  <1>13. c < p[1].seq
    BY <1>3, <1>11, SMTT(60) DEF Past
  <1>14. p[1].seq <= c + 1 \/ p[1].seq <= purged + 1
    <2>1. CASE n = 0
      BY <1>1, <1>2, <1>9, <1>11, <2>1 DEF MailboxIsASuffix
    <2>2. CASE n # 0
      <3>1. n \in DOMAIN mail /\ ~(n < n)
        BY <1>1, <1>2, <1>3, <2>2
      <3>2. ~(c < g + n)
        BY <1>10, <3>1 DEF Past
      <3> QED BY <1>3, <1>9, <1>11, <3>2
    <2> QED BY <2>1, <2>2
  <1>15. \A i \in DOMAIN p : RowIsTrue(p[i])
    BY <1>8 DEF RowsAreTrue
  <1>16. p # <<>>
    BY <1>7, HasFirst
  <1>17. p \in Seq(Row)
    BY <1>7
  <1> HIDE DEF WebhooksInvariant
  <1> QED
    BY <1>12, <1>13, <1>14, <1>15, <1>16, <1>17, Zenon

\* What every step of a tick leaves alone, and what follows from it.
LEMMA TickFrame ==
    ASSUME WebhooksInvariant, UNCHANGED <<top, rowOf, made, kind>>,
           purged \in Nat, purged' \in Nat, purged <= purged',
           quarantine \subseteq quarantine', \A c : Stored(c) => Stored(c)'
    PROVE  /\ \A r : RowIsTrue(r)' = RowIsTrue(r)
           /\ \A s \in 1..top : Settled(s) => Settled(s)'
           /\ acked' = acked => AckedIsSettled'
  <1> USE DEF WebhooksInvariant
  <1>1. Unverified' = Unverified
    BY DEF Unverified
  <1>2. \A r : RowIsTrue(r)' = RowIsTrue(r)
    BY <1>1 DEF RowIsTrue
  <1>3. \A s \in 1..top : Settled(s) => Settled(s)'
    BY DEF Settled
  <1>4. acked' = acked => AckedIsSettled'
    BY <1>3 DEF AckedIsSettled, TypeOK
  <1> QED BY <1>2, <1>3, <1>4

\* A pull preserves the invariant.
LEMMA PullStep ==
    ASSUME WebhooksInvariant, pull
    PROVE  WebhooksInvariant'
  <1> USE DEF WebhooksInvariant
  <1>1. PICK c : c = IF tick.phase = "off" THEN acked ELSE tick.cursor
    OBVIOUS
  <1>2. /\ c \in Nat /\ c <= top /\ acked <= c
        /\ \A s \in 1..c : Settled(s) \/ s \in Seqs(tick.pending)
        /\ \A i \in DOMAIN tick.pending : tick.pending[i].seq <= c
    <2>1. tick.phase \in {"off", "pull"}
      BY DEF pull
    <2> QED BY <1>1, <2>1, CursorOfPull
  <1>3. UNCHANGED <<mail, top, purged, rowOf, acked, gaps, inbox, applied, archive,
                    windowRuns, up, answered, made, faults, kind>>
    BY DEF pull, relayVars, effects, truthVars
  <1>4. purged \in Nat /\ known \in 0..purged /\ acked \in Nat /\ top \in Nat
    BY DEF TypeOK
  <1>5. known' = purged /\ known' \in 0..purged'
    <2>1. known' = Greater(known, purged)
      BY DEF pull
    <2> QED BY <1>3, <1>4, <2>1 DEF Greater
  <1>6. InboxIsTrue' /\ EffectsMatchFlags' /\ \A b : Stored(b) => Stored(b)'
    BY <1>3, InboxFrame DEF effects
  <1>7. MailboxIsASuffix'
    BY <1>3 DEF MailboxIsASuffix
  <1>8. tick \in Tick /\ DOMAIN tick.pending = 1..Len(tick.pending)
        /\ tick.pending \in Seq(Row)
    BY DEF TypeOK, Tick
  <1>9. CASE \E n \in 0..Len(mail) - 1 : \E m \in n + 1..LowerOf(Len(mail), n + PageRows) :
               /\ Past(c, n)
               /\ tick' = [tick EXCEPT !.phase = "rows", !.cursor = c,
                                       !.page = SubSeq(mail, n + 1, m),
                                       !.pages = tick.pages + 1]
               /\ quarantine' = quarantine
    <2>0. PICK n \in 0..Len(mail) - 1 :
             \E m \in n + 1..LowerOf(Len(mail), n + PageRows) :
               /\ Past(c, n)
               /\ tick' = [tick EXCEPT !.phase = "rows", !.cursor = c,
                                       !.page = SubSeq(mail, n + 1, m),
                                       !.pages = tick.pages + 1]
               /\ quarantine' = quarantine
      BY <1>9
    <2>1. PICK m \in n + 1..LowerOf(Len(mail), n + PageRows) :
               /\ Past(c, n)
               /\ tick' = [tick EXCEPT !.phase = "rows", !.cursor = c,
                                       !.page = SubSeq(mail, n + 1, m),
                                       !.pages = tick.pages + 1]
               /\ quarantine' = quarantine
      BY <2>0
    <2>2. PICK p : p = SubSeq(mail, n + 1, m)
      OBVIOUS
    <2>3. /\ p \in Seq(Row) /\ p # <<>>
          /\ \A i \in DOMAIN p : RowIsTrue(p[i])
          /\ \A i \in DOMAIN p : p[i].seq = p[1].seq + i - 1
          /\ c < p[1].seq
          /\ p[1].seq <= c + 1 \/ p[1].seq <= purged + 1
      <3> HIDE DEF WebhooksInvariant
      <3>1. c \in Nat /\ acked <= c
        BY <1>2
      <3>2. n \in 0..Len(mail) - 1 /\ m \in n + 1..LowerOf(Len(mail), n + PageRows)
            /\ Past(c, n)
        BY <2>0, <2>1
      <3> QED
        BY <2>2, <3>1, <3>2, PageOfMailbox, ZenonT(120)
    <2>4. /\ tick' \in Tick /\ tick'.phase = "rows" /\ tick'.cursor = c /\ tick'.page = p
          /\ tick'.pending = tick.pending
      <3>1. tick' = [phase |-> "rows", cursor |-> c, pages |-> tick.pages + 1, page |-> p,
                     pending |-> tick.pending, settled |-> tick.settled]
        BY <1>8, <2>1, <2>2 DEF Tick
      <3>2. tick.pages + 1 \in Nat /\ tick.pending \in Seq(Row) /\ tick.settled \in Nat
        BY <1>8 DEF Tick
      <3> QED
        BY <1>2, <2>3, <3>1, <3>2 DEF Tick
    <2>5. /\ \A r : RowIsTrue(r)' = RowIsTrue(r)
          /\ \A s \in 1..top : Settled(s) => Settled(s)'
          /\ AckedIsSettled'
      <3>1. purged' \in Nat /\ purged <= purged' /\ quarantine \subseteq quarantine'
        BY <1>3, <1>4, <2>1
      <3> QED BY <1>3, <1>4, <1>6, <3>1, TickFrame
    <2>6. TypeOK'
      <3>1. quarantine' \subseteq 1..top'
        BY <1>3, <2>1 DEF TypeOK
      <3> QED
        BY <1>3, <1>5, <2>4, <3>1 DEF TypeOK
    <2>7. RowsAreTrue'
      BY <1>3, <2>3, <2>4, <2>5 DEF RowsAreTrue
    <2>8. TickIsSound'
      <3>1. \A s \in 1..c : s \in 1..top
        BY <1>2, <1>4
      <3>2. \A s \in 1..c : Settled(s)' \/ s \in Seqs(tick.pending)
        BY <1>2, <2>5, <3>1
      <3>3. \A i \in DOMAIN tick.pending : tick.pending[i].batch = tick.pending[1].batch
        BY DEF TickIsSound
      <3> QED
        BY <1>2, <1>3, <2>4, <3>2, <3>3 DEF TickIsSound, Seqs
    <2>9. PageFollowsCursor'
      <3>1. \A x, y \in Nat : x <= Greater(x, y) /\ y <= Greater(x, y) /\ Greater(x, y) \in Nat
        BY DEF Greater
      <3>2. PICK g \in Nat : g = Greater(c, purged) /\ c <= g /\ purged <= g
        BY <1>2, <1>4, <3>1
      <3>3. p[1].seq \in Nat
        <4>1. p[1] \in Row
          BY <2>3
        <4> QED BY <4>1 DEF Row
      <3>4. p[1].seq <= g + 1
        BY <1>2, <1>4, <2>3, <3>2, <3>3, SMTT(60)
      <3>5. Greater(tick'.cursor, known') = g
        BY <1>5, <2>4, <3>2
      <3> QED
        BY <1>3, <2>3, <2>4, <3>4, <3>5 DEF PageFollowsCursor, Greater
    <2> QED
      BY <1>6, <1>7, <2>5, <2>6, <2>7, <2>8, <2>9
  <1>10. CASE /\ tick' = IF tick.pending # <<>>
                         THEN [noTick EXCEPT !.phase = "advance", !.cursor = c,
                                             !.settled = Last(tick.pending).seq]
                         ELSE [noTick EXCEPT !.phase = "ack", !.cursor = c]
              /\ quarantine' = quarantine \cup Seqs(tick.pending)
    <2>1. tick.pending # <<>> => Len(tick.pending) \in DOMAIN tick.pending
      BY <1>8
    <2>2. ASSUME tick.pending # <<>>
          PROVE  Last(tick.pending).seq \in Nat /\ Last(tick.pending).seq <= c
      <3>1. PICK r \in Row : r = Last(tick.pending) /\ r.seq <= c
        BY <1>2, <1>8, <2>1, <2>2 DEF Last
      <3> QED BY <3>1 DEF Row
    <2>3. /\ tick' \in Tick /\ tick'.phase \in {"advance", "ack"} /\ tick'.cursor = c
          /\ tick'.page = <<>> /\ tick'.pending = <<>> /\ tick'.settled <= c
      <3>1. CASE tick.pending = <<>>
        <4>1. tick' = [phase |-> "ack", cursor |-> c, pages |-> 0, page |-> <<>>,
                       pending |-> <<>>, settled |-> 0]
          BY <1>10, <3>1 DEF noTick
        <4> QED BY <1>2, <4>1 DEF Tick
      <3>2. CASE tick.pending # <<>>
        <4>1. tick' = [phase |-> "advance", cursor |-> c, pages |-> 0, page |-> <<>>,
                       pending |-> <<>>, settled |-> Last(tick.pending).seq]
          BY <1>10, <3>2 DEF noTick
        <4> QED BY <1>2, <2>2, <3>2, <4>1 DEF Tick
      <3> QED BY <3>1, <3>2
    <2>4. Seqs(tick.pending) \subseteq 1..top
      BY DEF Seqs, RowsAreTrue, RowIsTrue
    <2>5. /\ \A r : RowIsTrue(r)' = RowIsTrue(r)
          /\ \A s \in 1..top : Settled(s) => Settled(s)'
          /\ AckedIsSettled'
      <3>1. purged' \in Nat /\ purged <= purged' /\ quarantine \subseteq quarantine'
        BY <1>3, <1>4, <1>10
      <3> QED BY <1>3, <1>4, <1>6, <3>1, TickFrame
    <2>6. TypeOK'
      BY <1>3, <1>4, <1>5, <1>10, <2>3, <2>4 DEF TypeOK
    <2>7. DOMAIN tick'.page = {} /\ DOMAIN tick'.pending = {}
      BY <2>3
    <2>8. RowsAreTrue'
      BY <1>3, <2>5, <2>7 DEF RowsAreTrue
    <2>9. TickIsSound'
      <3>1. \A s \in 1..c : s \in 1..top
        BY <1>2, <1>4
      <3>2. \A s \in Seqs(tick.pending) : Settled(s)'
        BY <1>10 DEF Settled
      <3>3. \A s \in 1..c : Settled(s)'
        BY <1>2, <2>5, <3>1, <3>2
      <3> QED
        BY <1>2, <1>3, <2>3, <2>7, <3>3 DEF TickIsSound
    <2>10. PageFollowsCursor'
      BY <1>3, <2>3, <2>7 DEF PageFollowsCursor
    <2> QED
      BY <1>6, <1>7, <2>5, <2>6, <2>8, <2>9, <2>10
  <1> QED
    BY <1>1, <1>9, <1>10 DEF pull

\* The row that a step of the collector reads.
LEMMA NextRow ==
    ASSUME WebhooksInvariant, tick.phase = "rows", NEW r, r = Head(tick.page)
    PROVE  /\ r \in Row /\ RowIsTrue(r) /\ r.seq \in 1..top /\ tick.cursor < r.seq
           /\ Missing(r.seq) = {}
           /\ \A s \in 1..r.seq : s \in 1..tick.cursor \/ s <= purged \/ s = r.seq
           /\ Tail(tick.page) \in Seq(Row)
           /\ \A i \in DOMAIN Tail(tick.page) :
                /\ RowIsTrue(Tail(tick.page)[i])
                /\ Tail(tick.page)[i].seq = r.seq + i
  <1> USE DEF WebhooksInvariant
  <1>1. /\ tick.page \in Seq(Row) /\ tick.page # <<>> /\ tick.cursor \in Nat
        /\ known \in Nat /\ purged \in Nat /\ known <= purged /\ top \in Nat
    BY DEF TypeOK, Tick, PageFollowsCursor
  <1>2. PICK p \in Seq(Row) : p = tick.page /\ p # <<>>
    BY <1>1
  <1>3. r = p[1] /\ r \in Row /\ 1 \in DOMAIN p
    BY <1>2
  <1>4. RowIsTrue(r) /\ r.seq \in 1..top
    BY <1>2, <1>3 DEF RowsAreTrue, RowIsTrue
  <1>5. tick.cursor < r.seq /\ r.seq <= Greater(tick.cursor, known) + 1
    BY <1>1, <1>2, <1>3 DEF PageFollowsCursor
  <1>6. Greater(tick.cursor, known) \in Nat
        /\ (Greater(tick.cursor, known) = tick.cursor \/ Greater(tick.cursor, known) = known)
    BY <1>1 DEF Greater
  <1>7. r.seq \in Nat
    BY <1>3 DEF Row
  <1>8. Missing(r.seq) = {}
    BY <1>5, <1>6, <1>7 DEF Missing
  <1>9. \A s \in 1..r.seq : s \in 1..tick.cursor \/ s <= purged \/ s = r.seq
    BY <1>1, <1>5, <1>6, <1>7
  <1>10. PICK q : q = Tail(p)
    OBVIOUS
  <1>11. /\ q \in Seq(Row) /\ Len(q) = Len(p) - 1
         /\ \A i \in 1..Len(q) : q[i] = p[i + 1]
    BY <1>2, <1>10, HeadTailProperties
  <1>12. ASSUME NEW i \in DOMAIN q
         PROVE  RowIsTrue(q[i]) /\ q[i].seq = r.seq + i
    <2>1. i \in 1..Len(q) /\ i + 1 \in DOMAIN p /\ q[i] = p[i + 1] /\ i \in Nat
      BY <1>2, <1>11
    <2>2. RowIsTrue(q[i])
      BY <1>2, <2>1 DEF RowsAreTrue
    <2>3. q[i].seq = p[1].seq + (i + 1) - 1
      BY <1>2, <2>1 DEF PageFollowsCursor
    <2> QED BY <1>3, <1>7, <2>1, <2>2, <2>3
  <1> QED
    BY <1>2, <1>3, <1>4, <1>5, <1>8, <1>9, <1>10, <1>11, <1>12

\* What taking a row comes to: the row and the batch held before it are settled,
\* or the row joins the rows held and the others are settled.
LEMMA TakeOutcome ==
    ASSUME WebhooksInvariant, take, NEW r, r = Head(tick.page)
    PROVE  \/ /\ tick' = [tick EXCEPT !.cursor = r.seq, !.page = Tail(tick.page),
                                      !.pending = <<>>, !.settled = r.seq,
                                      !.phase = "advance"]
              /\ \/ /\ inbox' = inbox
                    /\ quarantine' \in SUBSET (1..top)
                    /\ quarantine \cup Seqs(tick.pending) \cup {r.seq} \subseteq quarantine'
                 \/ /\ inbox' = Kept(r.body) /\ r.body \notin Unverified
                    /\ quarantine' \in SUBSET (1..top)
                    /\ quarantine \subseteq quarantine'
                    /\ \/ Seqs(tick.pending) \subseteq quarantine'
                       \/ \A s \in Seqs(tick.pending) : rowOf[s] = r.body
           \/ /\ inbox' = inbox
              /\ quarantine' \in SUBSET (1..top)
              /\ quarantine \subseteq quarantine'
              /\ \E old \in Seq(Row) :
                   /\ tick' = AfterRow([tick EXCEPT !.cursor = r.seq,
                                                    !.page = Tail(tick.page),
                                                    !.pending = Append(old, r)])
                   /\ \/ old = <<>> /\ Seqs(tick.pending) \subseteq quarantine'
                      \/ old = tick.pending /\ (old # <<>> => r.batch = old[1].batch)
  <1> USE DEF WebhooksInvariant
  <1> DEFINE q == tick.pending
             broken == /\ q # <<>>
                       /\ \/ r.batch # q[1].batch
                          \/ r.part # Len(q)
                          \/ r.seq # Last(q).seq + 1
             old == IF broken THEN <<>> ELSE q
             rows == Append(old, r)
             stray == old = <<>> /\ r.part # 0
             whole == ~stray /\ Len(rows) = r.parts
             good == whole /\ r.body \notin Unverified
             dropped == IF broken THEN Seqs(q) ELSE {}
             refused == IF stray THEN {r.seq} ELSE IF whole /\ ~good THEN Seqs(rows) ELSE {}
             read == [tick EXCEPT !.cursor = r.seq, !.page = Tail(tick.page)]
  <1>1. /\ quarantine' = quarantine \cup dropped \cup refused
        /\ inbox' = IF good THEN Kept(r.body) ELSE inbox
        /\ tick' = IF stray \/ whole
                   THEN [read EXCEPT !.pending = <<>>, !.settled = r.seq, !.phase = "advance"]
                   ELSE AfterRow([read EXCEPT !.pending = rows])
        /\ tick.phase = "rows"
    BY DEF take
  <1>2. r \in Row /\ RowIsTrue(r) /\ r.seq \in 1..top
    BY <1>1, NextRow
  <1>3. tick \in Tick /\ q \in Seq(Row) /\ quarantine \subseteq 1..top
    BY DEF TypeOK, Tick
  <1>4. /\ Seqs(q) \subseteq 1..top
        /\ \A s \in Seqs(q) : rowOf[s] = rowOf[q[1].batch]
        /\ q = <<>> => Seqs(q) = {}
    BY <1>3 DEF Seqs, RowsAreTrue, RowIsTrue, TickIsSound
  <1>5. rowOf[r.batch] = r.body
    BY <1>2 DEF RowIsTrue
  <1>6. \/ old = <<>> /\ (Seqs(q) \subseteq dropped)
        \/ old = q /\ (q # <<>> => r.batch = q[1].batch)
    BY <1>4
  <1>7. old \in Seq(Row) /\ dropped \subseteq 1..top
    BY <1>3, <1>4
  <1> HIDE DEF old, broken, dropped
  <1>8. /\ rows \in Seq(Row) /\ Len(rows) = Len(old) + 1
        /\ \A i \in 1..Len(old) : rows[i] = old[i]
        /\ rows[Len(old) + 1] = r
    BY <1>2, <1>7, AppendProperties
  <1>9. Seqs(rows) = Seqs(old) \cup {r.seq}
    <2>1. DOMAIN rows = 1..(Len(old) + 1) /\ DOMAIN old = 1..Len(old) /\ Len(old) \in Nat
      BY <1>7, <1>8
    <2> HIDE DEF rows
    <2>2. PICK n \in Nat : n = Len(old)
      BY <2>1
    <2>3. /\ DOMAIN rows = 1..(n + 1) /\ DOMAIN old = 1..n
          /\ \A i \in 1..n : rows[i] = old[i] /\ i \in 1..(n + 1)
          /\ \A i \in 1..(n + 1) : i # n + 1 => i \in 1..n
          /\ rows[n + 1] = r /\ n + 1 \in 1..(n + 1)
      <3>1. DOMAIN rows = 1..(n + 1) /\ DOMAIN old = 1..n
        BY <2>1, <2>2
      <3>2. \A i \in 1..n : rows[i] = old[i]
        BY <1>8, <2>2
      <3>3. rows[n + 1] = r
        BY <1>8, <2>2
      <3>4. /\ \A i \in 1..n : i \in 1..(n + 1)
            /\ \A i \in 1..(n + 1) : i # n + 1 => i \in 1..n
            /\ n + 1 \in 1..(n + 1)
        BY <2>2
      <3> QED BY <3>1, <3>2, <3>3, <3>4
    <2>4. ASSUME NEW s \in Seqs(rows) PROVE s \in Seqs(old) \cup {r.seq}
      BY <2>3 DEF Seqs
    <2>5. ASSUME NEW s \in Seqs(old) PROVE s \in Seqs(rows)
      BY <2>3 DEF Seqs
    <2>6. r.seq \in Seqs(rows)
      BY <2>3 DEF Seqs
    <2> QED BY <2>4, <2>5, <2>6
  <1>10. Seqs(old) \subseteq 1..top /\ Seqs(q) \subseteq dropped \cup Seqs(old)
    <2>1. Seqs(<<>>) = {}
      BY DEF Seqs
    <2> QED BY <1>4, <1>6, <2>1
  <1> HIDE DEF rows
  <1>11. refused \subseteq 1..top
    BY <1>2, <1>9, <1>10
  <1>12. quarantine' \in SUBSET (1..top) /\ quarantine \subseteq quarantine'
         /\ dropped \subseteq quarantine' /\ refused \subseteq quarantine'
    BY <1>1, <1>3, <1>7, <1>11
  <1>13. CASE stray
    <2>1. inbox' = inbox
      BY <1>1, <1>13
    <2>2. refused = {r.seq} /\ Seqs(q) \subseteq dropped
      <3>1. old = <<>>
        BY <1>13
      <3> QED BY <1>4, <1>6, <1>13, <3>1
    <2>3. quarantine \cup Seqs(tick.pending) \cup {r.seq} \subseteq quarantine'
      BY <1>12, <2>2
    <2>4. tick' = [tick EXCEPT !.cursor = r.seq, !.page = Tail(tick.page),
                               !.pending = <<>>, !.settled = r.seq, !.phase = "advance"]
      BY <1>1, <1>3, <1>13 DEF Tick
    <2> QED BY <1>12, <2>1, <2>3, <2>4
  <1>14. CASE whole /\ ~good
    <2>1. inbox' = inbox
      BY <1>1, <1>14
    <2>2. refused = Seqs(rows)
      BY <1>14
    <2>3. quarantine \cup Seqs(tick.pending) \cup {r.seq} \subseteq quarantine'
      BY <1>9, <1>10, <1>12, <2>2
    <2>4. tick' = [tick EXCEPT !.cursor = r.seq, !.page = Tail(tick.page),
                               !.pending = <<>>, !.settled = r.seq, !.phase = "advance"]
      BY <1>1, <1>3, <1>14 DEF Tick
    <2> QED BY <1>12, <2>1, <2>3, <2>4
  <1>15. CASE good
    <2>1. inbox' = Kept(r.body) /\ r.body \notin Unverified
      BY <1>1, <1>15
    <2>2. \/ Seqs(tick.pending) \subseteq quarantine'
          \/ \A s \in Seqs(tick.pending) : rowOf[s] = r.body
      BY <1>4, <1>5, <1>6, <1>12
    <2>3. tick' = [tick EXCEPT !.cursor = r.seq, !.page = Tail(tick.page),
                               !.pending = <<>>, !.settled = r.seq, !.phase = "advance"]
      BY <1>1, <1>3, <1>15 DEF Tick
    <2> QED BY <1>12, <2>1, <2>2, <2>3
  <1>16. CASE ~stray /\ ~whole
    <2>1. inbox' = inbox
      BY <1>1, <1>16
    <2>2. tick' = AfterRow([tick EXCEPT !.cursor = r.seq, !.page = Tail(tick.page),
                                        !.pending = Append(old, r)])
      <3>1. tick' = AfterRow([read EXCEPT !.pending = rows])
        BY <1>1, <1>16
      <3>2. [read EXCEPT !.pending = rows]
              = [tick EXCEPT !.cursor = r.seq, !.page = Tail(tick.page),
                             !.pending = Append(old, r)]
        BY <1>3 DEF Tick, rows
      <3> QED BY <3>1, <3>2
    <2>3. \/ old = <<>> /\ Seqs(tick.pending) \subseteq quarantine'
          \/ old = tick.pending /\ (old # <<>> => r.batch = old[1].batch)
      BY <1>6, <1>12
    <2> QED BY <1>7, <1>12, <2>1, <2>2, <2>3
  <1> QED
    BY <1>13, <1>14, <1>15, <1>16

\* What follows a row or an advance leaves the record of the tick as it is but
\* for its phase, and a tick with rows left goes on with them.
LEMMA AfterRowIs ==
    ASSUME NEW t \in Tick
    PROVE  /\ AfterRow(t) \in Tick
           /\ AfterRow(t).phase \in {"rows", "ack", "pull"}
           /\ AfterRow(t).phase = "rows" => t.page # <<>>
           /\ AfterRow(t).cursor = t.cursor /\ AfterRow(t).page = t.page
           /\ AfterRow(t).pending = t.pending /\ AfterRow(t).settled = t.settled
  BY DEF AfterRow, Tick

\* _take preserves the invariant.
LEMMA TakeStep ==
    ASSUME WebhooksInvariant, take
    PROVE  WebhooksInvariant'
  <1> USE DEF WebhooksInvariant
  <1>1. PICK r : r = Head(tick.page)
    OBVIOUS
  <1>2. tick.phase = "rows"
    BY DEF take
  <1>3. /\ r \in Row /\ RowIsTrue(r) /\ r.seq \in 1..top /\ tick.cursor < r.seq
        /\ Missing(r.seq) = {}
        /\ \A s \in 1..r.seq : s \in 1..tick.cursor \/ s <= purged \/ s = r.seq
        /\ Tail(tick.page) \in Seq(Row)
        /\ \A i \in DOMAIN Tail(tick.page) :
             /\ RowIsTrue(Tail(tick.page)[i])
             /\ Tail(tick.page)[i].seq = r.seq + i
    BY <1>1, <1>2, NextRow
  <1>4. PICK p \in Seq(Row) : p = Tail(tick.page)
    BY <1>3
  <1>5. UNCHANGED <<mail, top, purged, rowOf, acked, known, applied, archive, windowRuns, up,
                    answered, made, faults, kind>>
    BY DEF take, relayVars, effects, truthVars
  <1>6. gaps' = gaps
    <2>1. gaps' = gaps \cup Missing(r.seq)
      BY <1>1 DEF take
    <2> QED BY <1>3, <2>1
  <1>7. /\ tick \in Tick /\ tick.pending \in Seq(Row) /\ tick.cursor \in Nat
        /\ r.seq \in Nat /\ r.body \in Bodies /\ top \in Nat /\ purged \in Nat
        /\ acked \in Nat /\ acked <= tick.cursor
    BY <1>2, <1>3 DEF TypeOK, Tick, Row, TickIsSound
  <1>8. MailboxIsASuffix'
    BY <1>5 DEF MailboxIsASuffix
  <1>9. \/ inbox' = inbox
        \/ inbox' = Kept(r.body) /\ r.body \notin Unverified
    BY <1>1, TakeOutcome
  <1>10. quarantine \subseteq quarantine' /\ quarantine' \in SUBSET (1..top)
    BY <1>1, TakeOutcome
  <1>11. /\ inbox' \in Seq(Entry) /\ InboxIsTrue' /\ EffectsMatchFlags'
         /\ \A b : Stored(b) => Stored(b)'
         /\ inbox' = Kept(r.body) /\ r.body \notin Unverified => Stored(r.body)'
    <2>1. CASE inbox' = Kept(r.body) /\ r.body \notin Unverified
      <3>1. Carries[r.body] \subseteq made' /\ made \subseteq made'
        BY <1>3, <1>5, <2>1 DEF RowIsTrue
      <3> QED BY <1>5, <1>7, <2>1, <3>1, KeptBody DEF effects
    <2>2. CASE inbox' = inbox /\ ~(inbox' = Kept(r.body) /\ r.body \notin Unverified)
      BY <1>5, <2>2, InboxFrame DEF effects, TypeOK
    <2> QED BY <1>9, <2>1, <2>2
  <1>12. /\ \A x : RowIsTrue(x)' = RowIsTrue(x)
         /\ \A s \in 1..top : Settled(s) => Settled(s)'
         /\ AckedIsSettled'
    <2>1. purged' \in Nat /\ purged <= purged'
      BY <1>5, <1>7
    <2> QED BY <1>5, <1>7, <1>10, <1>11, <2>1, TickFrame
  <1>13. \A s \in 1..r.seq :
            Settled(s)' \/ s \in Seqs(tick.pending) \/ s = r.seq
    <2> SUFFICES ASSUME NEW s \in 1..r.seq, s # r.seq
                 PROVE  Settled(s)' \/ s \in Seqs(tick.pending)
      OBVIOUS
    <2>1. s \in 1..top
      BY <1>3, <1>7
    <2>2. CASE s \in 1..tick.cursor
      BY <1>12, <2>1, <2>2 DEF TickIsSound
    <2>3. CASE s <= purged
      BY <1>5, <2>3 DEF Settled
    <2> QED BY <1>3, <2>2, <2>3
  <1>14. ASSUME tick' \in Tick, tick'.cursor = r.seq, tick'.page = p,
                tick'.phase \in {"rows", "ack", "pull", "advance"},
                tick'.phase = "rows" => p # <<>>,
                \A s \in 1..r.seq : Settled(s)' \/ s \in Seqs(tick'.pending),
                \A i \in DOMAIN tick'.pending :
                   /\ RowIsTrue(tick.pending[i])'
                   /\ tick'.pending[i].batch = tick'.pending[1].batch
                   /\ tick'.pending[i].seq <= r.seq,
                tick'.phase = "advance" => tick'.pending = <<>> /\ tick'.settled <= r.seq
         PROVE  WebhooksInvariant'
    <2>1. TypeOK'
      BY <1>5, <1>6, <1>10, <1>11, <1>14 DEF TypeOK
    <2>2. RowsAreTrue'
      BY <1>3, <1>4, <1>5, <1>12, <1>14 DEF RowsAreTrue
    <2>3. TickIsSound'
      BY <1>3, <1>5, <1>7, <1>14 DEF TickIsSound, Seqs
    <2>4. PageFollowsCursor'
      <3>1. gaps' = {}
        BY <1>6 DEF PageFollowsCursor
      <3>2. PICK k \in Nat : k = known'
        BY <1>5 DEF TypeOK
      <3>3. r.seq <= Greater(r.seq, k) /\ Greater(r.seq, k) \in Nat
        BY <1>7, <3>2 DEF Greater
      <3>4. p # <<>> => 1 \in DOMAIN p
        BY <1>4
      <3>5. p # <<>> => p[1].seq = r.seq + 1
        BY <1>3, <1>4, <3>4
      <3>6. \A i \in DOMAIN p : p[i].seq = p[1].seq + i - 1
        <4> SUFFICES ASSUME NEW i \in DOMAIN p
                     PROVE  p[i].seq = p[1].seq + i - 1
          OBVIOUS
        <4>1. i \in Nat /\ p # <<>>
          BY <1>4
        <4>2. p[i].seq = r.seq + i
          BY <1>3, <1>4
        <4>3. r.seq + i = (r.seq + 1) + i - 1
          <5>1. r.seq \in Nat
            BY <1>7
          <5> QED BY <4>1, <5>1, ShiftBack
        <4>4. p[1].seq = r.seq + 1
          BY <3>5, <4>1
        <4>5. p[i].seq = (r.seq + 1) + i - 1
          BY <4>2, <4>3
        <4> QED BY <4>4, <4>5
      <3>7. p # <<>> => r.seq < p[1].seq /\ p[1].seq <= Greater(r.seq, k) + 1
        BY <1>7, <3>3, <3>5
      <3> QED
        BY <1>14, <3>1, <3>2, <3>6, <3>7 DEF PageFollowsCursor, Greater
    <2> QED
      BY <1>8, <1>11, <1>12, <2>1, <2>2, <2>3, <2>4
  <1>15. CASE /\ tick' = [tick EXCEPT !.cursor = r.seq, !.page = Tail(tick.page),
                                      !.pending = <<>>, !.settled = r.seq,
                                      !.phase = "advance"]
              /\ \/ /\ inbox' = inbox
                    /\ quarantine \cup Seqs(tick.pending) \cup {r.seq} \subseteq quarantine'
                 \/ /\ inbox' = Kept(r.body) /\ r.body \notin Unverified
                    /\ \/ Seqs(tick.pending) \subseteq quarantine'
                       \/ \A s \in Seqs(tick.pending) : rowOf[s] = r.body
    <2>1. /\ tick' \in Tick /\ tick'.cursor = r.seq /\ tick'.page = p
          /\ tick'.phase = "advance" /\ tick'.pending = <<>> /\ tick'.settled = r.seq
      <3>1. tick' = [phase |-> "advance", cursor |-> r.seq, pages |-> tick.pages, page |-> p,
                     pending |-> <<>>, settled |-> r.seq]
        BY <1>4, <1>7, <1>15 DEF Tick
      <3> QED BY <1>4, <1>7, <3>1 DEF Tick
    <2>2. DOMAIN tick'.pending = {}
      BY <2>1
    <2>3. \A s \in Seqs(tick.pending) \cup {r.seq} : Settled(s)'
      <3>1. CASE quarantine \cup Seqs(tick.pending) \cup {r.seq} \subseteq quarantine'
        BY <3>1 DEF Settled
      <3>2. CASE /\ inbox' = Kept(r.body) /\ r.body \notin Unverified
                 /\ \/ Seqs(tick.pending) \subseteq quarantine'
                    \/ \A s \in Seqs(tick.pending) : rowOf[s] = r.body
        <4>1. Stored(r.body)'
          BY <1>11, <3>2
        <4>2. \A s : rowOf[s] = r.body => Settled(s)'
          BY <1>5, <4>1 DEF Settled
        <4>3. rowOf[r.seq] = r.body
          BY <1>3 DEF RowIsTrue
        <4>4. \A s \in quarantine' : Settled(s)'
          BY DEF Settled
        <4> QED BY <3>2, <4>2, <4>3, <4>4
      <3> QED BY <1>15, <3>1, <3>2
    <2>4. \A s \in 1..r.seq : Settled(s)'
      BY <1>13, <2>3
    <2>5. r.seq <= r.seq
      BY <1>7
    <2> QED
      BY <1>14, <2>1, <2>2, <2>4, <2>5
  <1>16. CASE \E old \in Seq(Row) :
                   /\ tick' = AfterRow([tick EXCEPT !.cursor = r.seq,
                                                    !.page = Tail(tick.page),
                                                    !.pending = Append(old, r)])
                   /\ \/ old = <<>> /\ Seqs(tick.pending) \subseteq quarantine'
                      \/ old = tick.pending /\ (old # <<>> => r.batch = old[1].batch)
    <2>1. PICK old \in Seq(Row) :
                   /\ tick' = AfterRow([tick EXCEPT !.cursor = r.seq,
                                                    !.page = Tail(tick.page),
                                                    !.pending = Append(old, r)])
                   /\ \/ old = <<>> /\ Seqs(tick.pending) \subseteq quarantine'
                      \/ old = tick.pending /\ (old # <<>> => r.batch = old[1].batch)
      BY <1>16
    <2>2. PICK q : q = Append(old, r)
      OBVIOUS
    <2>3. PICK n \in Nat : n = Len(old)
      BY <2>1
    <2>4. /\ q \in Seq(Row) /\ Len(q) = n + 1
          /\ \A i \in 1..n : q[i] = old[i]
          /\ q[n + 1] = r
      BY <1>3, <2>1, <2>2, <2>3, AppendProperties
    <2>5. /\ DOMAIN q = 1..(n + 1) /\ DOMAIN old = 1..n /\ 1 \in DOMAIN q
          /\ n + 1 \in DOMAIN q
          /\ \A i \in DOMAIN q : i # n + 1 => i \in DOMAIN old
          /\ DOMAIN old \subseteq DOMAIN q
      BY <2>1, <2>3, <2>4
    <2>6. PICK t : t = [tick EXCEPT !.cursor = r.seq, !.page = p, !.pending = q]
      OBVIOUS
    <2>7. t \in Tick /\ t.cursor = r.seq /\ t.page = p /\ t.pending = q
      BY <1>4, <1>7, <2>4, <2>6 DEF Tick
    <2>8. tick' = AfterRow(t)
      <3>1. t = [tick EXCEPT !.cursor = r.seq, !.page = Tail(tick.page),
                             !.pending = Append(old, r)]
        BY <1>4, <2>2, <2>6
      <3> QED BY <2>1, <3>1
    <2>9. /\ tick' \in Tick /\ tick'.cursor = r.seq /\ tick'.page = p /\ tick'.pending = q
          /\ tick'.phase \in {"rows", "ack", "pull"}
          /\ tick'.phase = "rows" => p # <<>>
      BY <2>7, <2>8, AfterRowIs
    <2>10. \A s \in Seqs(old) \cup {r.seq} : s \in Seqs(q)
      BY <2>4, <2>5 DEF Seqs
    <2>11. \A s \in 1..r.seq : Settled(s)' \/ s \in Seqs(q)
      <3>1. \A s \in Seqs(tick.pending) : Settled(s)' \/ s \in Seqs(old)
        BY <2>1 DEF Settled
      <3> QED BY <1>13, <2>10, <3>1
    <2>12. \A i \in DOMAIN q : /\ RowIsTrue(tick.pending[i])'
                               /\ q[i].batch = q[1].batch /\ q[i].seq <= r.seq
      <3> SUFFICES ASSUME NEW i \in DOMAIN q
                   PROVE  /\ RowIsTrue(tick.pending[i])'
                          /\ q[i].batch = q[1].batch /\ q[i].seq <= r.seq
        OBVIOUS
      <3>1. PICK x : x = q[i]
        OBVIOUS
      <3>2. RowIsTrue(x) /\ x.seq <= r.seq /\ x.batch = r.batch
        <4>1. CASE i = n + 1
          BY <1>3, <1>7, <2>4, <3>1, <4>1
        <4>2. CASE i # n + 1
          <5>1. i \in DOMAIN old /\ x = old[i] /\ old # <<>>
            BY <2>1, <2>4, <2>5, <3>1, <4>2
          <5>2. old = tick.pending /\ r.batch = old[1].batch
            BY <2>1, <5>1
          <5>3. x.seq <= tick.cursor /\ x.batch = old[1].batch /\ RowIsTrue(x)
            BY <5>1, <5>2 DEF TickIsSound, RowsAreTrue
          <5>4. x.seq \in Nat
            BY <5>3, <1>7 DEF RowIsTrue
          <5> QED BY <1>3, <1>7, <5>2, <5>3, <5>4
        <4> QED BY <4>1, <4>2
      <3>3. q[1].batch = r.batch
        <4>1. CASE n = 0
          BY <2>4, <4>1
        <4>2. CASE n # 0
          <5>1. 1 \in 1..n /\ old # <<>>
            BY <2>1, <2>3, <4>2
          <5> QED BY <2>1, <2>4, <5>1
        <4> QED BY <4>1, <4>2
      <3>4. RowIsTrue(x)'
        BY <1>12, <3>2
      <3> QED BY <2>9, <3>1, <3>2, <3>3, <3>4 DEF RowIsTrue
    <2> QED
      BY <1>14, <2>9, <2>11, <2>12
  <1> QED
    BY <1>1, <1>15, <1>16, TakeOutcome

\* _advance preserves the invariant: everything up to the cursor is settled.
LEMMA AdvanceStep ==
    ASSUME WebhooksInvariant, advance
    PROVE  WebhooksInvariant'
  <1> USE DEF WebhooksInvariant
  <1>1. UNCHANGED <<mail, top, purged, rowOf, known, quarantine, gaps, inbox, applied, archive,
                    windowRuns, up, answered, made, faults, kind>>
    BY DEF advance, relayVars, effects, truthVars
  <1>2. /\ tick \in Tick /\ tick.cursor \in Nat /\ tick.settled \in Nat /\ acked \in Nat
        /\ acked <= tick.cursor /\ tick.settled <= tick.cursor /\ tick.cursor <= top
        /\ tick.pending = <<>> /\ top \in Nat /\ purged \in Nat
        /\ acked' = Greater(acked, tick.settled)
    BY DEF TypeOK, Tick, TickIsSound, advance
  <1>3. acked' \in Nat /\ acked' <= tick.cursor /\ acked <= acked' /\ acked' \in 0..top
    BY <1>2 DEF Greater
  <1>4. PICK t : t = [tick EXCEPT !.settled = 0]
    OBVIOUS
  <1>5. t \in Tick /\ t.cursor = tick.cursor /\ t.page = tick.page /\ t.pending = <<>>
    BY <1>2, <1>4 DEF Tick
  <1>6. tick' = AfterRow(t)
    BY <1>4 DEF advance
  <1>7. /\ tick' \in Tick /\ tick'.phase \in {"rows", "ack", "pull"}
        /\ tick'.phase = "rows" => tick.page # <<>>
        /\ tick'.cursor = tick.cursor /\ tick'.page = tick.page /\ tick'.pending = <<>>
    BY <1>5, <1>6, AfterRowIs
  <1>8. InboxIsTrue' /\ EffectsMatchFlags' /\ \A b : Stored(b) => Stored(b)'
    BY <1>1, InboxFrame DEF effects
  <1>9. /\ \A x : RowIsTrue(x)' = RowIsTrue(x)
        /\ \A s \in 1..top : Settled(s) => Settled(s)'
    <2>1. purged' \in Nat /\ purged <= purged' /\ quarantine \subseteq quarantine'
      BY <1>1, <1>2
    <2> QED BY <1>1, <1>2, <1>8, <2>1, TickFrame
  <1>10. TypeOK'
    BY <1>1, <1>3, <1>7 DEF TypeOK
  <1>11. RowsAreTrue'
    <2>1. DOMAIN tick'.pending = {}
      BY <1>7
    <2> QED BY <1>1, <1>7, <1>9, <2>1 DEF RowsAreTrue
  <1>12. MailboxIsASuffix'
    <2>1. top - Len(mail) \in Int
      BY <1>2 DEF TypeOK
    <2> QED BY <1>1, <1>2, <1>3, <2>1 DEF MailboxIsASuffix
  <1>13. \A s \in 1..tick.cursor : Settled(s)'
    <2>1. Seqs(tick.pending) = {}
      BY <1>2 DEF Seqs
    <2>2. \A s \in 1..tick.cursor : s \in 1..top
      BY <1>2
    <2> QED BY <1>9, <2>1, <2>2 DEF TickIsSound
  <1>14. AckedIsSettled'
    BY <1>2, <1>3, <1>13 DEF AckedIsSettled
  <1>15. TickIsSound'
    <2>1. DOMAIN tick'.pending = {}
      BY <1>7
    <2> QED BY <1>1, <1>2, <1>3, <1>7, <1>13, <2>1 DEF TickIsSound
  <1>16. PageFollowsCursor'
    BY <1>1, <1>7 DEF PageFollowsCursor, Greater
  <1> QED
    BY <1>8, <1>10, <1>11, <1>12, <1>14, <1>15, <1>16

\* The ack preserves the invariant: it removes only what is settled.
LEMMA AckStep ==
    ASSUME WebhooksInvariant, ack
    PROVE  WebhooksInvariant'
  <1> USE DEF WebhooksInvariant
  <1>1. UNCHANGED <<top, purged, rowOf, acked, known, quarantine, gaps, inbox, applied, archive,
                    windowRuns, up, answered, made, faults, kind>>
    BY DEF ack, collected, effects, truthVars
  <1>2. CASE mail' = mail
    <2>1. tick' = noTick /\ up' \in BOOLEAN /\ faults' \in Nat
      BY <1>1 DEF ack, TypeOK
    <2>2. UNCHANGED <<relayVars, collected, inbox, effects, answered, made, kind>>
      BY <1>1, <1>2 DEF relayVars, collected, effects
    <2> QED BY <2>1, <2>2, LostTickStep
  <1>3. CASE \E n \in 0..Len(mail) : Past(acked, n) /\ mail' = SubSeq(mail, n + 1, Len(mail))
    <2>1. PICK n \in 0..Len(mail) : Past(acked, n) /\ mail' = SubSeq(mail, n + 1, Len(mail))
      BY <1>3
    <2>2. mail \in Seq(Row) /\ Len(mail) \in Nat /\ top \in Nat /\ purged \in Nat
          /\ acked \in Nat /\ n \in Nat /\ n <= Len(mail)
      BY <2>1 DEF TypeOK
    <2>3. /\ mail' \in Seq(Row) /\ Len(mail') = Len(mail) - n
          /\ top' - Len(mail') = top - Len(mail) + n
          /\ \A i \in DOMAIN mail' : n + i \in DOMAIN mail /\ mail'[i] = mail[n + i]
          /\ \A i \in DOMAIN mail' : mail'[i].seq = top' - Len(mail') + i
      BY <1>1, <2>1, CutMailbox
    <2>4. n = 0 \/ top - Len(mail) + n <= acked
      <3>1. CASE n # 0
        <4>1. n \in DOMAIN mail /\ ~(n < n)
          BY <2>2, <3>1
        <4>2. ~(acked < mail[n].seq) /\ mail[n].seq = top - Len(mail) + n
          BY <2>1, <4>1 DEF Past, MailboxIsASuffix
        <4> QED BY <2>2, <4>2
      <3> QED BY <3>1
    <2>5. MailboxIsASuffix'
      <3>1. Len(mail') <= top'
        BY <1>1, <2>2, <2>3 DEF MailboxIsASuffix
      <3>2. purged' <= top' - Len(mail')
            /\ (top' - Len(mail') <= purged' \/ top' - Len(mail') <= acked')
        BY <1>1, <2>2, <2>3, <2>4 DEF MailboxIsASuffix
      <3> QED BY <2>3, <3>1, <3>2 DEF MailboxIsASuffix
    <2>6. /\ noTick \in Tick /\ noTick.phase = "off" /\ noTick.cursor = 0
          /\ noTick.page = <<>> /\ noTick.pending = <<>> /\ noTick.settled = 0
      BY DEF noTick, Tick
    <2>7. tick' = noTick /\ DOMAIN tick'.page = {} /\ DOMAIN tick'.pending = {}
      BY <2>6 DEF ack
    <2>8. TypeOK'
      BY <1>1, <2>3, <2>6, <2>7 DEF TypeOK
    <2>9. InboxIsTrue' /\ EffectsMatchFlags' /\ \A b : Stored(b) => Stored(b)'
      BY <1>1, InboxFrame DEF effects
    <2>10. /\ \A x : RowIsTrue(x)' = RowIsTrue(x)
           /\ AckedIsSettled'
      <3>1. purged' \in Nat /\ purged <= purged' /\ quarantine \subseteq quarantine'
        BY <1>1, <2>2
      <3> QED BY <1>1, <2>2, <2>9, <3>1, TickFrame
    <2>11. RowsAreTrue'
      <3>1. ASSUME NEW i \in DOMAIN mail' PROVE RowIsTrue(mail[i])'
        <4>1. PICK r : r = mail'[i]
          OBVIOUS
        <4>2. RowIsTrue(r)
          BY <2>3, <4>1 DEF RowsAreTrue
        <4> QED BY <2>10, <4>1, <4>2 DEF RowIsTrue
      <3> QED BY <2>7, <3>1 DEF RowsAreTrue
    <2>12. TickIsSound' /\ PageFollowsCursor'
      <3>1. tick'.page = <<>> /\ tick'.phase = "off" /\ tick'.cursor = 0 /\ noTick' = noTick
            /\ gaps' = {}
        BY <1>1, <2>6, <2>7 DEF noTick, PageFollowsCursor
      <3>2. 0 <= top' /\ 1..0 = {}
        BY <1>1, <2>2
      <3> QED
        BY <2>7, <3>1, <3>2 DEF TickIsSound, PageFollowsCursor
    <2> QED
      BY <2>5, <2>8, <2>9, <2>10, <2>11, <2>12
  <1> QED
    BY <1>2, <1>3 DEF ack

\* An installation in which nothing has been posted satisfies the invariant.
LEMMA InitWebhooks ==
    ASSUME Init
    PROVE  WebhooksInvariant
  <1>1. /\ noTick \in Tick /\ noTick.phase = "off" /\ noTick.cursor = 0
        /\ noTick.page = <<>> /\ noTick.pending = <<>> /\ noTick.settled = 0
    BY DEF noTick, Tick
  <1>2. /\ mail = <<>> /\ inbox = <<>> /\ rowOf = <<>> /\ top = 0 /\ purged = 0 /\ acked = 0
        /\ known = 0 /\ tick = noTick /\ gaps = {} /\ archive = {}
        /\ windowRuns = [b \in Bodies |-> 0]
    BY DEF Init
  <1>3. DOMAIN mail = {} /\ DOMAIN inbox = {} /\ DOMAIN tick.page = {}
        /\ DOMAIN tick.pending = {} /\ Len(mail) = 0 /\ 1..0 = {}
    BY <1>1, <1>2
  <1>4. TypeOK
    <2>1. kind \in [Bodies -> Kinds]
      BY DEF Init
    <2>2. mail \in Seq(Row) /\ inbox \in Seq(Entry) /\ rowOf \in Seq(Bodies) /\ Len(rowOf) = 0
      BY <1>2
    <2> QED
      BY <1>1, <1>2, <2>1, <2>2 DEF Init, TypeOK
  <1>5. RowsAreTrue
    BY <1>3 DEF RowsAreTrue
  <1>6. MailboxIsASuffix
    BY <1>2, <1>3 DEF MailboxIsASuffix
  <1>7. AckedIsSettled
    BY <1>2, <1>3 DEF AckedIsSettled
  <1>8. TickIsSound
    BY <1>1, <1>2, <1>3 DEF TickIsSound
  <1>9. PageFollowsCursor
    BY <1>1, <1>2, <1>3 DEF PageFollowsCursor
  <1>10. InboxIsTrue /\ EffectsMatchFlags
    BY <1>2, <1>3 DEF InboxIsTrue, EffectsMatchFlags
  <1> QED
    BY <1>4, <1>5, <1>6, <1>7, <1>8, <1>9, <1>10 DEF WebhooksInvariant

\* A step that changes nothing preserves the invariant.
LEMMA StutterStep ==
    ASSUME WebhooksInvariant, UNCHANGED vars
    PROVE  WebhooksInvariant'
  <1> USE DEF WebhooksInvariant
  <1>1. UNCHANGED <<relayVars, collected, tick, up, truthVars, inbox, effects>>
    BY DEF vars
  <1>2. inbox' \in Seq(Entry)
    BY <1>1 DEF TypeOK
  <1>3. /\ RowsAreTrue' /\ MailboxIsASuffix' /\ AckedIsSettled' /\ TickIsSound'
        /\ PageFollowsCursor' /\ InboxIsTrue'
    BY <1>1, <1>2, WorkerFrame
  <1>4. EffectsMatchFlags'
    BY <1>1, InboxFrame DEF truthVars
  <1>5. TypeOK'
    BY <1>1 DEF TypeOK, relayVars, collected, truthVars, effects
  <1> QED BY <1>3, <1>4, <1>5

\* Every step preserves the invariant.
LEMMA NextWebhooks ==
    ASSUME WebhooksInvariant, [Next]_vars
    PROVE  WebhooksInvariant'
  <1>1. CASE \E b \in Bodies : store(b) \/ post(b)
    BY <1>1, StoreStep, PostStep
  <1>2. CASE alarm
    BY <1>2, AlarmStep
  <1>3. CASE pull
    BY <1>3, PullStep
  <1>4. CASE pull_fails
    <2>1. tick' = noTick /\ up' \in BOOLEAN /\ faults' \in Nat
          /\ UNCHANGED <<relayVars, collected, inbox, effects, answered, made, kind>>
      BY <1>4 DEF pull_fails, WebhooksInvariant, TypeOK, truthVars
    <2> QED BY <2>1, LostTickStep
  <1>5. CASE take
    BY <1>5, TakeStep
  <1>6. CASE advance
    BY <1>6, AdvanceStep
  <1>7. CASE ack
    BY <1>7, AckStep
  <1>8. CASE Work
    BY <1>8, IngestStep, FlagArchiveStep, MirrorWindowStep, ApplyStatusesStep, CompleteStep
       DEF Work
  <1>9. CASE crash
    <2>1. tick' = noTick /\ up' \in BOOLEAN /\ faults' \in Nat
          /\ UNCHANGED <<relayVars, collected, inbox, effects, answered, made, kind>>
      <3>1. faults \in Nat
        BY DEF WebhooksInvariant, TypeOK
      <3>2. up' = FALSE /\ faults' = faults + 1 /\ tick' = noTick
            /\ UNCHANGED <<relayVars, collected, inbox, effects, answered, made, kind>>
        BY <1>9 DEF crash
      <3>3. up' \in BOOLEAN
        BY <3>2, Zenon
      <3>4. faults' \in Nat
        BY <3>1, <3>2
      <3> QED BY <3>2, <3>3, <3>4
    <2> QED BY <2>1, LostTickStep
  <1>10. CASE restart
    <2> USE DEF WebhooksInvariant
    <2>1. up' = TRUE /\ UNCHANGED <<relayVars, collected, inbox, effects, tick, truthVars>>
      BY <1>10 DEF restart
    <2>3. TypeOK'
      BY <2>1 DEF TypeOK, relayVars, collected, truthVars, effects
    <2>4. InboxIsTrue' /\ EffectsMatchFlags' /\ \A b : Stored(b) => Stored(b)'
      BY <2>1, InboxFrame DEF truthVars
    <2>5. UNCHANGED <<mail, top, purged, rowOf, acked, known, quarantine, gaps, tick, made, kind>>
      BY <2>1 DEF relayVars, collected, truthVars
    <2>6. \A r : RowIsTrue(r)' = RowIsTrue(r)
      <3>1. Unverified' = Unverified
        BY <2>5 DEF Unverified
      <3> QED BY <2>5, <3>1 DEF RowIsTrue
    <2>7. RowsAreTrue'
      BY <2>5, <2>6 DEF RowsAreTrue
    <2>8. MailboxIsASuffix' /\ PageFollowsCursor'
      BY <2>5 DEF MailboxIsASuffix, PageFollowsCursor, Greater
    <2>9. \A s : Settled(s) => Settled(s)'
      BY <2>4, <2>5 DEF Settled
    <2>10. AckedIsSettled' /\ TickIsSound'
      BY <2>5, <2>9 DEF AckedIsSettled, TickIsSound, Seqs, noTick
    <2> QED BY <2>3, <2>4, <2>7, <2>8, <2>10
  <1>11. CASE UNCHANGED vars
    BY <1>11, StutterStep
  <1> QED
    BY <1>1, <1>2, <1>3, <1>4, <1>5, <1>6, <1>7, <1>8, <1>9, <1>10, <1>11 DEF Next

\* The invariant of the mailbox, the collector, the inbox and the worker holds
\* in every reachable state.
THEOREM WebhooksInductive == Spec => []WebhooksInvariant
  <1>1. Init => WebhooksInvariant
    BY InitWebhooks
  <1>2. WebhooksInvariant /\ [Next]_vars => WebhooksInvariant'
    BY NextWebhooks
  <1> QED
    BY <1>1, <1>2, PTL DEF Spec

\* Collector.run_once against Mailbox.alarm and a crash anywhere: a row the
\* relay stored is in the mailbox, purged, quarantined or in the inbox, and no
\* gap is ever reported.
THEOREM NoRowDisappears == Spec => []EveryRowAccounted
  <1>1. WebhooksInvariant => EveryRowAccounted
    <2> SUFFICES ASSUME WebhooksInvariant
                 PROVE  EveryRowAccounted
      OBVIOUS
    <2> USE DEF WebhooksInvariant
    <2>1. mail \in Seq(Row) /\ Len(mail) \in Nat /\ top \in Nat /\ purged \in Nat
          /\ acked \in Nat
      BY DEF TypeOK
    <2>2. PICK l \in Nat : l = Len(mail)
      BY <2>1
    <2>3. ASSUME NEW s \in 1..top
          PROVE  \/ \E i \in DOMAIN mail : mail[i].seq = s
                 \/ s <= purged
                 \/ s \in quarantine
                 \/ Stored(rowOf[s])
      <3>1. CASE s <= top - l
        <4>1. s <= purged \/ s \in 1..acked
          BY <2>1, <2>2, <3>1 DEF MailboxIsASuffix
        <4> QED BY <4>1 DEF AckedIsSettled, Settled
      <3>2. CASE ~(s <= top - l)
        <4>1. s - (top - l) \in 1..l /\ top - l + (s - (top - l)) = s
          BY <2>1, <2>2, <3>2 DEF MailboxIsASuffix
        <4>2. PICK i \in DOMAIN mail : i = s - (top - l)
          BY <2>1, <2>2, <4>1
        <4>3. mail[i].seq = s
          BY <2>2, <4>1, <4>2 DEF MailboxIsASuffix
        <4> QED BY <4>2, <4>3
      <3> QED BY <3>1, <3>2
    <2> QED
      BY <2>3 DEF EveryRowAccounted, PageFollowsCursor
  <1> QED
    BY <1>1, WebhooksInductive, PTL

\* WebhookWorker.run_once over a crash at any step: a finished row's messages are
\* archived, its window mirrored exactly once and its reports applied, and
\* nothing of a row that cannot be parsed is.
THEOREM FinishedMeansApplied == Spec => []FinishedRowsAreApplied
  <1>1. WebhooksInvariant => FinishedRowsAreApplied
    <2> SUFFICES ASSUME WebhooksInvariant, NEW i \in DOMAIN inbox
                 PROVE  LET b == inbox[i].body IN
                        /\ inbox[i].done /\ b \notin Malformed =>
                             b \in archive /\ windowRuns[b] = 1 /\ Carries[b] \subseteq applied
                        /\ b \in Malformed => b \notin archive /\ windowRuns[b] = 0
      BY DEF FinishedRowsAreApplied
    <2> QED
      BY DEF WebhooksInvariant, EffectsMatchFlags
  <1> QED
    BY <1>1, WebhooksInductive, PTL

\* The daemon implements the report channel the delivery engine relies on: every
\* step of the relay, the collector and the worker is one of Reports or none.
THEOREM WebhooksImplementReports == Spec => ReportsImplemented
  <1>1. Init => ReportChannel!Init
    BY DEF Init, ReportChannel!Init
  <1>2. WebhooksInvariant /\ [Next]_vars => [ReportChannel!Next]_(ReportChannel!vars)
    <2> SUFFICES ASSUME WebhooksInvariant, [Next]_vars
                 PROVE  ReportChannel!Report \/ ReportChannel!Apply
                        \/ UNCHANGED <<made, applied>>
      BY DEF ReportChannel!Next, ReportChannel!vars
    <2>1. ASSUME NEW b \in Bodies, Posting(b), UNCHANGED applied
          PROVE  ReportChannel!Report \/ UNCHANGED <<made, applied>>
      <3>1. Carries[b] \in SUBSET Refs
        BY WebhooksAssumption
      <3> QED BY <2>1, <3>1 DEF Posting, ReportChannel!Report
    <2>2. CASE \E b \in Bodies : store(b) \/ post(b)
      BY <2>1, <2>2 DEF store, post, effects
    <2>3. CASE apply_statuses
      <3>1. Current \in DOMAIN inbox /\ Here = inbox[Current] /\ Here \in Entry
        BY <2>3, CurrentIsUndone, SMTT(60) DEF apply_statuses, Working, WebhooksInvariant, TypeOK, Here
      <3>2. Carries[Here.body] \subseteq made
        BY <3>1 DEF WebhooksInvariant, InboxIsTrue
      <3>3. made' = made
        BY <2>3 DEF apply_statuses, truthVars
      <3>4. CASE Here.body \in Malformed
        BY <2>3, <3>3, <3>4 DEF apply_statuses
      <3>5. CASE Here.body \notin Malformed
        <4>1. PICK S \in SUBSET (made \ applied) : S = Carries[Here.body] \ applied
          BY <3>2
        <4>2. applied' = applied \cup S
          BY <2>3, <3>5, <4>1 DEF apply_statuses
        <4> QED BY <3>3, <4>1, <4>2 DEF ReportChannel!Apply
      <3> QED BY <3>4, <3>5
    <2>4. CASE alarm \/ pull \/ pull_fails \/ take \/ advance \/ ack
      BY <2>4 DEF alarm, pull, pull_fails, take, advance, ack, effects, truthVars
    <2>5. CASE ingest \/ flag_archive \/ mirror_window \/ complete
      BY <2>5 DEF ingest, flag_archive, mirror_window, complete, effects, truthVars
    <2>6. CASE crash \/ restart
      BY <2>6 DEF crash, restart, effects, truthVars
    <2>7. CASE UNCHANGED vars
      BY <2>7 DEF vars, effects, truthVars
    <2> QED
      BY <2>2, <2>3, <2>4, <2>5, <2>6, <2>7 DEF Next, Work
  <1> QED
    BY <1>1, <1>2, WebhooksInductive, PTL DEF Spec, ReportsImplemented, ReportChannel!Spec
=============================================================================
