------------------------------ MODULE Webhooks ------------------------------
(***************************************************************************)
(* WhatsApp webhooks on their way home: Meta posts a body to the relay's   *)
(* Mailbox (relay/src) or to the daemon's own listener, the collector      *)
(* pulls the mailbox (runtime/relay.py), the durable inbox keeps each      *)
(* verified body once, and the worker applies each row's effects           *)
(* (transports/whatsapp/webhooks).                                         *)
(*                                                                         *)
(* A tick of the collector and a run of the worker never await, so inside  *)
(* the daemon a tick excludes the worker and the listener (phase); Meta,   *)
(* the relay's alarm and a crash fall between any two of its steps.  Where *)
(* a run of the worker stands is in the rows' flags.  Row contents are the *)
(* body they came from: age, base64 and the signature are whether the      *)
(* daemon can open and verify it (Unverified).                             *)
(***************************************************************************)
EXTENDS Integers, Sequences, FiniteSets

CONSTANTS
    Bodies,        \* raw webhook bodies
    Parts,         \* mailbox rows a body takes: ceil(size / PART_BYTES)
    Refs,          \* provider event refs of status reports
    Carries,       \* the status reports of a body
    MayBe,         \* the kinds a body may turn out to be of
    PageRows,      \* PAGE_ROWS (rows of a page; a long row may end it early)
    PagesPerTick,  \* _PAGES_PER_TICK
    MaxRows,       \* bound: rows the mailbox ever stores
    MaxFaults      \* bound: crashes of the daemon, and alarms that purge

VARIABLES
    mail,       \* mailbox rows, oldest first
    top,        \* the AUTOINCREMENT sequence number last given out
    purged,     \* meta.purged_through
    inbox,      \* webhook_inbox, in id order, with its flags
    acked,      \* relay_state.acked_through
    known,      \* relay_state.purged_through
    quarantine, \* relay_quarantine: seqs
    gaps,       \* relay_gaps: seqs reported missing
    applied,    \* provider_updates
    archive,    \* whatsapp_messages: bodies whose messages are kept
    tick,       \* where a tick of the collector stands, with its locals
    up,         \* the daemon is running
    kind,       \* what a body turns out to be, fixed
    rowOf,      \* ground truth: the body a seq was stored for
    answered,   \* ground truth: bodies Meta was answered 200 for
    made,       \* ground truth: reports in bodies Meta posted
    windowRuns, \* ground truth: times a row's window was mirrored
    faults      \* ground truth: crashes and purges so far

relayVars == <<mail, top, purged, rowOf>>
collected == <<acked, known, quarantine, gaps>>
effects == <<applied, archive, windowRuns>>
truthVars == <<answered, made, faults, kind>>
vars == <<relayVars, collected, inbox, effects, tick, up, truthVars>>

-----------------------------------------------------------------------------
\* Bodies that do not decrypt or that Meta did not sign, and verified ones that
\* are not of Meta's documented shape.
Unverified == {b \in Bodies : kind[b] = "unverified"}
Malformed == {b \in Bodies : kind[b] = "malformed"}
Kinds == {"sound", "unverified", "malformed"}

ASSUME WebhooksAssumption ==
    /\ Parts \in [Bodies -> Nat \ {0}]
    /\ Carries \in [Bodies -> SUBSET Refs]
    /\ MayBe \in [Bodies -> SUBSET Kinds]
    /\ PageRows \in Nat \ {0} /\ PagesPerTick \in Nat \ {0}
    /\ MaxRows \in Nat /\ MaxFaults \in Nat

Row == [seq : Nat, body : Bodies, batch : Nat, part : Nat, parts : Nat]
Entry == [body : Bodies, archive : BOOLEAN, window : BOOLEAN,
          status : BOOLEAN, done : BOOLEAN]
Tick == [phase : {"off", "pull", "rows", "advance", "ack"}, cursor : Nat,
         pages : Nat, page : Seq(Row), pending : Seq(Row), settled : Nat]

noTick == [phase |-> "off", cursor |-> 0, pages |-> 0, page |-> <<>>,
           pending |-> <<>>, settled |-> 0]

TypeOK ==
    /\ mail \in Seq(Row) /\ inbox \in Seq(Entry)
    /\ top \in Nat /\ purged \in 0..top /\ acked \in 0..top /\ known \in 0..purged
    /\ quarantine \subseteq 1..top /\ gaps \subseteq 1..top
    /\ applied \subseteq Refs /\ made \subseteq Refs
    /\ archive \subseteq Bodies /\ answered \subseteq Bodies
    /\ tick \in Tick /\ up \in BOOLEAN
    /\ rowOf \in Seq(Bodies) /\ Len(rowOf) = top /\ windowRuns \in [Bodies -> Nat]
    /\ faults \in Nat /\ kind \in [Bodies -> Kinds]

Init ==
    /\ mail = <<>> /\ top = 0 /\ purged = 0 /\ rowOf = <<>>
    /\ inbox = <<>> /\ acked = 0 /\ known = 0 /\ quarantine = {} /\ gaps = {}
    /\ applied = {} /\ archive = {} /\ windowRuns = [b \in Bodies |-> 0]
    /\ tick = noTick /\ up = TRUE
    /\ answered = {} /\ made = {} /\ faults = 0
    /\ kind \in {k \in [Bodies -> Kinds] : \A b \in Bodies : k[b] \in MayBe[b]}

-----------------------------------------------------------------------------
\* Meta and the relay.  Meta posts a body again until it is answered 200; the
\* answer may be lost on its way.  A refusal (path, type, size, rate) changes
\* nothing and Meta retries.

Answer(b) == answered' \in {answered, answered \cup {b}}

\* A report is Meta's when its body verifies.
Posting(b) ==
    made' = IF b \in Unverified THEN made ELSE made \cup Carries[b]

\* Mailbox.store: every part in one storage transaction.
store(b) ==
    LET rows == [i \in 1..Parts[b] |->
                   [seq |-> top + i, body |-> b, batch |-> top + 1,
                    part |-> i - 1, parts |-> Parts[b]]]
    IN /\ b \notin answered
       /\ top + Parts[b] <= MaxRows
       /\ mail' = mail \o rows
       /\ top' = top + Parts[b]
       /\ rowOf' = rowOf \o [i \in 1..Parts[b] |-> b]
       /\ Posting(b) /\ Answer(b)
       /\ UNCHANGED <<purged, collected, inbox, effects, tick, up, faults, kind>>

\* Mailbox.alarm: batches older than the retention go, whole.
alarm ==
    /\ faults < MaxFaults
    /\ \E i \in DOMAIN mail :
          /\ mail[i].part = mail[i].parts - 1
          /\ mail' = SubSeq(mail, i + 1, Len(mail))
          /\ purged' = mail[i].seq
    /\ faults' = faults + 1
    /\ UNCHANGED <<top, rowOf, collected, inbox, effects, tick, up, answered, made, kind>>

\* Inbox.store: once per body, whatever its route.
Stored(b) == \E i \in DOMAIN inbox : inbox[i].body = b
Kept(b) ==
    IF Stored(b) THEN inbox
    ELSE Append(inbox, [body |-> b, archive |-> FALSE, window |-> FALSE,
                        status |-> FALSE, done |-> FALSE])

\* The daemon's listener: the signature first, the commit before the answer.
post(b) ==
    /\ up /\ tick = noTick
    /\ b \notin answered \cup Unverified
    /\ inbox' = Kept(b)
    /\ Posting(b) /\ Answer(b)
    /\ UNCHANGED <<relayVars, collected, effects, tick, up, faults, kind>>

-----------------------------------------------------------------------------
\* One tick of the collector.

Seqs(rows) == {rows[i].seq : i \in DOMAIN rows}
Last(rows) == rows[Len(rows)]
Greater(a, b) == IF a > b THEN a ELSE b
LowerOf(a, b) == IF a < b THEN a ELSE b

\* The rows past seq s are the ones after the first n; the mailbox is in seq order.
Past(s, n) == \A i \in DOMAIN mail : (n < i) = (s < mail[i].seq)

\* A page: a non-empty prefix of what lies past the cursor, as a long row may
\* end it early, with purged_through read beside it.  An empty page ends the
\* tick, and a batch that never completed is quarantined.
pull ==
    LET cursor == IF tick.phase = "off" THEN acked ELSE tick.cursor
        lost == tick.pending # <<>>
    IN /\ up /\ tick.phase \in {"off", "pull"}
       /\ known' = Greater(known, purged)
       /\ \/ /\ \E n \in 0..Len(mail) - 1 :
                \E m \in n + 1..LowerOf(Len(mail), n + PageRows) :
                   /\ Past(cursor, n)
                   /\ tick' = [tick EXCEPT !.phase = "rows", !.cursor = cursor,
                                           !.page = SubSeq(mail, n + 1, m),
                                           !.pages = tick.pages + 1]
             /\ UNCHANGED quarantine
          \/ /\ Past(cursor, Len(mail))
             /\ tick' = IF lost THEN [noTick EXCEPT !.phase = "advance", !.cursor = cursor,
                                                    !.settled = Last(tick.pending).seq]
                        ELSE [noTick EXCEPT !.phase = "ack", !.cursor = cursor]
             /\ quarantine' = quarantine \cup Seqs(tick.pending)
       /\ UNCHANGED <<relayVars, acked, gaps, inbox, effects, up, truthVars>>

\* A pull refused, unreachable or malformed ends the tick without an ack.
pull_fails ==
    /\ up /\ tick.phase = "pull" /\ tick' = noTick
    /\ UNCHANGED <<relayVars, collected, inbox, effects, up, truthVars>>

\* What follows a row: the next of its page, the next page, or the ack.
AfterRow(t) ==
    [t EXCEPT !.phase = IF t.page # <<>> THEN "rows"
                        ELSE IF t.pages = 0 \/ t.pages = PagesPerTick THEN "ack"
                        ELSE "pull"]

\* Mutant: gap detection that forgets what the relay said it purged.
MissingFromCursor(seq) == (tick.cursor + 1)..(seq - 1)

\* _gap: rows neither acked nor purged that the relay no longer has.
Missing(seq) == (Greater(tick.cursor, known) + 1)..(seq - 1)

\* Mutant: a collector whose progress moves with every row it reads.
take_moving_progress ==
    LET row == Head(tick.page)
        rows == Append(tick.pending, row)
        whole == Len(rows) = row.parts
    IN /\ up /\ tick.phase = "rows"
       /\ inbox' = IF whole /\ row.body \notin Unverified THEN Kept(row.body)
                   ELSE inbox
       /\ tick' = [tick EXCEPT !.cursor = row.seq, !.page = Tail(tick.page),
                               !.pending = IF whole THEN <<>> ELSE rows,
                               !.settled = row.seq, !.phase = "advance"]
       /\ UNCHANGED <<relayVars, collected, effects, up, truthVars>>

\* Mutant: a collector that trusts what the relay hands it.
take_unverified ==
    LET row == Head(tick.page)
        rows == Append(tick.pending, row)
        whole == Len(rows) = row.parts
    IN /\ up /\ tick.phase = "rows"
       /\ inbox' = IF whole THEN Kept(row.body) ELSE inbox
       /\ tick' = [tick EXCEPT !.cursor = row.seq, !.page = Tail(tick.page),
                               !.pending = IF whole THEN <<>> ELSE rows,
                               !.settled = row.seq, !.phase = "advance"]
       /\ UNCHANGED <<relayVars, collected, effects, up, truthVars>>

\* _take: a row continues the pending batch, starts one, or breaks it.
take ==
    LET row == Head(tick.page)
        broken == /\ tick.pending # <<>>
                  /\ \/ row.batch # tick.pending[1].batch
                     \/ row.part # Len(tick.pending)
                     \/ row.seq # Last(tick.pending).seq + 1
        old == IF broken THEN <<>> ELSE tick.pending
        rows == Append(old, row)
        stray == old = <<>> /\ row.part # 0
        whole == ~stray /\ Len(rows) = row.parts
        good == whole /\ row.body \notin Unverified
        dropped == IF broken THEN Seqs(tick.pending) ELSE {}
        refused == IF stray THEN {row.seq}
                   ELSE IF whole /\ ~good THEN Seqs(rows) ELSE {}
        read == [tick EXCEPT !.cursor = row.seq, !.page = Tail(tick.page)]
    IN /\ up /\ tick.phase = "rows"
       /\ gaps' = gaps \cup Missing(row.seq)
       /\ quarantine' = quarantine \cup dropped \cup refused
       /\ inbox' = IF good THEN Kept(row.body) ELSE inbox
       /\ tick' = IF stray \/ whole
                  THEN [read EXCEPT !.pending = <<>>, !.settled = row.seq,
                                    !.phase = "advance"]
                  ELSE AfterRow([read EXCEPT !.pending = rows])
       /\ UNCHANGED <<relayVars, acked, known, effects, up, truthVars>>

\* _advance, a transaction of its own after the row is settled.
advance ==
    /\ up /\ tick.phase = "advance"
    /\ acked' = Greater(acked, tick.settled)
    /\ tick' = AfterRow([tick EXCEPT !.settled = 0])
    /\ UNCHANGED <<relayVars, known, quarantine, gaps, inbox, effects, up, truthVars>>

\* The ack is cumulative; a lost one is repeated by the next tick.
ack ==
    /\ up /\ tick.phase = "ack"
    /\ \/ UNCHANGED mail
       \/ \E n \in 0..Len(mail) :
             Past(acked, n) /\ mail' = SubSeq(mail, n + 1, Len(mail))
    /\ tick' = noTick
    /\ UNCHANGED <<top, purged, rowOf, collected, inbox, effects, up, truthVars>>

-----------------------------------------------------------------------------
\* A run of the worker: the unfinished rows in id order, each from the first
\* flag it lacks.

Undone == {i \in DOMAIN inbox : ~inbox[i].done}
Current == CHOOSE i \in Undone : \A j \in Undone : i <= j
Here == inbox[Current]
Working == up /\ tick = noTick /\ Undone # {}
Set(flag) == inbox' = [inbox EXCEPT ![Current] = [Here EXCEPT ![flag] = TRUE]]

\* archive.ingest, its own transaction: nothing of a malformed body.  An import
\* that raises ends the run, and the next one starts again at this row.
ingest ==
    /\ Working /\ ~Here.archive
    /\ Here.body \notin Malformed \cup archive
    /\ archive' = archive \cup {Here.body}
    /\ UNCHANGED <<relayVars, collected, inbox, applied, windowRuns, tick, up, truthVars>>

flag_archive ==
    /\ Working /\ ~Here.archive
    /\ Here.body \in Malformed \cup archive
    /\ Set("archive")
    /\ UNCHANGED <<relayVars, collected, effects, tick, up, truthVars>>

\* Mutant: a window mirrored in one transaction and flagged in another.
mirror_window_unflagged ==
    /\ Working /\ Here.archive /\ ~Here.window
    /\ inbox' \in {inbox, [inbox EXCEPT ![Current] = [Here EXCEPT !.window = TRUE]]}
    /\ windowRuns' = [windowRuns EXCEPT ![Here.body] =
                        IF Here.body \in Malformed THEN @ ELSE @ + 1]
    /\ UNCHANGED <<relayVars, collected, applied, archive, tick, up, truthVars>>

\* mirror_window_in_tx for each inbound message, with its flag.
mirror_window ==
    /\ Working /\ Here.archive /\ ~Here.window
    /\ Set("window")
    /\ windowRuns' = [windowRuns EXCEPT ![Here.body] =
                        IF Here.body \in Malformed THEN @ ELSE @ + 1]
    /\ UNCHANGED <<relayVars, collected, applied, archive, tick, up, truthVars>>

\* apply_provider_update is idempotent by its event ref, with the flag.
apply_statuses ==
    /\ Working /\ Here.window /\ ~Here.status
    /\ Set("status")
    /\ applied' = IF Here.body \in Malformed THEN applied
                  ELSE applied \cup Carries[Here.body]
    /\ UNCHANGED <<relayVars, collected, archive, windowRuns, tick, up, truthVars>>

complete ==
    /\ Working /\ Here.status
    /\ Set("done")
    /\ UNCHANGED <<relayVars, collected, effects, tick, up, truthVars>>

-----------------------------------------------------------------------------
crash ==
    /\ up /\ faults < MaxFaults
    /\ up' = FALSE /\ tick' = noTick
    /\ faults' = faults + 1
    /\ UNCHANGED <<relayVars, collected, inbox, effects, answered, made, kind>>

restart ==
    /\ ~up /\ up' = TRUE
    /\ UNCHANGED <<relayVars, collected, inbox, effects, tick, truthVars>>

\* The collector's loop: a tick begins, and one that has begun goes on; a
\* daemon that is down is restarted.
Continue ==
    restart \/ (tick.phase = "off" /\ pull) \/ take \/ advance \/ ack

Work == ingest \/ flag_archive \/ mirror_window \/ apply_statuses \/ complete

Next ==
    \/ \E b \in Bodies : store(b) \/ post(b)
    \/ alarm
    \/ pull \/ pull_fails \/ take \/ advance \/ ack
    \/ Work
    \/ crash \/ restart

\* The worker loops run for ever (workers.py), one after the other; a pull, an
\* ack and an import that keep being tried succeed in the end.
Fairness ==
    /\ WF_vars(Continue)
    /\ SF_vars(tick.phase = "pull" /\ pull)
    /\ SF_vars(Work)

Spec == Init /\ [][Next]_vars /\ Fairness

-----------------------------------------------------------------------------
\* The parts of the inductive invariant.

\* A row holds a body that was posted, and its batch is of that body alone.
RowIsTrue(r) ==
    /\ r.seq \in 1..top /\ r.batch \in 1..top
    /\ rowOf[r.seq] = r.body /\ rowOf[r.batch] = r.body
    /\ r.body \in Unverified \/ Carries[r.body] \subseteq made

RowsAreTrue ==
    /\ \A i \in DOMAIN mail : RowIsTrue(mail[i])
    /\ \A i \in DOMAIN tick.page : RowIsTrue(tick.page[i])
    /\ \A i \in DOMAIN tick.pending : RowIsTrue(tick.pending[i])

\* The mailbox holds the latest rows without a gap; the ones before were purged
\* or acknowledged.
MailboxIsASuffix ==
    /\ Len(mail) <= top
    /\ \A i \in DOMAIN mail : mail[i].seq = top - Len(mail) + i
    /\ purged <= top - Len(mail)
    /\ top - Len(mail) <= purged \/ top - Len(mail) <= acked

\* What became of a row that the collector need not see again.
Settled(s) == s <= purged \/ s \in quarantine \/ Stored(rowOf[s])
AckedIsSettled == \A s \in 1..acked : Settled(s)

\* A tick has settled every row up to its cursor, but those it still holds.
TickIsSound ==
    /\ tick.phase = "off" => tick = noTick
    /\ tick.phase # "off" => acked <= tick.cursor
    /\ tick.cursor <= top
    /\ \A s \in 1..tick.cursor : Settled(s) \/ s \in Seqs(tick.pending)
    /\ \A i \in DOMAIN tick.pending :
          /\ tick.pending[i].batch = tick.pending[1].batch
          /\ tick.pending[i].seq <= tick.cursor
    /\ tick.phase = "advance" => tick.pending = <<>> /\ tick.settled <= tick.cursor

\* The page under way continues where the cursor or the known purge ends.
PageFollowsCursor ==
    /\ tick.phase = "rows" => tick.page # <<>>
    /\ tick.page # <<>> =>
          /\ tick.cursor < tick.page[1].seq
          /\ tick.page[1].seq <= Greater(tick.cursor, known) + 1
    /\ \A i \in DOMAIN tick.page : tick.page[i].seq = tick.page[1].seq + i - 1
    /\ gaps = {}

\* The inbox holds posted, verified bodies, each once.
InboxIsTrue ==
    \A i \in DOMAIN inbox :
        /\ inbox[i].body \notin Unverified
        /\ Carries[inbox[i].body] \subseteq made
        /\ \A j \in DOMAIN inbox : inbox[i].body = inbox[j].body => i = j

\* A row's effects are those its flags say, and the archive may be one ahead.
EffectsMatchFlags ==
    /\ \A i \in DOMAIN inbox :
          LET e == inbox[i] IN
          /\ (e.window => e.archive) /\ (e.status => e.window) /\ (e.done => e.status)
          /\ e.body \in Malformed => e.body \notin archive /\ windowRuns[e.body] = 0
          /\ e.body \notin Malformed =>
                /\ e.archive => e.body \in archive
                /\ windowRuns[e.body] = IF e.window THEN 1 ELSE 0
                /\ e.status => Carries[e.body] \subseteq applied
    /\ \A b \in Bodies : ~Stored(b) => b \notin archive /\ windowRuns[b] = 0

WebhooksInvariant ==
    /\ TypeOK /\ RowsAreTrue /\ MailboxIsASuffix /\ AckedIsSettled /\ TickIsSound
    /\ PageFollowsCursor /\ InboxIsTrue /\ EffectsMatchFlags

-----------------------------------------------------------------------------
\* Properties.

\* No row the relay took responsibility for disappears: it is still in the
\* mailbox, was purged by age, is quarantined, or its body is in the inbox;
\* and no row is reported missing, since none ever is (Collector.run_once
\* against Mailbox.alarm and a crash before _advance or ack).
EveryRowAccounted ==
    /\ \A s \in 1..top :
          \/ \E i \in DOMAIN mail : mail[i].seq = s
          \/ s <= purged
          \/ s \in quarantine
          \/ Stored(rowOf[s])
    /\ gaps = {}

\* A finished row had every effect: its messages are archived, its window was
\* mirrored exactly once and its reports are applied; a row that cannot be
\* parsed had none (WebhookWorker.run_once over a crash at any step).
FinishedRowsAreApplied ==
    \A i \in DOMAIN inbox :
        LET b == inbox[i].body IN
        /\ inbox[i].done /\ b \notin Malformed =>
              b \in archive /\ windowRuns[b] = 1 /\ Carries[b] \subseteq applied
        /\ b \in Malformed => b \notin archive /\ windowRuns[b] = 0

\* The daemon implements the report channel Delivery assumes.
ReportChannel == INSTANCE Reports WITH Refs <- Refs, made <- made, applied <- applied
ReportsImplemented == ReportChannel!Spec

\* A report in a body Meta was answered 200 for is applied in the end, along either
\* route, unless the relay purged a row of that body by age (Mailbox.alarm).
AnsweredIsApplied ==
    \A b \in Bodies :
        [](b \in answered /\ kind[b] = "sound" =>
             <>(Carries[b] \subseteq applied \/ \E s \in 1..purged : rowOf[s] = b))
=============================================================================
