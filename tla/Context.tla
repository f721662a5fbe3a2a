------------------------------- MODULE Context -------------------------------
(***************************************************************************)
(* Reading a conversation (services/context.py, services/group_reads.py    *)
(* and the three sources under transports): one rule chooses the reader of *)
(* a group, the user account's live history, the bot's retained updates or *)
(* the WhatsApp archive; a client then walks a group's rows page by page,  *)
(* searches several groups within bounds, or asks for what surrounds a     *)
(* message.  Between two pages rows arrive, are deleted, are received late *)
(* and are swept by retention, the account's capability comes and goes,    *)
(* and a page is cut where its bytes run out.                              *)
(*                                                                         *)
(* A row is a message or, when a list is read, a join request, an invite,  *)
(* a topic or an event of the admin log; it is the number the provider     *)
(* gave it.  What the bot or the webhook received is a sequence in the     *)
(* order of receipt, from which retention sweeps a prefix.                 *)
(***************************************************************************)
EXTENDS Integers, Sequences, SequencesExt, FiniteSets, FiniteSetsExt

CONSTANTS
    Rooms,      \* the groups, in the order a search names them
    Setups,     \* which actors have a target in each room
    Hits,       \* the rows that match the query, or are the person's
    Husks,      \* the rows a list of topics or invites drops
    Views,      \* bound: the readings of this instance
    PageLen,    \* the page a client asks for
    ResultMax,  \* the results a search asks for
    Bounds,     \* SEARCH_BOUNDS: requests and messages
    Gap,        \* update ids and message ids are unrelated numbers
    FirstRows,  \* rows in each room at the start
    Received,   \* what the store had received of them, in that order
    MaxStirs    \* bound: changes while the client reads

VARIABLES
    talk,       \* provider: the rows of each room
    store,      \* what the bot's updates or the webhook archive received, in order
    swept,      \* retention: how many of them are gone
    goals,      \* directory: the actors with a target in each room
    wired,      \* the configured sources
    able,       \* whether the user account has the capability now
    poller,     \* the bot's long poll: Telegram's queue, the durable offset, the batch in hand
    task,       \* what the client of this behaviour asks for
    view,       \* the client's walk through the pages of one room
    hunt,       \* a search in progress
    look,       \* the last one-shot answer
    stirs

vars == <<talk, store, swept, goals, wired, able, poller, task, view, hunt, look, stirs>>

Room == Range(Rooms)
Actors == {"telegram_user", "telegram_bot", "whatsapp_cloud"}
Nobody == "none"

-----------------------------------------------------------------------------
\* What each source serves (its read) and how it labels it.

Lists == {"join_requests", "invites", "topics", "admin_log"}

user_kinds ==
    {"recent", "around", "thread", "search", "members", "admins", "member", "permissions",
     "from", "topic"} \cup Lists
bot_kinds == {"recent", "around", "from", "admins", "member", "permissions", "join_requests"}
\* The archive's messages, and beside them the group's live facts.
archive_kinds == {"recent", "around", "from"}
cloud_kinds == archive_kinds \cup {"members", "member", "join_requests", "invites"}

Serves == [telegram_user |-> user_kinds, telegram_bot |-> bot_kinds, whatsapp_cloud |-> cloud_kinds]

\* ContextEngine.reader: the archive for WhatsApp, the account when it can, else the bot.
reader(targets, fallback) ==
    IF "whatsapp_cloud" \in targets
    THEN IF "whatsapp_cloud" \in wired THEN "whatsapp_cloud" ELSE Nobody
    ELSE IF "telegram_user" \in targets \cap wired /\ able THEN "telegram_user"
    ELSE IF fallback /\ "telegram_bot" \in targets \cap wired THEN "telegram_bot"
    ELSE Nobody

\* ContextEngine.summarize_source: the sources it calls available.
available(targets) ==
    {a \in targets \cap wired : a # "telegram_user" \/ able}

-----------------------------------------------------------------------------
\* One page of a source: its rows as the keys the source pages by, newest first.

Newest(S, n) == {i \in S : Cardinality({j \in S : j > i}) < n}
Descending(S) ==
    [n \in 1..Cardinality(S) |-> CHOOSE i \in S : Cardinality({j \in S : j > i}) = n - 1]
Prefix(s, n) == SubSeq(s, 1, Min({n, Len(s)}))

\* _page_end: an empty page, everything at once, or ids that all fit the page.
page_end(raw, limit, whole) ==
    IF raw = {} \/ whole \/ Max(raw) <= limit THEN 0 ELSE Min(raw)

\* The rows of the store that retention left: the bot pages by receipt (update_id) ...
Retained(r) == (swept[r] + 1)..Len(store[r])
\* ... and the archive by the time of sending, whatever order the webhooks came in.
Sent(r) == {store[r][n] : n \in Retained(r)}

\* The rows a source holds, as it keys them; of, those that belong to the reading.
Keeps(actor, r) ==
    CASE actor = "telegram_user" -> talk[r]
      [] actor = "telegram_bot" -> {n + Gap : n \in Retained(r)}
      [] OTHER -> Sent(r)

RowOf(actor, r, key) == IF actor = "telegram_bot" THEN store[r][key - Gap] ELSE key

Wanted(actor, r, kind) ==
    {k \in Keeps(actor, r) : kind \in {"from", "search"} => RowOf(actor, r, k) \in Hits}

Below(S, cursor) == IF cursor = 0 THEN S ELSE {k \in S : k < cursor}

\* A page; lost are the rows it leaves out to which its cursor does not come back.
Page(rows, next) == [rows |-> rows, next |-> next, lost |-> {}]
Without(rows, kept) == Range(rows) \ Range(kept)

\* Mutant: a page that was cut resumes where the read ended.
_page_past_the_cut(rows, fits, below, cursor_of) ==
    LET kept == Prefix(rows, fits)
    IN [Page(kept, below) EXCEPT !.lost = IF cursor_of THEN {} ELSE Without(rows, kept)]

\* user/context.py _page: the prefix that fits, resumed after the last row kept where the
\* caller has a cursor of messages; else the cursor stays as it came.
_page(rows, fits, below, cursor_of) ==
    LET kept == Prefix(rows, fits)
    IN IF cursor_of
       THEN Page(kept, IF Len(kept) < Len(rows) /\ kept # <<>> THEN Last(kept) ELSE below)
       ELSE [Page(kept, below) EXCEPT !.lost = Without(rows, kept)]

\* How much of a page may fit; one row always does.
Fitting(rows) == 1..Max({1, Len(rows)})

\* UserContext._read: one request for history, search or one sender's messages.
user_messages(r, kind, cursor, limit) ==
    LET open == Below(Wanted("telegram_user", r, kind), cursor)
        raw == Newest(open, limit)
    IN {_page(Descending(raw), fits, page_end(raw, limit, whole), TRUE) :
            fits \in Fitting(Descending(raw)), whole \in {w \in BOOLEAN : w => raw = open}}

\* The next offset of a list: its last row, when the page was full ...
join_requests(raw, limit) == IF Cardinality(raw) = limit THEN Min(raw) ELSE 0
admin_log(raw, limit) == IF Cardinality(raw) = limit THEN Min(raw) ELSE 0
\* ... or the last topic that is not a deleted one's husk, the last invite that is a link.
forum_topics(raw, limit) ==
    IF Cardinality(raw) = limit /\ raw \ Husks # {} THEN Min(raw \ Husks) ELSE 0
exported_invites(raw, limit) == forum_topics(raw, limit)

\* UserContext._list.
user_list(r, kind, cursor, limit) ==
    LET raw == Newest(Below(talk[r], cursor), limit) IN
    {CASE kind = "join_requests" -> Page(Descending(raw), join_requests(raw, limit))
       [] kind = "admin_log" -> Page(Descending(raw), admin_log(raw, limit))
       [] kind = "topics" -> Page(Descending(raw \ Husks), forum_topics(raw, limit))
       [] OTHER -> Page(Descending(raw \ Husks), exported_invites(raw, limit))}

\* A basic group's members come whole and are paged here; channels page at the provider.
fetch_participants(r, offset, limit) ==
    LET every == Reverse(Descending(talk[r]))
        rows == SubSeq(every, offset + 1, Min({offset + limit, Len(every)}))
    IN Page(rows, IF Len(every) > offset + limit THEN offset + Len(rows) ELSE 0)

\* The members that do not fit are dropped; the cursor is the provider's, past them.
user_members(r, offset, limit) ==
    LET raw == fetch_participants(r, offset, limit)
    IN {_page(raw.rows, fits, raw.next, FALSE) : fits \in Fitting(raw.rows)}

\* BotContext._recent and ArchiveContext._recent: one row more than asked for tells of more.
one_more(S, limit) ==
    LET rows == Descending(Newest(S, limit))
    IN {Page(rows, IF Cardinality(S) > limit THEN Last(rows) ELSE 0)}

\* The archive looks its cursor row up again: once retention swept it, the page is empty.
archive_recent(r, kind, cursor, limit) ==
    IF cursor # 0 /\ cursor \notin Sent(r) THEN {Page(<<>>, 0)}
    ELSE one_more(Below(Wanted("whatsapp_cloud", r, kind), cursor), limit)

\* cloud/context.py _members: the participants of the group, in one page.
cloud_members(r) == {Page(Descending(talk[r]), 0)}

\* cloud/context.py _join_requests: Meta's cursor, when the page was full.
cloud_list(r, cursor, limit) ==
    LET raw == Newest(Below(talk[r], cursor), limit)
    IN {Page(Descending(raw), IF Cardinality(raw) = limit THEN Min(raw) ELSE 0)}

\* ContextEngine._read: the pages one read may answer with; no page for a kind not served.
_read(actor, r, kind, cursor, limit) ==
    IF actor \notin wired \/ kind \notin Serves[actor] THEN {}
    ELSE IF kind = "members"
    THEN IF actor = "telegram_user" THEN user_members(r, cursor, limit) ELSE cloud_members(r)
    ELSE IF actor = "telegram_user"
    THEN IF kind \in Lists THEN user_list(r, kind, cursor, limit)
         ELSE user_messages(r, kind, cursor, limit)
    ELSE IF actor = "telegram_bot" THEN one_more(Below(Wanted(actor, r, kind), cursor), limit)
    ELSE IF kind \in Lists THEN cloud_list(r, cursor, limit)
    ELSE archive_recent(r, kind, cursor, limit)

\* What a source holds for a reading: lists and members of WhatsApp are read live.
Basis(actor, r, kind) ==
    IF kind \in {"topics", "invites"} THEN talk[r] \ Husks
    ELSE IF kind \in Lists \cup {"members"} /\ actor # "telegram_bot" THEN talk[r]
    ELSE Wanted(actor, r, kind)

-----------------------------------------------------------------------------
\* A person's standing in a supergroup, as (role, status), and who is listed as administrator.

Standings == {"creator", "administrator", "member", "restricted", "left", "kicked"}

\* TelethonSession.fetch_participant and _standing: banned is to have lost view_messages.
user_standing(s) ==
    CASE s = "left" -> <<Nobody, "left">>
      [] s = "kicked" -> <<Nobody, "banned">>
      [] s = "restricted" -> <<"member", "restricted">>
      [] s = "creator" -> <<"creator", "member">>
      [] s = "administrator" -> <<"admin", "member">>
      [] OTHER -> <<"member", "member">>

fetch_admins(s) == user_standing(s)[1] \in {"creator", "admin"}

\* BotContext._member over _STANDING, and _admins over _ROLES.
bot_standing(s) ==
    CASE s = "creator" -> <<"creator", "member">>
      [] s = "administrator" -> <<"admin", "member">>
      [] s \in {"left", "kicked"} -> <<Nobody, IF s = "left" THEN "left" ELSE "banned">>
      [] OTHER -> <<"member", s>>

bot_admins(s) == s \in {"creator", "administrator"}

-----------------------------------------------------------------------------
Init ==
    /\ talk = [r \in Room |-> 1..FirstRows] /\ store = [r \in Room |-> Received]
    /\ swept = [r \in Room |-> 0]
    /\ goals \in Setups /\ wired \in SUBSET Actors /\ able \in BOOLEAN /\ task \in Views
    /\ view = [kind |-> Nobody] /\ hunt = [phase |-> "idle"] /\ look = [kind |-> Nobody]
    /\ poller = [made |-> 0, confirmed |-> 0, offset |-> 0, kept |-> <<>>, batch |-> <<>>,
                 mode |-> "polling"]
    /\ stirs = 0

\* The provider, the other devices, the webhooks, retention and the operator.
\* They matter until the client has its answer, in the rooms it reads.
Open == look.kind = Nobody /\ hunt.phase # "done" /\ (view.kind # Nobody => view.phase = "more")
Read == IF task = "search" THEN Room ELSE {Rooms[1]}

Stir ==
    /\ Open /\ task # "poll" /\ stirs < MaxStirs /\ stirs' = stirs + 1
    /\ UNCHANGED <<wired, poller, task, view, hunt, look>>

arrive(r) ==
    /\ Stir /\ talk' = [talk EXCEPT ![r] = @ \cup {1 + Max(@ \cup Range(store[r]))}]
    /\ UNCHANGED <<store, swept, goals, able>>

delete(r, i) ==
    /\ Stir /\ talk' = [talk EXCEPT ![r] = @ \ {i}] /\ i < Max(talk[r])
    /\ UNCHANGED <<store, swept, goals, able>>

\* An update or a webhook is received, late or not; a message that is edited comes again.
receive(r, i) ==
    /\ Stir /\ ("whatsapp_cloud" \in goals[r] => i \notin Range(store[r]))
    /\ store' = [store EXCEPT ![r] = Append(@, i)]
    /\ UNCHANGED <<talk, swept, goals, able>>

\* Retention goes by the time of receipt.
sweep(r) ==
    /\ Stir /\ swept[r] < Len(store[r]) /\ swept' = [swept EXCEPT ![r] = @ + 1]
    /\ UNCHANGED <<talk, store, goals, able>>

set_able == Stir /\ able' = ~able /\ UNCHANGED <<talk, store, swept, goals>>

\* The operator disables the group: no actor has a target there.
disable(r) ==
    /\ Stir /\ goals[r] # {} /\ goals' = [goals EXCEPT ![r] = {}]
    /\ UNCHANGED <<talk, store, swept, able>>

-----------------------------------------------------------------------------
\* The client's walk.  tokened: the cursor goes out with the actor that served the page.

Quiet == UNCHANGED <<talk, store, swept, goals, wired, able, poller, task, stirs>>
Seen(actor, p) == [n \in DOMAIN p.rows |-> <<actor, p.rows[n]>>]

tokened(v, actor, p, broke) ==
    [v EXCEPT !.actor = actor, !.got = @ \o Seen(actor, p), !.cursor = p.next,
              !.lost = @ \cup p.lost, !.broke = @ \/ broke, !.phase = IF p.next = 0 THEN "end" ELSE "more"]

\* context_recent, context_person, listed and members_list: the first page.
first_page(r, kind) ==
    LET actor == reader(goals[r], TRUE) IN
    /\ view.kind = Nobody /\ actor # Nobody
    /\ \E p \in _read(actor, r, kind, 0, PageLen) :
          view' = tokened([kind |-> kind, room |-> r, first |-> actor, actor |-> actor,
                           base |-> Basis(actor, r, kind), got |-> <<>>, cursor |-> 0,
                           lost |-> {}, broke |-> FALSE, phase |-> "more"], actor, p, FALSE)
    /\ Quiet /\ UNCHANGED <<hunt, look>>

\* run_page keeps the actor of the first page, and listed asks the one rule about it alone;
\* person_section chooses the reader again; the members' cursor is not handed on.
Continues(v) ==
    LET targets == goals[v.room] IN
    CASE v.kind = "from" -> reader(targets, TRUE)
      [] v.kind \in Lists -> reader(targets \cap {v.actor}, TRUE)
      [] OTHER -> IF v.actor \in targets THEN v.actor ELSE Nobody

run_page ==
    LET actor == Continues(view) IN
    /\ view.kind # Nobody /\ view.phase = "more" /\ actor # Nobody
    /\ \E p \in _read(actor, view.room, view.kind,
                      IF view.kind = "members" THEN 0 ELSE view.cursor, PageLen) :
          view' = tokened(view, actor, p,
                      \/ actor # view.actor \/ view.kind = "members"
                      \/ /\ actor = "whatsapp_cloud" /\ view.kind \notin Lists
                         /\ view.cursor \notin Sent(view.room))
    /\ Len(view.got) <= FirstRows + MaxStirs
    /\ Quiet /\ UNCHANGED <<hunt, look>>

-----------------------------------------------------------------------------
\* ContextEngine.search: the account only, group after group, page after page.

search_for ==
    /\ task = "search" /\ hunt.phase = "idle"
    /\ \A r \in Room : "search" \in UNION {Serves[a] : a \in {reader(goals[r], FALSE)} \ {Nobody}}
    /\ hunt' = [phase |-> "open", at |-> 1, cursor |-> 0, requests |-> 0, examined |-> 0,
                items |-> <<>>, stopped |-> "none",
                base |-> [r \in Room |-> Wanted("telegram_user", r, "search")]]
    /\ Quiet /\ UNCHANGED <<view, look>>

\* The bounds, in the order they are tried; late, when the clock ran out.
stopped_by(h, late) ==
    IF h.requests >= Bounds.requests THEN "requests"
    ELSE IF late THEN "seconds"
    ELSE IF h.examined >= Bounds.messages THEN "messages" ELSE "none"

\* A page added: done at the results asked for, or with the last group's last page.
searched(h, p) ==
    LET all == h.items \o [n \in DOMAIN p.rows |-> <<Rooms[h.at], p.rows[n]>>]
        full == Len(all) >= ResultMax
        done == full \/ (p.next = 0 /\ h.at = Len(Rooms))
    IN [h EXCEPT !.items = Prefix(all, ResultMax), !.requests = @ + 1,
                 !.examined = @ + Len(p.rows), !.cursor = p.next,
                 !.at = IF p.next = 0 /\ ~done THEN @ + 1 ELSE @,
                 !.stopped = IF full THEN "results" ELSE @,
                 !.phase = IF done THEN "done" ELSE "open"]

search(late) ==
    LET stop == stopped_by(hunt, late) IN
    /\ hunt.phase = "open"
    /\ \/ stop # "none" /\ hunt' = [hunt EXCEPT !.stopped = stop, !.phase = "done"]
       \/ /\ stop = "none"
          /\ \E p \in _read("telegram_user", Rooms[hunt.at], "search", hunt.cursor,
                            ResultMax - Len(hunt.items)) : hunt' = searched(hunt, p)
    /\ Quiet /\ UNCHANGED <<view, look>>

-----------------------------------------------------------------------------
\* One-shot answers: around a message, and the parts of context_get.

\* messages.getHistory from offset_id, shifted by add_offset towards the newer rows.
shifted(S, offset, add, limit) ==
    LET place(i) == Cardinality({j \in S : j > i})
        start == Cardinality({j \in S : j >= offset}) + add
    IN {i \in S : place(i) \in start..(start + limit - 1)}

\* UserContext._read, around: the page is cut too, at the older end, and has no cursor.
user_around(r, m, before, after) ==
    LET rows == Descending(shifted(talk[r], m, -(after + 1), before + after + 1))
    IN {_page(rows, fits, 0, FALSE) : fits \in Fitting(rows)}

\* bot/context.py and archive.py _around: the anchor's row, or TARGET_NOT_FOUND.
local_around(S, key, before, after) ==
    {k \in S : k > key /\ Cardinality({j \in S : j > key /\ j < k}) < after}
    \cup Newest({k \in S : k <= key}, before + 1)

Anchors(actor, r, m) == {k \in Keeps(actor, r) : RowOf(actor, r, k) = m}

around_message(r, m, before, after) ==
    LET actor == reader(goals[r], TRUE) IN
    /\ look.kind = Nobody /\ actor # Nobody
    /\ \E key \in IF actor = "telegram_user" THEN {m} ELSE Anchors(actor, r, m) :
       \E p \in IF actor = "telegram_user" THEN user_around(r, m, before, after)
                ELSE {Page(Descending(local_around(Keeps(actor, r), key, before, after)), 0)} :
          look' = [kind |-> "around", key |-> key, before |-> before, after |-> after,
                   base |-> Keeps(actor, r), rows |-> Range(p.rows), lost |-> p.lost]
    /\ Quiet /\ UNCHANGED <<view, hunt>>

\* ContextEngine.get: a part the source has no read for is left out, when another is served.
get(r, include) ==
    LET actor == reader(goals[r], TRUE)
        served == {k \in include : k \in Serves[actor]}
    IN /\ look.kind = Nobody /\ actor # Nobody /\ served # {}
       /\ \E p \in _read(actor, r, "recent", 0, PageLen) :
             look' = [kind |-> "get", parts |-> served, asked |-> include, actor |-> actor,
                      base |-> Keeps(actor, r),
                      rows |-> IF "recent" \in served THEN Range(p.rows) ELSE {}]
       /\ Quiet /\ UNCHANGED <<view, hunt>>

-----------------------------------------------------------------------------
\* BotPoller (transports/telegram/bot/updates.py): how the retained updates come to be kept.

Rest == UNCHANGED <<talk, store, swept, goals, wired, able, task, view, hunt, look>>

update_made ==
    /\ task = "poll" /\ poller.made < FirstRows
    /\ poller' = [poller EXCEPT !.made = @ + 1] /\ Rest /\ UNCHANGED stirs

\* _begin and _fetch: asking from an offset confirms all below it; some of the rest comes.
poll_once ==
    /\ task = "poll" /\ poller.mode = "polling" /\ poller.batch = <<>>
    /\ LET confirmed == Max({poller.confirmed, poller.offset - 1}) IN
       \E last \in confirmed..poller.made :
          poller' = [poller EXCEPT !.confirmed = confirmed,
                         !.batch = [n \in 1..(last - confirmed) |-> confirmed + n]]
    /\ Rest /\ UNCHANGED stirs

\* _ingest: the update, unless it is kept, and the offset past it, in one transaction.
_ingest ==
    /\ poller.batch # <<>>
    /\ LET u == Head(poller.batch) IN
       poller' = [poller EXCEPT !.batch = Tail(@), !.offset = Max({@, u + 1}),
                      !.kept = IF u \in Range(@) THEN @ ELSE Append(@, u)]
    /\ Rest /\ UNCHANGED stirs

\* A crash loses the batch; the operator changes the mode, whatever is in hand.
poll_crash ==
    /\ poller.batch # <<>> /\ stirs < MaxStirs /\ stirs' = stirs + 1
    /\ poller' = [poller EXCEPT !.batch = <<>>] /\ Rest

set_update_mode(mode) ==
    /\ task = "poll" /\ stirs < MaxStirs /\ stirs' = stirs + 1
    /\ poller' = [poller EXCEPT !.mode = mode] /\ Rest

Next ==
    \/ \E r \in Read :
          \/ arrive(r) \/ sweep(r) \/ disable(r)
          \/ \E i \in talk[r] : delete(r, i) \/ receive(r, i)
    \/ set_able
    \/ task \notin {"search", "around", "get", "poll"} /\ first_page(Rooms[1], task)
    \/ run_page
    \/ search_for
    \/ \E late \in BOOLEAN : search(late)
    \/ /\ task = "around"
       /\ \E m \in 1..FirstRows, before, after \in 0..2 : around_message(Rooms[1], m, before, after)
    \/ /\ task = "get"
       /\ \E include \in SUBSET {"recent", "members", "admins"} : get(Rooms[1], include)
    \/ update_made \/ poll_once \/ _ingest \/ poll_crash
    \/ \E mode \in {"polling", "webhook"} : set_update_mode(mode)

Spec == Init /\ [][Next]_vars

-----------------------------------------------------------------------------
TypeOK ==
    /\ \A r \in Room : goals[r] \subseteq Actors /\ swept[r] <= Len(store[r])
    /\ wired \subseteq Actors /\ able \in BOOLEAN /\ task \in Views /\ stirs \in 0..MaxStirs

Once(s) == \A i, j \in DOMAIN s : s[i] = s[j] => i = j

\* Every page of a group's reading comes from the source that served its first page, whatever
\* the account may read meanwhile (run_page, listed).
OneSource ==
    view.kind \notin {Nobody, "from"} => \A n \in DOMAIN view.got : view.got[n][1] = view.first

\* The rows that were there from the first page of the walk on.
Owed == view.base \cap Basis(view.first, view.room, view.kind)

\* A walk hands out no row twice, and once it says there is no more it has handed out every
\* row that its source held from its first page on: wherever pages were cut, rows deleted, and
\* others received out of order.  Only members may have been cut off (_page without cursor_of).
PagesAddUp ==
    view.kind # Nobody /\ ~view.broke =>
        /\ Once(view.got)
        /\ view.kind # "members" => view.lost = {}
        /\ view.phase = "end" => Owed \subseteq {view.got[n][2] : n \in DOMAIN view.got} \cup view.lost

\* A search that names no bound that stopped it found every match that was there throughout;
\* one that names its results gives as many as were asked for.
SearchOwnsUp ==
    hunt.phase = "done" =>
        /\ Once(hunt.items)
        /\ hunt.stopped = "results" => Len(hunt.items) = ResultMax
        /\ hunt.stopped = "none" =>
              \A r \in Room : \A i \in hunt.base[r] \cap talk[r] : <<r, i>> \in Range(hunt.items)

\* What surrounds a message surrounds it: the message, and on either side as many of its
\* neighbours as were asked for and exist, none left out between.  An answer the account's
\* page budget cut is the newer end of that, which may stop short of the message itself.
NeighboursAreTrue ==
    look.kind = "around" /\ look.key \in look.base =>
        LET newer == {k \in look.base : k > look.key}  older == {k \in look.base : k < look.key}
        IN /\ look.rows \cup look.lost =
                 {look.key} \cup Newest(older, look.before)
                 \cup {k \in newer : Cardinality({j \in newer : j < k}) < look.after}
           /\ look.rows # {} /\ \A k \in look.rows, j \in look.lost : k > j

\* summarize_source tells what the one rule does: with a source called available there is a
\* reader, it is one of them, and the live history is used exactly when it is called available.
SummaryIsTheRule ==
    \A r \in Room :
        LET said == available(goals[r])  used == reader(goals[r], TRUE) IN
        /\ (used = Nobody) = (said = {})
        /\ used # Nobody => used \in said
        /\ "whatsapp_cloud" \notin goals[r] =>
              ((used = "telegram_user") = ("telegram_user" \in said))

\* Whoever reads it, a person's standing is the same, and so are the administrators.
SourcesAgree ==
    \A s \in Standings : user_standing(s) = bot_standing(s) /\ fetch_admins(s) = bot_admins(s)

\* Every update is kept, once and in order, before Telegram is told that it may forget it:
\* a crash in the middle of a batch, or a batch fetched again, loses and repeats none.
UpdatesKeptOnce ==
    LET kept == poller.kept IN
    /\ \A i, j \in DOMAIN kept : i < j => kept[i] < kept[j]
    /\ 1..Max({poller.confirmed, poller.offset - 1}) \subseteq Range(kept)

\* A reading of a conversation is one source's, without repetition, and whole but for what a
\* page budget cut from its members or its older neighbours; a search says what stopped it;
\* summaries are true (services/context.py).
ContextIsFaithful ==
    /\ OneSource /\ PagesAddUp /\ SearchOwnsUp /\ NeighboursAreTrue /\ SummaryIsTheRule
    /\ SourcesAgree /\ UpdatesKeptOnce
=============================================================================
