-------------------------------- MODULE Reads --------------------------------
(***************************************************************************)
(* Reading on through pages (transports/telegram/telegram/search.py and    *)
(* reads.py): a search walks a frozen universe of chats through a window,  *)
(* round robin, one bounded page per call, and hands the client a cursor;  *)
(* get_messages walks one chat downwards from an anchor, list_chats walks  *)
(* the chats by their last message, get_context collects the neighbours of *)
(* a message on both sides.  Between two requests to Telegram messages     *)
(* arrive and go and chats leave and enter what may be read; a request     *)
(* meets a deadline or a budget, a page is too large, an answer is lost    *)
(* and its cursor presented again.                                         *)
(*                                                                         *)
(* A message is its place in its chat.  For a search it matches and is     *)
(* within the dates asked for (in), or was fetched beside them; for a      *)
(* context it is of the General topic (in) or of a named one.              *)
(***************************************************************************)
EXTENDS Integers, Sequences, SequencesExt, FiniteSets, FiniteSetsExt

CONSTANTS
    Chats,      \* the universe, in canonical order
    Logs,       \* the messages of each chat at the start
    WINDOW,     \* chats a search holds open at a time
    Limit,      \* the page a client asks for
    MaxHits,    \* entries examined per call
    MaxSearches,\* search requests per call
    Caps,       \* how many chats a search may cover (all, or CROSS_PEER_CAP)
    Jobs,       \* bound: the reads of this instance
    MaxMoves,   \* bound: arrivals, deletions and changes of what may be read
    MaxFaults   \* bound: deadlines, spent budgets, inexact and lost answers

VARIABLES
    log,        \* Telegram: the messages of each chat, oldest first
    live,       \* Telegram: how each chat's dialog answers the owner's switches
    walk,       \* the client's walk: cursor, what it was handed, what the last page said
    page,       \* the call in progress
    moves, misses

vars == <<log, live, walk, page, moves, misses>>

-----------------------------------------------------------------------------
Universe == Range(Chats)
Gone == [at |-> 0]
NoPage == [job |-> "none"]
Done == [job |-> "done"]
Verdicts == {"admitted", "excluded", "unreachable"}

Present(x) == {i \in DOMAIN log[x] : log[x][i] # Gone}
Newest(S, n) == {i \in S : Cardinality({j \in S : j > i}) < n}
Oldest(S, n) == {i \in S : Cardinality({j \in S : j < i}) < n}

\* _page_end: an empty page, everything at once, or ids that all fit the page.
page_end(raw, limit, whole) ==
    IF raw = {} \/ whole \/ Max(raw) <= limit THEN 0 ELSE Min(raw)

\* EngineState before its first page.
FirstState ==
    [job |-> "search", window_start |-> 1, next |-> 1, per_peer |-> <<>>,
     uncertain |-> FALSE, scanned |-> 0, excluded |-> 0]

First(job) ==
    CASE job = "search" -> FirstState
      [] job = "list" -> [job |-> "list", after |-> <<>>, anchor |-> 0]
      [] job = "history" -> [job |-> "history", anchor |-> 0, offset |-> 0]
      [] OTHER -> Done

Init ==
    /\ log = [x \in Universe |-> Logs[x]] /\ live = [x \in Universe |-> "admitted"]
    /\ \E job \in Jobs, cap \in Caps, x \in Universe :
          /\ job = "search" \/ cap = Max(Caps)
          /\ job \in {"search", "list"} => x = Chats[1]
          /\ walk = [job |-> job, cap |-> cap, chat |-> x, cursor |-> First(job), base |-> log,
                     blocked |-> {}, excluded |-> {}, got |-> <<>>, said |-> {}]
    /\ page = NoPage /\ moves = 0 /\ misses = 0

Fault == misses < MaxFaults /\ misses' = misses + 1

-----------------------------------------------------------------------------
\* Telegram and the account's other devices.

Now == 1 + Max({0} \cup UNION {{log[x][i].at : i \in DOMAIN log[x]} : x \in Universe})

Move == moves < MaxMoves /\ moves' = moves + 1 /\ UNCHANGED <<page, misses>>

arrive(x) ==
    /\ Move /\ log' = [log EXCEPT ![x] = Append(@, [at |-> Now, in |-> FALSE])]
    /\ UNCHANGED <<live, walk>>

delete(x, i) ==
    /\ Move /\ i \in Present(x) /\ log' = [log EXCEPT ![x][i] = Gone]
    /\ UNCHANGED <<live, walk>>

set_live(x, v) ==
    /\ Move /\ v # live[x] /\ live' = [live EXCEPT ![x] = v]
    /\ walk' = [walk EXCEPT !.blocked = @ \cup {x}]
    /\ UNCHANGED log

-----------------------------------------------------------------------------
\* The search engine (search.py, run_page).

searchable == SubSeq(Chats, 1, walk.cap)

active(st) ==
    SelectSeq(SubSeq(searchable, st.window_start, st.next - 1),
              LAMBDA x : x \in DOMAIN st.per_peer)

\* Chats are opened in order until WINDOW are active.
refill(st) ==
    LET n == Min({WINDOW - Len(active(st)), Len(searchable) - st.next + 1})
        new == Range(SubSeq(searchable, st.next, st.next + n - 1))
    IN [st EXCEPT !.next = @ + n,
                  !.per_peer = [x \in DOMAIN @ \cup new |-> IF x \in new THEN 0 ELSE @[x]]]

\* The window moves only past chats that are through.
advance(st) ==
    [st EXCEPT !.window_start =
        Min({i \in st.window_start..st.next :
                i = st.next \/ searchable[i] \in DOMAIN st.per_peer})]

\* The end of a round: the next one goes over the chats active then.
next_round(p) ==
    LET st == refill(advance(p.st)) IN
    [p EXCEPT !.st = st, !.queue = IF Len(p.hits) < Limit /\ ~p.stopped THEN active(st) ELSE <<>>]

step_on(p) == IF Len(p.queue) = 0 \/ Len(p.hits) >= Limit \/ p.stopped THEN next_round(p) ELSE p

stop(p, reasons) ==
    step_on([p EXCEPT !.stopped = TRUE, !.queue = <<>>, !.reasons = @ \cup reasons])

\* A chat is through: searched to Telegram's end, or decided without a search.
drop(st, x) ==
    [st EXCEPT !.per_peer = [y \in DOMAIN @ \ {x} |-> @[y]]]

search_begin ==
    LET st == refill(walk.cursor) IN
    /\ walk.cursor.job = "search" /\ page = NoPage
    /\ page' = [job |-> "search", st |-> st, queue |-> active(st), hits |-> <<>>, examined |-> 0,
                searches |-> 0, stopped |-> FALSE, reasons |-> {}, admitted |-> <<>>, out |-> {}]
    /\ UNCHANGED <<log, live, walk, moves, misses>>

\* The call has made its searches.
search_over_budget ==
    /\ page.job = "search" /\ page.queue # <<>> /\ page.searches >= MaxSearches
    /\ page' = stop(page, {"rpc_budget"})
    /\ UNCHANGED <<log, live, walk, moves, misses>>

\* The deadline, or the budget of the session, meets this request.
search_stopped ==
    /\ page.job = "search" /\ page.queue # <<>> /\ page.searches < MaxSearches
    /\ \E reason \in {"deadline", "rpc_budget"} : page' = stop(page, {reason})
    /\ Fault /\ UNCHANGED <<log, live, walk, moves>>

\* check_new_peers: one look at the dialogs of every open chat not yet looked at.
checked ==
    IF Head(page.queue) \in DOMAIN page.admitted THEN page.admitted
    ELSE [x \in DOMAIN page.admitted \cup DOMAIN page.st.per_peer |->
             IF x \in DOMAIN page.admitted THEN page.admitted[x] ELSE live[x]]

Open == page.job = "search" /\ page.queue # <<>> /\ page.searches < MaxSearches

search_decided ==
    LET x == Head(page.queue) IN
    /\ Open /\ checked[x] # "admitted"
    /\ page' = step_on([page EXCEPT
           !.queue = Tail(@), !.admitted = checked,
           !.out = IF checked[x] = "excluded" THEN @ \cup {x} ELSE @,
           !.st = [drop(@, x) EXCEPT
                      !.uncertain = @ \/ checked[x] = "unreachable",
                      !.excluded = IF checked[x] = "excluded" THEN @ + 1 ELSE @]])
    /\ UNCHANGED <<log, live, walk, moves, misses>>

\* Mutant: a chat whose page was cut before a message goes on below that message.
resume_below(i) == i

\* Where a chat goes on whose page was cut before a message: an offset is exclusive.
resume_at(i) == i + 1

\* One page of one chat: raw is what Telegram returns, kept of its hits fit the
\* response; the first refused one is where the chat goes on.
search_page(raw, whole, inexact, kept) ==
    LET x == Head(page.queue)
        want == Min({Limit - Len(page.hits), MaxHits - page.examined})
        hits == Reverse(SetToSortSeq({i \in raw : log[x][i].in}, <))
        below == page_end(raw, want, whole)
        taken == [i \in 1..kept |-> <<x, hits[i]>>]
        st == [page.st EXCEPT !.uncertain = @ \/ inexact]
        p == [page EXCEPT !.queue = Tail(@), !.admitted = checked, !.searches = @ + 1,
                          !.examined = @ + Cardinality(raw), !.hits = @ \o taken]
        over == p.examined >= MaxHits
    IN
    /\ kept \in 0..Len(hits)
    /\ kept < Len(hits) => Len(p.hits) > 0
    /\ IF kept < Len(hits)
       THEN page' = stop([p EXCEPT !.st = [st EXCEPT !.per_peer[x] = resume_at(hits[kept + 1])]],
                         {})
       ELSE LET q == [p EXCEPT !.st = IF below = 0 THEN [drop(st, x) EXCEPT !.scanned = @ + 1]
                                      ELSE [st EXCEPT !.per_peer[x] = below]]
            IN page' = IF over THEN stop(q, {"hit_budget"}) ELSE step_on(q)

\* messages.Search of Telegram: the newest entries below the offset, perhaps
\* leaving some out, which it says (inexact).
search_peer ==
    LET x == Head(page.queue)
        want == Min({Limit - Len(page.hits), MaxHits - page.examined})
        off == page.st.per_peer[x]
        all == {i \in Present(x) : off = 0 \/ i < off}
        exact == Newest(all, want)
    IN
    /\ Open /\ checked[x] = "admitted"
    /\ \E whole \in {FALSE, exact = all}, kept \in 0..Limit :
          \/ search_page(exact, whole, FALSE, kept) /\ UNCHANGED misses
          \/ Fault /\ \E raw \in SUBSET exact : search_page(raw, FALSE, TRUE, kept)
    /\ UNCHANGED <<log, live, walk, moves>>

Remaining(st) == active(st) # <<>> \/ st.next <= Len(searchable)

\* The page is full, or every chat is through.
search_end(lost) ==
    LET st == advance(page.st)
        reasons == page.reasons
                   \cup {r \in {"telegram_partial"} : st.uncertain}
                   \cup {r \in {"peer_budget"} : walk.cap < Len(Chats)}
                   \cup {r \in {"response_limit"} : Remaining(st)}
    IN
    /\ page.job = "search" /\ page.queue = <<>>
    /\ page' = NoPage
    /\ IF lost THEN Fault /\ UNCHANGED walk
       ELSE /\ walk' = [walk EXCEPT !.cursor = IF Remaining(st) THEN st ELSE Done,
                                    !.got = @ \o page.hits, !.said = reasons,
                                    !.excluded = @ \cup page.out]
            /\ UNCHANGED misses
    /\ UNCHANGED <<log, live, moves>>

-----------------------------------------------------------------------------
\* get_messages: one page of a chat, below the offset and never above the anchor.
get_messages(kept) ==
    LET x == walk.chat
        c == walk.cursor
        raw == Newest({i \in Present(x) : (c.offset = 0 \/ i < c.offset)
                                          /\ (c.anchor = 0 \/ i < c.anchor + 1)}, Limit)
        views == Reverse(SetToSortSeq(raw, <))
        anchor == IF c.anchor # 0 \/ raw = {} THEN c.anchor ELSE Max(raw)
        below == IF kept < Len(views) THEN views[kept] ELSE page_end(raw, Limit, FALSE)
    IN
    /\ c.job = "history" /\ live[x] = "admitted"
    /\ kept \in 0..Len(views) /\ (views # <<>> => kept > 0)
    /\ walk' = [walk EXCEPT
          !.cursor = IF below = 0 THEN Done
                     ELSE [job |-> "history", anchor |-> anchor, offset |-> below],
          !.got = @ \o [i \in 1..kept |-> <<x, views[i]>>]]
    /\ UNCHANGED <<log, live, page, moves, misses>>

-----------------------------------------------------------------------------
\* list_chats: newest first, undated last, then by reference (_key).
last_message_at(x) == IF Present(x) = {} THEN 0 ELSE log[x][Max(Present(x))].at
order(x) == <<last_message_at(x), CHOOSE n \in DOMAIN Chats : Chats[n] = x>>
Before(k, l) == k[1] > l[1] \/ (k[1] = l[1] /\ k[2] < l[2])

list_chats(kept) ==
    LET c == walk.cursor
        pairs == {x \in Universe : live[x] = "admitted"}
        rest == {x \in pairs : /\ c.anchor # 0 => last_message_at(x) <= c.anchor
                               /\ c.after # <<>> => Before(c.after, order(x))}
        remaining == SetToSortSeq(rest, LAMBDA x, y : Before(order(x), order(y)))
        emitted == SubSeq(remaining, 1, kept)
    IN
    /\ c.job = "list"
    /\ kept \in 0..Min({Limit, Len(remaining)}) /\ (remaining # <<>> => kept > 0)
    /\ walk' = [walk EXCEPT
          !.cursor = IF kept = Len(remaining) THEN Done
                     ELSE [job |-> "list", after |-> order(emitted[kept]),
                           anchor |-> IF c.anchor # 0 THEN c.anchor
                                      ELSE last_message_at(remaining[1])],
          !.got = @ \o [i \in 1..kept |-> <<emitted[i], 0>>],
          !.said = IF \E x \in Universe : live[x] = "unreachable" THEN {"partial"} ELSE {}]
    /\ UNCHANGED <<log, live, page, moves, misses>>

-----------------------------------------------------------------------------
\* get_context: the anchor, then the older side, then the newer one.
get_context(i, general) ==
    /\ walk.job = "context" /\ page = NoPage
    /\ live[walk.chat] = "admitted" /\ i \in Present(walk.chat)
    /\ page' = [job |-> "older", base |-> log[walk.chat], anchor |-> i, edge |-> i,
                general |-> general, found |-> {}, before |-> {}, partial |-> FALSE]
    /\ UNCHANGED <<log, live, walk, moves, misses>>

Side(x, side, edge) == {i \in Present(x) : IF side = "older" THEN i < edge ELSE i > edge}
Nearest(S, side, n) == IF side = "older" THEN Newest(S, n) ELSE Oldest(S, n)

\* One side is collected: on to the other, or the result is ready.
side_done(found, partial) ==
    IF page.job = "older"
    THEN [page EXCEPT !.job = "newer", !.before = Nearest(found, "older", Limit), !.found = {},
                      !.edge = page.anchor, !.partial = @ \/ partial]
    ELSE [page EXCEPT !.job = "ready", !.found = Nearest(found, "newer", Limit),
                      !.partial = @ \/ partial]

\* _walk: the nearest entries beyond the edge, named topics dropped in General;
\* upwards Telegram may return one more than is needed.
context_walk ==
    LET x == walk.chat
        side == page.job
        need == Limit - Cardinality(page.found)
    IN
    /\ side \in {"older", "newer"}
    /\ \E n \in IF side = "older" THEN {need} ELSE {need, need + 1} :
          LET views == Nearest(Side(x, side, page.edge), side, n)
              found == page.found \cup {i \in views : page.general => log[x][i].in}
              edge == IF side = "older" THEN Min(views) ELSE Max(views)
          IN page' = IF views = {} \/ ~page.general \/ Cardinality(found) >= Limit
                     THEN side_done(found, FALSE)
                     ELSE [page EXCEPT !.found = found, !.edge = edge]
    /\ UNCHANGED <<log, live, walk, moves, misses>>

\* A budget ends a walk in General with what it has; otherwise the call fails.
context_stopped ==
    /\ page.job \in {"older", "newer"} /\ Fault
    /\ page' = IF page.general THEN side_done(page.found, TRUE) ELSE NoPage
    /\ UNCHANGED <<log, live, walk, moves>>

context_end == page.job = "ready" /\ page' = NoPage /\ UNCHANGED <<log, live, walk, moves, misses>>

-----------------------------------------------------------------------------
World ==
    \E x \in Universe :
       \/ arrive(x)
       \/ \E i \in DOMAIN log[x] : delete(x, i)
       \/ \E v \in Verdicts : set_live(x, v)

Search ==
    \/ search_begin \/ search_over_budget \/ search_stopped \/ search_decided \/ search_peer
    \/ \E lost \in BOOLEAN : search_end(lost)

Read ==
    \/ \E kept \in 0..Limit : get_messages(kept) \/ list_chats(kept)
    \/ \E i \in DOMAIN log[walk.chat], general \in BOOLEAN : get_context(i, general)
    \/ context_walk \/ context_stopped \/ context_end

Next == World \/ Search \/ Read
Spec == Init /\ [][Next]_vars

TypeOK ==
    /\ live \in [Universe -> Verdicts]
    /\ \A x \in Universe : \A i \in DOMAIN log[x] :
          log[x][i] = Gone \/ log[x][i] \in [at : Nat, in : BOOLEAN]
    /\ walk.job \in Jobs /\ walk.cursor.job \in {"search", "list", "history", "done"}
    /\ walk.blocked \subseteq Universe /\ walk.excluded \subseteq Universe
    /\ page.job \in {"none", "search", "older", "newer", "ready"}
    /\ page.job = "search" =>
          /\ DOMAIN page.st.per_peer \subseteq Universe /\ page.searches \in 0..MaxSearches
          /\ Len(page.hits) <= Limit
    /\ moves \in 0..MaxMoves /\ misses \in 0..MaxFaults

-----------------------------------------------------------------------------
Steady(x) == log[x] = walk.base[x] /\ x \notin walk.blocked

\* What a walk owes its client.  Search: every match that was there all along, of
\* a chat the owner's switches did not exclude.  History: every message of the
\* chat still there.  List: every chat that did not move.
Owed ==
    CASE walk.job = "search" ->
            UNION {{<<x, i>> : i \in {j \in Present(x) \cap DOMAIN walk.base[x] : log[x][j].in}}
                      : x \in Universe \ walk.excluded}
      [] walk.job = "history" ->
            {<<walk.chat, i>> : i \in Present(walk.chat) \cap DOMAIN walk.base[walk.chat]}
      [] walk.job = "list" -> {<<x, 0>> : x \in {y \in Universe : Steady(y)}}
      [] OTHER -> {}

\* Paging to the end hands over each thing owed exactly once, whatever arrives,
\* goes, is cut, stopped or lost on the way, unless the last page says that it is
\* incomplete; a search that says it is complete has counted every chat; and the
\* neighbours of a message leave none out that is nearer than one they hold.
ReadsMissNothing ==
    /\ \A j, k \in DOMAIN walk.got :
          j # k /\ walk.got[j] = walk.got[k] => walk.job = "list" /\ ~Steady(walk.got[j][1])
    /\ walk.cursor = Done /\ walk.said = {} => Owed \subseteq Range(walk.got)
    /\ page.job = "search" /\ page.queue = <<>> =>
          LET st == page.st
              through == st.next - 1 - Cardinality(DOMAIN st.per_peer)
          IN st.scanned + st.excluded <= through
             /\ (~st.uncertain => st.scanned + st.excluded = through)
    /\ page.job = "ready" =>
          \A i \in {j \in Present(walk.chat) \cap DOMAIN page.base :
                       page.general => log[walk.chat][j].in} :
                /\ (\E j \in page.before : j < i) /\ i < page.anchor => i \in page.before
                /\ (\E j \in page.found : i < j) /\ i > page.anchor => i \in page.found
=============================================================================
