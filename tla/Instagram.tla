----------------------------- MODULE Instagram ------------------------------
(***************************************************************************)
(* The Instagram transport: what it publishes, whose token it uses, and    *)
(* the pages it reads.                                                     *)
(*                                                                         *)
(* Tool calls and operator commands are handled one at a time on the event *)
(* loop, so what cuts a call short is a crash, and what moves while it     *)
(* runs is Meta.  The executor's own steps are Mutations; here a call      *)
(* keeps the marks a crash may fall between.                               *)
(*                                                                         *)
(* The three desks share no table: one of them moves in a behaviour.       *)
(***************************************************************************)
EXTENDS Integers, Sequences, FiniteSets, SequencesExt

CONSTANTS
    Stages,         \* the desks that move: "publish", "accounts", "pages"
    Owners,         \* the registered accounts of the publishing desk
    Writable,       \* the accounts whose policy allows writes
    MaxAsks,        \* request ids, used in order
    Trades,         \* sets of tools; the requests of a behaviour keep to one
    CONTAINER_BUDGET,
    Aliases, Users, \* aliases of comms.json and Instagram user ids
    Feeds,          \* the listings that page
    PageSize, MaxFeed,
    LOOKBACK,       \* messages of a conversation that are read, newest first
    MaxThread, MaxStops, MaxDays

VARIABLES
    stage, trade, stops, serving,
    boxes, book, asks, post, days, thread,
    accountOf, tokenOf, linked, clerk, checked,
    feed, reading

publishVars == <<boxes, book, asks, post, days, thread>>
accountVars == <<accountOf, tokenOf, linked, clerk, checked>>
pageVars == <<feed, reading>>
instagramVars == <<stage, trade, stops, serving, publishVars, accountVars, pageVars>>

Kinds == {"image", "child", "carousel"}
Statuses == {"IN_PROGRESS", "FINISHED", "ERROR", "EXPIRED", "PUBLISHED"}
Outcomes == {"IN_FLIGHT", "SUCCEEDED", "FAILED", "OUTCOME_UNKNOWN"}

NoPost == [at |-> "idle"]
NoClerk == [at |-> "idle"]
NoReading == [got |-> <<>>]
Nobody == "nobody"

InstagramInit ==
    /\ stage \in Stages /\ trade \in (IF stage = "publish" THEN Trades ELSE {{}}) /\ stops = 0 /\ serving = TRUE
    /\ boxes = <<>> /\ book = {} /\ asks = <<>> /\ post = NoPost /\ days = 0 /\ thread = <<>>
    /\ accountOf = [al \in Aliases |-> Nobody] /\ tokenOf = [al \in Aliases |-> Nobody]
    /\ linked = [al \in Aliases |-> Nobody] /\ clerk = NoClerk /\ checked = {}
    /\ feed = [f \in Feeds |-> 2 * PageSize] /\ reading = NoReading

Desk(s) == stage = s /\ UNCHANGED <<stage, trade>>
Publishing == Desk("publish") /\ UNCHANGED <<accountVars, pageVars>>
Managing == Desk("accounts") /\ UNCHANGED <<publishVars, pageVars>>
Listing == Desk("pages") /\ UNCHANGED <<stops, serving, publishVars, accountVars>>

-----------------------------------------------------------------------------
(* What a request asks for.                                                *)

\* SEMANTICS: what may be called again, once, after an unknown outcome.
Repeatable(op) == op.tool = "hide"

Kind(op) == IF op.tool = "carousel" THEN "carousel" ELSE op.kind

Mine(acc) == {r \in book : r.owner = acc}

budget_used(acc) == Cardinality({r \in Mine(acc) : r.day = days})

\* children: every child is this account's carousel item.
children(op) == op.children \subseteq {r.box : r \in {x \in Mine(op.owner) : x.kind = "child"}}

\* _blocked: the ledger's budget; the live quota is advisory (external).
blocked(acc) == budget_used(acc) >= CONTAINER_BUDGET

\* message_items, window_open: the newest inbound message of those read is from today.
window_open ==
    LET recent == SubSeq(thread, (IF Len(thread) < LOOKBACK THEN 0 ELSE Len(thread) - LOOKBACK) + 1,
                         Len(thread))
        inbound == {i \in 1 .. Len(recent) : recent[i].dir = "in"}
    IN inbound # {} /\ recent[CHOOSE i \in inbound : \A j \in inbound : j <= i].day = days

\* What each tool checks before anything is recorded.
prepare(op) ==
    CASE op.tool = "create" -> ~blocked(op.owner)
      [] op.tool = "carousel" -> children(op) /\ ~blocked(op.owner)
      [] op.tool = "publish" -> \E r \in Mine(op.owner) : r.box = op.box
      [] op.tool = "message" -> window_open /\ op.day = days
      [] OTHER -> TRUE

\* The write tools of the catalog, as the executor sees them.
WriteTools == {"create", "carousel", "publish", "reply", "hide", "delete", "message"}

Ops ==
    [tool : {"create"}, owner : Owners, kind : {"image", "child"} \cap trade]
    \cup [tool : {"carousel"} \cap trade, owner : Owners, children : {c \in SUBSET (1 .. Len(boxes)) : Cardinality(c) >= 2}]
    \cup [tool : {"publish"} \cap trade, owner : Owners, box : 1 .. Len(boxes)]
    \cup [tool : {"message"} \cap trade, owner : Owners, day : 0 .. MaxDays]
    \cup [tool : {"reply", "hide", "delete"} \cap trade, owner : Owners]

\* _write: the named account, its ceiling, the tool's checks, then the record of the executor.
write(op) ==
    /\ Publishing /\ serving /\ post = NoPost
    /\ Len(asks) < MaxAsks /\ op.tool \in WriteTools /\ op.owner \in Writable /\ prepare(op)
    /\ asks' = Append(asks, [op |-> op, state |-> "IN_FLIGHT", called |-> FALSE, retried |-> FALSE,
                             made |-> 0, effects |-> 0])
    /\ post' = [at |-> "start", ask |-> Len(asks) + 1]
    /\ UNCHANGED <<boxes, book, days, thread, stops, serving>>

\* A replay answers its record; a natural write of unknown outcome is called once more.
replay(i) ==
    /\ Publishing /\ serving /\ post = NoPost
    /\ asks[i].state = "OUTCOME_UNKNOWN" /\ Repeatable(asks[i].op) /\ ~asks[i].retried
    /\ asks' = [asks EXCEPT ![i].retried = TRUE]
    /\ post' = [at |-> "start", ask |-> i]
    /\ UNCHANGED <<boxes, book, days, thread, stops, serving>>

start_step ==
    /\ Publishing /\ post.at = "start"
    /\ asks' = [asks EXCEPT ![post.ask].called = TRUE]
    /\ post' = [post EXCEPT !.at = IF asks[post.ask].op.tool = "publish" THEN "check" ELSE "call"]
    /\ UNCHANGED <<boxes, book, days, thread, stops, serving>>

Outcome(o, made) == [at |-> "finish", ask |-> post.ask, outcome |-> o, made |-> made]

mark(box, status) == {IF r.box = box THEN [r EXCEPT !.status = status] ELSE r : r \in book}

-----------------------------------------------------------------------------
(* publish: the ledger, one status read, then media_publish.               *)

\* The ledger alone decides: a child is never published, a known post is answered again.
publish_ledger ==
    /\ Publishing /\ post.at = "check"
    /\ LET op == asks[post.ask].op
           row == CHOOSE r \in Mine(op.owner) : r.box = op.box
       IN \/ /\ row.kind = "child"
             /\ post' = Outcome("FAILED", 0)
          \/ /\ row.kind # "child" /\ row.status = "PUBLISHED" /\ row.media # 0
             /\ post' = Outcome("SUCCEEDED", row.media)
          \/ /\ row.kind # "child" /\ ~(row.status = "PUBLISHED" /\ row.media # 0)
             /\ post' = [post EXCEPT !.at = "status"]
    /\ UNCHANGED <<boxes, book, asks, days, thread, stops, serving>>

\* The live status decides what the post may be; a read that fails made no effect.
publish_status ==
    /\ Publishing /\ post.at = "status"
    /\ LET box == asks[post.ask].op.box
           status == boxes[box].status
       IN \/ /\ post' = Outcome("FAILED", 0)
             /\ UNCHANGED book
          \/ /\ status \in {"IN_PROGRESS", "ERROR", "EXPIRED"}
             /\ book' = mark(box, status) /\ post' = Outcome("FAILED", 0)
          \/ /\ status = "PUBLISHED"
             /\ book' = mark(box, status) /\ post' = Outcome("OUTCOME_UNKNOWN", 0)
          \/ /\ status = "FINISHED"
             /\ book' = mark(box, status) /\ post' = [post EXCEPT !.at = "call"]
    /\ UNCHANGED <<boxes, asks, days, thread, stops, serving>>

-----------------------------------------------------------------------------
(* A write at Meta, and what its answer says.                              *)

\* What comes back: a usable id, an id that names nothing, a code of the table, another
\* code, no connection, a lost answer or a server error.
Answers == {"named", "unnamed", "refused", "odd", "not_sent", "lost", "server"}

MayHaveDone == {"named", "unnamed", "lost", "server"}
MayHaveNot == {"refused", "odd", "not_sent", "lost", "server"}

\* Mutant: a server error is taken for a refusal.
classify_as_refused(answer) ==
    CASE answer = "named" -> "SUCCEEDED"
      [] answer \in {"refused", "not_sent", "server"} -> "FAILED"
      [] OTHER -> "OUTCOME_UNKNOWN"

classify_write(answer) ==
    CASE answer = "named" -> "SUCCEEDED"
      [] answer \in {"refused", "not_sent"} -> "FAILED"
      [] OTHER -> "OUTCOME_UNKNOWN"

\* The effect a write has at Meta; the second post of one container is a second media.
Effect(op) ==
    CASE op.tool \in {"create", "carousel"} ->
           Append(boxes, [owner |-> op.owner, kind |-> Kind(op), status |-> "IN_PROGRESS", media |-> 0])
      [] op.tool = "publish" ->
           [boxes EXCEPT ![op.box] = [@ EXCEPT !.status = "PUBLISHED", !.media = boxes[op.box].media + 1]]
      [] OTHER -> boxes

invoke ==
    /\ Publishing /\ post.at = "call"
    /\ \E answer \in Answers, done \in BOOLEAN :
         LET op == asks[post.ask].op
             verdict == classify_write(answer)
             made == IF op.tool = "publish" THEN op.box ELSE Len(boxes) + 1
         IN /\ done => answer \in MayHaveDone
            /\ ~done => answer \in MayHaveNot
            /\ done /\ op.tool = "publish" => boxes[op.box].status \in {"FINISHED", "PUBLISHED"}
            /\ boxes' = IF done THEN Effect(op) ELSE boxes
            /\ asks' = [asks EXCEPT ![post.ask].effects = IF done THEN @ + 1 ELSE @]
            /\ thread' = IF done /\ op.tool = "message" THEN Append(thread, [dir |-> "out", day |-> days])
                         ELSE thread
            /\ post' = IF verdict = "SUCCEEDED" /\ op.tool \in {"create", "carousel", "publish"}
                       THEN [at |-> "ledger", ask |-> post.ask, made |-> made]
                       ELSE Outcome(verdict, 0)
    /\ UNCHANGED <<book, days, stops, serving>>

\* A created container is a row at once, whatever happens next; one row per container.
record_container(acc, kind, box) ==
    IF \E r \in Mine(acc) : r.box = box THEN book
    ELSE book \cup {[owner |-> acc, kind |-> kind, box |-> box, status |-> "NONE", media |-> 0, day |-> days]}

\* object_ref, then mark_container with the media it names.
mark_published(box) ==
    {IF r.box = box THEN [r EXCEPT !.status = "PUBLISHED", !.media = box] ELSE r : r \in book}

\* The adapter's own ledger write, before the executor records anything.
file_result ==
    /\ Publishing /\ post.at = "ledger"
    /\ LET op == asks[post.ask].op IN
         book' = IF op.tool = "publish" THEN mark_published(op.box)
                 ELSE record_container(op.owner, Kind(op), post.made)
    /\ post' = [post EXCEPT !.at = "hook"]
    /\ UNCHANGED <<boxes, asks, days, thread, stops, serving>>

\* The executor's on_created hook writes the same rows in its own transaction and finds them.
on_created ==
    /\ Publishing /\ post.at = "hook"
    /\ LET op == asks[post.ask].op IN
         book' = IF op.tool = "publish" THEN mark_published(op.box)
                 ELSE record_container(op.owner, Kind(op), post.made)
    /\ post' = Outcome("SUCCEEDED", post.made)
    /\ UNCHANGED <<boxes, asks, days, thread, stops, serving>>

finish ==
    /\ Publishing /\ post.at = "finish"
    /\ asks' = [asks EXCEPT ![post.ask] = [@ EXCEPT !.state = post.outcome, !.made = post.made]]
    /\ post' = NoPost
    /\ UNCHANGED <<boxes, book, days, thread, stops, serving>>

\* Meta fetches and processes a container, and forgets it after a day.  It may do so at any
\* time; only the status read and the post can tell.
process(b) ==
    /\ Publishing /\ post.at \in {"idle", "status", "call"}
    /\ \/ boxes[b].status = "IN_PROGRESS" /\ boxes' = [boxes EXCEPT ![b].status = "FINISHED"]
       \/ boxes[b].status = "IN_PROGRESS" /\ boxes' = [boxes EXCEPT ![b].status = "ERROR"]
       \/ boxes[b].status = "FINISHED" /\ boxes' = [boxes EXCEPT ![b].status = "EXPIRED"]
    /\ UNCHANGED <<book, asks, post, days, thread, stops, serving>>

\* Someone writes to the account.
receive ==
    /\ Publishing /\ "message" \in trade /\ post.at = "idle" /\ Len(thread) < MaxThread
    /\ thread' = Append(thread, [dir |-> "in", day |-> days])
    /\ UNCHANGED <<boxes, book, asks, post, days, stops, serving>>

day ==
    /\ Publishing /\ days < MaxDays /\ post = NoPost
    /\ days' = days + 1
    /\ UNCHANGED <<boxes, book, asks, post, thread, stops, serving>>

-----------------------------------------------------------------------------
(* Accounts and their tokens.                                              *)

Taken(u) == \E al \in Aliases : accountOf[al] = u

\* instagram_adapters: a runtime for every alias with a row and a token.
reload(rows, tokens) ==
    [al \in Aliases |-> IF rows[al] = Nobody \/ tokens[al] = Nobody THEN Nobody ELSE tokens[al]]

\* _add: the candidate proves itself and names an account no alias has; its token is kept first.
add_token(al, u) ==
    /\ Managing /\ serving /\ clerk = NoClerk
    /\ accountOf[al] = Nobody /\ ~Taken(u)
    /\ tokenOf' = [tokenOf EXCEPT ![al] = u]
    /\ clerk' = [at |-> "register", alias |-> al, user |-> u]
    /\ UNCHANGED <<accountOf, linked, checked, stops, serving>>

add_account ==
    /\ Managing /\ clerk.at = "register"
    /\ accountOf' = [accountOf EXCEPT ![clerk.alias] = clerk.user]
    /\ clerk' = [at |-> "reload"]
    /\ UNCHANGED <<tokenOf, linked, checked, stops, serving>>

\* _remove: the token goes first; without one, the row still leaves.
remove_token(al) ==
    /\ Managing /\ serving /\ clerk = NoClerk /\ accountOf[al] # Nobody
    /\ tokenOf' = [tokenOf EXCEPT ![al] = Nobody]
    /\ clerk' = [at |-> "unregister", alias |-> al]
    /\ UNCHANGED <<accountOf, linked, checked, stops, serving>>

remove_account ==
    /\ Managing /\ clerk.at = "unregister"
    /\ accountOf' = [accountOf EXCEPT ![clerk.alias] = Nobody]
    /\ clerk' = [at |-> "reload"]
    /\ UNCHANGED <<tokenOf, linked, checked, stops, serving>>

\* credential set or rotate: the proof wants the account's own token, so an added account.
credential_set(al, u) ==
    /\ Managing /\ serving /\ clerk = NoClerk
    /\ accountOf[al] # Nobody /\ accountOf[al] = u
    /\ tokenOf' = [tokenOf EXCEPT ![al] = u]
    /\ clerk' = [at |-> "reload"]
    /\ UNCHANGED <<accountOf, linked, checked, stops, serving>>

\* token refresh: Meta's new token replaces the active one when it names the same account.
_refresh(al) ==
    /\ Managing /\ serving /\ clerk = NoClerk
    /\ accountOf[al] # Nobody /\ tokenOf[al] # Nobody
    /\ \E u \in Users : u = accountOf[al] /\ tokenOf' = [tokenOf EXCEPT ![al] = u]
    /\ clerk' = [at |-> "reload"]
    /\ UNCHANGED <<accountOf, linked, checked, stops, serving>>

reloaded ==
    /\ Managing /\ clerk.at = "reload"
    /\ linked' = reload(accountOf, tokenOf) /\ checked' = {}
    /\ clerk' = NoClerk
    /\ UNCHANGED <<accountOf, tokenOf, stops, serving>>

\* resolve, username: the first call through an alias asks Meta whose token it holds, once per
\* lifetime of the adapters, and goes no further under another name.
username(al) ==
    /\ Managing /\ serving /\ clerk = NoClerk /\ linked[al] # Nobody /\ al \notin checked
    /\ linked[al] = accountOf[al]
    /\ checked' = checked \cup {al}
    /\ UNCHANGED <<accountOf, tokenOf, linked, clerk, stops, serving>>

\* findings: what the doctor finds wrong with an alias (expiry left out).
findings(al) ==
    (IF accountOf[al] = Nobody THEN {"IG_ACCOUNT_UNREGISTERED"} ELSE {})
    \cup (IF accountOf[al] # Nobody /\ tokenOf[al] = Nobody THEN {"IG_TOKEN_MISSING"} ELSE {})
    \cup (IF accountOf[al] # Nobody /\ tokenOf[al] \notin {Nobody, accountOf[al]}
          THEN {"IG_IDENTITY_MISMATCH"} ELSE {})

-----------------------------------------------------------------------------
(* Crashes: the call and the command in progress are gone.                 *)

crash ==
    /\ serving /\ stops < MaxStops
    /\ stage \in {"publish", "accounts"}
    /\ stops' = stops + 1 /\ serving' = FALSE
    /\ post' = NoPost /\ clerk' = NoClerk
    /\ UNCHANGED <<stage, trade, boxes, book, asks, days, thread, accountOf, tokenOf, linked, checked, pageVars>>

\* recover_mutations: uncalled is failed, called is unknown.
Recovered(a) ==
    IF a.state # "IN_FLIGHT" THEN a
    ELSE [a EXCEPT !.state = IF a.called THEN "OUTCOME_UNKNOWN" ELSE "FAILED"]

startup_recovery ==
    /\ ~serving /\ serving' = TRUE
    /\ asks' = [i \in 1 .. Len(asks) |-> Recovered(asks[i])]
    /\ linked' = reload(accountOf, tokenOf) /\ checked' = {}
    /\ UNCHANGED <<stage, trade, stops, boxes, book, post, days, thread, accountOf, tokenOf, clerk, pageVars>>

-----------------------------------------------------------------------------
(* Pages of a listing.                                                     *)

\* The read tools that page.
Listings == {"media_list", "story_list", "comment_list", "comment_replies", "tag_list", "conversation_list"}

\* Meta's page after a position: the items below it, newest first.
page_of(f, after) == [i \in 1 .. (IF after < PageSize THEN after ELSE PageSize) |-> <<f, after - i + 1>>]

\* _token: the position is kept with the query it belongs to.
first_page(f) ==
    /\ Listing /\ reading = NoReading
    /\ reading' = [kind |-> f, after |-> feed[f] - PageSize, got |-> page_of(f, feed[f])]
    /\ UNCHANGED feed

\* _after: a cursor is good for the query it was made for.
BoundTo(f) == reading.kind = f

next_page(f) ==
    /\ Listing /\ reading # NoReading /\ reading.after > 0 /\ BoundTo(f)
    /\ reading' = [kind |-> f, after |-> reading.after - PageSize,
                   got |-> reading.got \o page_of(f, reading.after)]
    /\ UNCHANGED feed

\* The client drops its cursor, or the handle expires.
forget == /\ Listing /\ reading # NoReading /\ reading' = NoReading /\ UNCHANGED feed

appears(f) == /\ Listing /\ feed[f] < MaxFeed /\ feed' = [feed EXCEPT ![f] = @ + 1] /\ UNCHANGED reading

-----------------------------------------------------------------------------
Work ==
    \/ \E op \in Ops : write(op)
    \/ \E i \in 1 .. Len(asks) : replay(i)
    \/ start_step \/ publish_ledger \/ publish_status \/ invoke
    \/ file_result \/ on_created \/ finish
    \/ \E b \in 1 .. Len(boxes) : process(b)
    \/ receive \/ day

Manage ==
    \/ \E al \in Aliases, u \in Users : add_token(al, u) \/ credential_set(al, u)
    \/ add_account \/ remove_account \/ reloaded
    \/ \E al \in Aliases : remove_token(al) \/ _refresh(al) \/ username(al)

Read ==
    \/ \E f \in Listings \cap Feeds : first_page(f) \/ next_page(f) \/ appears(f)
    \/ forget

InstagramNext == Work \/ Manage \/ Read \/ crash \/ startup_recovery

InstagramSpec == InstagramInit /\ [][InstagramNext]_instagramVars

-----------------------------------------------------------------------------
Post ==
    {NoPost}
    \cup [at : {"start", "check", "status", "call"}, ask : 1 .. Len(asks)]
    \cup [at : {"ledger", "hook"}, ask : 1 .. Len(asks), made : 1 .. Len(boxes)]
    \cup [at : {"finish"}, ask : 1 .. Len(asks), outcome : Outcomes, made : Nat]
Op ==
    [tool : {"create"}, owner : Owners, kind : {"image", "child"}]
    \cup [tool : {"carousel"}, owner : Owners, children : SUBSET Nat]
    \cup [tool : {"publish"}, owner : Owners, box : Nat]
    \cup [tool : {"message"}, owner : Owners, day : Nat]
    \cup [tool : {"reply", "hide", "delete"}, owner : Owners]
Ask == [op : Op, state : Outcomes, called : BOOLEAN, retried : BOOLEAN, made : Nat, effects : Nat]
Box == [owner : Owners, kind : Kinds, status : Statuses, media : Nat]
Row == [owner : Owners, kind : Kinds, box : Nat, status : Statuses \cup {"NONE"}, media : Nat, day : Nat]
Clerk ==
    {NoClerk} \cup [at : {"register"}, alias : Aliases, user : Users]
    \cup [at : {"unregister"}, alias : Aliases] \cup [at : {"reload"}]
Reading == {NoReading} \cup [kind : Feeds, after : Int, got : Seq(Feeds \X Int)]

\* Every table keeps its columns.
InstagramTypeOK ==
    /\ stops \in 0 .. MaxStops /\ serving \in BOOLEAN /\ days \in 0 .. MaxDays
    /\ boxes \in Seq(Box) /\ book \in SUBSET Row /\ IsFiniteSet(book)
    /\ asks \in Seq(Ask) /\ post \in Post /\ thread \in Seq([dir : {"in", "out"}, day : Nat])
    /\ accountOf \in [Aliases -> Users \cup {Nobody}] /\ tokenOf \in [Aliases -> Users \cup {Nobody}]
    /\ linked \in [Aliases -> Users \cup {Nobody}] /\ checked \subseteq Aliases /\ clerk \in Clerk
    /\ feed \in [Feeds -> Nat] /\ reading \in Reading

\* A container becomes at most one post, whatever was cut off, lost or asked again.
PublishedOnce == \A i \in 1 .. Len(boxes) : boxes[i].media <= 1

\* The ledger says of a container only what is true of it at Meta, and names each one once.
LedgerIsTrue ==
    /\ \A r \in book : /\ boxes[r.box].owner = r.owner /\ boxes[r.box].kind = r.kind
                       /\ r.status = "PUBLISHED" => boxes[r.box].status = "PUBLISHED"
                       /\ r.media # 0 => boxes[r.box].media > 0
    /\ \A r, s \in book : r.box = s.box => r = s

\* A recorded outcome is what happened (of a natural write, what its second call did);
\* what is done is done once unless doing it again is the same; and a container no row names
\* belongs to a request whose outcome is not known.
OutcomesAreTrue ==
    /\ \A i \in 1 .. Len(asks) :
         LET a == asks[i] IN
           /\ a.state = "FAILED" /\ ~a.retried => a.effects = 0
           /\ a.effects > 1 => Repeatable(a.op)
           /\ a.state = "SUCCEEDED" =>
                CASE a.op.tool \in {"create", "carousel"} -> \E r \in book : r.box = a.made
                  [] a.op.tool = "publish" -> boxes[a.op.box].status = "PUBLISHED"
                  [] OTHER -> a.effects > 0
    /\ Cardinality({b \in 1 .. Len(boxes) : ~\E r \in book : r.box = b})
         <= Cardinality({i \in 1 .. Len(asks) : asks[i].op.tool \in {"create", "carousel"}
                                                  /\ asks[i].state \in {"IN_FLIGHT", "OUTCOME_UNKNOWN"}})

\* The rolling budget of containers is kept for every account.
BudgetKept == \A acc \in Owners : budget_used(acc) <= CONTAINER_BUDGET

\* A message is asked of Meta only when the person wrote the same day, however many answers
\* were sent since.
NoColdMessage ==
    \A i \in 1 .. Len(asks) :
       asks[i].op.tool = "message" =>
          \E n \in 1 .. Len(thread) : thread[n].dir = "in" /\ thread[n].day = asks[i].op.day

\* The token of a registered alias is its account's own, also in the running adapters, so that
\* the identity check never has to block one and the doctor is content exactly with the aliases that work; one
\* account has one alias.
OwnTokenOnly ==
    /\ \A al \in Aliases : accountOf[al] # Nobody => tokenOf[al] \in {Nobody, accountOf[al]}
    /\ \A al \in Aliases : clerk = NoClerk /\ serving => linked[al] \in {Nobody, accountOf[al]}
    /\ \A al \in Aliases : clerk = NoClerk /\ serving => (findings(al) = {} <=> linked[al] # Nobody)
    /\ \A al \in checked : clerk = NoClerk /\ serving => linked[al] # Nobody
    /\ \A al, bl \in Aliases : accountOf[al] # Nobody /\ accountOf[al] = accountOf[bl] => al = bl

\* The pages a cursor leads through are one listing, without a gap or a repeat.
WalkIsOneListing ==
    \A i \in 2 .. Len(reading.got) :
       /\ reading.got[i][1] = reading.got[1][1]
       /\ reading.got[i][2] = reading.got[1][2] - i + 1

\* Instagram publishes once, records what happened and acts only for the account named.
InstagramKeepsCount ==
    PublishedOnce /\ LedgerIsTrue /\ OutcomesAreTrue /\ BudgetKept /\ NoColdMessage
    /\ OwnTokenOnly /\ WalkIsOneListing

-----------------------------------------------------------------------------
(* Why it does: the inductive invariant.                                   *)

InstagramConstants ==
    /\ CONTAINER_BUDGET \in Nat /\ LOOKBACK \in Nat /\ MaxDays \in Nat /\ MaxStops \in Nat
    /\ PageSize \in Nat \ {0} /\ Nobody \notin Users

Creates(op) == op.tool \in {"create", "carousel"}
Named(acc, box) == \E r \in Mine(acc) : r.box = box

\* A post at Meta is a published container, and the only post of it.
PostsAreContainers ==
    \A b \in 1 .. Len(boxes) : boxes[b].media <= 1 /\ (boxes[b].media > 0 <=> boxes[b].status = "PUBLISHED")

\* A row is of a container Meta made, under a day that has come.
RowsAreContainers ==
    /\ \A r \in book : r.box \in 1 .. Len(boxes) /\ r.day <= days
    /\ LedgerIsTrue

\* A publication names a container of its account.
PublicationsAreOwned ==
    \A i \in 1 .. Len(asks) : asks[i].op.tool = "publish" => Named(asks[i].op.owner, asks[i].op.box)

\* What one request did and what is recorded of it.
AskIsTrue(a) ==
    /\ a.effects > 0 => a.called
    /\ a.effects > 1 \/ a.retried => Repeatable(a.op)
    /\ a.state = "FAILED" /\ ~a.retried => a.effects = 0
    /\ a.state = "SUCCEEDED" =>
         /\ Creates(a.op) => \E r \in book : r.box = a.made
         /\ a.op.tool = "publish" => boxes[a.op.box].status = "PUBLISHED"
         /\ ~Creates(a.op) /\ a.op.tool # "publish" => a.effects > 0

\* A call under way: until Meta answers it did nothing yet, unless it is the second one; a
\* container it publishes is not out yet; and what it is about to record has happened.
CallIsTrue ==
    post # NoPost =>
       LET a == asks[post.ask] IN
         /\ serving
         /\ ~a.retried => a.state = "IN_FLIGHT"
         /\ post.at \in {"start", "check", "status", "call"} /\ ~a.retried => a.effects = 0
         /\ post.at # "start" => a.called
         /\ post.at \in {"check", "status"} => a.op.tool = "publish"
         /\ post.at = "call" /\ a.op.tool = "publish" => boxes[a.op.box].media = 0
         /\ post.at \in {"start", "call", "ledger"} /\ Creates(a.op) => budget_used(a.op.owner) < CONTAINER_BUDGET
         /\ post.at \in {"ledger", "hook"} =>
              /\ Creates(a.op) => boxes[post.made].owner = a.op.owner /\ boxes[post.made].kind = Kind(a.op)
              /\ Creates(a.op) \/ a.op.tool = "publish"
              /\ a.op.tool = "publish" => boxes[a.op.box].status = "PUBLISHED" /\ post.made = a.op.box
         /\ post.at = "ledger" /\ Creates(a.op) => ~\E r \in book : r.box = post.made
         /\ post.at = "hook" /\ Creates(a.op) => Named(a.op.owner, post.made)
         /\ post.at = "finish" => AskIsTrue([a EXCEPT !.state = post.outcome, !.made = post.made])

\* The requests that may have left a container no row names: made by Meta, and neither
\* recorded as done nor about to be.
Owing ==
    {i \in 1 .. Len(asks) :
       /\ Creates(asks[i].op) /\ asks[i].state \in {"IN_FLIGHT", "OUTCOME_UNKNOWN"} /\ asks[i].effects > 0
       /\ ~(post.at = "hook" /\ post.ask = i)
       /\ ~(post.at = "finish" /\ post.outcome = "SUCCEEDED" /\ post.ask = i)}
Unrecorded == {b \in 1 .. Len(boxes) : ~\E r \in book : r.box = b}
LossesAreOwned == Cardinality(Unrecorded) <= Cardinality(Owing)

\* A token is filed before its account and goes before it; the running adapters are those of
\* the tables whenever no command is under way.
AccountsSound ==
    /\ \A al \in Aliases : accountOf[al] # Nobody => tokenOf[al] \in {Nobody, accountOf[al]}
    /\ \A al, bl \in Aliases : accountOf[al] # Nobody /\ accountOf[al] = accountOf[bl] => al = bl
    /\ clerk # NoClerk => serving
    /\ clerk.at = "register" =>
         accountOf[clerk.alias] = Nobody /\ tokenOf[clerk.alias] = clerk.user /\ ~Taken(clerk.user)
    /\ clerk.at = "unregister" => tokenOf[clerk.alias] = Nobody
    /\ clerk = NoClerk /\ serving => linked = reload(accountOf, tokenOf) /\ \A al \in checked : linked[al] # Nobody

\* A cursor that still leads somewhere leads to the item after the last one read.
WalkSound ==
    /\ \A f \in Feeds : feed[f] >= PageSize
    /\ reading # NoReading =>
         /\ reading.got # <<>>
         /\ \A i \in 1 .. Len(reading.got) : reading.got[i] = <<reading.kind, reading.got[1][2] - i + 1>>
         /\ reading.after > 0 => reading.after = reading.got[1][2] - Len(reading.got)

InstagramInvariant ==
    /\ InstagramTypeOK
    /\ PostsAreContainers /\ RowsAreContainers /\ PublicationsAreOwned
    /\ \A i \in 1 .. Len(asks) : AskIsTrue(asks[i])
    /\ CallIsTrue /\ LossesAreOwned /\ BudgetKept /\ NoColdMessage
    /\ AccountsSound /\ WalkSound
=============================================================================
