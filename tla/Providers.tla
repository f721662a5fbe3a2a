----------------------------- MODULE Providers ------------------------------
(***************************************************************************)
(* The way of a tool call to Telegram and WhatsApp: who acts, what the     *)
(* provider is asked, what its answer is taken to mean; the staged files   *)
(* such a call may carry; the download of a file; and the one MTProto      *)
(* session behind the user account.                                        *)
(*                                                                         *)
(* A write runs on the event loop's thread to its end, so what moves       *)
(* while it runs is the provider (standing, lost answers) and what cuts it *)
(* short is a crash.  The executor's own steps, its steps' records and the *)
(* audit chain are Mutations; here a request keeps the row a repeated call *)
(* meets.  The offices share no state: one moves in a behaviour.           *)
(***************************************************************************)
EXTENDS Integers, Sequences, FiniteSets, SequencesExt

CONSTANTS
    Offices,        \* the offices that move: "writes", "files", "download", "session"
    Crews,          \* sets of actors a group may have
    Tools,          \* the tools; the writes of a behaviour keep to one
    MaxWrites,      \* request ids, used in order
    MaxSwings,      \* standings changed, snapshots aged, crashes
    Renters,        \* clients that stage files
    Parts,          \* chunks of a whole file
    MaxFiles, MaxHours, Life,
    Sizes,          \* slices a message's file may have
    MaxSlices,      \* what a download may hold
    Listeners,      \* consumers of the update stream
    MaxTurns        \* what the operator, Telegram and the network do

VARIABLES
    office,
    crew, tool, shared, standing, discovered, matrix, writes, errand, swings,
    tray, taken, used, hour,
    original, fetch,
    wire, server, told, flight, stream, turns

writeVars == <<crew, tool, shared, standing, discovered, matrix, writes, errand, swings>>
fileVars == <<tray, taken, used, hour>>
downloadVars == <<original, fetch>>
sessionVars == <<wire, server, told, flight, stream, turns>>
vars == <<office, writeVars, fileVars, downloadVars, sessionVars>>

BOT == "telegram_bot"
USER == "telegram_user"
CLOUD == "whatsapp_cloud"

AUTHORITY_ORDER == <<BOT, CLOUD, USER>>

States == {"AVAILABLE", "NOT_AUTHORIZED", "TEMPORARILY_UNAVAILABLE", "UNKNOWN"}
Outcomes == {"SUCCEEDED", "FAILED", "OUTCOME_UNKNOWN"}

NoErrand == [at |-> "idle"]
NoFlight == [at |-> "idle"]
NoFetch == [at |-> "idle"]

Init ==
    /\ office \in Offices
    /\ crew \in (IF office = "writes" THEN Crews ELSE {{}})
    /\ tool \in (IF office = "writes" THEN Tools ELSE {"none"})
    /\ shared \in (IF tool \in {"edit", "delete"} THEN BOOLEAN ELSE {FALSE})
    /\ standing = [a \in crew |-> "admin"] /\ discovered = "AVAILABLE"
    /\ matrix = [a \in crew |-> "none"]
    /\ writes = <<>> /\ errand = NoErrand /\ swings = 0
    /\ tray = <<>> /\ taken = {} /\ used = {} /\ hour = 0
    /\ original \in (IF office = "download" THEN [version : {1}, size : Sizes] ELSE {NoFetch})
    /\ fetch = NoFetch
    /\ wire = [connected |-> FALSE, authorized |-> FALSE, revoked |-> FALSE,
               account_unavailable |-> FALSE, logged_out |-> FALSE, client |-> FALSE, code |-> FALSE]
    /\ server \in (IF office = "session" THEN {"none", "good"} ELSE {"none"})
    /\ told = "nothing" /\ flight = NoFlight /\ stream = [owner |-> "nobody", sink |-> "nobody"]
    /\ turns = 0

Writing == office = "writes" /\ UNCHANGED <<office, crew, tool, shared, fileVars, downloadVars, sessionVars>>
Filing == office = "files" /\ UNCHANGED <<office, writeVars, downloadVars, sessionVars>>
Fetching == office = "download" /\ UNCHANGED <<office, writeVars, fileVars, sessionVars>>
Linking == office = "session" /\ UNCHANGED <<office, writeVars, fileVars, downloadVars>>

-----------------------------------------------------------------------------
(* The tools: which transport has them, which actor can ever do them, and  *)
(* what may be asked again.                                                *)

Transport(a) == IF a = CLOUD THEN "whatsapp" ELSE "telegram"

\* MessageService's table.
MESSAGES == [send |-> {"telegram", "whatsapp"}, media |-> {"telegram", "whatsapp"},
             edit |-> {"telegram"}, delete |-> {"telegram"}]

\* GroupService's tables: a member's tools, a group's tools, and a new group.
MEMBERSHIP == [add |-> {"telegram"}, ban |-> {"telegram"}]

ADMIN == [set |-> {"telegram", "whatsapp"}, invite |-> {"telegram"}]

\* group.create: a Telegram or a WhatsApp group, from the account.
CREATE == [create |-> {"telegram", "whatsapp"}]

TransportsOf == MESSAGES @@ MEMBERSHIP @@ ADMIN @@ CREATE

\* SUPPORT: adding a member and making a group are not the bot's.
SUPPORT == [send |-> {BOT, USER, CLOUD}, media |-> {BOT, USER, CLOUD}, edit |-> {BOT, USER},
            delete |-> {BOT, USER}, add |-> {USER}, ban |-> {BOT, USER}, set |-> {BOT, USER, CLOUD},
            invite |-> {BOT, USER}, create |-> {USER, CLOUD}]

SENDS == {"send", "media"}
CREATES == {"invite", "create"}
DESTROYS == {"delete"}

\* _SEND_MTPROTO: a send the provider tells apart by its random_id.
Keyed(a) == tool \in SENDS /\ a = USER

\* SEMANTICS: what may be called again, once, after an unknown outcome.
ambiguity_policy(a) ==
    IF Keyed(a) \/ tool \notin SENDS \cup CREATES \cup DESTROYS THEN "retry_same_key"
    ELSE "resolve_only"

\* random_id_for, derived from the request's key: a keyed send is made at most once.
Deduplicated(a, row) == Keyed(a) /\ row.done > 0

-----------------------------------------------------------------------------
(* Capability: what an actor may do, as far as is known.                   *)

\* The user account's rule for its standing in the group.
user_state(s) ==
    IF \/ tool = "create"
       \/ s = "admin"
       \/ s # "out" /\ tool \in {"send", "media", "edit", "add"}
    THEN "AVAILABLE" ELSE "NOT_AUTHORIZED"

\* The bot's rule: the same, by the rights the Bot API names.
bot_state(s) ==
    IF \/ s = "admin"
       \/ s # "out" /\ tool \in {"send", "media", "edit"}
    THEN "AVAILABLE" ELSE "NOT_AUTHORIZED"

\* UserCapability.snapshot: one lookup of the account's standing, which may fail; none for
\* the account itself.
user_snapshot ==
    {user_state(standing[USER])} \cup (IF tool = "create" THEN {} ELSE {"TEMPORARILY_UNAVAILABLE"})

\* BotCapability.snapshot: getChat and getChatMember, which may fail (a failure without a
\* name is UNKNOWN in the code, and refuses a write just the same).
bot_snapshot == {bot_state(standing[BOT]), "TEMPORARILY_UNAVAILABLE"}

\* WhatsAppCapability.snapshot: what discovery found of the Groups API.
cloud_snapshot == {discovered}

Looks(a) ==
    CASE a = USER -> user_snapshot [] a = BOT -> bot_snapshot [] OTHER -> cloud_snapshot

\* CapabilityService.snapshot: the cached states, or the provider's.
snapshot(a, refresh) == IF refresh \/ matrix[a] = "none" THEN Looks(a) ELSE {matrix[a]}

Turn == swings < MaxSwings /\ swings' = swings + 1

\* A standing given or taken away elsewhere.
standing_change ==
    /\ Writing /\ Turn
    /\ \E a \in crew, s \in {"out", "member", "admin"} :
          s # standing[a] /\ standing' = [standing EXCEPT ![a] = s]
    /\ UNCHANGED <<discovered, matrix, writes, errand>>

\* The five minutes of a cached snapshot are over.
matrix_ages ==
    /\ Writing /\ Turn
    /\ \E a \in crew : matrix[a] # "none" /\ matrix' = [matrix EXCEPT ![a] = "none"]
    /\ UNCHANGED <<standing, discovered, writes, errand>>

\* GroupDiscovery.discover: one list call decides every group capability of the number.
discover ==
    /\ Writing /\ CLOUD \in crew /\ Turn /\ errand = NoErrand
    /\ \E s \in {IF standing[CLOUD] = "out" THEN "NOT_AUTHORIZED" ELSE "AVAILABLE", "UNKNOWN"} :
          s # discovered /\ discovered' = s
    /\ UNCHANGED <<standing, matrix, writes, errand>>

\* capability.get, for_group and for_actor fill the cache; refresh reads it anew.
views ==
    /\ Writing /\ errand = NoErrand
    /\ \E a \in crew, refresh \in BOOLEAN : \E s \in snapshot(a, refresh) :
          matrix[a] # s /\ matrix' = [matrix EXCEPT ![a] = s]
    /\ UNCHANGED <<standing, discovered, writes, errand, swings>>

-----------------------------------------------------------------------------
(* A write: the services, ProviderWrites.write and the executor's row.     *)

Able == {a \in crew : a \in SUPPORT[tool] /\ Transport(a) \in TransportsOf[tool]}

Candidates(preferred) ==
    SelectSeq(AUTHORITY_ORDER, LAMBDA a : a \in Able /\ preferred \in {"auto", a})

\* ProviderWrites.write: the actors that can ever do it, in the order of authority.
write(rid, preferred, minter) ==
    /\ Writing /\ errand = NoErrand
    /\ Candidates(preferred) # <<>>
    /\ errand' = [at |-> "choose", rid |-> rid, ref |-> minter,
                  left |-> Candidates(preferred)]
    /\ UNCHANGED <<standing, discovered, matrix, writes, swings>>

Rids == {rid \in 1..(Len(writes) + 1) : rid <= MaxWrites}

\* send, edit, delete of MessageService: a text, or a message ref some actor minted.
message_write ==
    \E rid \in Rids, preferred \in crew \cup {"auto"}, minter \in crew :
        /\ tool \in DOMAIN MESSAGES \ {"media"}
        /\ tool = "send" => minter = CHOOSE a \in crew : TRUE
        /\ write(rid, preferred, minter)

\* MessageService.send_media: new bytes, or a held file, which binds the actor that has it.
send_media ==
    \E rid \in Rids, preferred \in crew \cup {"auto"}, held \in BOOLEAN,
       owner \in crew :
        /\ tool = "media"
        /\ ~held => owner = CHOOSE a \in crew : TRUE
        /\ held => preferred \in {"auto", owner}
        /\ write(rid, IF held THEN owner ELSE preferred, owner)

\* GroupService.member: a WhatsApp group takes no members, only invitations.
member_write ==
    \E rid \in Rids, preferred \in crew \cup {"auto"} :
        /\ tool \in DOMAIN MEMBERSHIP
        /\ write(rid, preferred, CHOOSE a \in crew : TRUE)

\* GroupService.admin and create.
admin_write ==
    \E rid \in Rids, preferred \in crew \cup {"auto"} :
        /\ tool \in DOMAIN ADMIN \cup DOMAIN CREATE
        /\ write(rid, preferred, CHOOSE a \in crew : TRUE)

\* identity: a message ref of this group, and an id the acting account shares.
identity(a, minter) == tool \in {"edit", "delete"} => shared \/ minter = a

\* choose_actor: the first actor whose cached state says it may; then the refs are resolved.
choose_actor ==
    LET a == Head(errand.left) IN
    /\ Writing /\ errand.at = "choose"
    /\ \E s \in snapshot(a, FALSE) :
          /\ matrix' = [matrix EXCEPT ![a] = s]
          /\ errand' = IF s = "AVAILABLE"
                       THEN IF identity(a, errand.ref)
                            THEN [at |-> "require", rid |-> errand.rid, ref |-> errand.ref,
                                  actor |-> a]
                            ELSE NoErrand
                       ELSE IF Len(errand.left) = 1 THEN NoErrand
                            ELSE [errand EXCEPT !.left = Tail(@)]
    /\ UNCHANGED <<standing, discovered, writes, swings>>

\* require_for_write: a fresh snapshot, and only an explicit AVAILABLE passes.
require_for_write ==
    /\ Writing /\ errand.at = "require"
    /\ \E s \in snapshot(errand.actor, TRUE) :
          /\ matrix' = [matrix EXCEPT ![errand.actor] = s]
          /\ errand' = IF s = "AVAILABLE" THEN [errand EXCEPT !.at = "provider"] ELSE NoErrand
    /\ UNCHANGED <<standing, discovered, writes, swings>>

\* The arguments each actor's request tables accept; validate refuses the others unrecorded.
MEMBER_SPECS == {"add", "ban"}
CHAT_SPECS == {"set", "invite"}
MESSAGE_SPECS == {"send", "media", "edit", "delete"}

user_request(args) ==
    args = "fit" /\ tool \in MEMBER_SPECS \cup CHAT_SPECS \cup MESSAGE_SPECS \cup {"create"}

MEMBER_REQUESTS == {"ban"}
CHAT_REQUESTS == {"set"}
INVITE_REQUESTS == {"invite"}
MESSAGE_REQUESTS == {"send", "media", "edit", "delete"}

bot_request(args) ==
    /\ args = "fit"
    /\ tool \in MEMBER_REQUESTS \cup CHAT_REQUESTS \cup INVITE_REQUESTS \cup MESSAGE_REQUESTS

OPERATIONS == {"send", "media", "set", "create"}

cloud_request(args) == args = "fit" /\ tool \in OPERATIONS

validate(a, args) ==
    CASE a = USER -> user_request(args) [] a = BOT -> bot_request(args) [] OTHER -> cloud_request(args)

\* The request digest: the arguments, the actor and the destination.
SameRequest(row, e) == row.ref = e.ref /\ row.actor = e.actor

NewRow(e) ==
    [ref |-> e.ref, actor |-> e.actor, state |-> "IN_FLIGHT", retried |-> FALSE,
     done |-> 0, now |-> 0, held |-> FALSE, raised |-> FALSE]

\* A send of a file has the file prepared before its call.
Calling == [errand EXCEPT !.at = IF tool = "media" THEN "prepare" ELSE "invoke"]

\* MutationExecutor.provider: arguments that do not fit are refused unrecorded; one row per
\* request id; an unknown outcome may run once more.
provider ==
    LET rid == errand.rid
        row == writes[rid]
    IN
    /\ Writing /\ errand.at = "provider"
    /\ \/ /\ \E args \in {"fit", "unfit"} : ~validate(errand.actor, args)
          /\ writes' = writes /\ errand' = NoErrand
       \/ /\ validate(errand.actor, "fit") /\ rid = Len(writes) + 1
          /\ writes' = Append(writes, NewRow(errand)) /\ errand' = Calling
       \/ /\ validate(errand.actor, "fit") /\ rid <= Len(writes)
          /\ IF /\ SameRequest(row, errand) /\ row.state = "OUTCOME_UNKNOWN"
                /\ ~row.retried /\ ambiguity_policy(row.actor) = "retry_same_key"
             THEN /\ writes' = [writes EXCEPT ![rid].retried = TRUE, ![rid].now = 0,
                                              ![rid].held = FALSE]
                  /\ errand' = Calling
             ELSE writes' = writes /\ errand' = NoErrand
    /\ UNCHANGED <<standing, discovered, matrix, swings>>

-----------------------------------------------------------------------------
(* The call itself.  An answer is what came back, with whether the         *)
(* provider did what it was asked.                                         *)

Row == writes[errand.rid]

\* authoritative: a refusal drops the actor's cached snapshot.
authoritative(a, verdict) == IF verdict = "FAILED" THEN [matrix EXCEPT ![a] = "none"] ELSE matrix

\* The executor's end of a call.
Settle(verdict) ==
    /\ errand' = NoErrand
    /\ matrix' = authoritative(errand.actor, verdict)

\* A file made ready, or a refusal: no message was asked for.
Ready(ok) ==
    IF ok
    THEN errand' = [errand EXCEPT !.at = "invoke"] /\ UNCHANGED <<writes, matrix>>
    ELSE Settle("FAILED") /\ writes' = [writes EXCEPT ![errand.rid].state = "FAILED"]

Preparing(a) ==
    Writing /\ errand.at = "prepare" /\ errand.actor = a /\ UNCHANGED <<standing, discovered, swings>>

\* upload_parts: every part or no file.
upload_parts == BOOLEAN

\* prepare_media: the parts, a file uploaded before, or its message fetched again.
prepare_media == Preparing(USER) /\ \E ok \in upload_parts : Ready(ok)

\* BotAdmin._send_media: the bytes go with the call; a held file by its id, if still known.
bot_send_media == Preparing(BOT) /\ \E known \in BOOLEAN : Ready(known)

\* upload_media: Meta's id for the file; without one there is nothing to send.
upload_media == \E answer \in {"ok", "nameless", "unsent", "lost", "odd", "refused"} : Ready(answer = "ok")

\* _send_media of WhatsApp, gated by discovery as every group call.
cloud_send_media ==
    Preparing(CLOUD) /\ IF discovered = "AVAILABLE" THEN upload_media ELSE Ready(FALSE)

\* What the provider would do now, and what may have happened when the answer is unclear.
Can(a) ==
    /\ CASE a = USER -> user_state(standing[USER]) = "AVAILABLE"
         [] a = BOT -> bot_state(standing[BOT]) = "AVAILABLE"
         [] OTHER -> standing[CLOUD] # "out"
    /\ ~Deduplicated(a, Row)

Done(a) == IF Can(a) THEN {TRUE, FALSE} ELSE {FALSE}

Said(a, answers) == IF Can(a) THEN answers \X {TRUE} ELSE {}

\* BotApi.call: refused before it left, lost on the way, or the Bot API's own answer.
bot_call ==
    {"unsent", "refused", "flood"} \X {FALSE} \cup {"lost", "odd"} \X Done(BOT)
    \cup Said(BOT, {"ok"} \cup (IF tool \in SENDS \cup {"invite"} THEN {"nameless"} ELSE {}))
    \cup (IF tool = "set" THEN {<<"already", FALSE>>} ELSE {})

\* GraphApi._call.
graph_call ==
    {"unsent", "refused"} \X {FALSE} \cup {"lost", "odd"} \X Done(CLOUD)
    \cup Said(CLOUD, {"ok"} \cup (IF tool \in SENDS \cup {"create"} THEN {"nameless"} ELSE {}))

\* The builders: each looks its group, its member or its topic up in the entity cache; what
\* is not there is refused without a call.
MEMBER_BUILDERS == {"add", "ban"}
CHAT_BUILDERS == {"set", "invite"}
MESSAGE_BUILDERS == {"edit", "delete"}

Peerless ==
    IF tool \in MEMBER_BUILDERS \cup CHAT_BUILDERS \cup MESSAGE_BUILDERS \cup SENDS
    THEN {<<"unsent", FALSE>>} ELSE {}

\* The MTProto request: no peer in the entity cache, a named error, a flood, anything else.
mtproto_call ==
    Peerless \cup {"refused", "flood"} \X {FALSE} \cup {"lost", "odd"} \X Done(USER)
    \cup Said(USER, {"ok"} \cup (IF tool \in CREATES THEN {"nameless"} ELSE {}))
    \cup (IF tool = "set" THEN {<<"already", FALSE>>} ELSE {})
    \cup (IF tool = "add" THEN {<<"missing", FALSE>>} ELSE {})
    \cup (IF tool = "media" THEN {<<"barred", FALSE>>} ELSE {})
    \cup (IF Deduplicated(USER, Row) THEN {<<"duplicate", FALSE>>} ELSE {})

\* classify_admin of the Bot API: FAILED only for a named case; a new thing must have a name.
bot_classify(answer) ==
    CASE answer \in {"ok", "already"} -> "SUCCEEDED"
      [] answer \in {"refused", "flood", "unsent"} -> "FAILED"
      [] OTHER -> "OUTCOME_UNKNOWN"

\* classify_admin of the Graph API, by Meta's codes.
cloud_classify(answer) ==
    CASE answer = "ok" -> "SUCCEEDED"
      [] answer \in {"refused", "unsent"} -> "FAILED"
      [] OTHER -> "OUTCOME_UNKNOWN"

\* admin_request: a transport failure is never a refusal here, sent or not.
admin_request(answer) ==
    CASE answer \in {"ok", "already"} -> "SUCCEEDED"
      [] answer \in {"refused", "flood", "unsent", "missing"} -> "FAILED"
      [] OTHER -> "OUTCOME_UNKNOWN"

\* _keyed_send and the first half of _reconciled.
first_attempt(answer) ==
    CASE answer \in {"ok", "duplicate"} -> "SUCCEEDED"
      [] answer \in {"refused", "barred", "flood", "unsent"} -> "FAILED"
      [] answer = "lost" -> "again"
      [] OTHER -> "OUTCOME_UNKNOWN"

\* Mutant: a reissue whose refusal is taken as a failure.
second_attempt_refused(answer) ==
    CASE answer \in {"ok", "duplicate"} -> "SUCCEEDED"
      [] answer \in {"refused", "barred"} -> "FAILED"
      [] OTHER -> "OUTCOME_UNKNOWN"

\* The one identical reissue; the named refusal of a file is raised past it.
second_attempt(answer) ==
    CASE answer \in {"ok", "duplicate"} -> "SUCCEEDED"
      [] answer = "barred" -> "FAILED"
      [] OTHER -> "OUTCOME_UNKNOWN"

\* The end of one call: what it did, and what the record says of it.
Answered(x, verdict, more, again) ==
    LET n == IF x[2] THEN 1 ELSE 0 IN
    /\ writes' = [writes EXCEPT ![errand.rid] =
                    [@ EXCEPT !.done = @ + n, !.now = @ + n,
                              !.held = @ \/ x[1] \in {"already", "duplicate"},
                              !.raised = @ \/ (again /\ x[1] = "barred"),
                              !.state = IF more THEN @ ELSE verdict]]
    /\ IF more THEN errand' = [errand EXCEPT !.at = "again"] /\ UNCHANGED matrix
       ELSE Settle(verdict)
    /\ UNCHANGED <<standing, discovered, swings>>

\* BotAdmin.invoke.
bot_invoke ==
    /\ Writing /\ errand.at = "invoke" /\ errand.actor = BOT
    /\ \E x \in bot_call : Answered(x, bot_classify(x[1]), FALSE, FALSE)

\* WhatsAppAdmin.invoke: a group call is gated by what discovery found.
cloud_invoke ==
    /\ Writing /\ errand.at = "invoke" /\ errand.actor = CLOUD
    /\ \E x \in (IF discovered = "AVAILABLE" THEN graph_call ELSE {<<"unsent", FALSE>>}) :
          Answered(x, cloud_classify(x[1]), FALSE, FALSE)

\* UserAdmin.invoke of anything but a send.
user_invoke ==
    /\ Writing /\ errand.at = "invoke" /\ errand.actor = USER /\ ~Keyed(USER)
    /\ \E x \in mtproto_call : Answered(x, admin_request(x[1]), FALSE, FALSE)

\* send, forward, send_media of the user account: on ambiguity the identical request once
\* more, if the window of 10 seconds is not over.
user_send ==
    /\ Writing /\ errand.at = "invoke" /\ errand.actor = USER /\ Keyed(USER)
    /\ \E x \in mtproto_call, late \in BOOLEAN :
         LET v == first_attempt(x[1]) IN
         /\ late => v = "again"
         /\ Answered(x, IF v = "again" THEN "OUTCOME_UNKNOWN" ELSE v, v = "again" /\ ~late, FALSE)

user_reissue ==
    /\ Writing /\ errand.at = "again"
    /\ \E x \in {y \in mtproto_call : y[1] # "unsent"} :
          Answered(x, second_attempt(x[1]), FALSE, TRUE)

\* The daemon dies and starts again: recovery settles what was in flight as unknown.
crash ==
    /\ Writing /\ Turn
    /\ errand' = NoErrand /\ matrix' = [a \in crew |-> "none"]
    /\ writes' = [i \in DOMAIN writes |->
                    IF writes[i].state = "IN_FLIGHT"
                    THEN [writes[i] EXCEPT !.state = "OUTCOME_UNKNOWN"] ELSE writes[i]]
    /\ UNCHANGED <<standing, discovered>>

-----------------------------------------------------------------------------
(* Staged files: StagedMedia.                                              *)

Live(x) == x.expires > hour

\* begin: a new upload of the client's, for as long as it lives.
begin(client) ==
    /\ Filing /\ Len(tray) < MaxFiles
    /\ \E sound \in BOOLEAN :
          tray' = Append(tray, [client |-> client, got |-> 0, sound |-> sound,
                                expires |-> hour + Life, there |-> TRUE])
    /\ UNCHANGED <<taken, used, hour>>

\* _own: the client's own upload that is still there.
own(client, ref) == tray[ref].there /\ Live(tray[ref]) /\ tray[ref].client = client

\* chunk: strictly in order, never past the declared size.
chunk(client, ref) ==
    /\ Filing /\ own(client, ref) /\ tray[ref].got < Parts
    /\ tray' = [tray EXCEPT ![ref].got = @ + 1]
    /\ UNCHANGED <<taken, used, hour>>

TakenOf(ref) == {t \in taken : t.ref = ref /\ tray[ref].expires > hour}

\* take: the whole file for one request; that request may take it again while it lives.
take(client, ref, rid) ==
    LET whole == tray[ref].got = Parts /\ tray[ref].sound IN
    /\ Filing
    /\ IF TakenOf(ref) # {}
       THEN /\ \E t \in TakenOf(ref) : t.client = client /\ t.rid = rid
            /\ used' = used \cup {<<ref, client, rid>>} /\ UNCHANGED <<tray, taken>>
       ELSE /\ own(client, ref)
            /\ tray' = [tray EXCEPT ![ref].there = FALSE]
            /\ IF whole
               THEN /\ taken' = taken \cup {[ref |-> ref, client |-> client, rid |-> rid]}
                    /\ used' = used \cup {<<ref, client, rid>>}
               ELSE UNCHANGED <<taken, used>>
    /\ UNCHANGED hour

\* _sweep: what has outlived its time is gone (the hour only moves on).
tick ==
    /\ Filing /\ hour < MaxHours
    /\ hour' = hour + 1
    /\ UNCHANGED <<tray, taken, used>>

File == \/ \E client \in Renters : begin(client)
        \/ \E client \in Renters, ref \in DOMAIN tray : chunk(client, ref)
        \/ \E client \in Renters, ref \in DOMAIN tray, rid \in 1..2 : take(client, ref, rid)
        \/ tick

-----------------------------------------------------------------------------
(* A download: TelethonSession.download_media.                             *)

\* _download_source: the message is fetched for a fresh reference to its file.
download_source(f) == [f EXCEPT !.version = original.version, !.size = original.size, !.fresh = TRUE]

download ==
    /\ Fetching /\ fetch = NoFetch
    /\ fetch' = download_source([at |-> "slices", data |-> <<>>, version |-> 0, size |-> 0,
                                 fresh |-> TRUE, refreshed |-> FALSE, moved |-> FALSE,
                                 edited |-> FALSE])
    /\ UNCHANGED original

Refused(f) == [f EXCEPT !.at = "refused"]

\* One upload.getFile, at the offset of what is there: the last slice is a short one.
get_file ==
    LET n == Len(fetch.data) + 1 IN
    /\ Fetching /\ fetch.at = "slices"
    /\ fetch' = IF fetch.size > MaxSlices THEN Refused(fetch)
                ELSE IF ~fetch.fresh
                     THEN IF fetch.refreshed THEN Refused(fetch)
                          ELSE [download_source(fetch) EXCEPT !.refreshed = TRUE]
                     ELSE [fetch EXCEPT !.data = Append(@, <<fetch.version, n>>),
                                        !.at = IF n >= fetch.size THEN "done" ELSE @]
    /\ UNCHANGED original

\* FileMigrateError: the file lives on another data centre, followed once.
migrate ==
    /\ Fetching /\ fetch.at = "slices"
    /\ fetch' = IF fetch.moved THEN Refused(fetch) ELSE [fetch EXCEPT !.moved = TRUE]
    /\ UNCHANGED original

\* Any other failure of a slice.
slice_fails ==
    Fetching /\ fetch.at = "slices" /\ fetch' = Refused(fetch) /\ UNCHANGED original

\* The reference expires while slices are still to come.
reference_expires ==
    /\ Fetching /\ fetch.at = "slices" /\ fetch.fresh
    /\ fetch' = [fetch EXCEPT !.fresh = FALSE]
    /\ UNCHANGED original

\* The sender replaces the message's file.
media_edited ==
    /\ Fetching /\ original.version = 1
    /\ \E size \in Sizes : original' = [version |-> 2, size |-> size]
    /\ fetch' = IF fetch = NoFetch THEN fetch ELSE [fetch EXCEPT !.edited = TRUE]

Download == download \/ get_file \/ migrate \/ slice_fails \/ reference_expires \/ media_edited

-----------------------------------------------------------------------------
(* The session: TelethonSession.                                           *)

Spend == turns < MaxTurns /\ turns' = turns + 1

\* readiness: nothing when reads may run, else the code they are refused with.
readiness ==
    IF wire.account_unavailable THEN "ACCOUNT_UNAVAILABLE"
    ELSE IF wire.revoked THEN "SESSION_REVOKED"
    ELSE IF wire.logged_out THEN "AUTH_REQUIRED"
    ELSE IF ~wire.connected THEN "TELEGRAM_UNAVAILABLE"
    ELSE IF ~wire.authorized THEN "AUTH_REQUIRED"
    ELSE "ready"

\* What a request over the present key is told.
Replies == {CASE server = "good" -> "fine" [] server = "dead" -> "SESSION_REVOKED"
              [] server = "banned" -> "ACCOUNT_UNAVAILABLE" [] OTHER -> "AUTH_REQUIRED", "OSError"}

\* _probe_authorized: a probe never latches; a broken link ends the reconnection.
probed(w, reply) ==
    CASE reply = "fine" -> [w EXCEPT !.connected = TRUE, !.authorized = TRUE]
      [] reply \in {"SESSION_REVOKED", "AUTH_REQUIRED"} ->
            [w EXCEPT !.connected = TRUE, !.authorized = FALSE]
      [] reply = "ACCOUNT_UNAVAILABLE" ->
            [w EXCEPT !.connected = TRUE, !.account_unavailable = TRUE]
      [] OTHER -> [w EXCEPT !.connected = FALSE]

\* reconnect: a client if there is none, the connection, then the probe.
reconnect(reply) == probed([wire EXCEPT !.client = TRUE], reply)

\* start, the keeper and every status call reconnect a session that is not connected.
keeper ==
    /\ Linking /\ Spend /\ ~wire.connected
    /\ \E reply \in Replies : wire' = reconnect(reply)
    /\ UNCHANGED <<server, told, flight, stream>>

\* is_authorized: the operator's probe of a connected session.
is_authorized ==
    /\ Linking /\ Spend /\ wire.connected
    /\ \E reply \in Replies :
          /\ reply # "ACCOUNT_UNAVAILABLE"
          /\ wire' = IF reply = "OSError" THEN [wire EXCEPT !.connected = FALSE]
                     ELSE probed(wire, reply)
    /\ UNCHANGED <<server, told, flight, stream>>

\* _call_reviewed up to its await: a read needs a ready session, any other call reconnects.
call_reviewed(op) ==
    /\ Linking /\ Spend /\ flight = NoFlight
    /\ \/ /\ op = "retrieval" /\ readiness = "ready" /\ UNCHANGED wire
       \/ /\ op = "admin" /\ wire.connected /\ UNCHANGED wire
       \/ /\ op = "admin" /\ ~wire.connected
          /\ \E reply \in Replies \ {"OSError"} : wire' = reconnect(reply) /\ wire'.connected
    /\ flight' = [at |-> "sent", op |-> op, key |-> server]
    /\ UNCHANGED <<server, told, stream>>

\* _call_reviewed after its await: a broken link is remembered, a dead session latched.
call_answered ==
    /\ Linking /\ flight.at = "sent"
    /\ \E reply \in (IF flight.key = server /\ wire.client THEN Replies ELSE {"OSError"}) :
          /\ wire' = [wire EXCEPT !.connected = @ /\ reply # "OSError",
                                  !.revoked = @ \/ reply = "SESSION_REVOKED",
                                  !.account_unavailable = @ \/ reply = "ACCOUNT_UNAVAILABLE"]
          /\ told' = IF reply \in {"SESSION_REVOKED", "ACCOUNT_UNAVAILABLE"} THEN "dead" ELSE told
    /\ flight' = NoFlight
    /\ UNCHANGED <<server, stream, turns>>

\* send_code: one auth.SendCode, with one switch of the data centre.
send_code ==
    /\ Linking /\ Spend /\ wire.connected /\ ~wire.code /\ server # "banned"
    /\ wire' = [wire EXCEPT !.code = TRUE]
    /\ UNCHANGED <<server, told, flight, stream>>

\* sign_in_code, sign_in_password, _signed_in: every latch is cleared.
sign_in ==
    /\ Linking /\ Spend /\ wire.connected /\ wire.code /\ server # "banned"
    /\ wire' = [wire EXCEPT !.revoked = FALSE, !.logged_out = FALSE, !.authorized = TRUE,
                            !.account_unavailable = FALSE, !.code = FALSE]
    /\ server' = "good" /\ told' = "nothing"
    /\ UNCHANGED <<flight, stream>>

\* logout_local: the client and the session's files are gone; Telegram is not told.
logout_local ==
    /\ Linking /\ Spend
    /\ wire' = [wire EXCEPT !.client = FALSE, !.code = FALSE, !.connected = FALSE,
                            !.authorized = FALSE, !.logged_out = TRUE]
    /\ server' = "none"
    /\ UNCHANGED <<told, flight, stream>>

\* admin_log_out: Telegram forgets the key; the session learns of it from a refused request.
admin_log_out ==
    /\ Linking /\ Spend /\ wire.connected /\ server = "good" /\ server' = "dead"
    /\ UNCHANGED <<wire, told, flight, stream>>

\* Another device ends the session, or Telegram deactivates the account.
server_change ==
    /\ Linking /\ Spend /\ server = "good"
    /\ server' \in {"dead", "banned"}
    /\ UNCHANGED <<wire, told, flight, stream>>

\* stop: the daemon disconnects; the next start reconnects.
stop ==
    /\ Linking /\ Spend /\ wire.connected
    /\ wire' = [wire EXCEPT !.connected = FALSE]
    /\ stream' = [owner |-> "nobody", sink |-> "nobody"]
    /\ UNCHANGED <<server, told, flight>>

\* claim_updates: the stream has one consumer, a second is refused.
claim_updates(o) ==
    /\ Linking /\ stream.owner = "nobody"
    /\ stream' = [stream EXCEPT !.owner = o]
    /\ UNCHANGED <<wire, server, told, flight, turns>>

set_update_sink(o) ==
    /\ Linking /\ stream.owner = o
    /\ stream' = [stream EXCEPT !.sink = o]
    /\ UNCHANGED <<wire, server, told, flight, turns>>

\* release_updates: with the claim goes the sink.
release_updates(o) ==
    /\ Linking /\ Spend /\ stream.owner = o
    /\ stream' = [owner |-> "nobody", sink |-> "nobody"]
    /\ UNCHANGED <<wire, server, told, flight>>

Link == \/ keeper \/ is_authorized \/ call_reviewed("retrieval") \/ call_reviewed("admin")
        \/ call_answered \/ send_code \/ sign_in \/ logout_local \/ admin_log_out
        \/ server_change \/ stop
        \/ \E o \in Listeners : claim_updates(o) \/ set_update_sink(o) \/ release_updates(o)

-----------------------------------------------------------------------------
Next ==
    \/ standing_change \/ matrix_ages \/ discover \/ views
    \/ message_write \/ send_media \/ member_write \/ admin_write
    \/ choose_actor \/ require_for_write \/ provider
    \/ prepare_media \/ bot_send_media \/ cloud_send_media
    \/ bot_invoke \/ cloud_invoke \/ user_invoke \/ user_send \/ user_reissue \/ crash
    \/ File \/ Download \/ Link

Spec == Init /\ [][Next]_vars

-----------------------------------------------------------------------------
TypeOK ==
    /\ matrix \in [crew -> States \cup {"none"}] /\ standing \in [crew -> {"out", "member", "admin"}]
    /\ \A i \in DOMAIN writes :
          writes[i].state \in Outcomes \cup {"IN_FLIGHT"} /\ writes[i].actor \in crew
    /\ \A i \in DOMAIN tray : tray[i].got \in 0..Parts
    /\ DOMAIN wire = {"connected", "authorized", "revoked", "account_unavailable",
                      "logged_out", "client", "code"}
    /\ server \in {"none", "good", "dead", "banned"}

(* A recorded success was done, or was so already; a recorded failure did  *)
(* nothing in the call it answers (user/send.py: a reissue's refusal       *)
(* proves nothing about the first attempt; the named refusal of a reissued *)
(* file is raised past that rule and is left out here).                    *)
RecordsAreTrue ==
    \A i \in DOMAIN writes :
        LET r == writes[i] IN
        /\ r.state = "SUCCEEDED" => r.done > 0 \/ r.held
        /\ r.state = "FAILED" /\ ~r.raised => r.now = 0

(* Whatever is asked again, by whatever actor, a send, a creation or a     *)
(* deletion happens once, and an edit or a deletion names a message its    *)
(* actor knows by that id.                                                 *)
DoneOnce ==
    \A i \in DOMAIN writes :
        LET r == writes[i] IN
        /\ tool \in SENDS \cup CREATES \cup DESTROYS => r.done <= 1
        /\ tool \in {"edit", "delete"} /\ r.done > 0 => shared \/ r.ref = r.actor

(* A downloaded file has every slice of the message's file, once and in    *)
(* order, and no more than a download may hold, whatever expired or moved; *)
(* of one file, unless its sender replaced it in between.                  *)
DownloadIsWhole ==
    office = "download" /\ fetch.at = "done" =>
        /\ Len(fetch.data) <= MaxSlices
        /\ \A n \in DOMAIN fetch.data : fetch.data[n][2] = n
        /\ fetch.edited \/ (/\ Len(fetch.data) = fetch.size
                            /\ \A n \in DOMAIN fetch.data : fetch.data[n][1] = fetch.version)

(* The bytes of a staged file reach one request of the client that staged  *)
(* it, and only whole (StagedMedia.take).                                  *)
FileGoesToOne ==
    \A x, y \in used :
        /\ x[1] = y[1] => x = y
        /\ x[2] = tray[x[1]].client /\ tray[x[1]].got = Parts

(* A session Telegram has called dead serves no read until the operator    *)
(* signs in again, whatever reconnects in between; and the updates go to   *)
(* the consumer that holds the stream.                                     *)
SessionStaysSound ==
    /\ told = "dead" => readiness # "ready"
    /\ stream.sink \in {"nobody", stream.owner}

(* What the tools tell their callers about Telegram and WhatsApp is true:  *)
(* outcomes, staged and fetched files, the session and its updates.              *)
ProvidersTellTheTruth ==
    RecordsAreTrue /\ DoneOnce /\ FileGoesToOne /\ DownloadIsWhole /\ SessionStaysSound
=============================================================================
