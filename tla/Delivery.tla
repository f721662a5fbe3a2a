------------------------------ MODULE Delivery ------------------------------
(***************************************************************************)
(* Campaign delivery (comms/core/delivery, comms/core/campaigns/drafts):   *)
(* a campaign is drafted, validated, frozen into a generation of jobs,     *)
(* sent by the engine job by job, corrected by provider reports, operator  *)
(* verdicts, retries and cancellations, and repaired after a crash.        *)
(*                                                                         *)
(* One step is one comms.db transaction, or one provider call.  A crash    *)
(* may fall between any two.  The provider is modelled by what it really   *)
(* did (msg), which the program never reads: the properties compare the    *)
(* program's records with it.                                              *)
(***************************************************************************)
EXTENDS Reducer, Sequences

CONSTANTS
    Campaigns,      \* campaign rows
    Generations,    \* generation rows a freeze may create
    Endpoints,      \* delivery identities; a job is (generation, endpoint)
    Transports,     \* "telegram", "whatsapp"
    TransportOf,    \* the transport of each endpoint
    Keyed,          \* transports whose provider dedupes by request key (MTProto)
    Reporting,      \* transports whose provider reports statuses (WhatsApp)
    MsgRefs,        \* provider message references
    Cap,            \* attempts a job may make (5 in the code)
    MaxTime,        \* bound on the clock
    RefReuse,       \* may a provider give one reference to two messages?
    SingleLoop,     \* does one event loop run every handler (the daemon)?
    None            \* SQL NULL

ASSUME DeliveryAssumption ==
    /\ TransportOf \in [Endpoints -> Transports]
    /\ Keyed \subseteq Transports
    /\ Reporting \subseteq Transports
    /\ Cap \in Nat \ {0}
    /\ MaxTime \in Nat
    /\ RefReuse \in BOOLEAN
    /\ SingleLoop \in BOOLEAN
    /\ None \notin Campaigns \cup Generations \cup Endpoints \cup MsgRefs
                   \cup Summaries

VARIABLES
    lifecycle,  \* campaigns.lifecycle, "ABSENT" before the row exists
    complete,   \* the draft has a body, a transport and a target
    summary,    \* campaigns.summary
    current,    \* campaigns.current_generation_id
    trail,      \* what the campaign's events said last: lifecycle and summary
    owner,      \* generations.campaign_id
    status,     \* generations.status, "unused" before the row exists
    sendAt,     \* generations.send_at
    job,        \* delivery_jobs.state, "ABSENT" where there is no job
    attempts,   \* delivery_jobs.attempt_count
    bound,      \* delivery_attempts.provider_message_ref
    reported,   \* provider_events: the keys already seen
    pending,    \* provider_events still pending_match, per message, in order
    degraded,   \* audit_integrity.state
    up,         \* the daemon process is running
    recovering, \* campaigns startup recovery has still to visit
    run,        \* the engine's local state
    now,        \* the clock
    msg,        \* ground truth: the message each attempt really made
    misjudged   \* ground truth: jobs an operator's verdict was wrong about

dbVars == <<lifecycle, complete, summary, current, trail, owner, status,
            sendAt, job, attempts, bound, reported, pending, degraded>>
vars == <<lifecycle, complete, summary, current, trail, owner, status, sendAt,
          job, attempts, bound, reported, pending, degraded, up, recovering,
          run, now, msg, misjudged>>

campaignVars == <<lifecycle, summary, trail>>
providerVars == <<reported, pending>>
processVars == <<up, recovering, run>>
truthVars == <<msg, misjudged>>

-----------------------------------------------------------------------------
Lifecycles == {"ABSENT", "DRAFT", "READY", "SCHEDULED", "SENDING", "COMPLETE",
               "CANCELLED"}
Jobs == Generations \X Endpoints
Attempt == 1..Cap
Run == [phase : {"idle", "loop", "claimed", "delivered"},
        gen : Generations \cup {None}, todo : SUBSET Endpoints,
        endpoint : Endpoints \cup {None}, attempt : 0..Cap,
        kind : RESULT_KINDS, ref : MsgRefs \cup {None}]

idleRun == [phase |-> "idle", gen |-> None, todo |-> {}, endpoint |-> None,
            attempt |-> 0, kind |-> "OUTCOME_UNKNOWN", ref |-> None]

TypeOK ==
    /\ lifecycle \in [Campaigns -> Lifecycles]
    /\ complete \in [Campaigns -> BOOLEAN]
    /\ summary \in [Campaigns -> Summaries \cup {None}]
    /\ current \in [Campaigns -> Generations \cup {None}]
    /\ trail \in [Campaigns -> [lifecycle : Lifecycles,
                                summary : Summaries \cup {None}]]
    /\ owner \in [Generations -> Campaigns \cup {None}]
    /\ status \in [Generations -> {"unused", "active", "discarded"}]
    /\ sendAt \in [Generations -> 0..MaxTime]
    /\ job \in [Generations -> [Endpoints -> JobStates \cup {"ABSENT"}]]
    /\ attempts \in [Generations -> [Endpoints -> 0..Cap]]
    /\ bound \in [Generations -> [Endpoints -> [Attempt -> MsgRefs \cup {None}]]]
    /\ reported \subseteq Transports \X MsgRefs \X PROVIDER_STATUSES
    /\ pending \in [Transports -> [MsgRefs -> Seq(PROVIDER_STATUSES)]]
    /\ degraded \in BOOLEAN
    /\ up \in BOOLEAN
    /\ recovering \subseteq Campaigns
    /\ run \in Run
    /\ now \in 0..MaxTime
    /\ msg \in [Generations -> [Endpoints -> [Attempt -> MsgRefs \cup {None}]]]
    /\ misjudged \subseteq Jobs

Init ==
    /\ lifecycle = [c \in Campaigns |-> "ABSENT"]
    /\ complete = [c \in Campaigns |-> FALSE]
    /\ summary = [c \in Campaigns |-> None]
    /\ current = [c \in Campaigns |-> None]
    /\ trail = [c \in Campaigns |-> [lifecycle |-> "ABSENT", summary |-> None]]
    /\ owner = [g \in Generations |-> None]
    /\ status = [g \in Generations |-> "unused"]
    /\ sendAt = [g \in Generations |-> 0]
    /\ job = [g \in Generations |-> [e \in Endpoints |-> "ABSENT"]]
    /\ attempts = [g \in Generations |-> [e \in Endpoints |-> 0]]
    /\ bound = [g \in Generations |-> [e \in Endpoints |-> [n \in Attempt |-> None]]]
    /\ reported = {}
    /\ pending = [t \in Transports |-> [r \in MsgRefs |-> <<>>]]
    /\ degraded = FALSE
    /\ up = TRUE
    /\ recovering = {}
    /\ run = idleRun
    /\ now = 0
    /\ msg = [g \in Generations |-> [e \in Endpoints |-> [n \in Attempt |-> None]]]
    /\ misjudged = {}

-----------------------------------------------------------------------------
(* Reading the tables.                                                     *)

\* The states of a generation's jobs, given its row of the job table.
StatesOf(jobs) == {jobs[e] : e \in {x \in Endpoints : jobs[x] # "ABSENT"}}

Idle(jobs) == \A e \in Endpoints : jobs[e] \notin ACTIVE

Attempted(counts) == \E e \in Endpoints : counts[e] > 0

\* Attempts of transport t that carry the provider's reference r.
Matches(t, r) == {m \in Generations \X Endpoints \X Attempt :
                     /\ TransportOf[m[2]] = t
                     /\ bound[m[1]][m[2]][m[3]] = r}

\* Ground truth: the messages a job has made, and the references in use.
Sent(g, e) == {n \in Attempt : msg[g][e][n] # None}
Issued(t) == {msg[m[1]][m[2]][m[3]] :
                 m \in {x \in Generations \X Endpoints \X Attempt :
                          TransportOf[x[2]] = t}} \ {None}

\* The daemon serves: recovery is over, and where one event loop runs every
\* handler the engine is not in the middle of a run.
Serving == /\ up
           /\ recovering = {}
           /\ SingleLoop => run.phase = "idle"

\* Every campaign tool is a local mutation, which refuses while degraded.
Accepting == Serving /\ ~degraded

-----------------------------------------------------------------------------
(* The transaction's tail: refresh_summary, then complete_if_idle.         *)

\* jobs and counts are the current generation's rows, lc the lifecycle, as
\* the transaction leaves them.
refresh_summary(c, jobs, counts) ==
    summary' = [summary EXCEPT ![c] = summarize(StatesOf(jobs), Attempted(counts))]

\* Mutant: a campaign completes only when every job was sent.
complete_if_sent(c, jobs, lc) ==
    lifecycle' = [lifecycle EXCEPT
                    ![c] = IF lc = "SENDING" /\ StatesOf(jobs) \subseteq SUCCESS
                           THEN "COMPLETE" ELSE lc]

complete_if_idle(c, jobs, lc) ==
    lifecycle' = [lifecycle EXCEPT
                    ![c] = IF lc = "SENDING" /\ Idle(jobs) THEN "COMPLETE" ELSE lc]

\* Mutant: a late report changes the summary of a complete campaign silently.
append_event_once(c, jobs, counts, lc) ==
    trail' = [trail EXCEPT ![c] =
         IF lc = "SENDING" /\ Idle(jobs)
         THEN [lifecycle |-> "COMPLETE",
               summary |-> summarize(StatesOf(jobs), Attempted(counts))]
         ELSE @]

\* campaign.completed carries both; campaign.summary_changed only the summary,
\* and only of a campaign that is complete already.
append_event(c, jobs, counts, lc) ==
    LET s == summarize(StatesOf(jobs), Attempted(counts))
    IN trail' = [trail EXCEPT ![c] =
         IF lc = "SENDING" /\ Idle(jobs)
         THEN [lifecycle |-> "COMPLETE", summary |-> s]
         ELSE IF lc = "COMPLETE" /\ s # summary[c]
         THEN [@ EXCEPT !.summary = s]
         ELSE @]

Settle(c, jobs, counts, lc) ==
    /\ refresh_summary(c, jobs, counts)
    /\ complete_if_idle(c, jobs, lc)
    /\ append_event(c, jobs, counts, lc)

\* Mutant: only a sending campaign is settled.
reduce_sending(g, e, s, counts) ==
    LET c == owner[g]
        jobs == [job[g] EXCEPT ![e] = s]
    IN /\ job' = [job EXCEPT ![g][e] = s]
       /\ IF s # job[g][e] /\ current[c] = g /\ lifecycle[c] = "SENDING"
          THEN Settle(c, jobs, counts, lifecycle[c])
          ELSE UNCHANGED campaignVars

\* reduce: job (g, e) moves to state s (s is its own state where the evidence
\* does not apply).  Only a change of the current generation settles.
reduce(g, e, s, counts) ==
    LET c == owner[g]
        jobs == [job[g] EXCEPT ![e] = s]
    IN /\ job' = [job EXCEPT ![g][e] = s]
       /\ IF s # job[g][e] /\ current[c] = g
          THEN Settle(c, jobs, counts, lifecycle[c])
          ELSE UNCHANGED campaignVars

\* An operation's own event, appended last: it names the final lifecycle.
Announce(c, lc) == trail' = [trail EXCEPT ![c].lifecycle = lc]

-----------------------------------------------------------------------------
(* Drafting (campaigns/drafts.py).                                         *)

Redraft(c, lc) ==
    /\ lifecycle' = [lifecycle EXCEPT ![c] = lc]
    /\ Announce(c, lc)
    /\ UNCHANGED <<summary, current, owner, status, sendAt, job, attempts,
                   bound, providerVars, degraded, processVars, now, truthVars>>

create_campaign(c) ==
    /\ Accepting
    /\ lifecycle[c] = "ABSENT"
    /\ Redraft(c, "DRAFT")
    /\ UNCHANGED complete

\* set_content and set_targets: the draft becomes complete, or stops being so.
set_draft(c) ==
    /\ Accepting
    /\ lifecycle[c] = "DRAFT"
    /\ \E b \in BOOLEAN : complete' = [complete EXCEPT ![c] = b]
    /\ Redraft(c, "DRAFT")

validate(c) ==
    /\ Accepting
    /\ lifecycle[c] = "DRAFT"
    /\ complete[c]
    /\ Redraft(c, "READY")
    /\ UNCHANGED complete

edit(c) ==
    /\ Accepting
    /\ lifecycle[c] = "READY"
    /\ Redraft(c, "DRAFT")
    /\ UNCHANGED complete

-----------------------------------------------------------------------------
(* Freezing (delivery/freeze.py).                                          *)

\* What resolve_targets and each transport's prepare make of the targets: a
\* job to send, a job skipped by platform policy, or no job.  At least one is
\* to be sent (NO_ELIGIBLE_ENDPOINTS otherwise).
Plans == {p \in [Endpoints -> {"PENDING", "SKIPPED_PLATFORM_POLICY", "ABSENT"}] :
             \E e \in Endpoints : p[e] = "PENDING"}

freeze(c, g, at, lc) ==
    /\ Accepting
    /\ lifecycle[c] = "READY"
    /\ status[g] = "unused"
    /\ \E plan \in Plans : job' = [job EXCEPT ![g] = plan]
    /\ owner' = [owner EXCEPT ![g] = c]
    /\ status' = [status EXCEPT ![g] = "active"]
    /\ sendAt' = [sendAt EXCEPT ![g] = at]
    /\ current' = [current EXCEPT ![c] = g]
    /\ summary' = [summary EXCEPT ![c] = "IN_PROGRESS"]
    /\ lifecycle' = [lifecycle EXCEPT ![c] = lc]
    /\ Announce(c, lc)
    /\ UNCHANGED <<complete, attempts, bound, providerVars, degraded,
                   processVars, now, truthVars>>

send(c, g) == freeze(c, g, now, "SENDING")

schedule(c, g, at) == freeze(c, g, at, "SCHEDULED")

\* Every PENDING job of a generation cancelled, job by job, in one transaction.
Cancelled(jobs) ==
    [e \in Endpoints |-> IF jobs[e] = "PENDING" THEN "CANCELLED" ELSE jobs[e]]

retire_scheduled(c, lc) ==
    /\ job' = [job EXCEPT ![current[c]] = Cancelled(@)]
    /\ status' = [status EXCEPT ![current[c]] = "discarded"]
    /\ current' = [current EXCEPT ![c] = None]
    /\ summary' = [summary EXCEPT ![c] = None]
    /\ lifecycle' = [lifecycle EXCEPT ![c] = lc]
    /\ Announce(c, lc)
    /\ UNCHANGED <<complete, owner, sendAt, attempts, bound, providerVars,
                   degraded, processVars, now, truthVars>>

unschedule(c) ==
    /\ Accepting
    /\ lifecycle[c] = "SCHEDULED"
    /\ retire_scheduled(c, "READY")

cancel_scheduled(c) ==
    /\ Accepting
    /\ lifecycle[c] = "SCHEDULED"
    /\ retire_scheduled(c, "CANCELLED")

cancel_draft(c) ==
    /\ Accepting
    /\ lifecycle[c] \in {"DRAFT", "READY"}
    /\ Redraft(c, "CANCELLED")
    /\ UNCHANGED complete

-----------------------------------------------------------------------------
(* Operations on a sending campaign (delivery/operations.py).              *)

\* The current generation's jobs change together; the operation's own event
\* follows whatever settling appended, so the trail's lifecycle is the final
\* one either way.
Operate(c, jobs, lc) ==
    LET g == current[c]
        final == IF lc = "SENDING" /\ Idle(jobs) THEN "COMPLETE" ELSE lc
    IN /\ job' = [job EXCEPT ![g] = jobs]
       /\ IF jobs # job[g]
          THEN /\ refresh_summary(c, jobs, attempts[g])
               /\ complete_if_idle(c, jobs, lc)
               /\ trail' = [trail EXCEPT ![c] =
                     [lifecycle |-> final,
                      summary |-> IF final = "COMPLETE" THEN summary'[c]
                                  ELSE @.summary]]
          ELSE /\ UNCHANGED <<summary, lifecycle>>
               /\ Announce(c, lc)
       /\ UNCHANGED <<complete, current, owner, status, sendAt, attempts,
                      bound, providerVars, degraded, processVars, now, truthVars>>

cancel_sending(c) ==
    /\ Accepting
    /\ lifecycle[c] = "SENDING"
    /\ Operate(c, Cancelled(job[current[c]]), "SENDING")

Retried(jobs, counts) ==
    [e \in Endpoints |-> IF RetryApplies(jobs[e], counts[e], Cap)
                         THEN "PENDING" ELSE jobs[e]]

\* A complete campaign goes back to SENDING when any job can be retried.
retry_failed(c) ==
    /\ Accepting
    /\ lifecycle[c] \in {"SENDING", "COMPLETE"}
    /\ LET g == current[c]
           jobs == Retried(job[g], attempts[g])
       IN Operate(c, jobs, IF jobs # job[g] THEN "SENDING" ELSE lifecycle[c])

\* An operator's statement about an OUTCOME_UNKNOWN job.  The operator looks
\* at the chat and may be wrong; the model notes the mistake.
resolve_outcome(g, e, sent) ==
    /\ Accepting
    /\ job[g][e] = "OUTCOME_UNKNOWN"
    /\ reduce(g, e, IF sent THEN "ACCEPTED" ELSE "FAILED_TRANSIENT", attempts[g])
    /\ misjudged' = IF sent = (Sent(g, e) # {}) THEN misjudged
                    ELSE misjudged \cup {<<g, e>>}
    /\ UNCHANGED <<complete, current, owner, status, sendAt, attempts, bound,
                   providerVars, degraded, processVars, now, msg>>

-----------------------------------------------------------------------------
(* Provider reports (operations.apply_provider_update and                  *)
(* reducer.bind_provider_ref).  A report is known by its message and its   *)
(* status (webhooks/normalize.py builds the event reference from both), so *)
(* a redelivered one is a duplicate and changes nothing.                   *)

provider_update(t, r, s) ==
    /\ Serving
    /\ t \in Reporting
    /\ r \in Issued(t)
    /\ <<t, r, s>> \notin reported
    /\ reported' = reported \cup {<<t, r, s>>}
    /\ \/ /\ Matches(t, r) = {}
          /\ pending' = [pending EXCEPT ![t][r] = Append(@, s)]
          /\ UNCHANGED <<job, campaignVars>>
       \/ /\ \E m1, m2 \in Matches(t, r) : m1 # m2  \* AMBIGUOUS_MATCH
          /\ UNCHANGED <<pending, job, campaignVars>>
       \/ \E g \in Generations, e \in Endpoints, n \in Attempt :
             /\ Matches(t, r) = {<<g, e, n>>}
             /\ reduce(g, e, AfterProvider(job[g][e], s, n = attempts[g][e]),
                       attempts[g])
             /\ UNCHANGED pending
    /\ UNCHANGED <<complete, current, owner, status, sendAt, attempts, bound,
                   degraded, processVars, now, truthVars>>

\* The states a job passes through while the reports q are replayed on it, in
\* arrival order; exactly one such sequence exists.
Replays(s, q, isCurrent) ==
    {st \in [0..Len(q) -> {s} \cup PROVIDER_STATUSES] :
        /\ st[0] = s
        /\ \A i \in 1..Len(q) : st[i] = AfterProvider(st[i-1], q[i], isCurrent)}

\* Mutant: binding forgets the reports that waited.
bind_without_replay(g, e, n, r, s) ==
    /\ bound' = [bound EXCEPT ![g][e][n] = r]
    /\ reduce(g, e, s, attempts[g])
    /\ UNCHANGED pending

\* Bind r to attempt n of a job in state s, and replay the reports that waited
\* for it: on the job when it is the only match, refused otherwise.
bind_provider_ref(g, e, n, r, s) ==
    LET t == TransportOf[e]
        alone == Matches(t, r) = {}
    IN /\ bound' = [bound EXCEPT ![g][e][n] = r]
       /\ pending' = [pending EXCEPT ![t][r] = <<>>]
       /\ \E st \in Replays(s, IF alone THEN pending[t][r] ELSE <<>>,
                            n = attempts[g][e]) :
             reduce(g, e, st[IF alone THEN Len(pending[t][r]) ELSE 0], attempts[g])

\* user/send.py: a late updateMessageID names the message an MTProto send made;
\* it is bound to the job's latest attempt, unless that has its reference.
\* The update is posted to the daemon's loop, so it never falls inside a run.
correlate_message_id(g, e, r) ==
    /\ Serving
    /\ TransportOf[e] \in Keyed
    /\ r \in {msg[g][e][n] : n \in Sent(g, e)}
    /\ LET n == attempts[g][e]
       IN /\ bound[g][e][n] = None
          /\ bind_provider_ref(g, e, n, r, job[g][e])
    /\ UNCHANGED <<complete, current, owner, status, sendAt, attempts,
                   reported, degraded, processVars, now, truthVars>>

-----------------------------------------------------------------------------
(* The engine (delivery/engine.py) and the scheduler (scheduling.py).      *)

\* The engine's local state as execute starts: the pending jobs of the current
\* generation are listed once.
Listing(c) ==
    [idleRun EXCEPT !.phase = "loop", !.gen = current[c],
                    !.todo = {e \in Endpoints : job[current[c]][e] = "PENDING"}]

execute(c) ==
    /\ Serving
    /\ run.phase = "idle"
    /\ ~degraded
    /\ lifecycle[c] = "SENDING"
    /\ current[c] # None
    /\ Listing(c).todo # {}
    /\ run' = Listing(c)
    /\ UNCHANGED <<dbVars, up, recovering, now, truthVars>>

\* Mutant: the scheduler does not look at the clock.
run_early(c) ==
    /\ Serving
    /\ run.phase = "idle"
    /\ ~degraded
    /\ lifecycle[c] = "SCHEDULED"
    /\ current[c] # None
    /\ lifecycle' = [lifecycle EXCEPT ![c] = "SENDING"]
    /\ Announce(c, "SENDING")
    /\ run' = Listing(c)
    /\ UNCHANGED <<complete, summary, current, owner, status, sendAt, job,
                   attempts, bound, providerVars, degraded, up, recovering, now,
                   truthVars>>

\* run_due: a scheduled campaign whose time has come starts sending, and its
\* execution follows at once.
run_due(c) ==
    /\ Serving
    /\ run.phase = "idle"
    /\ ~degraded
    /\ lifecycle[c] = "SCHEDULED"
    /\ current[c] # None
    /\ status[current[c]] = "active"
    /\ sendAt[current[c]] <= now
    /\ lifecycle' = [lifecycle EXCEPT ![c] = "SENDING"]
    /\ Announce(c, "SENDING")
    /\ run' = Listing(c)
    /\ UNCHANGED <<complete, summary, current, owner, status, sendAt, job,
                   attempts, bound, providerVars, degraded, up, recovering, now,
                   truthVars>>

\* The compare-and-set of a claim: its campaign still sends this generation
\* and the audit trail is intact.
Claimable(g, e) ==
    /\ job[g][e] = "PENDING"
    /\ lifecycle[owner[g]] = "SENDING"
    /\ current[owner[g]] = g
    /\ ~degraded

Counted(g, e) == [attempts EXCEPT ![g][e] = @ + 1]

claim(e) ==
    LET g == run.gen
    IN /\ up
       /\ run.phase = "loop"
       /\ e \in run.todo
       /\ Claimable(g, e)
       /\ attempts' = Counted(g, e)
       /\ reduce(g, e, "IN_FLIGHT", Counted(g, e)[g])
       /\ run' = [run EXCEPT !.phase = "claimed", !.todo = @ \ {e},
                             !.endpoint = e, !.attempt = attempts[g][e] + 1]
       /\ UNCHANGED <<complete, current, owner, status, sendAt, bound,
                      providerVars, degraded, up, recovering, now, truthVars>>

\* A keyed transport whose request key another job holds: claimed, then failed
\* in the same transaction, and never sent.
claim_collision(e) ==
    LET g == run.gen
    IN /\ up
       /\ run.phase = "loop"
       /\ e \in run.todo
       /\ TransportOf[e] \in Keyed
       /\ Claimable(g, e)
       /\ attempts' = Counted(g, e)
       /\ reduce(g, e, "FAILED_PERMANENT", Counted(g, e)[g])
       /\ run' = [run EXCEPT !.todo = @ \ {e}]
       /\ UNCHANGED <<complete, current, owner, status, sendAt, bound,
                      providerVars, degraded, up, recovering, now, truthVars>>

\* No origin path is valid any more, or the transport says the payload is not:
\* skipped.  The directory is not part of this module, so any job may be.
skip_revalidation(e) ==
    LET g == run.gen
    IN /\ up
       /\ run.phase = "loop"
       /\ e \in run.todo
       /\ job[g][e] = "PENDING"
       /\ reduce(g, e, "SKIPPED_REVALIDATION", attempts[g])
       /\ run' = [run EXCEPT !.todo = @ \ {e}]
       /\ UNCHANGED <<complete, current, owner, status, sendAt, attempts, bound,
                      providerVars, degraded, up, recovering, now, truthVars>>

\* The job was taken from under the run, or the claim's compare-and-set fails.
pass_over(e) ==
    /\ up
    /\ run.phase = "loop"
    /\ e \in run.todo
    /\ ~Claimable(run.gen, e)
    /\ run' = [run EXCEPT !.todo = @ \ {e}]
    /\ UNCHANGED <<dbVars, up, recovering, now, truthVars>>

\* The provider call, with no transaction open.  A result is ACCEPTED or
\* DELIVERED only when the message exists, FAILED_* only when this call made
\* none, OUTCOME_UNKNOWN either way (an exception included).  A keyed provider
\* makes no second message for a job: it answers with a duplicate.
deliver ==
    LET g == run.gen
        e == run.endpoint
        t == TransportOf[e]
        repeat == t \in Keyed /\ Sent(g, e) # {}
        Answer(k, r) == run' = [run EXCEPT !.phase = "delivered",
                                           !.kind = k, !.ref = r]
    IN /\ up
       /\ run.phase = "claimed"
       /\ \/ /\ ~repeat
             /\ \E r \in MsgRefs :
                   /\ RefReuse \/ r \notin Issued(t)
                   /\ msg' = [msg EXCEPT ![g][e][run.attempt] = r]
                   /\ \/ \E k \in SUCCESS, a \in {r, None} : Answer(k, a)
                      \/ Answer("OUTCOME_UNKNOWN", None)
          \/ /\ \E k \in RESULT_KINDS \ SUCCESS : Answer(k, None)
             /\ UNCHANGED msg
          \/ /\ repeat
             /\ Answer("ACCEPTED", None)
             /\ UNCHANGED msg
       /\ UNCHANGED <<dbVars, up, recovering, now, misjudged>>

\* The second transaction: the result, then the provider's reference.
record ==
    LET g == run.gen
        e == run.endpoint
        n == run.attempt
        s == AfterResult(job[g][e], run.kind, n = attempts[g][e])
    IN /\ up
       /\ run.phase = "delivered"
       /\ \/ /\ run.ref = None
             /\ reduce(g, e, s, attempts[g])
             /\ UNCHANGED <<bound, pending>>
          \/ /\ run.ref # None
             /\ bound[g][e][n] = None
             /\ bind_provider_ref(g, e, n, run.ref, s)
       /\ run' = [run EXCEPT !.phase = "loop", !.endpoint = None, !.attempt = 0,
                             !.kind = "OUTCOME_UNKNOWN", !.ref = None]
       /\ UNCHANGED <<complete, current, owner, status, sendAt, attempts,
                      reported, degraded, up, recovering, now, truthVars>>

\* The attempt has a reference already: the transaction raises and is rolled
\* back, the run ends, and the worker latches the integrity state.
record_refused ==
    /\ up
    /\ run.phase = "delivered"
    /\ run.ref # None
    /\ bound[run.gen][run.endpoint][run.attempt] # None
    /\ run' = idleRun
    /\ degraded' = TRUE
    /\ UNCHANGED <<lifecycle, complete, summary, current, trail, owner, status,
                   sendAt, job, attempts, bound, providerVars, up, recovering,
                   now, truthVars>>

\* Any exception while a job is revalidated or claimed propagates out of the
\* run; the worker latches the integrity state.
run_failed ==
    /\ up
    /\ run.phase = "loop"
    /\ run.todo # {}
    /\ run' = idleRun
    /\ degraded' = TRUE
    /\ UNCHANGED <<lifecycle, complete, summary, current, trail, owner, status,
                   sendAt, job, attempts, bound, providerVars, up, recovering,
                   now, truthVars>>

end_run ==
    /\ up
    /\ run.phase = "loop"
    /\ run.todo = {}
    /\ run' = idleRun
    /\ UNCHANGED <<dbVars, up, recovering, now, truthVars>>

-----------------------------------------------------------------------------
(* Crash and startup recovery (delivery/recovery.py).                      *)

crash ==
    /\ up
    /\ up' = FALSE
    /\ recovering' = {}
    /\ run' = idleRun
    /\ UNCHANGED <<dbVars, now, truthVars>>

\* Mutant: recovery lists only the campaigns that still have a job to send.
restart_without_recovery ==
    /\ ~up
    /\ up' = TRUE
    /\ recovering' = {c \in Campaigns :
          \E g \in Generations, e \in Endpoints :
             owner[g] = c /\ job[g][e] = "PENDING"}
    /\ UNCHANGED <<dbVars, run, now, truthVars>>

\* The daemon starts; recovery lists the campaigns it must visit.
restart ==
    /\ ~up
    /\ up' = TRUE
    /\ recovering' = {c \in Campaigns :
          \/ lifecycle[c] = "SENDING"
          \/ \E g \in Generations, e \in Endpoints :
                owner[g] = c /\ job[g][e] = "IN_FLIGHT"}
    /\ UNCHANGED <<dbVars, run, now, truthVars>>

\* Mutant: recovery queues an interrupted job again.
RecoveredPending(jobs) ==
    [e \in Endpoints |-> IF jobs[e] = "IN_FLIGHT" THEN "PENDING" ELSE jobs[e]]

\* Every IN_FLIGHT job of the campaign becomes OUTCOME_UNKNOWN, whatever its
\* generation; then the summary and the lifecycle are settled.
Recovered(jobs) ==
    [e \in Endpoints |-> IF jobs[e] = "IN_FLIGHT" THEN "OUTCOME_UNKNOWN"
                         ELSE jobs[e]]

recover(c) ==
    LET g == current[c]
        jobs == [h \in Generations |-> IF owner[h] = c THEN Recovered(job[h])
                                       ELSE job[h]]
    IN /\ up
       /\ c \in recovering
       /\ recovering' = recovering \ {c}
       /\ job' = jobs
       /\ IF g # None /\ (lifecycle[c] = "SENDING" \/ jobs[g] # job[g])
          THEN Settle(c, jobs[g], attempts[g], lifecycle[c])
          ELSE UNCHANGED campaignVars
       /\ UNCHANGED <<complete, current, owner, status, sendAt, attempts, bound,
                      providerVars, degraded, up, run, now, truthVars>>

-----------------------------------------------------------------------------
(* The integrity latch and the clock.                                      *)

\* Any failure to anchor the audit chain, and any worker exception outside the
\* recoverable ones, sets the latch; only an audit repair clears it.
latch_degraded ==
    /\ Serving
    /\ ~degraded
    /\ degraded' = TRUE
    /\ UNCHANGED <<lifecycle, complete, summary, current, trail, owner, status,
                   sendAt, job, attempts, bound, providerVars, processVars,
                   now, truthVars>>

clear_degraded ==
    /\ Serving
    /\ degraded
    /\ degraded' = FALSE
    /\ UNCHANGED <<lifecycle, complete, summary, current, trail, owner, status,
                   sendAt, job, attempts, bound, providerVars, processVars,
                   now, truthVars>>

tick ==
    /\ now < MaxTime
    /\ now' = now + 1
    /\ UNCHANGED <<dbVars, processVars, truthVars>>

-----------------------------------------------------------------------------
Draft(c) == create_campaign(c) \/ set_draft(c) \/ validate(c) \/ edit(c)
            \/ cancel_draft(c)

Freeze(c) == \/ \E g \in Generations : send(c, g)
             \/ \E g \in Generations, at \in 0..MaxTime : schedule(c, g, at)
             \/ unschedule(c)
             \/ cancel_scheduled(c)

Operator(c) == cancel_sending(c) \/ retry_failed(c)

Verdict == \E g \in Generations, e \in Endpoints, sent \in BOOLEAN :
              resolve_outcome(g, e, sent)

Provider == \/ \E t \in Transports, r \in MsgRefs, s \in PROVIDER_STATUSES :
                  provider_update(t, r, s)
            \/ \E g \in Generations, e \in Endpoints, r \in MsgRefs :
                  correlate_message_id(g, e, r)

EngineStep == \/ \E e \in Endpoints :
                    \/ claim(e) \/ claim_collision(e)
                    \/ skip_revalidation(e) \/ pass_over(e)
              \/ deliver \/ record \/ record_refused \/ run_failed \/ end_run

Host == \/ crash \/ restart \/ \E c \in Campaigns : recover(c)
        \/ latch_degraded \/ clear_degraded \/ tick

Next == \/ \E c \in Campaigns :
              Draft(c) \/ Freeze(c) \/ Operator(c) \/ run_due(c) \/ execute(c)
        \/ Verdict \/ Provider \/ EngineStep \/ Host

Spec == Init /\ [][Next]_vars

-----------------------------------------------------------------------------
(* Safety.                                                                 *)

UNSENT == {"ABSENT", "PENDING", "FAILED_TRANSIENT", "CANCELLED",
           "SKIPPED_PLATFORM_POLICY", "SKIPPED_REVALIDATION"}

\* The claims a record makes that a message does not exist are true, unless
\* an operator's verdict was wrong: a job that is waiting, retryable, skipped
\* or cancelled has sent nothing (engine.py claims before it calls, and only
\* a provably unsent attempt is FAILED_TRANSIENT).
UnsentClaimsAreTrue ==
    \A g \in Generations, e \in Endpoints :
        /\ job[g][e] \in UNSENT
        /\ <<g, e>> \notin misjudged
        => Sent(g, e) = {}

\* No identity is sent the same generation twice.  Only an operator who says
\* "not sent" of a message that exists can cause it, and on a transport with
\* request keys not even he can.
NoDuplicateMessage ==
    \A g \in Generations, e \in Endpoints :
        <<g, e>> \notin misjudged \/ TransportOf[e] \in Keyed
        => \A m, n \in Sent(g, e) : m = n

\* A job recorded as a success has a message, unless an operator's verdict was
\* wrong: no report is applied to a job it is not about.
NoPhantomSuccess ==
    \A g \in Generations, e \in Endpoints :
        job[g][e] \in SUCCESS /\ <<g, e>> \notin misjudged => Sent(g, e) # {}

\* The stored summary is what the job table adds up to after every commit, a
\* campaign is complete exactly when none of its jobs is active, and it has a
\* generation exactly when it was frozen (refresh_summary, complete_if_idle).
SummaryIsDerived ==
    \A c \in Campaigns :
        LET g == current[c]
        IN IF lifecycle[c] \in {"SCHEDULED", "SENDING", "COMPLETE"}
           THEN /\ g # None
                /\ owner[g] = c
                /\ summary[c] = summarize(StatesOf(job[g]), Attempted(attempts[g]))
                /\ (lifecycle[c] = "COMPLETE") = Idle(job[g])
           ELSE g = None /\ summary[c] = None

\* The campaign's events are a faithful trail: their last lifecycle is the
\* stored one, and once the campaign is complete so is their last summary.
TrailIsFaithful ==
    \A c \in Campaigns :
        /\ trail[c].lifecycle = lifecycle[c]
        /\ lifecycle[c] = "COMPLETE" => trail[c].summary = summary[c]

\* A report never waits for a reference that is bound: binding replays what
\* waited, and a later report finds the binding (the pending_match race).
NoReportLeftWaiting ==
    \A t \in Transports, r \in MsgRefs :
        pending[t][r] # <<>> => Matches(t, r) = {}

\* A discarded generation, and one whose time has not come, never did and does
\* nothing: no attempt, no message, no active job once discarded.
NothingBeforeItsTime ==
    \A g \in Generations :
        status[g] = "discarded" \/ now < sendAt[g] \/ status[g] = "unused"
        => \A e \in Endpoints :
              /\ attempts[g][e] = 0
              /\ Sent(g, e) = {}
              /\ status[g] = "discarded" => job[g][e] \notin ACTIVE

\* An in-flight job is one the running engine holds, or one that startup
\* recovery is still to visit: none is forgotten.
NoOrphanInFlight ==
    \A g \in Generations, e \in Endpoints :
        job[g][e] = "IN_FLIGHT" /\ up =>
            \/ owner[g] \in recovering
            \/ /\ run.gen = g
               /\ run.endpoint = e
               /\ run.phase \in {"claimed", "delivered"}

-----------------------------------------------------------------------------
(* The inductive invariant behind UnsentClaimsAreTrue and                  *)
(* NoDuplicateMessage.  Both are about a job's messages; neither survives  *)
(* a step by itself, because the engine carries a job across two           *)
(* transactions in its local state.                                        *)

\* What a run in progress holds: outside its two transactions the claimed job
\* can only have been moved by a provider's report.
RunHoldsItsJob ==
    /\ run.phase # "idle" => run.gen \in Generations
    /\ run.phase \in {"claimed", "delivered"} =>
          /\ run.endpoint \in Endpoints
          /\ run.attempt \in Attempt
          /\ run.attempt = attempts[run.gen][run.endpoint]
          /\ job[run.gen][run.endpoint] \in {"IN_FLIGHT"} \cup PROVIDER_STATUSES

\* Until its result is recorded a claimed job has sent nothing before this
\* attempt, and a transient failure means it has sent nothing at all.
NothingSentYet ==
    /\ \/ run.phase = "claimed"
       \/ run.phase = "delivered" /\ run.kind = "FAILED_TRANSIENT"
    /\ <<run.gen, run.endpoint>> \notin misjudged
    => Sent(run.gen, run.endpoint) = {}

\* No run survives a crash, and none starts before recovery is over.
RunAfterRecovery == ~up \/ recovering # {} => run.phase = "idle"

\* A pending job may make one more attempt; a generation that was never frozen
\* has no jobs, no attempts and no messages.
AttemptsLeft ==
    \A g \in Generations, e \in Endpoints :
        /\ job[g][e] = "PENDING" => attempts[g][e] < Cap
        /\ status[g] = "unused" =>
              job[g][e] = "ABSENT" /\ attempts[g][e] = 0 /\ Sent(g, e) = {}

DeliveryInvariant ==
    /\ TypeOK
    /\ RunHoldsItsJob
    /\ NothingSentYet
    /\ RunAfterRecovery
    /\ AttemptsLeft
    /\ UnsentClaimsAreTrue
    /\ NoDuplicateMessage

-----------------------------------------------------------------------------
(* The inductive invariant behind the properties that relate the campaign  *)
(* rows, the job table and what was really sent.  A generation starts when *)
(* its campaign starts sending it; until then nothing of it has happened,  *)
(* and once started it stays its campaign's current one.                   *)

Started(g) ==
    /\ owner[g] \in Campaigns
    /\ current[owner[g]] = g
    /\ lifecycle[owner[g]] \in {"SENDING", "COMPLETE"}

\* The current generation is its campaign's own and in force.
CurrentIsOwned ==
    \A c \in Campaigns :
        current[c] # None => owner[current[c]] = c /\ status[current[c]] = "active"

StartedInTime == \A g \in Generations : Started(g) => sendAt[g] <= now

\* Before its start a generation has no attempt, message or reference, and
\* its jobs are as the freeze, or the withdrawal of it, left them.
NothingBeforeStart ==
    \A g \in Generations, e \in Endpoints : ~Started(g) =>
        /\ attempts[g][e] = 0
        /\ Sent(g, e) = {}
        /\ \A n \in Attempt : bound[g][e][n] = None
        /\ job[g][e] \in {"ABSENT", "PENDING", "SKIPPED_PLATFORM_POLICY", "CANCELLED"}
        /\ status[g] = "discarded" => job[g][e] # "PENDING"

RunHasStarted == run.phase # "idle" => Started(run.gen)

\* A reference is bound only to an attempt that was made, of a job that has a
\* message; and the engine carries a success, or a reference, only of one.
EvidenceIsReal ==
    /\ \A g \in Generations, e \in Endpoints, n \in Attempt :
          bound[g][e][n] # None => n <= attempts[g][e] /\ Sent(g, e) # {}
    /\ run.phase = "delivered" /\ (run.kind \in SUCCESS \/ run.ref # None) =>
          Sent(run.gen, run.endpoint) # {}

\* Where one event loop runs every handler, nobody binds a reference to the
\* attempt a run is making.
NothingBoundInARun ==
    SingleLoop /\ run.phase \in {"claimed", "delivered"} =>
        bound[run.gen][run.endpoint][run.attempt] = None

RecordsInvariant ==
    /\ CurrentIsOwned
    /\ StartedInTime
    /\ NothingBeforeStart
    /\ RunHasStarted
    /\ EvidenceIsReal
    /\ NothingBoundInARun
    /\ SummaryIsDerived

-----------------------------------------------------------------------------
(* Action properties.                                                      *)

NAMED_DESCENTS == {<<"FAILED_TRANSIENT", "PENDING">>,
                   <<"ACCEPTED", "FAILED_PERMANENT">>}

\* May a job in state s be in state z after one step?
Climbs(s, z) ==
    s # z /\ s # "ABSENT" =>
        /\ s \notin TERMINAL
        /\ \/ <<s, z>> \in NAMED_DESCENTS
           \/ z \in TERMINAL /\ s \notin SUCCESS
           \/ z \in RankedStates /\ RANK[z] >= RANK[s]

Climb == \A g \in Generations, e \in Endpoints : Climbs(job[g][e], job'[g][e])

\* A job only climbs: a terminal state is final, a rank is never lowered and a
\* success never left, except by the two named descents.
JobsOnlyClimb == [][Climb]_job

-----------------------------------------------------------------------------
(* Liveness.  The deliver and schedule workers visit every campaign each   *)
(* period, so a campaign that keeps becoming runnable is run; a provider   *)
(* call ends, by answer or by deadline; recovery runs before anything else *)
(* is served.  Operators, providers, crashes and repairs owe nothing.      *)

Fairness ==
    /\ WF_vars(EngineStep)
    /\ \A c \in Campaigns : /\ SF_vars(execute(c))
                            /\ SF_vars(run_due(c))
                            /\ WF_vars(recover(c))

FairSpec == Spec /\ Fairness

\* If the daemon finally stays up with its audit trail intact, a campaign that
\* is sending, or scheduled and due, comes to rest: complete, or withdrawn by
\* the operator before it started.
DueCampaignsSettle ==
    <>[](up /\ ~degraded) =>
        \A c \in Campaigns :
            \/ lifecycle[c] = "SENDING"
            \/ lifecycle[c] = "SCHEDULED" /\ sendAt[current[c]] <= now
            ~> lifecycle[c] \in {"COMPLETE", "READY", "CANCELLED"}
=============================================================================
