--------------------------- MODULE DeliveryProofs ---------------------------
(***************************************************************************)
(* Proofs about Delivery.                                                  *)
(*                                                                         *)
(* First, type correctness, and that a record which claims "not sent" is   *)
(* true and no identity is messaged twice.  DeliveryInvariant is           *)
(* inductive.  Actions fall in two groups: those that leave the engine's   *)
(* run alone, whose job changes all satisfy OutsideMove (lemma Outside),   *)
(* and the engine's own steps, proved one by one.                          *)
(*                                                                         *)
(* Then, what the campaign rows, the event trail and the job table say of  *)
(* each other and of what was really sent.  RecordsInvariant is inductive, *)
(* given DeliveryInvariant.  Every step is one of a few shapes (lemma      *)
(* Shapes): it redrafts, freezes, withdraws, operates on, reduces one job  *)
(* of, recovers or starts a campaign, or it leaves the campaign rows and   *)
(* the job table alone.                                                    *)
(***************************************************************************)
EXTENDS Delivery, WellFoundedInduction, TLAPS

-----------------------------------------------------------------------------
(* The pure operators.                                                     *)

\* A summary is always one of the six.
LEMMA SummarizeType ==
    ASSUME NEW S, NEW a PROVE summarize(S, a) \in Summaries
  BY DEF summarize, Summaries

\* Replaying reports leaves the state or ends in a reported status, however
\* many reports waited.
LEMMA ReplayCases ==
    ASSUME NEW s, NEW q, NEW b, NEW st \in Replays(s, q, b), NEW i \in 0..Len(q)
    PROVE  st[i] = s \/ st[i] \in PROVIDER_STATUSES
  BY DEF Replays

-----------------------------------------------------------------------------
(* The transaction's tail keeps the campaign rows typed.                   *)

CampaignTyped ==
    /\ lifecycle \in [Campaigns -> Lifecycles]
    /\ summary \in [Campaigns -> Summaries \cup {None}]
    /\ trail \in [Campaigns -> [lifecycle : Lifecycles,
                                summary : Summaries \cup {None}]]

\* Settling writes one campaign's row and trail, with values of their types.
LEMMA SettleTyped ==
    ASSUME CampaignTyped, NEW c, NEW jobs, NEW counts, NEW lc,
           c \in Campaigns => lc \in Lifecycles,
           Settle(c, jobs, counts, lc)
    PROVE  CampaignTyped'
  <1> DEFINE s == summarize(StatesOf(jobs), Attempted(counts))
  <1>1. s \in Summaries
    BY SummarizeType
  <1>2. "COMPLETE" \in Lifecycles
    BY DEF Lifecycles
  <1> HIDE DEF s
  <1>3. summary' = [summary EXCEPT ![c] = s]
    BY DEF Settle, refresh_summary, s
  <1>4. lifecycle' \in [Campaigns -> Lifecycles]
    BY <1>2 DEF Settle, complete_if_idle, CampaignTyped
  <1>5. trail' = [trail EXCEPT ![c] =
           IF lc = "SENDING" /\ Idle(jobs)
           THEN [lifecycle |-> "COMPLETE", summary |-> s]
           ELSE IF lc = "COMPLETE" /\ s # summary[c]
           THEN [@ EXCEPT !.summary = s]
           ELSE @]
    BY DEF Settle, append_event, s
  <1>6. trail' \in [Campaigns -> [lifecycle : Lifecycles,
                                  summary : Summaries \cup {None}]]
    BY <1>1, <1>2, <1>5 DEF CampaignTyped
  <1> QED
    BY <1>1, <1>3, <1>4, <1>6 DEF CampaignTyped

\* An announcement rewrites only the lifecycle of one trail entry.
LEMMA AnnounceTyped ==
    ASSUME trail \in [Campaigns -> [lifecycle : Lifecycles,
                                    summary : Summaries \cup {None}]],
           NEW c, NEW lc \in Lifecycles, Announce(c, lc)
    PROVE  trail' \in [Campaigns -> [lifecycle : Lifecycles,
                                     summary : Summaries \cup {None}]]
  BY DEF Announce

\* reduce keeps the campaign rows and the job table typed.
LEMMA ReduceTyped ==
    ASSUME CampaignTyped,
           job \in [Generations -> [Endpoints -> JobStates \cup {"ABSENT"}]],
           NEW g \in Generations, NEW e \in Endpoints, NEW counts,
           NEW s \in JobStates \cup {"ABSENT"}, reduce(g, e, s, counts)
    PROVE  /\ CampaignTyped'
           /\ job' \in [Generations -> [Endpoints -> JobStates \cup {"ABSENT"}]]
           /\ job' = [job EXCEPT ![g][e] = s]
  <1>1. job' = [job EXCEPT ![g][e] = s]
    BY DEF reduce
  <1>2. owner[g] \in Campaigns => lifecycle[owner[g]] \in Lifecycles
    BY DEF CampaignTyped
  <1>3. CampaignTyped'
    <2>1. CASE s # job[g][e] /\ current[owner[g]] = g
      <3>1. Settle(owner[g], [job[g] EXCEPT ![e] = s], counts, lifecycle[owner[g]])
        BY <2>1 DEF reduce
      <3> QED BY <3>1, <1>2, SettleTyped
    <2>2. CASE ~(s # job[g][e] /\ current[owner[g]] = g)
      BY <2>2 DEF reduce, campaignVars, CampaignTyped
    <2> QED BY <2>1, <2>2
  <1> QED BY <1>1, <1>3

-----------------------------------------------------------------------------
(* Steps outside a delivery: everything but claiming a job and calling the *)
(* provider for it.                                                        *)

JobTable == [Generations -> [Endpoints -> JobStates \cup {"ABSENT"}]]

\* The run holds no job after the step.
Released == run'.phase \in {"idle", "loop"}

\* The ways such a step may move a job.
OutsideMove(g, e) ==
    LET s == job[g][e]
        z == job'[g][e]
    IN \/ z = s
       \/ z \in PROVIDER_STATUSES
       \/ /\ s \in UNSENT
          /\ z \in UNSENT
          /\ z = "PENDING" => attempts[g][e] < Cap
       \/ /\ s = "OUTCOME_UNKNOWN" \/ Released
          /\ \/ z = "OUTCOME_UNKNOWN"
             \/ /\ z = "FAILED_TRANSIENT"
                /\ Sent(g, e) = {} \/ <<g, e>> \in misjudged'

\* A step that makes no message and no attempt, moves jobs only that way and
\* takes up no job keeps the invariant.
LEMMA Outside ==
    ASSUME DeliveryInvariant,
           \A g \in Generations, e \in Endpoints : OutsideMove(g, e),
           \A g \in Generations : status'[g] = "unused" =>
              status[g] = "unused" /\ job'[g] = job[g],
           attempts' = attempts, msg' = msg, misjudged \subseteq misjudged',
           run' = run \/ Released, run'.phase # "idle" => run'.gen \in Generations,
           RunAfterRecovery'
    PROVE  /\ RunHoldsItsJob'
           /\ NothingSentYet'
           /\ AttemptsLeft'
           /\ UnsentClaimsAreTrue'
           /\ NoDuplicateMessage'
  <1> USE DEF DeliveryInvariant
  <1>1. \A g \in Generations, e \in Endpoints : Sent(g, e)' = Sent(g, e)
    BY DEF Sent
  <1>2. RunHoldsItsJob'
    <2>1. CASE Released
      BY <2>1 DEF RunHoldsItsJob, Released
    <2>2. CASE run' = run /\ run.phase \in {"claimed", "delivered"} /\ ~Released
      <3>1. OutsideMove(run.gen, run.endpoint)
        BY <2>2 DEF RunHoldsItsJob
      <3>2. job[run.gen][run.endpoint] \in {"IN_FLIGHT"} \cup PROVIDER_STATUSES
        BY <2>2 DEF RunHoldsItsJob
      <3>3. job'[run.gen][run.endpoint] \in {"IN_FLIGHT"} \cup PROVIDER_STATUSES
        BY <2>2, <3>1, <3>2 DEF OutsideMove, UNSENT, PROVIDER_STATUSES
      <3> QED
        BY <2>2, <3>3 DEF RunHoldsItsJob
    <2>3. run' = run /\ ~Released => run.phase \in {"claimed", "delivered"}
      BY DEF Released, TypeOK, Run
    <2> QED
      BY <2>1, <2>2, <2>3
  <1>3. NothingSentYet'
    <2>1. CASE Released
      BY <2>1 DEF NothingSentYet, Released
    <2>2. CASE run' = run /\ ~Released
      <3>1. run.phase \in {"claimed", "delivered"}
        BY <2>2 DEF Released, TypeOK, Run
      <3>2. run.gen \in Generations /\ run.endpoint \in Endpoints
        BY <3>1 DEF RunHoldsItsJob
      <3> QED
        BY <1>1, <2>2, <3>2 DEF NothingSentYet
    <2> QED
      BY <2>1, <2>2
  <1>4. AttemptsLeft'
    <2> SUFFICES ASSUME NEW g \in Generations, NEW e \in Endpoints
                 PROVE  /\ job'[g][e] = "PENDING" => attempts'[g][e] < Cap
                        /\ status'[g] = "unused" => /\ job'[g][e] = "ABSENT"
                                                    /\ attempts'[g][e] = 0
                                                    /\ Sent(g, e)' = {}
      BY DEF AttemptsLeft
    <2>1. job'[g][e] = "PENDING" => attempts[g][e] < Cap
      BY ZenonT(60) DEF OutsideMove, AttemptsLeft, PROVIDER_STATUSES
    <2> QED
      BY <1>1, <2>1 DEF AttemptsLeft
  <1>5. UnsentClaimsAreTrue'
    <2> SUFFICES ASSUME NEW g \in Generations, NEW e \in Endpoints,
                        job'[g][e] \in UNSENT, <<g, e>> \notin misjudged'
                 PROVE  Sent(g, e) = {}
      BY <1>1 DEF UnsentClaimsAreTrue
    <2>1. OutsideMove(g, e)
      OBVIOUS
    <2>2. <<g, e>> \notin misjudged
      OBVIOUS
    <2>3. job[g][e] \in UNSENT \/ Sent(g, e) = {}
      BY <2>1 DEF OutsideMove, UNSENT, PROVIDER_STATUSES
    <2> QED
      BY <2>2, <2>3 DEF UnsentClaimsAreTrue
  <1>6. NoDuplicateMessage'
    <2> SUFFICES ASSUME NEW g \in Generations, NEW e \in Endpoints,
                        <<g, e>> \notin misjudged' \/ TransportOf[e] \in Keyed
                 PROVE  \A m, n \in Sent(g, e) : m = n
      BY <1>1 DEF NoDuplicateMessage
    <2> QED
      BY DEF NoDuplicateMessage
  <1> QED
    BY <1>2, <1>3, <1>4, <1>5, <1>6

\* A step that leaves the jobs, the attempts, the run and the messages alone.
Aside == <<status, job, attempts, up, recovering, run, msg, misjudged>>

\* Such a step keeps the invariant as soon as it keeps the types.
LEMMA AsideKeeps ==
    ASSUME DeliveryInvariant, UNCHANGED Aside, TypeOK'
    PROVE  DeliveryInvariant'
  <1>1. RunAfterRecovery'
    BY DEF DeliveryInvariant, RunAfterRecovery, Aside
  <1>2. \A g \in Generations, e \in Endpoints : OutsideMove(g, e)
    BY DEF OutsideMove, Aside
  <1>3. run'.phase # "idle" => run'.gen \in Generations
    BY DEF DeliveryInvariant, RunHoldsItsJob, Aside
  <1> QED
    BY <1>1, <1>2, <1>3, Outside DEF DeliveryInvariant, Aside

-----------------------------------------------------------------------------
(* Drafting, freezing and the operator.                                    *)

\* Drafting touches no job: create, set, validate, edit and cancel a draft.
LEMMA DraftStep ==
    ASSUME DeliveryInvariant, NEW c \in Campaigns, Draft(c)
    PROVE  DeliveryInvariant'
  <1> USE DEF DeliveryInvariant, providerVars, processVars, truthVars
  <1>1. ASSUME NEW lc \in Lifecycles, Redraft(c, lc),
               complete' \in [Campaigns -> BOOLEAN]
        PROVE  TypeOK' /\ UNCHANGED Aside
    BY <1>1, ZenonT(60) DEF Redraft, Announce, TypeOK, Aside
  <1>2. complete' = complete => complete' \in [Campaigns -> BOOLEAN]
    BY DEF TypeOK
  <1>3. {"DRAFT", "READY", "CANCELLED"} \subseteq Lifecycles
    BY DEF Lifecycles
  <1>4. CASE create_campaign(c)
    BY <1>1, <1>2, <1>3, <1>4, AsideKeeps DEF create_campaign
  <1>5. CASE set_draft(c)
    <2>1. complete' \in [Campaigns -> BOOLEAN]
      BY <1>5 DEF set_draft, TypeOK
    <2> QED
      BY <1>1, <1>3, <1>5, <2>1, AsideKeeps DEF set_draft
  <1>6. CASE validate(c)
    BY <1>1, <1>2, <1>3, <1>6, AsideKeeps DEF validate
  <1>7. CASE edit(c)
    BY <1>1, <1>2, <1>3, <1>7, AsideKeeps DEF edit
  <1>8. CASE cancel_draft(c)
    BY <1>1, <1>2, <1>3, <1>8, AsideKeeps DEF cancel_draft
  <1> QED
    BY <1>4, <1>5, <1>6, <1>7, <1>8 DEF Draft

\* Freezing fills the rows of a generation that had no job and no message.
LEMMA FreezeKeeps ==
    ASSUME DeliveryInvariant, NEW c \in Campaigns, NEW g \in Generations,
           NEW at \in 0..MaxTime, NEW lc \in Lifecycles, freeze(c, g, at, lc)
    PROVE  DeliveryInvariant'
  <1> USE DEF DeliveryInvariant, providerVars, processVars, truthVars
  <1>1. PICK plan \in Plans : job' = [job EXCEPT ![g] = plan]
    BY DEF freeze
  <1>2. plan \in [Endpoints -> {"PENDING", "SKIPPED_PLATFORM_POLICY", "ABSENT"}]
    BY DEF Plans
  <1>3. TypeOK'
    <2>1. job' \in [Generations -> [Endpoints -> JobStates \cup {"ABSENT"}]]
      BY <1>1, <1>2 DEF TypeOK, JobStates, RankedStates, TERMINAL
    <2>2. trail' \in [Campaigns -> [lifecycle : Lifecycles,
                                    summary : Summaries \cup {None}]]
      BY AnnounceTyped DEF freeze, TypeOK
    <2>3. summary' \in [Campaigns -> Summaries \cup {None}]
      BY DEF freeze, TypeOK, Summaries
    <2>4. /\ lifecycle' \in [Campaigns -> Lifecycles]
          /\ current' \in [Campaigns -> Generations \cup {None}]
          /\ owner' \in [Generations -> Campaigns \cup {None}]
          /\ status' \in [Generations -> {"unused", "active", "discarded"}]
          /\ sendAt' \in [Generations -> 0..MaxTime]
      BY DEF freeze, TypeOK
    <2> QED
      BY <2>1, <2>2, <2>3, <2>4 DEF freeze, TypeOK
  <1>4. RunAfterRecovery'
    BY DEF freeze, RunAfterRecovery
  <1>5. \A h \in Generations, e \in Endpoints : OutsideMove(h, e)
    <2> SUFFICES ASSUME NEW h \in Generations, NEW e \in Endpoints
                 PROVE  OutsideMove(h, e)
      OBVIOUS
    <2>1. CASE h # g
      BY <1>1, <2>1 DEF OutsideMove, TypeOK
    <2>2. CASE h = g
      <3>1. job[g][e] = "ABSENT" /\ attempts[g][e] = 0
        BY DEF freeze, AttemptsLeft
      <3>2. job'[g][e] = plan[e]
        BY <1>1 DEF TypeOK
      <3>3. job'[g][e] \in UNSENT /\ job[g][e] \in UNSENT
        BY <1>2, <3>1, <3>2 DEF UNSENT
      <3> QED
        BY <2>2, <3>1, <3>3, DeliveryAssumption DEF OutsideMove
    <2> QED BY <2>1, <2>2
  <1>6. \A h \in Generations : status'[h] = "unused" =>
           status[h] = "unused" /\ job'[h] = job[h]
    BY <1>1 DEF freeze, TypeOK
  <1>7. run'.phase # "idle" => run'.gen \in Generations
    BY DEF freeze, RunHoldsItsJob
  <1> QED
    BY <1>3, <1>4, <1>5, <1>6, <1>7, Outside DEF freeze

\* Cancelling and retrying keep the job table typed and are outside moves.
LEMMA CancelledMoves ==
    ASSUME NEW jobs \in [Endpoints -> JobStates \cup {"ABSENT"}]
    PROVE  /\ Cancelled(jobs) \in [Endpoints -> JobStates \cup {"ABSENT"}]
           /\ \A e \in Endpoints :
                 \/ Cancelled(jobs)[e] = jobs[e]
                 \/ jobs[e] = "PENDING" /\ Cancelled(jobs)[e] = "CANCELLED"
  BY DEF Cancelled, JobStates, TERMINAL

\* A retry only sends a transient failure with an attempt left to PENDING.
LEMMA RetriedMoves ==
    ASSUME NEW jobs \in [Endpoints -> JobStates \cup {"ABSENT"}], NEW counts
    PROVE  /\ Retried(jobs, counts) \in [Endpoints -> JobStates \cup {"ABSENT"}]
           /\ \A e \in Endpoints :
                 \/ Retried(jobs, counts)[e] = jobs[e]
                 \/ /\ jobs[e] = "FAILED_TRANSIENT"
                    /\ Retried(jobs, counts)[e] = "PENDING"
                    /\ counts[e] < Cap
  BY DEF Retried, RetryApplies, JobStates, RankedStates

\* Retiring a scheduled generation only cancels its pending jobs.
LEMMA RetireKeeps ==
    ASSUME DeliveryInvariant, NEW c \in Campaigns, NEW lc \in Lifecycles,
           lifecycle[c] = "SCHEDULED", retire_scheduled(c, lc)
    PROVE  DeliveryInvariant'
  <1> USE DEF DeliveryInvariant, providerVars, processVars, truthVars
  <1> DEFINE g == current[c]
  <1>0. job' = [job EXCEPT ![g] = Cancelled(job[g])]
    BY DEF retire_scheduled
  <1>1. g \in Generations => /\ job'[g] = Cancelled(job[g])
                             /\ Cancelled(job[g]) \in [Endpoints -> JobStates \cup {"ABSENT"}]
    <2>1. g \in Generations => job[g] \in [Endpoints -> JobStates \cup {"ABSENT"}]
      BY DEF TypeOK
    <2>2. g \in Generations => job'[g] = Cancelled(job[g])
      BY <1>0 DEF TypeOK
    <2>3. g \in Generations => Cancelled(job[g]) \in [Endpoints -> JobStates \cup {"ABSENT"}]
      BY <2>1, CancelledMoves
    <2> QED
      BY <2>2, <2>3
  <1>2. \A h \in Generations : h # g => job'[h] = job[h]
    BY DEF retire_scheduled, TypeOK
  <1>3. TypeOK'
    <2>1. job' \in JobTable
      BY <1>0, <1>1 DEF TypeOK, JobTable
    <2>2. trail' \in [Campaigns -> [lifecycle : Lifecycles,
                                    summary : Summaries \cup {None}]]
      BY AnnounceTyped DEF retire_scheduled, TypeOK
    <2>3. /\ lifecycle' \in [Campaigns -> Lifecycles]
          /\ summary' \in [Campaigns -> Summaries \cup {None}]
          /\ current' \in [Campaigns -> Generations \cup {None}]
          /\ status' \in [Generations -> {"unused", "active", "discarded"}]
      BY DEF retire_scheduled, TypeOK
    <2> QED
      BY <2>1, <2>2, <2>3 DEF retire_scheduled, TypeOK, JobTable
  <1>4. RunAfterRecovery'
    BY DEF retire_scheduled, RunAfterRecovery
  <1>5. \A h \in Generations, e \in Endpoints : OutsideMove(h, e)
    <2> SUFFICES ASSUME NEW h \in Generations, NEW e \in Endpoints
                 PROVE  OutsideMove(h, e)
      OBVIOUS
    <2>1. CASE h # g
      BY <1>2, <2>1 DEF OutsideMove
    <2>2. CASE h = g
      <3>1. job[g] \in [Endpoints -> JobStates \cup {"ABSENT"}]
        BY <2>2 DEF TypeOK
      <3>2. \/ job'[g][e] = job[g][e]
            \/ job[g][e] = "PENDING" /\ job'[g][e] = "CANCELLED"
        BY <1>1, <2>2, <3>1, CancelledMoves
      <3> QED
        BY <2>2, <3>2 DEF OutsideMove, UNSENT
    <2> QED BY <2>1, <2>2
  <1>6. \A h \in Generations : status'[h] = "unused" =>
           status[h] = "unused" /\ job'[h] = job[h]
    BY <1>2 DEF retire_scheduled, TypeOK
  <1>7. run'.phase # "idle" => run'.gen \in Generations
    BY DEF retire_scheduled, RunHoldsItsJob
  <1> QED
    BY <1>3, <1>4, <1>5, <1>6, <1>7, Outside DEF retire_scheduled

\* Send now, schedule, unschedule and cancel before the start.
LEMMA FreezeStep ==
    ASSUME DeliveryInvariant, NEW c \in Campaigns, Freeze(c)
    PROVE  DeliveryInvariant'
  <1>1. {"SENDING", "SCHEDULED", "READY", "CANCELLED"} \subseteq Lifecycles
    BY DEF Lifecycles
  <1>2. now \in 0..MaxTime
    BY DEF DeliveryInvariant, TypeOK
  <1>3. ASSUME NEW g \in Generations, send(c, g) PROVE DeliveryInvariant'
    BY <1>1, <1>2, <1>3, FreezeKeeps DEF send
  <1>4. ASSUME NEW g \in Generations, NEW at \in 0..MaxTime, schedule(c, g, at)
        PROVE  DeliveryInvariant'
    BY <1>1, <1>4, FreezeKeeps DEF schedule
  <1>5. CASE unschedule(c)
    BY <1>1, <1>5, RetireKeeps DEF unschedule
  <1>6. CASE cancel_scheduled(c)
    BY <1>1, <1>6, RetireKeeps DEF cancel_scheduled
  <1> QED
    BY <1>3, <1>4, <1>5, <1>6 DEF Freeze

\* An operation on the current generation's jobs.
LEMMA OperateKeeps ==
    ASSUME DeliveryInvariant, NEW c \in Campaigns, NEW jobs,
           NEW lc \in Lifecycles, Operate(c, jobs, lc),
           current[c] \in Generations =>
              /\ jobs \in [Endpoints -> JobStates \cup {"ABSENT"}]
              /\ \A e \in Endpoints :
                    LET s == job[current[c]][e]
                    IN \/ jobs[e] = s
                       \/ s \in UNSENT \ {"ABSENT"} /\ jobs[e] = "CANCELLED"
                       \/ /\ s \in UNSENT \ {"ABSENT"}
                          /\ jobs[e] = "PENDING"
                          /\ attempts[current[c]][e] < Cap
    PROVE  DeliveryInvariant'
  <1> USE DEF DeliveryInvariant, providerVars, processVars, truthVars
  <1> DEFINE g == current[c]
             final == IF lc = "SENDING" /\ Idle(jobs) THEN "COMPLETE" ELSE lc
  <1>1. job' = [job EXCEPT ![g] = jobs]
    BY DEF Operate
  <1>2. CampaignTyped'
    <2>1. final \in Lifecycles
      BY DEF Lifecycles
    <2>2. CampaignTyped
      BY DEF TypeOK, CampaignTyped
    <2>3. CASE jobs # job[g]
      <3> DEFINE s == summarize(StatesOf(jobs), Attempted(attempts[g]))
      <3>1. s \in Summaries
        BY SummarizeType
      <3> HIDE DEF s, final
      <3>2. summary' = [summary EXCEPT ![c] = s]
        BY <2>3 DEF Operate, refresh_summary, s
      <3>3. lifecycle' = [lifecycle EXCEPT ![c] = final]
        BY <2>3 DEF Operate, complete_if_idle, final
      <3>4. trail' = [trail EXCEPT ![c] =
               [lifecycle |-> final,
                summary |-> IF final = "COMPLETE" THEN summary'[c] ELSE @.summary]]
        BY <2>3 DEF Operate, final
      <3>5. summary'[c] = s
        BY <3>2, <2>2 DEF CampaignTyped
      <3>6. trail[c].summary \in Summaries \cup {None}
        BY <2>2 DEF CampaignTyped
      <3>7. trail' \in [Campaigns -> [lifecycle : Lifecycles,
                                      summary : Summaries \cup {None}]]
        BY <2>1, <2>2, <3>1, <3>4, <3>5, <3>6 DEF CampaignTyped
      <3> QED
        BY <2>1, <2>2, <3>1, <3>2, <3>3, <3>7 DEF CampaignTyped
    <2>4. CASE jobs = job[g]
      <3>1. Announce(c, lc) /\ UNCHANGED <<summary, lifecycle>>
        BY <2>4 DEF Operate
      <3> QED
        BY <2>2, <3>1, AnnounceTyped DEF CampaignTyped
    <2> QED BY <2>3, <2>4
  <1>3. TypeOK'
    <2>1. job' \in JobTable
      BY <1>1 DEF TypeOK, JobTable
    <2> QED
      BY <1>2, <2>1 DEF Operate, TypeOK, CampaignTyped, JobTable
  <1>4. RunAfterRecovery'
    BY DEF Operate, RunAfterRecovery
  <1>5. \A h \in Generations, e \in Endpoints : OutsideMove(h, e)
    <2> SUFFICES ASSUME NEW h \in Generations, NEW e \in Endpoints
                 PROVE  OutsideMove(h, e)
      OBVIOUS
    <2>1. CASE h # g
      BY <1>1, <2>1 DEF OutsideMove, TypeOK
    <2>2. CASE h = g
      <3>1. job'[g][e] = jobs[e]
        BY <1>1, <2>2 DEF TypeOK
      <3> QED
        BY <2>2, <3>1 DEF OutsideMove, UNSENT
    <2> QED BY <2>1, <2>2
  <1>6. \A h \in Generations : status'[h] = "unused" =>
           status[h] = "unused" /\ job'[h] = job[h]
    <2> SUFFICES ASSUME NEW h \in Generations, status'[h] = "unused"
                 PROVE  status[h] = "unused" /\ job'[h] = job[h]
      OBVIOUS
    <2>1. status[h] = "unused"
      BY DEF Operate
    <2>2. CASE h # g
      BY <1>1, <2>1, <2>2 DEF TypeOK
    <2>3. CASE h = g
      <3>1. \A e \in Endpoints : job[g][e] = "ABSENT"
        BY <2>1, <2>3 DEF AttemptsLeft
      <3>2. \A e \in Endpoints : jobs[e] = job[g][e]
        BY <2>3, <3>1 DEF UNSENT
      <3>3. job[g] \in [Endpoints -> JobStates \cup {"ABSENT"}]
        BY <2>3 DEF TypeOK
      <3>4. jobs \in [Endpoints -> JobStates \cup {"ABSENT"}]
        BY <2>3
      <3>5. jobs = job[g]
        BY <3>2, <3>3, <3>4
      <3> QED
        BY <1>1, <2>1, <2>3, <3>5 DEF TypeOK
    <2> QED BY <2>2, <2>3
  <1>7. run'.phase # "idle" => run'.gen \in Generations
    BY DEF Operate, RunHoldsItsJob
  <1> QED
    BY <1>3, <1>4, <1>5, <1>6, <1>7, Outside DEF Operate

\* Cancelling a sending campaign and retrying its failures.
LEMMA OperatorStep ==
    ASSUME DeliveryInvariant, NEW c \in Campaigns, Operator(c)
    PROVE  DeliveryInvariant'
  <1> DEFINE g == current[c]
  <1>1. g \in Generations => job[g] \in [Endpoints -> JobStates \cup {"ABSENT"}]
    BY DEF DeliveryInvariant, TypeOK
  <1>2. CASE cancel_sending(c)
    <2>1. Operate(c, Cancelled(job[g]), "SENDING")
      BY <1>2 DEF cancel_sending
    <2>2. "SENDING" \in Lifecycles
      BY DEF Lifecycles
    <2> QED
      BY <1>1, <2>1, <2>2, CancelledMoves, OperateKeeps DEF UNSENT
  <1>3. CASE retry_failed(c)
    <2> DEFINE jobs == Retried(job[g], attempts[g])
               lc == IF jobs # job[g] THEN "SENDING" ELSE lifecycle[c]
    <2>1. Operate(c, jobs, lc)
      BY <1>3 DEF retry_failed
    <2>2. lc \in Lifecycles
      BY DEF Lifecycles, DeliveryInvariant, TypeOK
    <2>3. g \in Generations =>
             /\ jobs \in [Endpoints -> JobStates \cup {"ABSENT"}]
             /\ \A e \in Endpoints :
                   \/ jobs[e] = job[g][e]
                   \/ /\ job[g][e] = "FAILED_TRANSIENT"
                      /\ jobs[e] = "PENDING"
                      /\ attempts[g][e] < Cap
      BY <1>1, RetriedMoves
    <2> HIDE DEF jobs, lc
    <2> QED
      BY <2>1, <2>2, <2>3, OperateKeeps DEF UNSENT
  <1> QED
    BY <1>2, <1>3 DEF Operator

-----------------------------------------------------------------------------
(* Verdicts and provider reports: one job moves through reduce.            *)

\* A reduce of one existing job, by an outside move, keeps the invariant.
LEMMA ReduceKeeps ==
    ASSUME DeliveryInvariant, TypeOK',
           NEW g \in Generations, NEW e \in Endpoints,
           NEW s \in JobStates \cup {"ABSENT"},
           job' = [job EXCEPT ![g][e] = s],
           OutsideMove(g, e), status[g] # "unused" \/ s = job[g][e],
           UNCHANGED <<status, attempts, msg>>, misjudged \subseteq misjudged',
           run' = run \/ Released, run'.phase # "idle" => run'.gen \in Generations,
           RunAfterRecovery'
    PROVE  DeliveryInvariant'
  <1> USE DEF DeliveryInvariant
  <1>1. \A h \in Generations, d \in Endpoints : OutsideMove(h, d)
    <2> SUFFICES ASSUME NEW h \in Generations, NEW d \in Endpoints,
                        <<h, d>> # <<g, e>>
                 PROVE  OutsideMove(h, d)
      OBVIOUS
    <2>1. job'[h][d] = job[h][d]
      BY DEF TypeOK
    <2> QED
      BY <2>1 DEF OutsideMove
  <1>2. \A h \in Generations : status'[h] = "unused" =>
           status[h] = "unused" /\ job'[h] = job[h]
    BY DEF TypeOK
  <1> QED
    BY <1>1, <1>2, Outside

\* A verdict settles an unknown outcome; a wrong one is remembered.
LEMMA VerdictStep ==
    ASSUME DeliveryInvariant, Verdict
    PROVE  DeliveryInvariant'
  <1> USE DEF DeliveryInvariant, providerVars, processVars
  <1>1. PICK g \in Generations, e \in Endpoints, sent \in BOOLEAN :
           resolve_outcome(g, e, sent)
    BY DEF Verdict
  <1> DEFINE s == IF sent THEN "ACCEPTED" ELSE "FAILED_TRANSIENT"
  <1>2. s \in JobStates \cup {"ABSENT"}
    BY DEF JobStates, RankedStates
  <1>3. CampaignTyped /\ job \in JobTable
    BY DEF TypeOK, CampaignTyped, JobTable
  <1>4. reduce(g, e, s, attempts[g])
    BY <1>1 DEF resolve_outcome
  <1>5. CampaignTyped' /\ job' \in JobTable /\ job' = [job EXCEPT ![g][e] = s]
    BY <1>2, <1>3, <1>4, ReduceTyped DEF JobTable
  <1>6. misjudged' \subseteq Jobs /\ misjudged \subseteq misjudged'
    BY <1>1 DEF resolve_outcome, TypeOK, Jobs
  <1>7. TypeOK'
    BY <1>1, <1>5, <1>6 DEF resolve_outcome, TypeOK, CampaignTyped, JobTable
  <1>8. OutsideMove(g, e)
    <2>1. job'[g][e] = s /\ job[g][e] = "OUTCOME_UNKNOWN"
      BY <1>1, <1>3, <1>5 DEF resolve_outcome, JobTable
    <2>2. ~sent => Sent(g, e) = {} \/ <<g, e>> \in misjudged'
      BY <1>1 DEF resolve_outcome
    <2> QED
      BY <2>1, <2>2 DEF OutsideMove, PROVIDER_STATUSES
  <1>9. status[g] # "unused"
    BY <1>1 DEF resolve_outcome, AttemptsLeft
  <1>10. RunAfterRecovery' /\ (run'.phase # "idle" => run'.gen \in Generations)
    BY <1>1 DEF resolve_outcome, RunAfterRecovery, RunHoldsItsJob
  <1> HIDE DEF s
  <1> QED
    BY <1>1, <1>2, <1>5, <1>6, <1>7, <1>8, <1>9, <1>10, ReduceKeeps
       DEF resolve_outcome

\* A provider report moves a job only to a reported status.
LEMMA UpdateKeeps ==
    ASSUME DeliveryInvariant, NEW t \in Transports, NEW r \in MsgRefs,
           NEW v \in PROVIDER_STATUSES, provider_update(t, r, v)
    PROVE  DeliveryInvariant'
  <1> USE DEF DeliveryInvariant, processVars, truthVars
  <1>1. reported' \subseteq Transports \X MsgRefs \X PROVIDER_STATUSES
    BY DEF provider_update, TypeOK
  <1>2. CampaignTyped /\ job \in JobTable
    BY DEF TypeOK, CampaignTyped, JobTable
  <1>3. RunAfterRecovery' /\ (run'.phase # "idle" => run'.gen \in Generations)
    BY DEF provider_update, RunAfterRecovery, RunHoldsItsJob
  <1>4. CASE pending' = [pending EXCEPT ![t][r] = Append(@, v)]
             /\ UNCHANGED <<job, campaignVars>>
    <2>1. pending' \in [Transports -> [MsgRefs -> Seq(PROVIDER_STATUSES)]]
      <3>1. pending[t][r] \in Seq(PROVIDER_STATUSES)
        BY DEF TypeOK
      <3>2. Append(pending[t][r], v) \in Seq(PROVIDER_STATUSES)
        BY <3>1
      <3> QED
        BY <1>4, <3>2 DEF TypeOK
    <2>2. TypeOK'
      BY <1>1, <1>4, <2>1 DEF provider_update, TypeOK, campaignVars
    <2> QED
      BY <1>4, <2>2, AsideKeeps DEF provider_update, Aside
  <1>5. CASE UNCHANGED <<pending, job, campaignVars>>
    <2>1. TypeOK'
      BY <1>1, <1>5 DEF provider_update, TypeOK, campaignVars
    <2> QED
      BY <1>5, <2>1, AsideKeeps DEF provider_update, Aside
  <1>6. ASSUME NEW g \in Generations, NEW e \in Endpoints, NEW n \in Attempt,
               reduce(g, e, AfterProvider(job[g][e], v, n = attempts[g][e]),
                      attempts[g]),
               UNCHANGED pending
        PROVE  DeliveryInvariant'
    <2> DEFINE s == AfterProvider(job[g][e], v, n = attempts[g][e])
    <2>1. s = job[g][e] \/ (s \in PROVIDER_STATUSES /\ job[g][e] # "ABSENT")
      BY DEF AfterProvider, ProviderApplies, RankedStates
    <2>2. job[g][e] \in JobStates \cup {"ABSENT"}
      BY DEF TypeOK
    <2>3. s \in JobStates \cup {"ABSENT"}
      BY <2>1, <2>2 DEF PROVIDER_STATUSES, JobStates, RankedStates, TERMINAL
    <2> HIDE DEF s
    <2>4. CampaignTyped' /\ job' \in JobTable /\ job' = [job EXCEPT ![g][e] = s]
      BY <1>2, <1>6, <2>3, ReduceTyped DEF JobTable, s
    <2>5. TypeOK'
      BY <1>1, <1>6, <2>4 DEF provider_update, TypeOK, CampaignTyped, JobTable
    <2>6. job'[g][e] = s
      BY <1>2, <2>4 DEF JobTable
    <2>7. OutsideMove(g, e)
      BY <2>1, <2>6 DEF OutsideMove
    <2>8. status[g] # "unused" \/ s = job[g][e]
      BY <2>1 DEF AttemptsLeft
    <2> QED
      BY <1>3, <2>3, <2>4, <2>5, <2>7, <2>8, ReduceKeeps DEF provider_update
  <1> QED
    BY <1>4, <1>5, <1>6 DEF provider_update

\* Binding a reference moves the job from s to s or to a reported status.
LEMMA BindMoves ==
    ASSUME DeliveryInvariant, NEW g \in Generations, NEW e \in Endpoints,
           NEW n, NEW r \in MsgRefs, NEW s \in JobStates \cup {"ABSENT"},
           bind_provider_ref(g, e, n, r, s)
    PROVE  /\ CampaignTyped'
           /\ bound' \in [Generations -> [Endpoints -> [Attempt -> MsgRefs \cup {None}]]]
           /\ pending' \in [Transports -> [MsgRefs -> Seq(PROVIDER_STATUSES)]]
           /\ job' \in JobTable
           /\ job' = [job EXCEPT ![g][e] = job'[g][e]]
           /\ job'[g][e] = s \/ job'[g][e] \in PROVIDER_STATUSES
  <1> USE DEF DeliveryInvariant
  <1> DEFINE t == TransportOf[e]
             alone == Matches(t, r) = {}
             q == IF alone THEN pending[t][r] ELSE <<>>
  <1>1. t \in Transports
    BY DeliveryAssumption
  <1>2. pending[t][r] \in Seq(PROVIDER_STATUSES)
    BY <1>1 DEF TypeOK
  <1>3. pending' \in [Transports -> [MsgRefs -> Seq(PROVIDER_STATUSES)]]
    <2>1. <<>> \in Seq(PROVIDER_STATUSES)
      OBVIOUS
    <2>2. pending' = [pending EXCEPT ![t][r] = <<>>]
      BY DEF bind_provider_ref
    <2> HIDE DEF t
    <2> QED
      BY <1>1, <2>1, <2>2 DEF TypeOK
  <1>4. bound' \in [Generations -> [Endpoints -> [Attempt -> MsgRefs \cup {None}]]]
    BY ZenonT(60) DEF bind_provider_ref, TypeOK
  <1>5. PICK st \in Replays(s, q, n = attempts[g][e]) :
           reduce(g, e, st[IF alone THEN Len(pending[t][r]) ELSE 0], attempts[g])
    BY DEF bind_provider_ref
  <1> DEFINE i == IF alone THEN Len(pending[t][r]) ELSE 0
             z == st[i]
  <1>6. i \in 0..Len(q)
    BY <1>2
  <1>7. z = s \/ z \in PROVIDER_STATUSES
    BY <1>6, ReplayCases
  <1>8. z \in JobStates \cup {"ABSENT"}
    BY <1>7 DEF PROVIDER_STATUSES, JobStates, RankedStates, TERMINAL
  <1>9. CampaignTyped /\ job \in JobTable
    BY DEF TypeOK, CampaignTyped, JobTable
  <1>10. reduce(g, e, z, attempts[g])
    BY <1>5
  <1> HIDE DEF z
  <1>11. CampaignTyped' /\ job' \in JobTable /\ job' = [job EXCEPT ![g][e] = z]
    BY <1>8, <1>9, <1>10, ReduceTyped DEF JobTable
  <1>12. job'[g][e] = z
    BY <1>9, <1>11 DEF JobTable
  <1> QED
    BY <1>3, <1>4, <1>7, <1>11, <1>12

\* Correlating a message id binds a reference and replays what waited.
LEMMA CorrelateKeeps ==
    ASSUME DeliveryInvariant, NEW g \in Generations, NEW e \in Endpoints,
           NEW r \in MsgRefs, correlate_message_id(g, e, r)
    PROVE  DeliveryInvariant'
  <1> USE DEF DeliveryInvariant, processVars, truthVars
  <1>1. bind_provider_ref(g, e, attempts[g][e], r, job[g][e])
    BY DEF correlate_message_id
  <1>2. job[g][e] \in JobStates \cup {"ABSENT"}
    BY DEF TypeOK
  <1>4. /\ CampaignTyped'
        /\ bound' \in [Generations -> [Endpoints -> [Attempt -> MsgRefs \cup {None}]]]
        /\ pending' \in [Transports -> [MsgRefs -> Seq(PROVIDER_STATUSES)]]
        /\ job' \in JobTable
        /\ job' = [job EXCEPT ![g][e] = job'[g][e]]
        /\ job'[g][e] = job[g][e] \/ job'[g][e] \in PROVIDER_STATUSES
    BY <1>1, <1>2, BindMoves
  <1>5. TypeOK'
    BY <1>4 DEF correlate_message_id, TypeOK, CampaignTyped, JobTable
  <1>6. OutsideMove(g, e) /\ job'[g][e] \in JobStates \cup {"ABSENT"}
    BY <1>4 DEF OutsideMove, JobTable
  <1>7. status[g] # "unused"
    <2>1. Sent(g, e) # {}
      BY DEF correlate_message_id
    <2> QED
      BY <2>1 DEF AttemptsLeft
  <1>8. RunAfterRecovery' /\ (run'.phase # "idle" => run'.gen \in Generations)
    BY DEF correlate_message_id, RunAfterRecovery, RunHoldsItsJob
  <1> QED
    BY <1>4, <1>5, <1>6, <1>7, <1>8, ReduceKeeps DEF correlate_message_id

\* Everything a provider sends keeps the invariant.
LEMMA ProviderStep ==
    ASSUME DeliveryInvariant, Provider
    PROVE  DeliveryInvariant'
  BY UpdateKeeps, CorrelateKeeps DEF Provider

-----------------------------------------------------------------------------
(* The engine.                                                             *)

\* Starting a run, and letting go of it, leave the records alone.
LEMMA ReleaseKeeps ==
    ASSUME DeliveryInvariant, TypeOK', UNCHANGED <<status, job, attempts, msg, misjudged>>,
           Released, run'.phase # "idle" => run'.gen \in Generations,
           RunAfterRecovery'
    PROVE  DeliveryInvariant'
  <1>1. \A g \in Generations, e \in Endpoints : OutsideMove(g, e)
    BY DEF OutsideMove
  <1> QED
    BY <1>1, Outside DEF DeliveryInvariant

\* The engine at rest is a well-formed run.
LEMMA IdleRunTyped == idleRun \in Run /\ idleRun.phase = "idle"
  BY DeliveryAssumption DEF idleRun, Run, RESULT_KINDS

\* So is the run that lists a campaign's pending jobs.
LEMMA ListingTyped ==
    ASSUME DeliveryInvariant, NEW c \in Campaigns, current[c] \in Generations
    PROVE  /\ Listing(c) \in Run
           /\ Listing(c).phase = "loop"
           /\ Listing(c).gen \in Generations
  <1> DEFINE todo == {e \in Endpoints : job[current[c]][e] = "PENDING"}
  <1>1. Listing(c) = [idleRun EXCEPT !.phase = "loop", !.gen = current[c],
                                     !.todo = todo]
    BY DEF Listing
  <1>2. todo \in SUBSET Endpoints
    OBVIOUS
  <1> HIDE DEF todo
  <1> QED
    BY <1>1, <1>2, IdleRunTyped DEF Run

\* Starting a run, by the deliver worker or by the scheduler.
LEMMA StartStep ==
    ASSUME DeliveryInvariant, NEW c \in Campaigns, run_due(c) \/ execute(c)
    PROVE  DeliveryInvariant'
  <1> USE DEF DeliveryInvariant, providerVars, truthVars
  <1>1. current[c] \in Generations
    BY DEF run_due, execute, TypeOK
  <1>2. run' = Listing(c)
    BY DEF run_due, execute
  <1>3. run' \in Run /\ run'.phase = "loop" /\ run'.gen \in Generations
    BY <1>1, <1>2, ListingTyped
  <1>4. RunAfterRecovery'
    BY DEF run_due, execute, Serving, RunAfterRecovery, TypeOK
  <1>5. Released
    BY <1>3 DEF Released
  <1>6. CASE run_due(c)
    <2>1. trail' \in [Campaigns -> [lifecycle : Lifecycles,
                                    summary : Summaries \cup {None}]]
      BY <1>6, AnnounceTyped DEF run_due, TypeOK, Lifecycles
    <2>2. lifecycle' \in [Campaigns -> Lifecycles]
      BY <1>6 DEF run_due, TypeOK, Lifecycles
    <2>3. TypeOK'
      BY <1>3, <1>6, <2>1, <2>2 DEF run_due, TypeOK
    <2> QED
      BY <1>3, <1>4, <1>5, <1>6, <2>3, ReleaseKeeps DEF run_due
  <1>7. CASE execute(c)
    <2>1. TypeOK'
      BY <1>3, <1>7 DEF execute, TypeOK, dbVars
    <2> QED
      BY <1>3, <1>4, <1>5, <1>7, <2>1, ReleaseKeeps DEF execute, dbVars
  <1> QED
    BY <1>6, <1>7

\* Steps of a run that only change the run itself.
LEMMA RunOnlyStep ==
    ASSUME DeliveryInvariant,
           \/ \E e \in Endpoints : pass_over(e)
           \/ record_refused \/ run_failed \/ end_run
    PROVE  DeliveryInvariant'
  <1> USE DEF DeliveryInvariant, providerVars, truthVars
  <1>1. run' \in Run /\ Released /\ (run'.phase # "idle" => run'.gen \in Generations)
    <2>1. CASE \E e \in Endpoints : pass_over(e)
      <3>1. PICK e \in Endpoints : pass_over(e)
        BY <2>1
      <3>2. run.gen \in Generations
        BY <3>1 DEF pass_over, RunHoldsItsJob
      <3>3. run \in Run /\ run.phase = "loop" /\ run' = [run EXCEPT !.todo = @ \ {e}]
        BY <3>1 DEF pass_over, TypeOK
      <3> QED
        BY <3>2, <3>3 DEF Released, Run
    <2>2. CASE record_refused \/ run_failed \/ end_run
      BY <2>2, IdleRunTyped DEF record_refused, run_failed, end_run, Released
    <2> QED BY <2>1, <2>2
  <1>2. UNCHANGED <<status, job, attempts, msg, misjudged>>
    BY DEF pass_over, record_refused, run_failed, end_run, dbVars
  <1>3. UNCHANGED <<up, recovering>> /\ up /\ run.phase # "idle"
    BY DEF pass_over, record_refused, run_failed, end_run
  <1>4. RunAfterRecovery'
    BY <1>3 DEF RunAfterRecovery
  <1>5. TypeOK'
    BY <1>1 DEF TypeOK, pass_over, record_refused, run_failed, end_run, dbVars
  <1> QED
    BY <1>1, <1>2, <1>4, <1>5, ReleaseKeeps

\* Skipping a job whose path is no longer valid: it was pending, so unsent.
LEMMA SkipKeeps ==
    ASSUME DeliveryInvariant, NEW e \in Endpoints, skip_revalidation(e)
    PROVE  DeliveryInvariant'
  <1> USE DEF DeliveryInvariant, providerVars, truthVars
  <1> DEFINE g == run.gen
             s == "SKIPPED_REVALIDATION"
  <1>1. g \in Generations
    BY DEF skip_revalidation, RunHoldsItsJob
  <1>2. s \in JobStates \cup {"ABSENT"}
    BY DEF JobStates, TERMINAL
  <1>3. CampaignTyped /\ job \in JobTable
    BY DEF TypeOK, CampaignTyped, JobTable
  <1>4. reduce(g, e, s, attempts[g])
    BY DEF skip_revalidation
  <1>5. CampaignTyped' /\ job' \in JobTable /\ job' = [job EXCEPT ![g][e] = s]
    BY <1>1, <1>2, <1>3, <1>4, ReduceTyped, SMTT(60) DEF JobTable
  <1>6. run' \in Run /\ run'.phase = "loop" /\ run'.gen \in Generations
    <2>1. run \in Run /\ run.phase = "loop" /\ run' = [run EXCEPT !.todo = @ \ {e}]
      BY DEF skip_revalidation, TypeOK
    <2> QED
      BY <1>1, <2>1 DEF Run
  <1>7. TypeOK'
    BY <1>5, <1>6 DEF skip_revalidation, TypeOK, CampaignTyped, JobTable
  <1>8. job[g][e] = "PENDING" /\ job'[g][e] = s
    BY <1>1, <1>3, <1>5 DEF skip_revalidation, JobTable
  <1>9. OutsideMove(g, e) /\ status[g] # "unused"
    BY <1>1, <1>8 DEF OutsideMove, UNSENT, AttemptsLeft
  <1>10. RunAfterRecovery' /\ Released
    BY <1>6 DEF skip_revalidation, RunAfterRecovery, Released
  <1> QED
    BY <1>1, <1>2, <1>5, <1>6, <1>7, <1>9, <1>10, ReduceKeeps
       DEF skip_revalidation

\* Recording a result: a transient failure is one that sent nothing, because
\* of NothingSentYet; everything else is recorded as sent or unknown.
LEMMA RecordKeeps ==
    ASSUME DeliveryInvariant, record
    PROVE  DeliveryInvariant'
  <1> USE DEF DeliveryInvariant, truthVars
  <1> DEFINE g == run.gen
             e == run.endpoint
             n == run.attempt
             s == AfterResult(job[g][e], run.kind, n = attempts[g][e])
  <1>1. /\ g \in Generations /\ e \in Endpoints
        /\ job[g][e] \in {"IN_FLIGHT"} \cup PROVIDER_STATUSES
    BY DEF record, RunHoldsItsJob
  <1>2. run \in Run /\ run.kind \in RESULT_KINDS /\ run.ref \in MsgRefs \cup {None}
    BY DEF TypeOK, Run
  <1>3. \/ s = job[g][e]
        \/ s \in PROVIDER_STATUSES
        \/ s = "OUTCOME_UNKNOWN"
        \/ s = "FAILED_TRANSIENT" /\ run.kind = "FAILED_TRANSIENT"
    BY <1>2 DEF AfterResult, RESULT_KINDS, PROVIDER_STATUSES
  <1>4. s \in JobStates \cup {"ABSENT"}
    BY <1>1, <1>3 DEF JobStates, RankedStates, TERMINAL, PROVIDER_STATUSES
  <1>5. CampaignTyped /\ job \in JobTable
    BY DEF TypeOK, CampaignTyped, JobTable
  <1>6. /\ CampaignTyped'
        /\ bound' \in [Generations -> [Endpoints -> [Attempt -> MsgRefs \cup {None}]]]
        /\ pending' \in [Transports -> [MsgRefs -> Seq(PROVIDER_STATUSES)]]
        /\ job' \in JobTable
        /\ job' = [job EXCEPT ![g][e] = job'[g][e]]
        /\ job'[g][e] = s \/ job'[g][e] \in PROVIDER_STATUSES
    <2>1. CASE /\ reduce(g, e, s, attempts[g])
               /\ UNCHANGED <<bound, pending>>
      <3> HIDE DEF s, g, e
      <3>1. CampaignTyped' /\ job' \in JobTable /\ job' = [job EXCEPT ![g][e] = s]
        BY <1>1, <1>4, <1>5, <2>1, ReduceTyped DEF JobTable
      <3>2. job'[g][e] = s
        BY <1>1, <1>5, <3>1 DEF JobTable
      <3> QED
        BY <2>1, <3>1, <3>2 DEF TypeOK
    <2>2. CASE run.ref # None /\ bind_provider_ref(g, e, n, run.ref, s)
      <3>1. run.ref \in MsgRefs
        BY <1>2, <2>2
      <3> HIDE DEF s, g, e, n
      <3> QED
        BY <1>1, <1>4, <2>2, <3>1, BindMoves
    <2> QED
      BY <2>1, <2>2 DEF record
  <1>7. run' \in Run /\ run'.phase = "loop" /\ run'.gen \in Generations
    <2>1. run' = [run EXCEPT !.phase = "loop", !.endpoint = None, !.attempt = 0,
                             !.kind = "OUTCOME_UNKNOWN", !.ref = None]
      BY DEF record
    <2>2. 0 \in 0..Cap /\ "OUTCOME_UNKNOWN" \in RESULT_KINDS
      BY DeliveryAssumption DEF RESULT_KINDS
    <2>3. run \in Run /\ run.gen \in Generations
      BY <1>1, <1>2
    <2>4. run' \in Run
      BY <2>1, <2>2, <2>3 DEF Run
    <2>5. run'.phase = "loop" /\ run'.gen = run.gen
      BY <2>1, <2>3 DEF Run
    <2> QED
      BY <2>3, <2>4, <2>5
  <1>8. TypeOK'
    BY <1>6, <1>7 DEF record, TypeOK, CampaignTyped, JobTable
  <1>9. Released
    BY <1>7 DEF Released
  <1>10. run.kind = "FAILED_TRANSIENT" => Sent(g, e) = {} \/ <<g, e>> \in misjudged'
    BY DEF record, NothingSentYet
  <1>11. OutsideMove(g, e)
    <2> HIDE DEF s, g, e
    <2> QED
      BY <1>3, <1>6, <1>9, <1>10 DEF OutsideMove
  <1>12. status[g] # "unused"
    BY <1>1 DEF AttemptsLeft, PROVIDER_STATUSES
  <1>13. RunAfterRecovery'
    BY DEF record, RunAfterRecovery
  <1>14. job'[g][e] \in JobStates \cup {"ABSENT"}
    BY <1>1, <1>6 DEF JobTable
  <1> HIDE DEF s, g, e
  <1> QED
    BY <1>1, <1>6, <1>7, <1>8, <1>9, <1>11, <1>12, <1>13, <1>14, ReduceKeeps
       DEF record

\* A claim: the job was pending, so it has sent nothing and has an attempt left.
LEMMA ClaimKeeps ==
    ASSUME DeliveryInvariant, NEW e \in Endpoints, claim(e)
    PROVE  DeliveryInvariant'
  <1> USE DEF DeliveryInvariant, providerVars, truthVars
  <1> DEFINE g == run.gen
  <1>1. g \in Generations /\ run \in Run
    BY DEF claim, RunHoldsItsJob, TypeOK
  <1>2. job[g][e] = "PENDING" /\ attempts[g][e] \in 0..Cap /\ attempts[g][e] < Cap
    BY <1>1 DEF claim, Claimable, AttemptsLeft, TypeOK
  <1>3. CampaignTyped /\ job \in JobTable
    BY DEF TypeOK, CampaignTyped, JobTable
  <1>4. "IN_FLIGHT" \in JobStates \cup {"ABSENT"}
    BY DEF JobStates, RankedStates
  <1>5. CampaignTyped' /\ job' \in JobTable /\ job' = [job EXCEPT ![g][e] = "IN_FLIGHT"]
    <2>1. reduce(g, e, "IN_FLIGHT", Counted(g, e)[g])
      BY DEF claim
    <2> QED
      BY <1>1, <1>3, <1>4, <2>1, ReduceTyped, SMTT(60) DEF JobTable
  <1>6. attempts' = [attempts EXCEPT ![g][e] = attempts[g][e] + 1]
    BY DEF claim, Counted
  <1>7. attempts[g][e] + 1 \in Attempt /\ attempts[g][e] + 1 \in 0..Cap
    BY <1>2, DeliveryAssumption DEF Attempt
  <1>8. attempts' \in [Generations -> [Endpoints -> 0..Cap]]
    BY <1>1, <1>6, <1>7 DEF TypeOK
  <1>9. /\ run' \in Run
        /\ run'.phase = "claimed" /\ run'.gen = g /\ run'.endpoint = e
        /\ run'.attempt = attempts[g][e] + 1
    <2>1. run' = [run EXCEPT !.phase = "claimed", !.todo = @ \ {e}, !.endpoint = e,
                             !.attempt = attempts[g][e] + 1]
      BY DEF claim
    <2> DEFINE k == attempts[g][e] + 1
    <2>2. k \in 0..Cap
      BY <1>7
    <2> HIDE DEF k
    <2>3. run' = [run EXCEPT !.phase = "claimed", !.todo = @ \ {e}, !.endpoint = e,
                             !.attempt = k]
      BY <2>1 DEF k
    <2>4. run' \in Run
      BY <1>1, <2>2, <2>3 DEF Run
    <2>5. /\ run'.phase = "claimed" /\ run'.gen = run.gen /\ run'.endpoint = e
          /\ run'.attempt = k
      BY <1>1, <2>3 DEF Run
    <2> QED
      BY <2>4, <2>5 DEF k
  <1>10. TypeOK'
    BY <1>5, <1>8, <1>9 DEF claim, TypeOK, CampaignTyped, JobTable
  <1>11. /\ job'[g][e] = "IN_FLIGHT" /\ attempts'[g][e] = attempts[g][e] + 1
         /\ \A h \in Generations, d \in Endpoints : <<h, d>> # <<g, e>> =>
               job'[h][d] = job[h][d] /\ attempts'[h][d] = attempts[h][d]
    BY <1>1, <1>3, <1>5, <1>6 DEF TypeOK, JobTable
  <1>12. UNCHANGED <<msg, misjudged, status, up, recovering>> /\ up
    BY DEF claim
  <1>13. \A h \in Generations, d \in Endpoints : Sent(h, d)' = Sent(h, d)
    BY <1>12 DEF Sent
  <1>14. RunHoldsItsJob'
    BY <1>1, <1>7, <1>9, <1>11 DEF RunHoldsItsJob
  <1>15. NothingSentYet'
    <2>1. <<g, e>> \notin misjudged => Sent(g, e) = {}
      BY <1>1, <1>2 DEF UnsentClaimsAreTrue, UNSENT
    <2>2. PICK h \in Generations : h = g
      BY <1>1
    <2>3. <<h, e>> \notin misjudged' => Sent(h, e)' = {}
      BY <1>12, <1>13, <2>1, <2>2
    <2>4. run'.gen = h /\ run'.endpoint = e
      BY <1>9, <2>2
    <2> QED
      BY <2>3, <2>4 DEF NothingSentYet, Sent
  <1>16. RunAfterRecovery'
    BY <1>12 DEF claim, RunAfterRecovery
  <1>17. AttemptsLeft'
    BY <1>1, <1>2, <1>11, <1>12, <1>13 DEF AttemptsLeft
  <1>18. UnsentClaimsAreTrue'
    BY <1>11, <1>12, <1>13 DEF UnsentClaimsAreTrue, UNSENT
  <1>19. NoDuplicateMessage'
    BY <1>12, <1>13 DEF NoDuplicateMessage
  <1> QED
    BY <1>10, <1>14, <1>15, <1>16, <1>17, <1>18, <1>19

\* A collision counts the attempt and fails the job without a call.
LEMMA CollisionKeeps ==
    ASSUME DeliveryInvariant, NEW e \in Endpoints, claim_collision(e)
    PROVE  DeliveryInvariant'
  <1> USE DEF DeliveryInvariant, providerVars, truthVars
  <1> DEFINE g == run.gen
  <1>1. g \in Generations /\ run \in Run /\ run.phase = "loop"
    BY DEF claim_collision, RunHoldsItsJob, TypeOK
  <1>2. job[g][e] = "PENDING" /\ attempts[g][e] \in 0..Cap /\ attempts[g][e] < Cap
    BY <1>1 DEF claim_collision, Claimable, AttemptsLeft, TypeOK
  <1>3. CampaignTyped /\ job \in JobTable
    BY DEF TypeOK, CampaignTyped, JobTable
  <1>4. "FAILED_PERMANENT" \in JobStates \cup {"ABSENT"}
    BY DEF JobStates, TERMINAL
  <1>5. /\ CampaignTyped' /\ job' \in JobTable
        /\ job' = [job EXCEPT ![g][e] = "FAILED_PERMANENT"]
    <2>1. reduce(g, e, "FAILED_PERMANENT", Counted(g, e)[g])
      BY DEF claim_collision
    <2> QED
      BY <1>1, <1>3, <1>4, <2>1, ReduceTyped, SMTT(60) DEF JobTable
  <1>6. attempts' = [attempts EXCEPT ![g][e] = attempts[g][e] + 1]
    BY DEF claim_collision, Counted
  <1>7. attempts[g][e] + 1 \in 0..Cap
    BY <1>2, DeliveryAssumption
  <1>8. attempts' \in [Generations -> [Endpoints -> 0..Cap]]
    BY <1>1, <1>6, <1>7 DEF TypeOK
  <1>9. run' \in Run /\ run'.phase = "loop" /\ run'.gen = g
    <2>1. run' = [run EXCEPT !.todo = @ \ {e}]
      BY DEF claim_collision
    <2> QED
      BY <1>1, <2>1 DEF Run
  <1>10. TypeOK'
    BY <1>5, <1>8, <1>9 DEF claim_collision, TypeOK, CampaignTyped, JobTable
  <1>11. /\ job'[g][e] = "FAILED_PERMANENT"
         /\ \A h \in Generations, d \in Endpoints : <<h, d>> # <<g, e>> =>
               job'[h][d] = job[h][d] /\ attempts'[h][d] = attempts[h][d]
    BY <1>1, <1>3, <1>5, <1>6 DEF TypeOK, JobTable
  <1>12. UNCHANGED <<msg, misjudged, status, up, recovering>>
    BY DEF claim_collision
  <1>13. \A h \in Generations, d \in Endpoints : Sent(h, d)' = Sent(h, d)
    BY <1>12 DEF Sent
  <1>14. RunHoldsItsJob' /\ NothingSentYet'
    BY <1>1, <1>9 DEF RunHoldsItsJob, NothingSentYet
  <1>15. RunAfterRecovery'
    BY <1>1, <1>12 DEF RunAfterRecovery
  <1>16. AttemptsLeft'
    BY <1>1, <1>2, <1>11, <1>12, <1>13 DEF AttemptsLeft
  <1>17. UnsentClaimsAreTrue'
    BY <1>11, <1>12, <1>13 DEF UnsentClaimsAreTrue, UNSENT
  <1>18. NoDuplicateMessage'
    BY <1>12, <1>13 DEF NoDuplicateMessage
  <1> QED
    BY <1>10, <1>14, <1>15, <1>16, <1>17, <1>18

\* The provider call is the only step that makes a message, and it makes one
\* only for a job that had none.
LEMMA DeliverKeeps ==
    ASSUME DeliveryInvariant, deliver
    PROVE  DeliveryInvariant'
  <1> USE DEF DeliveryInvariant
  <1>1. PICK g \in Generations, e \in Endpoints, n \in Attempt :
           /\ g = run.gen /\ e = run.endpoint /\ n = run.attempt
           /\ job[g][e] \in {"IN_FLIGHT"} \cup PROVIDER_STATUSES
           /\ n = attempts[g][e]
    BY DEF deliver, RunHoldsItsJob
  <1> DEFINE repeat == TransportOf[e] \in Keyed /\ Sent(g, e) # {}
             Made == \E r \in MsgRefs : msg' = [msg EXCEPT ![g][e][n] = r]
  <1>2. PICK k \in RESULT_KINDS, a \in MsgRefs \cup {None} :
           /\ run' = [run EXCEPT !.phase = "delivered", !.kind = k, !.ref = a]
           /\ (~repeat /\ Made /\ k # "FAILED_TRANSIENT") \/ msg' = msg
    BY <1>1 DEF deliver, RESULT_KINDS, SUCCESS
  <1>3. run \in Run /\ run.phase = "claimed"
    BY DEF deliver, TypeOK
  <1>4. /\ run' \in Run
        /\ run'.phase = "delivered" /\ run'.kind = k
        /\ run'.gen = g /\ run'.endpoint = e /\ run'.attempt = n
    <2>1. run' \in Run
      BY <1>2, <1>3 DEF Run
    <2>2. /\ run'.phase = "delivered" /\ run'.kind = k /\ run'.gen = run.gen
          /\ run'.endpoint = run.endpoint /\ run'.attempt = run.attempt
      BY <1>2, <1>3 DEF Run
    <2> QED
      BY <1>1, <2>1, <2>2
  <1>5. UNCHANGED <<job, attempts, status, misjudged, up, recovering>> /\ up
    BY DEF deliver, dbVars
  <1>6. msg' \in [Generations -> [Endpoints -> [Attempt -> MsgRefs \cup {None}]]]
    <2>1. CASE Made
      BY <2>1 DEF TypeOK
    <2> QED
      BY <1>2, <2>1 DEF TypeOK
  <1>7. TypeOK'
    BY <1>4, <1>6 DEF deliver, TypeOK, dbVars
  <1>8. \A h \in Generations, d \in Endpoints :
           <<h, d>> # <<g, e>> => Sent(h, d)' = Sent(h, d)
    <2> SUFFICES ASSUME NEW h \in Generations, NEW d \in Endpoints,
                        <<h, d>> # <<g, e>>
                 PROVE  Sent(h, d)' = Sent(h, d)
      OBVIOUS
    <2>1. msg'[h][d] = msg[h][d]
      <3>1. CASE Made
        BY <3>1 DEF TypeOK
      <3> QED
        BY <1>2, <3>1
    <2> QED
      BY <2>1 DEF Sent
  <1>9. msg' = msg => Sent(g, e)' = Sent(g, e)
    BY DEF Sent
  <1>10. ASSUME Made, Sent(g, e) = {} PROVE \A i, j \in Sent(g, e)' : i = j
    <2>1. PICK r \in MsgRefs : msg' = [msg EXCEPT ![g][e][n] = r]
      BY <1>10
    <2>2. \A i \in Attempt : i # n => msg'[g][e][i] = msg[g][e][i]
      BY <2>1 DEF TypeOK
    <2>3. \A i \in Attempt : msg[g][e][i] = None
      BY <1>10 DEF Sent
    <2> QED
      BY <2>2, <2>3 DEF Sent
  <1>11. <<g, e>> \notin misjudged => Sent(g, e) = {}
    BY <1>1, <1>3 DEF NothingSentYet
  <1>12. RunHoldsItsJob'
    BY <1>1, <1>4, <1>5 DEF RunHoldsItsJob
  <1>13. NothingSentYet'
    <2>1. k = "FAILED_TRANSIENT" /\ <<g, e>> \notin misjudged' => Sent(g, e)' = {}
      BY <1>2, <1>5, <1>9, <1>11
    <2> QED
      BY <1>4, <2>1 DEF NothingSentYet, Sent
  <1>14. RunAfterRecovery'
    BY <1>3, <1>5 DEF RunAfterRecovery
  <1>15. AttemptsLeft'
    <2>1. status[g] # "unused"
      BY <1>1 DEF AttemptsLeft, PROVIDER_STATUSES
    <2> SUFFICES ASSUME NEW h \in Generations, NEW d \in Endpoints
                 PROVE  /\ job'[h][d] = "PENDING" => attempts'[h][d] < Cap
                        /\ status'[h] = "unused" => /\ job'[h][d] = "ABSENT"
                                                    /\ attempts'[h][d] = 0
                                                    /\ Sent(h, d)' = {}
      BY DEF AttemptsLeft
    <2> QED
      BY <1>5, <1>8, <2>1 DEF AttemptsLeft
  <1>16. UnsentClaimsAreTrue'
    <2>1. job[g][e] \notin UNSENT
      BY <1>1 DEF UNSENT, PROVIDER_STATUSES
    <2> SUFFICES ASSUME NEW h \in Generations, NEW d \in Endpoints,
                        job'[h][d] \in UNSENT, <<h, d>> \notin misjudged'
                 PROVE  Sent(h, d)' = {}
      BY DEF UnsentClaimsAreTrue
    <2> QED
      BY <1>5, <1>8, <2>1 DEF UnsentClaimsAreTrue
  <1>17. NoDuplicateMessage'
    <2> SUFFICES ASSUME NEW h \in Generations, NEW d \in Endpoints,
                        <<h, d>> \notin misjudged' \/ TransportOf[d] \in Keyed
                 PROVE  \A i, j \in Sent(h, d)' : i = j
      BY DEF NoDuplicateMessage
    <2>1. <<h, d>> \notin misjudged \/ TransportOf[d] \in Keyed
      BY <1>5
    <2>2. \A i, j \in Sent(h, d) : i = j
      BY <2>1 DEF NoDuplicateMessage
    <2>3. CASE <<h, d>> # <<g, e>>
      BY <1>8, <2>2, <2>3
    <2>4. CASE h = g /\ d = e
      <3>1. CASE msg' = msg
        BY <1>9, <2>2, <2>4, <3>1
      <3>2. CASE ~repeat /\ Made
        <4>1. Sent(g, e) = {}
          BY <1>11, <2>1, <2>4, <3>2
        <4> QED
          BY <1>10, <2>4, <3>2, <4>1
      <3> QED
        BY <1>2, <3>1, <3>2
    <2> QED
      BY <2>3, <2>4
  <1> QED
    BY <1>7, <1>12, <1>13, <1>14, <1>15, <1>16, <1>17

\* Every step of the engine keeps the invariant.
LEMMA EngineStepKeeps ==
    ASSUME DeliveryInvariant, EngineStep
    PROVE  DeliveryInvariant'
  BY ClaimKeeps, CollisionKeeps, SkipKeeps, RunOnlyStep, DeliverKeeps, RecordKeeps
     DEF EngineStep

-----------------------------------------------------------------------------
(* The host.                                                               *)

\* Recovery: no run holds a job, so an in-flight one may be called unknown.
LEMMA RecoverKeeps ==
    ASSUME DeliveryInvariant, NEW c \in Campaigns, recover(c)
    PROVE  DeliveryInvariant'
  <1> USE DEF DeliveryInvariant, providerVars, truthVars
  <1> DEFINE g == current[c]
             jobs == [h \in Generations |-> IF owner[h] = c THEN Recovered(job[h])
                                            ELSE job[h]]
  <1>1. job' = jobs
    BY DEF recover
  <1>2. CampaignTyped
    BY DEF TypeOK, CampaignTyped
  <1>3. CampaignTyped'
    <2>1. lifecycle[c] \in Lifecycles
      BY DEF TypeOK
    <2>2. CASE Settle(c, jobs[g], attempts[g], lifecycle[c])
      BY <1>2, <2>1, <2>2, SettleTyped
    <2>3. CASE UNCHANGED campaignVars
      BY <1>2, <2>3 DEF CampaignTyped, campaignVars
    <2> QED
      BY <2>2, <2>3 DEF recover
  <1>4. \A h \in Generations : /\ job'[h] \in [Endpoints -> JobStates \cup {"ABSENT"}]
                               /\ \A e \in Endpoints :
                                     \/ job'[h][e] = job[h][e]
                                     \/ /\ job[h][e] = "IN_FLIGHT"
                                        /\ job'[h][e] = "OUTCOME_UNKNOWN"
    BY <1>1 DEF Recovered, TypeOK, JobStates, RankedStates
  <1>5. job' \in JobTable
    <2>1. job' = [h \in Generations |-> job'[h]]
      BY <1>1
    <2> QED
      BY <1>4, <2>1 DEF JobTable
  <1>6. TypeOK'
    BY <1>3, <1>5 DEF recover, TypeOK, CampaignTyped, JobTable
  <1>7. run' = run /\ run.phase = "idle"
    BY DEF recover, RunAfterRecovery
  <1>8. RunAfterRecovery' /\ Released
    BY <1>7 DEF RunAfterRecovery, Released
  <1>9. \A h \in Generations, e \in Endpoints : OutsideMove(h, e)
    BY <1>4, <1>8 DEF OutsideMove
  <1>10. \A h \in Generations : status'[h] = "unused" =>
            status[h] = "unused" /\ job'[h] = job[h]
    <2> SUFFICES ASSUME NEW h \in Generations, status[h] = "unused"
                 PROVE  job'[h] = job[h]
      BY DEF recover
    <2>1. \A e \in Endpoints : job'[h][e] = job[h][e]
      BY <1>4 DEF AttemptsLeft
    <2>2. job[h] \in [Endpoints -> JobStates \cup {"ABSENT"}]
      BY DEF TypeOK
    <2> QED
      BY <1>4, <2>1, <2>2
  <1> QED
    BY <1>6, <1>7, <1>8, <1>9, <1>10, Outside DEF recover

\* Crash, restart, recovery, the latch and the clock.
LEMMA HostStep ==
    ASSUME DeliveryInvariant, Host
    PROVE  DeliveryInvariant'
  <1> USE DEF DeliveryInvariant, providerVars, processVars, truthVars
  <1>1. CASE crash
    <2>1. run' \in Run /\ run'.phase = "idle"
      BY <1>1, IdleRunTyped DEF crash
    <2>2. TypeOK' /\ RunAfterRecovery' /\ Released
      BY <1>1, <2>1 DEF crash, TypeOK, RunAfterRecovery, Released, dbVars
    <2> QED
      BY <1>1, <2>1, <2>2, ReleaseKeeps DEF crash, dbVars
  <1>2. CASE restart
    <2>1. run' = run /\ run.phase = "idle"
      BY <1>2 DEF restart, RunAfterRecovery
    <2>2. recovering' \subseteq Campaigns
      BY <1>2 DEF restart
    <2>3. TypeOK' /\ RunAfterRecovery' /\ Released
      BY <1>2, <2>1, <2>2 DEF restart, TypeOK, RunAfterRecovery, Released, dbVars
    <2> QED
      BY <1>2, <2>1, <2>3, ReleaseKeeps DEF restart, dbVars
  <1>3. CASE \E c \in Campaigns : recover(c)
    BY <1>3, RecoverKeeps
  <1>4. CASE latch_degraded \/ clear_degraded
    BY <1>4, AsideKeeps DEF latch_degraded, clear_degraded, TypeOK, Aside
  <1>5. CASE tick
    <2>1. now' \in 0..MaxTime
      BY <1>5, DeliveryAssumption DEF tick, TypeOK
    <2> QED
      BY <1>5, <2>1, AsideKeeps DEF tick, TypeOK, Aside, dbVars
  <1> QED
    BY <1>1, <1>2, <1>3, <1>4, <1>5 DEF Host

-----------------------------------------------------------------------------
(* The theorems.                                                           *)

\* It holds of an empty database and an idle engine.
LEMMA InitInvariant == Init => DeliveryInvariant
  <1> SUFFICES ASSUME Init PROVE DeliveryInvariant
    OBVIOUS
  <1>1. TypeOK
    <2>1. run \in Run
      BY IdleRunTyped DEF Init
    <2>2. <<>> \in Seq(PROVIDER_STATUSES)
      OBVIOUS
    <2>3. pending \in [Transports -> [MsgRefs -> Seq(PROVIDER_STATUSES)]]
      BY <2>2 DEF Init
    <2>4. lifecycle \in [Campaigns -> Lifecycles]
      BY DEF Init, Lifecycles
    <2>5. trail \in [Campaigns -> [lifecycle : Lifecycles,
                                   summary : Summaries \cup {None}]]
      BY DEF Init, Lifecycles
    <2>6. attempts \in [Generations -> [Endpoints -> 0..Cap]]
      BY DeliveryAssumption DEF Init
    <2>7. sendAt \in [Generations -> 0..MaxTime] /\ now \in 0..MaxTime
      BY DeliveryAssumption DEF Init
    <2> QED
      BY <2>1, <2>3, <2>4, <2>5, <2>6, <2>7 DEF Init, TypeOK
  <1>2. \A g \in Generations, e \in Endpoints : Sent(g, e) = {}
    BY DEF Init, Sent
  <1>3. run.phase = "idle"
    BY IdleRunTyped DEF Init
  <1>4. AttemptsLeft
    BY <1>2, DeliveryAssumption DEF Init, AttemptsLeft
  <1> QED
    BY <1>1, <1>2, <1>3, <1>4 DEF DeliveryInvariant, RunHoldsItsJob,
       NothingSentYet, RunAfterRecovery, UnsentClaimsAreTrue, NoDuplicateMessage

\* Every step of the program keeps the invariant.
LEMMA NextInvariant == DeliveryInvariant /\ [Next]_vars => DeliveryInvariant'
  <1> SUFFICES ASSUME DeliveryInvariant, [Next]_vars PROVE DeliveryInvariant'
    OBVIOUS
  <1>1. CASE Next
    BY <1>1, DraftStep, FreezeStep, OperatorStep, StartStep, VerdictStep,
       ProviderStep, EngineStepKeeps, HostStep DEF Next
  <1>2. CASE UNCHANGED vars
    BY <1>2, AsideKeeps DEF vars, Aside, DeliveryInvariant, TypeOK
  <1> QED
    BY <1>1, <1>2

\* The invariant holds in every reachable state, whatever the campaigns,
\* generations, endpoints, transports, references and attempt cap.
THEOREM Inductive == Spec => []DeliveryInvariant
  BY InitInvariant, NextInvariant, PTL DEF Spec

\* Every row the code writes has its type; above all the attempt count of a
\* job never passes the cap, and a run's attempt is one that exists.
THEOREM TypeCorrect == Spec => []TypeOK
  <1>1. DeliveryInvariant => TypeOK
    BY DEF DeliveryInvariant
  <1> QED
    BY <1>1, Inductive, PTL

\* A job recorded as waiting, retryable, skipped or cancelled has sent nothing
\* unless an operator's verdict about it was wrong: the engine may claim it
\* without risking a second message.
THEOREM UnsentRecordsAreTrue == Spec => []UnsentClaimsAreTrue
  <1>1. DeliveryInvariant => UnsentClaimsAreTrue
    BY DEF DeliveryInvariant
  <1> QED
    BY <1>1, Inductive, PTL

\* No identity gets two messages of one generation, through any interleaving
\* of retries, crashes, recoveries, late reports and cancellations, unless an
\* operator declared an existing message unsent; a keyed transport withstands
\* even that.
THEOREM AtMostOneMessage == Spec => []NoDuplicateMessage
  <1>1. DeliveryInvariant => NoDuplicateMessage
    BY DEF DeliveryInvariant
  <1> QED
    BY <1>1, Inductive, PTL

-----------------------------------------------------------------------------
(* Replaying reports.                                                      *)

\* A set of naturals that is not empty has a least element.
LEMMA LeastNatural ==
    ASSUME NEW T, T \subseteq Nat, T # {}
    PROVE  \E x \in T : \A y \in T : ~(y < x)
  <1> DEFINE Less == OpToRel(<, Nat)
  <1>1. IsWellFoundedOn(Less, Nat)
    BY NatLessThanWellFounded, Zenon
  <1>2. \A x, y \in Nat : y < x => <<y, x>> \in Less
    BY DEF OpToRel
  <1>3. \E x \in T : \A y \in T : ~ (<<y, x>> \in Less)
    <2> HIDE DEF Less
    <2> QED BY <1>1, WFMin
  <1> HIDE DEF Less
  <1> QED
    BY <1>2, <1>3

\* No number of waiting reports moves a job out of a terminal state, or out of
\* DELIVERED: the first report to do so would have to apply to that state.
LEMMA ReplayFixed ==
    ASSUME NEW s, s \in TERMINAL \cup {"DELIVERED"}, NEW b,
           NEW q \in Seq(PROVIDER_STATUSES), NEW st \in Replays(s, q, b),
           NEW k \in 0..Len(q)
    PROVE  st[k] = s
  <1> DEFINE T == {i \in 0..Len(q) : st[i] # s}
  <1>1. SUFFICES ASSUME T # {} PROVE FALSE
    OBVIOUS
  <1>2. PICK i \in T : \A j \in T : ~(j < i)
    <2>1. T \subseteq Nat
      OBVIOUS
    <2> HIDE DEF T
    <2> QED BY <1>1, <2>1, LeastNatural
  <1>3. i # 0 /\ i \in 1..Len(q) /\ i - 1 \in 0..Len(q) /\ i - 1 < i
    BY DEF Replays
  <1>4. st[i - 1] = s
    BY <1>2, <1>3
  <1>5. st[i] = AfterProvider(s, q[i], b)
    BY <1>3, <1>4 DEF Replays
  <1>6. ~ProviderApplies(s, q[i], b)
    <2>1. q[i] \in PROVIDER_STATUSES
      BY <1>3
    <2> QED
      BY <2>1 DEF ProviderApplies, TERMINAL, SUCCESS, RankedStates, RANK,
                  PROVIDER_STATUSES
  <1> QED
    BY <1>5, <1>6 DEF AfterProvider

-----------------------------------------------------------------------------
(* What evidence does to a job, as a climb.                                *)

AnyState == JobStates \cup {"ABSENT"}

\* A report, applied or not, is a climb.
LEMMA ReportClimbs ==
    ASSUME NEW s \in AnyState, NEW v \in PROVIDER_STATUSES, NEW b
    PROVE  /\ Climbs(s, AfterProvider(s, v, b))
           /\ AfterProvider(s, v, b) \in AnyState
           /\ AfterProvider(s, v, b) = s \/ AfterProvider(s, v, b) = v
  BY DEF Climbs, AfterProvider, ProviderApplies, AnyState, JobStates, TERMINAL,
         SUCCESS, RankedStates, RANK, PROVIDER_STATUSES, NAMED_DESCENTS

\* A claimed job may end in any result.
LEMMA InFlightClimbs ==
    ASSUME NEW z \in RESULT_KINDS PROVE Climbs("IN_FLIGHT", z)
  BY DEF Climbs, RESULT_KINDS, TERMINAL, SUCCESS, RankedStates, RANK,
         NAMED_DESCENTS

\* However many reports are replayed, the job climbs from where it was.
LEMMA ReplayClimbs ==
    ASSUME NEW s \in AnyState, NEW b, NEW q \in Seq(PROVIDER_STATUSES),
           NEW st \in Replays(s, q, b), NEW k \in 0..Len(q)
    PROVE  Climbs(s, st[k])
  <1>1. st[k] = s \/ st[k] \in PROVIDER_STATUSES
    BY ReplayCases
  <1>2. CASE s \in TERMINAL \cup {"DELIVERED"}
    BY <1>2, ReplayFixed DEF Climbs
  <1>3. CASE s \notin TERMINAL \cup {"DELIVERED"}
    BY <1>1, <1>3 DEF Climbs, AnyState, JobStates, TERMINAL, SUCCESS,
                      RankedStates, RANK, PROVIDER_STATUSES, NAMED_DESCENTS
  <1> QED
    BY <1>2, <1>3

\* Binding a reference is one reduce, to a state that climbs from s.
LEMMA BindReduces ==
    ASSUME DeliveryInvariant, NEW g \in Generations, NEW e \in Endpoints,
           NEW n, NEW r \in MsgRefs, NEW s \in AnyState,
           bind_provider_ref(g, e, n, r, s)
    PROVE  \E z \in AnyState : /\ reduce(g, e, z, attempts[g])
                               /\ z = s \/ z \in PROVIDER_STATUSES
                               /\ Climbs(s, z)
  <1> DEFINE t == TransportOf[e]
             alone == Matches(t, r) = {}
             q == IF alone THEN pending[t][r] ELSE <<>>
             i == IF alone THEN Len(pending[t][r]) ELSE 0
  <1>1. t \in Transports
    BY DeliveryAssumption
  <1>2. pending[t][r] \in Seq(PROVIDER_STATUSES)
    BY <1>1 DEF DeliveryInvariant, TypeOK
  <1>3. PICK st \in Replays(s, q, n = attempts[g][e]) :
           reduce(g, e, st[i], attempts[g])
    BY DEF bind_provider_ref
  <1>4. q \in Seq(PROVIDER_STATUSES) /\ i \in 0..Len(q)
    BY <1>2
  <1> HIDE DEF q, i
  <1>5. st[i] = s \/ st[i] \in PROVIDER_STATUSES
    BY <1>4, ReplayCases
  <1>6. Climbs(s, st[i])
    BY <1>4, ReplayClimbs
  <1>7. st[i] \in AnyState
    BY <1>5 DEF AnyState, PROVIDER_STATUSES, JobStates, RankedStates, TERMINAL
  <1> QED
    BY <1>3, <1>5, <1>6, <1>7

-----------------------------------------------------------------------------
(* The steps that reduce one job of a started generation.                  *)

\* Job (g, e) moves to s, and its campaign settles.  Only a claim makes an
\* attempt, and only of a campaign that is sending; a job becomes a success
\* only where there is a message, or an operator was wrong to say so.
Reduction(g, e, s) ==
    /\ reduce(g, e, s, attempts'[g])
    /\ UNCHANGED <<current, owner, status, sendAt, now, msg>>
    /\ misjudged \subseteq misjudged'
    /\ \/ attempts' = attempts /\ (s = job[g][e] \/ s \notin ACTIVE)
       \/ /\ attempts' = Counted(g, e)
          /\ job[g][e] = "PENDING"
          /\ lifecycle[owner[g]] = "SENDING"
          /\ s \in {"IN_FLIGHT", "FAILED_PERMANENT"}
    /\ Climbs(job[g][e], s)
    /\ s \in SUCCESS /\ job[g][e] \notin SUCCESS =>
          Sent(g, e) # {} \/ <<g, e>> \in misjudged'

Reduces == \E g \in Generations, e \in Endpoints, s \in AnyState :
              Started(g) /\ Reduction(g, e, s)

\* The campaign rows and the job table as they were.
Kept == UNCHANGED <<lifecycle, summary, trail, current, owner, status, sendAt,
                    job, attempts, misjudged>>

\* An operator's verdict.
LEMMA VerdictReduces ==
    ASSUME DeliveryInvariant, RecordsInvariant, NEW g \in Generations,
           NEW e \in Endpoints, NEW sent \in BOOLEAN, resolve_outcome(g, e, sent)
    PROVE  Reduces
  <1> DEFINE s == IF sent THEN "ACCEPTED" ELSE "FAILED_TRANSIENT"
  <1>1. Started(g)
    BY DEF resolve_outcome, RecordsInvariant, NothingBeforeStart
  <1>2. attempts' = attempts /\ reduce(g, e, s, attempts'[g])
    BY DEF resolve_outcome
  <1>3. s \in AnyState /\ s \notin ACTIVE
    BY DEF AnyState, JobStates, RankedStates, ACTIVE
  <1>4. Climbs(job[g][e], s)
    BY DEF resolve_outcome, Climbs, TERMINAL, SUCCESS, RankedStates, RANK,
           NAMED_DESCENTS
  <1>5. s \in SUCCESS => Sent(g, e) # {} \/ <<g, e>> \in misjudged'
    BY DEF resolve_outcome, SUCCESS
  <1>6. misjudged \subseteq misjudged'
    BY DEF resolve_outcome
  <1> HIDE DEF s
  <1>7. Reduction(g, e, s)
    BY <1>2, <1>3, <1>4, <1>5, <1>6 DEF Reduction, resolve_outcome
  <1> QED
    BY <1>1, <1>3, <1>7 DEF Reduces

\* A provider's report waits, is refused as ambiguous, or reduces one job.
LEMMA UpdateReduces ==
    ASSUME DeliveryInvariant, RecordsInvariant, NEW t \in Transports,
           NEW r \in MsgRefs, NEW v \in PROVIDER_STATUSES, provider_update(t, r, v)
    PROVE  Kept \/ Reduces
  <1> USE DEF processVars, truthVars, campaignVars
  <1>1. CASE UNCHANGED <<job, campaignVars>>
    BY <1>1 DEF provider_update, Kept
  <1>2. ASSUME NEW g \in Generations, NEW e \in Endpoints, NEW n \in Attempt,
               Matches(t, r) = {<<g, e, n>>},
               reduce(g, e, AfterProvider(job[g][e], v, n = attempts[g][e]),
                      attempts[g])
        PROVE  Reduces
    <2> DEFINE s == AfterProvider(job[g][e], v, n = attempts[g][e])
    <2>1. bound[g][e][n] = r /\ r # None
      <3>1. <<g, e, n>> \in Matches(t, r)
        BY <1>2
      <3> QED
        BY <3>1, DeliveryAssumption DEF Matches
    <2>2. Started(g) /\ Sent(g, e) # {}
      BY <2>1 DEF RecordsInvariant, NothingBeforeStart, EvidenceIsReal
    <2>3. job[g][e] \in AnyState
      BY DEF DeliveryInvariant, TypeOK, AnyState
    <2>4. Climbs(job[g][e], s) /\ s \in AnyState /\ (s = job[g][e] \/ s = v)
      BY <2>3, ReportClimbs
    <2>5. s = job[g][e] \/ s \notin ACTIVE
      BY <2>4 DEF PROVIDER_STATUSES, ACTIVE
    <2>6. reduce(g, e, s, attempts[g])
      BY <1>2
    <2> HIDE DEF s
    <2>7. Reduction(g, e, s)
      BY <2>2, <2>4, <2>5, <2>6 DEF Reduction, provider_update
    <2> QED
      BY <2>2, <2>4, <2>7 DEF Reduces
  <1> QED
    BY <1>1, <1>2 DEF provider_update

\* A late message id binds a reference to a job that has a message.
LEMMA CorrelateReduces ==
    ASSUME DeliveryInvariant, RecordsInvariant, NEW g \in Generations,
           NEW e \in Endpoints, NEW r \in MsgRefs, correlate_message_id(g, e, r)
    PROVE  Reduces
  <1>1. Sent(g, e) # {}
    BY DEF correlate_message_id
  <1>2. Started(g)
    BY <1>1 DEF RecordsInvariant, NothingBeforeStart
  <1>3. job[g][e] \in AnyState
    BY DEF DeliveryInvariant, TypeOK, AnyState
  <1>4. bind_provider_ref(g, e, attempts[g][e], r, job[g][e])
    BY DEF correlate_message_id
  <1>5. PICK z \in AnyState : /\ reduce(g, e, z, attempts[g])
                              /\ z = job[g][e] \/ z \in PROVIDER_STATUSES
                              /\ Climbs(job[g][e], z)
    BY <1>3, <1>4, BindReduces
  <1>6. z = job[g][e] \/ z \notin ACTIVE
    BY <1>5 DEF PROVIDER_STATUSES, ACTIVE
  <1>7. Reduction(g, e, z)
    BY <1>1, <1>5, <1>6 DEF Reduction, correlate_message_id, processVars, truthVars
  <1> QED
    BY <1>2, <1>7 DEF Reduces

\* The engine claims a job, fails it on a key collision, or skips it.
LEMMA ClaimReduces ==
    ASSUME DeliveryInvariant, RecordsInvariant, NEW e \in Endpoints,
           claim(e) \/ claim_collision(e) \/ skip_revalidation(e)
    PROVE  Reduces
  <1> DEFINE g == run.gen
  <1>1. g \in Generations /\ Started(g)
    BY DEF claim, claim_collision, skip_revalidation, DeliveryInvariant,
           RunHoldsItsJob, RecordsInvariant, RunHasStarted
  <1>2. job[g][e] = "PENDING"
    BY DEF claim, claim_collision, skip_revalidation, Claimable
  <1>3. \A s \in {"IN_FLIGHT", "FAILED_PERMANENT", "SKIPPED_REVALIDATION"} :
           Climbs("PENDING", s) /\ s \in AnyState /\ s \notin SUCCESS
    BY DEF Climbs, TERMINAL, SUCCESS, RankedStates, RANK, AnyState, JobStates
  <1>4. CASE claim(e)
    <2>1. Reduction(g, e, "IN_FLIGHT")
      BY <1>2, <1>3, <1>4 DEF Reduction, claim, Claimable, truthVars
    <2> QED
      BY <1>1, <1>3, <2>1 DEF Reduces
  <1>5. CASE claim_collision(e)
    <2>1. Reduction(g, e, "FAILED_PERMANENT")
      BY <1>2, <1>3, <1>5 DEF Reduction, claim_collision, Claimable, truthVars
    <2> QED
      BY <1>1, <1>3, <2>1 DEF Reduces
  <1>6. CASE skip_revalidation(e)
    <2>1. Reduction(g, e, "SKIPPED_REVALIDATION")
      BY <1>2, <1>3, <1>6 DEF Reduction, skip_revalidation, truthVars, ACTIVE
    <2> QED
      BY <1>1, <1>3, <2>1 DEF Reduces
  <1> QED
    BY <1>4, <1>5, <1>6

\* The engine records a result, with or without the provider's reference.
LEMMA RecordReduces ==
    ASSUME DeliveryInvariant, RecordsInvariant, record
    PROVE  Reduces
  <1> USE DEF truthVars
  <1>1. PICK g \in Generations, e \in Endpoints, n \in Attempt :
           /\ g = run.gen /\ e = run.endpoint /\ n = run.attempt
           /\ n = attempts[g][e]
           /\ job[g][e] \in {"IN_FLIGHT"} \cup PROVIDER_STATUSES
    BY DEF record, DeliveryInvariant, RunHoldsItsJob
  <1>2. Started(g)
    BY <1>1 DEF record, RecordsInvariant, RunHasStarted
  <1>3. run.kind \in RESULT_KINDS /\ run.ref \in MsgRefs \cup {None}
    BY DEF DeliveryInvariant, TypeOK, Run
  <1>4. run.kind \in SUCCESS \/ run.ref # None => Sent(g, e) # {}
    BY <1>1 DEF record, RecordsInvariant, EvidenceIsReal
  <1> DEFINE s == AfterResult(job[g][e], run.kind, n = attempts[g][e])
  <1>5. \/ job[g][e] = "IN_FLIGHT" /\ s = run.kind
        \/ job[g][e] \in PROVIDER_STATUSES /\ s = job[g][e]
    BY <1>1 DEF AfterResult, ResultApplies, PROVIDER_STATUSES
  <1>6. s \in AnyState /\ s \notin ACTIVE
    BY <1>3, <1>5 DEF AnyState, JobStates, RankedStates, TERMINAL, RESULT_KINDS,
                      PROVIDER_STATUSES, ACTIVE
  <1>7. \/ reduce(g, e, s, attempts[g])
        \/ run.ref # None /\ bind_provider_ref(g, e, n, run.ref, s)
    BY <1>1 DEF record
  <1> HIDE DEF s
  <1>8. PICK z \in AnyState : /\ reduce(g, e, z, attempts[g])
                              /\ z = s \/ (z \in PROVIDER_STATUSES /\ run.ref # None)
                              /\ Climbs(s, z)
    <2>1. CASE reduce(g, e, s, attempts[g])
      BY <1>6, <2>1 DEF Climbs
    <2>2. CASE run.ref # None /\ bind_provider_ref(g, e, n, run.ref, s)
      BY <1>3, <1>6, <2>2, BindReduces
    <2> QED
      BY <1>7, <2>1, <2>2
  <1>9. z \notin ACTIVE
    BY <1>6, <1>8 DEF PROVIDER_STATUSES, ACTIVE
  <1>10. Climbs(job[g][e], z)
    <2>1. CASE job[g][e] = "IN_FLIGHT"
      <3>1. z \in RESULT_KINDS
        BY <1>3, <1>5, <1>8, <2>1 DEF RESULT_KINDS, PROVIDER_STATUSES
      <3> QED
        BY <2>1, <3>1, InFlightClimbs
    <2>2. CASE job[g][e] # "IN_FLIGHT"
      BY <1>5, <1>8, <2>2
    <2> QED
      BY <2>1, <2>2
  <1>11. z \in SUCCESS /\ job[g][e] \notin SUCCESS => Sent(g, e) # {}
    BY <1>4, <1>5, <1>8
  <1>12. Reduction(g, e, z)
    BY <1>8, <1>9, <1>10, <1>11 DEF Reduction, record
  <1> QED
    BY <1>2, <1>12 DEF Reduces

-----------------------------------------------------------------------------
(* The shapes of a step.                                                   *)

\* SummaryIsDerived and TrailIsFaithful, of one campaign.
Derived(c) ==
    LET g == current[c]
    IN IF lifecycle[c] \in {"SCHEDULED", "SENDING", "COMPLETE"}
       THEN /\ g # None
            /\ owner[g] = c
            /\ summary[c] = summarize(StatesOf(job[g]), Attempted(attempts[g]))
            /\ (lifecycle[c] = "COMPLETE") = Idle(job[g])
       ELSE g = None /\ summary[c] = None

Faithful(c) ==
    /\ trail[c].lifecycle = lifecycle[c]
    /\ lifecycle[c] = "COMPLETE" => trail[c].summary = summary[c]

\* The step changes jobs of g only, the current generation of a campaign c
\* that has started, and settles c.
Settles(c, g) ==
    /\ current[c] = g
    /\ lifecycle[c] \in {"SENDING", "COMPLETE"}
    /\ lifecycle'[c] \in {"SENDING", "COMPLETE"}
    /\ UNCHANGED <<current, owner, status, sendAt>>
    /\ \A d \in Campaigns \ {c} : /\ lifecycle'[d] = lifecycle[d]
                                  /\ summary'[d] = summary[d]
                                  /\ trail'[d] = trail[d]
    /\ \A h \in Generations \ {g} : job'[h] = job[h] /\ attempts'[h] = attempts[h]
    /\ Derived(c)'
    /\ Faithful(c) => Faithful(c)'

\* What settling does to the campaign row and to the trail.
LEMMA SettleEffect ==
    ASSUME CampaignTyped, NEW c \in Campaigns, NEW jobs, NEW counts,
           Settle(c, jobs, counts, lifecycle[c])
    PROVE  /\ summary'[c] = summarize(StatesOf(jobs), Attempted(counts))
           /\ lifecycle'[c] = IF lifecycle[c] = "SENDING" /\ Idle(jobs)
                              THEN "COMPLETE" ELSE lifecycle[c]
           /\ \A d \in Campaigns \ {c} : /\ lifecycle'[d] = lifecycle[d]
                                         /\ summary'[d] = summary[d]
                                         /\ trail'[d] = trail[d]
           /\ Faithful(c) => Faithful(c)'
  <1> DEFINE s == summarize(StatesOf(jobs), Attempted(counts))
  <1>1. summary' = [summary EXCEPT ![c] = s]
    BY DEF Settle, refresh_summary
  <1>2. lifecycle' = [lifecycle EXCEPT
                        ![c] = IF lifecycle[c] = "SENDING" /\ Idle(jobs)
                               THEN "COMPLETE" ELSE lifecycle[c]]
    BY DEF Settle, complete_if_idle
  <1>3. trail' = [trail EXCEPT ![c] =
           IF lifecycle[c] = "SENDING" /\ Idle(jobs)
           THEN [lifecycle |-> "COMPLETE", summary |-> s]
           ELSE IF lifecycle[c] = "COMPLETE" /\ s # summary[c]
           THEN [@ EXCEPT !.summary = s]
           ELSE @]
    BY DEF Settle, append_event
  <1> HIDE DEF s
  <1>4. trail[c] \in [lifecycle : Lifecycles, summary : Summaries \cup {None}]
    BY DEF CampaignTyped
  <1>5. summary'[c] = s /\ lifecycle'[c] = IF lifecycle[c] = "SENDING" /\ Idle(jobs)
                                           THEN "COMPLETE" ELSE lifecycle[c]
    BY <1>1, <1>2 DEF CampaignTyped
  <1>6. trail'[c] = IF lifecycle[c] = "SENDING" /\ Idle(jobs)
                    THEN [lifecycle |-> "COMPLETE", summary |-> s]
                    ELSE IF lifecycle[c] = "COMPLETE" /\ s # summary[c]
                    THEN [trail[c] EXCEPT !.summary = s]
                    ELSE trail[c]
    BY <1>3 DEF CampaignTyped
  <1>7. Faithful(c) => Faithful(c)'
    <2>1. CASE lifecycle[c] = "SENDING" /\ Idle(jobs)
      BY <1>5, <1>6, <2>1 DEF Faithful
    <2>2. CASE ~(lifecycle[c] = "SENDING" /\ Idle(jobs))
               /\ lifecycle[c] = "COMPLETE" /\ s # summary[c]
      BY <1>4, <1>5, <1>6, <2>2 DEF Faithful
    <2>3. CASE ~(lifecycle[c] = "SENDING" /\ Idle(jobs))
               /\ ~(lifecycle[c] = "COMPLETE" /\ s # summary[c])
      BY <1>5, <1>6, <2>3 DEF Faithful
    <2> QED
      BY <2>1, <2>2, <2>3
  <1>8. \A d \in Campaigns \ {c} : /\ lifecycle'[d] = lifecycle[d]
                                   /\ summary'[d] = summary[d]
                                   /\ trail'[d] = trail[d]
    BY <1>1, <1>2, <1>3 DEF CampaignTyped
  <1> QED
    BY <1>5, <1>7, <1>8 DEF s

\* A started generation is one the model knows, and a campaign that sends or
\* is complete has it.
LEMMA StartedFacts ==
    ASSUME DeliveryInvariant, RecordsInvariant, NEW c \in Campaigns,
           lifecycle[c] \in {"SENDING", "COMPLETE"}
    PROVE  /\ current[c] \in Generations
           /\ owner[current[c]] = c
           /\ Started(current[c])
           /\ Derived(c)
  <1>1. Derived(c)
    BY DEF RecordsInvariant, SummaryIsDerived, Derived
  <1>2. current[c] \in Generations
    BY <1>1 DEF Derived, DeliveryInvariant, TypeOK
  <1> QED
    BY <1>1, <1>2 DEF Derived, Started

\* Reducing one job of a started generation settles its campaign.
LEMMA ReductionSettles ==
    ASSUME DeliveryInvariant, RecordsInvariant, NEW g \in Generations,
           NEW e \in Endpoints, NEW s \in AnyState, Started(g), Reduction(g, e, s)
    PROVE  \E c \in Campaigns : Settles(c, g)
  <1> USE DEF DeliveryInvariant
  <1>1. PICK c \in Campaigns : /\ c = owner[g] /\ current[c] = g
                               /\ lifecycle[c] \in {"SENDING", "COMPLETE"}
    BY DEF Started
  <1> DEFINE jobs == [job[g] EXCEPT ![e] = s]
  <1>2. job \in [Generations -> [Endpoints -> AnyState]]
    BY DEF TypeOK, AnyState
  <1>3. job' = [job EXCEPT ![g][e] = s]
    BY DEF Reduction, reduce
  <1>4. job'[g] = jobs /\ \A h \in Generations \ {g} : job'[h] = job[h]
    BY <1>2, <1>3
  <1>5. \A h \in Generations \ {g} : attempts'[h] = attempts[h]
    BY DEF Reduction, Counted, TypeOK
  <1>6. Settle(c, jobs, attempts'[g], lifecycle[c]) \/ UNCHANGED campaignVars
    BY <1>1 DEF Reduction, reduce
  <1>7. s # job[g][e] => Settle(c, jobs, attempts'[g], lifecycle[c])
    BY <1>1 DEF Reduction, reduce
  <1>8. Derived(c)
    BY <1>1, StartedFacts
  <1>9. CampaignTyped
    BY DEF CampaignTyped, TypeOK
  <1>10. CASE s = job[g][e]
    <2>1. attempts' = attempts
      BY <1>10 DEF Reduction
    <2>2. job' = job
      BY <1>2, <1>3, <1>10
    <2>3. UNCHANGED campaignVars
      BY <1>10 DEF Reduction, reduce
    <2>4. current' = current /\ owner' = owner
      BY DEF Reduction
    <2>5. Derived(c)' /\ (Faithful(c) => Faithful(c)')
      BY <1>8, <2>1, <2>2, <2>3, <2>4 DEF campaignVars, Derived, Faithful
    <2>6. UNCHANGED <<lifecycle, summary, trail, current, owner, status, sendAt>>
      BY <2>3 DEF Reduction, campaignVars
    <2>7. Settles(c, g)
      BY <1>1, <2>1, <2>2, <2>5, <2>6 DEF Settles
    <2> QED
      BY <1>1, <2>7
  <1>11. CASE s # job[g][e]
    <2>1. Settle(c, jobs, attempts'[g], lifecycle[c])
      BY <1>7, <1>11
    <2> HIDE DEF jobs
    <2>2. /\ summary'[c] = summarize(StatesOf(jobs), Attempted(attempts'[g]))
          /\ lifecycle'[c] = IF lifecycle[c] = "SENDING" /\ Idle(jobs)
                             THEN "COMPLETE" ELSE lifecycle[c]
          /\ \A d \in Campaigns \ {c} : /\ lifecycle'[d] = lifecycle[d]
                                        /\ summary'[d] = summary[d]
                                        /\ trail'[d] = trail[d]
          /\ Faithful(c) => Faithful(c)'
      BY <1>9, <2>1, SettleEffect
    <2>3. lifecycle[c] = "COMPLETE" => Idle(jobs)
      <3>1. lifecycle[c] = "COMPLETE" => Idle(job[g]) /\ s \notin ACTIVE
        BY <1>1, <1>8, <1>11 DEF Derived, Reduction
      <3> QED
        BY <1>2, <3>1 DEF Idle, jobs
    <2>4. current' = current /\ owner' = owner
      BY DEF Reduction
    <2>5. Derived(c)'
      <3>1. current'[c] = g /\ g # None /\ owner'[g] = c
        BY <1>1, <1>8, <2>4 DEF Derived
      <3>2. (lifecycle'[c] = "COMPLETE") = Idle(jobs)
        BY <1>1, <2>2, <2>3 DEF Idle
      <3>3. lifecycle'[c] \in {"SENDING", "COMPLETE"}
        BY <1>1, <2>2
      <3> QED
        BY <1>4, <2>2, <3>1, <3>2, <3>3 DEF Derived
    <2> QED
      BY <1>1, <1>4, <1>5, <2>2, <2>4, <2>5 DEF Settles, Reduction
  <1> QED
    BY <1>10, <1>11

\* The ways cancelling and retrying move the jobs of a started campaign.
LEMMA OperatorMoves ==
    ASSUME DeliveryInvariant, RecordsInvariant, NEW c \in Campaigns, Operator(c)
    PROVE  \E g \in Generations, jobs \in [Endpoints -> AnyState], lc \in Lifecycles :
              /\ g = current[c]
              /\ lifecycle[c] \in {"SENDING", "COMPLETE"}
              /\ Operate(c, jobs, lc)
              /\ lc = IF jobs = job[g] THEN lifecycle[c] ELSE "SENDING"
              /\ \A e \in Endpoints :
                    \/ jobs[e] = job[g][e]
                    \/ job[g][e] = "PENDING" /\ jobs[e] = "CANCELLED"
                    \/ job[g][e] = "FAILED_TRANSIENT" /\ jobs[e] = "PENDING"
  <1>1. lifecycle[c] \in {"SENDING", "COMPLETE"}
    BY DEF Operator, cancel_sending, retry_failed
  <1>2. PICK g \in Generations : g = current[c]
    BY <1>1, StartedFacts
  <1>3. job[g] \in [Endpoints -> AnyState] /\ lifecycle[c] \in Lifecycles
    BY DEF DeliveryInvariant, TypeOK, AnyState
  <1>4. CASE cancel_sending(c)
    <2>1. Operate(c, Cancelled(job[g]), "SENDING") /\ lifecycle[c] = "SENDING"
      BY <1>2, <1>4 DEF cancel_sending
    <2>2. /\ Cancelled(job[g]) \in [Endpoints -> AnyState]
          /\ \A e \in Endpoints :
                \/ Cancelled(job[g])[e] = job[g][e]
                \/ job[g][e] = "PENDING" /\ Cancelled(job[g])[e] = "CANCELLED"
      BY <1>3, CancelledMoves DEF AnyState
    <2> QED
      BY <1>1, <1>2, <1>3, <2>1, <2>2
  <1>5. CASE retry_failed(c)
    <2> DEFINE jobs == Retried(job[g], attempts[g])
               lc == IF jobs # job[g] THEN "SENDING" ELSE lifecycle[c]
    <2>1. Operate(c, jobs, lc)
      BY <1>2, <1>5 DEF retry_failed
    <2>2. /\ jobs \in [Endpoints -> AnyState]
          /\ \A e \in Endpoints :
                \/ jobs[e] = job[g][e]
                \/ job[g][e] = "FAILED_TRANSIENT" /\ jobs[e] = "PENDING"
      BY <1>3, RetriedMoves DEF AnyState
    <2>3. lc \in Lifecycles /\ lc = IF jobs = job[g] THEN lifecycle[c] ELSE "SENDING"
      BY <1>3 DEF Lifecycles
    <2> HIDE DEF jobs, lc
    <2> QED
      BY <1>1, <1>2, <2>1, <2>2, <2>3
  <1> QED
    BY <1>4, <1>5 DEF Operator

\* Cancelling and retrying settle the campaign.
LEMMA OperatorSettles ==
    ASSUME DeliveryInvariant, RecordsInvariant, NEW c \in Campaigns, Operator(c)
    PROVE  \E g \in Generations : Settles(c, g)
  <1>1. PICK g \in Generations, jobs \in [Endpoints -> AnyState], lc \in Lifecycles :
              /\ g = current[c]
              /\ lifecycle[c] \in {"SENDING", "COMPLETE"}
              /\ Operate(c, jobs, lc)
              /\ lc = IF jobs = job[g] THEN lifecycle[c] ELSE "SENDING"
    BY OperatorMoves
  <1>2. Derived(c)
    BY <1>1, StartedFacts
  <1>3. job \in [Generations -> [Endpoints -> AnyState]] /\ CampaignTyped
    BY DEF DeliveryInvariant, TypeOK, AnyState, CampaignTyped
  <1>4. job' = [job EXCEPT ![g] = jobs]
    BY <1>1 DEF Operate
  <1>5. job'[g] = jobs /\ \A h \in Generations \ {g} : job'[h] = job[h]
    BY <1>3, <1>4
  <1>6. UNCHANGED <<current, owner, status, sendAt, attempts>>
    BY <1>1 DEF Operate
  <1>7. CASE jobs = job[g]
    <2>1. lifecycle' = lifecycle /\ summary' = summary /\ Announce(c, lifecycle[c])
      BY <1>1, <1>7 DEF Operate
    <2>2. /\ trail'[c] = [trail[c] EXCEPT !.lifecycle = lifecycle[c]]
          /\ \A d \in Campaigns \ {c} : trail'[d] = trail[d]
      BY <1>3, <2>1 DEF Announce, CampaignTyped
    <2>3. trail[c] \in [lifecycle : Lifecycles, summary : Summaries \cup {None}]
      BY <1>3 DEF CampaignTyped
    <2>4. Faithful(c) => Faithful(c)'
      BY <2>1, <2>2, <2>3 DEF Faithful
    <2>5. Derived(c)'
      BY <1>1, <1>2, <1>5, <1>6, <1>7, <2>1 DEF Derived
    <2> QED
      BY <1>1, <1>5, <1>6, <2>1, <2>2, <2>4, <2>5 DEF Settles
  <1>8. CASE jobs # job[g]
    <2> DEFINE s == summarize(StatesOf(jobs), Attempted(attempts[g]))
               final == IF Idle(jobs) THEN "COMPLETE" ELSE "SENDING"
    <2>1. lc = "SENDING"
      BY <1>1, <1>8
    <2>2. summary' = [summary EXCEPT ![c] = s]
      BY <1>1, <1>8 DEF Operate, refresh_summary
    <2>3. lifecycle' = [lifecycle EXCEPT ![c] = final]
      BY <1>1, <1>8, <2>1 DEF Operate, complete_if_idle
    <2>4. trail' = [trail EXCEPT ![c] =
                       [lifecycle |-> final,
                        summary |-> IF final = "COMPLETE" THEN summary'[c]
                                    ELSE @.summary]]
      BY <1>1, <1>8, <2>1 DEF Operate
    <2> HIDE DEF s
    <2>5. /\ summary'[c] = s
          /\ lifecycle'[c] = final
          /\ trail'[c] = [lifecycle |-> final,
                          summary |-> IF final = "COMPLETE" THEN summary'[c]
                                      ELSE trail[c].summary]
      BY <1>3, <2>2, <2>3, <2>4 DEF CampaignTyped
    <2>6. \A d \in Campaigns \ {c} : /\ lifecycle'[d] = lifecycle[d]
                                     /\ summary'[d] = summary[d]
                                     /\ trail'[d] = trail[d]
      BY <1>3, <2>2, <2>3, <2>4 DEF CampaignTyped
    <2>7. Faithful(c)'
      BY <2>5 DEF Faithful
    <2>8. Derived(c)'
      <3>1. current'[c] = g /\ g # None /\ owner'[g] = c /\ attempts' = attempts
        BY <1>1, <1>2, <1>6 DEF Derived
      <3>2. (lifecycle'[c] = "COMPLETE") = Idle(jobs)
        BY <2>5 DEF Idle
      <3>3. lifecycle'[c] \in {"SENDING", "COMPLETE"}
        BY <2>5
      <3> QED
        BY <1>5, <2>5, <3>1, <3>2, <3>3 DEF Derived, s
    <2> QED
      BY <1>1, <1>5, <1>6, <2>5, <2>6, <2>7, <2>8 DEF Settles
  <1> QED
    BY <1>7, <1>8

\* Recovery finds in-flight jobs only in the campaign's started generation.
LEMMA RecoverSettles ==
    ASSUME DeliveryInvariant, RecordsInvariant, NEW c \in Campaigns, recover(c)
    PROVE  Kept \/ \E g \in Generations : Settles(c, g)
  <1> DEFINE jobs == [h \in Generations |-> IF owner[h] = c THEN Recovered(job[h])
                                            ELSE job[h]]
  <1>1. job' = jobs /\ UNCHANGED <<current, owner, status, sendAt, attempts, misjudged>>
    BY DEF recover, truthVars
  <1>2. job \in [Generations -> [Endpoints -> AnyState]] /\ CampaignTyped
    BY DEF DeliveryInvariant, TypeOK, AnyState, CampaignTyped
  <1>3. \A h \in Generations : ~(Started(h) /\ owner[h] = c) => jobs[h] = job[h]
    <2> SUFFICES ASSUME NEW h \in Generations, ~(Started(h) /\ owner[h] = c)
                 PROVE  jobs[h] = job[h]
      OBVIOUS
    <2>1. CASE owner[h] # c
      BY <2>1
    <2>2. CASE ~Started(h)
      <3>1. \A e \in Endpoints : job[h][e] # "IN_FLIGHT"
        BY <2>2 DEF RecordsInvariant, NothingBeforeStart
      <3>2. Recovered(job[h]) = job[h]
        BY <1>2, <3>1 DEF Recovered
      <3> QED
        BY <3>2
    <2> QED
      BY <2>1, <2>2
  <1>4. CASE lifecycle[c] \notin {"SENDING", "COMPLETE"}
    <2>1. \A h \in Generations : jobs[h] = job[h]
      BY <1>3, <1>4 DEF Started
    <2>2. job' = job
      BY <1>1, <1>2, <2>1
    <2>3. current[c] # None => current[c] \in Generations
      BY DEF DeliveryInvariant, TypeOK
    <2>4. UNCHANGED campaignVars
      BY <1>4, <2>1, <2>3 DEF recover
    <2> QED
      BY <1>1, <2>2, <2>4 DEF Kept, campaignVars
  <1>5. CASE lifecycle[c] \in {"SENDING", "COMPLETE"}
    <2>1. PICK g \in Generations : g = current[c] /\ owner[g] = c /\ Derived(c)
      BY <1>5, StartedFacts
    <2>2. \A h \in Generations \ {g} : job'[h] = job[h]
      BY <1>1, <1>3, <2>1 DEF Started
    <2>3. job'[g] = Recovered(job[g])
      BY <1>1, <2>1
    <2>4. g # None
      BY DeliveryAssumption
    <2>5. CASE UNCHANGED campaignVars /\ job'[g] = job[g]
      <3>1. job' = job
        BY <1>1, <1>2, <2>2, <2>5
      <3> QED
        BY <1>1, <2>5, <3>1 DEF Kept, campaignVars
    <2>6. CASE Settle(c, jobs[g], attempts[g], lifecycle[c])
      <3> DEFINE js == Recovered(job[g])
      <3>1. Settle(c, js, attempts[g], lifecycle[c])
        BY <1>1, <2>3, <2>6
      <3> HIDE DEF js
      <3>2. /\ summary'[c] = summarize(StatesOf(js), Attempted(attempts[g]))
            /\ lifecycle'[c] = IF lifecycle[c] = "SENDING" /\ Idle(js)
                               THEN "COMPLETE" ELSE lifecycle[c]
            /\ \A d \in Campaigns \ {c} : /\ lifecycle'[d] = lifecycle[d]
                                          /\ summary'[d] = summary[d]
                                          /\ trail'[d] = trail[d]
            /\ Faithful(c) => Faithful(c)'
        BY <1>2, <3>1, SettleEffect
      <3>3. lifecycle[c] = "COMPLETE" => Idle(js)
        <4>1. lifecycle[c] = "COMPLETE" => Idle(job[g])
          BY <2>1 DEF Derived
        <4> QED
          BY <1>2, <4>1 DEF js, Recovered, Idle, ACTIVE
      <3>4. (lifecycle'[c] = "COMPLETE") = Idle(js)
        BY <1>5, <3>2, <3>3 DEF Idle
      <3>5. lifecycle'[c] \in {"SENDING", "COMPLETE"}
        BY <1>5, <3>2
      <3>6. current'[c] = g /\ owner'[g] = c /\ attempts'[g] = attempts[g] /\ job'[g] = js
        BY <1>1, <2>1, <2>3 DEF js
      <3>7. Derived(c)'
        BY <2>4, <3>2, <3>4, <3>5, <3>6 DEF Derived
      <3>8. Settles(c, g)
        BY <1>1, <1>5, <2>1, <2>2, <3>2, <3>5, <3>7 DEF Settles
      <3> QED
        BY <3>8
    <2> QED
      BY <1>1, <2>1, <2>4, <2>5, <2>6 DEF recover
  <1> QED
    BY <1>4, <1>5

Redrafts(c, lc) ==
    /\ lc \in {"DRAFT", "READY", "CANCELLED"}
    /\ lifecycle[c] \in {"ABSENT", "DRAFT", "READY"}
    /\ Redraft(c, lc)

Freezes(c, g, at, lc) ==
    /\ lc \in {"SENDING", "SCHEDULED"}
    /\ lc = "SENDING" => at = now
    /\ freeze(c, g, at, lc)

Withdraws(c, lc) ==
    /\ lc \in {"READY", "CANCELLED"}
    /\ lifecycle[c] = "SCHEDULED"
    /\ retire_scheduled(c, lc)

\* Every step has one of six shapes.
LEMMA Shapes ==
    ASSUME DeliveryInvariant, RecordsInvariant, [Next]_vars
    PROVE  \/ Kept
           \/ \E c \in Campaigns, lc \in Lifecycles : Redrafts(c, lc)
           \/ \E c \in Campaigns, g \in Generations, at \in 0..MaxTime,
                 lc \in Lifecycles : Freezes(c, g, at, lc)
           \/ \E c \in Campaigns, lc \in Lifecycles : Withdraws(c, lc)
           \/ \E c \in Campaigns, g \in Generations : Settles(c, g)
           \/ \E c \in Campaigns : run_due(c)
  <1> USE DEF processVars, truthVars, campaignVars, dbVars
  <1>1. {"DRAFT", "READY", "CANCELLED", "SENDING", "SCHEDULED"} \subseteq Lifecycles
    BY DEF Lifecycles
  <1>2. now \in 0..MaxTime
    BY DEF DeliveryInvariant, TypeOK
  <1>3. ASSUME NEW c \in Campaigns, Draft(c)
        PROVE  \E lc \in Lifecycles : Redrafts(c, lc)
    BY <1>1, <1>3 DEF Draft, create_campaign, set_draft, validate, edit,
                      cancel_draft, Redrafts
  <1>4. ASSUME NEW c \in Campaigns, Freeze(c)
        PROVE  \/ \E g \in Generations, at \in 0..MaxTime, lc \in Lifecycles :
                     Freezes(c, g, at, lc)
               \/ \E lc \in Lifecycles : Withdraws(c, lc)
    BY <1>1, <1>2, <1>4 DEF Freeze, send, schedule, unschedule, cancel_scheduled,
                            Freezes, Withdraws
  <1>5. ASSUME Reduces PROVE \E c \in Campaigns, g \in Generations : Settles(c, g)
    BY <1>5, ReductionSettles DEF Reduces
  <1>6. ASSUME Verdict PROVE Reduces
    BY <1>6, VerdictReduces DEF Verdict
  <1>7. ASSUME Provider PROVE Kept \/ Reduces
    BY <1>7, UpdateReduces, CorrelateReduces DEF Provider
  <1>8. ASSUME EngineStep PROVE Kept \/ Reduces
    <2>1. CASE \E e \in Endpoints : claim(e) \/ claim_collision(e) \/ skip_revalidation(e)
      BY <2>1, ClaimReduces
    <2>2. CASE record
      BY <2>2, RecordReduces
    <2>3. CASE \E e \in Endpoints : pass_over(e)
      BY <2>3 DEF pass_over, Kept
    <2>4. CASE deliver
      BY <2>4 DEF deliver, Kept
    <2>5. CASE record_refused \/ run_failed \/ end_run
      BY <2>5 DEF record_refused, run_failed, end_run, Kept
    <2> QED
      BY <1>8, <2>1, <2>2, <2>3, <2>4, <2>5 DEF EngineStep
  <1>9. ASSUME Host
        PROVE  Kept \/ \E c \in Campaigns, g \in Generations : Settles(c, g)
    <2>1. CASE \E c \in Campaigns : recover(c)
      BY <2>1, RecoverSettles
    <2>2. CASE crash \/ restart \/ latch_degraded \/ clear_degraded \/ tick
      BY <2>2 DEF crash, restart, latch_degraded, clear_degraded, tick, Kept
    <2> QED
      BY <1>9, <2>1, <2>2 DEF Host
  <1>10. ASSUME NEW c \in Campaigns, execute(c) PROVE Kept
    BY <1>10 DEF execute, Kept
  <1>11. ASSUME UNCHANGED vars PROVE Kept
    BY <1>11 DEF vars, Kept
  <1>12. CASE Next
    <2>1. CASE \E c \in Campaigns : Draft(c) \/ Freeze(c)
      BY <2>1, <1>3, <1>4
    <2>2. CASE \E c \in Campaigns : Operator(c)
      BY <2>2, OperatorSettles
    <2>3. CASE \E c \in Campaigns : run_due(c) \/ execute(c)
      BY <2>3, <1>10
    <2>4. CASE Verdict \/ Provider \/ EngineStep \/ Host
      BY <2>4, <1>5, <1>6, <1>7, <1>8, <1>9
    <2> QED
      BY <1>12, <2>1, <2>2, <2>3, <2>4 DEF Next
  <1> QED
    BY <1>11, <1>12

\* The trail stays faithful through each shape.
LEMMA TrailKept ==
    ASSUME DeliveryInvariant, RecordsInvariant, TrailIsFaithful, [Next]_vars
    PROVE  TrailIsFaithful'
  <1>1. \A d \in Campaigns : Faithful(d)
    BY DEF TrailIsFaithful, Faithful
  <1>2. SUFFICES \A d \in Campaigns : Faithful(d)'
    BY DEF TrailIsFaithful, Faithful
  <1>3. CampaignTyped
    BY DEF DeliveryInvariant, TypeOK, CampaignTyped
  <1>4. ASSUME NEW c \in Campaigns, NEW lc \in Lifecycles, lc # "COMPLETE",
               lifecycle' = [lifecycle EXCEPT ![c] = lc], Announce(c, lc),
               \A d \in Campaigns \ {c} : summary'[d] = summary[d]
        PROVE  \A d \in Campaigns : Faithful(d)'
    <2> SUFFICES ASSUME NEW d \in Campaigns PROVE Faithful(d)'
      OBVIOUS
    <2>1. trail[c] \in [lifecycle : Lifecycles, summary : Summaries \cup {None}]
      BY <1>3 DEF CampaignTyped
    <2>2. lifecycle'[c] = lc /\ trail'[c] = [trail[c] EXCEPT !.lifecycle = lc]
      BY <1>3, <1>4 DEF CampaignTyped, Announce
    <2>3. CASE d = c
      BY <1>4, <2>1, <2>2, <2>3 DEF Faithful
    <2>4. CASE d # c
      BY <1>1, <1>3, <1>4, <2>4 DEF Faithful, CampaignTyped, Announce
    <2> QED
      BY <2>3, <2>4
  <1>5. CASE Kept
    BY <1>1, <1>5 DEF Kept, Faithful
  <1>6. ASSUME NEW c \in Campaigns, NEW lc \in Lifecycles, Redrafts(c, lc)
        PROVE  \A d \in Campaigns : Faithful(d)'
    BY <1>4, <1>6 DEF Redrafts, Redraft
  <1>7. ASSUME NEW c \in Campaigns, NEW g \in Generations, NEW at \in 0..MaxTime,
               NEW lc \in Lifecycles, Freezes(c, g, at, lc)
        PROVE  \A d \in Campaigns : Faithful(d)'
    <2>1. \A d \in Campaigns \ {c} : summary'[d] = summary[d]
      BY <1>3, <1>7 DEF Freezes, freeze, CampaignTyped
    <2> QED
      BY <1>4, <1>7, <2>1 DEF Freezes, freeze
  <1>8. ASSUME NEW c \in Campaigns, NEW lc \in Lifecycles, Withdraws(c, lc)
        PROVE  \A d \in Campaigns : Faithful(d)'
    <2>1. \A d \in Campaigns \ {c} : summary'[d] = summary[d]
      BY <1>3, <1>8 DEF Withdraws, retire_scheduled, CampaignTyped
    <2> QED
      BY <1>4, <1>8, <2>1 DEF Withdraws, retire_scheduled
  <1>9. ASSUME NEW c \in Campaigns, NEW g \in Generations, Settles(c, g)
        PROVE  \A d \in Campaigns : Faithful(d)'
    BY <1>1, <1>9 DEF Settles, Faithful
  <1>10. ASSUME NEW c \in Campaigns, run_due(c)
         PROVE  \A d \in Campaigns : Faithful(d)'
    <2>1. "SENDING" \in Lifecycles
      BY DEF Lifecycles
    <2> QED
      BY <1>4, <1>10, <2>1 DEF run_due
  <1> QED
    BY <1>5, <1>6, <1>7, <1>8, <1>9, <1>10, Shapes

-----------------------------------------------------------------------------
(* What each shape does to the rows.                                       *)

Waiting(g, e) ==
    /\ job[g][e] \in {"ABSENT", "PENDING", "SKIPPED_PLATFORM_POLICY", "CANCELLED"}
    /\ status[g] = "discarded" => job[g][e] # "PENDING"

\* A step keeps the campaign rows sound: what has started stays so, what starts
\* is due, and what has not started waits.
RowsStaySound ==
    /\ CurrentIsOwned'
    /\ \A d \in Campaigns : Derived(d)'
    /\ \A h \in Generations : Started(h) => Started(h)' /\ sendAt'[h] = sendAt[h]
    /\ \A h \in Generations : Started(h)' /\ ~Started(h) => sendAt'[h] <= now
    /\ \A h \in Generations, e \in Endpoints : ~Started(h)' => Waiting(h, e)'

\* The invariant, row by row.
LEMMA RowFacts ==
    ASSUME DeliveryInvariant, RecordsInvariant
    PROVE  /\ \A d \in Campaigns : /\ Derived(d)
                                   /\ current[d] \in Generations \cup {None}
                                   /\ current[d] # None =>
                                         /\ owner[current[d]] = d
                                         /\ status[current[d]] = "active"
           /\ \A h \in Generations, e \in Endpoints : ~Started(h) => Waiting(h, e)
           /\ None \notin Generations
           /\ CampaignTyped
           /\ current \in [Campaigns -> Generations \cup {None}]
           /\ owner \in [Generations -> Campaigns \cup {None}]
           /\ status \in [Generations -> {"unused", "active", "discarded"}]
           /\ job \in [Generations -> [Endpoints -> AnyState]]
           /\ sendAt \in [Generations -> 0..MaxTime]
  BY DeliveryAssumption DEF DeliveryInvariant, TypeOK, RecordsInvariant,
     CurrentIsOwned, SummaryIsDerived, Derived, NothingBeforeStart, Waiting,
     CampaignTyped, AnyState

\* Nothing happens to the rows.
LEMMA KeptRows ==
    ASSUME DeliveryInvariant, RecordsInvariant, Kept
    PROVE  RowsStaySound
  <1>1. CurrentIsOwned'
    BY RowFacts DEF Kept, CurrentIsOwned
  <1>2. \A h \in Generations : Started(h)' = Started(h)
    BY DEF Kept, Started
  <1>3. \A d \in Campaigns : Derived(d)'
    BY RowFacts DEF Kept, Derived
  <1>4. \A h \in Generations, e \in Endpoints : ~Started(h)' => Waiting(h, e)'
    BY <1>2, RowFacts DEF Kept, Waiting
  <1> QED
    BY <1>1, <1>2, <1>3, <1>4 DEF RowsStaySound, Kept

\* A draft has no generation, and still has none.
LEMMA RedraftRows ==
    ASSUME DeliveryInvariant, RecordsInvariant, NEW c \in Campaigns,
           NEW lc \in Lifecycles, Redrafts(c, lc)
    PROVE  RowsStaySound
  <1>1. /\ lifecycle' = [lifecycle EXCEPT ![c] = lc]
        /\ UNCHANGED <<summary, current, owner, status, sendAt, job, attempts>>
    BY DEF Redrafts, Redraft
  <1>2. /\ lifecycle'[c] = lc
        /\ \A d \in Campaigns \ {c} : lifecycle'[d] = lifecycle[d]
    BY <1>1, RowFacts DEF CampaignTyped
  <1>3. \A h \in Generations : Started(h)' = Started(h)
    BY <1>1, <1>2 DEF Redrafts, Started
  <1>4. CurrentIsOwned'
    BY <1>1, RowFacts DEF CurrentIsOwned
  <1>5. ASSUME NEW d \in Campaigns PROVE Derived(d)'
    <2>1. CASE d = c
      BY <1>1, <1>2, <2>1, RowFacts DEF Redrafts, Derived
    <2>2. CASE d # c
      BY <1>1, <1>2, <2>2, RowFacts DEF Derived
    <2> QED
      BY <2>1, <2>2
  <1>6. \A h \in Generations, e \in Endpoints : ~Started(h)' => Waiting(h, e)'
    BY <1>1, <1>3, RowFacts DEF Waiting
  <1> QED
    BY <1>1, <1>3, <1>4, <1>5, <1>6 DEF RowsStaySound

\* A freeze gives a campaign without one a generation that has a job to send.
LEMMA FreezeRows ==
    ASSUME DeliveryInvariant, RecordsInvariant, NEW c \in Campaigns,
           NEW g \in Generations, NEW at \in 0..MaxTime, NEW lc \in Lifecycles,
           Freezes(c, g, at, lc)
    PROVE  RowsStaySound
  <1>1. PICK plan \in Plans : job' = [job EXCEPT ![g] = plan]
    BY DEF Freezes, freeze
  <1>2. /\ plan \in [Endpoints -> {"PENDING", "SKIPPED_PLATFORM_POLICY", "ABSENT"}]
        /\ \E e \in Endpoints : plan[e] = "PENDING"
    BY DEF Plans
  <1>3. job'[g] = plan /\ \A h \in Generations \ {g} : job'[h] = job[h]
    BY <1>1, RowFacts
  <1>4. /\ lifecycle' = [lifecycle EXCEPT ![c] = lc]
        /\ summary' = [summary EXCEPT ![c] = "IN_PROGRESS"]
        /\ current' = [current EXCEPT ![c] = g]
        /\ owner' = [owner EXCEPT ![g] = c]
        /\ status' = [status EXCEPT ![g] = "active"]
        /\ sendAt' = [sendAt EXCEPT ![g] = at]
        /\ attempts' = attempts
        /\ lifecycle[c] = "READY" /\ status[g] = "unused"
        /\ lc \in {"SENDING", "SCHEDULED"} /\ (lc = "SENDING" => at = now)
    BY DEF Freezes, freeze
  <1>5. /\ lifecycle'[c] = lc /\ summary'[c] = "IN_PROGRESS" /\ current'[c] = g
        /\ \A d \in Campaigns \ {c} : /\ lifecycle'[d] = lifecycle[d]
                                      /\ summary'[d] = summary[d]
                                      /\ current'[d] = current[d]
    BY <1>4, RowFacts DEF CampaignTyped
  <1>6. /\ owner'[g] = c /\ status'[g] = "active" /\ sendAt'[g] = at
        /\ \A h \in Generations \ {g} : /\ owner'[h] = owner[h]
                                        /\ status'[h] = status[h]
                                        /\ sendAt'[h] = sendAt[h]
    BY <1>4, RowFacts
  <1>7. current[c] = None /\ \A d \in Campaigns : current[d] # g
    BY <1>4, RowFacts DEF Derived
  <1>8. ~Started(g)
    BY <1>7 DEF Started
  <1>9. \A h \in Generations \ {g} : Started(h)' = Started(h)
    <2> SUFFICES ASSUME NEW h \in Generations \ {g} PROVE Started(h)' = Started(h)
      OBVIOUS
    <2>1. CASE owner[h] = c
      BY <1>4, <1>5, <1>6, <1>7, <2>1 DEF Started
    <2>2. CASE owner[h] # c
      BY <1>5, <1>6, <2>2 DEF Started
    <2> QED
      BY <2>1, <2>2
  <1>10. CurrentIsOwned'
    BY <1>5, <1>6, <1>7, RowFacts DEF CurrentIsOwned
  <1>11. ASSUME NEW d \in Campaigns PROVE Derived(d)'
    <2>1. CASE d = c
      <3>1. StatesOf(plan) \cap ACTIVE # {} /\ ~Idle(plan)
        BY <1>2 DEF StatesOf, ACTIVE, Idle
      <3>2. \A a : summarize(StatesOf(plan), a) = "IN_PROGRESS"
        BY <3>1 DEF summarize
      <3>3. (lifecycle'[c] = "COMPLETE") = Idle(plan)
        BY <1>4, <1>5, <3>1 DEF Idle
      <3> QED
        BY <1>3, <1>4, <1>5, <1>6, <2>1, <3>2, <3>3, RowFacts DEF Derived
    <2>2. CASE d # c
      <3>1. /\ lifecycle'[d] = lifecycle[d] /\ summary'[d] = summary[d]
            /\ current'[d] = current[d]
        BY <1>5, <2>2
      <3>2. current[d] # None => /\ job'[current[d]] = job[current[d]]
                                 /\ owner'[current[d]] = owner[current[d]]
        BY <1>3, <1>6, <1>7, RowFacts
      <3> QED
        BY <1>4, <3>1, <3>2, RowFacts DEF Derived
    <2> QED
      BY <2>1, <2>2
  <1>12. \A h \in Generations, e \in Endpoints : ~Started(h)' => Waiting(h, e)'
    <2> SUFFICES ASSUME NEW h \in Generations, NEW e \in Endpoints, ~Started(h)'
                 PROVE  Waiting(h, e)'
      OBVIOUS
    <2>1. CASE h = g
      BY <1>2, <1>3, <1>6, <2>1 DEF Waiting
    <2>2. CASE h # g
      BY <1>3, <1>6, <1>9, <2>2, RowFacts DEF Waiting
    <2> QED
      BY <2>1, <2>2
  <1>13. Started(g)' => sendAt'[g] <= now
    <2>1. Started(g)' => lc = "SENDING"
      BY <1>4, <1>5, <1>6 DEF Started
    <2>2. now \in Nat
      BY DeliveryAssumption DEF DeliveryInvariant, TypeOK
    <2> QED
      BY <1>4, <1>6, <2>1, <2>2
  <1> QED
    BY <1>6, <1>8, <1>9, <1>10, <1>11, <1>12, <1>13 DEF RowsStaySound

\* A withdrawn generation loses its pending jobs and its campaign.
LEMMA WithdrawRows ==
    ASSUME DeliveryInvariant, RecordsInvariant, NEW c \in Campaigns,
           NEW lc \in Lifecycles, Withdraws(c, lc)
    PROVE  RowsStaySound
  <1>1. PICK g \in Generations : g = current[c] /\ owner[g] = c
    BY RowFacts DEF Withdraws, Derived
  <1>2. /\ lifecycle' = [lifecycle EXCEPT ![c] = lc]
        /\ summary' = [summary EXCEPT ![c] = None]
        /\ current' = [current EXCEPT ![c] = None]
        /\ status' = [status EXCEPT ![g] = "discarded"]
        /\ job' = [job EXCEPT ![g] = Cancelled(job[g])]
        /\ UNCHANGED <<owner, sendAt, attempts>>
        /\ lifecycle[c] = "SCHEDULED" /\ lc \in {"READY", "CANCELLED"}
    BY <1>1 DEF Withdraws, retire_scheduled
  <1>3. /\ lifecycle'[c] = lc /\ summary'[c] = None /\ current'[c] = None
        /\ \A d \in Campaigns \ {c} : /\ lifecycle'[d] = lifecycle[d]
                                      /\ summary'[d] = summary[d]
                                      /\ current'[d] = current[d]
    BY <1>2, RowFacts DEF CampaignTyped
  <1>4. /\ status'[g] = "discarded" /\ job'[g] = Cancelled(job[g])
        /\ \A h \in Generations \ {g} : job'[h] = job[h] /\ status'[h] = status[h]
    BY <1>2, RowFacts
  <1>5. ~Started(g) /\ \A d \in Campaigns \ {c} : current[d] # g
    BY <1>1, <1>2, RowFacts DEF Started
  <1>6. \A h \in Generations : Started(h)' = Started(h)
    <2> SUFFICES ASSUME NEW h \in Generations PROVE Started(h)' = Started(h)
      OBVIOUS
    <2>1. CASE owner[h] = c
      BY <1>2, <1>3, <2>1 DEF Started
    <2>2. CASE owner[h] # c
      BY <1>2, <1>3, <2>2 DEF Started
    <2> QED
      BY <2>1, <2>2
  <1>7. CurrentIsOwned'
    BY <1>2, <1>3, <1>4, <1>5, RowFacts DEF CurrentIsOwned
  <1>8. ASSUME NEW d \in Campaigns PROVE Derived(d)'
    <2>1. CASE d = c
      BY <1>2, <1>3, <2>1 DEF Derived
    <2>2. CASE d # c
      <3>1. /\ lifecycle'[d] = lifecycle[d] /\ summary'[d] = summary[d]
            /\ current'[d] = current[d]
        BY <1>3, <2>2
      <3>2. current[d] # None => job'[current[d]] = job[current[d]]
        BY <1>4, <1>5, <2>2, RowFacts
      <3> QED
        BY <1>2, <3>1, <3>2, RowFacts DEF Derived
    <2> QED
      BY <2>1, <2>2
  <1>9. \A h \in Generations, e \in Endpoints : ~Started(h)' => Waiting(h, e)'
    <2> SUFFICES ASSUME NEW h \in Generations, NEW e \in Endpoints, ~Started(h)
                 PROVE  Waiting(h, e)'
      BY <1>6
    <2>1. Waiting(h, e)
      BY RowFacts
    <2>2. CASE h = g
      BY <1>4, <2>1, <2>2 DEF Waiting, Cancelled
    <2>3. CASE h # g
      BY <1>4, <2>1, <2>3 DEF Waiting
    <2> QED
      BY <2>2, <2>3
  <1> QED
    BY <1>2, <1>6, <1>7, <1>8, <1>9 DEF RowsStaySound

\* Settling touches one started generation and its campaign.
LEMMA SettleRows ==
    ASSUME DeliveryInvariant, RecordsInvariant, NEW c \in Campaigns,
           NEW g \in Generations, Settles(c, g)
    PROVE  RowsStaySound
  <1>1. /\ current[c] = g
        /\ lifecycle[c] \in {"SENDING", "COMPLETE"}
        /\ lifecycle'[c] \in {"SENDING", "COMPLETE"}
        /\ UNCHANGED <<current, owner, status, sendAt>>
        /\ \A d \in Campaigns \ {c} : lifecycle'[d] = lifecycle[d] /\ summary'[d] = summary[d]
        /\ \A h \in Generations \ {g} : job'[h] = job[h] /\ attempts'[h] = attempts[h]
        /\ Derived(c)'
    BY DEF Settles
  <1>2. owner[g] = c /\ g # None /\ \A d \in Campaigns \ {c} : current[d] # g
    BY <1>1, RowFacts
  <1>3. Started(g) /\ Started(g)'
    BY <1>1, <1>2 DEF Started
  <1>4. \A h \in Generations \ {g} : Started(h)' = Started(h)
    <2> SUFFICES ASSUME NEW h \in Generations \ {g} PROVE Started(h)' = Started(h)
      OBVIOUS
    <2>1. CASE owner[h] = c
      BY <1>1, <2>1 DEF Started
    <2>2. CASE owner[h] # c
      BY <1>1, <2>2 DEF Started
    <2> QED
      BY <2>1, <2>2
  <1>5. CurrentIsOwned'
    BY <1>1, RowFacts DEF CurrentIsOwned
  <1>6. ASSUME NEW d \in Campaigns, d # c PROVE Derived(d)'
    <2>1. /\ lifecycle'[d] = lifecycle[d] /\ summary'[d] = summary[d]
          /\ current'[d] = current[d]
      BY <1>1, <1>6
    <2>2. current[d] # None => /\ job'[current[d]] = job[current[d]]
                               /\ attempts'[current[d]] = attempts[current[d]]
      BY <1>1, <1>2, <1>6, RowFacts
    <2> QED
      BY <1>1, <2>1, <2>2, RowFacts DEF Derived
  <1>7. \A d \in Campaigns : Derived(d)'
    BY <1>1, <1>6
  <1>8. \A h \in Generations, e \in Endpoints : ~Started(h)' => Waiting(h, e)'
    BY <1>1, <1>3, <1>4, RowFacts DEF Waiting
  <1> QED
    BY <1>1, <1>3, <1>4, <1>5, <1>7, <1>8 DEF RowsStaySound

\* A due campaign starts sending the generation it has.
LEMMA DueRows ==
    ASSUME DeliveryInvariant, RecordsInvariant, NEW c \in Campaigns, run_due(c)
    PROVE  RowsStaySound
  <1>1. PICK g \in Generations : g = current[c] /\ owner[g] = c
    BY RowFacts DEF run_due
  <1>2. /\ lifecycle' = [lifecycle EXCEPT ![c] = "SENDING"]
        /\ UNCHANGED <<summary, current, owner, status, sendAt, job, attempts>>
        /\ sendAt[g] <= now /\ lifecycle[c] = "SCHEDULED"
    BY <1>1 DEF run_due
  <1>3. /\ lifecycle'[c] = "SENDING"
        /\ \A d \in Campaigns \ {c} : lifecycle'[d] = lifecycle[d]
    BY <1>2, RowFacts DEF CampaignTyped
  <1>4. \A h \in Generations : /\ Started(h) => Started(h)'
                               /\ Started(h)' /\ ~Started(h) => h = g
    BY <1>1, <1>2, <1>3 DEF Started
  <1>5. CurrentIsOwned'
    BY <1>2, RowFacts DEF CurrentIsOwned
  <1>6. ASSUME NEW d \in Campaigns PROVE Derived(d)'
    <2>1. CASE d = c
      BY <1>2, <1>3, <2>1, RowFacts DEF Derived
    <2>2. CASE d # c
      BY <1>2, <1>3, <2>2, RowFacts DEF Derived
    <2> QED
      BY <2>1, <2>2
  <1>7. \A h \in Generations, e \in Endpoints : ~Started(h)' => Waiting(h, e)'
    BY <1>2, <1>4, RowFacts DEF Waiting
  <1> QED
    BY <1>2, <1>4, <1>5, <1>6, <1>7 DEF RowsStaySound

\* Every step keeps the rows sound.
LEMMA RowsKept ==
    ASSUME DeliveryInvariant, RecordsInvariant, [Next]_vars
    PROVE  RowsStaySound
  BY Shapes, KeptRows, RedraftRows, FreezeRows, WithdrawRows, SettleRows, DueRows

-----------------------------------------------------------------------------
(* What a step does to attempts, references and messages, and to the run.  *)

\* The clock never goes back.
LEMMA ClockAdvances ==
    ASSUME DeliveryInvariant, [Next]_vars
    PROVE  now' \in Nat /\ now \in Nat /\ now <= now'
  <1>1. now \in Nat
    BY DeliveryAssumption DEF DeliveryInvariant, TypeOK
  <1>2. now' = now \/ now' = now + 1
    <2> USE DEF processVars, truthVars, campaignVars, dbVars
    <2>1. ASSUME NEW c \in Campaigns, Draft(c) PROVE now' = now
      BY <2>1 DEF Draft, create_campaign, set_draft, validate, edit,
                  cancel_draft, Redraft
    <2>2. ASSUME NEW c \in Campaigns, Freeze(c) PROVE now' = now
      BY <2>2 DEF Freeze, send, schedule, unschedule, cancel_scheduled, freeze,
                  retire_scheduled
    <2>3. ASSUME NEW c \in Campaigns, Operator(c) PROVE now' = now
      BY <2>3 DEF Operator, cancel_sending, retry_failed, Operate
    <2>4. ASSUME NEW c \in Campaigns, run_due(c) \/ execute(c) PROVE now' = now
      BY <2>4 DEF run_due, execute
    <2>5. ASSUME Verdict \/ Provider PROVE now' = now
      BY <2>5 DEF Verdict, resolve_outcome, Provider, provider_update,
                  correlate_message_id
    <2>6. ASSUME EngineStep PROVE now' = now
      BY <2>6 DEF EngineStep, claim, claim_collision, skip_revalidation,
                  pass_over, deliver, record, record_refused, run_failed, end_run
    <2>7. ASSUME Host PROVE now' = now \/ now' = now + 1
      BY <2>7 DEF Host, crash, restart, recover, latch_degraded,
                  clear_degraded, tick
    <2> QED
      BY <2>1, <2>2, <2>3, <2>4, <2>5, <2>6, <2>7 DEF Next, vars
  <1> QED
    BY <1>1, <1>2

\* Binding changes one reference, from None to r.
LEMMA BoundAfter ==
    ASSUME DeliveryInvariant, NEW g \in Generations, NEW e \in Endpoints, NEW n, NEW r,
           bound' = [bound EXCEPT ![g][e][n] = r]
    PROVE  \A h \in Generations, d \in Endpoints, m \in Attempt :
              bound'[h][d][m] = IF h = g /\ d = e /\ m = n THEN r
                                ELSE bound[h][d][m]
  BY DEF DeliveryInvariant, TypeOK

\* A message, once made, stays made.
LEMMA SentStays ==
    ASSUME DeliveryInvariant, [Next]_vars, NEW g \in Generations, NEW e \in Endpoints
    PROVE  /\ Sent(g, e) # {} => Sent(g, e)' # {}
           /\ msg'[g] # msg[g] => run.phase = "claimed" /\ run.gen = g
  <1>1. CASE msg' = msg
    BY <1>1 DEF Sent
  <1>2. CASE deliver
    <2>1. PICK h \in Generations, d \in Endpoints, k \in Attempt :
             h = run.gen /\ d = run.endpoint /\ k = run.attempt
      BY <1>2 DEF deliver, DeliveryInvariant, RunHoldsItsJob
    <2>2. msg \in [Generations -> [Endpoints -> [Attempt -> MsgRefs \cup {None}]]]
      BY DEF DeliveryInvariant, TypeOK
    <2>3. msg' = msg \/ \E r \in MsgRefs : msg' = [msg EXCEPT ![h][d][k] = r]
      BY <1>2, <2>1 DEF deliver
    <2>4. ASSUME NEW r \in MsgRefs, msg' = [msg EXCEPT ![h][d][k] = r]
          PROVE  /\ Sent(g, e) # {} => Sent(g, e)' # {}
                 /\ msg'[g] # msg[g] => run.phase = "claimed" /\ run.gen = g
      <3>1. \A x \in Attempt : msg[g][e][x] # None => msg'[g][e][x] # None
        BY <2>2, <2>4, DeliveryAssumption
      <3>2. msg'[g] # msg[g] => g = h
        BY <2>2, <2>4
      <3> QED
        BY <1>2, <2>1, <3>1, <3>2 DEF Sent, deliver
    <2> QED
      BY <1>1, <2>3, <2>4
  <1>3. ~deliver => msg' = msg
    <2> USE DEF processVars, truthVars, campaignVars, dbVars
    <2>1. ASSUME NEW c \in Campaigns, Draft(c) PROVE msg' = msg
      BY <2>1 DEF Draft, create_campaign, set_draft, validate, edit,
                  cancel_draft, Redraft
    <2>2. ASSUME NEW c \in Campaigns, Freeze(c) PROVE msg' = msg
      BY <2>2 DEF Freeze, send, schedule, unschedule, cancel_scheduled, freeze,
                  retire_scheduled
    <2>3. ASSUME NEW c \in Campaigns, Operator(c) PROVE msg' = msg
      BY <2>3 DEF Operator, cancel_sending, retry_failed, Operate
    <2>4. ASSUME NEW c \in Campaigns, run_due(c) \/ execute(c) PROVE msg' = msg
      BY <2>4 DEF run_due, execute
    <2>5. ASSUME Verdict \/ Provider PROVE msg' = msg
      BY <2>5, ZenonT(60) DEF Verdict, resolve_outcome, Provider, provider_update,
                  correlate_message_id
    <2>6. ASSUME EngineStep, ~deliver PROVE msg' = msg
      BY <2>6 DEF EngineStep, claim, claim_collision, skip_revalidation,
                  pass_over, record, record_refused, run_failed, end_run
    <2>7. ASSUME Host PROVE msg' = msg
      BY <2>7 DEF Host, crash, restart, recover, latch_degraded,
                  clear_degraded, tick
    <2> QED
      BY <2>1, <2>2, <2>3, <2>4, <2>5, <2>6, <2>7 DEF Next, vars
  <1> QED
    BY <1>1, <1>2, <1>3

\* A reference is bound to the latest attempt of a job that has a message, and
\* the reports that waited for it are gone; outside a run, or at its record.
Binding(g, e, r) ==
    /\ bound' = [bound EXCEPT ![g][e][attempts[g][e]] = r]
    /\ pending' = [pending EXCEPT ![TransportOf[e]][r] = <<>>]
    /\ Sent(g, e) # {}
    /\ attempts' = attempts
    /\ (Serving /\ run' = run) \/ run'.phase = "loop"

\* Reports come to wait only for a reference that nothing carries.
Holding(t, r, v) ==
    /\ bound' = bound
    /\ attempts' = attempts
    /\ Matches(t, r) = {}
    /\ pending' = [pending EXCEPT ![t][r] = Append(@, v)]

\* The four things a step may do to attempts, references and waiting reports.
LEMMA RefCases ==
    ASSUME DeliveryInvariant, RecordsInvariant, [Next]_vars
    PROVE  \/ UNCHANGED <<bound, pending, attempts>>
           \/ UNCHANGED <<bound, pending>> /\ \E e \in Endpoints :
                 attempts' = Counted(run.gen, e) /\ run.phase = "loop"
           \/ \E g \in Generations, e \in Endpoints, r \in MsgRefs : Binding(g, e, r)
           \/ \E t \in Transports, r \in MsgRefs, v \in PROVIDER_STATUSES :
                 Holding(t, r, v)
  <1> USE DEF processVars, truthVars, campaignVars, dbVars, providerVars
  <1>1. ASSUME NEW c \in Campaigns, Draft(c)
        PROVE  UNCHANGED <<bound, pending, attempts>>
    BY <1>1 DEF Draft, create_campaign, set_draft, validate, edit,
                cancel_draft, Redraft
  <1>2. ASSUME NEW c \in Campaigns, Freeze(c)
        PROVE  UNCHANGED <<bound, pending, attempts>>
    BY <1>2 DEF Freeze, send, schedule, unschedule, cancel_scheduled, freeze,
                retire_scheduled
  <1>3. ASSUME NEW c \in Campaigns, Operator(c)
        PROVE  UNCHANGED <<bound, pending, attempts>>
    BY <1>3 DEF Operator, cancel_sending, retry_failed, Operate
  <1>4. ASSUME NEW c \in Campaigns, run_due(c) \/ execute(c)
        PROVE  UNCHANGED <<bound, pending, attempts>>
    BY <1>4 DEF run_due, execute
  <1>5. ASSUME Verdict PROVE UNCHANGED <<bound, pending, attempts>>
    BY <1>5 DEF Verdict, resolve_outcome
  <1>6. ASSUME NEW t \in Transports, NEW r \in MsgRefs, NEW v \in PROVIDER_STATUSES,
               provider_update(t, r, v)
        PROVE  UNCHANGED <<bound, pending, attempts>> \/ Holding(t, r, v)
    BY <1>6 DEF provider_update, Holding
  <1>7. ASSUME NEW g \in Generations, NEW e \in Endpoints, NEW r \in MsgRefs,
               correlate_message_id(g, e, r)
        PROVE  Binding(g, e, r)
    <2>1. Sent(g, e) # {}
      BY <1>7 DEF correlate_message_id
    <2> QED
      BY <1>7, <2>1 DEF correlate_message_id, bind_provider_ref, Binding
  <1>8. ASSUME record
        PROVE  \/ UNCHANGED <<bound, pending, attempts>>
               \/ \E g \in Generations, e \in Endpoints, r \in MsgRefs : Binding(g, e, r)
    <2>1. PICK g \in Generations, e \in Endpoints :
             g = run.gen /\ e = run.endpoint /\ run.attempt = attempts[g][e]
      BY <1>8 DEF record, DeliveryInvariant, RunHoldsItsJob
    <2>2. run \in Run /\ run.ref \in MsgRefs \cup {None}
      BY DEF DeliveryInvariant, TypeOK, Run
    <2>3. run'.phase = "loop"
      BY <1>8, <2>2 DEF record, Run
    <2>4. CASE run.ref = None
      BY <1>8, <2>4 DEF record
    <2>5. CASE run.ref # None
      <3>1. Sent(g, e) # {}
        BY <1>8, <2>1, <2>5 DEF record, RecordsInvariant, EvidenceIsReal
      <3>2. /\ bound' = [bound EXCEPT ![g][e][attempts[g][e]] = run.ref]
            /\ pending' = [pending EXCEPT ![TransportOf[e]][run.ref] = <<>>]
            /\ attempts' = attempts
        BY <1>8, <2>1, <2>5 DEF record, bind_provider_ref
      <3>3. Binding(g, e, run.ref)
        BY <2>3, <3>1, <3>2 DEF Binding
      <3> QED
        BY <2>2, <2>5, <3>3
    <2> QED
      BY <2>4, <2>5
  <1>9. ASSUME EngineStep, ~record
        PROVE  \/ UNCHANGED <<bound, pending, attempts>>
               \/ UNCHANGED <<bound, pending>> /\ \E e \in Endpoints :
                     attempts' = Counted(run.gen, e) /\ run.phase = "loop"
    BY <1>9 DEF EngineStep, claim, claim_collision, skip_revalidation,
                pass_over, deliver, record_refused, run_failed, end_run
  <1>10. ASSUME Host PROVE UNCHANGED <<bound, pending, attempts>>
    BY <1>10 DEF Host, crash, restart, recover, latch_degraded,
                 clear_degraded, tick
  <1>11. CASE Next
    BY <1>1, <1>2, <1>3, <1>4, <1>5, <1>6, <1>7, <1>8, <1>9, <1>10, <1>11
       DEF Next, Provider
  <1>12. CASE UNCHANGED vars
    BY <1>12 DEF vars
  <1> QED
    BY <1>11, <1>12

\* What a step may do to the run.
LEMMA RunCases ==
    ASSUME DeliveryInvariant, [Next]_vars
    PROVE  \/ run' = run
           \/ run'.phase = "idle"
           \/ run'.phase = "loop" /\ run.phase # "idle" /\ run'.gen = run.gen
           \/ \E c \in Campaigns : run_due(c) \/ execute(c)
           \/ \E e \in Endpoints : claim(e)
           \/ deliver
  <1> USE DEF processVars, truthVars, campaignVars, dbVars, providerVars
  <1>1. ASSUME NEW c \in Campaigns, Draft(c) PROVE run' = run
    BY <1>1 DEF Draft, create_campaign, set_draft, validate, edit,
                cancel_draft, Redraft
  <1>2. ASSUME NEW c \in Campaigns, Freeze(c) PROVE run' = run
    BY <1>2 DEF Freeze, send, schedule, unschedule, cancel_scheduled, freeze,
                retire_scheduled
  <1>3. ASSUME NEW c \in Campaigns, Operator(c) PROVE run' = run
    BY <1>3 DEF Operator, cancel_sending, retry_failed, Operate
  <1>4. ASSUME Verdict \/ Provider PROVE run' = run
    BY <1>4, ZenonT(60) DEF Verdict, resolve_outcome, Provider, provider_update,
                correlate_message_id
  <1>5. run \in Run /\ idleRun.phase = "idle"
    BY DEF DeliveryInvariant, TypeOK, idleRun
  <1>6. ASSUME EngineStep, ~deliver, ~\E e \in Endpoints : claim(e)
        PROVE  \/ run'.phase = "idle"
               \/ run'.phase = "loop" /\ run.phase # "idle" /\ run'.gen = run.gen
    <2>1. CASE \E e \in Endpoints : claim_collision(e) \/ skip_revalidation(e) \/ pass_over(e)
      BY <1>5, <2>1 DEF claim_collision, skip_revalidation, pass_over, Run
    <2>2. CASE record
      BY <1>5, <2>2 DEF record, Run
    <2>3. CASE record_refused \/ run_failed \/ end_run
      BY <1>5, <2>3 DEF record_refused, run_failed, end_run
    <2> QED
      BY <1>6, <2>1, <2>2, <2>3 DEF EngineStep
  <1>7. ASSUME Host PROVE run' = run \/ run'.phase = "idle"
    BY <1>5, <1>7 DEF Host, crash, restart, recover, latch_degraded,
                      clear_degraded, tick
  <1>8. CASE Next
    BY <1>1, <1>2, <1>3, <1>4, <1>6, <1>7, <1>8 DEF Next
  <1>9. CASE UNCHANGED vars
    BY <1>9 DEF vars
  <1> QED
    BY <1>8, <1>9

-----------------------------------------------------------------------------
(* The invariant.                                                          *)

\* A generation that has not started is left alone.
LEMMA UnstartedUntouched ==
    ASSUME DeliveryInvariant, RecordsInvariant, [Next]_vars,
           NEW h \in Generations, ~Started(h)
    PROVE  attempts'[h] = attempts[h] /\ bound'[h] = bound[h] /\ msg'[h] = msg[h]
  <1>1. run.phase # "idle" => run.gen # h
    BY DEF RecordsInvariant, RunHasStarted
  <1>2. attempts \in [Generations -> [Endpoints -> 0..Cap]]
    BY DEF DeliveryInvariant, TypeOK
  <1>3. \A e \in Endpoints : msg'[h] = msg[h]
    BY <1>1, SentStays
  <1>4. \A e \in Endpoints : Sent(h, e) = {}
    BY DEF RecordsInvariant, NothingBeforeStart
  <1>5. msg'[h] = msg[h]
    <2>1. CASE Endpoints = {}
      <3>1. msg \in [Generations -> [Endpoints -> [Attempt -> MsgRefs \cup {None}]]]
            /\ msg' \in [Generations -> [Endpoints -> [Attempt -> MsgRefs \cup {None}]]]
        BY NextInvariant DEF DeliveryInvariant, TypeOK
      <3> QED
        BY <2>1, <3>1
    <2> QED
      BY <1>3, <2>1
  <1>6. CASE UNCHANGED <<bound, pending, attempts>>
    BY <1>5, <1>6
  <1>7. ASSUME NEW e \in Endpoints, UNCHANGED <<bound, pending>>,
               attempts' = Counted(run.gen, e), run.phase = "loop"
        PROVE  attempts'[h] = attempts[h] /\ bound'[h] = bound[h]
    BY <1>1, <1>2, <1>7 DEF Counted
  <1>8. ASSUME NEW g \in Generations, NEW e \in Endpoints, NEW r \in MsgRefs,
               Binding(g, e, r)
        PROVE  attempts'[h] = attempts[h] /\ bound'[h] = bound[h]
    <2>1. g # h
      BY <1>4, <1>8 DEF Binding
    <2> QED
      BY <1>8, <2>1 DEF Binding, DeliveryInvariant, TypeOK
  <1>9. ASSUME NEW t \in Transports, NEW r \in MsgRefs, NEW v \in PROVIDER_STATUSES,
               Holding(t, r, v)
        PROVE  attempts'[h] = attempts[h] /\ bound'[h] = bound[h]
    BY <1>9 DEF Holding
  <1> QED
    BY <1>5, <1>6, <1>7, <1>8, <1>9, RefCases

\* The rows' parts of the invariant.
LEMMA NextRows ==
    ASSUME DeliveryInvariant, RecordsInvariant, [Next]_vars
    PROVE  /\ CurrentIsOwned'
           /\ SummaryIsDerived'
           /\ StartedInTime'
           /\ NothingBeforeStart'
  <1> USE RowsKept DEF RowsStaySound
  <1>1. CurrentIsOwned'
    OBVIOUS
  <1>2. SummaryIsDerived'
    BY DEF SummaryIsDerived, Derived
  <1>3. StartedInTime'
    <2> SUFFICES ASSUME NEW h \in Generations, Started(h)' PROVE sendAt'[h] <= now'
      BY DEF StartedInTime
    <2>1. sendAt'[h] \in Nat
      BY NextInvariant, DeliveryAssumption DEF DeliveryInvariant, TypeOK
    <2>2. sendAt'[h] <= now
      <3>1. CASE Started(h)
        BY <3>1 DEF RecordsInvariant, StartedInTime
      <3>2. CASE ~Started(h)
        BY <3>2
      <3> QED
        BY <3>1, <3>2
    <2> QED
      BY <2>1, <2>2, ClockAdvances
  <1>4. NothingBeforeStart'
    <2> SUFFICES ASSUME NEW h \in Generations, NEW e \in Endpoints, ~Started(h)'
                 PROVE  /\ attempts'[h][e] = 0
                        /\ Sent(h, e)' = {}
                        /\ \A n \in Attempt : bound'[h][e][n] = None
                        /\ Waiting(h, e)'
      BY DEF NothingBeforeStart, Waiting
    <2>1. ~Started(h)
      OBVIOUS
    <2>2. attempts'[h] = attempts[h] /\ bound'[h] = bound[h] /\ msg'[h] = msg[h]
      BY <2>1, UnstartedUntouched
    <2>3. Sent(h, e)' = Sent(h, e)
      BY <2>2 DEF Sent
    <2>4. /\ attempts[h][e] = 0
          /\ Sent(h, e) = {}
          /\ \A n \in Attempt : bound[h][e][n] = None
      BY <2>1 DEF RecordsInvariant, NothingBeforeStart
    <2> QED
      BY <2>2, <2>3, <2>4
  <1> QED
    BY <1>1, <1>2, <1>3, <1>4

\* The run works on a generation that has started.
LEMMA NextRunStarted ==
    ASSUME DeliveryInvariant, RecordsInvariant, [Next]_vars
    PROVE  RunHasStarted'
  <1> SUFFICES ASSUME run'.phase # "idle" PROVE Started(run.gen)'
    BY DEF RunHasStarted
  <1>1. PICK h : h = run'.gen
    OBVIOUS
  <1>2. SUFFICES Started(h)'
    BY <1>1 DEF Started
  <1>3. \A x \in Generations : Started(x) => Started(x)'
    BY RowsKept DEF RowsStaySound
  <1>4. CASE run.phase # "idle" /\ run'.gen = run.gen
    <2>1. Started(h) /\ h \in Generations
      BY <1>1, <1>4 DEF RecordsInvariant, RunHasStarted, DeliveryInvariant, RunHoldsItsJob
    <2> QED
      BY <1>3, <2>1
  <1>5. ASSUME NEW c \in Campaigns, run_due(c) \/ execute(c)
        PROVE  Started(h)'
    <2>1. current[c] \in Generations /\ owner[current[c]] = c
      BY <1>5, RowFacts DEF run_due, execute
    <2>2. h = current[c]
      BY <1>1, <1>5 DEF run_due, execute, Listing, idleRun
    <2>3. lifecycle'[c] = "SENDING" /\ UNCHANGED <<owner, current>>
      BY <1>5, RowFacts DEF run_due, execute, dbVars, CampaignTyped
    <2> QED
      BY <2>1, <2>2, <2>3 DEF Started
  <1>6. run \in Run
    BY DEF DeliveryInvariant, TypeOK
  <1>7. ASSUME \/ \E e \in Endpoints : claim(e)
               \/ deliver
        PROVE  run.phase # "idle" /\ run'.gen = run.gen
    <2>1. CASE \E e \in Endpoints : claim(e)
      BY <1>6, <2>1 DEF claim, Run
    <2>2. CASE deliver
      <3>1. \E k \in RESULT_KINDS, a \in MsgRefs \cup {None} :
               run' = [run EXCEPT !.phase = "delivered", !.kind = k, !.ref = a]
        BY <2>2 DEF deliver, RESULT_KINDS, SUCCESS
      <3> QED
        BY <1>6, <2>2, <3>1 DEF deliver, Run
    <2> QED
      BY <1>7, <2>1, <2>2
  <1>8. run' = run => run.phase # "idle" /\ run'.gen = run.gen
    OBVIOUS
  <1> QED
    BY <1>4, <1>5, <1>7, <1>8, RunCases

\* The attempt count of a job never goes down.
LEMMA AttemptsGrow ==
    ASSUME DeliveryInvariant, RecordsInvariant, [Next]_vars,
           NEW g \in Generations, NEW e \in Endpoints
    PROVE  /\ attempts[g][e] \in Nat
           /\ attempts'[g][e] \in Nat
           /\ attempts[g][e] <= attempts'[g][e]
  <1>1. attempts \in [Generations -> [Endpoints -> 0..Cap]]
        /\ attempts' \in [Generations -> [Endpoints -> 0..Cap]]
    BY NextInvariant DEF DeliveryInvariant, TypeOK
  <1>2. attempts[g][e] \in Nat /\ attempts'[g][e] \in Nat
    BY <1>1, DeliveryAssumption
  <1>3. CASE attempts' = attempts
    BY <1>2, <1>3
  <1>4. ASSUME NEW d \in Endpoints, attempts' = Counted(run.gen, d)
        PROVE  attempts[g][e] <= attempts'[g][e]
    BY <1>1, <1>2, <1>4 DEF Counted
  <1> QED
    BY <1>2, <1>3, <1>4, RefCases DEF Binding, Holding

\* A reference stays bound to an attempt that was made and a job that has a
\* message.
LEMMA NextBound ==
    ASSUME DeliveryInvariant, RecordsInvariant, [Next]_vars,
           NEW g \in Generations, NEW e \in Endpoints, NEW n \in Attempt,
           bound'[g][e][n] # None
    PROVE  n <= attempts'[g][e] /\ Sent(g, e)' # {}
  <1>1. n \in Nat
    BY DEF Attempt
  <1>2. CASE bound[g][e][n] # None
    <2>1. n <= attempts[g][e] /\ Sent(g, e) # {}
      BY <1>2 DEF RecordsInvariant, EvidenceIsReal
    <2> QED
      BY <1>1, <2>1, AttemptsGrow, SentStays
  <1>3. CASE bound[g][e][n] = None
    <2>1. PICK h \in Generations, d \in Endpoints, r \in MsgRefs : Binding(h, d, r)
      BY <1>3, RefCases DEF Holding
    <2>2. h = g /\ d = e /\ n = attempts[g][e]
      BY <1>3, <2>1, BoundAfter DEF Binding
    <2>3. Sent(g, e) # {} /\ attempts' = attempts
      BY <2>1, <2>2 DEF Binding
    <2> QED
      BY <1>1, <2>2, <2>3, SentStays
  <1> QED
    BY <1>2, <1>3

\* The provider's answer is a success, or carries a reference, only when a
\* message exists.
LEMMA NextAnswer ==
    ASSUME DeliveryInvariant, RecordsInvariant, [Next]_vars,
           run'.phase = "delivered", run'.kind \in SUCCESS \/ run'.ref # None,
           NEW g \in Generations, NEW e \in Endpoints,
           g = run'.gen, e = run'.endpoint
    PROVE  Sent(g, e)' # {}
  <1>1. run \in Run
    BY DEF DeliveryInvariant, TypeOK
  <1>2. CASE run' = run
    <2>1. Sent(g, e) # {}
      BY <1>2 DEF RecordsInvariant, EvidenceIsReal
    <2> QED
      BY <2>1, SentStays
  <1>3. CASE deliver
    <2>1. \E k \in RESULT_KINDS, a \in MsgRefs \cup {None} :
             run' = [run EXCEPT !.phase = "delivered", !.kind = k, !.ref = a]
      BY <1>3 DEF deliver, RESULT_KINDS, SUCCESS
    <2>2. g = run.gen /\ e = run.endpoint
      BY <1>1, <2>1 DEF Run
    <2>3. run.attempt \in Attempt
      BY <1>3 DEF deliver, DeliveryInvariant, RunHoldsItsJob
    <2>4. CASE \E r \in MsgRefs : msg' = [msg EXCEPT ![g][e][run.attempt] = r]
      <3>1. msg'[g][e][run.attempt] # None
        BY <2>3, <2>4, DeliveryAssumption DEF DeliveryInvariant, TypeOK
      <3> QED
        BY <2>3, <3>1 DEF Sent
    <2>5. CASE Sent(g, e) # {}
      BY <2>5, SentStays
    <2>6. ASSUME NEW k \in RESULT_KINDS \ SUCCESS,
                 run' = [run EXCEPT !.phase = "delivered", !.kind = k, !.ref = None]
          PROVE  FALSE
      BY <1>1, <2>6 DEF Run
    <2> QED
      BY <1>3, <2>2, <2>4, <2>5, <2>6 DEF deliver
  <1>4. ASSUME NEW x \in Endpoints, claim(x) PROVE FALSE
    BY <1>1, <1>4 DEF claim, Run
  <1>5. ASSUME NEW c \in Campaigns, run_due(c) \/ execute(c) PROVE FALSE
    BY <1>5 DEF run_due, execute, Listing, idleRun
  <1> QED
    BY <1>2, <1>3, <1>4, <1>5, RunCases

\* Where one loop runs every handler, the run's own attempt stays unbound.
LEMMA NextUnbound ==
    ASSUME DeliveryInvariant, RecordsInvariant, [Next]_vars
    PROVE  NothingBoundInARun'
  <1> SUFFICES ASSUME SingleLoop, run'.phase \in {"claimed", "delivered"}
               PROVE  bound'[run'.gen][run'.endpoint][run'.attempt] = None
    BY DEF NothingBoundInARun
  <1>1. run \in Run
    BY DEF DeliveryInvariant, TypeOK
  <1>2. bound' = bound \/ (Serving /\ run' = run)
    BY RefCases DEF Binding, Holding
  <1>3. CASE run' = run
    <2>1. bound' = bound
      BY <1>2, <1>3 DEF Serving
    <2> QED
      BY <1>3, <2>1 DEF RecordsInvariant, NothingBoundInARun
  <1>4. CASE deliver
    <2>1. \E k \in RESULT_KINDS, a \in MsgRefs \cup {None} :
             run' = [run EXCEPT !.phase = "delivered", !.kind = k, !.ref = a]
      BY <1>4 DEF deliver, RESULT_KINDS, SUCCESS
    <2>2. run'.gen = run.gen /\ run'.endpoint = run.endpoint /\ run'.attempt = run.attempt
      BY <1>1, <2>1 DEF Run
    <2>3. bound' = bound /\ run.phase = "claimed"
      BY <1>4 DEF deliver, dbVars
    <2> QED
      BY <2>2, <2>3 DEF RecordsInvariant, NothingBoundInARun
  <1>5. ASSUME NEW e \in Endpoints, claim(e)
        PROVE  bound'[run'.gen][run'.endpoint][run'.attempt] = None
    <2>1. PICK g \in Generations : g = run.gen
      BY <1>5 DEF claim, DeliveryInvariant, RunHoldsItsJob
    <2>2. run'.gen = g /\ run'.endpoint = e /\ run'.attempt = attempts[g][e] + 1
      BY <1>1, <1>5, <2>1 DEF claim, Run
    <2>3. attempts[g][e] \in Nat
      BY DeliveryAssumption DEF DeliveryInvariant, TypeOK
    <2>4. attempts[g][e] + 1 \in Attempt
      BY <1>5, <2>2, NextInvariant DEF DeliveryInvariant, RunHoldsItsJob
    <2>5. bound[g][e][attempts[g][e] + 1] = None
      BY <2>3, <2>4 DEF RecordsInvariant, EvidenceIsReal
    <2> QED
      BY <1>5, <2>2, <2>5 DEF claim
  <1>6. ASSUME NEW c \in Campaigns, run_due(c) \/ execute(c) PROVE FALSE
    BY <1>6 DEF run_due, execute, Listing, idleRun
  <1> QED
    BY <1>3, <1>4, <1>5, <1>6, RunCases

\* Every step of the program keeps the invariant of the records.
LEMMA NextRecords ==
    DeliveryInvariant /\ RecordsInvariant /\ [Next]_vars => RecordsInvariant'
  <1> SUFFICES ASSUME DeliveryInvariant, RecordsInvariant, [Next]_vars
               PROVE  RecordsInvariant'
    OBVIOUS
  <1>1. EvidenceIsReal'
    <2>1. \A g \in Generations, e \in Endpoints, n \in Attempt :
             bound'[g][e][n] # None => n <= attempts'[g][e] /\ Sent(g, e)' # {}
      BY NextBound
    <2>2. run'.phase = "delivered" => run'.gen \in Generations /\ run'.endpoint \in Endpoints
      BY NextInvariant DEF DeliveryInvariant, RunHoldsItsJob
    <2>3. ASSUME run'.phase = "delivered", run'.kind \in SUCCESS \/ run'.ref # None
          PROVE  Sent(run.gen, run.endpoint)' # {}
      <3>1. PICK g \in Generations, e \in Endpoints : g = run'.gen /\ e = run'.endpoint
        BY <2>2, <2>3
      <3>2. Sent(g, e)' # {}
        BY <2>3, <3>1, NextAnswer
      <3> QED
        BY <3>1, <3>2 DEF Sent
    <2> QED
      BY <2>1, <2>3 DEF EvidenceIsReal
  <1> QED
    BY <1>1, NextRows, NextRunStarted, NextUnbound DEF RecordsInvariant

\* An empty database satisfies the invariant of the records.
LEMMA InitRecords == Init => RecordsInvariant
  <1> SUFFICES ASSUME Init PROVE RecordsInvariant
    OBVIOUS
  <1>1. CurrentIsOwned /\ SummaryIsDerived /\ RunHasStarted /\ NothingBoundInARun
    BY DEF Init, CurrentIsOwned, SummaryIsDerived, RunHasStarted,
           NothingBoundInARun, idleRun
  <1>2. \A g \in Generations : ~Started(g)
    BY DEF Init, Started
  <1>3. \A g \in Generations, e \in Endpoints :
           /\ job[g][e] = "ABSENT" /\ attempts[g][e] = 0 /\ Sent(g, e) = {}
           /\ \A n \in Attempt : bound[g][e][n] = None
    BY DEF Init, Sent
  <1>4. EvidenceIsReal
    BY <1>3 DEF EvidenceIsReal, Init, idleRun
  <1>5. StartedInTime /\ NothingBeforeStart
    BY <1>2, <1>3 DEF StartedInTime, NothingBeforeStart, Init
  <1> QED
    BY <1>1, <1>4, <1>5 DEF RecordsInvariant

\* RecordsInvariant holds in every reachable state, for every instance.
THEOREM RecordsInductive == Spec => []RecordsInvariant
  BY InitRecords, NextRecords, Inductive, PTL DEF Spec

\* The stored summary is the one the job table adds up to, a campaign is
\* complete exactly when none of its jobs is active, and it has a generation
\* exactly from its freeze on (refresh_summary, complete_if_idle).
THEOREM SummaryIsAlwaysDerived == Spec => []SummaryIsDerived
  <1>1. RecordsInvariant => SummaryIsDerived
    BY DEF RecordsInvariant
  <1> QED
    BY <1>1, RecordsInductive, PTL

\* Nothing of a generation that is withdrawn, or whose time has not come, ever
\* happens: no attempt, no message, no job that could still be sent.
THEOREM NothingEarly == Spec => []NothingBeforeItsTime
  <1>1. DeliveryInvariant /\ RecordsInvariant => NothingBeforeItsTime
    <2> SUFFICES ASSUME DeliveryInvariant, RecordsInvariant,
                        NEW g \in Generations,
                        status[g] = "discarded" \/ now < sendAt[g] \/ status[g] = "unused",
                        NEW e \in Endpoints
                 PROVE  /\ attempts[g][e] = 0
                        /\ Sent(g, e) = {}
                        /\ status[g] = "discarded" => job[g][e] \notin ACTIVE
      BY DEF NothingBeforeItsTime
    <2>1. ~Started(g)
      <3>1. Started(g) => status[g] = "active"
        BY DeliveryAssumption DEF Started, RecordsInvariant, CurrentIsOwned
      <3>2. Started(g) => sendAt[g] <= now
        BY DEF RecordsInvariant, StartedInTime
      <3>3. sendAt[g] \in Nat /\ now \in Nat
        BY DeliveryAssumption DEF DeliveryInvariant, TypeOK
      <3> QED
        BY <3>1, <3>2, <3>3
    <2> QED
      BY <2>1 DEF RecordsInvariant, NothingBeforeStart, ACTIVE
  <1> QED
    BY <1>1, Inductive, RecordsInductive, PTL

\* The last event of a campaign names its stored lifecycle and, once complete,
\* its stored summary: a reader of the trail is never left behind.
THEOREM TrailNeverLies == Spec => []TrailIsFaithful
  <1>1. Init => TrailIsFaithful
    BY DEF Init, TrailIsFaithful
  <1>2. DeliveryInvariant /\ RecordsInvariant /\ TrailIsFaithful /\ [Next]_vars
           => TrailIsFaithful'
    BY TrailKept
  <1> QED
    BY <1>1, <1>2, Inductive, RecordsInductive, PTL DEF Spec

-----------------------------------------------------------------------------
(* Reports and references.                                                 *)

\* Binding a reference clears what waits for it and gives no other reference
\* a match; a report comes to wait only where nothing matches.
LEMMA NextNoneWaiting ==
    ASSUME DeliveryInvariant, RecordsInvariant, NoReportLeftWaiting, [Next]_vars
    PROVE  NoReportLeftWaiting'
  <1> SUFFICES ASSUME NEW t \in Transports, NEW r \in MsgRefs, pending'[t][r] # <<>>
               PROVE  Matches(t, r)' = {}
    BY DEF NoReportLeftWaiting
  <1>1. pending \in [Transports -> [MsgRefs -> Seq(PROVIDER_STATUSES)]]
    BY DEF DeliveryInvariant, TypeOK
  <1>2. CASE bound' = bound /\ pending' = pending
    BY <1>2 DEF NoReportLeftWaiting, Matches
  <1>3. ASSUME NEW u \in Transports, NEW q \in MsgRefs, NEW v \in PROVIDER_STATUSES,
               Holding(u, q, v)
        PROVE  Matches(t, r)' = {}
    <2>1. Matches(t, r)' = Matches(t, r)
      BY <1>3 DEF Holding, Matches
    <2>2. CASE t = u /\ r = q
      BY <1>3, <2>1, <2>2 DEF Holding
    <2>3. CASE ~(t = u /\ r = q)
      <3>1. pending'[t][r] = pending[t][r]
        BY <1>1, <1>3, <2>3 DEF Holding
      <3> QED
        BY <2>1, <3>1 DEF NoReportLeftWaiting
    <2> QED
      BY <2>2, <2>3
  <1>4. ASSUME NEW g \in Generations, NEW e \in Endpoints, NEW q \in MsgRefs,
               Binding(g, e, q)
        PROVE  Matches(t, r)' = {}
    <2> DEFINE u == TransportOf[e]
    <2>1. u \in Transports
      BY DeliveryAssumption
    <2>2. pending' = [pending EXCEPT ![u][q] = <<>>]
      BY <1>4 DEF Binding
    <2>3. ~(t = u /\ r = q) /\ pending[t][r] # <<>>
      BY <1>1, <2>1, <2>2
    <2>4. Matches(t, r) = {}
      BY <2>3 DEF NoReportLeftWaiting
    <2>5. \A h \in Generations, d \in Endpoints, m \in Attempt :
             bound'[h][d][m] = IF h = g /\ d = e /\ m = attempts[g][e] THEN q
                               ELSE bound[h][d][m]
      <3>1. bound' = [bound EXCEPT ![g][e][attempts[g][e]] = q]
        BY <1>4 DEF Binding
      <3> QED
        BY <3>1 DEF DeliveryInvariant, TypeOK
    <2>6. \A x \in Generations \X Endpoints \X Attempt :
             TransportOf[x[2]] = t => bound[x[1]][x[2]][x[3]] # r
      BY <2>4 DEF Matches
    <2>7. \A x \in Generations \X Endpoints \X Attempt :
             TransportOf[x[2]] = t => bound'[x[1]][x[2]][x[3]] # r
      BY <2>3, <2>5, <2>6
    <2> QED
      BY <2>7 DEF Matches
  <1> QED
    BY <1>2, <1>3, <1>4, RefCases

\* Whatever order a report and its reference arrive in, the report never waits
\* for a reference that is already bound, even where a provider reuses one.
THEOREM NoReportIsStranded == Spec => []NoReportLeftWaiting
  <1>1. Init => NoReportLeftWaiting
    BY DEF Init, NoReportLeftWaiting
  <1>2. DeliveryInvariant /\ RecordsInvariant /\ NoReportLeftWaiting /\ [Next]_vars
           => NoReportLeftWaiting'
    BY NextNoneWaiting
  <1> QED
    BY <1>1, <1>2, Inductive, RecordsInductive, PTL DEF Spec

-----------------------------------------------------------------------------
(* Jobs.                                                                   *)

\* What a step that does not reduce may do to a job.
QuietMove(g, e) ==
    \/ job'[g][e] = job[g][e]
    \/ /\ job[g][e] = "ABSENT"
       /\ job'[g][e] \in {"PENDING", "SKIPPED_PLATFORM_POLICY", "ABSENT"}
    \/ job[g][e] = "PENDING" /\ job'[g][e] = "CANCELLED"
    \/ job[g][e] = "FAILED_TRANSIENT" /\ job'[g][e] = "PENDING"
    \/ job[g][e] = "IN_FLIGHT" /\ job'[g][e] = "OUTCOME_UNKNOWN"

Quiet == /\ misjudged' = misjudged
         /\ \A g \in Generations, e \in Endpoints : QuietMove(g, e)

\* Every step reduces one job or moves jobs quietly.
LEMMA JobCases ==
    ASSUME DeliveryInvariant, RecordsInvariant, [Next]_vars
    PROVE  Reduces \/ Quiet
  <1> USE DEF processVars, truthVars, campaignVars, dbVars
  <1>1. job \in [Generations -> [Endpoints -> AnyState]]
    BY RowFacts
  <1>2. ASSUME Kept PROVE Quiet
    BY <1>2 DEF Kept, Quiet, QuietMove
  <1>3. ASSUME NEW c \in Campaigns, Draft(c) PROVE Quiet
    BY <1>3 DEF Draft, create_campaign, set_draft, validate, edit,
                cancel_draft, Redraft, Quiet, QuietMove
  <1>4. ASSUME NEW c \in Campaigns, NEW g \in Generations, NEW at, NEW lc,
               freeze(c, g, at, lc)
        PROVE  Quiet
    <2>1. PICK plan \in Plans : job' = [job EXCEPT ![g] = plan]
      BY <1>4 DEF freeze
    <2>2. plan \in [Endpoints -> {"PENDING", "SKIPPED_PLATFORM_POLICY", "ABSENT"}]
      BY DEF Plans
    <2>3. \A e \in Endpoints : job[g][e] = "ABSENT"
      BY <1>4 DEF freeze, DeliveryInvariant, AttemptsLeft
    <2> QED
      BY <1>1, <1>4, <2>1, <2>2, <2>3 DEF freeze, Quiet, QuietMove
  <1>5. ASSUME NEW c \in Campaigns, NEW lc, lifecycle[c] = "SCHEDULED",
               retire_scheduled(c, lc)
        PROVE  Quiet
    <2>1. PICK g \in Generations : g = current[c]
      BY <1>5, RowFacts DEF Derived
    <2>2. job' = [job EXCEPT ![g] = Cancelled(job[g])] /\ misjudged' = misjudged
      BY <1>5, <2>1 DEF retire_scheduled
    <2>3. \A e \in Endpoints :
             \/ Cancelled(job[g])[e] = job[g][e]
             \/ job[g][e] = "PENDING" /\ Cancelled(job[g])[e] = "CANCELLED"
      BY <1>1, CancelledMoves DEF AnyState
    <2> QED
      BY <1>1, <2>2, <2>3 DEF Quiet, QuietMove
  <1>6. ASSUME NEW c \in Campaigns, Freeze(c) PROVE Quiet
    BY <1>4, <1>5, <1>6 DEF Freeze, send, schedule, unschedule, cancel_scheduled
  <1>7. ASSUME NEW c \in Campaigns, Operator(c) PROVE Quiet
    <2>1. PICK g \in Generations, jobs \in [Endpoints -> AnyState], lc \in Lifecycles :
              /\ g = current[c]
              /\ Operate(c, jobs, lc)
              /\ \A e \in Endpoints :
                    \/ jobs[e] = job[g][e]
                    \/ job[g][e] = "PENDING" /\ jobs[e] = "CANCELLED"
                    \/ job[g][e] = "FAILED_TRANSIENT" /\ jobs[e] = "PENDING"
      BY <1>7, OperatorMoves
    <2>2. job' = [job EXCEPT ![g] = jobs] /\ misjudged' = misjudged
      BY <2>1 DEF Operate
    <2> QED
      BY <1>1, <2>1, <2>2 DEF Quiet, QuietMove
  <1>8. ASSUME NEW c \in Campaigns, recover(c) PROVE Quiet
    <2>1. /\ job' = [h \in Generations |-> IF owner[h] = c THEN Recovered(job[h])
                                           ELSE job[h]]
          /\ misjudged' = misjudged
      BY <1>8 DEF recover
    <2> QED
      BY <1>1, <2>1 DEF Recovered, Quiet, QuietMove
  <1>9. ASSUME NEW c \in Campaigns, run_due(c) \/ execute(c) PROVE Quiet
    BY <1>9 DEF run_due, execute, Quiet, QuietMove
  <1>10. ASSUME Verdict \/ Provider PROVE Reduces \/ Kept
    BY <1>10, VerdictReduces, UpdateReduces, CorrelateReduces DEF Verdict, Provider
  <1>11. ASSUME EngineStep PROVE Kept \/ Reduces
    <2>1. CASE \E e \in Endpoints : claim(e) \/ claim_collision(e) \/ skip_revalidation(e)
      BY <2>1, ClaimReduces
    <2>2. CASE record
      BY <2>2, RecordReduces
    <2>3. CASE (\E e \in Endpoints : pass_over(e)) \/ deliver
      BY <2>3 DEF pass_over, deliver, Kept
    <2>4. CASE record_refused \/ run_failed \/ end_run
      BY <2>4 DEF record_refused, run_failed, end_run, Kept
    <2> QED
      BY <1>11, <2>1, <2>2, <2>3, <2>4 DEF EngineStep
  <1>12. ASSUME crash \/ restart \/ latch_degraded \/ clear_degraded \/ tick PROVE Kept
    BY <1>12 DEF crash, restart, latch_degraded, clear_degraded, tick, Kept
  <1>13. CASE Next
    BY <1>2, <1>3, <1>6, <1>7, <1>8, <1>9, <1>10, <1>11, <1>12, <1>13 DEF Next, Host
  <1>14. CASE UNCHANGED vars
    BY <1>2, <1>14 DEF vars, Kept
  <1> QED
    BY <1>13, <1>14

\* One reduced job moves, and every other job stays.
LEMMA ReducedJob ==
    ASSUME DeliveryInvariant, NEW g \in Generations, NEW e \in Endpoints,
           NEW s, Reduction(g, e, s), NEW h \in Generations, NEW d \in Endpoints
    PROVE  job'[h][d] = IF h = g /\ d = e THEN s ELSE job[h][d]
  BY DEF Reduction, reduce, DeliveryInvariant, TypeOK

\* Every step is a climb.
LEMMA NextClimb ==
    DeliveryInvariant /\ RecordsInvariant /\ [Next]_vars => [Climb]_job
  <1> SUFFICES ASSUME DeliveryInvariant, RecordsInvariant, [Next]_vars,
                      NEW h \in Generations, NEW d \in Endpoints
               PROVE  Climbs(job[h][d], job'[h][d])
    BY DEF Climb
  <1>1. CASE Reduces
    <2>1. PICK g \in Generations, e \in Endpoints, s \in AnyState : Reduction(g, e, s)
      BY <1>1 DEF Reduces
    <2>2. Climbs(job[g][e], s) /\ Climbs(job[h][d], job[h][d])
      BY <2>1 DEF Reduction, Climbs
    <2>3. job'[h][d] = IF h = g /\ d = e THEN s ELSE job[h][d]
      BY <2>1, ReducedJob
    <2> QED
      BY <2>2, <2>3
  <1>2. CASE Quiet
    BY <1>2 DEF Quiet, QuietMove, Climbs, TERMINAL, SUCCESS, RankedStates, RANK,
                NAMED_DESCENTS
  <1> QED
    BY <1>1, <1>2, JobCases

\* No evidence, however late or repeated, lowers a job: a terminal state is
\* final and a success is left only by the two named descents.
THEOREM JobsNeverDescend == Spec => JobsOnlyClimb
  BY NextClimb, Inductive, RecordsInductive, PTL DEF Spec, JobsOnlyClimb

\* A job becomes a success only where there is a message, or the operator was
\* wrong to say so.
LEMMA NextNoPhantom ==
    ASSUME DeliveryInvariant, RecordsInvariant, NoPhantomSuccess, [Next]_vars
    PROVE  NoPhantomSuccess'
  <1> SUFFICES ASSUME NEW h \in Generations, NEW d \in Endpoints,
                      job'[h][d] \in SUCCESS, <<h, d>> \notin misjudged'
               PROVE  Sent(h, d)' # {}
    BY DEF NoPhantomSuccess
  <1>1. SUFFICES Sent(h, d) # {}
    BY SentStays
  <1>2. CASE Reduces
    <2>1. PICK g \in Generations, e \in Endpoints, s \in AnyState : Reduction(g, e, s)
      BY <1>2 DEF Reduces
    <2>2. job'[h][d] = IF h = g /\ d = e THEN s ELSE job[h][d]
      BY <2>1, ReducedJob
    <2>3. <<h, d>> \notin misjudged
      BY <2>1 DEF Reduction
    <2> QED
      BY <2>1, <2>2, <2>3 DEF Reduction, NoPhantomSuccess
  <1>3. CASE Quiet
    BY <1>3 DEF Quiet, QuietMove, NoPhantomSuccess, SUCCESS
  <1> QED
    BY <1>2, <1>3, JobCases

\* A job recorded as a success has a message, unless an operator's verdict was
\* wrong, whatever reports were reordered, replayed or matched late.
THEOREM SuccessesAreReal == Spec => []NoPhantomSuccess
  <1>1. Init => NoPhantomSuccess
    BY DEF Init, NoPhantomSuccess, SUCCESS
  <1>2. DeliveryInvariant /\ RecordsInvariant /\ NoPhantomSuccess /\ [Next]_vars
           => NoPhantomSuccess'
    BY NextNoPhantom
  <1> QED
    BY <1>1, <1>2, Inductive, RecordsInductive, PTL DEF Spec

-----------------------------------------------------------------------------
(* In-flight jobs, where one event loop runs every handler.                *)

\* Before recovery is over no run is on; so a running engine that holds no
\* job means that no job is in flight.
LEMMA NoneInFlight ==
    ASSUME DeliveryInvariant, NoOrphanInFlight, up,
           run.phase \notin {"claimed", "delivered"},
           recovering = {} \/ run.phase # "idle",
           NEW g \in Generations, NEW e \in Endpoints
    PROVE  job[g][e] # "IN_FLIGHT"
  BY DEF DeliveryInvariant, RunAfterRecovery, NoOrphanInFlight

\* Only a claim puts a job in flight.
LEMMA OnlyClaimsFly ==
    ASSUME DeliveryInvariant, RecordsInvariant, [Next]_vars,
           NEW g \in Generations, NEW e \in Endpoints,
           job'[g][e] = "IN_FLIGHT", job[g][e] # "IN_FLIGHT"
    PROVE  \E d \in Endpoints : attempts' = Counted(run.gen, d) /\ run.phase = "loop"
  <1>1. CASE Quiet
    BY <1>1 DEF Quiet, QuietMove
  <1>2. CASE Reduces
    <2>1. PICK h \in Generations, d \in Endpoints, s \in AnyState : Reduction(h, d, s)
      BY <1>2 DEF Reduces
    <2>2. h = g /\ d = e /\ s = "IN_FLIGHT"
      BY <2>1, ReducedJob
    <2>3. attempts' = Counted(g, e)
      BY <2>1, <2>2 DEF Reduction, ACTIVE
    <2>4. attempts'[g][e] # attempts[g][e]
      <3>1. attempts[g][e] \in Nat
        BY AttemptsGrow
      <3> QED
        BY <2>3, <3>1 DEF Counted, DeliveryInvariant, TypeOK
    <2> QED
      BY <2>4, RefCases DEF Binding, Holding
  <1> QED
    BY <1>1, <1>2, JobCases

\* Each step leaves every in-flight job in the engine's hands or on recovery's
\* list.
LEMMA NextNoOrphan ==
    ASSUME DeliveryInvariant, RecordsInvariant, NoOrphanInFlight, SingleLoop,
           [Next]_vars
    PROVE  NoOrphanInFlight'
  <1> SUFFICES ASSUME NEW g \in Generations, NEW e \in Endpoints,
                      job'[g][e] = "IN_FLIGHT", up'
               PROVE  \/ owner'[g] \in recovering'
                      \/ /\ run'.gen = g
                         /\ run'.endpoint = e
                         /\ run'.phase \in {"claimed", "delivered"}
    BY DEF NoOrphanInFlight
  <1> USE DEF processVars, truthVars, campaignVars, dbVars, providerVars
  <1>1. run \in Run
    BY DEF DeliveryInvariant, TypeOK
  <1>2. Started(g)' => owner'[g] = owner[g]
    <2>1. CASE owner' = owner
      BY <2>1
    <2>2. ASSUME NEW c \in Campaigns, NEW h \in Generations, NEW at \in 0..MaxTime,
                 NEW lc \in Lifecycles, Freezes(c, h, at, lc)
          PROVE  owner'[g] = owner[g]
      <3>1. PICK plan \in Plans : job' = [job EXCEPT ![h] = plan]
        BY <2>2 DEF Freezes, freeze
      <3>2. g # h
        BY <3>1, RowFacts DEF Plans
      <3> QED
        BY <2>2, <3>2, RowFacts DEF Freezes, freeze
    <2> QED
      BY <2>1, <2>2, Shapes DEF Kept, Redrafts, Redraft, Withdraws,
         retire_scheduled, Settles, run_due
  <1>3. Started(g)' /\ owner'[g] = owner[g]
    <2>1. Started(g)'
      BY RowsKept DEF RowsStaySound, Waiting
    <2> QED
      BY <1>2, <2>1
  <1>4. CASE /\ run' = run /\ up' = up /\ recovering' = recovering
             /\ attempts' = attempts
    <2>1. job[g][e] = "IN_FLIGHT"
      <3>1. \A d \in Endpoints : attempts' # Counted(run.gen, d) \/ run.phase # "loop"
        <4> SUFFICES ASSUME NEW d \in Endpoints, attempts' = Counted(run.gen, d),
                            run.phase = "loop"
                     PROVE  FALSE
          OBVIOUS
        <4>1. run.gen \in Generations
          BY DEF DeliveryInvariant, RunHoldsItsJob
        <4>2. attempts[run.gen][d] \in Nat
          BY <4>1, AttemptsGrow
        <4>3. attempts[run.gen][d] = attempts[run.gen][d] + 1
          BY <1>4, <4>1 DEF Counted, DeliveryInvariant, TypeOK
        <4> QED
          BY <4>2, <4>3
      <3> QED
        BY <3>1, OnlyClaimsFly
    <2> QED
      BY <1>3, <1>4, <2>1 DEF NoOrphanInFlight
  <1>5. ASSUME NEW c \in Campaigns, run_due(c) \/ execute(c) PROVE FALSE
    <2>1. up /\ recovering = {} /\ run.phase = "idle" /\ job' = job
      BY <1>5 DEF run_due, execute, Serving
    <2> QED
      BY <2>1, NoneInFlight
  <1>6. ASSUME NEW d \in Endpoints, claim(d)
        PROVE  /\ run'.gen = g
               /\ run'.endpoint = e
               /\ run'.phase \in {"claimed", "delivered"}
    <2>1. up /\ run.phase = "loop" /\ run.gen \in Generations
      BY <1>6 DEF claim, DeliveryInvariant, RunHoldsItsJob
    <2>2. job[g][e] # "IN_FLIGHT"
      BY <2>1, NoneInFlight
    <2>3. job' = [job EXCEPT ![run.gen][d] = "IN_FLIGHT"]
      BY <1>6 DEF claim, reduce
    <2>4. g = run.gen /\ e = d
      BY <2>1, <2>2, <2>3, RowFacts
    <2> QED
      BY <1>1, <1>6, <2>4 DEF claim, Run
  <1>7. ASSUME NEW d \in Endpoints,
               claim_collision(d) \/ skip_revalidation(d) \/ pass_over(d)
        PROVE  FALSE
    <2>1. up /\ run.phase = "loop" /\ run.gen \in Generations
      BY <1>7 DEF claim_collision, skip_revalidation, pass_over, DeliveryInvariant,
                  RunHoldsItsJob
    <2>2. job[g][e] # "IN_FLIGHT"
      BY <2>1, NoneInFlight
    <2>3. \/ job' = job
          \/ \E s \in {"FAILED_PERMANENT", "SKIPPED_REVALIDATION"} :
                job' = [job EXCEPT ![run.gen][d] = s]
      BY <1>7 DEF claim_collision, skip_revalidation, pass_over, reduce
    <2>4. ASSUME NEW s \in {"FAILED_PERMANENT", "SKIPPED_REVALIDATION"},
                 job' = [job EXCEPT ![run.gen][d] = s]
          PROVE  job'[g][e] # "IN_FLIGHT"
      <3>1. job \in [Generations -> [Endpoints -> AnyState]]
        BY RowFacts
      <3>2. job'[g][e] = job[g][e] \/ job'[g][e] = s
        BY <2>1, <2>4, <3>1
      <3> QED
        BY <2>2, <2>4, <3>2
    <2> QED
      BY <2>2, <2>3, <2>4
  <1>8. ASSUME run_failed \/ end_run PROVE FALSE
    <2>1. up /\ run.phase = "loop" /\ job' = job
      BY <1>8 DEF run_failed, end_run
    <2> QED
      BY <2>1, NoneInFlight
  <1>9. ASSUME deliver
        PROVE  /\ run'.gen = g
               /\ run'.endpoint = e
               /\ run'.phase \in {"claimed", "delivered"}
    <2>1. up /\ run.phase = "claimed" /\ job' = job
      BY <1>9 DEF deliver
    <2>2. recovering = {}
      BY <2>1 DEF DeliveryInvariant, RunAfterRecovery
    <2>3. run.gen = g /\ run.endpoint = e
      BY <2>1, <2>2 DEF NoOrphanInFlight
    <2>4. \E k \in RESULT_KINDS, a \in MsgRefs \cup {None} :
             run' = [run EXCEPT !.phase = "delivered", !.kind = k, !.ref = a]
      BY <1>9 DEF deliver, RESULT_KINDS, SUCCESS
    <2> QED
      BY <1>1, <2>3, <2>4 DEF Run
  <1>10. ASSUME record PROVE FALSE
    <2>1. up /\ run.phase = "delivered"
      BY <1>10 DEF record
    <2>2. recovering = {}
      BY <2>1 DEF DeliveryInvariant, RunAfterRecovery
    <2>3. attempts' = attempts
      BY <1>10 DEF record
    <2>4. job[g][e] = "IN_FLIGHT"
      BY <2>1, OnlyClaimsFly
    <2>5. run.gen = g /\ run.endpoint = e /\ run.attempt = attempts[g][e]
      BY <2>1, <2>2, <2>4 DEF NoOrphanInFlight, DeliveryInvariant, RunHoldsItsJob
    <2>6. run.kind \in RESULT_KINDS /\ run.ref \in MsgRefs \cup {None}
      BY <1>1 DEF Run
    <2>7. AfterResult(job[g][e], run.kind, run.attempt = attempts[g][e]) = run.kind
      BY <2>4, <2>5 DEF AfterResult, ResultApplies
    <2>8. \/ reduce(g, e, run.kind, attempts[g])
          \/ run.ref # None /\ bind_provider_ref(g, e, attempts[g][e], run.ref, run.kind)
      BY <1>10, <2>5, <2>7 DEF record
    <2>9. run.kind \in AnyState
      BY <2>6 DEF RESULT_KINDS, AnyState, JobStates, RankedStates, TERMINAL
    <2>10. \E z \in AnyState : reduce(g, e, z, attempts[g])
                               /\ (z = run.kind \/ z \in PROVIDER_STATUSES)
      BY <2>6, <2>8, <2>9, BindReduces
    <2>11. job'[g][e] = run.kind \/ job'[g][e] \in PROVIDER_STATUSES
      BY <2>10, RowFacts DEF reduce
    <2> QED
      BY <2>6, <2>11 DEF RESULT_KINDS, PROVIDER_STATUSES
  <1>11. ASSUME record_refused PROVE FALSE
    BY <1>11 DEF record_refused, RecordsInvariant, NothingBoundInARun
  <1>12. ASSUME crash PROVE FALSE
    BY <1>12 DEF crash
  <1>13. ASSUME restart PROVE owner'[g] \in recovering'
    <2>1. job' = job /\ owner[g] \in Campaigns
      BY <1>3, <1>13 DEF restart, Started
    <2> QED
      BY <1>3, <1>13, <2>1 DEF restart
  <1>14. ASSUME NEW c \in Campaigns, recover(c) PROVE owner'[g] \in recovering'
    <2>1. /\ up /\ c \in recovering /\ recovering' = recovering \ {c}
          /\ job' = [h \in Generations |-> IF owner[h] = c THEN Recovered(job[h])
                                           ELSE job[h]]
      BY <1>14 DEF recover
    <2>2. run.phase = "idle"
      BY <2>1 DEF DeliveryInvariant, RunAfterRecovery
    <2>3. owner[g] # c /\ job[g][e] = "IN_FLIGHT"
      BY <2>1, RowFacts DEF Recovered
    <2>4. owner[g] \in recovering
      BY <2>1, <2>2, <2>3 DEF NoOrphanInFlight
    <2> QED
      BY <1>3, <2>1, <2>3, <2>4
  <1>15. ASSUME \/ \E c \in Campaigns : Draft(c) \/ Freeze(c) \/ Operator(c)
                \/ Verdict \/ Provider
         PROVE  /\ run' = run /\ up' = up /\ recovering' = recovering
                /\ attempts' = attempts
    <2>1. ASSUME NEW c \in Campaigns, Draft(c)
          PROVE  UNCHANGED <<run, up, recovering, attempts>>
      BY <2>1 DEF Draft, create_campaign, set_draft, validate, edit,
                  cancel_draft, Redraft
    <2>2. ASSUME NEW c \in Campaigns, Freeze(c)
          PROVE  UNCHANGED <<run, up, recovering, attempts>>
      BY <2>2 DEF Freeze, send, schedule, unschedule, cancel_scheduled, freeze,
                  retire_scheduled
    <2>3. ASSUME NEW c \in Campaigns, Operator(c)
          PROVE  UNCHANGED <<run, up, recovering, attempts>>
      BY <2>3 DEF Operator, cancel_sending, retry_failed, Operate
    <2>4. ASSUME Verdict \/ Provider
          PROVE  UNCHANGED <<run, up, recovering, attempts>>
      BY <2>4, ZenonT(60) DEF Verdict, resolve_outcome, Provider, provider_update,
                  correlate_message_id
    <2> QED
      BY <1>15, <2>1, <2>2, <2>3, <2>4
  <1>16. ASSUME latch_degraded \/ clear_degraded \/ tick \/ UNCHANGED vars
         PROVE  /\ run' = run /\ up' = up /\ recovering' = recovering
                /\ attempts' = attempts
    BY <1>16 DEF latch_degraded, clear_degraded, tick, vars
  <1>17. CASE EngineStep
    BY <1>6, <1>7, <1>8, <1>9, <1>10, <1>11, <1>17 DEF EngineStep
  <1>18. CASE Host
    BY <1>4, <1>12, <1>13, <1>14, <1>16, <1>18 DEF Host
  <1> QED
    BY <1>4, <1>5, <1>15, <1>16, <1>17, <1>18 DEF Next

\* In a daemon whose event loop runs every handler, no in-flight job is ever
\* forgotten: the engine holds it or startup recovery will visit it.  Without
\* the single loop a late message id can bind the attempt a run is making, the
\* record is refused, and the job is left.
THEOREM NoneIsForgotten ==
    ASSUME SingleLoop PROVE Spec => []NoOrphanInFlight
  <1>1. Init => NoOrphanInFlight
    BY DEF Init, NoOrphanInFlight
  <1>2. DeliveryInvariant /\ RecordsInvariant /\ NoOrphanInFlight /\ [Next]_vars
           => NoOrphanInFlight'
    BY NextNoOrphan
  <1> QED
    BY <1>1, <1>2, Inductive, RecordsInductive, PTL DEF Spec
=============================================================================
