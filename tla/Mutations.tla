----------------------------- MODULE Mutations -----------------------------
(***************************************************************************)
(* Provider writes (comms/services/mutations.py, services/recovery.py over *)
(* core/mutations.py): one request is one mutation row and its steps, each *)
(* step recorded before and after its provider call, each event anchored   *)
(* after its commit.  A crash or a failed anchor may fall between any two  *)
(* transactions; the client replays its request as often as it likes.      *)
(*                                                                         *)
(* The executor runs on the daemon's event loop, one call at a time.       *)
(* calls, took and told are the ground truth the properties compare the    *)
(* records with: the program never reads them.                             *)
(***************************************************************************)
EXTENDS Naturals

CONSTANTS
    Requests,   \* (client, request_id) pairs, each with its one digest
    StepCount,  \* steps of each request's operation: 1, or a saga's number
    Policy,     \* its SEMANTICS ambiguity_policy
    Hooked,     \* creations whose caller passes an on_created hook
    MaxCalls,   \* bound: a request is replayed while no step passed this
    None        \* no request

ASSUME MutationsAssumption ==
    /\ StepCount \in [Requests -> Nat \ {0}]
    /\ Policy \in [Requests -> {"retry_same_key", "resolve_only"}]
    /\ Hooked \subseteq {m \in Requests : Policy[m] = "resolve_only"}
    /\ MaxCalls \in Nat \ {0}
    /\ None \notin Requests

VARIABLES
    row,        \* mutations.state, "ABSENT" before the row exists
    retried,    \* mutations.retried
    flagged,    \* mutations.audit_status = 'DEGRADED'
    step,       \* mutation_steps.state
    degraded,   \* audit_integrity.state
    up,         \* the daemon process is running
    recovering, \* interrupted mutations startup recovery has still to visit
    call,       \* the executor's local state
    calls,      \* ground truth: provider calls made for each step
    took,       \* ground truth: steps that took effect at the provider
    told        \* ground truth: outcomes the client was ever given

recordVars == <<row, retried, flagged, step>>
processVars == <<up, recovering>>
truthVars == <<calls, took, told>>
vars == <<row, retried, flagged, step, degraded, up, recovering, call, calls,
          took, told>>

-----------------------------------------------------------------------------
Outcomes == {"SUCCEEDED", "FAILED", "OUTCOME_UNKNOWN"}
States == Outcomes \cup {"IN_FLIGHT"}
Steps(m) == 1..StepCount[m]

\* Between two requests the executor is idle.  Otherwise it is about to look at
\* the steps, has marked one, holds its outcome, is about to finish the row
\* with an outcome, or is about to flag it after a failed anchor.
Phases == {"idle", "steps", "started", "invoked", "finish", "flag"}
Calls == [phase : Phases, m : Requests \cup {None}, outcome : States]
idleCall == [phase |-> "idle", m |-> None, outcome |-> "IN_FLIGHT"]

TypeOK ==
    /\ row \in [Requests -> States \cup {"ABSENT"}]
    /\ retried \in [Requests -> BOOLEAN]
    /\ flagged \in [Requests -> BOOLEAN]
    /\ DOMAIN step = Requests
    /\ \A m \in Requests : step[m] \in [Steps(m) -> States \cup {"PENDING"}]
    /\ degraded \in BOOLEAN
    /\ up \in BOOLEAN
    /\ recovering \subseteq Requests
    /\ call \in Calls
    /\ call.phase # "idle" => call.m \in Requests
    /\ DOMAIN calls = Requests
    /\ \A m \in Requests : calls[m] \in [Steps(m) -> Nat]
    /\ DOMAIN took = Requests
    /\ \A m \in Requests : took[m] \subseteq Steps(m)
    /\ told \in [Requests -> SUBSET States]

Init ==
    /\ row = [m \in Requests |-> "ABSENT"]
    /\ retried = [m \in Requests |-> FALSE]
    /\ flagged = [m \in Requests |-> FALSE]
    /\ step = [m \in Requests |-> [i \in Steps(m) |-> "PENDING"]]
    /\ degraded = FALSE
    /\ up = TRUE
    /\ recovering = {}
    /\ call = idleCall
    /\ calls = [m \in Requests |-> [i \in Steps(m) |-> 0]]
    /\ took = [m \in Requests |-> {}]
    /\ told = [m \in Requests |-> {}]

-----------------------------------------------------------------------------
(* Helpers.                                                                *)

Serving == up /\ recovering = {} /\ call.phase = "idle"

At(phase) == up /\ call.phase = phase

Goto(phase, m, outcome) ==
    call' = [phase |-> phase, m |-> m, outcome |-> outcome]

\* The executor returns outcome s of m to its client.
Tell(m, s) ==
    /\ call' = idleCall
    /\ told' = [told EXCEPT ![m] = @ \cup {s}]

\* An audited transaction's commit is followed by its anchor refresh: ok runs
\* what follows; a failure latches the integrity state, then runs failed.
Anchored(ok, failed) ==
    \/ ok /\ UNCHANGED degraded
    \/ failed /\ degraded' = TRUE

\* Mutant: the loop goes on after an unknown step.
CursorPastUnknown(m, i) ==
    /\ i \in Steps(m)
    /\ step[m][i] \notin {"SUCCEEDED", "OUTCOME_UNKNOWN"}
    /\ \A j \in 1..(i - 1) : step[m][j] \in {"SUCCEEDED", "OUTCOME_UNKNOWN"}

\* _run's loop passes over the succeeded steps and stands at the first other.
Cursor(m, i) == /\ i \in Steps(m)
                /\ step[m][i] # "SUCCEEDED"
                /\ \A j \in 1..(i - 1) : step[m][j] = "SUCCEEDED"

AllSucceeded(m) == \A i \in Steps(m) : step[m][i] = "SUCCEEDED"

-----------------------------------------------------------------------------
(* MutationExecutor.provider: the first transaction finds or makes the row. *)

\* Mutant: the row is born PREPARED, which is not a stored state.
submit_prepared(m) ==
    /\ Serving
    /\ row[m] = "ABSENT"
    /\ ~degraded
    /\ row' = [row EXCEPT ![m] = "PREPARED"]
    /\ Anchored(Goto("steps", m, "IN_FLIGHT"), Goto("flag", m, "IN_FLIGHT"))
    /\ UNCHANGED <<retried, flagged, step, processVars, truthVars>>

submit(m) ==
    /\ Serving
    /\ row[m] = "ABSENT"
    /\ ~degraded
    /\ row' = [row EXCEPT ![m] = "IN_FLIGHT"]
    /\ Anchored(Goto("steps", m, "IN_FLIGHT"), Goto("flag", m, "IN_FLIGHT"))
    /\ UNCHANGED <<retried, flagged, step, processVars, truthVars>>

\* May a replay of an OUTCOME_UNKNOWN mutation call the provider again?
Retryable(m) == ~retried[m] /\ Policy[m] = "retry_same_key"

replay_recorded(m) ==
    /\ Serving
    /\ \/ row[m] \in {"SUCCEEDED", "FAILED"}
       \/ row[m] = "OUTCOME_UNKNOWN" /\ ~Retryable(m)
    /\ Tell(m, row[m])
    /\ UNCHANGED <<recordVars, degraded, processVars, calls, took>>

BelowBound(m) == \A i \in Steps(m) : calls[m][i] < MaxCalls

\* Mutant: the retry is not recorded.
replay_unmarked(m) ==
    /\ Serving
    /\ row[m] = "OUTCOME_UNKNOWN"
    /\ Retryable(m)
    /\ BelowBound(m)
    /\ Goto("steps", m, "IN_FLIGHT")
    /\ UNCHANGED <<recordVars, degraded, processVars, truthVars>>

replay_retry(m) ==
    /\ Serving
    /\ row[m] = "OUTCOME_UNKNOWN"
    /\ Retryable(m)
    /\ BelowBound(m)
    /\ retried' = [retried EXCEPT ![m] = TRUE]
    /\ Goto("steps", m, "IN_FLIGHT")
    /\ UNCHANGED <<row, flagged, step, degraded, processVars, truthVars>>

replay_resume(m) ==
    /\ Serving
    /\ row[m] = "IN_FLIGHT"
    /\ BelowBound(m)
    /\ Goto("steps", m, "IN_FLIGHT")
    /\ UNCHANGED <<recordVars, degraded, processVars, truthVars>>

-----------------------------------------------------------------------------
(* MutationExecutor._run, one step after the other.                        *)

\* Every step succeeded, or the first that did not failed.
steps_settled ==
    LET m == call.m
    IN /\ At("steps")
       /\ \/ AllSucceeded(m) /\ Goto("finish", m, "SUCCEEDED")
          \/ /\ \E i \in Steps(m) : Cursor(m, i) /\ step[m][i] = "FAILED"
             /\ Goto("finish", m, "FAILED")
       /\ UNCHANGED <<recordVars, degraded, processVars, truthVars>>

Ambiguous(m, i) == step[m][i] \in {"IN_FLIGHT", "OUTCOME_UNKNOWN"}

\* An ambiguous step that may not be sent again is unknown.  A failed anchor
\* here is not caught: the request ends in an error and the row stays as it is.
step_resolve_only(i) ==
    LET m == call.m
    IN /\ At("steps")
       /\ Cursor(m, i)
       /\ Ambiguous(m, i)
       /\ Policy[m] # "retry_same_key"
       /\ step' = [step EXCEPT ![m][i] = "OUTCOME_UNKNOWN"]
       /\ Anchored(Goto("finish", m, "OUTCOME_UNKNOWN"), call' = idleCall)
       /\ UNCHANGED <<row, retried, flagged, processVars, truthVars>>

\* Mutant: the policy is not asked before an ambiguous step is called again.
CallableAgain(m, i) == Cursor(m, i) /\ (step[m][i] = "PENDING" \/ Ambiguous(m, i))

\* The step may be called, as far as its own state is concerned.
Callable(m, i) ==
    /\ Cursor(m, i)
    /\ \/ step[m][i] = "PENDING"
       \/ Ambiguous(m, i) /\ Policy[m] = "retry_same_key"

\* No call starts while the audit trail is degraded.
refuse_degraded ==
    /\ At("steps")
    /\ \E i \in Steps(call.m) : Callable(call.m, i)
    /\ degraded
    /\ Tell(call.m, "IN_FLIGHT")
    /\ UNCHANGED <<recordVars, degraded, processVars, calls, took>>

start_step(i) ==
    LET m == call.m
    IN /\ At("steps")
       /\ Callable(m, i)
       /\ ~degraded
       /\ step' = [step EXCEPT ![m][i] = IF @ = "PENDING" THEN "IN_FLIGHT" ELSE @]
       /\ Goto("started", m, "IN_FLIGHT")
       /\ UNCHANGED <<row, retried, flagged, degraded, processVars, truthVars>>

\* Mutant: an exception of the call is taken for a failure.
invoke_or_fail(i) ==
    LET m == call.m
    IN /\ At("started")
       /\ Cursor(m, i)
       /\ calls' = [calls EXCEPT ![m][i] = @ + 1]
       /\ \E outcome \in Outcomes, effect \in BOOLEAN :
             /\ outcome = "SUCCEEDED" => effect
             /\ took' = [took EXCEPT ![m] = IF effect THEN @ \cup {i} ELSE @]
             /\ Goto("invoked", m, IF outcome = "SUCCEEDED" THEN outcome ELSE "FAILED")
       /\ UNCHANGED <<recordVars, degraded, processVars, told>>

\* The provider call.  SUCCEEDED means the step took effect and FAILED that
\* this call did nothing; OUTCOME_UNKNOWN (any exception, or a creation with
\* nothing to name it by) says neither.
invoke(i) ==
    LET m == call.m
    IN /\ At("started")
       /\ Cursor(m, i)
       /\ calls' = [calls EXCEPT ![m][i] = @ + 1]
       /\ \E outcome \in Outcomes, effect \in BOOLEAN :
             /\ outcome = "SUCCEEDED" => effect
             /\ outcome = "FAILED" => ~effect
             /\ took' = [took EXCEPT ![m] = IF effect THEN @ \cup {i} ELSE @]
             /\ Goto("invoked", m, outcome)
       /\ UNCHANGED <<recordVars, degraded, processVars, told>>

\* The on_created hook files what a successful creation made, in a transaction
\* of its own.  It may raise: the exception leaves the executor, and the step
\* stays as it was marked.
hook_failed(i) ==
    LET m == call.m
    IN /\ At("invoked")
       /\ call.outcome = "SUCCEEDED"
       /\ m \in Hooked
       /\ Cursor(m, i)
       /\ i = StepCount[m]
       /\ call' = idleCall
       /\ UNCHANGED <<recordVars, degraded, processVars, truthVars>>

record_step(i) ==
    LET m == call.m
        s == call.outcome
    IN /\ At("invoked")
       /\ Cursor(m, i)
       /\ step' = [step EXCEPT ![m][i] = s]
       /\ Anchored(IF s = "SUCCEEDED" THEN Goto("steps", m, "IN_FLIGHT")
                                      ELSE Goto("finish", m, s),
                   Goto("flag", m, s))
       /\ UNCHANGED <<row, retried, flagged, processVars, truthVars>>

finish ==
    LET m == call.m
        s == call.outcome
    IN /\ At("finish")
       /\ row' = [row EXCEPT ![m] = s]
       /\ \/ Tell(m, s) /\ UNCHANGED degraded
          \/ Goto("flag", m, s) /\ degraded' = TRUE /\ UNCHANGED told
       /\ UNCHANGED <<retried, flagged, step, processVars, calls, took>>

mark_degraded ==
    LET m == call.m
    IN /\ At("flag")
       /\ flagged' = [flagged EXCEPT ![m] = TRUE]
       /\ Tell(m, call.outcome)
       /\ UNCHANGED <<row, retried, step, degraded, processVars, calls, took>>

-----------------------------------------------------------------------------
(* Crash, start and recovery.                                              *)

crash ==
    /\ up
    /\ up' = FALSE
    /\ recovering' = {}
    /\ call' = idleCall
    /\ UNCHANGED <<recordVars, degraded, truthVars>>

\* A start that finds the anchor behind by one refreshes it, and by more sets
\* the latch; records.interrupted lists the mutations still IN_FLIGHT.
restart ==
    /\ ~up
    /\ up' = TRUE
    /\ recovering' = {m \in Requests : row[m] = "IN_FLIGHT"}
    /\ degraded' \in {degraded, TRUE}
    /\ UNCHANGED <<recordVars, call, truthVars>>

\* Mutant: a marked step counts as not attempted.
RecoveredUnsent(m) ==
    LET states == {step[m][i] : i \in Steps(m)}
    IN IF states \subseteq {"PENDING", "IN_FLIGHT"} THEN "FAILED"
       ELSE IF states = {"SUCCEEDED"} THEN "SUCCEEDED"
       ELSE "OUTCOME_UNKNOWN"

\* What recover_mutations makes of an interrupted mutation.
RecoveredState(m) ==
    LET states == {step[m][i] : i \in Steps(m)}
    IN IF states = {"PENDING"} THEN "FAILED"
       ELSE IF states \cap {"IN_FLIGHT", "OUTCOME_UNKNOWN"} # {}
            THEN "OUTCOME_UNKNOWN"
       ELSE IF "FAILED" \in states THEN "FAILED"
       ELSE IF states = {"SUCCEEDED"} THEN "SUCCEEDED"
       ELSE "IN_FLIGHT"

\* Mutant: recovery queues a marked step again.
RequeuedSteps(m) ==
    [i \in Steps(m) |-> IF step[m][i] = "IN_FLIGHT" THEN "PENDING" ELSE step[m][i]]

RecoveredSteps(m) ==
    [i \in Steps(m) |->
        CASE step[m][i] = "IN_FLIGHT" -> "OUTCOME_UNKNOWN"
          [] \A j \in Steps(m) : step[m][j] = "PENDING" -> "FAILED"
          [] OTHER -> step[m][i]]

\* One transaction per mutation, none for a saga left to be resumed.  A failed
\* anchor leaves startup, and the daemon does not come up.
recover(m) ==
    LET s == RecoveredState(m)
    IN /\ up
       /\ m \in recovering
       /\ row' = [row EXCEPT ![m] = s]
       /\ step' = [step EXCEPT ![m] = RecoveredSteps(m)]
       /\ \/ /\ recovering' = recovering \ {m}
             /\ UNCHANGED <<degraded, up>>
          \/ /\ s # "IN_FLIGHT"
             /\ recovering' = {}
             /\ degraded' = TRUE
             /\ up' = FALSE
       /\ UNCHANGED <<retried, flagged, call, truthVars>>

\* Any other audited write may fail to anchor; an audit repair clears the latch
\* while the daemon runs.
latch_degraded ==
    /\ Serving
    /\ ~degraded
    /\ degraded' = TRUE
    /\ UNCHANGED <<recordVars, processVars, call, truthVars>>

clear_degraded ==
    /\ Serving
    /\ degraded
    /\ degraded' = FALSE
    /\ UNCHANGED <<recordVars, processVars, call, truthVars>>

-----------------------------------------------------------------------------
Client(m) == submit(m) \/ replay_recorded(m) \/ replay_retry(m)
             \/ replay_resume(m)

StepNumbers == UNION {Steps(m) : m \in Requests}

Executor == \/ steps_settled \/ refuse_degraded \/ finish \/ mark_degraded
            \/ \E i \in StepNumbers :
                  \/ step_resolve_only(i) \/ start_step(i) \/ invoke(i)
                  \/ hook_failed(i) \/ record_step(i)

Host == \/ crash \/ restart \/ latch_degraded \/ clear_degraded
        \/ \E m \in Requests : recover(m)

Next == (\E m \in Requests : Client(m)) \/ Executor \/ Host

Spec == Init /\ [][Next]_vars

-----------------------------------------------------------------------------
(* Safety.                                                                 *)

\* An operation that cannot be repeated safely reaches the provider at most
\* once, whatever crashes, failed anchors, repairs and replays come between
\* (a step is marked before its call, and a marked one is only resolved).
ResolveOnlyCalledOnce ==
    \A m \in Requests : Policy[m] = "resolve_only" =>
        \A i \in Steps(m) : calls[m][i] <= 1

\* What a settled row says is what happened: SUCCEEDED means every step took
\* effect; FAILED, of an operation that is never sent again, that not all did,
\* and a saga that recovery calls not attempted made no call.
RecordsAreTrue ==
    \A m \in Requests :
        /\ row[m] = "SUCCEEDED" => took[m] = Steps(m)
        /\ row[m] = "FAILED" =>
              /\ took[m] # Steps(m) \/ Policy[m] = "retry_same_key"
              /\ (\A i \in Steps(m) : step[m][i] = "FAILED") /\ StepCount[m] > 1
                    => \A i \in Steps(m) : calls[m][i] = 0

\* What the client of a one-step operation was told is true: SUCCEEDED only of
\* one that took effect, FAILED only of one that did not or may be repeated.
AnswersAreTrue ==
    \A m \in Requests : StepCount[m] = 1 =>
        /\ "SUCCEEDED" \in told[m] => 1 \in took[m]
        /\ "FAILED" \in told[m] /\ Policy[m] = "resolve_only" => 1 \notin took[m]

\* A saga's step is called only after every step before it took effect and is
\* recorded as succeeded (a failed or unknown step stops the saga).
StepsInOrder ==
    \A m \in Requests : \A i, j \in Steps(m) :
        i < j /\ calls[m][j] > 0 => i \in took[m] /\ step[m][i] = "SUCCEEDED"

\* As long as no record of it failed to anchor, a mutation is sent again at
\* most once, crashes included.
AnchoredRetriedOnce ==
    \A m \in Requests : ~flagged[m] => \A i \in Steps(m) : calls[m][i] <= 2

-----------------------------------------------------------------------------
(* The inductive invariant behind the safety properties: what the executor *)
(* carries from one transaction to the next, and what a step's record says *)
(* about its calls.                                                        *)

\* Only a serving daemon executes, and what startup recovery has still to
\* visit is IN_FLIGHT.
NothingRunsEarly ==
    /\ ~up \/ recovering # {} => call.phase = "idle"
    /\ \A m \in recovering : row[m] = "IN_FLIGHT"

\* The row of the mutation at hand is open: in flight, or unknown and retried.
OpenRow ==
    call.phase \in {"steps", "started", "invoked", "finish"} =>
        \/ row[call.m] = "IN_FLIGHT"
        \/ row[call.m] = "OUTCOME_UNKNOWN" /\ retried[call.m]

\* Around a call the step at the cursor is marked; an operation that cannot be
\* repeated was not called before, and the outcome in hand is the call's.
CallInHand ==
    /\ call.phase \in {"started", "invoked"} =>
          \A i \in Steps(call.m) : Cursor(call.m, i) => Ambiguous(call.m, i)
    /\ call.phase = "started" /\ Policy[call.m] = "resolve_only" =>
          \A i \in Steps(call.m) : Cursor(call.m, i) => calls[call.m][i] = 0
    /\ call.phase = "invoked" =>
          /\ call.outcome \in Outcomes
          /\ \A i \in Steps(call.m) : Cursor(call.m, i) =>
                /\ calls[call.m][i] > 0
                /\ call.outcome = "SUCCEEDED" => i \in took[call.m]
                /\ call.outcome = "FAILED" /\ Policy[call.m] = "resolve_only" =>
                      i \notin took[call.m]

\* The outcome a row is finished or flagged with is that of its steps.
OutcomeInHand ==
    /\ call.phase = "finish" =>
          /\ call.outcome \in Outcomes
          /\ call.outcome = "SUCCEEDED" => AllSucceeded(call.m)
          /\ call.outcome = "FAILED" =>
                \E i \in Steps(call.m) : step[call.m][i] = "FAILED"
    /\ call.phase = "flag" /\ StepCount[call.m] = 1 =>
          /\ call.outcome = "SUCCEEDED" => step[call.m][1] = "SUCCEEDED"
          /\ call.outcome = "FAILED" => step[call.m][1] = "FAILED"

\* A settled row agrees with its steps, and so does what a client of a one-step
\* operation was told; only a row that was settled unknown is retried.
RowsFollowSteps ==
    \A m \in Requests :
        /\ retried[m] => row[m] \in Outcomes
        /\ row[m] = "ABSENT" => \A i \in Steps(m) : step[m][i] = "PENDING"
        /\ row[m] = "SUCCEEDED" => AllSucceeded(m)
        /\ row[m] = "FAILED" => \E i \in Steps(m) : step[m][i] = "FAILED"
        /\ StepCount[m] = 1 =>
              /\ "SUCCEEDED" \in told[m] => step[m][1] = "SUCCEEDED"
              /\ "FAILED" \in told[m] => step[m][1] = "FAILED"

\* A step's record is true of its calls.
StepsAreTrue ==
    \A m \in Requests : \A i \in Steps(m) :
        /\ step[m][i] = "PENDING" => calls[m][i] = 0
        /\ calls[m][i] = 0 => i \notin took[m]
        /\ step[m][i] = "SUCCEEDED" => i \in took[m]
        /\ step[m][i] = "FAILED" /\ Policy[m] = "resolve_only" => i \notin took[m]
        /\ Policy[m] = "resolve_only" => calls[m][i] <= 1

\* A mutation that recovery settles as not attempted: every step FAILED,
\* none called.
Unattempted(m) == \A i \in Steps(m) : step[m][i] = "FAILED" /\ calls[m][i] = 0

\* A step leaves PENDING only after every step before it succeeded, or when
\* recovery settles the whole mutation as not attempted.
StepsOrdered ==
    \A m \in Requests :
        /\ Unattempted(m) => row[m] = "FAILED"
        /\ \A i, j \in Steps(m) : i < j /\ step[m][j] # "PENDING" =>
              step[m][i] = "SUCCEEDED" \/ Unattempted(m)

\* A mutation of which no record failed to anchor was called at most once per
\* step before its retry and once after: while it is in flight and nobody has a
\* call of it in hand, none of its steps is ambiguous.
RetriesCounted ==
    \A m \in Requests : ~flagged[m] /\ Policy[m] = "retry_same_key" =>
        /\ \A i \in Steps(m) : calls[m][i] <= IF retried[m] THEN 2 ELSE 1
        /\ /\ row[m] = "IN_FLIGHT" /\ up /\ m \notin recovering
           /\ ~(call.m = m /\ call.phase \in {"started", "invoked", "finish", "flag"})
           => \A i \in Steps(m) : ~Ambiguous(m, i)
        /\ call.m = m /\ call.phase = "steps" =>
              \A i \in Steps(m) : Ambiguous(m, i) => calls[m][i] <= 1
        /\ call.m = m /\ call.phase = "started" =>
              \A i \in Steps(m) : Cursor(m, i) =>
                  calls[m][i] <= IF retried[m] THEN 1 ELSE 0

MutationsInvariant ==
    /\ TypeOK
    /\ NothingRunsEarly
    /\ OpenRow
    /\ CallInHand
    /\ OutcomeInHand
    /\ RowsFollowSteps
    /\ StepsAreTrue
    /\ StepsOrdered
    /\ RetriesCounted

-----------------------------------------------------------------------------
(* Action properties.                                                      *)

\* What the schema's triggers (mutations_state_forward,
\* mutation_steps_state_forward in core/storage/migrations.py) let pass.
RowForward(m) ==
    row'[m] # row[m] =>
        \/ row[m] = "ABSENT" /\ row'[m] = "IN_FLIGHT"
        \/ row[m] = "IN_FLIGHT" /\ row'[m] \in Outcomes
        \/ row[m] = "OUTCOME_UNKNOWN" /\ row'[m] \in {"SUCCEEDED", "FAILED"}

StepForward(m, i) ==
    step'[m][i] # step[m][i] =>
        \/ step[m][i] = "PENDING" /\ step'[m][i] \in {"IN_FLIGHT", "FAILED"}
        \/ step[m][i] = "IN_FLIGHT" /\ step'[m][i] \in Outcomes
        \/ /\ step[m][i] = "OUTCOME_UNKNOWN"
           /\ step'[m][i] \in {"SUCCEEDED", "FAILED"}

Forward == \A m \in Requests : RowForward(m) /\ \A i \in Steps(m) : StepForward(m, i)

\* The triggers abort any other change of a row or of a step: the executor and
\* recovery never ask for one, so a settled outcome is final and no outcome is
\* lost to an aborted transaction.
OnlyForward == [][Forward]_<<row, step>>

-----------------------------------------------------------------------------
(* What the documentation says, where the code does otherwise.             *)

\* services/mutations.py: "a mutation is re-invoked at most once".
ReinvokedAtMostOnce ==
    \A m \in Requests : \A i \in Steps(m) : calls[m][i] <= 2

\* services/mutations.py: _degraded returns "the known state" of the mutation:
\* one the client is told has succeeded has done all of its steps.
ToldSuccessIsComplete ==
    \A m \in Requests : "SUCCEEDED" \in told[m] => took[m] = Steps(m)
=============================================================================
