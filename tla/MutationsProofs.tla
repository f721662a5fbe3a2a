-------------------------- MODULE MutationsProofs --------------------------
(***************************************************************************)
(* Proofs about Mutations: MutationsInvariant is inductive, from which the *)
(* safety properties and the forward-only action property follow.          *)
(***************************************************************************)
EXTENDS Mutations, TLAPS

-----------------------------------------------------------------------------
(* The operators.                                                          *)

\* Every operation has a first step, and step numbers are natural numbers.
LEMMA StepsFacts ==
    ASSUME NEW m \in Requests
    PROVE  /\ StepCount[m] \in Nat \ {0}
           /\ 1 \in Steps(m) /\ StepCount[m] \in Steps(m)
           /\ \A i \in Steps(m) : i \in Nat /\ 1 <= i /\ i <= StepCount[m]
           /\ StepCount[m] = 1 => Steps(m) = {1}
           /\ Policy[m] \in {"retry_same_key", "resolve_only"}
  BY MutationsAssumption DEF Steps

\* The loop stands at one step only.
LEMMA CursorUnique ==
    ASSUME NEW m \in Requests, NEW i, NEW j, Cursor(m, i), Cursor(m, j)
    PROVE  i = j
  <1>1. i \in Nat /\ j \in Nat /\ 1 <= i /\ 1 <= j
    BY StepsFacts DEF Cursor
  <1>2. ~(i < j)
    <2>1. i < j => i \in 1..(j - 1)
      BY <1>1
    <2> QED  BY <2>1 DEF Cursor
  <1>3. ~(j < i)
    <2>1. j < i => j \in 1..(i - 1)
      BY <1>1
    <2> QED  BY <2>1 DEF Cursor
  <1> QED
    BY <1>1, <1>2, <1>3

\* The states of a row and of a step are distinct names.
LEMMA StateNames ==
    {"SUCCEEDED", "FAILED", "OUTCOME_UNKNOWN", "IN_FLIGHT", "PENDING"} = States \cup {"PENDING"}
  BY DEF States, Outcomes

\* Between two calls the executor holds nothing.
LEMMA IdleTyped == idleCall \in Calls /\ idleCall.phase = "idle" /\ idleCall.m = None
  BY DEF idleCall, Calls, Phases, States

-----------------------------------------------------------------------------
(* The client's requests.                                                  *)

\* submit: the row and its steps are committed before anything is called.
LEMMA SubmitKeeps ==
    ASSUME MutationsInvariant, NEW m \in Requests, submit(m)
    PROVE  MutationsInvariant'
  <1> USE StepsFacts, MutationsAssumption
          DEF MutationsInvariant, processVars, truthVars, Serving
  <1>1. TypeOK'
    <2>1. row' \in [Requests -> States \cup {"ABSENT"}]
      BY DEF submit, TypeOK, States
    <2>2. degraded' \in BOOLEAN
      BY DEF submit, TypeOK, Anchored
    <2>3. call' \in Calls /\ call'.m \in Requests
      BY DEF submit, Anchored, Goto, Calls, Phases, States
    <2> QED
      BY <2>1, <2>2, <2>3 DEF submit, TypeOK
  <1>2. NothingRunsEarly'
    BY DEF submit, NothingRunsEarly, Anchored, Goto
  <1>3. OpenRow'
    BY DEF submit, OpenRow, TypeOK, Anchored, Goto
  <1>4. CallInHand'
    BY DEF submit, CallInHand, Anchored, Goto
  <1>5. OutcomeInHand'
    BY DEF submit, OutcomeInHand, Anchored, Goto
  <1>6. RowsFollowSteps'
    BY DEF submit, RowsFollowSteps, AllSucceeded, TypeOK, Outcomes
  <1>7. StepsAreTrue'
    BY DEF submit, StepsAreTrue
  <1>8. StepsOrdered'
    BY DEF submit, StepsOrdered, Unattempted, RowsFollowSteps, TypeOK
  <1>9. RetriesCounted'
    BY DEF submit, RetriesCounted, RowsFollowSteps, Ambiguous, Cursor, TypeOK, Anchored, Goto
  <1> QED
    BY <1>1, <1>2, <1>3, <1>4, <1>5, <1>6, <1>7, <1>8, <1>9

\* replay_recorded: a replay of a settled row is answered from the row.
LEMMA RecordedKeeps ==
    ASSUME MutationsInvariant, NEW m \in Requests, replay_recorded(m)
    PROVE  MutationsInvariant'
  <1> USE StepsFacts, MutationsAssumption
          DEF MutationsInvariant, recordVars, processVars, truthVars, Serving, At
  <1>1. TypeOK'
    <2>1. call' \in Calls /\ (call'.phase # "idle" => call'.m \in Requests)
      BY IdleTyped DEF replay_recorded, TypeOK, Calls, Phases, States, Outcomes, Tell
    <2>2. told' \in [Requests -> SUBSET States]
      BY DEF replay_recorded, TypeOK, Tell, States, Outcomes
    <2> QED
      BY <2>1, <2>2 DEF replay_recorded, TypeOK
  <1>2. NothingRunsEarly'
    BY DEF replay_recorded, NothingRunsEarly, Tell, idleCall
  <1>3. OpenRow'
    BY DEF replay_recorded, OpenRow, TypeOK, Tell, idleCall
  <1>4. CallInHand'
    BY DEF replay_recorded, CallInHand, Cursor, Ambiguous, Tell, idleCall
  <1>5. OutcomeInHand'
    BY DEF replay_recorded, OutcomeInHand, AllSucceeded, Tell, idleCall
  <1>6. RowsFollowSteps'
    BY DEF replay_recorded, RowsFollowSteps, AllSucceeded, TypeOK, Outcomes, Tell, idleCall
  <1>7. StepsAreTrue'
    BY DEF replay_recorded, StepsAreTrue, TypeOK, Tell, idleCall
  <1>8. StepsOrdered'
    BY DEF replay_recorded, StepsOrdered, Unattempted, TypeOK, Tell, idleCall
  <1>9. RetriesCounted'
    BY DEF replay_recorded, RetriesCounted, Ambiguous, Cursor, TypeOK, Tell, idleCall
  <1> QED
    BY <1>1, <1>2, <1>3, <1>4, <1>5, <1>6, <1>7, <1>8, <1>9
\* replay_retry: an unknown outcome is taken up once more, marked as retried.
LEMMA RetryKeeps ==
    ASSUME MutationsInvariant, NEW m \in Requests, replay_retry(m)
    PROVE  MutationsInvariant'
  <1> USE StepsFacts, MutationsAssumption
          DEF MutationsInvariant, recordVars, processVars, truthVars, Serving, At
  <1>1. TypeOK'
    <2>1. call' \in Calls /\ (call'.phase # "idle" => call'.m \in Requests)
      BY IdleTyped DEF replay_retry, TypeOK, Calls, Phases, States, Outcomes, Goto
    <2>2. retried' \in [Requests -> BOOLEAN]
      BY DEF replay_retry, TypeOK, Goto
    <2> QED
      BY <2>1, <2>2 DEF replay_retry, TypeOK
  <1>2. NothingRunsEarly'
    BY DEF replay_retry, NothingRunsEarly, Goto, Retryable
  <1>3. OpenRow'
    BY DEF replay_retry, OpenRow, TypeOK, Goto, Retryable
  <1>4. CallInHand'
    BY DEF replay_retry, CallInHand, Cursor, Ambiguous, Goto, Retryable
  <1>5. OutcomeInHand'
    BY DEF replay_retry, OutcomeInHand, AllSucceeded, Goto, Retryable
  <1>6. RowsFollowSteps'
    BY DEF replay_retry, RowsFollowSteps, AllSucceeded, TypeOK, Outcomes, Goto, Retryable
  <1>7. StepsAreTrue'
    BY DEF replay_retry, StepsAreTrue, TypeOK, Goto, Retryable
  <1>8. StepsOrdered'
    BY DEF replay_retry, StepsOrdered, Unattempted, TypeOK, Goto, Retryable
  <1>9. RetriesCounted'
    BY DEF replay_retry, RetriesCounted, Ambiguous, Cursor, TypeOK, Goto, Retryable
  <1> QED
    BY <1>1, <1>2, <1>3, <1>4, <1>5, <1>6, <1>7, <1>8, <1>9
\* replay_resume: a row left in flight is taken up where its steps stand.
LEMMA ResumeKeeps ==
    ASSUME MutationsInvariant, NEW m \in Requests, replay_resume(m)
    PROVE  MutationsInvariant'
  <1> USE StepsFacts, MutationsAssumption
          DEF MutationsInvariant, recordVars, processVars, truthVars, Serving, At
  <1>1. TypeOK'
    <2>1. call' \in Calls /\ (call'.phase # "idle" => call'.m \in Requests)
      BY IdleTyped DEF replay_resume, TypeOK, Calls, Phases, States, Outcomes, Goto
    <2> QED
      BY <2>1 DEF replay_resume, TypeOK
  <1>2. NothingRunsEarly'
    BY DEF replay_resume, NothingRunsEarly, Goto
  <1>3. OpenRow'
    BY DEF replay_resume, OpenRow, TypeOK, Goto
  <1>4. CallInHand'
    BY DEF replay_resume, CallInHand, Cursor, Ambiguous, Goto
  <1>5. OutcomeInHand'
    BY DEF replay_resume, OutcomeInHand, AllSucceeded, Goto
  <1>6. RowsFollowSteps'
    BY DEF replay_resume, RowsFollowSteps, AllSucceeded, TypeOK, Outcomes, Goto
  <1>7. StepsAreTrue'
    BY DEF replay_resume, StepsAreTrue, TypeOK, Goto
  <1>8. StepsOrdered'
    BY DEF replay_resume, StepsOrdered, Unattempted, TypeOK, Goto
  <1>9. RetriesCounted'
    BY DEF replay_resume, RetriesCounted, Ambiguous, Cursor, TypeOK, Goto
  <1> QED
    BY <1>1, <1>2, <1>3, <1>4, <1>5, <1>6, <1>7, <1>8, <1>9
-----------------------------------------------------------------------------
(* The executor.                                                           *)

\* steps_settled: the steps leave nothing to call, the row is to be finished.
LEMMA SettledKeeps ==
    ASSUME MutationsInvariant, steps_settled
    PROVE  MutationsInvariant'
  <1> USE StepsFacts, MutationsAssumption
          DEF MutationsInvariant, recordVars, processVars, truthVars, Serving, At
  <1>1. TypeOK'
    <2>1. call' \in Calls /\ (call'.phase # "idle" => call'.m \in Requests)
      BY IdleTyped DEF steps_settled, TypeOK, Calls, Phases, States, Outcomes, Goto
    <2> QED
      BY <2>1 DEF steps_settled, TypeOK
  <1>2. NothingRunsEarly'
    BY DEF steps_settled, NothingRunsEarly, Goto
  <1>3. OpenRow'
    BY DEF steps_settled, OpenRow, TypeOK, Goto
  <1>4. CallInHand'
    BY DEF steps_settled, CallInHand, Cursor, Ambiguous, Goto
  <1>5. OutcomeInHand'
    BY DEF steps_settled, OutcomeInHand, AllSucceeded, Cursor, TypeOK, Outcomes, Goto
  <1>6. RowsFollowSteps'
    BY DEF steps_settled, RowsFollowSteps, AllSucceeded, TypeOK, Outcomes, Goto
  <1>7. StepsAreTrue'
    BY DEF steps_settled, StepsAreTrue, TypeOK, Goto
  <1>8. StepsOrdered'
    BY DEF steps_settled, StepsOrdered, Unattempted, TypeOK, Goto
  <1>9. RetriesCounted'
    BY DEF steps_settled, RetriesCounted, Ambiguous, Cursor, TypeOK, Goto
  <1> QED
    BY <1>1, <1>2, <1>3, <1>4, <1>5, <1>6, <1>7, <1>8, <1>9
\* refuse_degraded: while the latch is set the step under the cursor is not called.
LEMMA RefuseKeeps ==
    ASSUME MutationsInvariant, refuse_degraded
    PROVE  MutationsInvariant'
  <1> USE StepsFacts, MutationsAssumption
          DEF MutationsInvariant, recordVars, processVars, truthVars, Serving, At
  <1>1. TypeOK'
    <2>1. call' \in Calls /\ (call'.phase # "idle" => call'.m \in Requests)
      BY IdleTyped DEF refuse_degraded, TypeOK, Calls, Phases, States, Outcomes, Tell
    <2>2. told' \in [Requests -> SUBSET States]
      BY DEF refuse_degraded, TypeOK, Tell, States, Outcomes
    <2> QED
      BY <2>1, <2>2 DEF refuse_degraded, TypeOK
  <1>2. NothingRunsEarly'
    BY DEF refuse_degraded, NothingRunsEarly, Tell, idleCall
  <1>3. OpenRow'
    BY DEF refuse_degraded, OpenRow, TypeOK, Tell, idleCall
  <1>4. CallInHand'
    BY DEF refuse_degraded, CallInHand, Cursor, Ambiguous, Tell, idleCall
  <1>5. OutcomeInHand'
    BY DEF refuse_degraded, OutcomeInHand, AllSucceeded, Tell, idleCall
  <1>6. RowsFollowSteps'
    BY DEF refuse_degraded, RowsFollowSteps, AllSucceeded, TypeOK, Outcomes, Tell, idleCall
  <1>7. StepsAreTrue'
    BY DEF refuse_degraded, StepsAreTrue, TypeOK, Tell, idleCall
  <1>8. StepsOrdered'
    BY DEF refuse_degraded, StepsOrdered, Unattempted, TypeOK, Tell, idleCall
  <1>9. RetriesCounted'
    BY DEF refuse_degraded, RetriesCounted, Ambiguous, Cursor, TypeOK, Tell, idleCall
  <1> QED
    BY <1>1, <1>2, <1>3, <1>4, <1>5, <1>6, <1>7, <1>8, <1>9
\* finish: the row takes the outcome its steps add up to.
LEMMA FinishKeeps ==
    ASSUME MutationsInvariant, finish
    PROVE  MutationsInvariant'
  <1> USE StepsFacts, MutationsAssumption
          DEF MutationsInvariant, recordVars, processVars, truthVars, Serving, At
  <1>0. /\ call.m \in Requests
        /\ call.outcome \in Outcomes
        /\ call.outcome = "SUCCEEDED" => AllSucceeded(call.m)
        /\ call.outcome = "FAILED" =>
              \E i \in Steps(call.m) : step[call.m][i] = "FAILED"
        /\ row' = [row EXCEPT ![call.m] = call.outcome]
        /\ row[call.m] # "FAILED"
    BY DEF finish, OutcomeInHand, OpenRow, TypeOK
  <1>1. TypeOK'
    <2>1. call' \in Calls /\ (call'.phase # "idle" => call'.m \in Requests)
      BY IdleTyped DEF finish, TypeOK, Calls, Phases, States, Outcomes, Tell, Goto
    <2>2. row' \in [Requests -> States \cup {"ABSENT"}]
      BY DEF finish, TypeOK, OutcomeInHand, States
    <2>3. told' \in [Requests -> SUBSET States]
      BY DEF finish, TypeOK, Tell, OutcomeInHand, States, Outcomes
    <2>4. degraded' \in BOOLEAN
      BY DEF finish, TypeOK, Tell
    <2> QED
      BY <2>1, <2>2, <2>3, <2>4 DEF finish, TypeOK
  <1>2. NothingRunsEarly'
    BY DEF finish, NothingRunsEarly, Tell, Goto, idleCall
  <1>3. OpenRow'
    BY DEF finish, OpenRow, TypeOK, Tell, Goto, idleCall
  <1>4. CallInHand'
    BY DEF finish, CallInHand, Cursor, Ambiguous, Tell, Goto, idleCall
  <1>5. OutcomeInHand'
    BY <1>0 DEF finish, OutcomeInHand, AllSucceeded, Tell, Goto, idleCall
  <1>6. RowsFollowSteps'
    <2> SUFFICES ASSUME NEW n \in Requests PROVE RowsFollowSteps!(n)'
      BY DEF RowsFollowSteps
    <2>1. CASE n = call.m
      BY <2>1, <1>0 DEF finish, RowsFollowSteps, AllSucceeded, TypeOK, Outcomes, Tell, Goto
    <2>2. CASE n # call.m
      BY <2>2, <1>0 DEF finish, RowsFollowSteps, AllSucceeded, TypeOK, Tell, Goto
    <2> QED
      BY <2>1, <2>2
  <1>7. StepsAreTrue'
    BY DEF finish, StepsAreTrue, TypeOK, Tell, Goto, idleCall
  <1>8. StepsOrdered'
    BY <1>0 DEF finish, OpenRow, StepsOrdered, Unattempted, TypeOK
  <1>9. RetriesCounted'
    BY <1>0 DEF finish, RetriesCounted, Ambiguous, Cursor, TypeOK, Outcomes, Tell, Goto, idleCall
  <1> QED
    BY <1>1, <1>2, <1>3, <1>4, <1>5, <1>6, <1>7, <1>8, <1>9
\* mark_degraded: the row whose anchor failed is flagged.
LEMMA FlagKeeps ==
    ASSUME MutationsInvariant, mark_degraded
    PROVE  MutationsInvariant'
  <1> USE StepsFacts, MutationsAssumption
          DEF MutationsInvariant, recordVars, processVars, truthVars, Serving, At
  <1>1. TypeOK'
    <2>1. call' \in Calls /\ (call'.phase # "idle" => call'.m \in Requests)
      BY IdleTyped DEF mark_degraded, TypeOK, Calls, Phases, States, Outcomes, Tell
    <2>2. told' \in [Requests -> SUBSET States]
      BY DEF mark_degraded, TypeOK, Tell, Calls
    <2>3. flagged' \in [Requests -> BOOLEAN]
      BY DEF mark_degraded, TypeOK, Tell
    <2> QED
      BY <2>1, <2>2, <2>3 DEF mark_degraded, TypeOK
  <1>2. NothingRunsEarly'
    BY DEF mark_degraded, NothingRunsEarly, Tell, idleCall
  <1>3. OpenRow'
    BY DEF mark_degraded, OpenRow, TypeOK, Tell, idleCall
  <1>4. CallInHand'
    BY DEF mark_degraded, CallInHand, Cursor, Ambiguous, Tell, idleCall
  <1>5. OutcomeInHand'
    BY DEF mark_degraded, OutcomeInHand, AllSucceeded, Tell, idleCall
  <1>6. RowsFollowSteps'
    BY DEF mark_degraded, OutcomeInHand, RowsFollowSteps, AllSucceeded, TypeOK, Tell
  <1>7. StepsAreTrue'
    BY DEF mark_degraded, StepsAreTrue, TypeOK, Tell, idleCall
  <1>8. StepsOrdered'
    BY DEF mark_degraded, StepsOrdered, Unattempted, TypeOK, Tell, idleCall
  <1>9. RetriesCounted'
    BY DEF mark_degraded, RetriesCounted, Ambiguous, Cursor, TypeOK, Tell, idleCall
  <1> QED
    BY <1>1, <1>2, <1>3, <1>4, <1>5, <1>6, <1>7, <1>8, <1>9
\* hook_failed: the on_created hook raised after the creation succeeded.
LEMMA HookFailedKeeps ==
    ASSUME MutationsInvariant, NEW i \in StepNumbers, hook_failed(i)
    PROVE  MutationsInvariant'
  <1> USE StepsFacts, MutationsAssumption
          DEF MutationsInvariant, recordVars, processVars, truthVars, Serving, At
  <1>1. TypeOK'
    <2>1. call' \in Calls /\ (call'.phase # "idle" => call'.m \in Requests)
      BY IdleTyped DEF hook_failed, TypeOK, Calls, Phases, States, Outcomes, idleCall
    <2> QED
      BY <2>1 DEF hook_failed, TypeOK
  <1>2. NothingRunsEarly'
    BY DEF hook_failed, NothingRunsEarly, idleCall
  <1>3. OpenRow'
    BY DEF hook_failed, OpenRow, TypeOK, idleCall
  <1>4. CallInHand'
    BY DEF hook_failed, CallInHand, Cursor, Ambiguous, idleCall
  <1>5. OutcomeInHand'
    BY DEF hook_failed, OutcomeInHand, AllSucceeded, idleCall
  <1>6. RowsFollowSteps'
    BY DEF hook_failed, RowsFollowSteps, AllSucceeded, TypeOK, Outcomes, idleCall
  <1>7. StepsAreTrue'
    BY DEF hook_failed, StepsAreTrue, TypeOK, idleCall
  <1>8. StepsOrdered'
    BY DEF hook_failed, StepsOrdered, Unattempted, TypeOK, idleCall
  <1>9. RetriesCounted'
    BY DEF hook_failed, RetriesCounted, Ambiguous, Cursor, TypeOK, idleCall
  <1> QED
    BY <1>1, <1>2, <1>3, <1>4, <1>5, <1>6, <1>7, <1>8, <1>9
\* step_resolve_only: an ambiguous step that may only be resolved is not called again.
LEMMA ResolveOnlyKeeps ==
    ASSUME MutationsInvariant, NEW i \in StepNumbers, step_resolve_only(i)
    PROVE  MutationsInvariant'
  <1> USE StepsFacts, MutationsAssumption
          DEF MutationsInvariant, recordVars, processVars, truthVars, Serving, At
  <1>0. PICK m \in Requests :
        /\ m = call.m /\ i \in Steps(m) /\ Cursor(m, i) /\ Ambiguous(m, i)
        /\ Policy[m] = "resolve_only"
        /\ step' = [step EXCEPT ![m][i] = "OUTCOME_UNKNOWN"]
    BY DEF step_resolve_only, TypeOK, Cursor
  <1>a. /\ DOMAIN step' = Requests
        /\ \A n \in Requests : step'[n] \in [Steps(n) -> States \cup {"PENDING"}]
        /\ \A n \in Requests : n # m => step'[n] = step[n]
        /\ step'[m][i] = "OUTCOME_UNKNOWN"
        /\ \A j \in Steps(m) : j # i => step'[m][j] = step[m][j]
    BY <1>0, StateNames DEF TypeOK
  <1>1. TypeOK'
    <2>1. call' \in Calls /\ (call'.phase # "idle" => call'.m \in Requests)
      BY <1>0, IdleTyped DEF step_resolve_only, TypeOK, Calls, Phases, States, Outcomes,
         Anchored, Goto
    <2>2. degraded' \in BOOLEAN
      BY DEF step_resolve_only, TypeOK, Anchored
    <2> QED
      BY <1>a, <2>1, <2>2 DEF step_resolve_only, TypeOK
  <1>2. NothingRunsEarly'
    BY DEF step_resolve_only, NothingRunsEarly, Anchored, Goto
  <1>3. OpenRow'
    BY DEF step_resolve_only, OpenRow, Anchored, Goto, idleCall
  <1>4. CallInHand'
    BY DEF step_resolve_only, CallInHand, Anchored, Goto, idleCall
  <1>5. OutcomeInHand'
    BY DEF step_resolve_only, OutcomeInHand, Outcomes, Anchored, Goto, idleCall
  <1>6. RowsFollowSteps'
    BY <1>0, <1>a DEF step_resolve_only, OpenRow, RowsFollowSteps, AllSucceeded, Cursor,
       Ambiguous
  <1>7. StepsAreTrue'
    BY <1>0, <1>a DEF step_resolve_only, StepsAreTrue, Ambiguous
  <1>8. StepsOrdered'
    BY <1>0, <1>a DEF step_resolve_only, StepsOrdered, Unattempted, Ambiguous
  <1>9. RetriesCounted'
    BY <1>0, <1>a DEF step_resolve_only, RetriesCounted, Ambiguous, Cursor, Anchored, Goto,
       idleCall
  <1> QED
    BY <1>1, <1>2, <1>3, <1>4, <1>5, <1>6, <1>7, <1>8, <1>9

\* start_step: the step is in flight before the provider is called.
LEMMA StartKeeps ==
    ASSUME MutationsInvariant, NEW i \in StepNumbers, start_step(i)
    PROVE  MutationsInvariant'
  <1> USE StepsFacts, MutationsAssumption
          DEF MutationsInvariant, recordVars, processVars, truthVars, Serving, At
  <1>0. PICK m \in Requests, s \in {"IN_FLIGHT", "OUTCOME_UNKNOWN"} :
        /\ m = call.m /\ i \in Steps(m) /\ Cursor(m, i)
        /\ step[m][i] = "PENDING" \/ (Ambiguous(m, i) /\ Policy[m] = "retry_same_key")
        /\ step' = [step EXCEPT ![m][i] = s]
        /\ call' = [phase |-> "started", m |-> m, outcome |-> "IN_FLIGHT"]
    <2> DEFINE q == call.m
               z == IF step[q][i] = "PENDING" THEN "IN_FLIGHT" ELSE step[q][i]
    <2>1. q \in Requests /\ Callable(q, i)
      BY DEF start_step, TypeOK
    <2>2. z \in {"IN_FLIGHT", "OUTCOME_UNKNOWN"} /\ step' = [step EXCEPT ![q][i] = z]
      BY <2>1 DEF start_step, Callable, Ambiguous
    <2>3. /\ q = call.m /\ Cursor(q, i)
          /\ step[q][i] = "PENDING" \/ (Ambiguous(q, i) /\ Policy[q] = "retry_same_key")
      BY <2>1 DEF Callable
    <2>4. call' = [phase |-> "started", m |-> q, outcome |-> "IN_FLIGHT"]
      BY DEF start_step, Goto
    <2> HIDE DEF q, z
    <2> QED
      BY <2>1, <2>2, <2>3, <2>4 DEF Cursor
  <1>b. \A j \in Steps(m) : Cursor(m, j)' => j = i
    <2>1. SUFFICES ASSUME NEW j \in Steps(m), Cursor(m, j)' PROVE j = i
      OBVIOUS
    <2>2. Cursor(m, j)
      <3>1. \A k \in Steps(m) : step'[m][k] = "SUCCEEDED" <=> step[m][k] = "SUCCEEDED"
        BY <1>0 DEF Cursor, TypeOK
      <3>2. \A k \in 1..(j - 1) : k \in Steps(m)
        BY <1>0 DEF Steps
      <3> QED
        BY <1>0, <2>1, <3>1, <3>2 DEF Cursor
    <2> QED
      BY <1>0, <2>2, CursorUnique
  <1>a. /\ DOMAIN step' = Requests
        /\ \A n \in Requests : step'[n] \in [Steps(n) -> States \cup {"PENDING"}]
        /\ \A n \in Requests : n # m => step'[n] = step[n]
        /\ step'[m][i] = s
        /\ \A j \in Steps(m) : j # i => step'[m][j] = step[m][j]
    BY <1>0, StateNames DEF TypeOK
  <1>1. TypeOK'
    <2>1. call' \in Calls /\ (call'.phase # "idle" => call'.m \in Requests)
      BY <1>0 DEF Calls, Phases, States, Outcomes
    <2> QED
      BY <1>a, <2>1 DEF start_step, TypeOK
  <1>2. NothingRunsEarly'
    BY DEF start_step, NothingRunsEarly, Goto
  <1>3. OpenRow'
    BY DEF start_step, OpenRow, Goto
  <1>4. CallInHand'
    <2>1. call'.phase = "started" /\ call'.m = m
      BY <1>0
    <2>2. Policy[m] = "resolve_only" => calls'[m][i] = 0
      BY <1>0 DEF start_step, StepsAreTrue
    <2> QED
      BY <1>0, <1>a, <1>b, <2>1, <2>2 DEF CallInHand, Ambiguous
  <1>5. OutcomeInHand'
    BY DEF start_step, OutcomeInHand, Goto
  <1>6. RowsFollowSteps'
    BY <1>0, <1>a DEF start_step, OpenRow, RowsFollowSteps, AllSucceeded, Ambiguous
  <1>7. StepsAreTrue'
    BY <1>0, <1>a DEF start_step, StepsAreTrue
  <1>8. StepsOrdered'
    <2> SUFFICES ASSUME NEW n \in Requests PROVE StepsOrdered!(n)'
      BY DEF StepsOrdered
    <2>1. CASE n = m
      <3>1. ~Unattempted(m)' /\ ~Unattempted(m)
        BY <1>0, <1>a DEF Unattempted, Ambiguous
      <3>2. \A j \in Steps(m) : j < i => step[m][j] = "SUCCEEDED"
        <4>1. \A j \in Steps(m) : j < i => j \in 1..(i - 1)
          BY <1>0
        <4> QED
          BY <1>0, <4>1 DEF Cursor
      <3> QED
        BY <2>1, <3>1, <3>2, <1>0, <1>a DEF StepsOrdered, Cursor
    <2>2. CASE n # m
      BY <2>2, <1>a DEF start_step, StepsOrdered, Unattempted
    <2> QED
      BY <2>1, <2>2
  <1>9. RetriesCounted'
    <2> SUFFICES ASSUME NEW n \in Requests PROVE RetriesCounted!(n)'
      BY DEF RetriesCounted
    <2>1. CASE n = m
      <3>1. ~flagged[m] /\ Policy[m] = "retry_same_key" /\ ~retried[m] => step[m][i] = "PENDING"
        BY <1>0 DEF start_step, RetriesCounted, OpenRow, NothingRunsEarly
      <3> QED
        BY <2>1, <3>1, <1>0, <1>a, <1>b DEF start_step, RetriesCounted, StepsAreTrue
    <2>2. CASE n # m
      BY <2>2, <1>0, <1>a DEF start_step, RetriesCounted, Ambiguous, Cursor
    <2> QED
      BY <2>1, <2>2
  <1> QED
    BY <1>1, <1>2, <1>3, <1>4, <1>5, <1>6, <1>7, <1>8, <1>9

\* invoke: the provider is called once, and may or may not take effect.
LEMMA InvokeKeeps ==
    ASSUME MutationsInvariant, NEW i \in StepNumbers, invoke(i)
    PROVE  MutationsInvariant'
  <1> USE StepsFacts, MutationsAssumption
          DEF MutationsInvariant, recordVars, processVars, truthVars, Serving, At
  <1>0. PICK m \in Requests, o \in Outcomes, effect \in BOOLEAN :
        /\ m = call.m /\ i \in Steps(m) /\ Cursor(m, i)
        /\ call.phase = "started"
        /\ calls' = [calls EXCEPT ![m][i] = @ + 1]
        /\ o = "SUCCEEDED" => effect
        /\ o = "FAILED" => ~effect
        /\ took' = [took EXCEPT ![m] = IF effect THEN @ \cup {i} ELSE @]
        /\ call' = [phase |-> "invoked", m |-> m, outcome |-> o]
    BY DEF invoke, TypeOK, Cursor, Goto
  <1>a. /\ DOMAIN calls' = Requests /\ DOMAIN took' = Requests
        /\ \A n \in Requests : calls'[n] \in [Steps(n) -> Nat] /\ took'[n] \subseteq Steps(n)
        /\ \A n \in Requests : n # m => calls'[n] = calls[n] /\ took'[n] = took[n]
        /\ calls'[m][i] = calls[m][i] + 1
        /\ \A j \in Steps(m) : j # i =>
              calls'[m][j] = calls[m][j] /\ (j \in took'[m] <=> j \in took[m])
        /\ i \in took'[m] <=> (i \in took[m] \/ effect)
    BY <1>0 DEF TypeOK
  <1>b. \A j \in Steps(m) : Cursor(m, j) => j = i
    BY <1>0, CursorUnique
  <1>c. UNCHANGED <<row, retried, flagged, step, degraded, up, recovering, told>>
    BY DEF invoke
  <1>d. Ambiguous(m, i) /\ calls[m][i] \in Nat
    BY <1>0 DEF CallInHand, TypeOK
  <1>1. TypeOK'
    <2>1. call' \in Calls /\ call'.m \in Requests
      BY <1>0 DEF Calls, Phases, States
    <2> QED
      BY <1>a, <1>c, <2>1 DEF TypeOK
  <1>2. NothingRunsEarly'
    BY <1>0, <1>c DEF NothingRunsEarly
  <1>3. OpenRow'
    BY <1>0, <1>c DEF OpenRow
  <1>4. CallInHand'
    <2>1. call'.phase = "invoked" /\ call'.m = m /\ call'.outcome = o
      BY <1>0
    <2>2. \A j \in Steps(m) : (Cursor(m, j)' <=> Cursor(m, j)) /\ (Ambiguous(m, j)' <=> Ambiguous(m, j))
      BY <1>c DEF Cursor, Ambiguous
    <2>3. o = "SUCCEEDED" => i \in took'[m]
      BY <1>0, <1>a
    <2>4. o = "FAILED" /\ Policy[m] = "resolve_only" => i \notin took'[m]
      BY <1>0, <1>a DEF CallInHand, StepsAreTrue
    <2>5. calls'[m][i] > 0
      BY <1>a, <1>d
    <2> QED
      BY <1>0, <1>b, <1>d, <2>1, <2>2, <2>3, <2>4, <2>5 DEF CallInHand
  <1>5. OutcomeInHand'
    BY <1>0 DEF OutcomeInHand
  <1>6. RowsFollowSteps'
    BY <1>c DEF RowsFollowSteps, AllSucceeded
  <1>7. StepsAreTrue'
    <2> SUFFICES ASSUME NEW n \in Requests, NEW j \in Steps(n) PROVE StepsAreTrue!(n)!(j)'
      BY DEF StepsAreTrue
    <2>1. CASE n = m /\ j = i
      BY <2>1, <1>0, <1>a, <1>c, <1>d DEF StepsAreTrue, CallInHand, Ambiguous
    <2>2. CASE n = m /\ j # i
      BY <2>2, <1>a, <1>c DEF StepsAreTrue
    <2>3. CASE n # m
      BY <2>3, <1>a, <1>c DEF StepsAreTrue
    <2> QED
      BY <2>1, <2>2, <2>3
  <1>8. StepsOrdered'
    <2> SUFFICES ASSUME NEW n \in Requests PROVE StepsOrdered!(n)'
      BY DEF StepsOrdered
    <2>1. CASE n = m
      BY <2>1, <1>0, <1>a, <1>c, <1>d DEF StepsOrdered, Unattempted, Ambiguous
    <2>2. CASE n # m
      BY <2>2, <1>a, <1>c DEF StepsOrdered, Unattempted
    <2> QED
      BY <2>1, <2>2
  <1>9. RetriesCounted'
    <2> SUFFICES ASSUME NEW n \in Requests PROVE RetriesCounted!(n)'
      BY DEF RetriesCounted
    <2>1. CASE n = m
      BY <2>1, <1>0, <1>a, <1>c, <1>d DEF RetriesCounted, TypeOK
    <2>2. CASE n # m
      BY <2>2, <1>0, <1>a, <1>c DEF RetriesCounted, Ambiguous
    <2> QED
      BY <2>1, <2>2
  <1> QED
    BY <1>1, <1>2, <1>3, <1>4, <1>5, <1>6, <1>7, <1>8, <1>9

\* record_step: what the provider answered is committed.
LEMMA RecordKeeps ==
    ASSUME MutationsInvariant, NEW i \in StepNumbers, record_step(i)
    PROVE  MutationsInvariant'
  <1> USE StepsFacts, MutationsAssumption
          DEF MutationsInvariant, recordVars, processVars, truthVars, Serving, At
  <1>0. PICK m \in Requests, s \in Outcomes :
        /\ m = call.m /\ s = call.outcome /\ i \in Steps(m) /\ Cursor(m, i)
        /\ call.phase = "invoked"
        /\ step' = [step EXCEPT ![m][i] = s]
        /\ \/ call' = [phase |-> "steps", m |-> m, outcome |-> "IN_FLIGHT"] /\ s = "SUCCEEDED"
           \/ call' = [phase |-> "finish", m |-> m, outcome |-> s] /\ s # "SUCCEEDED"
           \/ call' = [phase |-> "flag", m |-> m, outcome |-> s]
    <2> DEFINE q == call.m
               z == call.outcome
    <2>1. /\ q \in Requests /\ z \in Outcomes /\ i \in Steps(q) /\ Cursor(q, i)
          /\ q = call.m /\ z = call.outcome /\ call.phase = "invoked"
      BY DEF record_step, TypeOK, CallInHand, Cursor
    <2>2. step' = [step EXCEPT ![q][i] = z]
      BY DEF record_step
    <2>3. \/ call' = [phase |-> "steps", m |-> q, outcome |-> "IN_FLIGHT"] /\ z = "SUCCEEDED"
          \/ call' = [phase |-> "finish", m |-> q, outcome |-> z] /\ z # "SUCCEEDED"
          \/ call' = [phase |-> "flag", m |-> q, outcome |-> z]
      BY DEF record_step, Anchored, Goto
    <2> HIDE DEF q, z
    <2> QED
      BY <2>1, <2>2, <2>3
  <1>a. /\ DOMAIN step' = Requests
        /\ \A n \in Requests : step'[n] \in [Steps(n) -> States \cup {"PENDING"}]
        /\ \A n \in Requests : n # m => step'[n] = step[n]
        /\ step'[m][i] = s
        /\ \A j \in Steps(m) : j # i => step'[m][j] = step[m][j]
    BY <1>0, StateNames DEF TypeOK, Outcomes
  <1>c. UNCHANGED <<row, retried, flagged, up, recovering, calls, took, told>>
    BY DEF record_step
  <1>d. /\ Ambiguous(m, i) /\ calls[m][i] > 0
        /\ s = "SUCCEEDED" => i \in took[m]
        /\ s = "FAILED" /\ Policy[m] = "resolve_only" => i \notin took[m]
    BY <1>0 DEF CallInHand
  <1>e. \A j \in Steps(m) : j < i => step[m][j] = "SUCCEEDED"
    <2>1. \A j \in Steps(m) : j < i => j \in 1..(i - 1)
      BY <1>0
    <2> QED
      BY <1>0, <2>1 DEF Cursor
  <1>f. \A j \in Steps(m) : i < j => step[m][j] = "PENDING"
    BY <1>0, <1>d DEF StepsOrdered, Unattempted, Ambiguous
  <1>g. \A j \in Steps(m) : j = i \/ j < i \/ i < j
    BY <1>0
  <1>1. TypeOK'
    <2>1. call' \in Calls /\ call'.m \in Requests
      BY <1>0 DEF Calls, Phases, States, Outcomes
    <2>2. degraded' \in BOOLEAN
      BY DEF record_step, Anchored, TypeOK
    <2> QED
      BY <1>a, <1>c, <2>1, <2>2 DEF TypeOK
  <1>2. NothingRunsEarly'
    BY <1>0, <1>c DEF NothingRunsEarly
  <1>3. OpenRow'
    BY <1>0, <1>c DEF OpenRow
  <1>4. CallInHand'
    BY <1>0 DEF CallInHand
  <1>5. OutcomeInHand'
    BY <1>0, <1>a DEF OutcomeInHand
  <1>6. RowsFollowSteps'
    <2> SUFFICES ASSUME NEW n \in Requests PROVE RowsFollowSteps!(n)'
      BY DEF RowsFollowSteps
    <2>1. CASE n = m
      <3>1. row[m] \in {"IN_FLIGHT", "OUTCOME_UNKNOWN"}
        BY <1>0 DEF OpenRow
      <3>2. StepCount[m] = 1 => i = 1 /\ "SUCCEEDED" \notin told[m] /\ "FAILED" \notin told[m]
        BY <1>0, <1>d DEF RowsFollowSteps, Ambiguous
      <3> QED
        BY <2>1, <3>1, <3>2, <1>0, <1>a, <1>c DEF RowsFollowSteps
    <2>2. CASE n # m
      BY <2>2, <1>a, <1>c DEF RowsFollowSteps, AllSucceeded
    <2> QED
      BY <2>1, <2>2
  <1>7. StepsAreTrue'
    <2> SUFFICES ASSUME NEW n \in Requests, NEW j \in Steps(n) PROVE StepsAreTrue!(n)!(j)'
      BY DEF StepsAreTrue
    <2>1. CASE n = m /\ j = i
      BY <2>1, <1>0, <1>a, <1>c, <1>d DEF StepsAreTrue, Outcomes
    <2>2. CASE n # m \/ j # i
      BY <2>2, <1>a, <1>c DEF StepsAreTrue
    <2> QED
      BY <2>1, <2>2
  <1>8. StepsOrdered'
    <2> SUFFICES ASSUME NEW n \in Requests PROVE StepsOrdered!(n)'
      BY DEF StepsOrdered
    <2>1. CASE n = m
      <3>1. ~Unattempted(m)'
        BY <1>0, <1>c, <1>d DEF Unattempted
      <3>2. ASSUME NEW j \in Steps(m), NEW k \in Steps(m), j < k, step'[m][k] # "PENDING"
            PROVE  step'[m][j] = "SUCCEEDED"
        BY <3>2, <1>0, <1>a, <1>e, <1>f, <1>g
      <3> QED
        BY <2>1, <3>1, <3>2
    <2>2. CASE n # m
      BY <2>2, <1>a, <1>c DEF StepsOrdered, Unattempted
    <2> QED
      BY <2>1, <2>2
  <1>9. RetriesCounted'
    <2> SUFFICES ASSUME NEW n \in Requests PROVE RetriesCounted!(n)'
      BY DEF RetriesCounted
    <2>1. CASE n = m
      <3>1. s = "SUCCEEDED" => \A j \in Steps(m) : ~Ambiguous(m, j)'
        BY <1>a, <1>e, <1>f, <1>g DEF Ambiguous
      <3> QED
        BY <2>1, <3>1, <1>0, <1>a, <1>c DEF RetriesCounted
    <2>2. CASE n # m
      BY <2>2, <1>0, <1>a, <1>c DEF RetriesCounted, Ambiguous
    <2> QED
      BY <2>1, <2>2
  <1> QED
    BY <1>1, <1>2, <1>3, <1>4, <1>5, <1>6, <1>7, <1>8, <1>9

-----------------------------------------------------------------------------
(* The host.                                                               *)

\* crash: the executor forgets its local state, the rows stay.
LEMMA CrashKeeps ==
    ASSUME MutationsInvariant, crash
    PROVE  MutationsInvariant'
  <1> USE StepsFacts, MutationsAssumption
          DEF MutationsInvariant, recordVars, processVars, truthVars, Serving, At
  <1>1. TypeOK'
    <2>1. call' \in Calls /\ (call'.phase # "idle" => call'.m \in Requests)
      BY IdleTyped DEF crash, TypeOK, Calls, Phases, States, Outcomes, idleCall
    <2> QED
      BY <2>1 DEF crash, TypeOK
  <1>2. NothingRunsEarly'
    BY DEF crash, NothingRunsEarly, idleCall
  <1>3. OpenRow'
    BY DEF crash, OpenRow, TypeOK, idleCall
  <1>4. CallInHand'
    BY DEF crash, CallInHand, Cursor, Ambiguous, idleCall
  <1>5. OutcomeInHand'
    BY DEF crash, OutcomeInHand, AllSucceeded, idleCall
  <1>6. RowsFollowSteps'
    BY DEF crash, RowsFollowSteps, AllSucceeded, TypeOK, Outcomes, idleCall
  <1>7. StepsAreTrue'
    BY DEF crash, StepsAreTrue, TypeOK, idleCall
  <1>8. StepsOrdered'
    BY DEF crash, StepsOrdered, Unattempted, TypeOK, idleCall
  <1>9. RetriesCounted'
    BY DEF crash, RetriesCounted, Ambiguous, Cursor, TypeOK, idleCall
  <1> QED
    BY <1>1, <1>2, <1>3, <1>4, <1>5, <1>6, <1>7, <1>8, <1>9
\* restart: the interrupted rows wait for recovery.
LEMMA RestartKeeps ==
    ASSUME MutationsInvariant, restart
    PROVE  MutationsInvariant'
  <1> USE StepsFacts, MutationsAssumption
          DEF MutationsInvariant, recordVars, processVars, truthVars, Serving, At
  <1>1. TypeOK'
    <2>1. call' \in Calls /\ (call'.phase # "idle" => call'.m \in Requests)
      BY IdleTyped DEF restart, TypeOK, Calls, Phases, States, Outcomes, idleCall
    <2>2. degraded' \in BOOLEAN
      BY DEF restart, TypeOK, Tell
    <2> QED
      BY <2>1, <2>2 DEF restart, TypeOK
  <1>2. NothingRunsEarly'
    BY DEF restart, NothingRunsEarly
  <1>3. OpenRow'
    BY DEF restart, OpenRow, TypeOK
  <1>4. CallInHand'
    BY DEF restart, CallInHand, Cursor, Ambiguous
  <1>5. OutcomeInHand'
    BY DEF restart, OutcomeInHand, AllSucceeded
  <1>6. RowsFollowSteps'
    BY DEF restart, RowsFollowSteps, AllSucceeded, TypeOK, Outcomes
  <1>7. StepsAreTrue'
    BY DEF restart, StepsAreTrue, TypeOK
  <1>8. StepsOrdered'
    BY DEF restart, StepsOrdered, Unattempted, TypeOK
  <1>9. RetriesCounted'
    BY DEF restart, RetriesCounted, Ambiguous, Cursor, TypeOK
  <1> QED
    BY <1>1, <1>2, <1>3, <1>4, <1>5, <1>6, <1>7, <1>8, <1>9
\* The degraded latch is set or cleared from outside.
LEMMA LatchKeeps ==
    ASSUME MutationsInvariant, latch_degraded \/ clear_degraded
    PROVE  MutationsInvariant'
  <1> USE StepsFacts, MutationsAssumption
          DEF MutationsInvariant, recordVars, processVars, truthVars, Serving, At
  <1>1. TypeOK'
    <2>1. call' \in Calls /\ (call'.phase # "idle" => call'.m \in Requests)
      BY IdleTyped DEF latch_degraded, clear_degraded, TypeOK, Calls, Phases, States, Outcomes, idleCall
    <2> QED
      BY <2>1 DEF latch_degraded, clear_degraded, TypeOK
  <1>2. NothingRunsEarly'
    BY DEF latch_degraded, clear_degraded, NothingRunsEarly
  <1>3. OpenRow'
    BY DEF latch_degraded, clear_degraded, OpenRow, TypeOK
  <1>4. CallInHand'
    BY DEF latch_degraded, clear_degraded, CallInHand, Cursor, Ambiguous
  <1>5. OutcomeInHand'
    BY DEF latch_degraded, clear_degraded, OutcomeInHand, AllSucceeded
  <1>6. RowsFollowSteps'
    BY DEF latch_degraded, clear_degraded, RowsFollowSteps, AllSucceeded, TypeOK, Outcomes
  <1>7. StepsAreTrue'
    BY DEF latch_degraded, clear_degraded, StepsAreTrue, TypeOK
  <1>8. StepsOrdered'
    BY DEF latch_degraded, clear_degraded, StepsOrdered, Unattempted, TypeOK
  <1>9. RetriesCounted'
    BY DEF latch_degraded, clear_degraded, RetriesCounted, Ambiguous, Cursor, TypeOK
  <1> QED
    BY <1>1, <1>2, <1>3, <1>4, <1>5, <1>6, <1>7, <1>8, <1>9
\* recover: an interrupted row is settled from its steps.
LEMMA RecoverKeeps ==
    ASSUME MutationsInvariant, NEW m \in Requests, recover(m)
    PROVE  MutationsInvariant'
  <1> USE StepsFacts, MutationsAssumption
          DEF MutationsInvariant, recordVars, processVars, truthVars, Serving, At
  <1>0. PICK s \in Outcomes \cup {"IN_FLIGHT"} :
        /\ s = RecoveredState(m) /\ m \in recovering
        /\ row' = [row EXCEPT ![m] = s]
        /\ step' = [step EXCEPT ![m] = RecoveredSteps(m)]
        /\ recovering' = recovering \ {m} \/ (recovering' = {} /\ ~up' /\ s # "IN_FLIGHT")
    BY DEF recover, RecoveredState, Outcomes
  <1>c. /\ UNCHANGED <<retried, flagged, call, calls, took, told>>
        /\ call.phase = "idle" /\ row[m] = "IN_FLIGHT" /\ ~retried[m]
        /\ row'[m] = s /\ \A n \in Requests : n # m => row'[n] = row[n]
    BY <1>0 DEF recover, NothingRunsEarly, RowsFollowSteps, Outcomes, TypeOK
  <1>d. /\ \A n \in Requests : n # m => step'[n] = step[n]
        /\ \A i \in Steps(m) : step[m][i] \in States \cup {"PENDING"}
        /\ \A i \in Steps(m) : step[m][i] = "IN_FLIGHT" => step'[m][i] = "OUTCOME_UNKNOWN"
        /\ (\A j \in Steps(m) : step[m][j] = "PENDING") =>
              \A i \in Steps(m) : step'[m][i] = "FAILED"
        /\ ~(\A j \in Steps(m) : step[m][j] = "PENDING") =>
              \A i \in Steps(m) : step[m][i] # "IN_FLIGHT" => step'[m][i] = step[m][i]
    BY <1>0 DEF RecoveredSteps, TypeOK
  <1>e. /\ (\A j \in Steps(m) : step[m][j] = "PENDING") => s = "FAILED"
        /\ ~(\A j \in Steps(m) : step[m][j] = "PENDING") =>
              /\ s = "FAILED" => \E i \in Steps(m) : step[m][i] = "FAILED"
              /\ s = "SUCCEEDED" => \A i \in Steps(m) : step[m][i] = "SUCCEEDED"
              /\ s = "IN_FLIGHT" => \A i \in Steps(m) : ~Ambiguous(m, i)
    <2> DEFINE states == {step[m][i] : i \in Steps(m)}
    <2>1. \A x : x \in states <=> \E i \in Steps(m) : step[m][i] = x
      OBVIOUS
    <2>2. states = {"PENDING"} <=> \A j \in Steps(m) : step[m][j] = "PENDING"
      BY <2>1
    <2>3. states = {"SUCCEEDED"} <=> \A j \in Steps(m) : step[m][j] = "SUCCEEDED"
      BY <2>1
    <2>4. states \cap {"IN_FLIGHT", "OUTCOME_UNKNOWN"} = {} <=>
             \A i \in Steps(m) : ~Ambiguous(m, i)
      BY <2>1 DEF Ambiguous
    <2>5. s = IF states = {"PENDING"} THEN "FAILED"
              ELSE IF states \cap {"IN_FLIGHT", "OUTCOME_UNKNOWN"} # {}
                   THEN "OUTCOME_UNKNOWN"
              ELSE IF "FAILED" \in states THEN "FAILED"
              ELSE IF states = {"SUCCEEDED"} THEN "SUCCEEDED"
              ELSE "IN_FLIGHT"
      BY <1>0 DEF RecoveredState
    <2> HIDE DEF states
    <2> QED
      BY <2>1, <2>2, <2>3, <2>4, <2>5
  <1>1. TypeOK'
    <2>1. row' \in [Requests -> States \cup {"ABSENT"}]
      BY <1>0 DEF TypeOK, States
    <2>2. \A n \in Requests : step'[n] \in [Steps(n) -> States \cup {"PENDING"}]
      <3>1. RecoveredSteps(m) \in [Steps(m) -> States \cup {"PENDING"}]
        BY <1>d, StateNames DEF RecoveredSteps
      <3> QED
        BY <1>0, <3>1 DEF TypeOK
    <2>3. up' \in BOOLEAN /\ degraded' \in BOOLEAN
      BY DEF recover, TypeOK
    <2>4. recovering' \subseteq Requests /\ DOMAIN step' = Requests
      BY <1>0 DEF TypeOK
    <2> QED
      BY <1>c, <2>1, <2>2, <2>3, <2>4 DEF TypeOK
  <1>2. NothingRunsEarly'
    BY <1>0, <1>c DEF NothingRunsEarly, TypeOK
  <1>3. OpenRow'
    BY <1>c DEF OpenRow
  <1>4. CallInHand'
    BY <1>c DEF CallInHand
  <1>5. OutcomeInHand'
    BY <1>c DEF OutcomeInHand
  <1>6. RowsFollowSteps'
    <2> SUFFICES ASSUME NEW n \in Requests PROVE RowsFollowSteps!(n)'
      BY DEF RowsFollowSteps
    <2>1. CASE n = m
      <3>1. s = "SUCCEEDED" => \A i \in Steps(m) : step'[m][i] = "SUCCEEDED"
        BY <1>d, <1>e
      <3>2. s = "FAILED" => \E i \in Steps(m) : step'[m][i] = "FAILED"
        BY <1>d, <1>e
      <3>3. \A i \in Steps(m) : step[m][i] \in {"SUCCEEDED", "FAILED"} => step'[m][i] = step[m][i]
        BY <1>d
      <3> QED
        BY <2>1, <3>1, <3>2, <3>3, <1>0, <1>c DEF RowsFollowSteps, AllSucceeded, Outcomes
    <2>2. CASE n # m
      BY <2>2, <1>c, <1>d DEF RowsFollowSteps, AllSucceeded
    <2> QED
      BY <2>1, <2>2
  <1>7. StepsAreTrue'
    <2> SUFFICES ASSUME NEW n \in Requests, NEW j \in Steps(n) PROVE StepsAreTrue!(n)!(j)'
      BY DEF StepsAreTrue
    <2>1. CASE n = m
      BY <2>1, <1>c, <1>d DEF StepsAreTrue
    <2>2. CASE n # m
      BY <2>2, <1>c, <1>d DEF StepsAreTrue
    <2> QED
      BY <2>1, <2>2
  <1>8. StepsOrdered'
    <2> SUFFICES ASSUME NEW n \in Requests PROVE StepsOrdered!(n)'
      BY DEF StepsOrdered
    <2>1. CASE n = m
      <3>1. CASE \A j \in Steps(m) : step[m][j] = "PENDING"
        <4>1. Unattempted(m)'
          BY <3>1, <1>c, <1>d DEF Unattempted, StepsAreTrue
        <4> QED
          BY <2>1, <3>1, <4>1, <1>c, <1>e
      <3>2. CASE ~(\A j \in Steps(m) : step[m][j] = "PENDING")
        <4>1. ~Unattempted(m)
          BY <1>c DEF StepsOrdered
        <4>2. \A i \in Steps(m) : (step'[m][i] = "PENDING" <=> step[m][i] = "PENDING")
                               /\ (step'[m][i] = "SUCCEEDED" <=> step[m][i] = "SUCCEEDED")
                               /\ (step'[m][i] = "FAILED" <=> step[m][i] = "FAILED")
          BY <3>2, <1>d
        <4>3. ~Unattempted(m)'
          BY <4>1, <4>2, <1>c DEF Unattempted
        <4> QED
          BY <2>1, <4>1, <4>2, <4>3 DEF StepsOrdered
      <3> QED
        BY <3>1, <3>2
    <2>2. CASE n # m
      BY <2>2, <1>c, <1>d DEF StepsOrdered, Unattempted
    <2> QED
      BY <2>1, <2>2
  <1>9. RetriesCounted'
    <2> SUFFICES ASSUME NEW n \in Requests PROVE RetriesCounted!(n)'
      BY DEF RetriesCounted
    <2>1. CASE n = m
      <3>1. s = "IN_FLIGHT" => \A i \in Steps(m) : ~Ambiguous(m, i)'
        BY <1>d, <1>e DEF Ambiguous
      <3> QED
        BY <2>1, <3>1, <1>c DEF RetriesCounted
    <2>2. CASE n # m
      <3>1. n \in recovering' \/ ~up' \/ (n \notin recovering /\ up)
        BY <2>2, <1>0 DEF recover
      <3> QED
        BY <2>2, <3>1, <1>c, <1>d DEF RetriesCounted, Ambiguous
    <2> QED
      BY <2>1, <2>2
  <1> QED
    BY <1>1, <1>2, <1>3, <1>4, <1>5, <1>6, <1>7, <1>8, <1>9

-----------------------------------------------------------------------------
(* The invariant.                                                          *)

\* An empty database satisfies the invariant.
LEMMA InitInvariant == Init => MutationsInvariant
  <1> SUFFICES ASSUME Init PROVE MutationsInvariant
    OBVIOUS
  <1> USE StepsFacts DEF Init
  <1>1. TypeOK
    BY IdleTyped DEF TypeOK, States
  <1>2. NothingRunsEarly /\ OpenRow /\ CallInHand /\ OutcomeInHand
    BY IdleTyped DEF NothingRunsEarly, OpenRow, CallInHand, OutcomeInHand
  <1>3. RowsFollowSteps /\ StepsAreTrue
    BY DEF RowsFollowSteps, StepsAreTrue
  <1>4. StepsOrdered
    BY DEF StepsOrdered, Unattempted
  <1>5. RetriesCounted
    BY MutationsAssumption, IdleTyped DEF RetriesCounted, Ambiguous
  <1> QED
    BY <1>1, <1>2, <1>3, <1>4, <1>5 DEF MutationsInvariant

\* Every step of the program keeps the invariant.
LEMMA NextInvariant == MutationsInvariant /\ [Next]_vars => MutationsInvariant'
  <1> SUFFICES ASSUME MutationsInvariant, [Next]_vars PROVE MutationsInvariant'
    OBVIOUS
  <1>1. ASSUME NEW m \in Requests, Client(m) PROVE MutationsInvariant'
    BY <1>1, SubmitKeeps, RecordedKeeps, RetryKeeps, ResumeKeeps DEF Client
  <1>2. CASE Executor
    BY <1>2, SettledKeeps, RefuseKeeps, FinishKeeps, FlagKeeps, ResolveOnlyKeeps, StartKeeps,
       InvokeKeeps, HookFailedKeeps, RecordKeeps DEF Executor
  <1>3. CASE Host
    BY <1>3, CrashKeeps, RestartKeeps, LatchKeeps, RecoverKeeps DEF Host
  <1>4. CASE UNCHANGED vars
    BY <1>4 DEF vars, MutationsInvariant, TypeOK, NothingRunsEarly, OpenRow, CallInHand,
       OutcomeInHand, RowsFollowSteps, StepsAreTrue, StepsOrdered, RetriesCounted, Cursor,
       Ambiguous, AllSucceeded, Unattempted
  <1> QED
    BY <1>1, <1>2, <1>3, <1>4 DEF Next

\* MutationsInvariant holds in every reachable state.
THEOREM Inductive == Spec => []MutationsInvariant
  BY InitInvariant, NextInvariant, PTL DEF Spec

-----------------------------------------------------------------------------
(* What follows from it.                                                   *)

\* Every row the executor and recovery write has its type, for any set of
\* requests, any number of steps each, and any bound on replays.
THEOREM TypeCorrect == Spec => []TypeOK
  <1>1. MutationsInvariant => TypeOK
    BY DEF MutationsInvariant
  <1> QED
    BY <1>1, Inductive, PTL

\* A creation, or anything else that cannot be repeated safely, reaches the
\* provider at most once (MutationExecutor._run, recover_mutations).
THEOREM CalledOnce == Spec => []ResolveOnlyCalledOnce
  <1>1. MutationsInvariant => ResolveOnlyCalledOnce
    BY DEF MutationsInvariant, StepsAreTrue, ResolveOnlyCalledOnce
  <1> QED
    BY <1>1, Inductive, PTL

\* A settled row says what happened at the provider.
THEOREM SettledRowsAreTrue == Spec => []RecordsAreTrue
  <1>1. MutationsInvariant => RecordsAreTrue
    <2> SUFFICES ASSUME MutationsInvariant, NEW m \in Requests PROVE RecordsAreTrue!(m)
      BY DEF RecordsAreTrue
    <2> USE StepsFacts DEF MutationsInvariant
    <2>1. row[m] = "SUCCEEDED" => took[m] = Steps(m)
      <3>1. took[m] \subseteq Steps(m)
        BY DEF TypeOK
      <3>2. row[m] = "SUCCEEDED" => \A i \in Steps(m) : i \in took[m]
        BY DEF RowsFollowSteps, AllSucceeded, StepsAreTrue
      <3> QED
        BY <3>1, <3>2
    <2>2. row[m] = "FAILED" => took[m] # Steps(m) \/ Policy[m] = "retry_same_key"
      BY DEF RowsFollowSteps, StepsAreTrue
    <2>3. ASSUME StepCount[m] > 1, \A i \in Steps(m) : step[m][i] = "FAILED"
          PROVE  \A i \in Steps(m) : calls[m][i] = 0
      <3>1. 2 \in Steps(m) /\ 1 \in Steps(m)
        BY <2>3 DEF Steps
      <3>2. Unattempted(m)
        BY <2>3, <3>1 DEF StepsOrdered
      <3> QED
        BY <3>2 DEF Unattempted
    <2> QED
      BY <2>1, <2>2, <2>3
  <1> QED
    BY <1>1, Inductive, PTL

\* The client of a one-step operation is told the truth, also by the answer
\* that a failed anchor cut short (MutationExecutor._degraded).
THEOREM ClientsAreToldTheTruth == Spec => []AnswersAreTrue
  <1>1. MutationsInvariant => AnswersAreTrue
    BY StepsFacts DEF MutationsInvariant, RowsFollowSteps, StepsAreTrue, AnswersAreTrue
  <1> QED
    BY <1>1, Inductive, PTL

\* A saga goes to its next step only over the recorded success of every step
\* before it, for a saga of any length.
THEOREM SagasInOrder == Spec => []StepsInOrder
  <1>1. MutationsInvariant => StepsInOrder
    <2> SUFFICES ASSUME MutationsInvariant, NEW m \in Requests, NEW i \in Steps(m),
                        NEW j \in Steps(m), i < j, calls[m][j] > 0
                 PROVE  i \in took[m] /\ step[m][i] = "SUCCEEDED"
      BY DEF StepsInOrder
    <2>1. step[m][j] # "PENDING" /\ ~Unattempted(m)
      BY StepsFacts DEF MutationsInvariant, StepsAreTrue, Unattempted
    <2> QED
      BY <2>1 DEF MutationsInvariant, StepsOrdered, StepsAreTrue
  <1> QED
    BY <1>1, Inductive, PTL

\* While every record of a mutation is anchored, it is sent again at most once.
THEOREM RetriedAtMostOnce == Spec => []AnchoredRetriedOnce
  <1>1. MutationsInvariant => AnchoredRetriedOnce
    <2> SUFFICES ASSUME MutationsInvariant, NEW m \in Requests, ~flagged[m], NEW i \in Steps(m)
                 PROVE  calls[m][i] <= 2
      BY DEF AnchoredRetriedOnce
    <2>1. calls[m][i] \in Nat
      BY DEF MutationsInvariant, TypeOK
    <2>2. CASE Policy[m] = "resolve_only"
      BY <2>1, <2>2 DEF MutationsInvariant, StepsAreTrue
    <2>3. CASE Policy[m] = "retry_same_key"
      BY <2>1, <2>3 DEF MutationsInvariant, RetriesCounted
    <2> QED
      BY <2>2, <2>3, StepsFacts
  <1> QED
    BY <1>1, Inductive, PTL

-----------------------------------------------------------------------------
(* The forward-only triggers.                                              *)

\* Every step moves rows and steps only forward.
LEMMA NextForward == MutationsInvariant /\ [Next]_vars => Forward
  <1> SUFFICES ASSUME MutationsInvariant, [Next]_vars,
                      NEW n \in Requests, NEW j \in Steps(n)
               PROVE  RowForward(n) /\ StepForward(n, j)
    BY StepsFacts DEF Forward
  <1> USE StepsFacts DEF MutationsInvariant, RowForward, StepForward, recordVars, TypeOK
  <1>1. ASSUME NEW m \in Requests, Client(m) PROVE RowForward(n) /\ StepForward(n, j)
    BY <1>1 DEF Client, submit, replay_recorded, replay_retry, replay_resume
  <1>2. CASE Executor
    <2>1. CASE steps_settled \/ refuse_degraded \/ mark_degraded
      BY <2>1 DEF steps_settled, refuse_degraded, mark_degraded
    <2>2. CASE finish
      <3>1. /\ call.m \in Requests
            /\ row[call.m] \in {"IN_FLIGHT", "OUTCOME_UNKNOWN"}
            /\ call.outcome \in Outcomes
            /\ row' = [row EXCEPT ![call.m] = call.outcome] /\ UNCHANGED step
        BY <2>2 DEF finish, At, OpenRow, OutcomeInHand
      <3> QED
        BY <3>1 DEF Outcomes
    <2>3. ASSUME NEW i \in StepNumbers, step_resolve_only(i) PROVE RowForward(n) /\ StepForward(n, j)
      BY <2>3 DEF step_resolve_only, Ambiguous, At, Outcomes, Cursor
    <2>4. ASSUME NEW i \in StepNumbers, start_step(i) PROVE RowForward(n) /\ StepForward(n, j)
      BY <2>4 DEF start_step, At, Callable, Cursor
    <2>5. ASSUME NEW i \in StepNumbers, invoke(i) \/ hook_failed(i)
          PROVE  RowForward(n) /\ StepForward(n, j)
      BY <2>5 DEF invoke, hook_failed
    <2>6. ASSUME NEW i \in StepNumbers, record_step(i) PROVE RowForward(n) /\ StepForward(n, j)
      <3>1. /\ call.m \in Requests /\ i \in Steps(call.m) /\ Ambiguous(call.m, i)
            /\ call.outcome \in Outcomes
            /\ step' = [step EXCEPT ![call.m][i] = call.outcome] /\ UNCHANGED row
        BY <2>6 DEF record_step, At, CallInHand, Cursor
      <3> QED
        BY <3>1 DEF Outcomes, Ambiguous
    <2> QED
      BY <1>2, <2>1, <2>2, <2>3, <2>4, <2>5, <2>6 DEF Executor
  <1>3. CASE Host
    <2>1. CASE crash \/ restart \/ latch_degraded \/ clear_degraded
      BY <2>1 DEF crash, restart, latch_degraded, clear_degraded
    <2>2. ASSUME NEW m \in Requests, recover(m) PROVE RowForward(n) /\ StepForward(n, j)
      <3>1. row[m] = "IN_FLIGHT" /\ RecoveredState(m) \in Outcomes \cup {"IN_FLIGHT"}
        BY <2>2 DEF recover, NothingRunsEarly, RecoveredState, Outcomes
      <3>2. row' = [row EXCEPT ![m] = RecoveredState(m)]
        BY <2>2 DEF recover
      <3>3. step' = [step EXCEPT ![m] = RecoveredSteps(m)]
        BY <2>2 DEF recover
      <3>4. RowForward(n)
        BY <3>1, <3>2
      <3>5. StepForward(n, j)
        BY <3>3 DEF RecoveredSteps, Outcomes
      <3> QED
        BY <3>4, <3>5
    <2> QED
      BY <1>3, <2>1, <2>2 DEF Host
  <1>4. CASE UNCHANGED vars
    BY <1>4 DEF vars
  <1> QED
    BY <1>1, <1>2, <1>3, <1>4 DEF Next

\* The executor and recovery never ask for a change that the schema's triggers
\* would abort: a settled row and a settled step are final.
THEOREM SettledIsFinal == Spec => OnlyForward
  <1>1. MutationsInvariant /\ [Next]_vars => Forward
    BY NextForward
  <1> QED
    BY <1>1, Inductive, PTL DEF Spec, OnlyForward
=============================================================================
