------------------------------ MODULE Reducer ------------------------------
(***************************************************************************)
(* The pure half of comms/core/delivery/reducer.py: what one piece of      *)
(* evidence does to one delivery job (decide), and what a generation's job *)
(* states add up to (summarize).  Nothing here has state; Delivery applies *)
(* these operators inside its transactions, exactly where the code calls   *)
(* reduce and refresh_summary.                                             *)
(***************************************************************************)
EXTENDS Naturals

RANK == [PENDING |-> 0, IN_FLIGHT |-> 1, FAILED_TRANSIENT |-> 2,
         OUTCOME_UNKNOWN |-> 2, ACCEPTED |-> 3, DELIVERED |-> 4]

TERMINAL == {"FAILED_PERMANENT", "CANCELLED", "SKIPPED_PLATFORM_POLICY",
             "SKIPPED_REVALIDATION"}

SUCCESS == {"ACCEPTED", "DELIVERED"}

ACTIVE == {"PENDING", "IN_FLIGHT"}

RESULT_KINDS == {"ACCEPTED", "DELIVERED", "FAILED_TRANSIENT",
                 "FAILED_PERMANENT", "OUTCOME_UNKNOWN"}

PROVIDER_STATUSES == {"ACCEPTED", "DELIVERED", "FAILED_PERMANENT"}

\* Every state a job row can hold: the ranked ones and the terminal ones.
RankedStates == {"PENDING", "IN_FLIGHT", "FAILED_TRANSIENT",
                 "OUTCOME_UNKNOWN", "ACCEPTED", "DELIVERED"}

JobStates == RankedStates \cup TERMINAL

\* Each rule of decide() that can be applied, as: does the evidence apply to
\* a job in state s?  Where it does not, the job keeps its state, whether the
\* code calls that "recorded" or "refused".

\* Mutant: a success report is applied whatever the rank.
ProviderAppliesAnyRank(s, status, current) ==
    \/ /\ status \in SUCCESS
       /\ s \in RankedStates
    \/ /\ status = "FAILED_PERMANENT"
       /\ current
       /\ s \in {"IN_FLIGHT", "ACCEPTED", "OUTCOME_UNKNOWN"}

\* A provider's success report only ever raises the rank.  Its failure report
\* counts only for the current attempt, and only while the job could still
\* be waiting on it.
ProviderApplies(s, status, current) ==
    \/ /\ status \in SUCCESS
       /\ s \in RankedStates
       /\ RANK[status] > RANK[s]
    \/ /\ status = "FAILED_PERMANENT"
       /\ current
       /\ s \in {"IN_FLIGHT", "ACCEPTED", "OUTCOME_UNKNOWN"}

ResultApplies(s, current) == current /\ s = "IN_FLIGHT"

\* Mutant: the attempt cap is not looked at.
RetryAppliesUncapped(s, attempts, cap) == s = "FAILED_TRANSIENT"

RetryApplies(s, attempts, cap) == s = "FAILED_TRANSIENT" /\ attempts < cap

\* The job's state after the evidence: the reported value where it applies.
AfterProvider(s, status, current) ==
    IF ProviderApplies(s, status, current) THEN status ELSE s

\* Mutants: an unknown outcome is taken for a transient failure, or a success.
AfterResultTransient(s, value, current) ==
    IF ~ResultApplies(s, current) THEN s
    ELSE IF value = "OUTCOME_UNKNOWN" THEN "FAILED_TRANSIENT" ELSE value

AfterResultAccepted(s, value, current) ==
    IF ~ResultApplies(s, current) THEN s
    ELSE IF value = "OUTCOME_UNKNOWN" THEN "ACCEPTED" ELSE value

AfterResult(s, value, current) ==
    IF ResultApplies(s, current) THEN value ELSE s

\* The delivery summary of a generation whose jobs are in the states S.
summarize(S, attempted) ==
    IF S \cap ACTIVE # {} THEN "IN_PROGRESS"
    ELSE IF "OUTCOME_UNKNOWN" \in S THEN "INDETERMINATE"
    ELSE IF S \subseteq SUCCESS THEN "SENT"
    ELSE IF S \cap SUCCESS # {} THEN "PARTIAL"
    ELSE IF "CANCELLED" \in S /\ ~attempted THEN "CANCELLED"
    ELSE "FAILED"

Summaries == {"IN_PROGRESS", "INDETERMINATE", "SENT", "PARTIAL",
              "CANCELLED", "FAILED"}
============================================================================
