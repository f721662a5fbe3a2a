------------------------------ MODULE Reports ------------------------------
(***************************************************************************)
(* What the delivery engine may assume of a provider's status reports      *)
(* (operations.provider_update of Delivery takes them at any time, in any  *)
(* order, possibly never): a report is applied only if the provider made   *)
(* it, and only once, however often and along whatever route it arrives.   *)
(***************************************************************************)
EXTENDS FiniteSets

CONSTANT Refs       \* provider_event_ref of each report

VARIABLES
    made,           \* reports the provider made
    applied         \* provider_updates: reports recorded with their effect

vars == <<made, applied>>

Init == made = {} /\ applied = {}

\* A webhook body carries several reports.
Report == \E S \in SUBSET Refs : made' = made \cup S /\ UNCHANGED applied

\* One transaction applies the reports of one body that were not yet applied.
Apply == \E S \in SUBSET (made \ applied) :
            applied' = applied \cup S /\ UNCHANGED made

Next == Report \/ Apply
Spec == Init /\ [][Next]_vars
=============================================================================
