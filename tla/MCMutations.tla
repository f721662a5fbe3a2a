---------------------------- MODULE MCMutations ----------------------------
(***************************************************************************)
(* TLC instances of Mutations.                                             *)
(***************************************************************************)
EXTENDS Mutations, TLC

CONSTANTS create, set, saga

\* A creation (resolve only), a SET_STATE (retried with the same key), and the
\* compound MEMBER_REMOVE: ban, then unban.
AllSteps == (create :> 1) @@ (set :> 1) @@ (saga :> 2)
AllPolicies == (create :> "resolve_only") @@ (set :> "retry_same_key")
               @@ (saga :> "retry_same_key")

StepsOf == [m \in Requests |-> AllSteps[m]]
HookedOf == Requests \cap {create}
PolicyOf == [m \in Requests |-> AllPolicies[m]]
=============================================================================
