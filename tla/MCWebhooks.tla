----------------------------- MODULE MCWebhooks -----------------------------
(***************************************************************************)
(* TLC instance of Webhooks: a body of two rows and one of a single row,   *)
(* which carry a report in common.                                         *)
(***************************************************************************)
EXTENDS Webhooks, TLC

CONSTANTS b1, b2, r1, r2

PartsOf == (b1 :> 2) @@ (b2 :> 1)
CarriesOf == (b1 :> {r1}) @@ (b2 :> {r1, r2})
MayBeOf == (b1 :> {"sound"}) @@ (b2 :> {"sound", "unverified", "malformed"})
=============================================================================
