------------------------------- MODULE MCVault -------------------------------
(***************************************************************************)
(* Two senders and one draft, whose approvals may name different nonces.   *)
(* Senders and nonces are alike: nothing tells one from another.           *)
(***************************************************************************)
EXTENDS Vault, TLC

CONSTANTS s1, s2, k1, k2

HoldsOf == [e1 |-> <<"a1">>]
QualityOf == [e1 |-> "sound"]
InboundOf == [a1 |-> 1]
EnvelopesOf == <<"e1">>
ExportsOf == <<<<"m1">>>>

Interchangeable == Permutations({s1, s2}) \cup Permutations({k1, k2})
=============================================================================
