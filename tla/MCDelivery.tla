----------------------------- MODULE MCDelivery -----------------------------
(***************************************************************************)
(* TLC instances of Delivery.                                              *)
(***************************************************************************)
EXTENDS Delivery, TLC

CONSTANTS c1, g1, g2, wa, wb, tg, whatsapp, telegram, r1, r2

OneWhatsApp == wa :> whatsapp

\* One endpoint per transport.
TwoTransports == (wa :> whatsapp) @@ (tg :> telegram)

\* Two WhatsApp endpoints, which may be given the same reference, and one of
\* Telegram, whose reference may come late.
SharedTransport == (wa :> whatsapp) @@ (wb :> whatsapp) @@ (tg :> telegram)

RefSymmetry == Permutations(MsgRefs)
=============================================================================
