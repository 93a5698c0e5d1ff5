--------------------------- MODULE MCDklsSigning ---------------------------
(* Two overlapping message signatures, and another device that may cut in. *)
EXTENDS DklsSigning

CONSTANTS c1, c2

MCCalls == {c1, c2}
MCTransactionCalls == {}
=============================================================================
