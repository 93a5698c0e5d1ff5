----------------------------- MODULE MCWalletKeys -----------------------------
(* Two users of one device, in two pages.                                   *)
EXTENDS WalletKeys, TLC

CONSTANTS u1, u2

Symmetry == Permutations({u1, u2})
===============================================================================
