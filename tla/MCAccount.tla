------------------------------ MODULE MCAccount ------------------------------
(* The components around the account: three operations, two callers, two     *)
(* providers, two SDKs.                                                      *)
EXTENDS AccountComponents, TLC

OneCall == {<<0>>}
Batches == {<<33>>, <<4, 32>>}

\* The calls of every component have the same names.
Interchangeable == Permutations(Callers)
==============================================================================
