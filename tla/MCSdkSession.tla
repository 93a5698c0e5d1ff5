---------------------------- MODULE MCSdkSession ----------------------------
(* Users are interchangeable, and so are logins.  Symmetry is only used     *)
(* where no liveness is checked.                                            *)
EXTENDS SdkSession, TLC

Symmetry == Permutations(Users) \cup Permutations(Logins)
=============================================================================
