---------------------------- MODULE Multiplication ----------------------------
(***************************************************************************)
(* What a multiplicative-to-additive conversion promises: a client with a  *)
(* scalar and a backend with another one end with one share each, the      *)
(* shares add up to the product, and the client's share is decided first,  *)
(* without regard to the inputs.  A session may stop half-way.             *)
(***************************************************************************)
EXTENDS Integers

CONSTANTS Q, Sessions, None

Field == 0 .. (Q - 1)

VARIABLES factorA, factorB, shareA, shareB

vars == <<factorA, factorB, shareA, shareB>>

Init ==
    /\ factorA = [s \in Sessions |-> None]
    /\ factorB = [s \in Sessions |-> None]
    /\ shareA  = [s \in Sessions |-> None]
    /\ shareB  = [s \in Sessions |-> None]

Enter(s) ==
    \/ /\ factorA[s] = None
       /\ \E a \in Field : factorA' = [factorA EXCEPT ![s] = a]
       /\ UNCHANGED <<factorB, shareA, shareB>>
    \/ /\ factorB[s] = None
       /\ \E b \in Field : factorB' = [factorB EXCEPT ![s] = b]
       /\ UNCHANGED <<factorA, shareA, shareB>>

ClientShare(s) ==
    /\ factorA[s] # None /\ factorB[s] # None /\ shareA[s] = None
    /\ \E t \in Field : shareA' = [shareA EXCEPT ![s] = t]
    /\ UNCHANGED <<factorA, factorB, shareB>>

BackendShare(s) ==
    /\ shareA[s] # None /\ shareB[s] = None
    /\ shareB' = [shareB EXCEPT ![s] = (factorA[s] * factorB[s] - shareA[s]) % Q]
    /\ UNCHANGED <<factorA, factorB, shareA>>

Next == \E s \in Sessions : Enter(s) \/ ClientShare(s) \/ BackendShare(s)

Spec == Init /\ [][Next]_vars
===============================================================================
