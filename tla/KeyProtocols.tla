----------------------------- MODULE KeyProtocols -----------------------------
(***************************************************************************)
(* The four protocols over scalars of one field.  They share no state: a   *)
(* behaviour is one of them, the others stay as they begin.                *)
(***************************************************************************)
EXTENDS ObliviousMultiplication, DklsWallet, PedersenWallet, SelfCustody

VARIABLE running

vars == <<running, mtaVars, dklsVars, pedVars, custodyVars>>

Protocols == {"multiplication", "dkls", "pedersen", "custody"}

Init ==
    /\ running \in Protocols
    /\ MtaInit /\ DklsInit /\ PedInit
    /\ CustodyInit
    /\ running # "custody" => wallets = [n \in 1 .. Wallets |-> CHOOSE w \in AnyWallet : TRUE]

Next ==
    \/ running = "multiplication" /\ MtaNext
          /\ UNCHANGED <<running, dklsVars, pedVars, custodyVars>>
    \/ running = "dkls" /\ DklsNext
          /\ UNCHANGED <<running, mtaVars, pedVars, custodyVars>>
    \/ running = "pedersen" /\ PedNext
          /\ UNCHANGED <<running, mtaVars, dklsVars, custodyVars>>
    \/ running = "custody" /\ CustodyNext
          /\ UNCHANGED <<running, mtaVars, dklsVars, pedVars>>

\* Every component keeps to its types.
TypesOK == MtaTypeOK /\ DklsTypeOK /\ PedTypeOK /\ CustodyTypeOK

Spec == Init /\ [][Next]_vars
===============================================================================
