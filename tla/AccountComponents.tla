-------------------------- MODULE AccountComponents --------------------------
(***************************************************************************)
(* What an application meets around the account.  The five components      *)
(* share no state: a behaviour is one of them, the others stay as they     *)
(* begin, in one state only.                                               *)
(***************************************************************************)
EXTENDS SmartAccount, RpcEndpoints, ChainSync, WalletAdapter, ReactProvider

VARIABLE running

vars == <<running, accountVars, rpcVars, chainVars, adapterVars, reactVars>>

Components == {"operations", "endpoints", "chains", "adapter", "react"}

Init ==
    /\ running \in Components
    /\ AccountInit /\ RpcInit /\ ChainInit /\ AdapterInit /\ ReactInit
    /\ running # "operations" => class = "smart" /\ chain.deployed
    /\ running # "endpoints" => currentRpcIndex = 0 /\ live = {}
    /\ running # "chains" => sdk.chainId = CHOOSE c \in BuiltIn : TRUE
    /\ running # "adapter" => kind = "metamask"
                              /\ wallet[1].chain = CHOOSE n \in Networks : TRUE

Next ==
    \/ running = "operations" /\ AccountNext
          /\ UNCHANGED <<running, rpcVars, chainVars, adapterVars, reactVars>>
    \/ running = "endpoints" /\ RpcNext
          /\ UNCHANGED <<running, accountVars, chainVars, adapterVars, reactVars>>
    \/ running = "chains" /\ ChainNext
          /\ UNCHANGED <<running, accountVars, rpcVars, adapterVars, reactVars>>
    \/ running = "adapter" /\ AdapterNext
          /\ UNCHANGED <<running, accountVars, rpcVars, chainVars, reactVars>>
    \/ running = "react" /\ ReactNext
          /\ UNCHANGED <<running, accountVars, rpcVars, chainVars, adapterVars>>

\* Every component keeps to its types.
TypesOK == AccountTypeOK /\ RpcTypeOK /\ ChainTypeOK /\ AdapterTypeOK /\ ReactTypeOK

Spec == Init /\ [][Next]_vars
==============================================================================
