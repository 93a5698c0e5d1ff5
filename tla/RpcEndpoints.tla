----------------------------- MODULE RpcEndpoints -----------------------------
(***************************************************************************)
(* RpcConnection of chains/chain-manager.ts: the calls of one connection   *)
(* over the endpoints of a chain.  A call fails over to the next endpoint, *)
(* at most as often as there are endpoints; the position is a field that   *)
(* all calls of the connection share.  Each caller calls again and again,  *)
(* as waitForTransaction() and the wallets do.                             *)
(***************************************************************************)
EXTENDS Integers

CONSTANTS Urls,        \* config.rpcUrls.length
          Callers,
          MaxRequests  \* bound: calls begun

ASSUME RpcAssumption == Urls \in Nat \ {0} /\ MaxRequests \in Nat

VARIABLES
    currentRpcIndex,
    live,      \* the endpoints that answer
    request,   \* request[c]: the call of c
    requests

rpcVars == <<currentRpcIndex, live, request, requests>>

Indices == 0 .. (Urls - 1)

RpcTypeOK ==
    /\ currentRpcIndex \in Indices /\ live \subseteq Indices
    /\ request \in [Callers -> [step : {"idle", "waiting", "answered", "failed"},
                                attempt : 0 .. Urls, url : Indices, alone : BOOLEAN]]
    /\ requests \in 0 .. MaxRequests

RpcInit ==
    /\ currentRpcIndex \in Indices
    /\ live \in SUBSET Indices
    /\ request = [c \in Callers |-> [step |-> "idle", attempt |-> 0, url |-> 0, alone |-> TRUE]]
    /\ requests = 0

\* call(), to the fetch() of its first attempt.  No other call is under way
\* ("alone"), or none of them is alone.
Call(c) ==
    /\ request[c].step # "waiting" /\ requests < MaxRequests
    /\ requests' = requests + 1
    /\ request' = [d \in Callers |->
          IF d = c THEN [step |-> "waiting", attempt |-> 0, url |-> currentRpcIndex,
                         alone |-> \A e \in Callers : request[e].step # "waiting"]
          ELSE [request[d] EXCEPT !.alone = @ /\ request[d].step # "waiting"]]
    /\ UNCHANGED <<currentRpcIndex, live>>

\* executeCall() of a live endpoint.
Answered(c) ==
    /\ request[c].step = "waiting" /\ request[c].url \in live
    /\ request' = [request EXCEPT ![c].step = "answered"]
    /\ UNCHANGED <<currentRpcIndex, live, requests>>

\* Mutants: the last endpoint is never tried, or the first one is not the next of it.
RotateOn(index) == index + 1
RotateShort(index) == IF index + 1 >= Urls - 1 THEN 0 ELSE index + 1
RotateRpc(index) == (index + 1) % Urls

\* An attempt fails: the shared index moves on, and the next attempt takes it.
AttemptFails(c) ==
    /\ request[c].step = "waiting" /\ request[c].url \notin live
    /\ currentRpcIndex' = RotateRpc(currentRpcIndex)
    /\ LET attempt == request[c].attempt + 1
       IN  request' = [request EXCEPT ![c] =
              IF attempt < Urls
              THEN [@ EXCEPT !.attempt = attempt, !.url = currentRpcIndex']
              ELSE [@ EXCEPT !.attempt = attempt, !.step = "failed"]]
    /\ UNCHANGED <<live, requests>>

\* An endpoint goes or comes back while no call is under way.
Outage ==
    /\ \A c \in Callers : request[c].step # "waiting"
    /\ live' \in SUBSET Indices \ {live}
    /\ request' = [c \in Callers |-> [request[c] EXCEPT !.step = "idle"]]
    /\ UNCHANGED <<currentRpcIndex, requests>>

RpcNext ==
    \/ \E c \in Callers : Call(c) \/ Answered(c) \/ AttemptFails(c)
    \/ Outage

RpcSpec == RpcInit /\ [][RpcNext]_rpcVars

-----------------------------------------------------------------------------

\* A call that no other call of its connection overlaps reaches a live endpoint
\* if there is one, wherever earlier calls, overlapping or not, left the index
\* (chain-manager.ts:167).  Overlapping calls can skip the live one: each of two
\* failures moves the index.
AloneReachesLive ==
    \A c \in Callers :
        request[c].step = "failed" /\ request[c].alone => live = {}
===============================================================================
