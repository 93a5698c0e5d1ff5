-------------------------- MODULE ThresholdSigning --------------------------
(***************************************************************************)
(* What DKLSClient.sign() promises its callers, with no protocol in it:    *)
(* every call is opened once and ends once, signed or failed; the two      *)
(* parties issue at most one signature on behalf of a call, over that      *)
(* call's own message; and a call that reports "signed" has one.  A        *)
(* signature may be issued on behalf of a call that has already failed:    *)
(* the last request can reach the backend after the client gave it up.     *)
(***************************************************************************)
CONSTANTS Calls,     \* the sign() calls made on one client
          Sessions   \* names under which the backend issues signatures

VARIABLES call,      \* call[c]: where the caller of c stands
          issued     \* the signatures that exist

vars == <<call, issued>>

Signature == [call : Calls, session : Sessions, message : Calls]

TypeOK ==
    /\ call \in [Calls -> {"idle", "open", "signed", "failed"}]
    /\ issued \in SUBSET Signature

Init ==
    /\ call = [c \in Calls |-> "idle"]
    /\ issued = {}

Open(c) ==
    /\ call[c] = "idle"
    /\ call' = [call EXCEPT ![c] = "open"]
    /\ UNCHANGED issued

Issue(c) ==
    /\ call[c] \in {"open", "failed"}
    /\ \A i \in issued : i.call # c
    /\ \E s \in Sessions :
          issued' = issued \cup {[call |-> c, session |-> s, message |-> c]}
    /\ UNCHANGED call

ReturnSigned(c) ==
    /\ call[c] = "open"
    /\ \E i \in issued : i.call = c
    /\ call' = [call EXCEPT ![c] = "signed"]
    /\ UNCHANGED issued

ReturnFailed(c) ==
    /\ call[c] = "open"
    /\ call' = [call EXCEPT ![c] = "failed"]
    /\ UNCHANGED issued

Next == \E c \in Calls : Open(c) \/ Issue(c) \/ ReturnSigned(c) \/ ReturnFailed(c)

Spec == Init /\ [][Next]_vars

=============================================================================
