----------------------------- MODULE DklsSigning -----------------------------
(***************************************************************************)
(* Concurrent sign() calls on one DKLSClient (protocols/dkls/dkls-client.ts *)
(* and the signing half of protocols/dkls/crypto.ts).                      *)
(*                                                                         *)
(* The client is single-threaded, but every call of its API is an await,   *)
(* and the state of the flow lives in two fields of the client object,     *)
(* signingState and mtaState, that all calls share: between two awaits of  *)
(* one call another call may have replaced or cleared them.  A step of a   *)
(* call is the code between two awaits.                                    *)
(*                                                                         *)
(* A nonce, a message, a backend nonce or an MtA share is represented by   *)
(* the signing session it belongs to: that is all the properties tell      *)
(* apart.  Session <<c, k>> is the one the backend opens for the k-th run  *)
(* of executeSigningFlow by call c.                                        *)
(***************************************************************************)
EXTENDS Naturals, FiniteSets

CONSTANTS Calls,             \* the sign() calls made on the client
          TransactionCalls,  \* those made by sendTransactionInternal
          OldSession,        \* a session opened by another device or page load
          NoSession          \* null

ASSUME CallsAssumption ==
    /\ TransactionCalls \subseteq Calls
    /\ OldSession \notin Calls \X {1, 2}
    /\ NoSession \notin (Calls \X {1, 2}) \cup {OldSession}

VARIABLES
    stored,         \* what storage holds under "dkls_key_share"
    pc,             \* pc[c]: the await call c is suspended in
    attempt,        \* attempt[c]: 1, or 2 in the retry after a 409
    rpc,            \* rpc[c]: how far the outstanding request of c has got
    conflict,       \* conflict[c]: error.details.activeSessionId of c's 409
    result,         \* result[c]: how sign() ended
    signingState,   \* DKLSClient.signingState
    mtaState,       \* DKLSClient.mtaState
    partial,        \* partial[c]: the body of c's signingPartial request
    active,         \* backend: the one session it has in progress
    stage,          \* backend: the last request it accepted in a session
    accepted,       \* backend: the client partial it completed a session with
    late,           \* requests still under way that the client gave up
    disturbed       \* history: calls that something else interfered with

clientVars  == <<pc, attempt, rpc, conflict, result, partial>>
sharedVars  == <<signingState, mtaState>>
backendVars == <<active, stage, accepted>>
vars == <<stored, clientVars, sharedVars, backendVars, late, disturbed>>

Sessions     == (Calls \X {1, 2}) \cup {OldSession}
MaybeSession == Sessions \cup {NoSession}

Requests == {"init", "cancel", "nonce", "mta1", "mta2", "partial"}

(***************************************************************************)
(* DKLSSigningClientState: the nonce share and the message belong to       *)
(* owner; commit is the session whose backend nonce commitment is stored,  *)
(* nonce the one whose revealed backend nonce went into rValue.            *)
(***************************************************************************)
SigningState == [owner : MaybeSession, commit : MaybeSession, nonce : MaybeSession]
NoSigning    == [owner |-> NoSession, commit |-> NoSession, nonce |-> NoSession]

(***************************************************************************)
(* MtAClientState: id is the MtA session id drawn for the flow that ran    *)
(* initMtAForSigning, input the owner of the nonce share it multiplies,    *)
(* share the session whose backend answer the client's shares come from.   *)
(***************************************************************************)
MtaState == [id : MaybeSession, input : MaybeSession, share : MaybeSession]
NoMta    == [id |-> NoSession, input |-> NoSession, share |-> NoSession]

(***************************************************************************)
(* s = m * mta1Share + r * mta2Share: the session m and the client's nonce *)
(* come from, the one the backend nonce in r comes from, and the sessions  *)
(* the MtA input and answer come from.                                     *)
(***************************************************************************)
Partial   == [message : MaybeSession, peer : MaybeSession,
              input : MaybeSession, share : MaybeSession]
NoPartial == [message |-> NoSession, peer |-> NoSession,
              input |-> NoSession, share |-> NoSession]

Request == [call : Calls, kind : Requests, session : MaybeSession]

Outcomes == {"none", "signed", "NO_KEY_SHARE", "NO_DKG_SESSION_ID",
             "MISSING_DKG_SESSION_ID", "DKLS_SIGNING_FAILED", "unwrapped"}

TypeOK ==
    /\ stored \in {"absent", "legacy", "full"}
    /\ pc \in [Calls -> {"idle", "lookup", "load", "done"} \cup Requests]
    /\ attempt \in [Calls -> {1, 2}]
    /\ rpc \in [Calls -> {"none", "sent", "ok", "conflict", "error"}]
    /\ conflict \in [Calls -> MaybeSession]
    /\ result \in [Calls -> Outcomes]
    /\ signingState \in SigningState
    /\ mtaState \in MtaState
    /\ partial \in [Calls -> Partial]
    /\ active \in MaybeSession
    /\ stage \in [Sessions -> {"none"} \cup Requests]
    /\ accepted \in [Sessions -> Partial]
    /\ late \in SUBSET Request
    /\ disturbed \in SUBSET Calls

(***************************************************************************)
(* A client just built, on any storage.  The backend may still have a      *)
(* session in progress that an earlier page load or another device left.   *)
(***************************************************************************)
Init ==
    /\ stored \in {"absent", "legacy", "full"}
    /\ pc = [c \in Calls |-> "idle"]
    /\ attempt = [c \in Calls |-> 1]
    /\ rpc = [c \in Calls |-> "none"]
    /\ conflict = [c \in Calls |-> NoSession]
    /\ result = [c \in Calls |-> "none"]
    /\ signingState = NoSigning
    /\ mtaState = NoMta
    /\ partial = [c \in Calls |-> NoPartial]
    /\ active \in {NoSession, OldSession}
    /\ stage = [s \in Sessions |-> IF s = active THEN "init" ELSE "none"]
    /\ accepted = [s \in Sessions |-> NoPartial]
    /\ late = {}
    /\ disturbed = {}

-----------------------------------------------------------------------------
(* Helpers of the client's steps.                                          *)

Sess(c) == <<c, attempt[c]>>

Running(c) == pc[c] \notin {"idle", "done"}

RunningCalls == {c \in Calls : Running(c)}

\* The call awaits the answer to request k.
Await(c, k) ==
    /\ pc' = [pc EXCEPT ![c] = k]
    /\ rpc' = [rpc EXCEPT ![c] = "sent"]

\* The call ends with the given outcome.
End(c, outcome) ==
    /\ pc' = [pc EXCEPT ![c] = "done"]
    /\ rpc' = [rpc EXCEPT ![c] = "none"]
    /\ result' = [result EXCEPT ![c] = outcome]

\* Mutant: the fields are cleared after a signature only.
FinallyOnSuccess(c, outcome) ==
    /\ signingState' = IF outcome = "signed" THEN NoSigning ELSE signingState
    /\ mtaState' = IF outcome = "signed" THEN NoMta ELSE mtaState

\* The finally block of sign(): it clears the fields of whichever call
\* they hold the state of.
Finally(c, outcome) ==
    /\ signingState' = NoSigning
    /\ mtaState' = NoMta

\* The call leaves the try block of sign(), with a signature or an error.
Settle(c, outcome) ==
    /\ End(c, outcome)
    /\ Finally(c, outcome)
    /\ UNCHANGED <<attempt, conflict, partial>>

\* An error of the first run is wrapped; one of the retry, thrown from the
\* catch block, is not.
Fail(c) == Settle(c, IF attempt[c] = 1 THEN "DKLS_SIGNING_FAILED" ELSE "unwrapped")

Answered(c, k) == pc[c] = k /\ rpc[c] = "ok"

-----------------------------------------------------------------------------
(* The client: one action for the code between two awaits.                 *)

Start(c) ==
    /\ pc[c] = "idle"
    /\ pc' = [pc EXCEPT ![c] = IF c \in TransactionCalls THEN "load" ELSE "lookup"]
    /\ disturbed' = disturbed \cup
          (IF RunningCalls = {} THEN {} ELSE RunningCalls \cup {c})
    /\ UNCHANGED <<stored, attempt, rpc, conflict, result, partial,
                   sharedVars, backendVars, late>>

\* signMessage and signTypedData look the dkgSessionId up first.
LookUpSession(c) ==
    /\ pc[c] = "lookup"
    /\ \/ /\ stored = "full"
          /\ pc' = [pc EXCEPT ![c] = "load"]
          /\ UNCHANGED <<rpc, result>>
       \/ /\ stored # "full"
          /\ End(c, "NO_DKG_SESSION_ID")
    /\ UNCHANGED <<stored, attempt, conflict, partial, sharedVars, backendVars,
                   late, disturbed>>

\* sign() up to its first request.  sendTransactionInternal passes "" as
\* dkgSessionId.  These errors are thrown before the try block.
LoadShare(c) ==
    /\ pc[c] = "load"
    /\ \/ /\ stored = "absent"
          /\ End(c, "NO_KEY_SHARE")
       \/ /\ stored # "absent"
          /\ c \in TransactionCalls
          /\ End(c, "MISSING_DKG_SESSION_ID")
       \/ /\ stored # "absent"
          /\ c \notin TransactionCalls
          /\ Await(c, "init")
          /\ UNCHANGED result
    /\ UNCHANGED <<stored, attempt, conflict, partial, sharedVars, backendVars,
                   late, disturbed>>

\* The session is open: signingInit and signingStoreBackendCommitment.
InitReply(c) ==
    /\ Answered(c, "init")
    /\ signingState' = [owner |-> Sess(c), commit |-> Sess(c), nonce |-> NoSession]
    /\ Await(c, "nonce")
    /\ UNCHANGED <<stored, attempt, conflict, result, partial, mtaState,
                   backendVars, late, disturbed>>

\* Mutant: a lost request is retried like a conflict.
RetriesAnyError(c) == rpc[c] \in {"conflict", "error"} /\ pc[c] # "cancel"

\* The only error sign() retries: a 409 of its own signingInit.
RetriesAfter(c) == rpc[c] = "conflict"

\* Mutant: every run of the flow may be followed by another.
RetriesForever(c) == TRUE

\* The retry is made from the catch of the first run: the second has none.
MayRetry(c) == attempt[c] = 1

\* Mutant: the reported session is not cancelled.
ConflictWithoutCancel(c) ==
    /\ attempt' = [attempt EXCEPT ![c] = @ + 1]
    /\ Await(c, "init")

\* Cancel the session the 409 names, if it names one, before the retry.
ResolveConflict(c) ==
    \/ /\ conflict[c] # NoSession
       /\ Await(c, "cancel")
       /\ UNCHANGED attempt
    \/ /\ conflict[c] = NoSession
       /\ attempt' = [attempt EXCEPT ![c] = @ + 1]
       /\ Await(c, "init")

ConflictReply(c) ==
    /\ RetriesAfter(c)
    /\ MayRetry(c)
    /\ ResolveConflict(c)
    /\ UNCHANGED <<stored, conflict, result, partial, sharedVars, backendVars,
                   late, disturbed>>

\* Mutant: the run after the cancel does not count as the retry.
RetryUncounted(c) == attempt[c]

RetryAttempt(c) == attempt[c] + 1

\* The outcome of the cancel is ignored.
CancelReply(c) ==
    /\ pc[c] = "cancel"
    /\ rpc[c] \in {"ok", "error"}
    /\ attempt' = [attempt EXCEPT ![c] = RetryAttempt(c)]
    /\ Await(c, "init")
    /\ UNCHANGED <<stored, conflict, result, partial, sharedVars, backendVars,
                   late, disturbed>>

\* Any other rejected request: the error leaves the try block.
RequestRejected(c) ==
    /\ \/ pc[c] \in Requests \ {"cancel"} /\ rpc[c] = "error"
       \/ rpc[c] = "conflict"
    /\ ~ (RetriesAfter(c) /\ MayRetry(c))
    /\ Fail(c)
    /\ UNCHANGED <<stored, backendVars, late, disturbed>>

\* Mutant: the revealed nonce is not checked against a commitment.
RevealUnchecked(c) == signingState.commit # NoSession

\* signingProcessBackendNonce: there is a state, and the commitment in it is
\* to the nonce revealed to this call.
RevealMatches(c) == signingState.commit = Sess(c)

\* The backend's nonce is revealed: combine it and start the MtA.
NonceReply(c) ==
    /\ Answered(c, "nonce")
    /\ \/ /\ RevealMatches(c)
          /\ signingState' = [signingState EXCEPT !.nonce = Sess(c)]
          /\ mtaState' = [id |-> Sess(c), input |-> signingState.owner,
                          share |-> NoSession]
          /\ Await(c, "mta1")
          /\ UNCHANGED <<attempt, conflict, result, partial>>
       \/ /\ ~ RevealMatches(c)
          /\ Fail(c)
    /\ UNCHANGED <<stored, backendVars, late, disturbed>>

\* mtaAliceRound3 checks the MtA session id the backend echoes.
Mta1Reply(c) ==
    /\ Answered(c, "mta1")
    /\ \/ /\ mtaState.id = Sess(c)
          /\ mtaState' = [mtaState EXCEPT !.share = Sess(c)]
          /\ Await(c, "mta2")
          /\ UNCHANGED <<signingState, attempt, conflict, result, partial>>
       \/ /\ mtaState.id # Sess(c)
          /\ Fail(c)
    /\ UNCHANGED <<stored, backendVars, late, disturbed>>

\* computeClientPartialSignature on whatever the two fields hold by now.
CanCompute == mtaState.share # NoSession /\ signingState.nonce # NoSession

ClientPartial == [message |-> signingState.owner, peer |-> signingState.nonce,
                  input |-> mtaState.input, share |-> mtaState.share]

Mta2Reply(c) ==
    /\ Answered(c, "mta2")
    /\ \/ /\ CanCompute
          /\ partial' = [partial EXCEPT ![c] = ClientPartial]
          /\ Await(c, "partial")
          /\ UNCHANGED <<attempt, conflict, result, sharedVars>>
       \/ /\ ~ CanCompute
          /\ Fail(c)
    /\ UNCHANGED <<stored, backendVars, late, disturbed>>

PartialReply(c) ==
    /\ Answered(c, "partial")
    /\ Settle(c, "signed")
    /\ UNCHANGED <<stored, backendVars, late, disturbed>>

-----------------------------------------------------------------------------
(* The backend, as the client's requests and its handling of the answers   *)
(* describe it: one signing session in progress per key, a 409 that may    *)
(* name it, steps in order, and cancellation by id.                        *)

Before == [nonce |-> "init", mta1 |-> "nonce", mta2 |-> "mta1", partial |-> "mta2"]

Accepts(r) ==
    \/ r.kind = "init" /\ active = NoSession
    \/ r.kind = "cancel" /\ active = r.session
    \/ /\ r.kind \in DOMAIN Before
       /\ active = r.session
       /\ stage[r.session] = Before[r.kind]

Serve(r) ==
    /\ active' = CASE r.kind = "init" -> r.session
                   [] r.kind \in {"cancel", "partial"} -> NoSession
                   [] OTHER -> active
    /\ stage' = [stage EXCEPT ![r.session] = r.kind]
    /\ accepted' = IF r.kind = "partial"
                     THEN [accepted EXCEPT ![r.session] = partial[r.call]]
                     ELSE accepted

RequestOf(c) == [call |-> c, kind |-> pc[c],
                 session |-> IF pc[c] = "cancel" THEN conflict[c] ELSE Sess(c)]

Backend(c) ==
    /\ rpc[c] = "sent"
    /\ \/ /\ Accepts(RequestOf(c))
          /\ Serve(RequestOf(c))
          /\ rpc' = [rpc EXCEPT ![c] = "ok"]
          /\ UNCHANGED <<conflict, disturbed>>
       \/ /\ ~ Accepts(RequestOf(c))
          /\ pc[c] # "init"
          /\ rpc' = [rpc EXCEPT ![c] = "error"]
          /\ UNCHANGED <<conflict, disturbed, backendVars>>
       \/ /\ ~ Accepts(RequestOf(c))
          /\ pc[c] = "init"
          /\ rpc' = [rpc EXCEPT ![c] = "conflict"]
          /\ \/ conflict' = [conflict EXCEPT ![c] = active] /\ UNCHANGED disturbed
             \/ /\ conflict' = [conflict EXCEPT ![c] = NoSession]
                /\ disturbed' = disturbed \cup {c}
          /\ UNCHANGED backendVars
    /\ UNCHANGED <<stored, pc, attempt, result, partial, sharedVars, late>>

\* A request or its answer is lost: fetch rejects.  A request not yet served
\* may be gone, or may still reach the backend later.
RequestLost(c) ==
    /\ rpc[c] \in {"sent", "ok", "conflict"}
    /\ rpc' = [rpc EXCEPT ![c] = "error"]
    /\ \/ UNCHANGED late
       \/ rpc[c] = "sent" /\ late' = late \cup {RequestOf(c)}
    /\ disturbed' = disturbed \cup {c}
    /\ UNCHANGED <<stored, pc, attempt, conflict, result, partial, sharedVars,
                   backendVars>>

LateRequest(r) ==
    /\ r \in late
    /\ late' = late \ {r}
    /\ IF Accepts(r) THEN Serve(r) ELSE UNCHANGED backendVars
    /\ disturbed' = disturbed \cup RunningCalls
    /\ UNCHANGED <<stored, clientVars, sharedVars>>

\* The user's other device signs: by the same code, it cancels the session in
\* progress and opens its own.  Once is enough to meet every step of a call.
OtherDevice ==
    /\ stage[OldSession] = "none"
    /\ active' = OldSession
    /\ stage' = [s \in Sessions |-> IF s = OldSession THEN "init"
                                    ELSE IF s = active THEN "cancel" ELSE stage[s]]
    /\ disturbed' = disturbed \cup RunningCalls
    /\ UNCHANGED <<stored, clientVars, sharedVars, accepted, late>>

-----------------------------------------------------------------------------

Client(c) ==
    \/ LookUpSession(c) \/ LoadShare(c) \/ InitReply(c) \/ ConflictReply(c)
    \/ CancelReply(c) \/ RequestRejected(c) \/ NonceReply(c) \/ Mta1Reply(c)
    \/ Mta2Reply(c) \/ PartialReply(c)

Next ==
    \/ \E c \in Calls : Start(c) \/ Client(c) \/ Backend(c) \/ RequestLost(c)
    \/ \E r \in late : LateRequest(r)
    \/ OtherDevice

Spec == Init /\ [][Next]_vars

\* A continuation whose promise has settled runs; a request is answered or
\* fails.  Nobody is obliged to start a call or to deliver a late request.
Fairness == \A c \in Calls : WF_vars(Client(c)) /\ WF_vars(Backend(c) \/ RequestLost(c))

FairSpec == Spec /\ Fairness

-----------------------------------------------------------------------------
(* Properties.                                                             *)

OneSession(p) == p.peer = p.message /\ p.input = p.message /\ p.share = p.message

\* A partial signature the client sends is computed from the nonce, the
\* message, the backend nonce and the MtA shares of one and the same
\* session, although the two fields it reads are shared by all calls.
OneSessionPerPartial == \A c \in Calls : OneSession(partial[c])

\* The backend never completes a session with a partial signature made for
\* another one: a caller is never given a signature over the message of
\* another call (computeClientPartialSignature does not check the session).
AcceptedIsOwn ==
    \A s \in Sessions : accepted[s] # NoPartial => accepted[s].message = s

\* Once every call has ended, the client holds no nonce share and no MtA
\* state, whatever order the calls' finally blocks ran in.
NoNonceLeftBehind ==
    RunningCalls = {} => signingState = NoSigning /\ mtaState = NoMta

\* A call that nothing interferes with signs, even if an earlier failure left
\* a session open on the backend: the 409 handling recovers from it.
FailureHasCause ==
    \A c \in Calls :
        result[c] \in {"DKLS_SIGNING_FAILED", "unwrapped"} => c \in disturbed

\* Every call the SDK makes of sign() names a key generation session.
SignNamesSession == \A c \in Calls : result[c] # "MISSING_DKG_SESSION_ID"

\* Every sign() call settles.
CallsSettle == \A c \in Calls : Running(c) ~> pc[c] = "done"

\* The client implements ThresholdSigning: at most one signature per call,
\* over the call's own message, and "signed" only when there is one.
callStatus ==
    [c \in Calls |-> IF pc[c] = "idle" THEN "idle"
                     ELSE IF pc[c] # "done" THEN "open"
                     ELSE IF result[c] = "signed" THEN "signed" ELSE "failed"]

issuedSignatures ==
    {[call |-> s[1], session |-> s, message |-> accepted[s].message[1]] :
        s \in {t \in Calls \X {1, 2} : accepted[t] # NoPartial}}

Abstract == INSTANCE ThresholdSigning
              WITH call <- callStatus, issued <- issuedSignatures,
                   Sessions <- Calls \X {1, 2}

ImplementsThresholdSigning == Abstract!Spec

=============================================================================
