-------------------------- MODULE DklsSigningProofs --------------------------
(***************************************************************************)
(* Theorems about DklsSigning, for any set of calls.                       *)
(***************************************************************************)
EXTENDS DklsSigning, TLAPS

(***************************************************************************)
(* The inductive invariant.  Its parts:                                    *)
(*   - an outstanding request is one of the protocol's, only a session     *)
(*     opening meets a conflict, and only the first run is followed by a   *)
(*     cancel;                                                             *)
(*   - the two shared fields agree with each other: a signing state with a *)
(*     combined nonce stands beside the MtA state of the same nonce;       *)
(*   - a request that was given up belongs to the run its call ended in;   *)
(*   - while a call runs in the active session, the fields hold no other   *)
(*     call's combined nonce, and no other call is about to combine one.   *)
(***************************************************************************)
InFlow == {"nonce", "mta1", "mta2", "partial"}

Outstanding ==
    \A c \in Calls :
        /\ rpc[c] # "none" => pc[c] \in Requests
        /\ rpc[c] = "conflict" => pc[c] = "init"
        /\ pc[c] = "cancel" => attempt[c] = 1

FieldsAgree ==
    /\ signingState.commit = signingState.owner
    /\ signingState.nonce # NoSession =>
          /\ signingState.nonce = signingState.owner
          /\ mtaState.input = signingState.owner
    /\ mtaState.id = mtaState.input
    /\ mtaState.share # NoSession => mtaState.share = mtaState.id

FieldsHeld ==
    signingState # NoSigning \/ mtaState # NoMta => \E c \in Calls : pc[c] \in InFlow

PartialSent ==
    \A c \in Calls : pc[c] \notin {"partial", "done"} => partial[c] = NoPartial

GivenUp ==
    \A r \in late :
        r.kind # "cancel" =>
            /\ r.session = Sess(r.call)
            /\ pc[r.call] = "done" \/ (pc[r.call] = r.kind /\ rpc[r.call] = "error")
            /\ r.kind = "init" => partial[r.call] = NoPartial

Exclusive ==
    \A a \in Calls :
        active = Sess(a) /\ pc[a] \in InFlow =>
            /\ signingState.nonce # NoSession => signingState.owner = Sess(a)
            /\ \A c \in Calls \ {a} :
                  pc[c] = "nonce" /\ rpc[c] = "ok" => signingState.owner # Sess(c)

PartialOfActive ==
    \A a \in Calls :
        active = Sess(a) /\ partial[a] # NoPartial => partial[a].message = Sess(a)

TypeInv == TypeOK /\ Outstanding

FieldInv == TypeInv /\ FieldsAgree /\ FieldsHeld /\ OneSessionPerPartial

SessionInv ==
    /\ FieldInv
    /\ PartialSent
    /\ GivenUp
    /\ Exclusive
    /\ PartialOfActive
    /\ AcceptedIsOwn

-----------------------------------------------------------------------------
(* Type correctness.                                                       *)

\* A request under way has a kind and a session.
LEMMA RequestOfType ==
    ASSUME TypeInv, NEW c \in Calls, rpc[c] # "none"
    PROVE  RequestOf(c) \in Request
<1>1. pc[c] \in Requests
  BY DEF TypeInv, Outstanding
<1>2. Sess(c) \in MaybeSession /\ conflict[c] \in MaybeSession
  BY DEF TypeInv, TypeOK, Sess, MaybeSession, Sessions
<1>. QED
  BY <1>1, <1>2 DEF RequestOf, Request

\* Serving a request keeps the backend's variables well typed.
LEMMA ServeType ==
    ASSUME TypeOK, NEW r \in Request, Serve(r)
    PROVE  /\ active' \in MaybeSession
           /\ stage' \in [Sessions -> {"none"} \cup Requests]
           /\ accepted' \in [Sessions -> Partial]
<1>1. r.kind \in Requests /\ r.session \in MaybeSession /\ r.call \in Calls
  BY DEF Request
<1>2. active' \in MaybeSession
  <2>1. CASE r.kind = "init"
    BY <2>1, <1>1 DEF Serve
  <2>2. CASE r.kind \in {"cancel", "partial"}
    BY <2>2, <1>1 DEF Serve, MaybeSession
  <2>3. CASE r.kind \notin {"init", "cancel", "partial"}
    BY <2>3, <1>1 DEF Serve, TypeOK
  <2>. QED
    BY <2>1, <2>2, <2>3
<1>3. stage' \in [Sessions -> {"none"} \cup Requests]
  BY <1>1 DEF Serve, TypeOK
<1>4. accepted' \in [Sessions -> Partial]
  BY <1>1 DEF Serve, TypeOK
<1>. QED
  BY <1>2, <1>3, <1>4

LEMMA TypeInit == Init => TypeInv
BY CallsAssumption
   DEF Init, TypeInv, TypeOK, Outstanding, Requests, SigningState, NoSigning,
       MtaState, NoMta, Partial, NoPartial, MaybeSession, Sessions, Outcomes, Request

LEMMA TypeStep == TypeInv /\ [Next]_vars => TypeInv'
<1> SUFFICES ASSUME TypeInv, [Next]_vars PROVE TypeInv'
  OBVIOUS
<1>n. /\ NoSigning \in SigningState
      /\ NoMta \in MtaState
      /\ \A c \in Calls : Sess(c) \in MaybeSession
  BY DEF TypeInv, TypeOK, NoSigning, SigningState, NoMta, MtaState, MaybeSession,
         Sessions, Sess
<1>s. ASSUME NEW c \in Calls, NEW o \in Outcomes, Settle(c, o),
             UNCHANGED <<stored, backendVars, late, disturbed>>
      PROVE  TypeInv'
  BY <1>s, <1>n DEF TypeInv, TypeOK, Outstanding, Settle, End, Finally, backendVars
<1>f. /\ \A c \in Calls : (IF attempt[c] = 1 THEN "DKLS_SIGNING_FAILED"
                                              ELSE "unwrapped") \in Outcomes
      /\ "signed" \in Outcomes
  BY DEF Outcomes
<1>1. ASSUME NEW c \in Calls, Start(c) PROVE TypeInv'
  BY <1>1 DEF Start, TypeInv, TypeOK, Outstanding, Requests, sharedVars, backendVars,
              RunningCalls
<1>2. ASSUME NEW c \in Calls, LookUpSession(c) PROVE TypeInv'
  BY <1>2 DEF LookUpSession, End, TypeInv, TypeOK, Outstanding, Requests, Outcomes,
              sharedVars, backendVars
<1>3. ASSUME NEW c \in Calls, LoadShare(c) PROVE TypeInv'
  BY <1>3 DEF LoadShare, End, Await, TypeInv, TypeOK, Outstanding, Requests, Outcomes,
              sharedVars, backendVars
<1>4. ASSUME NEW c \in Calls, InitReply(c) PROVE TypeInv'
  <2>1. signingState' \in SigningState
    BY <1>4, <1>n DEF InitReply, SigningState, MaybeSession
  <2>. QED
    BY <1>4, <2>1 DEF InitReply, Answered, Await, TypeInv, TypeOK, Outstanding, Requests,
                      backendVars
<1>5. ASSUME NEW c \in Calls, ConflictReply(c) PROVE TypeInv'
  <2>1. attempt[c] = 1
    BY <1>5 DEF ConflictReply, MayRetry
  <2>2. attempt' \in [Calls -> {1, 2}]
    BY <1>5, <2>1 DEF ConflictReply, ResolveConflict, TypeInv, TypeOK
  <2>3. /\ pc' \in [Calls -> {"idle", "lookup", "load", "done"} \cup Requests]
        /\ rpc' = [rpc EXCEPT ![c] = "sent"]
        /\ pc' = [pc EXCEPT ![c] = "cancel"] \/ pc' = [pc EXCEPT ![c] = "init"]
    BY <1>5 DEF ConflictReply, ResolveConflict, Await, TypeInv, TypeOK, Requests
  <2>4. Outstanding'
    <3>. SUFFICES ASSUME NEW d \in Calls
                  PROVE  /\ rpc'[d] # "none" => pc'[d] \in Requests
                         /\ rpc'[d] = "conflict" => pc'[d] = "init"
                         /\ pc'[d] = "cancel" => attempt'[d] = 1
      BY DEF Outstanding
    <3>1. CASE d = c
      BY <1>5, <3>1, <2>1, <2>3 DEF ConflictReply, ResolveConflict, Await, Requests, TypeInv,
                                    TypeOK
    <3>2. CASE d # c
      BY <1>5, <3>2, <2>3 DEF ConflictReply, ResolveConflict, TypeInv, TypeOK, Outstanding
    <3>. QED
      BY <3>1, <3>2
  <2>. QED
    BY <1>5, <2>2, <2>3, <2>4 DEF ConflictReply, TypeInv, TypeOK, sharedVars, backendVars
<1>6. ASSUME NEW c \in Calls, CancelReply(c) PROVE TypeInv'
  <2>1. attempt[c] = 1
    BY <1>6 DEF CancelReply, TypeInv, Outstanding
  <2>2. attempt' \in [Calls -> {1, 2}]
    BY <1>6, <2>1 DEF CancelReply, RetryAttempt, TypeInv, TypeOK
  <2>. QED
    BY <1>6, <2>2 DEF CancelReply, Await, TypeInv, TypeOK, Outstanding, Requests,
                      sharedVars, backendVars
<1>7. ASSUME NEW c \in Calls, RequestRejected(c) PROVE TypeInv'
  BY <1>7, <1>s, <1>f DEF RequestRejected, Fail
<1>8. ASSUME NEW c \in Calls, NonceReply(c) PROVE TypeInv'
  <2>1. CASE RevealMatches(c)
    <3>1. signingState' \in SigningState /\ mtaState' \in MtaState
      BY <1>8, <2>1, <1>n DEF NonceReply, Fail, Settle, End, SigningState, MtaState, MaybeSession,
                              TypeInv, TypeOK
    <3>. QED
      BY <1>8, <2>1, <3>1 DEF NonceReply, Await, TypeInv, TypeOK, Outstanding, Requests,
                              backendVars
  <2>2. CASE ~ RevealMatches(c)
    BY <1>8, <2>2, <1>s, <1>f DEF NonceReply, Fail
  <2>. QED
    BY <2>1, <2>2
<1>9. ASSUME NEW c \in Calls, Mta1Reply(c) PROVE TypeInv'
  <2>1. CASE mtaState.id = Sess(c)
    <3>1. mtaState' \in MtaState
      BY <1>9, <2>1, <1>n DEF Mta1Reply, MtaState, TypeInv, TypeOK
    <3>. QED
      BY <1>9, <2>1, <3>1 DEF Mta1Reply, Await, TypeInv, TypeOK, Outstanding, Requests,
                              backendVars
  <2>2. CASE mtaState.id # Sess(c)
    BY <1>9, <2>2, <1>s, <1>f DEF Mta1Reply, Fail
  <2>. QED
    BY <2>1, <2>2
<1>10. ASSUME NEW c \in Calls, Mta2Reply(c) PROVE TypeInv'
  <2>1. CASE CanCompute
    <3>1. ClientPartial \in Partial
      BY DEF ClientPartial, Partial, TypeInv, TypeOK, SigningState, MtaState
    <3>. QED
      BY <1>10, <2>1, <3>1 DEF Mta2Reply, Await, TypeInv, TypeOK, Outstanding, Requests,
                               sharedVars, backendVars
  <2>2. CASE ~ CanCompute
    BY <1>10, <2>2, <1>s, <1>f DEF Mta2Reply, Fail
  <2>. QED
    BY <2>1, <2>2
<1>11. ASSUME NEW c \in Calls, PartialReply(c) PROVE TypeInv'
  BY <1>11, <1>s, <1>f DEF PartialReply
<1>12. ASSUME NEW c \in Calls, Backend(c) PROVE TypeInv'
  <2>1. rpc[c] # "none" /\ RequestOf(c) \in Request
    BY <1>12, RequestOfType DEF Backend
  <2>2. CASE Accepts(RequestOf(c))
    <3>1. Serve(RequestOf(c))
      BY <1>12, <2>2 DEF Backend
    <3>2. /\ active' \in MaybeSession
          /\ stage' \in [Sessions -> {"none"} \cup Requests]
          /\ accepted' \in [Sessions -> Partial]
      BY <2>1, <3>1, ServeType DEF TypeInv
    <3>. QED
      BY <1>12, <2>2, <2>1, <3>2 DEF Backend, TypeInv, TypeOK, Outstanding, sharedVars
  <2>3. CASE ~ Accepts(RequestOf(c))
    BY <1>12, <2>3, <2>1, <1>n DEF Backend, TypeInv, TypeOK, Outstanding, sharedVars, backendVars,
                             MaybeSession
  <2>. QED
    BY <2>2, <2>3
<1>13. ASSUME NEW c \in Calls, RequestLost(c) PROVE TypeInv'
  <2>1. rpc[c] # "none" /\ RequestOf(c) \in Request
    BY <1>13, RequestOfType DEF RequestLost
  <2>. QED
    BY <1>13, <2>1 DEF RequestLost, TypeInv, TypeOK, Outstanding, sharedVars, backendVars
<1>14. ASSUME NEW r \in late, LateRequest(r) PROVE TypeInv'
  <2>1. r \in Request
    BY DEF TypeInv, TypeOK
  <2>2. /\ active' \in MaybeSession
        /\ stage' \in [Sessions -> {"none"} \cup Requests]
        /\ accepted' \in [Sessions -> Partial]
    <3>1. CASE Accepts(r)
      BY <1>14, <2>1, <3>1, ServeType DEF LateRequest, TypeInv
    <3>2. CASE ~ Accepts(r)
      BY <1>14, <3>2 DEF LateRequest, backendVars, TypeInv, TypeOK
    <3>. QED
      BY <3>1, <3>2
  <2>. QED
    BY <1>14, <2>2 DEF LateRequest, TypeInv, TypeOK, Outstanding, clientVars, sharedVars,
                       RunningCalls
<1>15. CASE OtherDevice
  BY <1>15 DEF OtherDevice, TypeInv, TypeOK, Outstanding, clientVars, sharedVars, RunningCalls,
               MaybeSession, Sessions, Requests
<1>16. CASE UNCHANGED vars
  BY <1>16 DEF vars, clientVars, sharedVars, backendVars, TypeInv, TypeOK, Outstanding
<1>. QED
  BY <1>1, <1>2, <1>3, <1>4, <1>5, <1>6, <1>7, <1>8, <1>9, <1>10, <1>11, <1>12, <1>13,
     <1>14, <1>15, <1>16 DEF Next, Client

\* Every variable of the client, the network and the backend has its type,
\* and a request under way is one that the protocol has.
THEOREM TypeCorrect == Spec => []TypeOK
<1>1. TypeInv => TypeOK
  BY DEF TypeInv
<1>. QED
  BY <1>1, TypeInit, TypeStep, PTL DEF Spec


-----------------------------------------------------------------------------
(* The two shared fields.                                                  *)

LEMMA FieldInit == Init => FieldInv
BY TypeInit DEF Init, FieldInv, FieldsAgree, FieldsHeld, OneSessionPerPartial, OneSession,
                NoSigning, NoMta, NoPartial

LEMMA FieldStep == FieldInv /\ [Next]_vars => FieldInv'
<1> SUFFICES ASSUME FieldInv, [Next]_vars PROVE FieldInv'
  OBVIOUS
<1>t. TypeInv /\ TypeInv'
  BY TypeStep DEF FieldInv
<1>n. \A c \in Calls : Sess(c) # NoSession
  BY <1>t, CallsAssumption DEF Sess, TypeInv, TypeOK
<1>s. ASSUME NEW c \in Calls, NEW o, Settle(c, o) PROVE FieldInv'
  BY <1>t, <1>s DEF Settle, Finally, FieldInv, FieldsAgree, FieldsHeld, OneSessionPerPartial,
                    NoSigning, NoMta
<1>u. ASSUME UNCHANGED <<signingState, mtaState, partial>>,
             \A c \in Calls : pc[c] \in InFlow => pc'[c] \in InFlow
      PROVE  FieldInv'
  BY <1>t, <1>u DEF FieldInv, FieldsAgree, FieldsHeld, OneSessionPerPartial
<1>1. ASSUME NEW c \in Calls, Start(c) PROVE FieldInv'
  BY <1>1, <1>u, <1>t DEF Start, sharedVars, InFlow, TypeInv, TypeOK
<1>2. ASSUME NEW c \in Calls, LookUpSession(c) PROVE FieldInv'
  BY <1>2, <1>u, <1>t DEF LookUpSession, End, sharedVars, InFlow, TypeInv, TypeOK
<1>3. ASSUME NEW c \in Calls, LoadShare(c) PROVE FieldInv'
  BY <1>3, <1>u, <1>t DEF LoadShare, End, Await, sharedVars, InFlow, TypeInv, TypeOK
<1>4. ASSUME NEW c \in Calls, InitReply(c) PROVE FieldInv'
  <2>1. FieldsAgree'
    BY <1>4, <1>n DEF InitReply, FieldInv, FieldsAgree
  <2>2. FieldsHeld'
    <3>1. pc'[c] = "nonce"
      BY <1>4, <1>t DEF InitReply, Await, TypeInv, TypeOK
    <3>. QED
      BY <3>1 DEF FieldsHeld, InFlow
  <2>. QED
    BY <1>4, <1>t, <2>1, <2>2 DEF InitReply, FieldInv, OneSessionPerPartial
<1>5. ASSUME NEW c \in Calls, ConflictReply(c) PROVE FieldInv'
  <2>1. pc[c] = "init"
    BY <1>5, <1>t DEF ConflictReply, RetriesAfter, TypeInv, Outstanding
  <2>. QED
    BY <1>5, <2>1, <1>u, <1>t DEF ConflictReply, ResolveConflict, Await, sharedVars, InFlow,
                                  TypeInv, TypeOK
<1>6. ASSUME NEW c \in Calls, CancelReply(c) PROVE FieldInv'
  BY <1>6, <1>u, <1>t DEF CancelReply, Await, sharedVars, InFlow, TypeInv, TypeOK
<1>7. ASSUME NEW c \in Calls, RequestRejected(c) PROVE FieldInv'
  BY <1>7, <1>s DEF RequestRejected, Fail
<1>8. ASSUME NEW c \in Calls, NonceReply(c) PROVE FieldInv'
  <2>1. CASE RevealMatches(c)
    <3>1. /\ signingState.owner = Sess(c)
          /\ signingState' = [signingState EXCEPT !.nonce = Sess(c)]
          /\ mtaState' = [id |-> Sess(c), input |-> signingState.owner, share |-> NoSession]
          /\ pc' = [pc EXCEPT ![c] = "mta1"]
          /\ partial' = partial
      <4>1. signingState.commit = Sess(c)
        BY <2>1 DEF RevealMatches
      <4>. QED
        BY <1>8, <2>1, <4>1 DEF NonceReply, Await, Fail, FieldInv, FieldsAgree
    <3>2. FieldsAgree'
      BY <3>1, <1>t DEF FieldInv, FieldsAgree, TypeInv, TypeOK, SigningState
    <3>3. FieldsHeld'
      BY <3>1, <1>t DEF FieldsHeld, InFlow, TypeInv, TypeOK
    <3>. QED
      BY <3>1, <3>2, <3>3, <1>t DEF FieldInv, OneSessionPerPartial
  <2>2. CASE ~ RevealMatches(c)
    BY <1>8, <2>2, <1>s DEF NonceReply, Fail
  <2>. QED
    BY <2>1, <2>2
<1>9. ASSUME NEW c \in Calls, Mta1Reply(c) PROVE FieldInv'
  <2>1. CASE mtaState.id = Sess(c)
    <3>1. /\ mtaState' = [mtaState EXCEPT !.share = Sess(c)]
          /\ pc' = [pc EXCEPT ![c] = "mta2"]
          /\ UNCHANGED <<signingState, partial>>
      BY <1>9, <2>1 DEF Mta1Reply, Await
    <3>2. FieldsAgree'
      BY <2>1, <3>1, <1>t DEF FieldInv, FieldsAgree, TypeInv, TypeOK, MtaState
    <3>3. FieldsHeld'
      BY <3>1, <1>t DEF FieldsHeld, InFlow, TypeInv, TypeOK
    <3>. QED
      BY <3>1, <3>2, <3>3, <1>t DEF FieldInv, OneSessionPerPartial
  <2>2. CASE mtaState.id # Sess(c)
    BY <1>9, <2>2, <1>s DEF Mta1Reply, Fail
  <2>. QED
    BY <2>1, <2>2
<1>10. ASSUME NEW c \in Calls, Mta2Reply(c) PROVE FieldInv'
  <2>1. CASE CanCompute
    <3>1. /\ partial' = [partial EXCEPT ![c] = ClientPartial]
          /\ pc' = [pc EXCEPT ![c] = "partial"]
          /\ UNCHANGED sharedVars
      BY <1>10, <2>1 DEF Mta2Reply, Await
    <3>2. OneSession(ClientPartial)
      BY <2>1 DEF CanCompute, ClientPartial, OneSession, FieldInv, FieldsAgree
    <3>3. OneSessionPerPartial'
      BY <3>1, <3>2, <1>t DEF FieldInv, OneSessionPerPartial, TypeInv, TypeOK
    <3>4. FieldsHeld'
      BY <3>1, <1>t DEF FieldsHeld, InFlow, TypeInv, TypeOK
    <3>. QED
      BY <3>1, <3>3, <3>4, <1>t DEF FieldInv, FieldsAgree, sharedVars
  <2>2. CASE ~ CanCompute
    BY <1>10, <2>2, <1>s DEF Mta2Reply, Fail
  <2>. QED
    BY <2>1, <2>2
<1>11. ASSUME NEW c \in Calls, PartialReply(c) PROVE FieldInv'
  BY <1>11, <1>s DEF PartialReply
<1>12. ASSUME NEW c \in Calls, Backend(c) PROVE FieldInv'
  BY <1>12, <1>u DEF Backend, sharedVars
<1>13. ASSUME NEW c \in Calls, RequestLost(c) PROVE FieldInv'
  BY <1>13, <1>u DEF RequestLost, sharedVars
<1>14. ASSUME NEW r \in late, LateRequest(r) PROVE FieldInv'
  BY <1>14, <1>u DEF LateRequest, clientVars, sharedVars
<1>15. CASE OtherDevice
  BY <1>15, <1>u DEF OtherDevice, clientVars, sharedVars
<1>16. CASE UNCHANGED vars
  BY <1>16, <1>u DEF vars, clientVars, sharedVars
<1>. QED
  BY <1>1, <1>2, <1>3, <1>4, <1>5, <1>6, <1>7, <1>8, <1>9, <1>10, <1>11, <1>12, <1>13,
     <1>14, <1>15, <1>16 DEF Next, Client

\* No interleaving of calls makes the client send a partial signature mixed
\* from two sessions.
THEOREM PartialsAreCoherent == Spec => []OneSessionPerPartial
<1>1. FieldInv => OneSessionPerPartial
  BY DEF FieldInv
<1>. QED
  BY <1>1, FieldInit, FieldStep, PTL DEF Spec

\* When no call is running, the nonce share and the MtA state are gone.
THEOREM NoncesAreReleased == Spec => []NoNonceLeftBehind
<1>1. FieldInv => NoNonceLeftBehind
  BY DEF FieldInv, FieldsHeld, NoNonceLeftBehind, RunningCalls, Running, InFlow
<1>. QED
  BY <1>1, FieldInit, FieldStep, PTL DEF Spec

-----------------------------------------------------------------------------
(* What the backend completes a session with.                              *)

\* Calls have different sessions, none of them null or OldSession.
LEMMA SessionsDiffer ==
    ASSUME TypeInv, NEW a \in Calls
    PROVE  /\ Sess(a) # NoSession /\ Sess(a) # OldSession
           /\ \A c \in Calls : Sess(c) = Sess(a) => c = a
BY CallsAssumption DEF Sess, TypeInv, TypeOK

LEMMA SessionInit == Init => SessionInv
<1> SUFFICES ASSUME Init PROVE SessionInv
  OBVIOUS
<1>1. FieldInv /\ TypeInv
  BY FieldInit, TypeInit
<1>2. AcceptedIsOwn
  BY DEF Init, AcceptedIsOwn
<1>. QED
  BY <1>1, <1>2 DEF Init, SessionInv, PartialSent, GivenUp, Exclusive, PartialOfActive, InFlow

\* A step of the backend.  r is the request it serves.
LEMMA ServeStep ==
    ASSUME SessionInv, TypeInv',
           NEW r \in Request, Accepts(r), Serve(r),
           r.kind # "cancel" => r.session = Sess(r.call),
           r.kind = "init" => partial[r.call] = NoPartial /\ pc[r.call] \notin InFlow,
           UNCHANGED <<pc, attempt, partial, sharedVars>>,
           \A c \in Calls \ {r.call} : rpc'[c] = rpc[c],
           r.kind # "nonce" => (rpc'[r.call] = rpc[r.call] \/ pc[r.call] # "nonce"),
           r.kind = "nonce" => active = Sess(r.call)
    PROVE  Exclusive' /\ PartialOfActive' /\ AcceptedIsOwn'
<1>t. TypeInv /\ r.call \in Calls
  BY DEF SessionInv, FieldInv, Request
<1>d. \A a, c \in Calls : Sess(c) = Sess(a) => c = a
  BY <1>t, SessionsDiffer
<1>n. \A a \in Calls : Sess(a) # NoSession
  BY <1>t, SessionsDiffer
<1>s. \A a \in Calls : Sess(a)' = Sess(a)
  BY DEF Sess
<1>a. \A a \in Calls : active' = Sess(a) => active = Sess(a) \/ (r.kind = "init" /\ a = r.call)
  BY <1>t, <1>d, <1>n DEF Serve
<1>1. Exclusive'
  <2>. SUFFICES ASSUME NEW a \in Calls, active' = Sess(a), pc[a] \in InFlow
                PROVE  /\ signingState.nonce # NoSession => signingState.owner = Sess(a)
                       /\ \A c \in Calls \ {a} :
                             pc[c] = "nonce" /\ rpc'[c] = "ok" => signingState.owner # Sess(c)
    BY <1>s DEF Exclusive, sharedVars
  <2>1. active = Sess(a)
    BY <1>a
  <2>2. /\ signingState.nonce # NoSession => signingState.owner = Sess(a)
        /\ \A c \in Calls \ {a} :
              pc[c] = "nonce" /\ rpc[c] = "ok" => signingState.owner # Sess(c)
    BY <2>1 DEF SessionInv, Exclusive
  <2>3. ASSUME NEW c \in Calls \ {a}, pc[c] = "nonce", rpc'[c] = "ok"
        PROVE  signingState.owner # Sess(c)
    <3>1. CASE c = r.call
      <4>1. r.kind # "nonce"
        BY <3>1, <2>1, <1>d
      <4>. QED
        BY <4>1, <3>1, <2>2, <2>3
    <3>2. CASE c # r.call
      BY <3>2, <2>2, <2>3
    <3>. QED
      BY <3>1, <3>2
  <2>. QED
    BY <2>2, <2>3
<1>2. PartialOfActive'
  BY <1>a, <1>s DEF SessionInv, PartialOfActive
<1>3. AcceptedIsOwn'
  <2>1. CASE r.kind = "partial"
    <3>1. active = Sess(r.call) /\ r.session = Sess(r.call)
      BY <2>1 DEF Accepts
    <3>2. partial[r.call] # NoPartial => partial[r.call].message = Sess(r.call)
      BY <3>1, <1>t DEF SessionInv, PartialOfActive
    <3>3. accepted' = [accepted EXCEPT ![Sess(r.call)] = partial[r.call]]
      BY <2>1, <3>1 DEF Serve
    <3>. QED
      BY <3>2, <3>3, <1>t DEF SessionInv, AcceptedIsOwn, TypeInv, TypeOK
  <2>2. CASE r.kind # "partial"
    BY <2>2 DEF Serve, SessionInv, AcceptedIsOwn
  <2>. QED
    BY <2>1, <2>2
<1>. QED
  BY <1>1, <1>2, <1>3

\* A step that ends a call by its finally block.
LEMMA SettleStep ==
    ASSUME SessionInv, TypeInv', FieldInv', NEW c \in Calls, NEW o, Settle(c, o),
           pc[c] \in Requests, UNCHANGED <<backendVars, late>>
    PROVE  SessionInv'
<1>t. TypeInv
  BY DEF SessionInv, FieldInv
<1>s. \A a \in Calls : Sess(a)' = Sess(a) /\ Sess(a) # NoSession
  BY <1>t, SessionsDiffer DEF Settle, Sess
<1>p. /\ pc' = [pc EXCEPT ![c] = "done"]
      /\ rpc' = [rpc EXCEPT ![c] = "none"]
      /\ signingState' = NoSigning
      /\ UNCHANGED <<attempt, partial, active, accepted, late>>
  BY DEF Settle, End, Finally, backendVars
<1>1. PartialSent'
  BY <1>p, <1>t DEF SessionInv, PartialSent, TypeInv, TypeOK
<1>2. GivenUp'
  BY <1>p, <1>t, <1>s DEF SessionInv, GivenUp, TypeInv, TypeOK, Request
<1>3. Exclusive'
  BY <1>p, <1>t, <1>s DEF Exclusive, NoSigning
<1>4. PartialOfActive' /\ AcceptedIsOwn'
  BY <1>p, <1>s DEF SessionInv, PartialOfActive, AcceptedIsOwn
<1>. QED
  BY <1>1, <1>2, <1>3, <1>4 DEF SessionInv

LEMMA SessionStep == SessionInv /\ [Next]_vars => SessionInv'
<1> SUFFICES ASSUME SessionInv, [Next]_vars PROVE SessionInv'
  OBVIOUS
<1>t. TypeInv /\ TypeInv' /\ FieldInv /\ FieldInv'
  BY TypeStep, FieldStep DEF SessionInv, FieldInv
<1>d. \A a, c \in Calls : Sess(c) = Sess(a) => c = a
  BY <1>t, SessionsDiffer
<1>n. \A a \in Calls : Sess(a) # NoSession /\ Sess(a) # OldSession
  BY <1>t, SessionsDiffer
<1>v. UNCHANGED attempt => \A a \in Calls : Sess(a)' = Sess(a)
  BY DEF Sess
\* A step of a call that leaves the flow's fields, the partials and the backend
\* alone, and does not enter the flow.
<1>u. ASSUME NEW c \in Calls, NEW k, NEW q,
             pc' = [pc EXCEPT ![c] = k], rpc' = [rpc EXCEPT ![c] = q],
             UNCHANGED <<attempt, signingState, partial, active, accepted, late>>,
             pc[c] \notin {"partial", "done"}, k \notin InFlow,
             rpc[c] # "error"
      PROVE  SessionInv'
  <2>1. PartialSent'
    BY <1>u, <1>t DEF SessionInv, PartialSent, TypeInv, TypeOK
  <2>2. GivenUp'
    <3>. SUFFICES ASSUME NEW r \in late, r.kind # "cancel"
                  PROVE  /\ r.session = Sess(r.call)
                         /\ pc'[r.call] = "done" \/ (pc'[r.call] = r.kind /\ rpc'[r.call] = "error")
                         /\ r.kind = "init" => partial[r.call] = NoPartial
      BY <1>u, <1>t, <1>v DEF GivenUp, TypeInv, TypeOK, Request
    <3>1. r.call \in Calls /\ r.call # c
      BY <1>u, <1>t DEF SessionInv, GivenUp, TypeInv, TypeOK, Request
    <3>. QED
      BY <1>u, <1>t, <3>1 DEF SessionInv, GivenUp, TypeInv, TypeOK
  <2>3. Exclusive'
    BY <1>u, <1>t, <1>v DEF SessionInv, Exclusive, TypeInv, TypeOK, InFlow
  <2>4. PartialOfActive' /\ AcceptedIsOwn'
    BY <1>u, <1>v DEF SessionInv, PartialOfActive, AcceptedIsOwn
  <2>. QED
    BY <1>t, <2>1, <2>2, <2>3, <2>4 DEF SessionInv
\* A call before its second run has left no trace of it, and is not in the flow.
<1>r. ASSUME NEW c \in Calls,
             pc[c] \in {"init", "cancel"},
             rpc[c] \in {"ok", "error", "conflict"}, rpc[c] = "error" => pc[c] = "cancel",
             pc' = [pc EXCEPT ![c] = "init"], rpc' = [rpc EXCEPT ![c] = "sent"],
             \A a \in Calls \ {c} : attempt'[a] = attempt[a],
             UNCHANGED <<signingState, partial, active, accepted, late>>
      PROVE  SessionInv'
  <2>1. partial[c] = NoPartial
    BY <1>r DEF SessionInv, PartialSent
  <2>2. PartialSent'
    BY <1>r, <1>t, <2>1 DEF SessionInv, PartialSent, TypeInv, TypeOK
  <2>3. \A a \in Calls \ {c} : Sess(a)' = Sess(a)
    BY <1>r DEF Sess
  <2>4. GivenUp'
    <3>. SUFFICES ASSUME NEW r \in late, r.kind # "cancel"
                  PROVE  /\ r.session = Sess(r.call)'
                         /\ pc'[r.call] = "done" \/ (pc'[r.call] = r.kind /\ rpc'[r.call] = "error")
                         /\ r.kind = "init" => partial[r.call] = NoPartial
      BY <1>r DEF GivenUp
    <3>1. r.call \in Calls /\ r.call # c
      BY <1>r, <1>t DEF SessionInv, GivenUp, TypeInv, TypeOK, Request
    <3>. QED
      BY <1>r, <1>t, <2>3, <3>1 DEF SessionInv, GivenUp, TypeInv, TypeOK
  <2>5. Exclusive'
    <3>. SUFFICES ASSUME NEW a \in Calls, active = Sess(a)', pc'[a] \in InFlow
                  PROVE  /\ signingState.nonce # NoSession => signingState.owner = Sess(a)'
                         /\ \A b \in Calls \ {a} :
                               pc'[b] = "nonce" /\ rpc'[b] = "ok" => signingState.owner # Sess(b)'
      BY <1>r DEF Exclusive
    <3>1. a # c
      BY <1>r, <1>t DEF InFlow, TypeInv, TypeOK
    <3>2. pc'[a] = pc[a]
      BY <1>r, <1>t, <3>1 DEF TypeInv, TypeOK
    <3>3. \A b \in Calls : pc'[b] = "nonce" => b # c /\ pc[b] = "nonce" /\ rpc'[b] = rpc[b]
      BY <1>r, <1>t DEF TypeInv, TypeOK
    <3>. QED
      BY <2>3, <3>1, <3>2, <3>3 DEF SessionInv, Exclusive
  <2>6. PartialOfActive' /\ AcceptedIsOwn'
    BY <1>r, <2>1, <2>3 DEF SessionInv, PartialOfActive, AcceptedIsOwn
  <2>. QED
    BY <1>t, <2>2, <2>4, <2>5, <2>6 DEF SessionInv
<1>1. ASSUME NEW c \in Calls, Start(c) PROVE SessionInv'
  <2>1. rpc[c] = "none" /\ rpc' = [rpc EXCEPT ![c] = "none"]
    BY <1>1, <1>t DEF Start, TypeInv, TypeOK, Outstanding, Requests
  <2>. QED
    BY <1>1, <2>1, <1>u DEF Start, sharedVars, backendVars, InFlow
<1>2. ASSUME NEW c \in Calls, LookUpSession(c) PROVE SessionInv'
  <2>1. rpc[c] = "none" /\ (UNCHANGED rpc => rpc' = [rpc EXCEPT ![c] = "none"])
    BY <1>2, <1>t DEF LookUpSession, TypeInv, TypeOK, Outstanding, Requests
  <2>. QED
    BY <1>2, <2>1, <1>u DEF LookUpSession, End, sharedVars, backendVars, InFlow
<1>3. ASSUME NEW c \in Calls, LoadShare(c) PROVE SessionInv'
  <2>1. rpc[c] = "none"
    BY <1>3, <1>t DEF LoadShare, TypeInv, TypeOK, Outstanding, Requests
  <2>. QED
    BY <1>3, <2>1, <1>u DEF LoadShare, End, Await, sharedVars, backendVars, InFlow
<1>4. ASSUME NEW c \in Calls, InitReply(c) PROVE SessionInv'
  <2>p. /\ pc[c] = "init" /\ rpc[c] = "ok" /\ partial[c] = NoPartial
        /\ pc' = [pc EXCEPT ![c] = "nonce"] /\ rpc' = [rpc EXCEPT ![c] = "sent"]
        /\ signingState'.owner = Sess(c) /\ signingState'.nonce = NoSession
        /\ UNCHANGED <<attempt, partial, active, accepted, late>>
    BY <1>4 DEF InitReply, Answered, Await, backendVars, SessionInv, PartialSent
  <2>1. PartialSent'
    BY <2>p, <1>t DEF SessionInv, PartialSent, TypeInv, TypeOK
  <2>2. GivenUp'
    BY <2>p, <1>t, <1>v DEF SessionInv, GivenUp, TypeInv, TypeOK, Request
  <2>3. Exclusive'
    <3>1. \A b \in Calls : pc'[b] = "nonce" /\ rpc'[b] = "ok" => b # c
      BY <2>p, <1>t DEF TypeInv, TypeOK
    <3>. QED
      BY <2>p, <3>1, <1>d, <1>v DEF Exclusive
  <2>4. PartialOfActive' /\ AcceptedIsOwn'
    BY <2>p, <1>v DEF SessionInv, PartialOfActive, AcceptedIsOwn
  <2>. QED
    BY <1>t, <2>1, <2>2, <2>3, <2>4 DEF SessionInv
<1>5. ASSUME NEW c \in Calls, ConflictReply(c) PROVE SessionInv'
  <2>1. pc[c] = "init" /\ rpc[c] = "conflict"
    BY <1>5, <1>t DEF ConflictReply, RetriesAfter, TypeInv, Outstanding
  <2>2. CASE conflict[c] # NoSession
    BY <1>5, <2>1, <2>2, <1>u DEF ConflictReply, ResolveConflict, Await, sharedVars,
                                  backendVars, InFlow
  <2>3. CASE conflict[c] = NoSession
    <3>1. \A a \in Calls \ {c} : attempt'[a] = attempt[a]
      BY <1>5, <2>3, <1>t DEF ConflictReply, ResolveConflict, TypeInv, TypeOK
    <3>. QED
      BY <1>5, <2>1, <2>3, <3>1, <1>r DEF ConflictReply, ResolveConflict, Await, sharedVars,
                                          backendVars
  <2>. QED
    BY <2>2, <2>3
<1>6. ASSUME NEW c \in Calls, CancelReply(c) PROVE SessionInv'
  <2>1. \A a \in Calls \ {c} : attempt'[a] = attempt[a]
    BY <1>6, <1>t DEF CancelReply, TypeInv, TypeOK
  <2>. QED
    BY <1>6, <2>1, <1>r DEF CancelReply, Await, sharedVars, backendVars
<1>7. ASSUME NEW c \in Calls, RequestRejected(c) PROVE SessionInv'
  <2>1. pc[c] \in Requests
    BY <1>7, <1>t DEF RequestRejected, TypeInv, Outstanding
  <2>. QED
    BY <1>7, <1>t, <2>1, SettleStep DEF RequestRejected, Fail
<1>8. ASSUME NEW c \in Calls, NonceReply(c) PROVE SessionInv'
  <2>a. pc[c] = "nonce" /\ rpc[c] = "ok"
    BY <1>8 DEF NonceReply, Answered
  <2>1. CASE RevealMatches(c)
    <3>p. /\ signingState.owner = Sess(c)
          /\ signingState'.owner = Sess(c)
          /\ pc' = [pc EXCEPT ![c] = "mta1"] /\ rpc' = [rpc EXCEPT ![c] = "sent"]
          /\ UNCHANGED <<attempt, partial, active, accepted, late>>
      <4>1. signingState.commit = Sess(c)
        BY <2>1 DEF RevealMatches
      <4>. QED
        BY <1>8, <2>1, <4>1, <1>t DEF NonceReply, Await, backendVars, FieldInv, FieldsAgree,
                                      TypeInv, TypeOK, SigningState
    <3>1. PartialSent'
      BY <3>p, <2>a, <1>t DEF SessionInv, PartialSent, TypeInv, TypeOK
    <3>2. GivenUp'
      BY <3>p, <2>a, <1>t, <1>v DEF SessionInv, GivenUp, TypeInv, TypeOK, Request
    <3>3. Exclusive'
      <4>. SUFFICES ASSUME NEW a \in Calls, active = Sess(a), pc'[a] \in InFlow
                    PROVE  /\ Sess(c) = Sess(a)
                           /\ \A b \in Calls \ {a} :
                                 pc'[b] = "nonce" /\ rpc'[b] = "ok" => Sess(c) # Sess(b)
        BY <3>p, <1>v DEF Exclusive
      <4>1. pc[a] \in InFlow
        BY <3>p, <2>a, <1>t DEF InFlow, TypeInv, TypeOK
      <4>2. c = a
        BY <4>1, <3>p, <2>a DEF SessionInv, Exclusive
      <4>. QED
        BY <4>2, <1>d
    <3>4. PartialOfActive' /\ AcceptedIsOwn'
      BY <3>p, <1>v DEF SessionInv, PartialOfActive, AcceptedIsOwn
    <3>. QED
      BY <1>t, <3>1, <3>2, <3>3, <3>4 DEF SessionInv
  <2>2. CASE ~ RevealMatches(c)
    BY <1>8, <2>2, <2>a, <1>t, SettleStep DEF NonceReply, Fail, Requests
  <2>. QED
    BY <2>1, <2>2
<1>9. ASSUME NEW c \in Calls, Mta1Reply(c) PROVE SessionInv'
  <2>a. pc[c] = "mta1" /\ rpc[c] = "ok"
    BY <1>9 DEF Mta1Reply, Answered
  <2>1. CASE mtaState.id = Sess(c)
    <3>p. /\ pc' = [pc EXCEPT ![c] = "mta2"] /\ rpc' = [rpc EXCEPT ![c] = "sent"]
          /\ UNCHANGED <<attempt, signingState, partial, active, accepted, late>>
      BY <1>9, <2>1 DEF Mta1Reply, Await, backendVars
    <3>1. PartialSent'
      BY <3>p, <2>a, <1>t DEF SessionInv, PartialSent, TypeInv, TypeOK
    <3>2. GivenUp'
      BY <3>p, <2>a, <1>t, <1>v DEF SessionInv, GivenUp, TypeInv, TypeOK, Request
    <3>3. Exclusive'
      BY <3>p, <2>a, <1>t, <1>v DEF SessionInv, Exclusive, InFlow, TypeInv, TypeOK
    <3>4. PartialOfActive' /\ AcceptedIsOwn'
      BY <3>p, <1>v DEF SessionInv, PartialOfActive, AcceptedIsOwn
    <3>. QED
      BY <1>t, <3>1, <3>2, <3>3, <3>4 DEF SessionInv
  <2>2. CASE mtaState.id # Sess(c)
    BY <1>9, <2>2, <2>a, <1>t, SettleStep DEF Mta1Reply, Fail, Requests
  <2>. QED
    BY <2>1, <2>2
<1>10. ASSUME NEW c \in Calls, Mta2Reply(c) PROVE SessionInv'
  <2>a. pc[c] = "mta2" /\ rpc[c] = "ok"
    BY <1>10 DEF Mta2Reply, Answered
  <2>1. CASE CanCompute
    <3>p. /\ pc' = [pc EXCEPT ![c] = "partial"] /\ rpc' = [rpc EXCEPT ![c] = "sent"]
          /\ partial' = [partial EXCEPT ![c] = ClientPartial]
          /\ UNCHANGED <<attempt, signingState, active, accepted, late>>
      BY <1>10, <2>1 DEF Mta2Reply, Await, backendVars, sharedVars
    <3>1. PartialSent'
      BY <3>p, <2>a, <1>t DEF SessionInv, PartialSent, TypeInv, TypeOK
    <3>2. GivenUp'
      <4>. SUFFICES ASSUME NEW r \in late, r.kind # "cancel"
                    PROVE  /\ r.session = Sess(r.call)
                           /\ pc'[r.call] = "done" \/ (pc'[r.call] = r.kind /\ rpc'[r.call] = "error")
                           /\ r.kind = "init" => partial'[r.call] = NoPartial
        BY <3>p, <1>t, <1>v DEF GivenUp, TypeInv, TypeOK, Request
      <4>1. r.call \in Calls /\ r.call # c
        BY <2>a, <1>t DEF SessionInv, GivenUp, TypeInv, TypeOK, Request
      <4>. QED
        BY <3>p, <4>1, <1>t DEF SessionInv, GivenUp, TypeInv, TypeOK
    <3>3. Exclusive'
      BY <3>p, <2>a, <1>t, <1>v DEF SessionInv, Exclusive, InFlow, TypeInv, TypeOK
    <3>4. PartialOfActive'
      <4>. SUFFICES ASSUME NEW a \in Calls, active = Sess(a), partial'[a] # NoPartial
                    PROVE  partial'[a].message = Sess(a)
        BY <3>p, <1>v DEF PartialOfActive
      <4>1. CASE a = c
        <5>1. partial'[c].message = signingState.owner
          BY <3>p, <1>t DEF ClientPartial, TypeInv, TypeOK
        <5>2. signingState.owner = Sess(c)
          BY <2>1, <2>a, <4>1 DEF CanCompute, SessionInv, Exclusive, InFlow
        <5>. QED
          BY <5>1, <5>2, <4>1
      <4>2. CASE a # c
        BY <3>p, <4>2, <1>t DEF SessionInv, PartialOfActive, TypeInv, TypeOK
      <4>. QED
        BY <4>1, <4>2
    <3>5. AcceptedIsOwn'
      BY <3>p DEF SessionInv, AcceptedIsOwn
    <3>. QED
      BY <1>t, <3>1, <3>2, <3>3, <3>4, <3>5 DEF SessionInv
  <2>2. CASE ~ CanCompute
    BY <1>10, <2>2, <2>a, <1>t, SettleStep DEF Mta2Reply, Fail, Requests
  <2>. QED
    BY <2>1, <2>2
<1>11. ASSUME NEW c \in Calls, PartialReply(c) PROVE SessionInv'
  BY <1>11, <1>t, SettleStep DEF PartialReply, Answered, Requests
<1>12. ASSUME NEW c \in Calls, Backend(c) PROVE SessionInv'
  <2>p. /\ rpc[c] = "sent"
        /\ \E q \in {"ok", "error", "conflict"} : rpc' = [rpc EXCEPT ![c] = q]
        /\ UNCHANGED <<pc, attempt, partial, signingState, mtaState, late>>
    BY <1>12 DEF Backend, sharedVars
  <2>1. PartialSent'
    BY <2>p DEF SessionInv, PartialSent
  <2>2. GivenUp'
    BY <2>p, <1>t, <1>v DEF SessionInv, GivenUp, TypeInv, TypeOK, Request
  <2>3. Exclusive' /\ PartialOfActive' /\ AcceptedIsOwn'
    <3>1. CASE Accepts(RequestOf(c))
      <4>1. RequestOf(c) \in Request
        BY <2>p, <1>t, RequestOfType
      <4>2. /\ RequestOf(c).call = c /\ RequestOf(c).kind = pc[c]
            /\ pc[c] # "cancel" => RequestOf(c).session = Sess(c)
        BY DEF RequestOf
      <4>3. Serve(RequestOf(c))
        BY <1>12, <3>1 DEF Backend
      <4>4. pc[c] = "init" => partial[c] = NoPartial /\ pc[c] \notin InFlow
        BY DEF SessionInv, PartialSent, InFlow
      <4>5. pc[c] = "nonce" => active = Sess(c)
        BY <3>1, <4>2 DEF Accepts
      <4>6. \A a \in Calls \ {c} : rpc'[a] = rpc[a]
        BY <2>p, <1>t DEF TypeInv, TypeOK
      <4>. QED
        BY <1>t, <2>p, <3>1, <4>1, <4>2, <4>3, <4>4, <4>5, <4>6, ServeStep
           DEF FieldInv, sharedVars
    <3>2. CASE ~ Accepts(RequestOf(c))
      <4>1. /\ UNCHANGED <<active, accepted>>
            /\ rpc'[c] # "ok"
            /\ \A a \in Calls \ {c} : rpc'[a] = rpc[a]
        BY <1>12, <3>2, <1>t DEF Backend, backendVars, TypeInv, TypeOK
      <4>. QED
        BY <2>p, <4>1, <1>v DEF SessionInv, Exclusive, PartialOfActive, AcceptedIsOwn
    <3>. QED
      BY <3>1, <3>2
  <2>. QED
    BY <1>t, <2>1, <2>2, <2>3 DEF SessionInv
<1>13. ASSUME NEW c \in Calls, RequestLost(c) PROVE SessionInv'
  <2>p. /\ rpc[c] \in {"sent", "ok", "conflict"}
        /\ rpc' = [rpc EXCEPT ![c] = "error"]
        /\ UNCHANGED <<pc, attempt, partial, signingState, active, accepted>>
        /\ late' \subseteq late \cup {RequestOf(c)}
    BY <1>13 DEF RequestLost, sharedVars, backendVars
  <2>1. PartialSent'
    BY <2>p DEF SessionInv, PartialSent
  <2>2. GivenUp'
    <3>. SUFFICES ASSUME NEW r \in late', r.kind # "cancel"
                  PROVE  /\ r.session = Sess(r.call)
                         /\ pc[r.call] = "done" \/ (pc[r.call] = r.kind /\ rpc'[r.call] = "error")
                         /\ r.kind = "init" => partial[r.call] = NoPartial
      BY <2>p, <1>t, <1>v DEF GivenUp, TypeInv, TypeOK, Request
    <3>1. CASE r = RequestOf(c)
      BY <2>p, <3>1, <1>t DEF RequestOf, SessionInv, PartialSent, TypeInv, TypeOK
    <3>2. CASE r \in late
      BY <2>p, <3>2, <1>t DEF SessionInv, GivenUp, TypeInv, TypeOK, Request
    <3>. QED
      BY <2>p, <3>1, <3>2
  <2>3. Exclusive'
    BY <2>p, <1>t, <1>v DEF SessionInv, Exclusive, TypeInv, TypeOK
  <2>4. PartialOfActive' /\ AcceptedIsOwn'
    BY <2>p, <1>v DEF SessionInv, PartialOfActive, AcceptedIsOwn
  <2>. QED
    BY <1>t, <2>1, <2>2, <2>3, <2>4 DEF SessionInv
<1>14. ASSUME NEW r \in late, LateRequest(r) PROVE SessionInv'
  <2>p. /\ UNCHANGED <<pc, attempt, rpc, partial, signingState, mtaState>>
        /\ late' = late \ {r}
        /\ r \in Request
    BY <1>14, <1>t DEF LateRequest, clientVars, sharedVars, TypeInv, TypeOK
  <2>1. PartialSent'
    BY <2>p DEF SessionInv, PartialSent
  <2>2. GivenUp'
    BY <2>p, <1>t, <1>v DEF SessionInv, GivenUp, TypeInv, TypeOK, Request
  <2>3. Exclusive' /\ PartialOfActive' /\ AcceptedIsOwn'
    <3>1. CASE Accepts(r)
      <4>1. /\ r.kind # "cancel" => r.session = Sess(r.call)
            /\ r.kind = "init" => partial[r.call] = NoPartial /\ pc[r.call] \notin InFlow
        BY DEF SessionInv, GivenUp, InFlow
      <4>2. r.kind = "nonce" => active = Sess(r.call)
        BY <3>1, <4>1 DEF Accepts
      <4>3. Serve(r)
        BY <1>14, <3>1 DEF LateRequest
      <4>. QED
        BY <1>t, <2>p, <3>1, <4>1, <4>2, <4>3, ServeStep DEF FieldInv, sharedVars
    <3>2. CASE ~ Accepts(r)
      <4>1. UNCHANGED <<active, accepted>>
        BY <1>14, <3>2 DEF LateRequest, backendVars
      <4>. QED
        BY <2>p, <4>1, <1>v DEF SessionInv, Exclusive, PartialOfActive, AcceptedIsOwn
    <3>. QED
      BY <3>1, <3>2
  <2>. QED
    BY <1>t, <2>1, <2>2, <2>3 DEF SessionInv
<1>15. CASE OtherDevice
  <2>p. /\ UNCHANGED <<pc, attempt, rpc, partial, signingState, accepted, late>>
        /\ active' = OldSession
    BY <1>15 DEF OtherDevice, clientVars, sharedVars
  <2>1. PartialSent'
    BY <2>p DEF SessionInv, PartialSent
  <2>2. GivenUp'
    BY <2>p, <1>t, <1>v DEF SessionInv, GivenUp, TypeInv, TypeOK, Request
  <2>3. Exclusive' /\ PartialOfActive' /\ AcceptedIsOwn'
    BY <2>p, <1>n, <1>v DEF SessionInv, Exclusive, PartialOfActive, AcceptedIsOwn
  <2>. QED
    BY <1>t, <2>1, <2>2, <2>3 DEF SessionInv
<1>16. CASE UNCHANGED vars
  <2>p. UNCHANGED <<pc, attempt, rpc, signingState, partial, active, accepted, late>>
    BY <1>16 DEF vars, clientVars, sharedVars, backendVars
  <2>1. PartialSent'
    BY <2>p DEF SessionInv, PartialSent
  <2>2. GivenUp'
    BY <2>p, <1>t, <1>v DEF SessionInv, GivenUp, TypeInv, TypeOK, Request
  <2>3. Exclusive'
    BY <2>p, <1>v DEF SessionInv, Exclusive
  <2>4. PartialOfActive' /\ AcceptedIsOwn'
    BY <2>p, <1>v DEF SessionInv, PartialOfActive, AcceptedIsOwn
  <2>. QED
    BY <1>t, <2>1, <2>2, <2>3, <2>4 DEF SessionInv
<1>. QED
  BY <1>1, <1>2, <1>3, <1>4, <1>5, <1>6, <1>7, <1>8, <1>9, <1>10, <1>11, <1>12, <1>13,
     <1>14, <1>15, <1>16 DEF Next, Client

\* A backend that runs one session at a time completes each session with the
\* client's own partial for it, so every signature is over its caller's message.
THEOREM AcceptedPartialsAreOwn == Spec => []AcceptedIsOwn
<1>1. SessionInv => AcceptedIsOwn
  BY DEF SessionInv
<1>. QED
  BY <1>1, SessionInit, SessionStep, PTL DEF Spec

-----------------------------------------------------------------------------
(* The refinement of ThresholdSigning.                                      *)

(***************************************************************************)
(* What relates the signatures that exist to the calls:                    *)
(*   - a session is completed in the last run of its call, and not before  *)
(*     that run's last request is served;                                  *)
(*   - an answered last request, and a call that reports a signature, have *)
(*     completed theirs;                                                   *)
(*   - a last request that was given up has not.                           *)
(***************************************************************************)
LastRunOnly ==
    \A c \in Calls : \A k \in {1, 2} : k # attempt[c] => accepted[<<c, k>>] = NoPartial

NotYetServed ==
    \A c \in Calls :
        pc[c] \notin {"partial", "done"} \/ (pc[c] = "partial" /\ rpc[c] = "sent") =>
            accepted[Sess(c)] = NoPartial

ServedOnce ==
    \A c \in Calls :
        (pc[c] = "partial" /\ rpc[c] = "ok") \/ result[c] = "signed" =>
            accepted[Sess(c)] # NoPartial

PartialsMade == \A c \in Calls : pc[c] = "partial" => partial[c] # NoPartial

EndedCalls == \A c \in Calls : result[c] = "none" <=> pc[c] # "done"

LatePartials ==
    \A r \in late :
        r.kind = "partial" => accepted[r.session] = NoPartial /\ partial[r.call] # NoPartial

IssueInv ==
    /\ LastRunOnly /\ NotYetServed /\ ServedOnce
    /\ PartialsMade /\ EndedCalls /\ LatePartials

LEMMA IssueInit == Init => IssueInv
<1> SUFFICES ASSUME Init PROVE IssueInv
  OBVIOUS
<1>1. \A c \in Calls : \A k \in {1, 2} : <<c, k>> \in Sessions
  BY DEF Sessions
<1>2. \A s \in Sessions : accepted[s] = NoPartial
  BY DEF Init
<1>3. \A c \in Calls : pc[c] = "idle" /\ result[c] = "none" /\ Sess(c) \in Sessions
  BY <1>1 DEF Init, Sess
<1>. QED
  BY <1>1, <1>2, <1>3
     DEF Init, IssueInv, LastRunOnly, NotYetServed, ServedOnce, PartialsMade, EndedCalls,
         LatePartials

\* A call goes on to another request, or to the same one's answer.
LEMMA IssueMoves ==
    ASSUME TypeInv, IssueInv, NEW c \in Calls, NEW k, NEW q,
           pc[c] \notin {"partial", "done"}, k \notin {"partial", "done"},
           pc' = [pc EXCEPT ![c] = k], rpc' = [rpc EXCEPT ![c] = q],
           UNCHANGED <<attempt, result, partial, accepted, late>>
    PROVE  IssueInv'
<1>1. \A a \in Calls : Sess(a)' = Sess(a)
  BY DEF Sess
<1>2. /\ pc'[c] = k /\ \A a \in Calls \ {c} : pc'[a] = pc[a] /\ rpc'[a] = rpc[a]
  BY DEF TypeInv, TypeOK
<1>3. LastRunOnly' /\ LatePartials'
  BY DEF IssueInv, LastRunOnly, LatePartials
<1>4. NotYetServed'
  BY <1>1, <1>2 DEF IssueInv, NotYetServed
<1>5. ServedOnce'
  BY <1>1, <1>2 DEF IssueInv, ServedOnce
<1>6. PartialsMade' /\ EndedCalls'
  BY <1>2 DEF IssueInv, PartialsMade, EndedCalls
<1>. QED
  BY <1>3, <1>4, <1>5, <1>6 DEF IssueInv

\* A call ends: with a signature only when its last request was answered.
LEMMA IssueEnds ==
    ASSUME TypeInv, IssueInv, NEW c \in Calls, NEW o, End(c, o), o # "none",
           o = "signed" => pc[c] = "partial" /\ rpc[c] = "ok",
           UNCHANGED <<attempt, partial, accepted, late>>
    PROVE  IssueInv'
<1>1. \A a \in Calls : Sess(a)' = Sess(a)
  BY DEF Sess
<1>2. /\ pc'[c] = "done" /\ result'[c] = o
      /\ \A a \in Calls \ {c} : pc'[a] = pc[a] /\ rpc'[a] = rpc[a] /\ result'[a] = result[a]
  BY DEF End, TypeInv, TypeOK
<1>3. LastRunOnly' /\ LatePartials'
  BY DEF IssueInv, LastRunOnly, LatePartials
<1>4. NotYetServed'
  BY <1>1, <1>2 DEF IssueInv, NotYetServed
<1>5. ServedOnce'
  BY <1>1, <1>2 DEF IssueInv, ServedOnce
<1>6. PartialsMade' /\ EndedCalls'
  BY <1>2 DEF IssueInv, PartialsMade, EndedCalls
<1>. QED
  BY <1>3, <1>4, <1>5, <1>6 DEF IssueInv

\* The second run begins before the first one's session could be completed.
LEMMA IssueRetries ==
    ASSUME TypeInv, IssueInv, NEW c \in Calls, pc[c] \notin {"partial", "done"},
           attempt[c] = 1, attempt' = [attempt EXCEPT ![c] = 2], Await(c, "init"),
           UNCHANGED <<result, partial, accepted, late>>
    PROVE  IssueInv'
<1>1. /\ pc'[c] = "init" /\ attempt'[c] = 2
      /\ \A a \in Calls \ {c} : pc'[a] = pc[a] /\ rpc'[a] = rpc[a] /\ attempt'[a] = attempt[a]
  BY DEF Await, TypeInv, TypeOK
<1>2. \A a \in Calls \ {c} : Sess(a)' = Sess(a)
  BY <1>1 DEF Sess
<1>3. accepted[<<c, 1>>] = NoPartial /\ accepted[<<c, 2>>] = NoPartial /\ Sess(c)' = <<c, 2>>
  BY <1>1 DEF IssueInv, LastRunOnly, NotYetServed, Sess
<1>4. LastRunOnly'
  BY <1>1, <1>3 DEF IssueInv, LastRunOnly
<1>5. NotYetServed'
  BY <1>1, <1>2, <1>3 DEF IssueInv, NotYetServed
<1>6. ServedOnce'
  <2>1. result[c] = "none"
    BY DEF IssueInv, EndedCalls
  <2>. QED
    BY <1>1, <1>2, <2>1 DEF IssueInv, ServedOnce
<1>7. PartialsMade' /\ EndedCalls' /\ LatePartials'
  BY <1>1 DEF IssueInv, PartialsMade, EndedCalls, LatePartials
<1>. QED
  BY <1>4, <1>5, <1>6, <1>7 DEF IssueInv

\* The backend serves the last request of a session that is not completed.
LEMMA IssueServes ==
    ASSUME TypeInv, IssueInv, NEW r \in Request, Serve(r),
           r.kind = "partial" => /\ r.session = Sess(r.call)
                                 /\ partial[r.call] # NoPartial
                                 /\ pc[r.call] \in {"partial", "done"}
                                 /\ rpc'[r.call] # "sent" \/ pc[r.call] = "done"
                                 /\ \A x \in late' : x.kind = "partial" => x.session # r.session,
           \A a \in Calls : rpc'[a] = rpc[a]
                               \/ (a = r.call /\ pc[a] = r.kind /\ rpc'[a] # "sent"),
           late' \subseteq late,
           UNCHANGED <<pc, attempt, result, partial>>
    PROVE  IssueInv'
<1>1. \A a \in Calls : Sess(a)' = Sess(a)
  BY DEF Sess
<1>2. PartialsMade' /\ EndedCalls'
  BY DEF IssueInv, PartialsMade, EndedCalls
<1>3. CASE r.kind # "partial"
  <2>1. accepted' = accepted
    BY <1>3 DEF Serve
  <2>2. LastRunOnly' /\ LatePartials'
    BY <2>1 DEF IssueInv, LastRunOnly, LatePartials
  <2>3. NotYetServed'
    BY <1>1, <2>1 DEF IssueInv, NotYetServed
  <2>4. ServedOnce'
    BY <1>1, <1>3, <2>1 DEF IssueInv, ServedOnce
  <2>. QED
    BY <1>2, <2>2, <2>3, <2>4 DEF IssueInv
<1>4. CASE r.kind = "partial"
  <2>0. r.call \in Calls
    BY DEF Request
  <2>1. accepted' = [accepted EXCEPT ![Sess(r.call)] = partial[r.call]]
    BY <1>4 DEF Serve
  <2>2. /\ Sess(r.call) \in DOMAIN accepted
        /\ \A a \in Calls : Sess(a) = Sess(r.call) => a = r.call
        /\ \A a \in Calls : \A k \in {1, 2} :
              /\ <<a, k>> \in DOMAIN accepted
              /\ <<a, k>> = Sess(r.call) => a = r.call /\ k = attempt[a]
    BY <2>0 DEF Sess, Sessions, TypeInv, TypeOK
  <2>3. LastRunOnly'
    BY <2>1, <2>2 DEF IssueInv, LastRunOnly
  <2>4. NotYetServed'
    BY <1>1, <1>4, <2>1, <2>2 DEF IssueInv, NotYetServed
  <2>5. ServedOnce'
    BY <1>1, <1>4, <2>0, <2>1, <2>2 DEF IssueInv, ServedOnce
  <2>6. LatePartials'
    BY <1>4, <2>1, <2>2 DEF IssueInv, LatePartials
  <2>. QED
    BY <1>2, <2>3, <2>4, <2>5, <2>6 DEF IssueInv
<1>. QED
  BY <1>3, <1>4

LEMMA IssueStep == SessionInv /\ IssueInv /\ [Next]_vars => IssueInv'
<1> SUFFICES ASSUME SessionInv, IssueInv, [Next]_vars PROVE IssueInv'
  OBVIOUS
<1>t. TypeInv
  BY DEF SessionInv, FieldInv
<1>r. ASSUME NEW c \in Calls PROVE rpc = [rpc EXCEPT ![c] = rpc[c]] /\ pc = [pc EXCEPT ![c] = pc[c]]
  BY <1>t DEF TypeInv, TypeOK
<1>f. ASSUME NEW c \in Calls, Fail(c), UNCHANGED <<backendVars, late>> PROVE IssueInv'
  <2> DEFINE o == IF attempt[c] = 1 THEN "DKLS_SIGNING_FAILED" ELSE "unwrapped"
  <2>1. End(c, o) /\ UNCHANGED <<attempt, partial, accepted, late>>
    BY <1>f DEF Fail, Settle, backendVars
  <2>2. o # "none" /\ o # "signed"
    OBVIOUS
  <2> HIDE DEF o
  <2>. QED
    BY <1>t, <2>1, <2>2, IssueEnds
<1>1. ASSUME NEW c \in Calls, Start(c) PROVE IssueInv'
  <2> DEFINE k == IF c \in TransactionCalls THEN "load" ELSE "lookup"
  <2>1. /\ pc[c] = "idle" /\ pc' = [pc EXCEPT ![c] = k]
        /\ rpc' = [rpc EXCEPT ![c] = rpc[c]]
        /\ UNCHANGED <<attempt, result, partial, accepted, late>>
    BY <1>1, <1>r DEF Start, backendVars
  <2>2. k \notin {"partial", "done"}
    OBVIOUS
  <2> HIDE DEF k
  <2>. QED
    BY <1>t, <2>1, <2>2, IssueMoves
<1>2. ASSUME NEW c \in Calls, LookUpSession(c) PROVE IssueInv'
  <2>1. CASE stored = "full"
    BY <1>t, <1>r, <1>2, <2>1, IssueMoves DEF LookUpSession, backendVars
  <2>2. CASE stored # "full"
    BY <1>t, <1>2, <2>2, IssueEnds DEF LookUpSession, backendVars
  <2>. QED
    BY <2>1, <2>2
<1>3. ASSUME NEW c \in Calls, LoadShare(c) PROVE IssueInv'
  <2>1. UNCHANGED <<attempt, partial, accepted, late>> /\ pc[c] = "load"
    BY <1>3 DEF LoadShare, backendVars
  <2>2. CASE End(c, "NO_KEY_SHARE")
    BY <1>t, <2>1, <2>2, IssueEnds
  <2>3. CASE End(c, "MISSING_DKG_SESSION_ID")
    BY <1>t, <2>1, <2>3, IssueEnds
  <2>4. CASE Await(c, "init") /\ UNCHANGED result
    BY <1>t, <2>1, <2>4, IssueMoves DEF Await
  <2>. QED
    BY <1>3, <2>2, <2>3, <2>4 DEF LoadShare
<1>4. ASSUME NEW c \in Calls, InitReply(c) PROVE IssueInv'
  BY <1>t, <1>4, IssueMoves DEF InitReply, Answered, Await, backendVars
<1>5. ASSUME NEW c \in Calls, ConflictReply(c) PROVE IssueInv'
  <2>1. pc[c] = "init" /\ attempt[c] = 1 /\ UNCHANGED <<result, partial, accepted, late>>
    BY <1>t, <1>5 DEF ConflictReply, RetriesAfter, MayRetry, TypeInv, Outstanding, backendVars
  <2>2. CASE Await(c, "cancel") /\ UNCHANGED attempt
    BY <1>t, <2>1, <2>2, IssueMoves DEF Await
  <2>3. CASE Await(c, "init") /\ attempt' = [attempt EXCEPT ![c] = 2]
    BY <1>t, <2>1, <2>3, IssueRetries
  <2>. QED
    BY <1>5, <2>1, <2>2, <2>3 DEF ConflictReply, ResolveConflict
<1>6. ASSUME NEW c \in Calls, CancelReply(c) PROVE IssueInv'
  <2>1. pc[c] = "cancel" /\ attempt[c] = 1 /\ UNCHANGED <<result, partial, accepted, late>>
    BY <1>t, <1>6 DEF CancelReply, TypeInv, Outstanding, backendVars
  <2>2. Await(c, "init") /\ attempt' = [attempt EXCEPT ![c] = 2]
    BY <1>6, <2>1 DEF CancelReply, RetryAttempt
  <2>. QED
    BY <1>t, <2>1, <2>2, IssueRetries
<1>7. ASSUME NEW c \in Calls, RequestRejected(c) PROVE IssueInv'
  BY <1>f, <1>7 DEF RequestRejected
<1>8. ASSUME NEW c \in Calls, NonceReply(c) PROVE IssueInv'
  <2>1. CASE Fail(c)
    BY <1>f, <1>8, <2>1 DEF NonceReply
  <2>2. CASE Await(c, "mta1") /\ UNCHANGED <<attempt, result, partial>>
    BY <1>t, <1>8, <2>2, IssueMoves DEF NonceReply, Answered, Await, backendVars
  <2>. QED
    BY <1>8, <2>1, <2>2 DEF NonceReply
<1>9. ASSUME NEW c \in Calls, Mta1Reply(c) PROVE IssueInv'
  <2>1. CASE Fail(c)
    BY <1>f, <1>9, <2>1 DEF Mta1Reply
  <2>2. CASE Await(c, "mta2") /\ UNCHANGED <<attempt, result, partial>>
    BY <1>t, <1>9, <2>2, IssueMoves DEF Mta1Reply, Answered, Await, backendVars
  <2>. QED
    BY <1>9, <2>1, <2>2 DEF Mta1Reply
<1>10. ASSUME NEW c \in Calls, Mta2Reply(c) PROVE IssueInv'
  <2>1. CASE Fail(c)
    BY <1>f, <1>10, <2>1 DEF Mta2Reply
  <2>2. CASE ~ Fail(c)
    <3>1. /\ pc[c] = "mta2" /\ Await(c, "partial")
          /\ partial' = [partial EXCEPT ![c] = ClientPartial]
          /\ signingState.nonce # NoSession
          /\ UNCHANGED <<attempt, result, accepted, late>>
      BY <1>10, <2>2 DEF Mta2Reply, Answered, CanCompute, backendVars
    <3>2. ClientPartial # NoPartial
      BY <3>1 DEF ClientPartial, NoPartial
    <3>3. /\ pc'[c] = "partial" /\ rpc'[c] = "sent" /\ partial'[c] # NoPartial
          /\ \A a \in Calls \ {c} : pc'[a] = pc[a] /\ rpc'[a] = rpc[a] /\ partial'[a] = partial[a]
      BY <1>t, <3>1, <3>2 DEF Await, TypeInv, TypeOK
    <3>4. \A a \in Calls : Sess(a)' = Sess(a)
      BY <3>1 DEF Sess
    <3>5. LastRunOnly' /\ EndedCalls' /\ PartialsMade'
      BY <3>1, <3>3 DEF IssueInv, LastRunOnly, EndedCalls, PartialsMade
    <3>6. NotYetServed' /\ ServedOnce'
      BY <3>1, <3>3, <3>4 DEF IssueInv, NotYetServed, ServedOnce
    <3>7. LatePartials'
      <4>1. \A r \in late : r.call \in Calls
        BY <1>t DEF TypeInv, TypeOK, Request
      <4>. QED
        BY <3>1, <3>3, <4>1 DEF IssueInv, LatePartials
    <3>. QED
      BY <3>5, <3>6, <3>7 DEF IssueInv
  <2>. QED
    BY <2>1, <2>2
<1>11. ASSUME NEW c \in Calls, PartialReply(c) PROVE IssueInv'
  BY <1>t, <1>11, IssueEnds DEF PartialReply, Settle, Answered, backendVars
<1>12. ASSUME NEW c \in Calls, Backend(c) PROVE IssueInv'
  <2>p. /\ rpc[c] = "sent" /\ UNCHANGED <<pc, attempt, result, partial, late>>
        /\ \A a \in Calls \ {c} : rpc'[a] = rpc[a]
    BY <1>12, <1>t DEF Backend, TypeInv, TypeOK
  <2>1. CASE Serve(RequestOf(c)) /\ rpc' = [rpc EXCEPT ![c] = "ok"]
    <3>1. PICK r \in Request : r = RequestOf(c)
      BY <1>t, <2>p, RequestOfType
    <3>2. r.call = c /\ r.kind = pc[c] /\ (r.kind = "partial" => r.session = Sess(c))
      BY <3>1 DEF RequestOf
    <3>3. rpc'[c] = "ok"
      BY <1>t, <2>1 DEF TypeInv, TypeOK
    <3>4. ASSUME r.kind = "partial", NEW x \in late, x.kind = "partial"
          PROVE  x.session # r.session
      <4>1. x.session = Sess(x.call) /\ x.call \in Calls
            /\ (pc[x.call] = "done" \/ rpc[x.call] = "error")
        BY <1>t, <3>4 DEF SessionInv, GivenUp, TypeInv, TypeOK, Request
      <4>2. x.call # c
        BY <2>p, <3>2, <3>4, <4>1
      <4>. QED
        BY <1>t, <3>2, <3>4, <4>1, <4>2, SessionsDiffer
    <3>5. r.kind = "partial" => partial[c] # NoPartial
      BY <3>2 DEF IssueInv, PartialsMade
    <3>. QED
      BY <1>t, <2>p, <2>1, <3>1, <3>2, <3>3, <3>4, <3>5, IssueServes
  <2>2. CASE UNCHANGED accepted /\ rpc'[c] \in {"error", "conflict"}
    <3>1. \A a \in Calls : Sess(a)' = Sess(a)
      BY <2>p DEF Sess
    <3>. QED
      BY <2>p, <2>2, <3>1
         DEF IssueInv, LastRunOnly, NotYetServed, ServedOnce, PartialsMade, EndedCalls, LatePartials
  <2>. QED
    BY <1>12, <1>t, <2>1, <2>2 DEF Backend, backendVars, TypeInv, TypeOK
<1>13. ASSUME NEW c \in Calls, RequestLost(c) PROVE IssueInv'
  <2>p. /\ UNCHANGED <<pc, attempt, result, partial, accepted>> /\ rpc'[c] = "error"
        /\ \A a \in Calls \ {c} : rpc'[a] = rpc[a]
        /\ late' = late \/ (rpc[c] = "sent" /\ late' = late \cup {RequestOf(c)})
    BY <1>13, <1>t DEF RequestLost, backendVars, TypeInv, TypeOK
  <2>s. \A a \in Calls : Sess(a)' = Sess(a)
    BY <2>p DEF Sess
  <2>1. LastRunOnly' /\ PartialsMade' /\ EndedCalls'
    BY <2>p DEF IssueInv, LastRunOnly, PartialsMade, EndedCalls
  <2>2. NotYetServed' /\ ServedOnce'
    BY <2>p, <2>s DEF IssueInv, NotYetServed, ServedOnce
  <2>3. LatePartials'
    <3>1. RequestOf(c).kind = "partial" /\ rpc[c] = "sent" =>
             /\ accepted[RequestOf(c).session] = NoPartial
             /\ partial[RequestOf(c).call] # NoPartial
      BY DEF RequestOf, IssueInv, NotYetServed, PartialsMade
    <3>. QED
      BY <2>p, <3>1 DEF IssueInv, LatePartials
  <2>. QED
    BY <2>1, <2>2, <2>3 DEF IssueInv
<1>14. ASSUME NEW r \in late, LateRequest(r) PROVE IssueInv'
  <2>p. /\ UNCHANGED <<pc, attempt, rpc, result, partial>> /\ late' = late \ {r} /\ r \in Request
    BY <1>14, <1>t DEF LateRequest, clientVars, TypeInv, TypeOK
  <2>1. CASE Accepts(r)
    <3>1. Serve(r)
      BY <1>14, <2>1 DEF LateRequest
    <3>2. ASSUME r.kind = "partial"
          PROVE  /\ r.session = Sess(r.call)
                 /\ partial[r.call] # NoPartial
                 /\ pc[r.call] \in {"partial", "done"}
                 /\ rpc[r.call] # "sent" \/ pc[r.call] = "done"
      BY <3>2 DEF SessionInv, GivenUp, IssueInv, LatePartials
    <3>3. ASSUME r.kind = "partial", NEW x \in late', x.kind = "partial"
          PROVE  x.session # r.session
      <4>1. /\ x \in Request /\ r \in Request /\ x # r
            /\ x.session = Sess(x.call) /\ r.session = Sess(r.call)
        BY <1>t, <2>p, <3>3 DEF SessionInv, GivenUp, TypeInv, TypeOK
      <4>2. x.session = r.session => x.call = r.call
        BY <1>t, <4>1, SessionsDiffer DEF Request
      <4>. QED
        BY <3>3, <4>1, <4>2 DEF Request
    <3>. QED
      BY <1>t, <2>p, <3>1, <3>2, <3>3, IssueServes
  <2>2. CASE ~ Accepts(r)
    <3>1. UNCHANGED accepted /\ \A a \in Calls : Sess(a)' = Sess(a)
      BY <1>14, <2>2, <2>p DEF LateRequest, backendVars, Sess
    <3>. QED
      BY <2>p, <3>1
         DEF IssueInv, LastRunOnly, NotYetServed, ServedOnce, PartialsMade, EndedCalls, LatePartials
  <2>. QED
    BY <2>1, <2>2
<1>15. CASE OtherDevice \/ UNCHANGED vars
  <2>1. UNCHANGED <<pc, attempt, rpc, result, partial, accepted, late>>
    BY <1>15 DEF OtherDevice, vars, clientVars, backendVars
  <2>2. \A a \in Calls : Sess(a)' = Sess(a)
    BY <2>1 DEF Sess
  <2>. QED
    BY <2>1, <2>2
       DEF IssueInv, LastRunOnly, NotYetServed, ServedOnce, PartialsMade, EndedCalls, LatePartials
<1>. QED
  BY <1>1, <1>2, <1>3, <1>4, <1>5, <1>6, <1>7, <1>8, <1>9, <1>10, <1>11, <1>12, <1>13,
     <1>14, <1>15 DEF Next, Client

LEMMA ImplementsInit == Init => Abstract!Init
<1> SUFFICES ASSUME Init PROVE Abstract!Init
  OBVIOUS
<1>1. callStatus = [c \in Calls |-> "idle"]
  BY DEF Init, callStatus
<1>2. \A s \in Calls \X {1, 2} : accepted[s] = NoPartial
  BY DEF Init, Sessions
<1>3. issuedSignatures = {}
  BY <1>2 DEF issuedSignatures
<1>. QED
  BY <1>1, <1>3 DEF Abstract!Init

\* Without a served last request no signature is issued.
LEMMA SameSignatures == accepted' = accepted => issuedSignatures' = issuedSignatures
  BY DEF issuedSignatures

\* A call goes on: nothing its caller sees.
LEMMA ImplementsMoves ==
    ASSUME TypeInv, NEW c \in Calls, NEW k,
           pc[c] \notin {"idle", "done"}, k \notin {"idle", "done"},
           pc' = [pc EXCEPT ![c] = k], UNCHANGED <<result, accepted>>
    PROVE  UNCHANGED <<callStatus, issuedSignatures>>
<1>1. pc'[c] = k /\ \A a \in Calls \ {c} : pc'[a] = pc[a]
  BY DEF TypeInv, TypeOK
<1>2. callStatus' = callStatus
  BY <1>1 DEF callStatus
<1>. QED
  BY <1>2, SameSignatures

\* A call ends with an error.
LEMMA ImplementsFailure ==
    ASSUME TypeInv, NEW c \in Calls, NEW o, End(c, o), o # "signed",
           pc[c] \notin {"idle", "done"}, UNCHANGED accepted
    PROVE  Abstract!ReturnFailed(c)
<1>1. /\ pc'[c] = "done" /\ result'[c] = o
      /\ \A a \in Calls \ {c} : pc'[a] = pc[a] /\ result'[a] = result[a]
  BY DEF End, TypeInv, TypeOK
<1>2. callStatus[c] = "open" /\ callStatus' = [callStatus EXCEPT ![c] = "failed"]
  BY <1>1 DEF callStatus
<1>. QED
  BY <1>2, SameSignatures DEF Abstract!ReturnFailed

\* A last request is served: the signature of its call, and of no other message.
LEMMA ImplementsServed ==
    ASSUME SessionInv, SessionInv', IssueInv, NEW r \in Request, Serve(r),
           r.kind = "partial", r.session = Sess(r.call), partial[r.call] # NoPartial,
           accepted[Sess(r.call)] = NoPartial,
           pc[r.call] \in {"partial", "done"},
           UNCHANGED <<pc, result>>
    PROVE  Abstract!Issue(r.call)
<1> DEFINE c == r.call
<1>t. TypeInv /\ c \in Calls
  BY DEF SessionInv, FieldInv, Request
<1>1. Sess(c) \in Calls \X {1, 2} /\ Sess(c)[1] = c /\ Calls \X {1, 2} \subseteq DOMAIN accepted
  BY <1>t DEF Sess, TypeInv, TypeOK, Sessions
<1>2. accepted' = [accepted EXCEPT ![Sess(c)] = partial[c]]
  BY DEF Serve
<1>3. /\ accepted'[Sess(c)] # NoPartial /\ accepted'[Sess(c)].message = Sess(c)
      /\ \A s \in Calls \X {1, 2} : s # Sess(c) => accepted'[s] = accepted[s]
  <2>1. accepted'[Sess(c)] # NoPartial
    BY <1>1, <1>2
  <2>2. Sess(c) \in Sessions
    BY <1>1 DEF Sessions
  <2>. QED
    BY <1>1, <1>2, <2>1, <2>2 DEF SessionInv, AcceptedIsOwn
<1>4. callStatus[c] \in {"open", "failed"}
  BY <1>t DEF IssueInv, ServedOnce, callStatus
<1>5. callStatus' = callStatus
  BY DEF callStatus
<1>6. \A i \in issuedSignatures : i.call # c
  <2> SUFFICES ASSUME NEW s \in Calls \X {1, 2}, accepted[s] # NoPartial
               PROVE  s[1] # c
    BY DEF issuedSignatures
  <2>1. s[1] \in Calls /\ s[2] \in {1, 2} /\ s = <<s[1], s[2]>>
    OBVIOUS
  <2>2. s[2] = attempt[s[1]]
    BY <2>1 DEF IssueInv, LastRunOnly
  <2>. QED
    BY <2>1, <2>2 DEF Sess
<1>7. issuedSignatures' =
        issuedSignatures \cup {[call |-> c, session |-> Sess(c), message |-> c]}
  <2>1. \A s \in Calls \X {1, 2} :
          accepted'[s] # NoPartial <=> accepted[s] # NoPartial \/ s = Sess(c)
    BY <1>3
  <2>2. accepted'[Sess(c)].message[1] = c
    BY <1>1, <1>3
  <2>3. \A i : i \in issuedSignatures' =>
               i \in issuedSignatures \cup {[call |-> c, session |-> Sess(c), message |-> c]}
    BY <1>1, <1>3, <2>1, <2>2 DEF issuedSignatures
  <2>4. issuedSignatures \subseteq issuedSignatures'
    BY <1>3, <2>1 DEF issuedSignatures
  <2>5. [call |-> c, session |-> Sess(c), message |-> c] \in issuedSignatures'
    BY <1>1, <2>1, <2>2 DEF issuedSignatures
  <2>. QED
    BY <2>3, <2>4, <2>5
<1>. QED
  BY <1>1, <1>4, <1>5, <1>6, <1>7 DEF Abstract!Issue

LEMMA ImplementsStep ==
    SessionInv /\ SessionInv' /\ IssueInv /\ IssueInv' /\ [Next]_vars
        => [Abstract!Next]_<<callStatus, issuedSignatures>>
<1> SUFFICES ASSUME SessionInv, SessionInv', IssueInv, IssueInv', [Next]_vars
             PROVE  \/ \E c \in Calls : \/ Abstract!Open(c) \/ Abstract!Issue(c)
                                        \/ Abstract!ReturnSigned(c) \/ Abstract!ReturnFailed(c)
                    \/ UNCHANGED <<callStatus, issuedSignatures>>
  BY DEF Abstract!Next
<1>t. TypeInv
  BY DEF SessionInv, FieldInv
<1>r. \A c \in Calls : pc = [pc EXCEPT ![c] = pc[c]]
  BY <1>t DEF TypeInv, TypeOK
<1>f. ASSUME NEW c \in Calls, Fail(c), UNCHANGED backendVars, pc[c] \in Requests
      PROVE  Abstract!ReturnFailed(c)
  <2> DEFINE o == IF attempt[c] = 1 THEN "DKLS_SIGNING_FAILED" ELSE "unwrapped"
  <2>1. End(c, o) /\ UNCHANGED accepted /\ pc[c] \notin {"idle", "done"}
    BY <1>f DEF Fail, Settle, backendVars, Requests
  <2>2. o # "signed"
    OBVIOUS
  <2> HIDE DEF o
  <2>. QED
    BY <1>t, <2>1, <2>2, ImplementsFailure
<1>1. ASSUME NEW c \in Calls, Start(c) PROVE Abstract!Open(c)
  <2>1. /\ pc[c] = "idle" /\ pc'[c] \in {"load", "lookup"}
        /\ \A a \in Calls \ {c} : pc'[a] = pc[a]
        /\ UNCHANGED <<result, accepted>>
    BY <1>1, <1>t DEF Start, backendVars, TypeInv, TypeOK
  <2>2. callStatus[c] = "idle" /\ callStatus' = [callStatus EXCEPT ![c] = "open"]
    BY <2>1 DEF callStatus
  <2>. QED
    BY <2>1, <2>2, SameSignatures DEF Abstract!Open
<1>2. ASSUME NEW c \in Calls, LookUpSession(c)
      PROVE  Abstract!ReturnFailed(c) \/ UNCHANGED <<callStatus, issuedSignatures>>
  <2>1. CASE stored = "full"
    BY <1>t, <1>2, <2>1, ImplementsMoves DEF LookUpSession, backendVars
  <2>2. CASE stored # "full"
    BY <1>t, <1>2, <2>2, ImplementsFailure DEF LookUpSession, backendVars
  <2>. QED
    BY <2>1, <2>2
<1>3. ASSUME NEW c \in Calls, LoadShare(c)
      PROVE  Abstract!ReturnFailed(c) \/ UNCHANGED <<callStatus, issuedSignatures>>
  <2>1. UNCHANGED accepted /\ pc[c] = "load"
    BY <1>3 DEF LoadShare, backendVars
  <2>2. CASE End(c, "NO_KEY_SHARE")
    BY <1>t, <2>1, <2>2, ImplementsFailure
  <2>3. CASE End(c, "MISSING_DKG_SESSION_ID")
    BY <1>t, <2>1, <2>3, ImplementsFailure
  <2>4. CASE Await(c, "init") /\ UNCHANGED result
    BY <1>t, <2>1, <2>4, ImplementsMoves DEF Await
  <2>. QED
    BY <1>3, <2>2, <2>3, <2>4 DEF LoadShare
<1>4. ASSUME NEW c \in Calls, InitReply(c) PROVE UNCHANGED <<callStatus, issuedSignatures>>
  BY <1>t, <1>4, ImplementsMoves DEF InitReply, Answered, Await, backendVars
<1>5. ASSUME NEW c \in Calls, ConflictReply(c) PROVE UNCHANGED <<callStatus, issuedSignatures>>
  <2>1. pc[c] = "init" /\ UNCHANGED <<result, accepted>>
    BY <1>t, <1>5 DEF ConflictReply, RetriesAfter, TypeInv, Outstanding, backendVars
  <2>2. Await(c, "cancel") \/ Await(c, "init")
    BY <1>5 DEF ConflictReply, ResolveConflict
  <2>. QED
    BY <1>t, <2>1, <2>2, ImplementsMoves DEF Await
<1>6. ASSUME NEW c \in Calls, CancelReply(c) PROVE UNCHANGED <<callStatus, issuedSignatures>>
  BY <1>t, <1>6, ImplementsMoves DEF CancelReply, Await, backendVars
<1>7. ASSUME NEW c \in Calls, RequestRejected(c) PROVE Abstract!ReturnFailed(c)
  BY <1>f, <1>7, <1>t DEF RequestRejected, TypeInv, Outstanding, Requests
<1>8. ASSUME NEW c \in Calls, NonceReply(c)
      PROVE  Abstract!ReturnFailed(c) \/ UNCHANGED <<callStatus, issuedSignatures>>
  <2>1. pc[c] = "nonce" /\ UNCHANGED backendVars
    BY <1>8 DEF NonceReply, Answered
  <2>2. CASE Fail(c)
    BY <1>f, <2>1, <2>2 DEF Requests
  <2>3. CASE Await(c, "mta1") /\ UNCHANGED result
    BY <1>t, <2>1, <2>3, ImplementsMoves DEF Await, backendVars
  <2>. QED
    BY <1>8, <2>2, <2>3 DEF NonceReply
<1>9. ASSUME NEW c \in Calls, Mta1Reply(c)
      PROVE  Abstract!ReturnFailed(c) \/ UNCHANGED <<callStatus, issuedSignatures>>
  <2>1. pc[c] = "mta1" /\ UNCHANGED backendVars
    BY <1>9 DEF Mta1Reply, Answered
  <2>2. CASE Fail(c)
    BY <1>f, <2>1, <2>2 DEF Requests
  <2>3. CASE Await(c, "mta2") /\ UNCHANGED result
    BY <1>t, <2>1, <2>3, ImplementsMoves DEF Await, backendVars
  <2>. QED
    BY <1>9, <2>2, <2>3 DEF Mta1Reply
<1>10. ASSUME NEW c \in Calls, Mta2Reply(c)
       PROVE  Abstract!ReturnFailed(c) \/ UNCHANGED <<callStatus, issuedSignatures>>
  <2>1. pc[c] = "mta2" /\ UNCHANGED backendVars
    BY <1>10 DEF Mta2Reply, Answered
  <2>2. CASE Fail(c)
    BY <1>f, <2>1, <2>2 DEF Requests
  <2>3. CASE Await(c, "partial") /\ UNCHANGED result
    BY <1>t, <2>1, <2>3, ImplementsMoves DEF Await, backendVars
  <2>. QED
    BY <1>10, <2>2, <2>3 DEF Mta2Reply
<1>11. ASSUME NEW c \in Calls, PartialReply(c) PROVE Abstract!ReturnSigned(c)
  <2>1. /\ pc[c] = "partial" /\ rpc[c] = "ok" /\ UNCHANGED accepted
        /\ pc'[c] = "done" /\ result'[c] = "signed"
        /\ \A a \in Calls \ {c} : pc'[a] = pc[a] /\ result'[a] = result[a]
    BY <1>11, <1>t DEF PartialReply, Answered, Settle, End, backendVars, TypeInv, TypeOK
  <2>2. callStatus[c] = "open" /\ callStatus' = [callStatus EXCEPT ![c] = "signed"]
    BY <2>1 DEF callStatus
  <2>3. accepted[Sess(c)] # NoPartial
    BY <2>1 DEF IssueInv, ServedOnce
  <2>4. \E i \in issuedSignatures : i.call = c
    <3>1. Sess(c) \in Calls \X {1, 2} /\ Sess(c)[1] = c
      BY <1>t DEF Sess, TypeInv, TypeOK
    <3>2. [call |-> Sess(c)[1], session |-> Sess(c), message |-> accepted[Sess(c)].message[1]]
             \in issuedSignatures
      BY <2>3, <3>1 DEF issuedSignatures
    <3>. QED
      BY <3>1, <3>2
  <2>. QED
    BY <2>1, <2>2, <2>4, SameSignatures DEF Abstract!ReturnSigned
<1>12. ASSUME NEW c \in Calls, Backend(c)
       PROVE  Abstract!Issue(c) \/ UNCHANGED <<callStatus, issuedSignatures>>
  <2>p. rpc[c] = "sent" /\ UNCHANGED <<pc, result>>
    BY <1>12 DEF Backend
  <2>s. callStatus' = callStatus
    BY <2>p DEF callStatus
  <2>1. CASE Serve(RequestOf(c)) /\ pc[c] = "partial"
    <3>1. PICK r \in Request : r = RequestOf(c)
      BY <1>t, <2>p, RequestOfType
    <3>2. r.call = c /\ r.kind = "partial" /\ r.session = Sess(c)
      BY <2>1, <3>1 DEF RequestOf
    <3>3. partial[c] # NoPartial /\ accepted[Sess(c)] = NoPartial
      BY <2>1, <2>p DEF IssueInv, PartialsMade, NotYetServed
    <3>4. Serve(r)
      BY <2>1, <3>1
    <3>. QED
      BY <2>p, <2>1, <3>1, <3>2, <3>3, <3>4, ImplementsServed
  <2>2. CASE Serve(RequestOf(c)) /\ pc[c] # "partial"
    <3>1. accepted' = accepted
      BY <2>2 DEF Serve, RequestOf
    <3>. QED
      BY <2>s, <3>1, SameSignatures
  <2>3. CASE UNCHANGED backendVars
    BY <2>s, <2>3, SameSignatures DEF backendVars
  <2>. QED
    BY <1>12, <2>1, <2>2, <2>3 DEF Backend
<1>13. ASSUME NEW c \in Calls, RequestLost(c) PROVE UNCHANGED <<callStatus, issuedSignatures>>
  <2>1. UNCHANGED <<pc, result, accepted>>
    BY <1>13 DEF RequestLost, backendVars
  <2>. QED
    BY <2>1, SameSignatures DEF callStatus
<1>14. ASSUME NEW r \in late, LateRequest(r)
       PROVE  (r.call \in Calls /\ Abstract!Issue(r.call))
                 \/ UNCHANGED <<callStatus, issuedSignatures>>
  <2>p. UNCHANGED <<pc, result, partial>> /\ r \in Request /\ r.call \in Calls
    BY <1>14, <1>t DEF LateRequest, clientVars, TypeInv, TypeOK, Request
  <2>s. callStatus' = callStatus
    BY <2>p DEF callStatus
  <2>1. CASE Serve(r) /\ r.kind = "partial"
    <3>1. /\ r.session = Sess(r.call) /\ pc[r.call] \in {"partial", "done"}
          /\ partial[r.call] # NoPartial /\ accepted[r.session] = NoPartial
      BY <2>1 DEF SessionInv, GivenUp, IssueInv, LatePartials
    <3>. QED
      BY <2>p, <2>1, <3>1, ImplementsServed
  <2>2. CASE Serve(r) /\ r.kind # "partial"
    BY <2>s, <2>2, SameSignatures DEF Serve
  <2>3. CASE UNCHANGED backendVars
    BY <2>s, <2>3, SameSignatures DEF backendVars
  <2>. QED
    BY <1>14, <2>1, <2>2, <2>3 DEF LateRequest
<1>15. CASE OtherDevice \/ UNCHANGED vars
  <2>1. UNCHANGED <<pc, result, accepted>>
    BY <1>15 DEF OtherDevice, vars, clientVars, backendVars
  <2>. QED
    BY <2>1, SameSignatures DEF callStatus
<1>. QED
  BY <1>1, <1>2, <1>3, <1>4, <1>5, <1>6, <1>7, <1>8, <1>9, <1>10, <1>11, <1>12, <1>13,
     <1>14, <1>15 DEF Next, Client

\* The client implements what ThresholdSigning promises, for any set of calls: at
\* most one signature is issued for a call, over its own message, and a call reports
\* "signed" only when there is one (DKLSClient.sign).
THEOREM SigningImplementsPromise == Spec => ImplementsThresholdSigning
<1>1. Spec => [](SessionInv /\ IssueInv)
  <2>1. Init => SessionInv /\ IssueInv
    BY SessionInit, IssueInit
  <2>2. (SessionInv /\ IssueInv) /\ [Next]_vars => (SessionInv /\ IssueInv)'
    BY SessionStep, IssueStep
  <2>. QED
    BY <2>1, <2>2, PTL DEF Spec
<1>. QED
  BY <1>1, ImplementsInit, ImplementsStep, PTL
     DEF Spec, ImplementsThresholdSigning, Abstract!Spec, Abstract!vars

-----------------------------------------------------------------------------
(* A failure has a cause.                                                   *)

(***************************************************************************)
(* A call that nothing interferes with runs alone; the backend is where it *)
(* expects it, in its session and one request behind, or in the session    *)
(* that the 409 named; and the fields hold what it put there.              *)
(***************************************************************************)
RunsAlone == \A c \in Calls \ disturbed : Running(c) => RunningCalls = {c}

BackendInStep(c) ==
    /\ pc[c] \in {"idle", "lookup", "load"} => attempt[c] = 1
    /\ pc[c] = "init" /\ rpc[c] = "sent" /\ attempt[c] = 2 => active = NoSession
    /\ rpc[c] = "conflict" => attempt[c] = 1 /\ conflict[c] = active /\ active # NoSession
    /\ pc[c] = "cancel" /\ rpc[c] = "sent" => conflict[c] = active
    /\ pc[c] = "cancel" /\ rpc[c] = "ok" => active = NoSession
    /\ pc[c] \in Requests \ {"cancel"} /\ rpc[c] = "ok" /\ pc[c] # "partial" =>
          active = Sess(c) /\ stage[Sess(c)] = pc[c]
    /\ pc[c] \in InFlow /\ rpc[c] = "sent" =>
          active = Sess(c) /\ stage[Sess(c)] = Before[pc[c]]

FieldsReady(c) ==
    /\ pc[c] = "nonce" => signingState.commit = Sess(c)
    /\ pc[c] = "mta1" => mtaState.id = Sess(c)
    /\ pc[c] \in {"mta1", "mta2"} => signingState.nonce # NoSession
    /\ pc[c] = "mta2" => mtaState.share # NoSession

Undisturbed(c) == rpc[c] # "error" /\ BackendInStep(c) /\ FieldsReady(c)

CauseInv ==
    /\ RunsAlone
    /\ \A c \in Calls \ disturbed : Undisturbed(c)
    /\ FailureHasCause

LEMMA CauseInit == Init => CauseInv
  BY DEF Init, CauseInv, RunsAlone, Undisturbed, BackendInStep, FieldsReady, FailureHasCause,
         Running, RunningCalls, Requests, InFlow

\* Only the call that takes a step has to be looked at: no other is both undisturbed
\* and running.
LEMMA CauseOfOne ==
    ASSUME TypeInv, TypeInv', CauseInv, NEW a \in Calls, Running(a),
           disturbed \subseteq disturbed',
           \A c \in Calls \ {a} : pc'[c] = pc[c] /\ result'[c] = result[c]
                                    /\ attempt'[c] = attempt[c]
                                    /\ (rpc[c] = "none" => rpc'[c] = "none"),
           a \notin disturbed' => Undisturbed(a)',
           result'[a] = result[a] \/ result'[a] \in {"signed", "NO_KEY_SHARE",
               "NO_DKG_SESSION_ID", "MISSING_DKG_SESSION_ID"} \/ a \in disturbed'
    PROVE  CauseInv'
<1>1. ASSUME NEW c \in Calls \ disturbed', c # a
      PROVE  /\ ~ Running(c) /\ ~ Running(c)' /\ Undisturbed(c)'
  <2>1. ~ Running(c)
    BY <1>1 DEF CauseInv, RunsAlone, RunningCalls
  <2>2. ~ Running(c)' /\ rpc'[c] = "none" /\ pc'[c] \in {"idle", "done"}
    BY <1>1, <2>1 DEF Running, TypeInv, Outstanding, Requests
  <2>3. Undisturbed(c)
    BY <1>1 DEF CauseInv
  <2>. QED
    BY <1>1, <2>1, <2>2, <2>3 DEF Undisturbed, BackendInStep, FieldsReady, Requests, InFlow
<1>2. \A c \in Calls \ disturbed' : Undisturbed(c)'
  BY <1>1
<1>3. RunsAlone'
  <2> SUFFICES ASSUME NEW c \in Calls \ disturbed', Running(c)'
               PROVE  RunningCalls' = {c}
    BY DEF RunsAlone
  <2>1. c = a
    BY <1>1
  <2>2. \A b \in Calls \ {a} : ~ Running(b)
    BY <2>1 DEF CauseInv, RunsAlone, RunningCalls
  <2>. QED
    BY <2>1, <2>2 DEF Running, RunningCalls
<1>4. FailureHasCause'
  BY DEF CauseInv, FailureHasCause
<1>. QED
  BY <1>2, <1>3, <1>4 DEF CauseInv

LEMMA CauseStep == TypeInv /\ TypeInv' /\ CauseInv /\ [Next]_vars => CauseInv'
<1> SUFFICES ASSUME TypeInv, TypeInv', CauseInv, [Next]_vars PROVE CauseInv'
  OBVIOUS
<1>d. /\ \A c \in Calls : Sess(c) # NoSession /\ Sess(c) \in Sessions
      /\ \A c \in Calls : UNCHANGED attempt => Sess(c)' = Sess(c)
  BY SessionsDiffer DEF Sess, TypeInv, TypeOK, Sessions
\* A call that ends is no longer looked at; an undisturbed one ends without error.
<1>e. ASSUME NEW c \in Calls, NEW o, End(c, o), Running(c), UNCHANGED <<disturbed, attempt>>,
             o \in {"signed", "NO_KEY_SHARE", "NO_DKG_SESSION_ID", "MISSING_DKG_SESSION_ID"}
                \/ c \in disturbed
      PROVE  CauseInv'
  <2>1. /\ pc'[c] = "done" /\ rpc'[c] = "none" /\ result'[c] = o
        /\ \A a \in Calls \ {c} : pc'[a] = pc[a] /\ rpc'[a] = rpc[a] /\ result'[a] = result[a]
    BY <1>e DEF End, TypeInv, TypeOK
  <2>2. Undisturbed(c)'
    BY <2>1 DEF Undisturbed, BackendInStep, FieldsReady, Requests, InFlow
  <2>. QED
    BY <1>e, <2>1, <2>2, CauseOfOne
<1>f. ASSUME NEW c \in Calls, Fail(c), Running(c), UNCHANGED disturbed, c \in disturbed
      PROVE  CauseInv'
  BY <1>e, <1>f DEF Fail, Settle
\* A call goes on.
<1>m. ASSUME NEW c \in Calls, NEW k, NEW q, Running(c), UNCHANGED <<result, disturbed>>,
             \A a \in Calls \ {c} : attempt'[a] = attempt[a],
             pc' = [pc EXCEPT ![c] = k], rpc' = [rpc EXCEPT ![c] = q],
             c \notin disturbed => Undisturbed(c)'
      PROVE  CauseInv'
  <2>1. \A a \in Calls \ {c} : pc'[a] = pc[a] /\ rpc'[a] = rpc[a]
    BY <1>m DEF TypeInv, TypeOK
  <2>. QED
    BY <1>m, <2>1, CauseOfOne
<1>p. ASSUME NEW c \in Calls, NEW k, NEW q,
             pc' = [pc EXCEPT ![c] = k], rpc' = [rpc EXCEPT ![c] = q]
      PROVE  pc'[c] = k /\ rpc'[c] = q
  BY <1>p DEF TypeInv, TypeOK
<1>1. ASSUME NEW c \in Calls, Start(c) PROVE CauseInv'
  <2>1. /\ pc[c] = "idle" /\ pc'[c] \in {"load", "lookup"}
        /\ UNCHANGED <<attempt, rpc, result>>
        /\ \A a \in Calls \ {c} : pc'[a] = pc[a]
        /\ disturbed' = disturbed \cup
              (IF RunningCalls = {} THEN {} ELSE RunningCalls \cup {c})
    BY <1>1 DEF Start, TypeInv, TypeOK
  <2>2. ASSUME NEW a \in Calls \ disturbed'
        PROVE  Undisturbed(a)' /\ (Running(a)' => a = c /\ RunningCalls = {})
    <3>0. Undisturbed(a)
      BY <2>1, <2>2 DEF CauseInv
    <3>1. CASE a = c
      <4>1. rpc[c] = "none"
        BY <2>1 DEF TypeInv, Outstanding, Requests
      <4>. QED
        BY <2>1, <2>2, <3>0, <3>1, <4>1 DEF Running, RunningCalls, Undisturbed, BackendInStep, FieldsReady, Requests, InFlow
    <3>2. CASE a # c
      <4>1. ~ Running(a) /\ ~ Running(a)'
        BY <2>1, <2>2, <3>2 DEF Running, RunningCalls
      <4>2. rpc'[a] = "none" /\ pc'[a] \in {"idle", "done"}
        BY <2>1, <4>1 DEF Running, TypeInv, Outstanding, Requests
      <4>. QED
        BY <2>1, <3>0, <3>2, <4>1, <4>2 DEF Undisturbed, BackendInStep, FieldsReady, Requests, InFlow
    <3>. QED
      BY <3>1, <3>2
  <2>3. RunsAlone'
    <3> SUFFICES ASSUME NEW a \in Calls \ disturbed', Running(a)'
                 PROVE  RunningCalls' = {a}
      BY DEF RunsAlone
    <3>1. a = c /\ \A b \in Calls : ~ Running(b)
      BY <2>2 DEF RunningCalls
    <3>. QED
      BY <2>1, <3>1 DEF RunningCalls, Running
  <2>4. FailureHasCause'
    BY <2>1 DEF CauseInv, FailureHasCause
  <2>. QED
    BY <2>2, <2>3, <2>4 DEF CauseInv
<1>2. ASSUME NEW c \in Calls, LookUpSession(c) PROVE CauseInv'
  <2>1. Running(c) /\ UNCHANGED <<disturbed, attempt>> /\ pc[c] = "lookup" /\ rpc[c] = "none"
    BY <1>2 DEF LookUpSession, Running, TypeInv, Outstanding, Requests
  <2>2. CASE End(c, "NO_DKG_SESSION_ID")
    BY <1>e, <2>1, <2>2
  <2>3. CASE pc' = [pc EXCEPT ![c] = "load"] /\ UNCHANGED <<rpc, result>>
    <3>1. rpc' = [rpc EXCEPT ![c] = "none"]
      BY <2>1, <2>3 DEF TypeInv, TypeOK
    <3>2. pc'[c] = "load" /\ rpc'[c] = "none"
      BY <1>p, <2>3, <3>1
    <3>3. c \notin disturbed => Undisturbed(c)'
      BY <2>1, <3>2 DEF CauseInv, Undisturbed, BackendInStep, FieldsReady, Requests, InFlow
    <3>. QED
      BY <1>m, <2>1, <2>3, <3>1, <3>3
  <2>. QED
    BY <1>2, <2>2, <2>3 DEF LookUpSession
<1>3. ASSUME NEW c \in Calls, LoadShare(c) PROVE CauseInv'
  <2>1. Running(c) /\ UNCHANGED <<disturbed, attempt>> /\ pc[c] = "load"
    BY <1>3 DEF LoadShare, Running
  <2>2. CASE End(c, "NO_KEY_SHARE") \/ End(c, "MISSING_DKG_SESSION_ID")
    BY <1>e, <2>1, <2>2
  <2>3. CASE Await(c, "init") /\ UNCHANGED result
    <3>1. pc'[c] = "init" /\ rpc'[c] = "sent"
      BY <1>p, <2>3 DEF Await
    <3>2. c \notin disturbed => attempt[c] = 1
      BY <2>1 DEF CauseInv, Undisturbed, BackendInStep
    <3>3. c \notin disturbed => Undisturbed(c)'
      BY <2>1, <3>1, <3>2 DEF Undisturbed, BackendInStep, FieldsReady, Requests, InFlow
    <3>. QED
      BY <1>m, <2>1, <2>3, <3>3 DEF Await
  <2>. QED
    BY <1>3, <2>2, <2>3 DEF LoadShare
<1>4. ASSUME NEW c \in Calls, InitReply(c) PROVE CauseInv'
  <2>1. /\ pc[c] = "init" /\ rpc[c] = "ok" /\ Running(c)
        /\ signingState'.commit = Sess(c)
        /\ UNCHANGED <<attempt, result, active, stage, disturbed>>
    BY <1>4 DEF InitReply, Answered, Running, backendVars
  <2>2. pc'[c] = "nonce" /\ rpc'[c] = "sent"
    BY <1>4, <1>p DEF InitReply, Await
  <2>3. c \notin disturbed => Undisturbed(c)'
    BY <1>d, <2>1, <2>2
       DEF CauseInv, Undisturbed, BackendInStep, FieldsReady, Requests, InFlow, Before
  <2>. QED
    BY <1>4, <1>m, <2>1, <2>3 DEF InitReply, Await
<1>5. ASSUME NEW c \in Calls, ConflictReply(c) PROVE CauseInv'
  <2>1. /\ pc[c] = "init" /\ rpc[c] = "conflict" /\ attempt[c] = 1 /\ Running(c)
        /\ UNCHANGED <<result, conflict, active, disturbed>>
    BY <1>5 DEF ConflictReply, RetriesAfter, MayRetry, Running, TypeInv, Outstanding, backendVars
  <2>2. CASE Await(c, "cancel") /\ UNCHANGED attempt
    <3>1. pc'[c] = "cancel" /\ rpc'[c] = "sent"
      BY <1>p, <2>2 DEF Await
    <3>2. c \notin disturbed => Undisturbed(c)'
      BY <2>1, <3>1 DEF CauseInv, Undisturbed, BackendInStep, FieldsReady, Requests, InFlow
    <3>. QED
      BY <1>m, <2>1, <2>2, <3>2 DEF Await
  <2>3. CASE conflict[c] = NoSession /\ Await(c, "init") /\ attempt' = [attempt EXCEPT ![c] = 2]
    <3>1. c \in disturbed
      BY <2>1, <2>3 DEF CauseInv, Undisturbed, BackendInStep
    <3>2. \A a \in Calls \ {c} : attempt'[a] = attempt[a]
      BY <2>3 DEF TypeInv, TypeOK
    <3>. QED
      BY <1>m, <2>1, <2>3, <3>1, <3>2 DEF Await
  <2>. QED
    BY <1>5, <2>1, <2>2, <2>3 DEF ConflictReply, ResolveConflict
<1>6. ASSUME NEW c \in Calls, CancelReply(c) PROVE CauseInv'
  <2>1. /\ pc[c] = "cancel" /\ rpc[c] \in {"ok", "error"} /\ Running(c)
        /\ UNCHANGED <<result, active, disturbed>>
    BY <1>6 DEF CancelReply, Running, backendVars
  <2>2. \A a \in Calls \ {c} : attempt'[a] = attempt[a]
    BY <1>6 DEF CancelReply, TypeInv, TypeOK
  <2>3. pc'[c] = "init" /\ rpc'[c] = "sent"
    BY <1>6, <1>p DEF CancelReply, Await
  <2>4. c \notin disturbed => Undisturbed(c)'
    BY <2>1, <2>3 DEF CauseInv, Undisturbed, BackendInStep, FieldsReady, Requests, InFlow
  <2>. QED
    BY <1>6, <1>m, <2>1, <2>2, <2>4 DEF CancelReply, Await
<1>7. ASSUME NEW c \in Calls, RequestRejected(c) PROVE CauseInv'
  <2>1. Running(c) /\ UNCHANGED disturbed
    BY <1>7 DEF RequestRejected, Running, TypeInv, Outstanding, Requests
  <2>2. c \in disturbed
    BY <1>7 DEF RequestRejected, RetriesAfter, MayRetry, CauseInv, Undisturbed, BackendInStep
  <2>. QED
    BY <1>7, <1>f, <2>1, <2>2 DEF RequestRejected
<1>8. ASSUME NEW c \in Calls, NonceReply(c) PROVE CauseInv'
  <2>1. /\ pc[c] = "nonce" /\ rpc[c] = "ok" /\ Running(c)
        /\ UNCHANGED <<active, stage, disturbed>>
    BY <1>8 DEF NonceReply, Answered, Running, backendVars
  <2>2. CASE RevealMatches(c) /\ ~ Fail(c)
    <3>1. /\ Await(c, "mta1") /\ UNCHANGED <<attempt, result>>
          /\ signingState'.nonce = Sess(c) /\ mtaState'.id = Sess(c)
      BY <1>8, <2>2 DEF NonceReply, SigningState, TypeInv, TypeOK
    <3>2. pc'[c] = "mta1" /\ rpc'[c] = "sent"
      BY <1>p, <3>1 DEF Await
    <3>3. c \notin disturbed => Undisturbed(c)'
      BY <1>d, <2>1, <3>1, <3>2
         DEF CauseInv, Undisturbed, BackendInStep, FieldsReady, Requests, InFlow, Before
    <3>. QED
      BY <1>m, <2>1, <3>1, <3>3 DEF Await
  <2>3. CASE Fail(c) /\ ~ RevealMatches(c)
    <3>1. c \in disturbed
      BY <2>1, <2>3 DEF CauseInv, Undisturbed, FieldsReady, RevealMatches
    <3>. QED
      BY <1>f, <2>1, <2>3, <3>1
  <2>. QED
    BY <1>8, <2>2, <2>3 DEF NonceReply, Fail, Settle, End, Await, TypeInv, TypeOK
<1>9. ASSUME NEW c \in Calls, Mta1Reply(c) PROVE CauseInv'
  <2>1. /\ pc[c] = "mta1" /\ rpc[c] = "ok" /\ Running(c)
        /\ UNCHANGED <<active, stage, disturbed>>
    BY <1>9 DEF Mta1Reply, Answered, Running, backendVars
  <2>2. CASE Await(c, "mta2") /\ mtaState' = [mtaState EXCEPT !.share = Sess(c)]
                /\ UNCHANGED <<signingState, attempt, result>>
    <3>1. mtaState'.share # NoSession
      BY <1>d, <2>2 DEF MtaState, TypeInv, TypeOK
    <3>2. pc'[c] = "mta2" /\ rpc'[c] = "sent"
      BY <1>p, <2>2 DEF Await
    <3>3. c \notin disturbed => Undisturbed(c)'
      BY <1>d, <2>1, <2>2, <3>1, <3>2
         DEF CauseInv, Undisturbed, BackendInStep, FieldsReady, Requests, InFlow, Before
    <3>. QED
      BY <1>m, <2>1, <2>2, <3>3 DEF Await
  <2>3. CASE Fail(c) /\ mtaState.id # Sess(c)
    <3>1. c \in disturbed
      BY <2>1, <2>3 DEF CauseInv, Undisturbed, FieldsReady
    <3>. QED
      BY <1>f, <2>1, <2>3, <3>1
  <2>. QED
    BY <1>9, <2>2, <2>3 DEF Mta1Reply
<1>10. ASSUME NEW c \in Calls, Mta2Reply(c) PROVE CauseInv'
  <2>1. /\ pc[c] = "mta2" /\ rpc[c] = "ok" /\ Running(c)
        /\ UNCHANGED <<active, stage, disturbed>>
    BY <1>10 DEF Mta2Reply, Answered, Running, backendVars
  <2>2. CASE Await(c, "partial") /\ UNCHANGED <<attempt, result>>
    <3>1. pc'[c] = "partial" /\ rpc'[c] = "sent"
      BY <1>p, <2>2 DEF Await
    <3>2. c \notin disturbed => Undisturbed(c)'
      BY <1>d, <2>1, <2>2, <3>1
         DEF CauseInv, Undisturbed, BackendInStep, FieldsReady, Requests, InFlow, Before
    <3>. QED
      BY <1>m, <2>1, <2>2, <3>2 DEF Await
  <2>3. CASE Fail(c) /\ ~ CanCompute
    <3>1. c \in disturbed
      BY <2>1, <2>3 DEF CauseInv, Undisturbed, FieldsReady, CanCompute
    <3>. QED
      BY <1>f, <2>1, <2>3, <3>1
  <2>. QED
    BY <1>10, <2>2, <2>3 DEF Mta2Reply
<1>11. ASSUME NEW c \in Calls, PartialReply(c) PROVE CauseInv'
  BY <1>e, <1>11 DEF PartialReply, Answered, Running, Settle
<1>12. ASSUME NEW c \in Calls, Backend(c) PROVE CauseInv'
  <2> DEFINE r == RequestOf(c)
  <2>1. /\ rpc[c] = "sent" /\ pc[c] \in Requests /\ Running(c)
        /\ UNCHANGED <<pc, attempt, result, signingState, mtaState>>
    BY <1>12 DEF Backend, Running, TypeInv, Outstanding, Requests, sharedVars
  <2>2. /\ r.call = c /\ r.kind = pc[c]
        /\ r.session = IF pc[c] = "cancel" THEN conflict[c] ELSE Sess(c)
    BY DEF RequestOf
  <2>3. pc' = [pc EXCEPT ![c] = pc[c]] /\ pc'[c] = pc[c]
    BY <2>1 DEF TypeInv, TypeOK
  <2>i. ASSUME c \notin disturbed PROVE Undisturbed(c)
    BY <2>i DEF CauseInv
  <2> HIDE DEF r
  <2>4. CASE Serve(r) /\ rpc' = [rpc EXCEPT ![c] = "ok"] /\ UNCHANGED disturbed
    <3>1. rpc'[c] = "ok" /\ Sess(c)' = Sess(c)
      BY <1>d, <1>p, <2>1, <2>3, <2>4
    <3>2. /\ pc[c] = "init" => active' = Sess(c)
          /\ pc[c] = "cancel" => active' = NoSession
          /\ pc[c] \in {"nonce", "mta1", "mta2"} => active' = active
          /\ pc[c] # "cancel" => stage'[Sess(c)] = pc[c]
      BY <1>d, <2>1, <2>2, <2>4 DEF Serve, Requests, TypeInv, TypeOK
    <3>3. c \notin disturbed => Undisturbed(c)'
      BY <1>d, <2>1, <2>i, <3>1, <3>2
         DEF Undisturbed, BackendInStep, FieldsReady, Requests, InFlow
    <3>. QED
      BY <1>m, <2>1, <2>3, <2>4, <3>3
  <2>5. CASE ~ Accepts(r) /\ pc[c] # "init" /\ rpc' = [rpc EXCEPT ![c] = "error"]
                /\ UNCHANGED disturbed
    <3>1. c \in disturbed
      BY <2>1, <2>2, <2>i, <2>5
         DEF Undisturbed, BackendInStep, Accepts, Before, Requests, InFlow
    <3>. QED
      BY <1>m, <2>1, <2>3, <2>5, <3>1
  <2>6. CASE ~ Accepts(r) /\ pc[c] = "init" /\ rpc' = [rpc EXCEPT ![c] = "conflict"]
                /\ conflict' = [conflict EXCEPT ![c] = active] /\ UNCHANGED <<active, stage, disturbed>>
    <3>1. active # NoSession
      BY <2>2, <2>6 DEF Accepts
    <3>2. rpc'[c] = "conflict" /\ conflict'[c] = active
      BY <1>p, <2>3, <2>6 DEF TypeInv, TypeOK
    <3>3. c \notin disturbed => attempt[c] = 1
      BY <2>1, <2>i, <2>6, <3>1 DEF Undisturbed, BackendInStep, TypeInv, TypeOK
    <3>4. c \notin disturbed => Undisturbed(c)'
      BY <2>1, <2>6, <3>1, <3>2, <3>3 DEF Undisturbed, BackendInStep, FieldsReady, Requests, InFlow
    <3>. QED
      BY <1>m, <2>1, <2>3, <2>6, <3>4
  <2>7. CASE rpc' = [rpc EXCEPT ![c] = "conflict"] /\ disturbed' = disturbed \cup {c}
    <3>1. \A a \in Calls \ {c} : rpc'[a] = rpc[a]
      BY <2>7 DEF TypeInv, TypeOK
    <3>. QED
      BY <2>1, <2>7, <3>1, CauseOfOne
  <2>8. \/ Serve(r) /\ rpc' = [rpc EXCEPT ![c] = "ok"] /\ UNCHANGED disturbed
        \/ ~ Accepts(r) /\ pc[c] # "init" /\ rpc' = [rpc EXCEPT ![c] = "error"]
                /\ UNCHANGED disturbed
        \/ ~ Accepts(r) /\ pc[c] = "init" /\ rpc' = [rpc EXCEPT ![c] = "conflict"]
                /\ conflict' = [conflict EXCEPT ![c] = active] /\ UNCHANGED <<active, stage, disturbed>>
        \/ rpc' = [rpc EXCEPT ![c] = "conflict"] /\ disturbed' = disturbed \cup {c}
    BY <1>12 DEF Backend, backendVars, r
  <2>. QED
    BY <2>4, <2>5, <2>6, <2>7, <2>8
<1>13. ASSUME NEW c \in Calls, RequestLost(c) PROVE CauseInv'
  <2>1. /\ Running(c) /\ UNCHANGED <<pc, attempt, result>> /\ disturbed' = disturbed \cup {c}
        /\ \A a \in Calls \ {c} : rpc'[a] = rpc[a]
    BY <1>13 DEF RequestLost, Running, TypeInv, TypeOK, Outstanding, Requests
  <2>. QED
    BY <2>1, CauseOfOne
\* What reaches the backend from elsewhere disturbs every call that runs.
<1>14. ASSUME UNCHANGED clientVars, disturbed' = disturbed \cup RunningCalls PROVE CauseInv'
  <2>1. UNCHANGED <<pc, attempt, rpc, result>>
    BY <1>14 DEF clientVars
  <2>2. ASSUME NEW c \in Calls \ disturbed' PROVE Undisturbed(c)' /\ ~ Running(c)'
    <3>1. ~ Running(c) /\ ~ Running(c)' /\ Undisturbed(c)
      BY <1>14, <2>1, <2>2 DEF RunningCalls, Running, CauseInv
    <3>2. rpc[c] = "none" /\ pc[c] \in {"idle", "done"}
      BY <3>1 DEF Running, TypeInv, Outstanding, Requests
    <3>. QED
      BY <2>1, <3>1, <3>2 DEF Undisturbed, BackendInStep, FieldsReady, Requests, InFlow
  <2>. QED
    BY <1>14, <2>1, <2>2 DEF CauseInv, RunsAlone, FailureHasCause
<1>15. CASE UNCHANGED vars
  BY <1>15, <1>d
     DEF vars, clientVars, sharedVars, backendVars, CauseInv, RunsAlone, RunningCalls, Running,
         Undisturbed, BackendInStep, FieldsReady, FailureHasCause
<1>. QED
  BY <1>1, <1>2, <1>3, <1>4, <1>5, <1>6, <1>7, <1>8, <1>9, <1>10, <1>11, <1>12, <1>13,
     <1>14, <1>15 DEF Next, Client, LateRequest, OtherDevice

\* A call that no other call, lost request, late request or other device touches does
\* not fail, even if a session was left open on the backend (the 409 handling of
\* DKLSClient.sign), for any set of calls.
THEOREM FailuresHaveCauses == Spec => []FailureHasCause
<1>1. CauseInv => FailureHasCause
  BY DEF CauseInv
<1>2. TypeInv /\ CauseInv /\ [Next]_vars => (TypeInv /\ CauseInv)'
  BY TypeStep, CauseStep
<1>. QED
  BY <1>1, <1>2, TypeInit, CauseInit, PTL DEF Spec
=============================================================================
