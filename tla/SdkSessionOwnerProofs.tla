----------------------- MODULE SdkSessionOwnerProofs -----------------------
(***************************************************************************)
(* Whose the session is, for any users, calls and bounds: sessions mix     *)
(* only by a refresh, a logout clears the session, and a reload            *)
(* restores the session of the user who was logged in.                     *)
(***************************************************************************)
EXTENDS SdkSessionProofs

(***************************************************************************)
(* The inductive invariant.  Its parts, besides RefreshInv:                *)
(*   - calls wait for a refresh that is outstanding, the call that runs it *)
(*     among them;                                                         *)
(*   - initialize() is alone in its page, and works with the tokens that   *)
(*     it has set;                                                         *)
(*   - a login and a logout that run together are known to overlap;        *)
(*   - until a refresh crosses them, the tokens in memory, in headers and  *)
(*     in the hands of a logout between its requests are the caller's.     *)
(***************************************************************************)
Waiters ==
    /\ \A c \in Calls : awaits[c] # None =>
          pc[c] \in Requests /\ c \notin Logins /\ presenting[awaits[c]] # None
    /\ refreshPromise # None => presenting[refreshPromise] # None
    /\ \A p \in Calls : presenting[p] # None => awaits[p] = p

Booting ==
    pc[Boot] = "me" =>
        /\ \A c \in Calls \ {Boot} : pc[c] \notin Running
        /\ cred[Boot] # None => cred[Boot] = tokens
        /\ awaits[Boot] # None => presenting[awaits[Boot]] = tokens

Overlaps ==
    \A l \in Logins, c \in Logouts :
        pc[l] \in Running /\ pc[c] \in Running => overlapped

Bound(c) == caller[c] # None /\ (c \in Logouts => ~ overlapped)

OwnTokens == user # None /\ tokens # None => Owner(tokens) = user

OwnRequests ==
    \A c \in Calls \ Logins :
        Bound(c) /\ Sent(c) /\ cred[c] # None => Owner(cred[c]) = caller[c]

OwnRefreshes ==
    \A c \in Calls \ Logins :
        Bound(c) /\ awaits[c] # None /\ presenting[awaits[c]] = tokens
            => Owner(tokens) = caller[c]

OwnLogouts ==
    \A c \in Logouts :
        Bound(c) /\ pc[c] \in Running /\ tokens # None => Owner(tokens) = caller[c]

Own == OwnTokens /\ OwnRequests /\ OwnRefreshes /\ OwnLogouts

OwnerInv == RefreshInv /\ Waiters /\ Booting /\ Overlaps /\ (~ crossed => Own)

-----------------------------------------------------------------------------
(* What the steps have in common.                                          *)

\* A call that is over waits for nothing; the others are as they were.
LEMMA FinishCalls ==
    ASSUME NEW F, Finish(F)
    PROVE  /\ \A c \in Calls : c \in F =>
                 pc'[c] = "done" /\ awaits'[c] = None /\ cred'[c] = None /\ caller'[c] = None
           /\ \A c \in Calls : c \notin F =>
                 /\ pc'[c] = pc[c] /\ awaits'[c] = awaits[c]
                 /\ cred'[c] = cred[c] /\ caller'[c] = caller[c]
BY DEF Finish

LEMMA Kinds ==
    /\ \A l \in Logins : l \notin Logouts \cup Reads \cup KeyCalls \cup {Boot}
    /\ \A c \in Logouts : c \notin Reads \cup KeyCalls \cup {Boot}
    /\ Boot \notin KeyCalls /\ Boot \notin Reads /\ None \notin Calls /\ None \notin Users
    /\ Logins \subseteq Calls /\ Logouts \subseteq Calls /\ Reads \subseteq Calls
    /\ KeyCalls \subseteq Calls /\ Boot \in Calls
BY CallsAssumption DEF Calls

\* Only an outstanding refresh is waited for, and there is one at most.
LEMMA OneRefresh ==
    ASSUME RefreshInv, Waiters, NEW c \in Calls, awaits[c] # None
    PROVE  awaits[c] = refreshPromise /\ refreshPromise # None
<1>1. awaits[c] \in Calls
  BY DEF RefreshInv, TypeInv, TypeOK
<1>. QED
  BY <1>1 DEF RefreshInv, Unspent, Waiters

-----------------------------------------------------------------------------
(* Waiting for a refresh.                                                  *)

\* Steps that leave the refresh and the calls that wait for it alone.
LEMMA WaitersQuiet ==
    ASSUME Waiters, UNCHANGED <<refreshPromise, presenting>>,
           \A c \in Calls : awaits'[c] = awaits[c],
           \A c \in Calls : awaits[c] # None => pc'[c] = pc[c]
    PROVE  Waiters'
BY DEF Waiters

LEMMA WaitersRequest ==
    ASSUME RefreshInv, Waiters, NEW c \in Calls \ Logins, NEW step \in Requests,
           Request(c, step), awaits[c] = None
    PROVE  Waiters'
<1>t. /\ presenting \in [Calls -> Token \cup {None}] /\ awaits \in [Calls -> Calls \cup {None}]
      /\ pc \in [Calls -> {"idle", "done"} \cup Running]
      /\ refreshPromise \in Calls \cup {None}
  BY DEF RefreshInv, TypeInv, TypeOK
<1>1. pc'[c] = step /\ \A d \in Calls \ {c} : pc'[d] = pc[d]
  BY <1>t DEF Request
<1>2. CASE UNCHANGED <<awaits, refreshPromise, presenting>>
  BY <1>1, <1>2 DEF Waiters
<1>3. CASE /\ refreshPromise # None
           /\ awaits' = [awaits EXCEPT ![c] = refreshPromise]
           /\ UNCHANGED <<refreshPromise, presenting>>
  <2>1. awaits'[c] = refreshPromise /\ \A d \in Calls \ {c} : awaits'[d] = awaits[d]
    BY <1>3, <1>t
  <2>2. \A p \in Calls : presenting[p] # None => p # c
    BY Kinds DEF Waiters
  <2>. QED
    BY <1>1, <1>3, <2>1, <2>2 DEF Waiters
<1>4. CASE /\ refreshPromise = None /\ tokens # None
           /\ awaits' = [awaits EXCEPT ![c] = c]
           /\ refreshPromise' = c
           /\ presenting' = [presenting EXCEPT ![c] = tokens]
  <2>1. \A d \in Calls : awaits[d] = None /\ presenting[d] = None
    BY <1>4, <1>t, OneRefresh, Kinds DEF RefreshInv, Unspent
  <2>2. /\ awaits'[c] = c /\ presenting'[c] = tokens
        /\ \A d \in Calls \ {c} : awaits'[d] = None /\ presenting'[d] = None
    BY <1>4, <1>t, <2>1
  <2>. QED
    BY <1>1, <1>4, <2>2, Kinds DEF Waiters
<1>. QED
  BY <1>2, <1>3, <1>4 DEF Request, RefreshAccessToken

\* After an answer of the refresh nobody waits.
LEMMA WaitersSettle ==
    ASSUME RefreshInv, Waiters, NEW p \in Calls, presenting[p] # None, Settle(p),
           \A c \in Calls : awaits'[c] = IF awaits[c] = p THEN None ELSE awaits[c]
    PROVE  /\ \A c \in Calls : awaits'[c] = None /\ presenting'[c] = None
           /\ Waiters'
<1>1. refreshPromise = p /\ \A q \in Calls \ {p} : presenting[q] = None
  BY DEF RefreshInv, Unspent
<1>2. \A c \in Calls : awaits'[c] = None
  BY <1>1, OneRefresh
<1>3. \A c \in Calls : presenting'[c] = None
  BY <1>1 DEF Settle, RefreshInv, TypeInv, TypeOK
<1>. QED
  BY <1>2, <1>3 DEF Settle, Waiters

LEMMA WaitersStep == RefreshInv /\ Waiters /\ [Next]_vars => Waiters'
<1> SUFFICES ASSUME RefreshInv, Waiters, [Next]_vars PROVE Waiters'
  OBVIOUS
<1> USE DEF clientVars, callVars, storageVars, backendVars, historyVars, storeHistory
<1>t. /\ pc \in [Calls -> {"idle", "done"} \cup Running]
      /\ awaits \in [Calls -> Calls \cup {None}]
  BY DEF RefreshInv, TypeInv, TypeOK
<1>i. \A c \in Calls : pc[c] \notin Requests => awaits[c] = None
  BY DEF Waiters
<1>n. \A c \in Calls : pc[c] \in {"idle", "done", "storing", "decrypting", "saving", "loading"}
                         => pc[c] \notin Requests
  BY DEF Requests
<1>r. /\ "login" \in Requests /\ "read" \in Requests /\ "key" \in Requests
      /\ "revoke" \in Requests /\ "logout" \in Requests
  BY DEF Requests
\* Calls that wait for no refresh end.
<1>f. ASSUME NEW c \in Calls, awaits[c] = None, Finish({c}), UNCHANGED <<refreshPromise, presenting>>
      PROVE  Waiters'
  BY <1>f, FinishCalls, WaitersQuiet
\* A call that waits for no refresh goes on without a request.
<1>g. ASSUME NEW c \in Calls, awaits[c] = None, NEW step, pc' = [pc EXCEPT ![c] = step],
             UNCHANGED <<awaits, refreshPromise, presenting>>
      PROVE  Waiters'
  BY <1>g, <1>t, WaitersQuiet
<1>1. ASSUME NEW l \in Logins, NEW u \in Users, StartLogin(l, u) PROVE Waiters'
  BY <1>1, <1>g, <1>i, <1>n, Kinds DEF StartLogin
<1>2. ASSUME NEW c \in Logouts, StartLogout(c) PROVE Waiters'
  <2>1. Request(c, IF tokens # None /\ tokens.dapp THEN "revoke" ELSE "logout")
    BY <1>2 DEF StartLogout
  <2>2. (IF tokens # None /\ tokens.dapp THEN "revoke" ELSE "logout") \in Requests
    BY <1>r
  <2>3. c \in Calls \ Logins /\ awaits[c] = None
    BY <1>2, <1>i, <1>n, Kinds DEF StartLogout
  <2>. QED
    BY <2>1, <2>2, <2>3, WaitersRequest
<1>3. ASSUME NEW c \in Reads, StartRead(c) PROVE Waiters'
  BY <1>3, <1>i, <1>n, <1>r, Kinds, WaitersRequest DEF StartRead
<1>4. ASSUME NEW c \in KeyCalls, StartKey(c) PROVE Waiters'
  <2>1. c \in Calls \ Logins /\ awaits[c] = None
    BY <1>4, <1>i, <1>n, Kinds DEF StartKey
  <2>2. CASE Finish({c}) /\ UNCHANGED <<refreshPromise, presenting>>
    BY <2>1, <2>2, <1>f
  <2>3. CASE Request(c, "key")
    BY <2>1, <2>3, <1>r, WaitersRequest
  <2>. QED
    BY <1>4, <2>2, <2>3 DEF StartKey
<1>5. ASSUME NEW p \in Calls, BackendRotates(p) PROVE Waiters'
  BY <1>5, WaitersQuiet DEF BackendRotates
<1>6. ASSUME NEW p \in Calls, RefreshGranted(p) PROVE Waiters'
  <2>1. \A c \in Calls : awaits'[c] = IF awaits[c] = p THEN None ELSE awaits[c]
    BY <1>6 DEF RefreshGranted, Continue, Waiting
  <2>. QED
    BY <1>6, <2>1, WaitersSettle DEF RefreshGranted
<1>7. ASSUME NEW p \in Calls, RefreshFails(p) PROVE Waiters'
  <2>1. Finish(Waiting(p))
    BY <1>7 DEF RefreshFails, End
  <2>2. \A c \in Calls : awaits'[c] = IF awaits[c] = p THEN None ELSE awaits[c]
    BY <2>1 DEF Finish, Waiting
  <2>. QED
    BY <1>7, <2>2, WaitersSettle DEF RefreshFails
<1>8. ASSUME NEW c \in Calls, RequestFails(c) PROVE Waiters'
  BY <1>8, <1>f DEF RequestFails, End, Sent
<1>9. ASSUME NEW l \in Logins, LoginAnswers(l) PROVE Waiters'
  <2>1. awaits[l] = None
    BY Kinds DEF Waiters
  <2>. QED
    BY <1>9, <2>1, <1>g, Kinds DEF LoginAnswers
<1>10. ASSUME NEW l \in Logins, StoreTokens(l) PROVE Waiters'
  BY <1>10, <1>f, <1>i, <1>n, Kinds DEF StoreTokens
<1>10f. ASSUME NEW l \in Logins, StoreTokensFails(l) PROVE Waiters'
  BY <1>10f, <1>f, <1>i, <1>n, Kinds DEF StoreTokensFails
<1>11. ASSUME NEW c \in Logouts, RevokeAnswers(c) PROVE Waiters'
  BY <1>11, <1>r, Kinds, WaitersRequest DEF RevokeAnswers, Accepted, Sent
<1>12. ASSUME NEW c \in Logouts, LogoutAnswers(c) PROVE Waiters'
  BY <1>12, <1>f, Kinds DEF LogoutAnswers, End, Accepted, Sent
<1>13. CASE MeAnswers
  BY <1>13, <1>f, Kinds DEF MeAnswers, Accepted, Sent
<1>14. ASSUME NEW c \in Reads, ReadAnswers(c) PROVE Waiters'
  BY <1>14, <1>f, Kinds DEF ReadAnswers, Accepted, Sent
<1>15. ASSUME NEW c \in KeyCalls, KeyAnswers(c) PROVE Waiters'
  BY <1>15, <1>g, Kinds DEF KeyAnswers, Accepted, Sent
<1>16. ASSUME NEW c \in KeyCalls, Decrypted(c) PROVE Waiters'
  <2>1. c \in Calls /\ awaits[c] = None
    BY <1>16, <1>i, <1>n, Kinds DEF Decrypted
  <2>. QED
    BY <1>16, <2>1, <1>f, <1>g DEF Decrypted
<1>17. ASSUME NEW c \in KeyCalls, Saved(c) PROVE Waiters'
  BY <1>17, <1>g, <1>i, <1>n, Kinds DEF Saved
<1>18. ASSUME NEW c \in KeyCalls, Loaded(c) PROVE Waiters'
  BY <1>18, <1>f, <1>i, <1>n, Kinds DEF Loaded
<1>19. ASSUME NEW t \in {tokens, stored}, Age(t) PROVE Waiters'
  BY <1>19, WaitersQuiet DEF Age
<1>20. CASE Reload
  <2> DEFINE due == stored # None /\ stored \in aged
  <2>1. /\ refreshPromise' = IF due THEN Boot ELSE None
        /\ presenting' = [c \in Calls |-> IF c = Boot /\ due THEN stored ELSE None]
        /\ awaits' = [c \in Calls |-> IF c = Boot /\ due THEN Boot ELSE None]
        /\ due => pc'[Boot] = "me"
    BY <1>20, Kinds DEF Reload
  <2>2. "me" \in Requests
    BY DEF Requests
  <2> HIDE DEF due
  <2>3. due => stored # None
    BY DEF due
  <2>. QED
    BY <2>1, <2>2, <2>3, Kinds DEF Waiters
<1>21. CASE UNCHANGED vars
  BY <1>21, WaitersQuiet DEF vars
<1>. QED
  BY <1>1, <1>2, <1>3, <1>4, <1>5, <1>6, <1>7, <1>8, <1>9, <1>10, <1>10f, <1>11, <1>12, <1>13,
     <1>14, <1>15, <1>16, <1>17, <1>18, <1>19, <1>20, <1>21
  DEF Next, Continues

-----------------------------------------------------------------------------
(* initialize() and the other calls of its page.                           *)

\* While initialize() waits for the user no other call takes a step.
LEMMA BootingStep == RefreshInv /\ Waiters /\ Booting /\ [Next]_vars => Booting'
<1> SUFFICES ASSUME RefreshInv, Waiters, Booting, [Next]_vars, pc'[Boot] = "me"
             PROVE  /\ \A c \in Calls \ {Boot} : pc'[c] \notin Running
                    /\ cred'[Boot] # None => cred'[Boot] = tokens'
                    /\ awaits'[Boot] # None => presenting'[awaits'[Boot]] = tokens'
  BY DEF Booting
<1> DEFINE Goal == /\ \A c \in Calls \ {Boot} : pc'[c] \notin Running
                   /\ cred'[Boot] # None => cred'[Boot] = tokens'
                   /\ awaits'[Boot] # None => presenting'[awaits'[Boot]] = tokens'
<1> USE DEF clientVars, callVars, storageVars, backendVars, historyVars, storeHistory
<1>t. /\ pc \in [Calls -> {"idle", "done"} \cup Running]
      /\ cred \in [Calls -> Token \cup {None}]
      /\ awaits \in [Calls -> Calls \cup {None}]
  BY DEF RefreshInv, TypeInv, TypeOK
<1>n. /\ \A x \in Requests : x \in Running
      /\ {"storing", "decrypting", "saving", "loading"} \subseteq Running
      /\ {"me", "login", "read", "key", "revoke", "logout"} = Requests
  BY DEF Requests, Running
\* A call other than initialize() starts only when that is done, and does not
\* run beside it.
<1>o. ASSUME NEW c \in Calls \ {Boot}, Ready \/ pc[c] \in Running, pc'[Boot] = pc[Boot]
      PROVE  Goal
  BY <1>o DEF Ready, Booting
<1>p. ASSUME NEW c \in Calls \ {Boot}, NEW step, pc' = [pc EXCEPT ![c] = step]
      PROVE  pc'[Boot] = pc[Boot]
  BY <1>p, <1>t, Kinds
<1>f. ASSUME NEW c \in Calls \ {Boot}, Finish({c}) PROVE pc'[Boot] = pc[Boot]
  BY <1>f, Kinds, FinishCalls
<1>q. ASSUME UNCHANGED <<pc, cred, awaits, presenting, tokens>> PROVE Goal
  BY <1>q DEF Booting
\* The refresh that is outstanding is the one initialize() runs.
<1>w. ASSUME NEW p \in Calls, presenting[p] # None, pc[Boot] = "me"
      PROVE  p = Boot /\ awaits[Boot] = Boot
  <2>1. awaits[p] = p /\ pc[p] \in Running
    BY <1>w, <1>n, Kinds DEF Waiters
  <2>. QED
    BY <1>w, <2>1 DEF Booting
<1>1. ASSUME NEW l \in Logins, NEW u \in Users, StartLogin(l, u) PROVE Goal
  BY <1>1, <1>o, <1>p, Kinds DEF StartLogin
<1>2. ASSUME NEW c \in Logouts, StartLogout(c) PROVE Goal
  BY <1>2, <1>o, <1>p, Kinds DEF StartLogout, Request
<1>3. ASSUME NEW c \in Reads, StartRead(c) PROVE Goal
  BY <1>3, <1>o, <1>p, Kinds DEF StartRead, Request
<1>4. ASSUME NEW c \in KeyCalls, StartKey(c) PROVE Goal
  BY <1>4, <1>o, <1>p, <1>f, Kinds DEF StartKey, Request
<1>5. ASSUME NEW p \in Calls, BackendRotates(p) PROVE Goal
  BY <1>5, <1>q DEF BackendRotates
<1>6. ASSUME NEW p \in Calls, RefreshGranted(p) PROVE Goal
  <2>1. pc[Boot] = "me" /\ pc' = pc
    BY <1>6 DEF RefreshGranted
  <2>2. p = Boot /\ awaits[Boot] = Boot
    BY <1>6, <1>w, <2>1 DEF RefreshGranted
  <2>3. cred'[Boot] = tokens' /\ awaits'[Boot] = None
    BY <1>6, <2>2, Kinds DEF RefreshGranted, Continue, Waiting
  <2>. QED
    BY <2>1, <2>3 DEF Booting
<1>7. ASSUME NEW p \in Calls, RefreshFails(p) PROVE Goal
  <2>1. presenting[p] # None /\ Finish(Waiting(p))
    BY <1>7 DEF RefreshFails, End
  <2>2. pc'[Boot] # "done"
    OBVIOUS
  <2>3. pc[Boot] = "me" /\ Boot \notin Waiting(p)
    BY <2>1, <2>2, FinishCalls, Kinds
  <2>. QED
    BY <2>1, <2>3, <1>w, Kinds DEF Waiting
<1>8. ASSUME NEW c \in Calls, RequestFails(c) PROVE Goal
  <2>1. Finish({c}) /\ pc[c] \in Running
    BY <1>8, <1>n DEF RequestFails, End, Sent
  <2>2. c # Boot
    BY <2>1, FinishCalls, Kinds
  <2>. QED
    BY <2>1, <2>2, <1>o, <1>f
<1>9. ASSUME NEW l \in Logins, LoginAnswers(l) PROVE Goal
  BY <1>9, <1>o, <1>p, <1>n, Kinds DEF LoginAnswers
<1>10. ASSUME NEW l \in Logins, StoreTokens(l) PROVE Goal
  BY <1>10, <1>o, <1>f, <1>n, Kinds DEF StoreTokens
<1>10f. ASSUME NEW l \in Logins, StoreTokensFails(l) PROVE Goal
  BY <1>10f, <1>o, <1>f, <1>n, Kinds DEF StoreTokensFails
<1>11. ASSUME NEW c \in Logouts, RevokeAnswers(c) PROVE Goal
  BY <1>11, <1>o, <1>p, <1>n, Kinds DEF RevokeAnswers, Request
<1>12. ASSUME NEW c \in Logouts, LogoutAnswers(c) PROVE Goal
  BY <1>12, <1>o, <1>f, <1>n, Kinds DEF LogoutAnswers, End
<1>13. CASE MeAnswers
  BY <1>13, FinishCalls, Kinds DEF MeAnswers
<1>14. ASSUME NEW c \in Reads, ReadAnswers(c) PROVE Goal
  BY <1>14, <1>o, <1>f, <1>n, Kinds DEF ReadAnswers
<1>15. ASSUME NEW c \in KeyCalls, KeyAnswers(c) PROVE Goal
  BY <1>15, <1>o, <1>p, <1>n, Kinds DEF KeyAnswers
<1>16. ASSUME NEW c \in KeyCalls, Decrypted(c) PROVE Goal
  BY <1>16, <1>o, <1>p, <1>f, <1>n, Kinds DEF Decrypted
<1>17. ASSUME NEW c \in KeyCalls, Saved(c) PROVE Goal
  BY <1>17, <1>o, <1>p, <1>n, Kinds DEF Saved
<1>18. ASSUME NEW c \in KeyCalls, Loaded(c) PROVE Goal
  BY <1>18, <1>o, <1>f, <1>n, Kinds DEF Loaded
<1>19. ASSUME NEW t \in {tokens, stored}, Age(t) PROVE Goal
  BY <1>19, <1>q DEF Age
<1>20. CASE Reload
  <2> DEFINE due == stored # None /\ stored \in aged
  <2>1. /\ tokens' = stored
        /\ presenting' = [c \in Calls |-> IF c = Boot /\ due THEN stored ELSE None]
        /\ awaits' = [c \in Calls |-> IF c = Boot /\ due THEN Boot ELSE None]
        /\ cred' = [c \in Calls |-> IF c = Boot /\ ~ due THEN stored ELSE None]
    BY <1>20 DEF Reload
  <2>2. \A c \in Calls \ {Boot} : pc'[c] \notin Running
    BY <1>20, <1>t DEF Reload, Running, Requests
  <2> HIDE DEF due
  <2>. QED
    BY <2>1, <2>2, Kinds
<1>21. CASE UNCHANGED vars
  BY <1>21, <1>q DEF vars
<1>. QED
  BY <1>1, <1>2, <1>3, <1>4, <1>5, <1>6, <1>7, <1>8, <1>9, <1>10, <1>10f, <1>11, <1>12, <1>13,
     <1>14, <1>15, <1>16, <1>17, <1>18, <1>19, <1>20, <1>21
  DEF Next, Continues

\* A login and a logout that run together are known to have met.
LEMMA OverlapsStep == RefreshInv /\ Overlaps /\ [Next]_vars => Overlaps'
<1> SUFFICES ASSUME RefreshInv, Overlaps, [Next]_vars PROVE Overlaps'
  OBVIOUS
<1> USE DEF clientVars, callVars, storageVars, backendVars, historyVars, storeHistory
<1>t. pc \in [Calls -> {"idle", "done"} \cup Running]
  BY DEF RefreshInv, TypeInv, TypeOK
<1>n. /\ \A x \in Requests : x \in Running
      /\ {"storing", "decrypting", "saving", "loading"} \subseteq Running
      /\ {"me", "login", "read", "key", "revoke", "logout"} = Requests
      /\ "done" \notin Running /\ "idle" \notin Running
  BY DEF Requests, Running
\* Steps that start neither a login nor a logout.
<1>q. ASSUME overlapped' = overlapped,
             \A c \in Logins \cup Logouts : pc'[c] \in Running => pc[c] \in Running
      PROVE  Overlaps'
  BY <1>q DEF Overlaps
<1>f. ASSUME NEW F, Finish(F), overlapped' = overlapped PROVE Overlaps'
  BY <1>f, <1>q, <1>n, FinishCalls, Kinds
<1>p. ASSUME NEW c \in Calls, NEW step, pc' = [pc EXCEPT ![c] = step],
             pc[c] \in Running \/ c \notin Logins \cup Logouts, overlapped' = overlapped
      PROVE  Overlaps'
  BY <1>p, <1>q, <1>t, Kinds
<1>1. ASSUME NEW l \in Logins, NEW u \in Users, StartLogin(l, u) PROVE Overlaps'
  <2>1. /\ pc' = [pc EXCEPT ![l] = "login"]
        /\ overlapped' = (overlapped \/ InFlight(Logins \cup Logouts) # {})
    BY <1>1 DEF StartLogin
  <2>2. \A c \in Logouts : pc'[c] = pc[c]
    BY <2>1, <1>t, Kinds
  <2>3. \A c \in Logouts : pc[c] \in Running => overlapped'
    BY <2>1 DEF InFlight
  <2>. QED
    BY <2>2, <2>3 DEF Overlaps
<1>2. ASSUME NEW c \in Logouts, StartLogout(c) PROVE Overlaps'
  <2>1. /\ \A l \in Logins : pc'[l] = pc[l]
        /\ overlapped' = (overlapped \/ InFlight(Logins) # {})
    BY <1>2, <1>t, Kinds DEF StartLogout, Request
  <2>2. \A l \in Logins : pc[l] \in Running => overlapped'
    BY <2>1 DEF InFlight
  <2>. QED
    BY <2>1, <2>2 DEF Overlaps
<1>3. ASSUME NEW c \in Reads, StartRead(c) PROVE Overlaps'
  BY <1>3, <1>p, Kinds DEF StartRead, Request
<1>4. ASSUME NEW c \in KeyCalls, StartKey(c) PROVE Overlaps'
  BY <1>4, <1>p, <1>f, Kinds DEF StartKey, Request
<1>5. ASSUME NEW p \in Calls, BackendRotates(p) PROVE Overlaps'
  BY <1>5, <1>q DEF BackendRotates
<1>6. ASSUME NEW p \in Calls, RefreshGranted(p) PROVE Overlaps'
  BY <1>6, <1>q DEF RefreshGranted
<1>7. ASSUME NEW p \in Calls, RefreshFails(p) PROVE Overlaps'
  BY <1>7, <1>f DEF RefreshFails, End
<1>8. ASSUME NEW c \in Calls, RequestFails(c) PROVE Overlaps'
  BY <1>8, <1>f DEF RequestFails, End
<1>9. ASSUME NEW l \in Logins, LoginAnswers(l) PROVE Overlaps'
  BY <1>9, <1>p, <1>n, Kinds DEF LoginAnswers
<1>10. ASSUME NEW l \in Logins, StoreTokens(l) PROVE Overlaps'
  BY <1>10, <1>f DEF StoreTokens
<1>10f. ASSUME NEW l \in Logins, StoreTokensFails(l) PROVE Overlaps'
  BY <1>10f, <1>f DEF StoreTokensFails
<1>11. ASSUME NEW c \in Logouts, RevokeAnswers(c) PROVE Overlaps'
  BY <1>11, <1>p, <1>n, Kinds DEF RevokeAnswers, Request
<1>12. ASSUME NEW c \in Logouts, LogoutAnswers(c) PROVE Overlaps'
  BY <1>12, <1>f DEF LogoutAnswers, End
<1>13. CASE MeAnswers
  BY <1>13, <1>f DEF MeAnswers
<1>14. ASSUME NEW c \in Reads, ReadAnswers(c) PROVE Overlaps'
  BY <1>14, <1>f DEF ReadAnswers
<1>15. ASSUME NEW c \in KeyCalls, KeyAnswers(c) PROVE Overlaps'
  BY <1>15, <1>p, Kinds DEF KeyAnswers
<1>16. ASSUME NEW c \in KeyCalls, Decrypted(c) PROVE Overlaps'
  BY <1>16, <1>p, <1>f, Kinds DEF Decrypted
<1>17. ASSUME NEW c \in KeyCalls, Saved(c) PROVE Overlaps'
  BY <1>17, <1>p, Kinds DEF Saved
<1>18. ASSUME NEW c \in KeyCalls, Loaded(c) PROVE Overlaps'
  BY <1>18, <1>f DEF Loaded
<1>19. ASSUME NEW t \in {tokens, stored}, Age(t) PROVE Overlaps'
  BY <1>19, <1>q DEF Age
<1>20. CASE Reload
  <2>1. \A c \in Logins : pc'[c] \notin Running
    BY <1>20, <1>t, <1>n, Kinds DEF Reload
  <2>. QED
    BY <2>1 DEF Overlaps
<1>21. CASE UNCHANGED vars
  BY <1>21, <1>q DEF vars
<1>. QED
  BY <1>1, <1>2, <1>3, <1>4, <1>5, <1>6, <1>7, <1>8, <1>9, <1>10, <1>10f, <1>11, <1>12, <1>13,
     <1>14, <1>15, <1>16, <1>17, <1>18, <1>19, <1>20, <1>21
  DEF Next, Continues

-----------------------------------------------------------------------------
(* Whose tokens they are.                                                  *)

\* The user of an issued token does not change.
LEMMA OwnersStay ==
    ASSUME RefreshInv, [Next]_vars, NEW t \in Token, Issued(t)
    PROVE  Owner(t)' = Owner(t)
<1> USE DEF clientVars, callVars, storageVars, backendVars, historyVars, storeHistory
<1>1. t.login \in Logins /\ pc[t.login] # "idle"
  BY TokenParts DEF Issued
<1>2. UNCHANGED who \/ \E l \in Logins, u \in Users : StartLogin(l, u)
  BY DEF Next, Continues, vars, StartLogout, StartRead, StartKey, BackendRotates,
         RefreshGranted, RefreshFails, RequestFails, LoginAnswers, StoreTokens,
         StoreTokensFails,
         RevokeAnswers, LogoutAnswers, MeAnswers, ReadAnswers, KeyAnswers, Decrypted,
         Saved, Loaded, Age, Reload
<1>3. ASSUME NEW l \in Logins, NEW u \in Users, StartLogin(l, u)
      PROVE  who'[t.login] = who[t.login]
  BY <1>1, <1>3 DEF StartLogin, RefreshInv, TypeInv, TypeOK
<1>. QED
  BY <1>2, <1>3 DEF Owner

\* Steps that bring no tokens and give no call a header or a refresh.
LEMMA OwnQuiet ==
    ASSUME RefreshInv, Waiters', Own, [Next]_vars,
           tokens' \in {tokens, None}, user' \in {user, None},
           overlapped => overlapped',
           \A c \in Calls : presenting'[c] \in {presenting[c], None},
           \A c \in Calls \ Logins : caller'[c] # None =>
               /\ caller'[c] = caller[c] /\ awaits'[c] = awaits[c]
               /\ cred'[c] \in {cred[c], None}
               /\ cred'[c] = None \/ pc'[c] = pc[c] \/ pc'[c] \notin Requests
               /\ pc'[c] \in Running => pc[c] \in Running
    PROVE  Own'
<1>t. /\ tokens \in Token \cup {None} /\ cred \in [Calls -> Token \cup {None}]
      /\ awaits \in [Calls -> Calls \cup {None}]
      /\ Issued(tokens) /\ \A c \in Calls : Issued(cred[c])
  BY DEF RefreshInv, TypeInv, TypeOK, AllIssued
<1>b. \A c \in Calls : Bound(c)' => caller'[c] # None /\ (caller'[c] = caller[c] => Bound(c))
  BY DEF Bound
<1>1. tokens' # None => tokens' = tokens /\ Owner(tokens)' = Owner(tokens)
  BY <1>t, OwnersStay
<1>2. OwnTokens'
  BY <1>1 DEF Own, OwnTokens
<1>3. OwnRequests'
  <2> SUFFICES ASSUME NEW c \in Calls \ Logins, Bound(c)', Sent(c)', cred'[c] # None
               PROVE  Owner(cred[c])' = caller'[c]
    BY DEF OwnRequests
  <2>1. /\ caller'[c] = caller[c] /\ Bound(c) /\ awaits'[c] = awaits[c]
        /\ cred'[c] = cred[c] /\ pc'[c] = pc[c]
    BY <1>b DEF Sent
  <2>2. Sent(c)
    BY <2>1 DEF Sent
  <2>3. Owner(cred[c]) = caller[c]
    BY <2>1, <2>2 DEF Own, OwnRequests
  <2>. QED
    BY <2>1, <2>3, <1>t, OwnersStay
<1>4. OwnRefreshes'
  <2> SUFFICES ASSUME NEW c \in Calls \ Logins, Bound(c)', awaits'[c] # None,
                      presenting'[awaits'[c]] = tokens'
               PROVE  Owner(tokens)' = caller'[c]
    BY DEF OwnRefreshes
  <2>1. caller'[c] = caller[c] /\ Bound(c) /\ awaits'[c] = awaits[c] /\ awaits[c] \in Calls
    BY <1>b, <1>t
  <2>2. tokens' # None
    BY DEF Waiters
  <2>3. tokens' = tokens /\ presenting[awaits[c]] = tokens
    BY <1>1, <2>1, <2>2
  <2>4. Owner(tokens) = caller[c]
    BY <2>1, <2>3 DEF Own, OwnRefreshes
  <2>. QED
    BY <1>1, <2>1, <2>2, <2>4
<1>5. OwnLogouts'
  BY <1>1, <1>b, Kinds DEF Own, OwnLogouts
<1>. QED
  BY <1>2, <1>3, <1>4, <1>5 DEF Own

\* A request goes out with tokens that are the caller's, or waits for them.
LEMMA OwnRequest ==
    ASSUME RefreshInv, Waiters, Own, [Next]_vars,
           NEW c \in Calls \ Logins, NEW step \in Requests, Request(c, step), awaits[c] = None,
           UNCHANGED <<tokens, user>>, overlapped => overlapped',
           \A d \in Calls \ {c} : caller'[d] = caller[d],
           Bound(c)' /\ tokens # None => Owner(tokens) = caller'[c]
    PROVE  Own'
<1>t. /\ tokens \in Token \cup {None} /\ cred \in [Calls -> Token \cup {None}]
      /\ awaits \in [Calls -> Calls \cup {None}] /\ pc \in [Calls -> {"idle", "done"} \cup Running]
      /\ presenting \in [Calls -> Token \cup {None}]
      /\ refreshPromise \in Calls \cup {None}
      /\ Issued(tokens) /\ \A d \in Calls : Issued(cred[d])
  BY DEF RefreshInv, TypeInv, TypeOK, AllIssued
<1>1. tokens # None => Owner(tokens)' = Owner(tokens)
  BY <1>t, OwnersStay
<1>o. \A d \in Calls \ {c} :
         /\ pc'[d] = pc[d] /\ awaits'[d] = awaits[d] /\ cred'[d] = cred[d]
         /\ awaits[d] # None => presenting'[awaits[d]] = presenting[awaits[d]]
  <2>1. \A d \in Calls \ {c} : pc'[d] = pc[d] /\ awaits'[d] = awaits[d] /\ cred'[d] = cred[d]
    BY <1>t DEF Request, RefreshAccessToken
  <2>2. presenting' = presenting \/ \A d \in Calls : awaits[d] = None
    BY OneRefresh DEF Request, RefreshAccessToken
  <2>. QED
    BY <2>1, <2>2
<1>c. awaits'[c] = None => cred'[c] = tokens
  BY <1>t, Kinds DEF Request, RefreshAccessToken
<1>n. awaits'[c] # None => tokens # None
  BY DEF Request
<1>2. OwnTokens'
  BY <1>1 DEF Own, OwnTokens
<1>3. OwnRequests'
  <2> SUFFICES ASSUME NEW d \in Calls \ Logins, Bound(d)', Sent(d)', cred'[d] # None
               PROVE  Owner(cred[d])' = caller'[d]
    BY DEF OwnRequests
  <2>1. CASE d = c
    BY <1>1, <1>c, <2>1 DEF Sent, Owner
  <2>2. CASE d # c
    <3>1. Bound(d) /\ Sent(d) /\ cred'[d] = cred[d] /\ caller'[d] = caller[d]
      BY <1>o, <2>2 DEF Bound, Sent
    <3>2. Owner(cred[d]) = caller[d]
      BY <3>1 DEF Own, OwnRequests
    <3>. QED
      BY <1>t, <3>1, <3>2, OwnersStay
  <2>. QED
    BY <2>1, <2>2
<1>4. OwnRefreshes'
  <2> SUFFICES ASSUME NEW d \in Calls \ Logins, Bound(d)', awaits'[d] # None,
                      presenting'[awaits'[d]] = tokens'
               PROVE  Owner(tokens)' = caller'[d]
    BY DEF OwnRefreshes
  <2>1. CASE d = c
    BY <1>1, <1>n, <2>1
  <2>2. CASE d # c
    <3>1. /\ Bound(d) /\ caller'[d] = caller[d] /\ awaits[d] # None
          /\ presenting[awaits[d]] = tokens
      BY <1>o, <2>2 DEF Bound
    <3>2. Owner(tokens) = caller[d] /\ tokens # None
      BY <3>1 DEF Own, OwnRefreshes, Waiters
    <3>. QED
      BY <1>1, <3>1, <3>2
  <2>. QED
    BY <2>1, <2>2
<1>5. OwnLogouts'
  <2> SUFFICES ASSUME NEW d \in Logouts, Bound(d)', pc'[d] \in Running, tokens' # None
               PROVE  Owner(tokens)' = caller'[d]
    BY DEF OwnLogouts
  <2>1. CASE d = c
    BY <1>1, <2>1
  <2>2. CASE d # c
    <3>1. Bound(d) /\ caller'[d] = caller[d] /\ pc[d] \in Running
      BY <1>o, <2>2, Kinds DEF Bound
    <3>. QED
      BY <1>1, <3>1 DEF Own, OwnLogouts
  <2>. QED
    BY <2>1, <2>2
<1>. QED
  BY <1>2, <1>3, <1>4, <1>5 DEF Own

LEMMA OwnStep ==
    OwnerInv /\ Waiters' /\ [Next]_vars /\ ~ crossed' => Own'
<1> SUFFICES ASSUME OwnerInv, Waiters', [Next]_vars, ~ crossed' PROVE Own'
  OBVIOUS
<1> USE DEF clientVars, callVars, storageVars, backendVars, historyVars, storeHistory
<1>v. RefreshInv /\ Waiters /\ Booting /\ Overlaps /\ (~ crossed => Own)
  BY DEF OwnerInv
<1>t. /\ tokens \in Token \cup {None} /\ cred \in [Calls -> Token \cup {None}]
      /\ user \in Users \cup {None}
      /\ awaits \in [Calls -> Calls \cup {None}] /\ pc \in [Calls -> {"idle", "done"} \cup Running]
      /\ presenting \in [Calls -> Token \cup {None}]
      /\ caller \in [Calls -> Users \cup {None}]
      /\ who \in [Logins -> Users \cup {None}]
      /\ Issued(tokens) /\ \A d \in Calls : Issued(cred[d]) /\ Issued(presenting[d])
  BY <1>v DEF RefreshInv, TypeInv, TypeOK, AllIssued
<1>r. /\ "login" \in Requests /\ "read" \in Requests /\ "key" \in Requests
      /\ "revoke" \in Requests /\ "logout" \in Requests
      /\ "login" \in Running /\ "done" \notin Running
      /\ \A x \in Requests : x \in Running
      /\ {"idle", "storing", "decrypting", "saving", "loading"} \cap Requests = {}
      /\ {"storing", "decrypting", "saving", "loading"} \subseteq Running
  BY DEF Requests, Running
<1>i. \A c \in Calls : pc[c] \notin Requests => awaits[c] = None
  BY <1>v DEF Waiters
\* The end of calls.
<1>f. ASSUME NEW F, Finish(F), tokens' \in {tokens, None}, user' \in {user, None},
             ~ crossed, overlapped => overlapped',
             \A c \in Calls : presenting'[c] \in {presenting[c], None}
      PROVE  Own'
  BY <1>f, <1>v, FinishCalls, OwnQuiet
<1>e. ASSUME NEW F, NEW t \in {tokens, None}, End(F, t), ~ crossed, overlapped => overlapped',
             \A c \in Calls : presenting'[c] \in {presenting[c], None}
      PROVE  Own'
  BY <1>e, <1>f DEF End, Forget
\* A call goes on without a request.
<1>g. ASSUME NEW c \in Calls, NEW step, pc' = [pc EXCEPT ![c] = step],
             c \in Logins \/ pc[c] \in Running, ~ crossed,
             UNCHANGED <<tokens, user, presenting, awaits, caller>>, overlapped => overlapped',
             \A d \in Calls \ {c} : cred'[d] = cred[d],
             c \in Logins \/ (cred'[c] \in {cred[c], None} /\ step \notin Requests)
      PROVE  Own'
  <2>1. /\ \A d \in Calls \ {c} : pc'[d] = pc[d]
        /\ c \in Calls => pc'[c] = step
    BY <1>g, <1>t
  <2>. QED
    BY <1>g, <1>v, <2>1, OwnQuiet
<1>k. ASSUME UNCHANGED <<tokens, user, presenting, awaits, caller, cred, pc, overlapped, crossed>>
      PROVE  Own'
  BY <1>k, <1>v, OwnQuiet
\* A call starts under the current user.
<1>u. ASSUME NEW c \in Calls \ Logins, NEW step \in Requests, Request(c, step), pc[c] = "idle",
             ~ crossed, UNCHANGED <<tokens, user>>, overlapped => overlapped',
             caller' = [caller EXCEPT ![c] = user]
      PROVE  Own'
  <2>1. caller'[c] = user /\ \A d \in Calls \ {c} : caller'[d] = caller[d]
    BY <1>u, <1>t
  <2>2. Bound(c)' /\ tokens # None => Owner(tokens) = caller'[c]
    BY <1>u, <1>v, <2>1 DEF Bound, Own, OwnTokens
  <2>3. awaits[c] = None
    BY <1>u, <1>i, <1>r
  <2>. QED
    BY <1>u, <1>v, <2>1, <2>2, <2>3, OwnRequest
<1>1. ASSUME NEW l \in Logins, NEW u \in Users, StartLogin(l, u) PROVE Own'
  BY <1>1, <1>g, Kinds DEF StartLogin
<1>2. ASSUME NEW c \in Logouts, StartLogout(c) PROVE Own'
  <2>1. Request(c, IF tokens # None /\ tokens.dapp THEN "revoke" ELSE "logout")
    BY <1>2 DEF StartLogout
  <2>2. (IF tokens # None /\ tokens.dapp THEN "revoke" ELSE "logout") \in Requests
    BY <1>r
  <2>. QED
    BY <1>2, <1>u, <2>1, <2>2, Kinds DEF StartLogout
<1>3. ASSUME NEW c \in Reads, StartRead(c) PROVE Own'
  BY <1>3, <1>u, <1>r, Kinds DEF StartRead
<1>4. ASSUME NEW c \in KeyCalls, StartKey(c) PROVE Own'
  <2>1. CASE Finish({c}) /\ UNCHANGED <<refreshPromise, presenting>>
    BY <1>4, <2>1, <1>f DEF StartKey
  <2>2. CASE Request(c, "key") /\ caller' = [caller EXCEPT ![c] = user]
    BY <1>4, <2>2, <1>u, <1>r, Kinds DEF StartKey
  <2>. QED
    BY <1>4, <2>1, <2>2 DEF StartKey
<1>5. ASSUME NEW p \in Calls, BackendRotates(p) PROVE Own'
  BY <1>5, <1>k DEF BackendRotates
<1>6. ASSUME NEW p \in Calls, RefreshGranted(p) PROVE Own'
  <2> DEFINE t == presenting[p]
  <2>1. /\ t # None /\ tokens = t /\ ~ crossed
        /\ tokens' = [login |-> t.login, gen |-> t.gen + 1, dapp |-> FALSE]
        /\ \A c \in Calls : awaits'[c] = IF awaits[c] = p THEN None ELSE awaits[c]
        /\ \A c \in Calls : cred'[c] = IF awaits[c] = p THEN tokens' ELSE cred[c]
        /\ Settle(p) /\ UNCHANGED <<user, pc, who, caller, overlapped>>
    BY <1>6 DEF RefreshGranted, Continue, Waiting
  <2>2. Owner(tokens)' = Owner(tokens)
    BY <2>1 DEF Owner
  <2>3. \A c \in Calls : awaits'[c] = None
    BY <1>v, <2>1, WaitersSettle
  <2>4. \A c \in Calls : Bound(c)' => Bound(c)
    BY <2>1 DEF Bound
  <2>5. OwnTokens'
    BY <1>v, <2>1, <2>2 DEF Own, OwnTokens
  <2>6. OwnRequests'
    <3> SUFFICES ASSUME NEW c \in Calls \ Logins, Bound(c)', Sent(c)', cred'[c] # None
                 PROVE  Owner(cred[c])' = caller'[c]
      BY DEF OwnRequests
    <3>1. CASE awaits[c] = p
      <4>1. Owner(tokens) = caller[c]
        BY <1>v, <2>1, <2>4, <3>1, Kinds DEF Own, OwnRefreshes
      <4>2. cred'[c] = tokens'
        BY <2>1, <3>1
      <4>. QED
        BY <2>1, <2>2, <4>1, <4>2 DEF Owner
    <3>2. CASE awaits[c] # p
      <4>1. awaits[c] = None /\ cred'[c] = cred[c]
        BY <2>1, <2>3, <3>2
      <4>2. Owner(cred[c]) = caller[c]
        BY <1>v, <2>1, <2>4, <4>1 DEF Own, OwnRequests, Sent
      <4>. QED
        BY <2>1, <4>1, <4>2 DEF Owner
    <3>. QED
      BY <3>1, <3>2
  <2>7. OwnRefreshes'
    BY <2>3 DEF OwnRefreshes
  <2>8. OwnLogouts'
    BY <1>v, <2>1, <2>2, <2>4, Kinds DEF Own, OwnLogouts
  <2>. QED
    BY <2>5, <2>6, <2>7, <2>8 DEF Own
<1>7. ASSUME NEW p \in Calls, RefreshFails(p) PROVE Own'
  <2>1. PICK t \in {tokens, None} : End(Waiting(p), t)
    BY <1>7 DEF RefreshFails
  <2>2. \A c \in Calls : presenting'[c] \in {presenting[c], None}
    BY <1>7, <1>t DEF RefreshFails, Settle
  <2>. QED
    BY <1>7, <1>e, <2>1, <2>2 DEF RefreshFails
<1>8. ASSUME NEW c \in Calls, RequestFails(c) PROVE Own'
  <2>1. End({c}, tokens)
    BY <1>8 DEF RequestFails
  <2>. QED
    BY <1>8, <1>e, <2>1 DEF RequestFails
<1>9. ASSUME NEW l \in Logins, LoginAnswers(l) PROVE Own'
  <2>1. PICK d \in BOOLEAN : SetSession(l, d)
    BY <1>9 DEF LoginAnswers
  <2>2. /\ tokens'.login = l /\ tokens' # None /\ user' = who[l]
        /\ pc[l] = "login" /\ UNCHANGED <<presenting, awaits, who, caller, overlapped>>
        /\ ~ crossed
    BY <1>9, <2>1, NoneIsNoToken, CallsAssumption DEF LoginAnswers, SetSession, Token
  <2>3. \A c \in Calls \ Logins : pc'[c] = pc[c] /\ cred'[c] = cred[c]
    BY <1>9, <1>t DEF LoginAnswers
  <2>4. OwnTokens'
    BY <2>2 DEF OwnTokens, Owner
  <2>5. \A c \in Calls : presenting[c] # None => presenting[c].login # l
    BY <1>t, <2>2 DEF Issued
  <2>6. OwnRequests'
    BY <1>v, <2>2, <2>3 DEF Own, OwnRequests, Bound, Sent, Owner
  <2>7. OwnRefreshes'
    <3> SUFFICES ASSUME NEW c \in Calls, awaits[c] # None, presenting[awaits[c]] = tokens'
                 PROVE  FALSE
      BY <2>2 DEF OwnRefreshes
    <3>1. awaits[c] \in Calls
      BY <1>t
    <3>. QED
      BY <2>2, <2>5, <3>1
  <2>8. \A c \in Logouts : pc[c] \in Running => overlapped
    BY <1>v, <1>r, <2>2 DEF Overlaps
  <2>9. OwnLogouts'
    BY <2>2, <2>3, <2>8, Kinds DEF OwnLogouts, Bound
  <2>. QED
    BY <2>4, <2>6, <2>7, <2>9 DEF Own
<1>10. ASSUME NEW l \in Logins, StoreTokens(l) PROVE Own'
  BY <1>10, <1>f DEF StoreTokens
<1>10f. ASSUME NEW l \in Logins, StoreTokensFails(l) PROVE Own'
  BY <1>10f, <1>f DEF StoreTokensFails
<1>11. ASSUME NEW c \in Logouts, RevokeAnswers(c) PROVE Own'
  <2>1. /\ Request(c, "logout") /\ pc[c] \in Running /\ awaits[c] = None /\ ~ crossed
        /\ UNCHANGED <<tokens, user, caller, overlapped>>
    BY <1>11, <1>r DEF RevokeAnswers, Accepted, Sent
  <2>2. Bound(c)' /\ tokens # None => Owner(tokens) = caller'[c]
    BY <1>v, <2>1 DEF Bound, Own, OwnLogouts
  <2>. QED
    BY <1>v, <1>r, <2>1, <2>2, Kinds, OwnRequest
<1>12. ASSUME NEW c \in Logouts, LogoutAnswers(c) PROVE Own'
  BY <1>12, <1>e DEF LogoutAnswers
<1>13. CASE MeAnswers
  <2>1. /\ Finish({Boot}) /\ user' = Owner(cred[Boot]) /\ cred[Boot] = tokens
        /\ cred[Boot] # None
        /\ UNCHANGED <<tokens, presenting, who, overlapped, crossed>>
    BY <1>13, <1>v DEF MeAnswers, Accepted, Booting
  <2>2. OwnTokens'
    BY <2>1 DEF OwnTokens, Owner
  <2>3. \A c \in Calls : Bound(c)' => /\ Bound(c) /\ pc'[c] = pc[c] /\ awaits'[c] = awaits[c]
                                      /\ cred'[c] = cred[c] /\ caller'[c] = caller[c]
    BY <2>1, FinishCalls DEF Bound
  <2>4. OwnRequests'
    BY <1>v, <2>1, <2>3 DEF Own, OwnRequests, Sent, Owner
  <2>5. OwnRefreshes'
    BY <1>v, <2>1, <2>3 DEF Own, OwnRefreshes, Owner
  <2>6. OwnLogouts'
    BY <1>v, <2>1, <2>3, Kinds DEF Own, OwnLogouts, Owner
  <2>. QED
    BY <2>2, <2>4, <2>5, <2>6 DEF Own
<1>14. ASSUME NEW c \in Reads, ReadAnswers(c) PROVE Own'
  BY <1>14, <1>f DEF ReadAnswers
<1>15. ASSUME NEW c \in KeyCalls, KeyAnswers(c) PROVE Own'
  BY <1>15, <1>g, <1>r, <1>t, Kinds DEF KeyAnswers, Requests
<1>16. ASSUME NEW c \in KeyCalls, Decrypted(c) PROVE Own'
  <2>1. CASE Finish({c})
    BY <1>16, <2>1, <1>f DEF Decrypted
  <2>2. CASE pc' = [pc EXCEPT ![c] = "saving"] /\ UNCHANGED <<awaits, cred, caller>>
    BY <1>16, <2>2, <1>g, <1>r, Kinds DEF Decrypted, Requests
  <2>. QED
    BY <1>16, <2>1, <2>2 DEF Decrypted
<1>17. ASSUME NEW c \in KeyCalls, Saved(c) PROVE Own'
  BY <1>17, <1>g, <1>r, Kinds DEF Saved, Requests
<1>18. ASSUME NEW c \in KeyCalls, Loaded(c) PROVE Own'
  BY <1>18, <1>f DEF Loaded
<1>19. ASSUME NEW t \in {tokens, stored}, Age(t) PROVE Own'
  BY <1>19, <1>k DEF Age
<1>20. CASE Reload
  <2>1. user' = None /\ \A c \in Calls : caller'[c] = None
    BY <1>20 DEF Reload
  <2>. QED
    BY <2>1, Kinds DEF Own, OwnTokens, OwnRequests, OwnRefreshes, OwnLogouts, Bound
<1>21. CASE UNCHANGED vars
  BY <1>21, <1>k DEF vars
<1>. QED
  BY <1>1, <1>2, <1>3, <1>4, <1>5, <1>6, <1>7, <1>8, <1>9, <1>10, <1>10f, <1>11, <1>12, <1>13,
     <1>14, <1>15, <1>16, <1>17, <1>18, <1>19, <1>20, <1>21
  DEF Next, Continues

LEMMA OwnerInit == Init => OwnerInv
<1> SUFFICES ASSUME Init PROVE OwnerInv
  OBVIOUS
<1>1. Waiters /\ Booting /\ Overlaps
  BY Kinds DEF Init, Waiters, Booting, Overlaps, Running, Requests
<1>2. Own
  BY Kinds DEF Init, Own, OwnTokens, OwnRequests, OwnRefreshes, OwnLogouts, Bound
<1>. QED
  BY <1>1, <1>2, RefreshInit DEF OwnerInv

LEMMA OwnerStep == OwnerInv /\ [Next]_vars => OwnerInv'
<1> SUFFICES ASSUME OwnerInv, [Next]_vars PROVE OwnerInv'
  OBVIOUS
<1>1. RefreshInv' /\ Waiters' /\ Booting' /\ Overlaps'
  BY RefreshStep, WaitersStep, BootingStep, OverlapsStep DEF OwnerInv
<1>2. ~ crossed' => Own'
  BY <1>1, OwnStep
<1>. QED
  BY <1>1, <1>2 DEF OwnerInv

\* However logins, logouts, requests and reloads interleave: as long as no
\* refresh crosses a logout or a login, the tokens in memory are the user's and
\* every request goes out with tokens of the user who made it or with none.
THEOREM SessionsStayApart == Spec => []SessionsMixOnlyByRefresh
<1>1. OwnerInv => SessionsMixOnlyByRefresh
  BY DEF OwnerInv, Own, OwnTokens, OwnRequests, Bound, SessionsMixOnlyByRefresh
<1>. QED
  BY <1>1, OwnerInit, OwnerStep, PTL DEF Spec

-----------------------------------------------------------------------------
(***************************************************************************)
(* What a logout leaves.  After one that nothing overlapped no call is in  *)
(* flight that could bring anything back: none waits for a refresh, no     *)
(* login and no key call runs, and initialize() is over.                   *)
(***************************************************************************)
\* The end of calls of which one may be a logout.
LEMMA LeftEnd ==
    ASSUME OwnerInv, LogoutForgets, NEW F \in SUBSET Calls, NEW t \in {tokens, None}, End(F, t),
           \A c \in F : pc[c] \in Running
    PROVE  LogoutForgets'
<1>c. /\ \A c \in F : pc'[c] = "done"
      /\ \A c \in Calls \ F : pc'[c] = pc[c] /\ awaits'[c] = awaits[c]
      /\ Boot \in Calls
  BY FinishCalls, Kinds DEF End
<1>n. "done" \notin Running /\ "done" # "me"
  BY DEF Running, Requests
<1>1. CASE F \cap Logouts # {}
  <2>1. {c \in Calls \ F : Lingers(c)} = {} <=> cleared'
    BY <1>1 DEF End
  <2>2. ASSUME cleared', NEW c \in Calls PROVE ~ Lingers(c)'
    <3>1. CASE c \in F
      BY <1>c, <1>n, <3>1 DEF Lingers
    <3>2. CASE c \notin F
      <4>1. ~ Lingers(c)
        BY <2>1, <2>2, <3>2
      <4>. QED
        BY <1>c, <3>2, <4>1 DEF Lingers
    <3>. QED
      BY <3>1, <3>2
  <2>3. pc'[Boot] # "me"
    <3>1. PICK c \in F : c \in Logouts
      BY <1>1
    <3>2. c # Boot /\ pc[c] \in Running /\ c \in Calls
      BY <3>1, Kinds
    <3>3. pc[Boot] # "me"
      BY <3>2 DEF OwnerInv, Booting
    <3>. QED
      BY <1>c, <1>n, <3>3
  <2>. QED
    BY <1>1, <2>2, <2>3 DEF End, Forget, LogoutForgets
<1>2. CASE F \cap Logouts = {}
  <2> SUFFICES ASSUME cleared' PROVE LogoutForgets'
    BY DEF LogoutForgets
  <2>1. cleared
    BY <1>2 DEF End
  <2>2. /\ tokens = None /\ stored = None /\ user = None /\ cachedKey = None
        /\ \A c \in Calls : ~ Lingers(c)
        /\ pc[Boot] # "me"
    BY <2>1 DEF LogoutForgets
  <2>3. tokens' = None /\ stored' = None /\ user' = None /\ cachedKey' = None
    BY <1>2, <2>2 DEF End, Forget
  <2>4. \A c \in Calls : ~ Lingers(c)'
    BY <1>c, <1>n, <2>2 DEF Lingers
  <2>5. pc'[Boot] # "me"
    BY <1>c, <1>n, <2>2
  <2>. QED
    BY <2>3, <2>4, <2>5 DEF LogoutForgets
<1>. QED
  BY <1>1, <1>2

\* A call that brings nothing back starts, goes on or ends.
LEMMA LeftQuiet ==
    ASSUME LogoutForgets, UNCHANGED <<tokens, stored, user, cachedKey>>, cleared' => cleared,
           \A c \in Calls : \/ pc'[c] = pc[c] /\ awaits'[c] = awaits[c]
                            \/ pc'[c] = "done"
                            \/ /\ c \notin Logins \cup KeyCalls \cup {Boot}
                               /\ awaits[c] = None => awaits'[c] = None
                               /\ pc[c] \notin Running => awaits'[c] = None
    PROVE  LogoutForgets'
<1> SUFFICES ASSUME cleared' PROVE LogoutForgets'
  BY DEF LogoutForgets
<1>1. /\ tokens = None /\ stored = None /\ user = None /\ cachedKey = None
      /\ \A c \in Calls : ~ Lingers(c)
      /\ pc[Boot] # "me"
  BY DEF LogoutForgets
<1>2. ASSUME NEW c \in Calls PROVE ~ Lingers(c)'
  <2>1. ~ Lingers(c)
    BY <1>1
  <2>. QED
    BY <2>1 DEF Lingers, Running, Requests
<1>3. pc'[Boot] # "me"
  BY <1>1, Kinds
<1>. QED
  BY <1>1, <1>2, <1>3 DEF LogoutForgets

\* Without tokens in memory no request waits for a refresh.
LEMMA LeftRequest ==
    ASSUME OwnerInv, LogoutForgets, NEW c \in Logouts \cup Reads, NEW step \in Requests, Request(c, step),
           awaits[c] = None, UNCHANGED <<tokens, stored, user, cachedKey>>, cleared' => cleared
    PROVE  LogoutForgets'
<1> SUFFICES ASSUME cleared' PROVE LogoutForgets'
  BY DEF LogoutForgets
<1>1. tokens = None
  BY DEF LogoutForgets
<1>2. pc \in [Calls -> {"idle", "done"} \cup Running] /\ c \in Calls
  BY Kinds DEF OwnerInv, RefreshInv, TypeInv, TypeOK
<1>3. pc' = [pc EXCEPT ![c] = step] /\ awaits' = awaits
  BY <1>1 DEF Request
<1>4. c \notin Logins \cup KeyCalls \cup {Boot}
  BY Kinds, CallsAssumption
<1>. QED
  BY <1>2, <1>3, <1>4, LeftQuiet

LEMMA LogoutForgetsStep == OwnerInv /\ LogoutForgets /\ [Next]_vars => LogoutForgets'
<1> SUFFICES ASSUME OwnerInv, LogoutForgets, [Next]_vars PROVE LogoutForgets'
  OBVIOUS
<1> USE DEF clientVars, callVars, storageVars, backendVars, historyVars, storeHistory
<1>v. RefreshInv /\ Waiters /\ Booting
  BY DEF OwnerInv
<1>t. /\ pc \in [Calls -> {"idle", "done"} \cup Running]
      /\ awaits \in [Calls -> Calls \cup {None}]
  BY <1>v DEF RefreshInv, TypeInv, TypeOK
<1>r. /\ "read" \in Requests /\ "key" \in Requests
      /\ "revoke" \in Requests /\ "logout" \in Requests
      /\ "login" \in Running /\ "key" \in Running
      /\ \A x \in Requests : x \in Running
      /\ {"idle", "storing", "decrypting", "saving", "loading"} \cap Requests = {}
      /\ {"storing", "decrypting", "saving", "loading"} \subseteq Running
  BY DEF Requests, Running
<1>i. \A c \in Calls : pc[c] \notin Requests => awaits[c] = None
  BY <1>v DEF Waiters
\* After the logout no call is in flight that could bring anything back.
<1>x. ASSUME NEW c \in Logins \cup KeyCalls, pc[c] \in Running PROVE ~ cleared
  BY <1>x, Kinds DEF LogoutForgets, Lingers
<1>p. ASSUME NEW p \in Calls, presenting[p] # None PROVE ~ cleared
  <2>1. awaits[p] = p /\ pc[p] \in Running
    BY <1>p, <1>r, <1>v, Kinds DEF Waiters
  <2>. QED
    BY <2>1, Kinds DEF LogoutForgets, Lingers
<1>o. ASSUME ~ cleared, cleared' = cleared PROVE LogoutForgets'
  BY <1>o DEF LogoutForgets
<1>f. ASSUME NEW c \in Calls, Finish({c}), UNCHANGED <<tokens, stored, user, cachedKey, cleared>>
      PROVE  LogoutForgets'
  BY <1>f, FinishCalls, LeftQuiet
<1>1. ASSUME NEW l \in Logins, NEW u \in Users, StartLogin(l, u) PROVE LogoutForgets'
  BY <1>1 DEF StartLogin, LogoutForgets
<1>2. ASSUME NEW c \in Logouts, StartLogout(c) PROVE LogoutForgets'
  <2>1. Request(c, IF tokens # None /\ tokens.dapp THEN "revoke" ELSE "logout")
    BY <1>2 DEF StartLogout
  <2>2. (IF tokens # None /\ tokens.dapp THEN "revoke" ELSE "logout") \in Requests
    BY <1>r
  <2>3. awaits[c] = None
    BY <1>2, <1>i, <1>r, Kinds DEF StartLogout
  <2>. QED
    BY <1>2, <2>1, <2>2, <2>3, LeftRequest DEF StartLogout
<1>3. ASSUME NEW c \in Reads, StartRead(c) PROVE LogoutForgets'
  BY <1>3, <1>i, <1>r, Kinds, LeftRequest DEF StartRead
<1>4. ASSUME NEW c \in KeyCalls, StartKey(c) PROVE LogoutForgets'
  <2>1. CASE Finish({c})
    BY <1>4, <2>1, <1>f, Kinds DEF StartKey
  <2>2. CASE user # None
    BY <1>4, <2>2, <1>o DEF StartKey, LogoutForgets
  <2>. QED
    BY <1>4, <2>1, <2>2 DEF StartKey
<1>5. ASSUME NEW p \in Calls, BackendRotates(p) PROVE LogoutForgets'
  BY <1>5, <1>p, <1>o DEF BackendRotates
<1>6. ASSUME NEW p \in Calls, RefreshGranted(p) PROVE LogoutForgets'
  BY <1>6, <1>p, <1>o DEF RefreshGranted
<1>7. ASSUME NEW p \in Calls, RefreshFails(p) PROVE LogoutForgets'
  <2>1. PICK t \in {tokens, None} : End(Waiting(p), t)
    BY <1>7 DEF RefreshFails
  <2>2. Waiting(p) \in SUBSET Calls /\ \A c \in Waiting(p) : pc[c] \in Running
    BY <1>v, <1>r, Kinds DEF Waiting, Waiters
  <2>. QED
    BY <2>1, <2>2, LeftEnd
<1>8. ASSUME NEW c \in Calls, RequestFails(c) PROVE LogoutForgets'
  <2>1. End({c}, tokens) /\ pc[c] \in Running
    BY <1>8, <1>r DEF RequestFails, Sent
  <2>. QED
    BY <2>1, LeftEnd
<1>9. ASSUME NEW l \in Logins, LoginAnswers(l) PROVE LogoutForgets'
  BY <1>9, <1>x, <1>o, <1>r DEF LoginAnswers
<1>10. ASSUME NEW l \in Logins, StoreTokens(l) PROVE LogoutForgets'
  BY <1>10, <1>x, <1>o, <1>r DEF StoreTokens
<1>10f. ASSUME NEW l \in Logins, StoreTokensFails(l) PROVE LogoutForgets'
  BY <1>10f, <1>x, <1>o, <1>r DEF StoreTokensFails
<1>11. ASSUME NEW c \in Logouts, RevokeAnswers(c) PROVE LogoutForgets'
  BY <1>11, <1>r, LeftRequest DEF RevokeAnswers, Accepted, Sent
<1>12. ASSUME NEW c \in Logouts, LogoutAnswers(c) PROVE LogoutForgets'
  <2>1. End({c}, tokens) /\ pc[c] \in Running /\ {c} \in SUBSET Calls
    BY <1>12, <1>r, Kinds DEF LogoutAnswers
  <2>. QED
    BY <2>1, LeftEnd
<1>13. CASE MeAnswers
  <2>1. pc[Boot] = "me" /\ cleared' = cleared
    BY <1>13 DEF MeAnswers
  <2>. QED
    BY <2>1, <1>o DEF LogoutForgets
<1>14. ASSUME NEW c \in Reads, ReadAnswers(c) PROVE LogoutForgets'
  BY <1>14, <1>f, Kinds DEF ReadAnswers
<1>15. ASSUME NEW c \in KeyCalls, KeyAnswers(c) PROVE LogoutForgets'
  BY <1>15, <1>x, <1>o, <1>r DEF KeyAnswers
<1>16. ASSUME NEW c \in KeyCalls, Decrypted(c) PROVE LogoutForgets'
  BY <1>16, <1>x, <1>o, <1>r DEF Decrypted
<1>17. ASSUME NEW c \in KeyCalls, Saved(c) PROVE LogoutForgets'
  BY <1>17, <1>x, <1>o, <1>r DEF Saved
<1>18. ASSUME NEW c \in KeyCalls, Loaded(c) PROVE LogoutForgets'
  BY <1>18, <1>x, <1>o, <1>r DEF Loaded
<1>19. ASSUME NEW t \in {tokens, stored}, Age(t) PROVE LogoutForgets'
  BY <1>19, LeftQuiet DEF Age
<1>20. CASE Reload
  <2> SUFFICES ASSUME cleared' PROVE LogoutForgets'
    BY DEF LogoutForgets
  <2>1. stored = None
    BY <1>20 DEF Reload, LogoutForgets
  <2>2. tokens' = None /\ stored' = None /\ user' = None /\ cachedKey' = None
    BY <1>20, <2>1 DEF Reload
  <2>3. pc' = [c \in Calls |-> IF pc[c] \in Running THEN "done" ELSE pc[c]]
    BY <1>20, <2>1 DEF Reload
  <2>4. \A c \in Calls : pc'[c] \notin Running
    BY <2>3 DEF Running, Requests
  <2>5. "me" \in Running /\ Boot \in Calls
    BY Kinds DEF Running, Requests
  <2>. QED
    BY <2>2, <2>4, <2>5 DEF LogoutForgets, Lingers
<1>21. CASE UNCHANGED vars
  BY <1>21, LeftQuiet DEF vars
<1>. QED
  BY <1>1, <1>2, <1>3, <1>4, <1>5, <1>6, <1>7, <1>8, <1>9, <1>10, <1>10f, <1>11, <1>12, <1>13,
     <1>14, <1>15, <1>16, <1>17, <1>18, <1>19, <1>20, <1>21
  DEF Next, Continues

-----------------------------------------------------------------------------
(***************************************************************************)
(* What a reload restores.  The parts of the invariant, besides OwnerInv:  *)
(*   - initialize() has no user yet, and the tokens in memory, refreshed   *)
(*     or not, come from the same login as the stored ones;                *)
(*   - a login about to store its tokens has its own, and the user is the   *)
(*     latest login's;                                                     *)
(*   - the stored tokens are somebody's, and ReloadKeepsUser.              *)
(***************************************************************************)
Restoring ==
    /\ pc[Boot] \in {"me", "done"}
    /\ pc[Boot] = "me" =>
         /\ user = None /\ stored # None /\ tokens # None
         /\ stored.login = tokens.login

Storing ==
    \A l \in Logins :
        /\ pc[l] \in {"login", "storing"} => who[l] # None
        /\ pc[l] = "storing" =>
             /\ cred[l] # None /\ cred[l].login = l
             /\ l = latest => user = who[l]

StoredIsOwn ==
    /\ stored # None => Owner(stored) # None
    /\ ReloadKeepsUser

KeepInv == Restoring /\ Storing /\ StoredIsOwn

\* The stored tokens keep their owner.
LEMMA StoredOwner ==
    ASSUME OwnerInv, [Next]_vars, stored # None
    PROVE  Owner(stored)' = who'[stored'.login] /\ who'[stored.login] = Owner(stored)
<1>1. stored \in Token /\ Issued(stored)
  BY DEF OwnerInv, RefreshInv, TypeInv, TypeOK, AllIssued
<1>2. \A t \in Token : Issued(t) => who'[t.login] = who[t.login]
  BY OwnersStay DEF OwnerInv, Owner
<1>. QED
  BY <1>1, <1>2 DEF Owner

\* Steps that leave the user, the stored tokens and the latest login alone,
\* and after which every login is where it was, or over without having had
\* tokens to store.
LEMMA KeepQuiet ==
    ASSUME OwnerInv, KeepInv, [Next]_vars,
           UNCHANGED <<user, stored, who, latest, outdated>>, Ready' => Ready,
           \A l \in Logins :
               \/ pc'[l] = pc[l] /\ (pc[l] = "storing" => cred'[l] = cred[l])
               \/ pc[l] # "storing" /\ pc'[l] = "done"
    PROVE  Storing' /\ StoredIsOwn'
<1>1. Storing'
  BY DEF KeepInv, Storing
<1>2. latest # None => latest \in Logins
  BY DEF OwnerInv, RefreshInv, TypeInv, TypeOK
<1>3. latest' # None => (pc'[latest'] # "storing" => pc[latest] # "storing")
  BY <1>2
<1>4. StoredIsOwn'
  BY <1>3 DEF KeepInv, StoredIsOwn, ReloadKeepsUser, Owner
<1>. QED
  BY <1>1, <1>4

\* The end of calls of which none was storing tokens.
LEMMA KeepEnd ==
    ASSUME OwnerInv, KeepInv, [Next]_vars,
           NEW F \in SUBSET Calls, NEW t \in {tokens, None}, End(F, t),
           \A c \in F : pc[c] \in Requests, UNCHANGED who
    PROVE  Storing' /\ StoredIsOwn'
<1>n. "storing" \notin Requests /\ "done" \notin Requests /\ {"login", "storing"} \subseteq Running
  BY DEF Running, Requests
<1>c. /\ \A c \in F : pc'[c] = "done"
      /\ \A c \in Calls \ F : pc'[c] = pc[c] /\ cred'[c] = cred[c]
  BY FinishCalls DEF End
<1>l. \A l \in Logins :
        \/ pc'[l] = pc[l] /\ cred'[l] = cred[l]
        \/ pc[l] # "storing" /\ pc'[l] = "done"
  BY <1>c, <1>n, Kinds
<1>1. CASE F \cap Logouts # {}
  <2>1. user' = None /\ stored' = None /\ latest' = None
    BY <1>1 DEF End, Forget
  <2>2. \A l \in Logins : l # latest'
    BY <2>1, Kinds
  <2>3. Storing'
    BY <1>l, <2>2 DEF KeepInv, Storing
  <2>. QED
    BY <2>1, <2>3 DEF StoredIsOwn, ReloadKeepsUser
<1>2. CASE F \cap Logouts = {} /\ Boot \in F
  <2>1. pc[Boot] = "me" /\ user = None
    BY <1>2, <1>n DEF KeepInv, Restoring
  <2>2. user' = None /\ stored' = None
    BY <1>2, <2>1 DEF End, Forget
  <2>3. \A l \in Logins : pc'[l] \notin {"login", "storing"}
    BY <1>l, <1>n, <2>1, Kinds DEF OwnerInv, Booting
  <2>. QED
    BY <2>2, <2>3 DEF Storing, StoredIsOwn, ReloadKeepsUser
<1>3. CASE F \cap Logouts = {} /\ Boot \notin F
  <2>1. F \cap (Logouts \cup {Boot}) = {}
    BY <1>3
  <2>2. UNCHANGED <<user, stored, latest, outdated>>
    BY <1>3, <2>1 DEF End, Forget
  <2>3. Ready' => Ready
    BY <1>3, <1>c, Kinds DEF Ready
  <2>. QED
    BY <1>l, <2>2, <2>3, KeepQuiet
<1>. QED
  BY <1>1, <1>2, <1>3

LEMMA KeepStep == OwnerInv /\ KeepInv /\ [Next]_vars => Storing' /\ StoredIsOwn'
<1> DEFINE Goal == Storing' /\ StoredIsOwn'
<1> SUFFICES ASSUME OwnerInv, KeepInv, [Next]_vars PROVE Goal
  OBVIOUS
<1> HIDE DEF Goal
<1> USE DEF clientVars, callVars, storageVars, backendVars, historyVars, storeHistory
<1>v. RefreshInv /\ Waiters /\ Booting /\ Overlaps
  BY DEF OwnerInv
<1>t. /\ pc \in [Calls -> {"idle", "done"} \cup Running]
      /\ cred \in [Calls -> Token \cup {None}] /\ stored \in Token \cup {None}
      /\ who \in [Logins -> Users \cup {None}] /\ latest \in Logins \cup {None}
  BY <1>v DEF RefreshInv, TypeInv, TypeOK, AllIssued
<1>r. /\ "read" \in Requests /\ "key" \in Requests /\ "login" \in Requests
      /\ "revoke" \in Requests /\ "logout" \in Requests
      /\ "idle" \notin Running /\ "done" \notin Running
      /\ \A x \in Requests : x \in Running
      /\ {"idle", "storing", "decrypting", "saving", "loading"} \cap Requests = {}
      /\ {"login", "storing", "decrypting", "saving", "loading"} \subseteq Running
  BY DEF Requests, Running
\* Steps of a call that is neither a login nor initialize().
<1>q. ASSUME UNCHANGED <<user, stored, who, latest, outdated>>, pc'[Boot] = pc[Boot],
             \A l \in Logins : pc'[l] = pc[l] /\ cred'[l] = cred[l]
      PROVE  Goal
  BY <1>q, KeepQuiet DEF Goal, Ready
<1>p. ASSUME NEW c \in Calls \ (Logins \cup {Boot}), NEW step, Request(c, step),
             UNCHANGED <<user, stored, who, latest, outdated>>
      PROVE  Goal
  <2>1. pc' = [pc EXCEPT ![c] = step] /\ (cred' = cred \/ cred' = [cred EXCEPT ![c] = tokens])
    BY <1>p DEF Request
  <2>2. /\ \A l \in Logins : pc'[l] = pc[l] /\ cred'[l] = cred[l]
        /\ pc'[Boot] = pc[Boot]
    BY <1>t, <2>1, Kinds
  <2>. QED
    BY <1>p, <1>q, <2>2
<1>g. ASSUME NEW c \in Calls \ (Logins \cup {Boot}), NEW step, pc' = [pc EXCEPT ![c] = step],
             \A l \in Logins : cred'[l] = cred[l],
             UNCHANGED <<user, stored, who, latest, outdated>>
      PROVE  Goal
  BY <1>g, <1>q, <1>t, Kinds
<1>f. ASSUME NEW c \in Calls \ (Logins \cup {Boot}), Finish({c}),
             UNCHANGED <<user, stored, who, latest, outdated>>
      PROVE  Goal
  BY <1>f, <1>q, FinishCalls, Kinds
<1>e. ASSUME NEW F \in SUBSET Calls, NEW t \in {tokens, None}, End(F, t),
             \A c \in F : pc[c] \in Requests, UNCHANGED who
      PROVE  Goal
  BY <1>e, KeepEnd DEF Goal
<1>1. ASSUME NEW l \in Logins, NEW u \in Users, StartLogin(l, u) PROVE Goal
  <2>1. /\ pc[l] = "idle" /\ pc' = [pc EXCEPT ![l] = "login"]
        /\ who' = [who EXCEPT ![l] = u] /\ u # None
        /\ UNCHANGED <<user, stored, cred, latest, outdated>>
    BY <1>1, Kinds DEF StartLogin
  <2>2. /\ pc'[l] = "login" /\ who'[l] = u /\ pc'[Boot] = pc[Boot]
        /\ \A m \in Logins \ {l} : pc'[m] = pc[m] /\ who'[m] = who[m]
    BY <1>t, <2>1, Kinds
  <2>3. Storing'
    BY <2>1, <2>2 DEF KeepInv, Storing
  <2>4. stored # None => Owner(stored)' = Owner(stored)
    BY <2>1, StoredOwner
  <2>5. latest # None => (pc'[latest] # "storing" => pc[latest] # "storing")
    BY <1>t, <2>1, <2>2
  <2>6. StoredIsOwn'
    BY <2>1, <2>2, <2>4, <2>5 DEF KeepInv, StoredIsOwn, ReloadKeepsUser, Ready
  <2>. QED
    BY <2>3, <2>6 DEF Goal
<1>2. ASSUME NEW c \in Logouts, StartLogout(c) PROVE Goal
  BY <1>2, <1>p, Kinds DEF StartLogout
<1>3. ASSUME NEW c \in Reads, StartRead(c) PROVE Goal
  BY <1>3, <1>p, Kinds DEF StartRead
<1>4. ASSUME NEW c \in KeyCalls, StartKey(c) PROVE Goal
  BY <1>4, <1>f, <1>p, Kinds DEF StartKey
<1>5. ASSUME NEW p \in Calls, BackendRotates(p) PROVE Goal
  BY <1>5, <1>q DEF BackendRotates
<1>6. ASSUME NEW p \in Calls, RefreshGranted(p) PROVE Goal
  <2>1. \A l \in Logins : awaits[l] = None
    BY <1>v, Kinds DEF Waiters
  <2>2. \A l \in Logins : cred'[l] = cred[l]
    BY <1>6, <2>1, Kinds DEF RefreshGranted, Continue, Waiting
  <2>. QED
    BY <1>6, <1>q, <2>2 DEF RefreshGranted
<1>7. ASSUME NEW p \in Calls, RefreshFails(p) PROVE Goal
  <2>1. PICK t \in {tokens, None} : End(Waiting(p), t)
    BY <1>7 DEF RefreshFails
  <2>2. Waiting(p) \in SUBSET Calls /\ \A c \in Waiting(p) : pc[c] \in Requests
    BY <1>7, <1>v, Kinds DEF Waiting, Waiters
  <2>. QED
    BY <1>7, <1>e, <2>1, <2>2 DEF RefreshFails
<1>8. ASSUME NEW c \in Calls, RequestFails(c) PROVE Goal
  BY <1>8, <1>e DEF RequestFails, Sent
<1>9. ASSUME NEW l \in Logins, LoginAnswers(l) PROVE Goal
  <2>1. PICK d \in BOOLEAN : SetSession(l, d)
    BY <1>9 DEF LoginAnswers
  <2>2. /\ pc[l] = "login" /\ pc' = [pc EXCEPT ![l] = "storing"]
        /\ cred' = [cred EXCEPT ![l] = tokens'] /\ user' = who[l]
        /\ tokens' \in Token /\ tokens'.login = l /\ latest' = l
        /\ UNCHANGED <<who, stored>>
    BY <1>9, <2>1, CallsAssumption DEF LoginAnswers, SetSession, Token
  <2>3. /\ l \in Calls /\ pc'[l] = "storing" /\ cred'[l] = tokens' /\ l # None
        /\ \A m \in Logins \ {l} : pc'[m] = pc[m] /\ cred'[m] = cred[m]
    BY <1>t, <2>2, Kinds
  <2>4. Storing'
    BY <2>2, <2>3, TokenParts DEF KeepInv, Storing
  <2>5. StoredIsOwn'
    BY <2>2, <2>3 DEF KeepInv, StoredIsOwn, ReloadKeepsUser, Owner
  <2>. QED
    BY <2>4, <2>5 DEF Goal
<1>10. ASSUME NEW l \in Logins, StoreTokens(l) PROVE Goal
  <2>1. /\ pc[l] = "storing" /\ stored' = cred[l] /\ Finish({l}) /\ outdated' = (l # latest)
        /\ UNCHANGED <<user, who, latest>>
    BY <1>10 DEF StoreTokens, TokensToStore
  <2>2. pc'[l] = "done" /\ \A m \in Logins \ {l} : pc'[m] = pc[m] /\ cred'[m] = cred[m]
    BY <2>1, FinishCalls, Kinds
  <2>3. Storing'
    BY <2>1, <2>2 DEF KeepInv, Storing
  <2>4. cred[l] # None /\ who[l] # None /\ Owner(stored)' = who[l] /\ (l = latest => user = who[l])
    BY <2>1 DEF KeepInv, Storing, Owner
  <2>5. StoredIsOwn'
    BY <2>1, <2>4 DEF StoredIsOwn, ReloadKeepsUser
  <2>. QED
    BY <2>3, <2>5 DEF Goal
<1>10f. ASSUME NEW l \in Logins, StoreTokensFails(l) PROVE Goal
  <2>1. /\ pc[l] = "storing" /\ Finish({l}) /\ outdated' = (outdated \/ l = latest)
        /\ UNCHANGED <<user, stored, who, latest>>
    BY <1>10f DEF StoreTokensFails
  <2>2. /\ pc'[l] = "done" /\ pc'[Boot] = pc[Boot]
        /\ \A m \in Logins \ {l} : pc'[m] = pc[m] /\ cred'[m] = cred[m]
    BY <2>1, FinishCalls, Kinds
  <2>3. Storing'
    BY <2>1, <2>2 DEF KeepInv, Storing
  <2>4. latest # None /\ ~ outdated' => pc'[latest] = pc[latest]
    BY <1>t, <2>1, <2>2
  <2>5. StoredIsOwn'
    BY <2>1, <2>2, <2>4 DEF KeepInv, StoredIsOwn, ReloadKeepsUser, Owner, Ready
  <2>. QED
    BY <2>3, <2>5 DEF Goal
<1>11. ASSUME NEW c \in Logouts, RevokeAnswers(c) PROVE Goal
  BY <1>11, <1>p, Kinds DEF RevokeAnswers
<1>12. ASSUME NEW c \in Logouts, LogoutAnswers(c) PROVE Goal
  <2>1. End({c}, tokens) /\ pc[c] \in Requests /\ {c} \in SUBSET Calls
    BY <1>12, <1>r, Kinds DEF LogoutAnswers
  <2>. QED
    BY <1>12, <1>e, <2>1 DEF LogoutAnswers
<1>13. CASE MeAnswers
  <2>1. /\ pc[Boot] = "me" /\ cred[Boot] # None /\ cred[Boot] = tokens
        /\ user' = Owner(tokens) /\ Finish({Boot}) /\ UNCHANGED <<stored, who>>
    BY <1>13, <1>v DEF MeAnswers, Accepted, Booting
  <2>2. \A l \in Logins : pc'[l] \notin {"login", "storing"}
    BY <1>r, <1>v, <2>1, FinishCalls, Kinds DEF Booting
  <2>3. stored # None /\ Owner(stored) # None /\ Owner(stored)' = user' /\ Owner(stored) = user'
    BY <2>1 DEF KeepInv, Restoring, StoredIsOwn, Owner
  <2>. QED
    BY <2>1, <2>2, <2>3 DEF Goal, Storing, StoredIsOwn, ReloadKeepsUser
<1>14. ASSUME NEW c \in Reads, ReadAnswers(c) PROVE Goal
  BY <1>14, <1>f, Kinds DEF ReadAnswers
<1>15. ASSUME NEW c \in KeyCalls, KeyAnswers(c) PROVE Goal
  <2>1. \A l \in Logins : cred'[l] = cred[l]
    BY <1>15, <1>t, Kinds DEF KeyAnswers
  <2>. QED
    BY <1>15, <2>1, <1>g, Kinds DEF KeyAnswers
<1>16. ASSUME NEW c \in KeyCalls, Decrypted(c) PROVE Goal
  BY <1>16, <1>f, <1>g, Kinds DEF Decrypted
<1>17. ASSUME NEW c \in KeyCalls, Saved(c) PROVE Goal
  BY <1>17, <1>g, Kinds DEF Saved
<1>18. ASSUME NEW c \in KeyCalls, Loaded(c) PROVE Goal
  BY <1>18, <1>f, Kinds DEF Loaded
<1>19. ASSUME NEW t \in {tokens, stored}, Age(t) PROVE Goal
  BY <1>19, <1>q DEF Age
<1>20. CASE Reload
  <2>1. user' = None /\ UNCHANGED <<stored, who>>
    BY <1>20 DEF Reload
  <2>2. \A l \in Logins : pc'[l] \notin {"login", "storing"}
    BY <1>20, <1>r, Kinds DEF Reload
  <2>3. stored # None => pc'[Boot] = "me"
    BY <1>20, Kinds DEF Reload
  <2>. QED
    BY <2>1, <2>2, <2>3 DEF Goal, KeepInv, Storing, StoredIsOwn, ReloadKeepsUser, Ready, Owner
<1>21. CASE UNCHANGED vars
  BY <1>21, <1>q DEF vars
<1>. QED
  BY <1>1, <1>2, <1>3, <1>4, <1>5, <1>6, <1>7, <1>8, <1>9, <1>10, <1>10f, <1>11, <1>12, <1>13,
     <1>14, <1>15, <1>16, <1>17, <1>18, <1>19, <1>20, <1>21
  DEF Next, Continues

\* Until initialize() is over only its own refresh changes anything.
LEMMA RestoringStep == OwnerInv /\ KeepInv /\ [Next]_vars => Restoring'
<1> SUFFICES ASSUME OwnerInv, KeepInv, [Next]_vars PROVE Restoring'
  OBVIOUS
<1> USE DEF clientVars, callVars, storageVars, backendVars, historyVars, storeHistory
<1>v. RefreshInv /\ Waiters /\ Booting /\ Restoring
  BY DEF OwnerInv, KeepInv
<1>t. pc \in [Calls -> {"idle", "done"} \cup Running]
  BY <1>v DEF RefreshInv, TypeInv, TypeOK
<1>n. /\ \A x \in Requests : x \in Running
      /\ {"storing", "decrypting", "saving", "loading"} \subseteq Running
      /\ {"me", "login", "read", "key", "revoke", "logout"} = Requests
  BY DEF Requests, Running
\* initialize() is over, and remains so.
<1>o. ASSUME pc[Boot] # "me", pc'[Boot] \in {pc[Boot], "done"} PROVE Restoring'
  BY <1>o, <1>v DEF Restoring
\* A step of another call: initialize() is over.
<1>c. ASSUME NEW c \in Calls \ {Boot}, Ready \/ pc[c] \in Running PROVE pc[Boot] # "me"
  BY <1>c, <1>v DEF Ready, Booting
<1>p. ASSUME NEW c \in Calls \ {Boot}, NEW step, Ready \/ pc[c] \in Running,
             pc' = [pc EXCEPT ![c] = step]
      PROVE  Restoring'
  BY <1>p, <1>t, <1>o, <1>c, Kinds
<1>f. ASSUME NEW F \in SUBSET Calls, Finish(F),
             pc[Boot] # "me" \/ Boot \in F
      PROVE  Restoring'
  <2>1. pc'[Boot] \in {pc[Boot], "done"} /\ (Boot \in F => pc'[Boot] = "done")
    BY <1>f, FinishCalls, Kinds
  <2>. QED
    BY <1>f, <1>o, <2>1 DEF Restoring
<1>q. ASSUME UNCHANGED <<pc, user, stored, tokens>> PROVE Restoring'
  BY <1>q, <1>v DEF Restoring
\* The refresh that is outstanding is the one initialize() runs.
<1>w. ASSUME NEW p \in Calls, presenting[p] # None, pc[Boot] = "me"
      PROVE  p = Boot /\ awaits[Boot] = Boot /\ presenting[p] = tokens
  <2>1. awaits[p] = p /\ pc[p] \in Running
    BY <1>v, <1>w, <1>n, Kinds DEF Waiters
  <2>2. p = Boot
    BY <1>v, <1>w, <2>1 DEF Booting
  <2>. QED
    BY <1>v, <1>w, <2>1, <2>2, Kinds DEF Booting
<1>1. ASSUME NEW l \in Logins, NEW u \in Users, StartLogin(l, u) PROVE Restoring'
  BY <1>1, <1>p, Kinds DEF StartLogin
<1>2. ASSUME NEW c \in Logouts, StartLogout(c) PROVE Restoring'
  BY <1>2, <1>p, Kinds DEF StartLogout, Request
<1>3. ASSUME NEW c \in Reads, StartRead(c) PROVE Restoring'
  BY <1>3, <1>p, Kinds DEF StartRead, Request
<1>4. ASSUME NEW c \in KeyCalls, StartKey(c) PROVE Restoring'
  <2>1. c \in Calls \ {Boot} /\ Ready /\ pc[Boot] # "me"
    BY <1>4, <1>c, Kinds DEF StartKey
  <2>2. CASE Finish({c})
    BY <2>1, <2>2, <1>f
  <2>3. CASE Request(c, "key")
    BY <2>1, <2>3, <1>p DEF Request
  <2>. QED
    BY <1>4, <2>2, <2>3 DEF StartKey
<1>5. ASSUME NEW p \in Calls, BackendRotates(p) PROVE Restoring'
  BY <1>5, <1>q DEF BackendRotates
<1>6. ASSUME NEW p \in Calls, RefreshGranted(p) PROVE Restoring'
  <2>1. /\ presenting[p] # None /\ UNCHANGED <<pc, user, stored>>
        /\ tokens' = [login |-> presenting[p].login, gen |-> presenting[p].gen + 1, dapp |-> FALSE]
    BY <1>6 DEF RefreshGranted
  <2>2. CASE pc[Boot] # "me"
    BY <1>o, <2>1, <2>2
  <2>3. CASE pc[Boot] = "me"
    <3>1. tokens'.login = tokens.login
      BY <1>w, <2>1, <2>3
    <3>2. tokens' # None
      <4>1. (RefreshInv /\ [Next]_vars => RefreshInv')
        BY RefreshStep
      <4>2. tokens' \in Token \cup {None} /\ presenting[p] \in Token
        BY <1>v, <2>1, <4>1 DEF RefreshInv, TypeInv, TypeOK
      <4>3. presenting[p].login \in Logins /\ presenting[p].gen \in 0 .. MaxGen
            /\ presenting[p].gen < MaxGen
        BY <1>v, <2>1, <4>2, TokenParts DEF RefreshInv, TypeInv, BelowBound
      <4>4. tokens' \in Token
        BY <2>1, <4>3, CallsAssumption DEF Token
      <4>. QED
        BY <4>4, TokenParts
    <3>. QED
      BY <1>v, <2>1, <2>3, <3>1, <3>2 DEF Restoring
  <2>. QED
    BY <2>2, <2>3
<1>7. ASSUME NEW p \in Calls, RefreshFails(p) PROVE Restoring'
  <2>1. presenting[p] # None /\ Finish(Waiting(p))
    BY <1>7 DEF RefreshFails, End
  <2>2. Waiting(p) \in SUBSET Calls /\ (pc[Boot] = "me" => Boot \in Waiting(p))
    BY <1>w, <2>1, Kinds DEF Waiting
  <2>. QED
    BY <1>f, <2>1, <2>2
<1>8. ASSUME NEW c \in Calls, RequestFails(c) PROVE Restoring'
  <2>1. Finish({c}) /\ pc[c] \in Running
    BY <1>8, <1>n DEF RequestFails, End, Sent
  <2>. QED
    BY <1>c, <1>f, <2>1
<1>9. ASSUME NEW l \in Logins, LoginAnswers(l) PROVE Restoring'
  BY <1>9, <1>p, <1>n, Kinds DEF LoginAnswers
<1>10. ASSUME NEW l \in Logins, StoreTokens(l) PROVE Restoring'
  <2>1. l \in Calls \ {Boot} /\ pc[l] \in Running /\ Finish({l})
    BY <1>10, <1>n, Kinds DEF StoreTokens
  <2>. QED
    BY <1>c, <1>f, <2>1
<1>10f. ASSUME NEW l \in Logins, StoreTokensFails(l) PROVE Restoring'
  <2>1. l \in Calls \ {Boot} /\ pc[l] \in Running /\ Finish({l})
    BY <1>10f, <1>n, Kinds DEF StoreTokensFails
  <2>. QED
    BY <1>c, <1>f, <2>1
<1>11. ASSUME NEW c \in Logouts, RevokeAnswers(c) PROVE Restoring'
  BY <1>11, <1>p, <1>n, Kinds DEF RevokeAnswers, Request
<1>12. ASSUME NEW c \in Logouts, LogoutAnswers(c) PROVE Restoring'
  <2>1. c \in Calls \ {Boot} /\ pc[c] \in Running /\ Finish({c})
    BY <1>12, <1>n, Kinds DEF LogoutAnswers, End
  <2>. QED
    BY <1>c, <1>f, <2>1
<1>13. CASE MeAnswers
  BY <1>13, <1>f, Kinds DEF MeAnswers
<1>14. ASSUME NEW c \in Reads, ReadAnswers(c) PROVE Restoring'
  <2>1. c \in Calls \ {Boot} /\ pc[c] \in Running /\ Finish({c})
    BY <1>14, <1>n, Kinds DEF ReadAnswers
  <2>. QED
    BY <1>c, <1>f, <2>1
<1>15. ASSUME NEW c \in KeyCalls, KeyAnswers(c) PROVE Restoring'
  BY <1>15, <1>p, <1>n, Kinds DEF KeyAnswers
<1>16. ASSUME NEW c \in KeyCalls, Decrypted(c) PROVE Restoring'
  <2>1. c \in Calls \ {Boot} /\ pc[c] \in Running /\ pc[Boot] # "me"
    BY <1>16, <1>c, <1>n, Kinds DEF Decrypted
  <2>. QED
    BY <1>16, <1>f, <1>p, <2>1 DEF Decrypted
<1>17. ASSUME NEW c \in KeyCalls, Saved(c) PROVE Restoring'
  BY <1>17, <1>p, <1>n, Kinds DEF Saved
<1>18. ASSUME NEW c \in KeyCalls, Loaded(c) PROVE Restoring'
  <2>1. c \in Calls \ {Boot} /\ pc[c] \in Running /\ Finish({c})
    BY <1>18, <1>n, Kinds DEF Loaded
  <2>. QED
    BY <1>c, <1>f, <2>1
<1>19. ASSUME NEW t \in {tokens, stored}, Age(t) PROVE Restoring'
  BY <1>19, <1>q DEF Age
<1>20. CASE Reload
  <2>1. /\ tokens' = stored /\ user' = None /\ stored' = stored
        /\ pc'[Boot] = IF stored # None THEN "me"
                       ELSE IF pc[Boot] \in Running THEN "done" ELSE pc[Boot]
    BY <1>20, Kinds DEF Reload
  <2>2. pc[Boot] \in Running \/ pc[Boot] = "done"
    BY <1>n, <1>v DEF Restoring
  <2>. QED
    BY <2>1, <2>2 DEF Restoring
<1>21. CASE UNCHANGED vars
  BY <1>21, <1>q DEF vars
<1>. QED
  BY <1>1, <1>2, <1>3, <1>4, <1>5, <1>6, <1>7, <1>8, <1>9, <1>10, <1>10f, <1>11, <1>12, <1>13,
     <1>14, <1>15, <1>16, <1>17, <1>18, <1>19, <1>20, <1>21
  DEF Next, Continues

\* After a logout that nothing overlapped the tokens, the user and the
\* reconstructed key are gone, and no call is under way that could bring them
\* back, until somebody logs in.
THEOREM LogoutsForget == Spec => []LogoutForgets
<1>1. Init => OwnerInv /\ LogoutForgets
  BY OwnerInit DEF Init, LogoutForgets
<1>2. OwnerInv /\ LogoutForgets /\ [Next]_vars => (OwnerInv /\ LogoutForgets)'
  BY OwnerStep, LogoutForgetsStep
<1>. QED
  BY <1>1, <1>2, PTL DEF Spec

\* However logins, logouts, refreshes, failed writes and reloads overlap, the
\* stored tokens are those of the user who is logged in, but while the latest
\* login has its own to store or after its outcome was bad.
THEOREM ReloadsKeepTheUser == Spec => []ReloadKeepsUser
<1>1. Init => OwnerInv /\ KeepInv
  <2> SUFFICES ASSUME Init PROVE KeepInv
    BY OwnerInit
  <2>1. pc[Boot] = "done" /\ \A l \in Logins : pc[l] = "idle"
    BY Kinds DEF Init
  <2>. QED
    BY <2>1 DEF Init, KeepInv, Restoring, Storing, StoredIsOwn, ReloadKeepsUser
<1>2. OwnerInv /\ KeepInv /\ [Next]_vars => (OwnerInv /\ KeepInv)'
  BY OwnerStep, KeepStep, RestoringStep DEF KeepInv
<1>3. KeepInv => ReloadKeepsUser
  BY DEF KeepInv, StoredIsOwn
<1>. QED
  BY <1>1, <1>2, <1>3, PTL DEF Spec
=============================================================================
