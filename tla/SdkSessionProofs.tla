-------------------------- MODULE SdkSessionProofs --------------------------
(***************************************************************************)
(* Theorems about SdkSession, for any users, calls and bounds.             *)
(***************************************************************************)
EXTENDS SdkSession, TLAPS

(***************************************************************************)
(* The inductive invariant.  Its parts:                                    *)
(*   - tokens are only refreshed below the bound on rotations;             *)
(*   - a token the client holds was issued: its login was answered, and    *)
(*     the backend has rotated it at least as often as it says;            *)
(*   - refreshPromise is set as long as the refresh it stands for, and the *)
(*     token it presents is not spent;                                     *)
(*   - the token a granted refresh will bring is one rotation ahead of all *)
(*     those of its login that are spent.                                  *)
(***************************************************************************)
BelowBound ==
    /\ \A t \in aged : t.gen < MaxGen
    /\ \A p \in Calls : presenting[p] # None => presenting[p].gen < MaxGen

TypeInv == TypeOK /\ BelowBound

Issued(t) == t # None => t.gen <= gen[t.login] /\ pc[t.login] \notin {"idle", "login"}

AllIssued ==
    /\ Issued(tokens) /\ Issued(stored)
    /\ \A t \in spent : Issued(t)
    /\ \A c \in Calls : Issued(presenting[c]) /\ Issued(cred[c])

Unspent ==
    /\ tokens \notin spent
    /\ \A p \in Calls : presenting[p] # None => refreshPromise = p /\ presenting[p] \notin spent

GrantedAhead ==
    \A p \in granted :
        /\ presenting[p] # None
        /\ gen[presenting[p].login] = presenting[p].gen + 1
        /\ \A t \in spent : t.login = presenting[p].login => t.gen <= presenting[p].gen

RefreshInv == TypeInv /\ AllIssued /\ Unspent /\ GrantedAhead

-----------------------------------------------------------------------------
(* Type correctness.                                                       *)

LEMMA TokenParts ==
    ASSUME NEW t \in Token
    PROVE  /\ t # None
           /\ t.login \in Logins /\ t.gen \in 0 .. MaxGen
           /\ t.login \in Calls
BY NoneIsNoToken DEF Token, Calls

\* A request leaves the call, the token it waits for and the header well typed.
LEMMA RequestType ==
    ASSUME TypeInv, NEW c \in Calls, NEW step \in Requests, Request(c, step)
    PROVE  /\ pc' \in [Calls -> {"idle", "done"} \cup Running]
           /\ awaits' \in [Calls -> Calls \cup {None}]
           /\ cred' \in [Calls -> Token \cup {None}]
           /\ refreshPromise' \in Calls \cup {None}
           /\ presenting' \in [Calls -> Token \cup {None}]
           /\ \A p \in Calls : presenting'[p] # None => presenting'[p].gen < MaxGen
BY DEF TypeInv, TypeOK, BelowBound, Request, RefreshAccessToken, Running

\* So does the end of calls.
LEMMA EndType ==
    ASSUME TypeInv, NEW F \in SUBSET Calls, NEW t \in Token \cup {None}, End(F, t)
    PROVE  /\ pc' \in [Calls -> {"idle", "done"} \cup Running]
           /\ awaits' \in [Calls -> Calls \cup {None}]
           /\ cred' \in [Calls -> Token \cup {None}]
           /\ share' \in [Calls -> Users \cup {None}]
           /\ saveAs' \in [Calls -> Users \cup {None}]
           /\ caller' \in [Calls -> Users \cup {None}]
           /\ tokens' \in Token \cup {None} /\ stored' \in Token \cup {None}
           /\ user' \in Users \cup {None} /\ cachedKey' \in Users \cup {None}
           /\ cleared' \in BOOLEAN /\ latest' \in Logins \cup {None} /\ outdated' \in BOOLEAN
BY DEF TypeInv, TypeOK, End, Finish, Forget

LEMMA FinishType ==
    ASSUME TypeInv, NEW F \in SUBSET Calls, Finish(F)
    PROVE  /\ pc' \in [Calls -> {"idle", "done"} \cup Running]
           /\ awaits' \in [Calls -> Calls \cup {None}]
           /\ cred' \in [Calls -> Token \cup {None}]
           /\ share' \in [Calls -> Users \cup {None}]
           /\ saveAs' \in [Calls -> Users \cup {None}]
           /\ caller' \in [Calls -> Users \cup {None}]
BY DEF TypeInv, TypeOK, Finish

LEMMA TypeInit == Init => TypeInv
<1> SUFFICES ASSUME Init PROVE TypeInv
  OBVIOUS
<1>1. 0 \in 0 .. MaxGen /\ 0 \in 0 .. MaxLoads
  BY CallsAssumption
<1>2. TypeOK
  BY <1>1 DEF Init, TypeOK
<1>3. BelowBound
  BY DEF Init, BelowBound
<1>. QED
  BY <1>2, <1>3 DEF TypeInv

LEMMA TypeStep == TypeInv /\ [Next]_vars => TypeInv'
<1> SUFFICES ASSUME TypeInv, [Next]_vars PROVE TypeInv'
  OBVIOUS
<1> USE DEF clientVars, callVars, storageVars, backendVars, historyVars, storeHistory
<1>c. /\ Logins \subseteq Calls /\ Logouts \subseteq Calls /\ Reads \subseteq Calls
      /\ KeyCalls \subseteq Calls /\ Boot \in Calls
      /\ \A c \in Calls : {c} \in SUBSET Calls
      /\ {"me", "login", "read", "key", "revoke", "logout"} = Requests
      /\ Requests \cup {"storing", "decrypting", "saving", "loading"} = Running
  BY DEF Calls, Requests, Running
<1>w. \A p \in Calls : Waiting(p) \in SUBSET Calls
  BY DEF Waiting
<1>1. ASSUME NEW l \in Logins, NEW u \in Users, StartLogin(l, u) PROVE TypeInv'
  BY <1>1, <1>c DEF StartLogin, TypeInv, TypeOK, BelowBound
<1>2. ASSUME NEW c \in Logouts, StartLogout(c) PROVE TypeInv'
  <2>1. Request(c, IF tokens # None /\ tokens.dapp THEN "revoke" ELSE "logout")
    BY <1>2 DEF StartLogout
  <2>2. (IF tokens # None /\ tokens.dapp THEN "revoke" ELSE "logout") \in Requests
    BY <1>c
  <2>. QED
    BY <1>2, <1>c, <2>1, <2>2, RequestType DEF StartLogout, TypeInv, TypeOK, BelowBound
<1>3. ASSUME NEW c \in Reads, StartRead(c) PROVE TypeInv'
  BY <1>3, <1>c, RequestType DEF StartRead, TypeInv, TypeOK, BelowBound
<1>4. ASSUME NEW c \in KeyCalls, StartKey(c) PROVE TypeInv'
  <2>1. CASE Finish({c}) /\ UNCHANGED <<refreshPromise, presenting>>
    BY <1>4, <1>c, <2>1, FinishType DEF StartKey, TypeInv, TypeOK, BelowBound
  <2>2. CASE Request(c, "key") /\ caller' = [caller EXCEPT ![c] = user]
             /\ UNCHANGED <<share, saveAs>>
    BY <1>4, <1>c, <2>2, RequestType DEF StartKey, TypeInv, TypeOK, BelowBound
  <2>. QED
    BY <1>4, <2>1, <2>2 DEF StartKey
<1>5. ASSUME NEW p \in Calls, BackendRotates(p) PROVE TypeInv'
  <2>1. presenting[p] \in Token /\ presenting[p].gen < MaxGen
    BY <1>5 DEF BackendRotates, TypeInv, TypeOK, BelowBound
  <2>2. gen' \in [Logins -> 0 .. MaxGen]
    BY <1>5, <2>1, TokenParts, CallsAssumption DEF BackendRotates, TypeInv, TypeOK
  <2>. QED
    BY <1>5, <2>2 DEF BackendRotates, TypeInv, TypeOK, BelowBound
<1>6. ASSUME NEW p \in Calls, RefreshGranted(p) PROVE TypeInv'
  <2>1. presenting[p] \in Token /\ presenting[p].gen < MaxGen
    BY <1>6 DEF RefreshGranted, TypeInv, TypeOK, BelowBound
  <2>2. tokens' \in Token
    BY <1>6, <2>1, TokenParts, CallsAssumption DEF RefreshGranted, Token
  <2>3. /\ cred' \in [Calls -> Token \cup {None}]
        /\ awaits' \in [Calls -> Calls \cup {None}]
    BY <1>6, <2>2 DEF RefreshGranted, Continue, TypeInv, TypeOK
  <2>. QED
    BY <1>6, <2>1, <2>2, <2>3 DEF RefreshGranted, Settle, TypeInv, TypeOK, BelowBound
<1>7. ASSUME NEW p \in Calls, RefreshFails(p) PROVE TypeInv'
  <2>1. presenting[p] \in Token
    BY <1>7 DEF RefreshFails, TypeInv, TypeOK
  <2>2. PICK t \in Token \cup {None} : End(Waiting(p), t)
    BY <1>7 DEF RefreshFails, TypeInv, TypeOK
  <2>. QED
    BY <1>7, <1>w, <2>1, <2>2, EndType DEF RefreshFails, Settle, TypeInv, TypeOK, BelowBound
<1>8. ASSUME NEW c \in Calls, RequestFails(c) PROVE TypeInv'
  <2>1. revoked' \subseteq Logins
    BY <1>8, TokenParts DEF RequestFails, Accepted, TypeInv, TypeOK
  <2>2. tokens \in Token \cup {None} /\ End({c}, tokens)
    BY <1>8 DEF RequestFails, TypeInv, TypeOK
  <2>. QED
    BY <1>8, <1>c, <2>1, <2>2, EndType DEF RequestFails, TypeInv, TypeOK, BelowBound
<1>9. ASSUME NEW l \in Logins, LoginAnswers(l) PROVE TypeInv'
  <2>1. PICK d \in BOOLEAN : SetSession(l, d)
    BY <1>9 DEF LoginAnswers
  <2>2. tokens' \in Token /\ user' \in Users \cup {None}
    BY <2>1, CallsAssumption DEF SetSession, Token, TypeInv, TypeOK
  <2>. QED
    BY <1>9, <1>c, <2>2 DEF LoginAnswers, TypeInv, TypeOK, BelowBound
<1>10. ASSUME NEW l \in Logins, StoreTokens(l) PROVE TypeInv'
  BY <1>10, <1>c, FinishType DEF StoreTokens, TokensToStore, TypeInv, TypeOK, BelowBound
<1>10f. ASSUME NEW l \in Logins, StoreTokensFails(l) PROVE TypeInv'
  BY <1>10f, <1>c, FinishType DEF StoreTokensFails, TypeInv, TypeOK, BelowBound
<1>11. ASSUME NEW c \in Logouts, RevokeAnswers(c) PROVE TypeInv'
  <2>1. revoked' \subseteq Logins
    BY <1>11, <1>c, TokenParts DEF RevokeAnswers, Accepted, TypeInv, TypeOK
  <2>. QED
    BY <1>11, <1>c, <2>1, RequestType DEF RevokeAnswers, TypeInv, TypeOK, BelowBound
<1>12. ASSUME NEW c \in Logouts, LogoutAnswers(c) PROVE TypeInv'
  <2>1. revoked' \subseteq Logins
    BY <1>12, <1>c, TokenParts DEF LogoutAnswers, Accepted, TypeInv, TypeOK
  <2>2. tokens \in Token \cup {None} /\ End({c}, tokens)
    BY <1>12 DEF LogoutAnswers, TypeInv, TypeOK
  <2>. QED
    BY <1>12, <1>c, <2>1, <2>2, EndType DEF LogoutAnswers, TypeInv, TypeOK, BelowBound
<1>13. CASE MeAnswers
  <2>1. user' \in Users \cup {None}
    BY <1>13, <1>c, TokenParts DEF MeAnswers, Accepted, Owner, TypeInv, TypeOK
  <2>. QED
    BY <1>13, <1>c, <2>1, FinishType DEF MeAnswers, TypeInv, TypeOK, BelowBound
<1>14. ASSUME NEW c \in Reads, ReadAnswers(c) PROVE TypeInv'
  BY <1>14, <1>c, FinishType DEF ReadAnswers, TypeInv, TypeOK, BelowBound
<1>15. ASSUME NEW c \in KeyCalls, KeyAnswers(c) PROVE TypeInv'
  <2>1. Owner(cred[c]) \in Users \cup {None}
    BY <1>15, <1>c, TokenParts DEF KeyAnswers, Accepted, Owner, TypeInv, TypeOK
  <2>. QED
    BY <1>15, <1>c, <2>1 DEF KeyAnswers, TypeInv, TypeOK, BelowBound
<1>16. ASSUME NEW c \in KeyCalls, Decrypted(c) PROVE TypeInv'
  <2>1. CASE kmUser = None /\ Finish({c})
    <3>1. unbound' \subseteq KeyCalls
      BY <1>16 DEF Decrypted, TypeInv, TypeOK
    <3>. QED
      BY <1>16, <1>c, <2>1, <3>1, FinishType DEF Decrypted, TypeInv, TypeOK, BelowBound
  <2>2. CASE kmUser # None
    BY <1>16, <1>c, <2>2 DEF Decrypted, TypeInv, TypeOK, BelowBound
  <2>. QED
    BY <1>16, <2>1, <2>2 DEF Decrypted
<1>17. ASSUME NEW c \in KeyCalls, Saved(c) PROVE TypeInv'
  <2>1. pc' \in [Calls -> {"idle", "done"} \cup Running]
    BY <1>17, <1>c DEF Saved, Running, TypeInv, TypeOK
  <2>2. backendShares' \in [Users -> Users \cup {None}]
    BY <1>17, <1>c DEF Saved, TypeInv, TypeOK
  <2>3. BelowBound'
    BY <1>17 DEF Saved, clientVars, backendVars, historyVars, TypeInv, BelowBound
  <2>. QED
    BY <1>17, <2>1, <2>2, <2>3 DEF Saved, TypeInv, TypeOK
<1>18. ASSUME NEW c \in KeyCalls, Loaded(c) PROVE TypeInv'
  <2>1. cachedKey' \in Users \cup {None}
    BY <1>18, <1>c DEF Loaded, TypeInv, TypeOK
  <2>. QED
    BY <1>18, <1>c, <2>1, FinishType DEF Loaded, TypeInv, TypeOK, BelowBound
<1>19. ASSUME NEW t \in {tokens, stored}, Age(t) PROVE TypeInv'
  <2>1. t \in Token /\ t.gen < MaxGen
    BY <1>19 DEF Age, TypeInv, TypeOK
  <2>. QED
    BY <1>19, <2>1 DEF Age, TypeInv, TypeOK, BelowBound
<1>20. CASE Reload
  <2> DEFINE due == stored # None /\ stored \in aged
  <2>1. /\ refreshPromise' = IF due THEN Boot ELSE None
        /\ presenting' = [c \in Calls |-> IF c = Boot /\ due THEN stored ELSE None]
        /\ awaits' = [c \in Calls |-> IF c = Boot /\ due THEN Boot ELSE None]
        /\ cred' = [c \in Calls |-> IF c = Boot /\ ~ due THEN stored ELSE None]
    BY <1>20 DEF Reload
  <2>2. stored \in Token \cup {None} /\ (due => stored.gen < MaxGen)
    BY DEF TypeInv, TypeOK, BelowBound
  <2>3. /\ refreshPromise' \in Calls \cup {None}
        /\ presenting' \in [Calls -> Token \cup {None}]
        /\ awaits' \in [Calls -> Calls \cup {None}]
        /\ cred' \in [Calls -> Token \cup {None}]
    BY <2>1, <2>2, <1>c
  <2>4. pc' \in [Calls -> {"idle", "done"} \cup Running]
    BY <1>20, <1>c DEF Reload, TypeInv, TypeOK
  <2>5. loads' \in 0 .. MaxLoads
    BY <1>20, CallsAssumption DEF Reload, TypeInv, TypeOK
  <2>6. BelowBound'
    BY <1>20, <2>1, <2>2 DEF Reload, BelowBound, TypeInv
  <2> HIDE DEF due
  <2>7. TypeOK'
    BY <1>20, <2>2, <2>3, <2>4, <2>5 DEF Reload, TypeInv, TypeOK
  <2>. QED
    BY <2>6, <2>7 DEF TypeInv
<1>21. CASE UNCHANGED vars
  BY <1>21 DEF vars, TypeInv, TypeOK, BelowBound
<1>. QED
  BY <1>1, <1>2, <1>3, <1>4, <1>5, <1>6, <1>7, <1>8, <1>9, <1>10, <1>10f, <1>11, <1>12, <1>13,
     <1>14, <1>15, <1>16, <1>17, <1>18, <1>19, <1>20, <1>21
  DEF Next, Continues

\* Every variable keeps its type; in particular a login's tokens are never
\* rotated beyond what the backend has issued.
THEOREM TypeCorrect == Spec => []TypeOK
<1>1. Spec => []TypeInv
  BY TypeInit, TypeStep, PTL DEF Spec
<1>2. TypeInv => TypeOK
  BY DEF TypeInv
<1>. QED
  BY <1>1, <1>2, PTL

-----------------------------------------------------------------------------
(* One refresh at a time.                                                  *)

\* No step takes a login or the backend's count of its rotations back.
Forward ==
    \A l \in Logins :
        /\ gen[l] <= gen'[l]
        /\ pc[l] \notin {"idle", "login"} => pc'[l] \notin {"idle", "login"}

LEMMA IssuedStays ==
    ASSUME TypeOK, TypeOK', Forward, NEW t \in Token \cup {None}, Issued(t)
    PROVE  t # None => t.gen <= gen'[t.login] /\ pc'[t.login] \notin {"idle", "login"}
<1> SUFFICES ASSUME t # None
             PROVE  t.gen <= gen'[t.login] /\ pc'[t.login] \notin {"idle", "login"}
  OBVIOUS
<1>1. t.login \in Logins /\ t.gen \in 0 .. MaxGen
  BY TokenParts
<1>2. gen[t.login] \in 0 .. MaxGen /\ gen'[t.login] \in 0 .. MaxGen
  BY <1>1 DEF TypeOK
<1>3. t.gen <= gen[t.login] /\ gen[t.login] <= gen'[t.login]
  BY <1>1 DEF Issued, Forward
<1>4. t.gen <= gen'[t.login]
  BY <1>1, <1>2, <1>3, CallsAssumption
<1>. QED
  BY <1>1, <1>4 DEF Issued, Forward

\* A step that brings no new token keeps the issued ones issued.
LEMMA IssuedKept ==
    ASSUME TypeOK, TypeOK', Forward, AllIssued,
           tokens' \in {tokens, stored, None}, stored' \in {stored, None} \cup
               {cred[c] : c \in Calls},
           \A t \in spent' : t \in spent \/ t \in {presenting[c] : c \in Calls},
           \A c \in Calls : presenting'[c] \in {None, tokens, stored, presenting[c]},
           \A c \in Calls : cred'[c] \in {None, tokens, stored, cred[c]}
    PROVE  AllIssued'
<1>1. /\ tokens \in Token \cup {None} /\ stored \in Token \cup {None}
      /\ \A c \in Calls : presenting[c] \in Token \cup {None} /\ cred[c] \in Token \cup {None}
      /\ \A t \in spent : t \in Token \cup {None}
  BY DEF TypeOK
<1>2. /\ tokens # None => tokens.gen <= gen'[tokens.login]
                          /\ pc'[tokens.login] \notin {"idle", "login"}
      /\ stored # None => stored.gen <= gen'[stored.login]
                          /\ pc'[stored.login] \notin {"idle", "login"}
  BY <1>1, IssuedStays DEF AllIssued
<1>3. \A c \in Calls : presenting[c] # None =>
          /\ presenting[c].gen <= gen'[presenting[c].login]
          /\ pc'[presenting[c].login] \notin {"idle", "login"}
  BY <1>1, IssuedStays DEF AllIssued
<1>4. \A c \in Calls : cred[c] # None =>
          /\ cred[c].gen <= gen'[cred[c].login]
          /\ pc'[cred[c].login] \notin {"idle", "login"}
  BY <1>1, IssuedStays DEF AllIssued
<1>5. \A t \in spent : t # None =>
          t.gen <= gen'[t.login] /\ pc'[t.login] \notin {"idle", "login"}
  BY <1>1, IssuedStays DEF AllIssued
<1>6. Issued(tokens)' /\ Issued(stored)'
  BY <1>2, <1>4 DEF Issued
<1>7. \A t \in spent' : t # None =>
          t.gen <= gen'[t.login] /\ pc'[t.login] \notin {"idle", "login"}
  BY <1>3, <1>5
<1>8. \A c \in Calls : presenting'[c] # None =>
          /\ presenting'[c].gen <= gen'[presenting'[c].login]
          /\ pc'[presenting'[c].login] \notin {"idle", "login"}
  BY <1>2, <1>3
<1>9. \A c \in Calls : cred'[c] # None =>
          /\ cred'[c].gen <= gen'[cred'[c].login]
          /\ pc'[cred'[c].login] \notin {"idle", "login"}
  BY <1>2, <1>4
<1>. QED
  BY <1>6, <1>7, <1>8, <1>9 DEF AllIssued, Issued

\* A request runs a refresh of the current tokens only if none is running.
LEMMA RequestRefresh ==
    ASSUME RefreshInv, NEW c \in Calls, NEW step \in Requests, Request(c, step),
           UNCHANGED <<tokens, spent, granted, gen>>
    PROVE  /\ \A p \in Calls : presenting'[p] \in {None, tokens, stored, presenting[p]}
           /\ \A p \in Calls : cred'[p] \in {None, tokens, stored, cred[p]}
           /\ Unspent' /\ GrantedAhead'
<1>t. /\ presenting \in [Calls -> Token \cup {None}] /\ cred \in [Calls -> Token \cup {None}]
      /\ granted \subseteq Calls
  BY DEF RefreshInv, TypeInv, TypeOK
<1>1. \/ UNCHANGED <<refreshPromise, presenting>>
      \/ /\ refreshPromise = None /\ refreshPromise' = c /\ tokens # None
         /\ presenting' = [presenting EXCEPT ![c] = tokens]
  BY DEF Request, RefreshAccessToken
<1>2. cred' = cred \/ cred' = [cred EXCEPT ![c] = tokens]
  BY DEF Request
<1>3. refreshPromise = None => \A p \in Calls : presenting[p] = None
  BY CallsAssumption DEF RefreshInv, Unspent
<1>4. refreshPromise = None => granted = {}
  BY <1>3, <1>t DEF RefreshInv, GrantedAhead
<1>5. Unspent'
  BY <1>1, <1>3, <1>t DEF RefreshInv, Unspent
<1>6. GrantedAhead'
  <2>1. CASE UNCHANGED <<refreshPromise, presenting>>
    BY <2>1 DEF RefreshInv, GrantedAhead
  <2>2. CASE refreshPromise = None
    BY <2>2, <1>4 DEF GrantedAhead
  <2>. QED
    BY <1>1, <2>1, <2>2
<1>7. \A p \in Calls : presenting'[p] \in {None, tokens, stored, presenting[p]}
  BY <1>1, <1>t
<1>8. \A p \in Calls : cred'[p] \in {None, tokens, stored, cred[p]}
  BY <1>2, <1>t
<1>. QED
  BY <1>5, <1>6, <1>7, <1>8

LEMMA StepForward == TypeInv /\ [Next]_vars => Forward
<1> SUFFICES ASSUME TypeInv, [Next]_vars PROVE Forward
  OBVIOUS
<1> USE DEF clientVars, callVars, storageVars, backendVars, historyVars, storeHistory
<1>t. /\ pc \in [Calls -> {"idle", "done"} \cup Running]
      /\ gen \in [Logins -> 0 .. MaxGen]
      /\ \A l \in Logins : gen[l] <= gen[l]
  BY CallsAssumption DEF TypeInv, TypeOK
<1>c. /\ Logins \subseteq Calls
      /\ \A l \in Logins : l \notin Logouts \cup Reads \cup KeyCalls \cup {Boot}
  BY CallsAssumption DEF Calls
\* The calls that are not logins, and those that are over.
<1>r. ASSUME NEW c \in Logouts \cup Reads \cup KeyCalls \cup {Boot}, NEW step,
             pc' = [pc EXCEPT ![c] = step], UNCHANGED gen
      PROVE  Forward
  BY <1>r, <1>t, <1>c DEF Forward
<1>f. ASSUME NEW F, Finish(F), UNCHANGED gen
      PROVE  Forward
  BY <1>f, <1>t, <1>c DEF Forward, Finish
<1>e. ASSUME UNCHANGED <<pc, gen>> PROVE Forward
  BY <1>e, <1>t DEF Forward
<1>1. ASSUME NEW l \in Logins, NEW u \in Users, StartLogin(l, u) PROVE Forward
  BY <1>1, <1>t, <1>c DEF StartLogin, Forward
<1>2. ASSUME NEW c \in Logouts, StartLogout(c) PROVE Forward
  BY <1>2, <1>r DEF StartLogout, Request
<1>3. ASSUME NEW c \in Reads, StartRead(c) PROVE Forward
  BY <1>3, <1>r DEF StartRead, Request
<1>4. ASSUME NEW c \in KeyCalls, StartKey(c) PROVE Forward
  BY <1>4, <1>r, <1>f DEF StartKey, Request
<1>5. ASSUME NEW p \in Calls, BackendRotates(p) PROVE Forward
  <2>1. presenting[p] \in Token
    BY <1>5 DEF BackendRotates, TypeInv, TypeOK
  <2>2. \A l \in Logins : gen[l] <= gen'[l]
    BY <1>5, <1>t, <2>1, TokenParts, CallsAssumption DEF BackendRotates
  <2>. QED
    BY <1>5, <2>2 DEF BackendRotates, Forward
<1>6. ASSUME NEW p \in Calls, RefreshGranted(p) PROVE Forward
  BY <1>6, <1>e DEF RefreshGranted
<1>7. ASSUME NEW p \in Calls, RefreshFails(p) PROVE Forward
  BY <1>7, <1>f DEF RefreshFails, End
<1>8. ASSUME NEW c \in Calls, RequestFails(c) PROVE Forward
  BY <1>8, <1>f DEF RequestFails, End
<1>9. ASSUME NEW l \in Logins, LoginAnswers(l) PROVE Forward
  BY <1>9, <1>t, <1>c DEF LoginAnswers, Forward
<1>10. ASSUME NEW l \in Logins, StoreTokens(l) PROVE Forward
  BY <1>10, <1>f DEF StoreTokens
<1>10f. ASSUME NEW l \in Logins, StoreTokensFails(l) PROVE Forward
  BY <1>10f, <1>f DEF StoreTokensFails
<1>11. ASSUME NEW c \in Logouts, RevokeAnswers(c) PROVE Forward
  BY <1>11, <1>r DEF RevokeAnswers, Request
<1>12. ASSUME NEW c \in Logouts, LogoutAnswers(c) PROVE Forward
  BY <1>12, <1>f DEF LogoutAnswers, End
<1>13. CASE MeAnswers
  BY <1>13, <1>f DEF MeAnswers
<1>14. ASSUME NEW c \in Reads, ReadAnswers(c) PROVE Forward
  BY <1>14, <1>f DEF ReadAnswers
<1>15. ASSUME NEW c \in KeyCalls, KeyAnswers(c) PROVE Forward
  BY <1>15, <1>r DEF KeyAnswers
<1>16. ASSUME NEW c \in KeyCalls, Decrypted(c) PROVE Forward
  BY <1>16, <1>r, <1>f DEF Decrypted
<1>17. ASSUME NEW c \in KeyCalls, Saved(c) PROVE Forward
  BY <1>17, <1>r DEF Saved
<1>18. ASSUME NEW c \in KeyCalls, Loaded(c) PROVE Forward
  BY <1>18, <1>f DEF Loaded
<1>19. ASSUME NEW t \in {tokens, stored}, Age(t) PROVE Forward
  BY <1>19, <1>e DEF Age
<1>20. CASE Reload
  BY <1>20, <1>t, <1>c DEF Reload, Forward
<1>21. CASE UNCHANGED vars
  BY <1>21, <1>e DEF vars
<1>. QED
  BY <1>1, <1>2, <1>3, <1>4, <1>5, <1>6, <1>7, <1>8, <1>9, <1>10, <1>10f, <1>11, <1>12, <1>13,
     <1>14, <1>15, <1>16, <1>17, <1>18, <1>19, <1>20, <1>21
  DEF Next, Continues

LEMMA RefreshInit == Init => RefreshInv
<1> SUFFICES ASSUME Init PROVE RefreshInv
  OBVIOUS
<1>1. AllIssued /\ Unspent /\ GrantedAhead
  BY DEF Init, AllIssued, Issued, Unspent, GrantedAhead
<1>. QED
  BY <1>1, TypeInit DEF RefreshInv

LEMMA RefreshStep == RefreshInv /\ [Next]_vars => RefreshInv'
<1> SUFFICES ASSUME RefreshInv, [Next]_vars PROVE (AllIssued /\ Unspent /\ GrantedAhead)'
  BY TypeStep DEF RefreshInv
<1> USE DEF clientVars, callVars, storageVars, backendVars, historyVars, storeHistory
<1>t. TypeOK /\ TypeOK' /\ Forward /\ AllIssued /\ Unspent /\ GrantedAhead
  BY TypeStep, StepForward DEF RefreshInv, TypeInv
<1>c. /\ Logins \subseteq Calls /\ Logouts \subseteq Calls /\ Reads \subseteq Calls
      /\ KeyCalls \subseteq Calls /\ Boot \in Calls
      /\ {"me", "login", "read", "key", "revoke", "logout"} = Requests
  BY DEF Calls, Requests
<1>s. /\ presenting \in [Calls -> Token \cup {None}] /\ cred \in [Calls -> Token \cup {None}]
      /\ tokens \in Token \cup {None} /\ stored \in Token \cup {None}
      /\ granted \subseteq Calls /\ gen \in [Logins -> 0 .. MaxGen] /\ None \notin spent
  BY <1>t, NoneIsNoToken DEF TypeOK
\* Steps that leave the refresh alone.
<1>u. ASSUME UNCHANGED <<refreshPromise, presenting, gen, granted, spent>>,
             tokens' \in {tokens, None}, stored' \in {stored, None} \cup {cred[c] : c \in Calls},
             \A c \in Calls : cred'[c] \in {None, tokens, stored, cred[c]}
      PROVE  (AllIssued /\ Unspent /\ GrantedAhead)'
  <2>1. AllIssued'
    BY <1>u, <1>t, <1>s, IssuedKept
  <2>2. Unspent' /\ GrantedAhead'
    BY <1>u, <1>t, <1>s DEF Unspent, GrantedAhead
  <2>. QED
    BY <2>1, <2>2
\* A request of a call.
<1>q. ASSUME NEW c \in Calls, NEW step \in Requests, Request(c, step),
             UNCHANGED <<tokens, stored, spent, granted, gen>>
      PROVE  (AllIssued /\ Unspent /\ GrantedAhead)'
  <2>1. /\ \A p \in Calls : presenting'[p] \in {None, tokens, stored, presenting[p]}
        /\ \A p \in Calls : cred'[p] \in {None, tokens, stored, cred[p]}
        /\ Unspent' /\ GrantedAhead'
    BY <1>q, RequestRefresh
  <2>2. AllIssued'
    BY <1>q, <1>t, <2>1, IssuedKept
  <2>. QED
    BY <2>1, <2>2
<1>f. ASSUME NEW F, Finish(F)
      PROVE  \A c \in Calls : cred'[c] \in {None, tokens, stored, cred[c]}
  BY <1>f DEF Finish
<1>1. ASSUME NEW l \in Logins, NEW u \in Users, StartLogin(l, u)
      PROVE  (AllIssued /\ Unspent /\ GrantedAhead)'
  BY <1>1, <1>u, <1>s DEF StartLogin
<1>2. ASSUME NEW c \in Logouts, StartLogout(c) PROVE (AllIssued /\ Unspent /\ GrantedAhead)'
  <2>1. Request(c, IF tokens # None /\ tokens.dapp THEN "revoke" ELSE "logout")
    BY <1>2 DEF StartLogout
  <2>2. (IF tokens # None /\ tokens.dapp THEN "revoke" ELSE "logout") \in Requests
    BY <1>c
  <2>. QED
    BY <1>2, <2>1, <2>2, <1>c, <1>q DEF StartLogout
<1>3. ASSUME NEW c \in Reads, StartRead(c) PROVE (AllIssued /\ Unspent /\ GrantedAhead)'
  BY <1>3, <1>c, <1>q DEF StartRead
<1>4. ASSUME NEW c \in KeyCalls, StartKey(c) PROVE (AllIssued /\ Unspent /\ GrantedAhead)'
  <2>1. CASE Finish({c}) /\ UNCHANGED <<refreshPromise, presenting>>
    BY <1>4, <2>1, <1>f, <1>u DEF StartKey
  <2>2. CASE Request(c, "key")
    BY <1>4, <2>2, <1>c, <1>q DEF StartKey
  <2>. QED
    BY <1>4, <2>1, <2>2 DEF StartKey
<1>5. ASSUME NEW p \in Calls, BackendRotates(p) PROVE (AllIssued /\ Unspent /\ GrantedAhead)'
  <2>1. AllIssued'
    BY <1>5, <1>t, <1>s, IssuedKept DEF BackendRotates
  <2>2. Unspent'
    BY <1>5, <1>t DEF BackendRotates, Unspent
  <2>3. \A q \in granted' : q = p
    BY <1>5, <1>t, <1>s DEF BackendRotates, Unspent, GrantedAhead
  <2>4. presenting[p] \in Token /\ presenting[p].login \in Logins
    BY <1>5, <1>s, TokenParts DEF BackendRotates
  <2>5. gen'[presenting[p].login] = presenting[p].gen + 1
    BY <1>5, <1>s, <2>4 DEF BackendRotates
  <2>6. \A t \in spent : t.login = presenting[p].login => t.gen <= presenting[p].gen
    BY <1>5, <1>t, <1>s DEF BackendRotates, AllIssued, Issued
  <2>7. GrantedAhead'
    BY <1>5, <2>3, <2>5, <2>6 DEF BackendRotates, GrantedAhead
  <2>. QED
    BY <2>1, <2>2, <2>7
<1>6. ASSUME NEW p \in Calls, RefreshGranted(p) PROVE (AllIssued /\ Unspent /\ GrantedAhead)'
  <2> DEFINE t == presenting[p]
  <2>1. /\ t \in Token /\ t.login \in Logins /\ t.gen \in Nat
        /\ p \in granted /\ gen[t.login] = t.gen + 1
        /\ pc[t.login] \notin {"idle", "login"}
    BY <1>6, <1>s, <1>t, TokenParts, CallsAssumption
    DEF RefreshGranted, GrantedAhead, AllIssued, Issued
  <2>2. /\ tokens' = [login |-> t.login, gen |-> t.gen + 1, dapp |-> FALSE]
        /\ spent' = spent \cup {t}
        /\ presenting' = [presenting EXCEPT ![p] = None]
        /\ granted' = granted \ {p} /\ refreshPromise' = None
        /\ \A c \in Calls : cred'[c] \in {tokens', cred[c]}
        /\ UNCHANGED <<pc, gen, stored>>
    BY <1>6, <1>s DEF RefreshGranted, Settle, Continue
  <2>3. Issued(tokens)'
    BY <2>1, <2>2 DEF Issued
  <2>4. AllIssued'
    <3>1. Issued(stored)' /\ \A c \in Calls : Issued(presenting[c])'
      BY <1>t, <1>s, <2>2 DEF AllIssued, Issued
    <3>2. \A c \in Calls : Issued(cred[c])'
      BY <1>t, <1>s, <2>2, <2>3 DEF AllIssued, Issued
    <3>3. \A r \in spent' : r # None => r.gen <= gen'[r.login] /\ pc'[r.login] \notin {"idle", "login"}
      BY <1>t, <1>s, <2>2 DEF AllIssued, Issued
    <3>. QED
      BY <2>3, <3>1, <3>2, <3>3 DEF AllIssued, Issued
  <2>5. \A q \in Calls : presenting'[q] = None
    BY <1>t, <1>s, <2>1, <2>2, NoneIsNoToken DEF Unspent
  <2>6. tokens' \notin spent'
    <3>1. \A r \in spent' : r.login = t.login => r.gen <= t.gen
      BY <1>t, <2>1, <2>2 DEF GrantedAhead
    <3>. QED
      BY <2>1, <2>2, <3>1
  <2>7. granted' = {}
    BY <1>t, <1>s, <2>1, <2>2, <2>5 DEF GrantedAhead, Unspent
  <2>. QED
    BY <2>4, <2>5, <2>6, <2>7 DEF Unspent, GrantedAhead
<1>7. ASSUME NEW p \in Calls, RefreshFails(p) PROVE (AllIssued /\ Unspent /\ GrantedAhead)'
  <2>1. /\ presenting' = [presenting EXCEPT ![p] = None]
        /\ granted' = granted \ {p} /\ UNCHANGED gen
    BY <1>7 DEF RefreshFails, Settle
  <2>2. /\ tokens' \in {tokens, None} /\ stored' \in {stored, None}
        /\ spent' = spent \/ (tokens' = None /\ spent' = spent \cup {presenting[p]})
    BY <1>7 DEF RefreshFails, End, Forget
  <2>3. \A c \in Calls : cred'[c] \in {None, tokens, stored, cred[c]}
    BY <1>7, <1>f DEF RefreshFails, End
  <2>4. AllIssued'
    BY <1>t, <1>s, <2>1, <2>2, <2>3, IssuedKept
  <2>5. \A q \in Calls : presenting'[q] = None
    BY <1>7, <1>t, <1>s, <2>1 DEF Unspent, RefreshFails
  <2>6. granted' = {}
    BY <1>t, <1>s, <2>1, <2>5 DEF GrantedAhead
  <2>7. tokens' \notin spent'
    BY <1>7, <1>t, <1>s, <2>2 DEF Unspent, RefreshFails
  <2>. QED
    BY <2>4, <2>5, <2>6, <2>7 DEF Unspent, GrantedAhead
<1>8. ASSUME NEW c \in Calls, RequestFails(c) PROVE (AllIssued /\ Unspent /\ GrantedAhead)'
  <2>1. End({c}, tokens)
    BY <1>8 DEF RequestFails
  <2>. QED
    BY <1>8, <2>1, <1>f, <1>u DEF RequestFails, End, Forget
<1>9. ASSUME NEW l \in Logins, LoginAnswers(l) PROVE (AllIssued /\ Unspent /\ GrantedAhead)'
  <2>1. PICK d \in BOOLEAN : tokens' = [login |-> l, gen |-> 0, dapp |-> d]
    BY <1>9 DEF LoginAnswers, SetSession
  <2>2. /\ pc[l] = "login" /\ pc' = [pc EXCEPT ![l] = "storing"]
        /\ cred' = [cred EXCEPT ![l] = tokens']
        /\ UNCHANGED <<refreshPromise, presenting, stored, gen, granted, spent>>
    BY <1>9 DEF LoginAnswers
  <2>3. tokens'.login = l /\ tokens'.gen = 0 /\ gen'[l] \in Nat /\ pc'[l] = "storing"
    BY <1>c, <1>s, <1>t, <2>1, <2>2 DEF TypeOK
  <2>4. Issued(tokens)'
    BY <2>3 DEF Issued
  <2>5. AllIssued'
    <3>1. Issued(stored)' /\ \A c \in Calls : Issued(presenting[c])'
      BY <1>t, <1>s, <2>2, IssuedStays DEF AllIssued, Issued
    <3>2. \A c \in Calls : Issued(cred[c])'
      <4>1. \A c \in Calls : cred'[c] \in {tokens', cred[c]}
        BY <1>s, <2>2
      <4>2. \A c \in Calls : cred[c] # None =>
               cred[c].gen <= gen'[cred[c].login] /\ pc'[cred[c].login] \notin {"idle", "login"}
        BY <1>t, <1>s, IssuedStays DEF AllIssued
      <4>. QED
        BY <2>4, <4>1, <4>2 DEF Issued
    <3>3. \A r \in spent' : r # None => r.gen <= gen'[r.login] /\ pc'[r.login] \notin {"idle", "login"}
      BY <1>t, <2>2, IssuedStays DEF AllIssued, TypeOK
    <3>. QED
      BY <2>4, <3>1, <3>2, <3>3 DEF AllIssued, Issued
  <2>6. \A r \in spent : r.login # l
    BY <1>t, <1>s, <2>2 DEF AllIssued, Issued
  <2>7. Unspent' /\ GrantedAhead'
    BY <1>t, <2>2, <2>3, <2>6 DEF Unspent, GrantedAhead
  <2>. QED
    BY <2>5, <2>7
<1>10. ASSUME NEW l \in Logins, StoreTokens(l) PROVE (AllIssued /\ Unspent /\ GrantedAhead)'
  BY <1>10, <1>c, <1>f, <1>u DEF StoreTokens, TokensToStore
<1>10f. ASSUME NEW l \in Logins, StoreTokensFails(l) PROVE (AllIssued /\ Unspent /\ GrantedAhead)'
  BY <1>10f, <1>c, <1>f, <1>u DEF StoreTokensFails
<1>11. ASSUME NEW c \in Logouts, RevokeAnswers(c) PROVE (AllIssued /\ Unspent /\ GrantedAhead)'
  BY <1>11, <1>c, <1>q DEF RevokeAnswers
<1>12. ASSUME NEW c \in Logouts, LogoutAnswers(c) PROVE (AllIssued /\ Unspent /\ GrantedAhead)'
  <2>1. End({c}, tokens)
    BY <1>12 DEF LogoutAnswers
  <2>. QED
    BY <1>12, <2>1, <1>f, <1>u DEF LogoutAnswers, End, Forget
<1>13. CASE MeAnswers
  BY <1>13, <1>f, <1>u DEF MeAnswers
<1>14. ASSUME NEW c \in Reads, ReadAnswers(c) PROVE (AllIssued /\ Unspent /\ GrantedAhead)'
  BY <1>14, <1>f, <1>u DEF ReadAnswers
<1>15. ASSUME NEW c \in KeyCalls, KeyAnswers(c) PROVE (AllIssued /\ Unspent /\ GrantedAhead)'
  BY <1>15, <1>s, <1>u DEF KeyAnswers
<1>16. ASSUME NEW c \in KeyCalls, Decrypted(c) PROVE (AllIssued /\ Unspent /\ GrantedAhead)'
  BY <1>16, <1>f, <1>u DEF Decrypted
<1>17. ASSUME NEW c \in KeyCalls, Saved(c) PROVE (AllIssued /\ Unspent /\ GrantedAhead)'
  BY <1>17, <1>u DEF Saved
<1>18. ASSUME NEW c \in KeyCalls, Loaded(c) PROVE (AllIssued /\ Unspent /\ GrantedAhead)'
  BY <1>18, <1>f, <1>u DEF Loaded
<1>19. ASSUME NEW t \in {tokens, stored}, Age(t) PROVE (AllIssued /\ Unspent /\ GrantedAhead)'
  BY <1>19, <1>u DEF Age
<1>20. CASE Reload
  <2> DEFINE due == stored # None /\ stored \in aged
  <2>1. /\ tokens' = stored /\ spent' = {} /\ granted' = {}
        /\ UNCHANGED <<stored, gen>>
        /\ refreshPromise' = IF due THEN Boot ELSE None
        /\ presenting' = [c \in Calls |-> IF c = Boot /\ due THEN stored ELSE None]
        /\ cred' = [c \in Calls |-> IF c = Boot /\ ~ due THEN stored ELSE None]
    BY <1>20 DEF Reload
  <2>2. AllIssued'
    BY <1>t, <1>s, <2>1, IssuedKept
  <2>3. Unspent' /\ GrantedAhead'
    BY <2>1, <1>c DEF Unspent, GrantedAhead
  <2>. QED
    BY <2>2, <2>3
<1>21. CASE UNCHANGED vars
  BY <1>21, <1>u DEF vars
<1>. QED
  BY <1>1, <1>2, <1>3, <1>4, <1>5, <1>6, <1>7, <1>8, <1>9, <1>10, <1>10f, <1>11, <1>12, <1>13,
     <1>14, <1>15, <1>16, <1>17, <1>18, <1>19, <1>20, <1>21
  DEF Next, Continues

\* Whatever calls, failures, logouts, logins and reloads interleave: one
\* refresh at a time, and no answered refresh token is presented again.
THEOREM TokensAreRefreshedOnce == Spec => []RefreshedOnce
<1>1. Spec => []RefreshInv
  BY RefreshInit, RefreshStep, PTL DEF Spec
<1>2. RefreshInv => RefreshedOnce
  BY DEF RefreshInv, Unspent, RefreshedOnce
<1>. QED
  BY <1>1, <1>2, PTL
=============================================================================
