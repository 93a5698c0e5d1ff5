----------------------------- MODULE SdkSession -----------------------------
(***************************************************************************)
(* A user's session: the tokens of transport/api-client.ts, and what       *)
(* nero-sdk.ts keeps in memory and in storage about the user.              *)
(*                                                                         *)
(* One SDK object serves every call.  A step is the code between two       *)
(* awaits that wait for the network, a WebCrypto operation or IndexedDB;   *)
(* what runs in the microtasks of one such event is one step, so all calls *)
(* that wait for a token refresh continue when its answer comes.           *)
(*                                                                         *)
(* A token pair is the login it comes from and how often the backend has   *)
(* rotated it since; its key material is the user it belongs to.           *)
(* The retry middleware repeats a request with the headers it was built    *)
(* with, so the attempts are one request here.                             *)
(***************************************************************************)
EXTENDS Naturals

CONSTANTS Users,
          Logins,     \* the login and reconnectSession() calls
          Logouts,    \* the logout() calls
          Reads,      \* the calls of any endpoint that needs authentication
          KeyCalls,   \* the getKeyMaterial() calls
          Boot,       \* the initialize() call of a page
          MaxGen,     \* bound: rotations of a login's tokens
          MaxLoads,   \* bound: page reloads
          None        \* null

Calls == Logins \cup Logouts \cup Reads \cup KeyCalls \cup {Boot}

ASSUME CallsAssumption ==
    /\ Logins \cap (Logouts \cup Reads \cup KeyCalls \cup {Boot}) = {}
    /\ Logouts \cap (Reads \cup KeyCalls \cup {Boot}) = {}
    /\ Reads \cap (KeyCalls \cup {Boot}) = {}
    /\ Boot \notin KeyCalls
    /\ None \notin Users \cup Calls
    /\ MaxGen \in Nat /\ MaxLoads \in Nat

Token == [login : Logins, gen : 0 .. MaxGen, dapp : BOOLEAN]

ASSUME NoneIsNoToken == None \notin Token

VARIABLES
    tokens,         \* APIClient.tokens
    refreshPromise, \* APIClient.refreshPromise: the call that runs the refresh
    presenting,     \* presenting[c]: the tokens whose refresh c has outstanding
    user,           \* NeroMpcSDK._user
    cachedKey,      \* _cachedReconstructedKey: whose backend share it is made of
    kmUser,         \* keyManager.currentUserId
    pc,             \* pc[c]: what call c waits for
    awaits,         \* awaits[c]: the call whose refresh c waits for
    cred,           \* cred[c]: the Authorization header of c's request, the tokens of a login
    share,          \* share[c]: the owner of the backend share c received
    saveAs,         \* saveAs[c]: the user c stores it for
    stored,         \* storage: the tokens
    backendShares,  \* storage: backendShares[u], the owner of the share stored for u
    who,            \* backend: who[l], the user login l authenticated
    gen,            \* backend: gen[l], the rotation of l's tokens that it accepts
    granted,        \* backend: the calls whose refresh it has granted
    revoked,        \* backend: the logins logged out
    aged,           \* the tokens within a minute of their expiry
    loads,          \* page reloads
    caller,         \* history: caller[c], the user when a running c was called
    spent,          \* history: the tokens a refresh was answered for in this page
    crossed,        \* history: a refresh was granted to a client that had moved on
    cleared,        \* history: a logout that nothing overlapped was the last login step
    overlapped,     \* history: a login ran into another one or into a logout
    latest,         \* history: the login that has set the user of this page
    outdated,       \* history: storage holds another login's tokens, or lacks those of the latest
    unbound         \* history: key calls that failed with USER_NOT_INITIALIZED, all logins over and stored

clientVars  == <<tokens, refreshPromise, presenting, user, cachedKey, kmUser>>
callVars    == <<pc, awaits, cred, share, saveAs>>
storageVars == <<stored, backendShares>>
backendVars == <<who, gen, granted, revoked, aged>>
storeHistory == <<latest, outdated>>
historyVars == <<caller, spent, crossed, cleared, overlapped, storeHistory, unbound>>
vars == <<clientVars, callVars, storageVars, backendVars, loads, historyVars>>

Requests == {"me", "login", "read", "key", "revoke", "logout"}

Running == {"storing", "decrypting", "saving", "loading"} \cup Requests

TypeOK ==
    /\ tokens \in Token \cup {None} /\ stored \in Token \cup {None}
    /\ refreshPromise \in Calls \cup {None}
    /\ presenting \in [Calls -> Token \cup {None}]
    /\ user \in Users \cup {None} /\ cachedKey \in Users \cup {None}
    /\ kmUser \in Users \cup {None}
    /\ pc \in [Calls -> {"idle", "done"} \cup Running]
    /\ awaits \in [Calls -> Calls \cup {None}]
    /\ cred \in [Calls -> Token \cup {None}]
    /\ share \in [Calls -> Users \cup {None}] /\ saveAs \in [Calls -> Users \cup {None}]
    /\ backendShares \in [Users -> Users \cup {None}]
    /\ who \in [Logins -> Users \cup {None}]
    /\ gen \in [Logins -> 0 .. MaxGen]
    /\ granted \subseteq Calls /\ revoked \subseteq Logins
    /\ aged \subseteq Token /\ spent \subseteq Token
    /\ loads \in 0 .. MaxLoads
    /\ caller \in [Calls -> Users \cup {None}]
    /\ crossed \in BOOLEAN /\ cleared \in BOOLEAN /\ overlapped \in BOOLEAN
    /\ latest \in Logins \cup {None} /\ outdated \in BOOLEAN
    /\ unbound \subseteq KeyCalls

\* The first page of a device: initialize() found no stored tokens.
Init ==
    /\ tokens = None /\ refreshPromise = None
    /\ presenting = [c \in Calls |-> None]
    /\ user = None /\ cachedKey = None /\ kmUser = None
    /\ pc = [c \in Calls |-> IF c = Boot THEN "done" ELSE "idle"]
    /\ awaits = [c \in Calls |-> None]
    /\ cred = [c \in Calls |-> None]
    /\ share = [c \in Calls |-> None] /\ saveAs = [c \in Calls |-> None]
    /\ stored = None /\ backendShares = [u \in Users |-> None]
    /\ who = [l \in Logins |-> None] /\ gen = [l \in Logins |-> 0]
    /\ granted = {} /\ revoked = {} /\ aged = {} /\ loads = 0
    /\ caller = [c \in Calls |-> None]
    /\ spent = {} /\ crossed = FALSE /\ cleared = FALSE /\ overlapped = FALSE
    /\ latest = None /\ outdated = FALSE /\ unbound = {}

-----------------------------------------------------------------------------
(* request(): every call but the logins needs authentication.              *)

Owner(t) == who[t.login]

\* Mutant: refreshAccessToken() does not look for a refresh under way.
RefreshTwice(c) ==
    /\ awaits' = [awaits EXCEPT ![c] = c]
    /\ refreshPromise' = c
    /\ presenting' = [presenting EXCEPT ![c] = tokens]

\* The call joins the refresh under way or runs one of its own.
RefreshAccessToken(c) ==
    IF refreshPromise # None
    THEN /\ awaits' = [awaits EXCEPT ![c] = refreshPromise]
         /\ UNCHANGED <<refreshPromise, presenting>>
    ELSE /\ awaits' = [awaits EXCEPT ![c] = c]
         /\ refreshPromise' = c
         /\ presenting' = [presenting EXCEPT ![c] = tokens]

Request(c, step) ==
    /\ pc' = [pc EXCEPT ![c] = step]
    /\ IF tokens # None /\ tokens \in aged
       THEN RefreshAccessToken(c) /\ UNCHANGED cred
       ELSE /\ cred' = [cred EXCEPT ![c] = tokens]
            /\ UNCHANGED <<awaits, refreshPromise, presenting>>

Sent(c) == pc[c] \in Requests /\ awaits[c] = None

\* A call that can still change what a logout has cleared.
Lingers(c) ==
    pc[c] \in Running /\ (awaits[c] # None \/ c \in Logins \cup KeyCalls)

Finish(F) ==
    /\ pc' = [c \in Calls |-> IF c \in F THEN "done" ELSE pc[c]]
    /\ awaits' = [c \in Calls |-> IF c \in F THEN None ELSE awaits[c]]
    /\ cred' = [c \in Calls |-> IF c \in F THEN None ELSE cred[c]]
    /\ share' = [c \in Calls |-> IF c \in F THEN None ELSE share[c]]
    /\ saveAs' = [c \in Calls |-> IF c \in F THEN None ELSE saveAs[c]]
    /\ caller' = [c \in Calls |-> IF c \in F THEN None ELSE caller[c]]

\* Mutant: logout() forgets the stored tokens.
ForgetMemory(F, t) ==
    /\ tokens' = IF F \cap (Logouts \cup {Boot}) # {} THEN None ELSE t
    /\ stored' = IF Boot \in F THEN None ELSE stored
    /\ user' = IF F \cap Logouts # {} THEN None ELSE user
    /\ cachedKey' = IF F \cap Logouts # {} THEN None ELSE cachedKey

\* What the calls F do when they are over, with t in APIClient.tokens:
\* logout() clears the session, and so does initialize() when it fails.
Forget(F, t) ==
    /\ tokens' = IF F \cap (Logouts \cup {Boot}) # {} THEN None ELSE t
    /\ stored' = IF F \cap (Logouts \cup {Boot}) # {} THEN None ELSE stored
    /\ user' = IF F \cap Logouts # {} THEN None ELSE user
    /\ cachedKey' = IF F \cap Logouts # {} THEN None ELSE cachedKey

End(F, t) ==
    /\ Finish(F)
    /\ Forget(F, t)
    /\ cleared' = IF F \cap Logouts # {} THEN {c \in Calls \ F : Lingers(c)} = {}
                  ELSE cleared
    /\ latest' = IF F \cap Logouts # {} THEN None ELSE latest
    /\ outdated' = IF F \cap Logouts # {} THEN FALSE ELSE outdated

-----------------------------------------------------------------------------
(* The backend, and the refresh.                                           *)

\* A refresh token is accepted once, in the order of the rotations.
BackendRotates(p) ==
    /\ presenting[p] # None /\ p \notin granted
    /\ presenting[p].gen = gen[presenting[p].login]
    /\ presenting[p].login \notin revoked
    /\ gen' = [gen EXCEPT ![presenting[p].login] = @ + 1]
    /\ granted' = granted \cup {p}
    /\ UNCHANGED <<clientVars, callVars, storageVars, who, revoked, aged, loads, historyVars>>

Settle(p) ==
    /\ refreshPromise' = None
    /\ presenting' = [presenting EXCEPT ![p] = None]
    /\ granted' = granted \ {p}

Waiting(p) == {c \in Calls : awaits[c] = p}

\* Mutant: only the call that runs the refresh goes on.
ContinueOne(p, t) ==
    /\ cred' = [c \in Calls |-> IF c \in Waiting(p) THEN t ELSE cred[c]]
    /\ awaits' = [awaits EXCEPT ![p] = None]

Continue(p, t) ==
    /\ cred' = [c \in Calls |-> IF c \in Waiting(p) THEN t ELSE cred[c]]
    /\ awaits' = [c \in Calls |-> IF c \in Waiting(p) THEN None ELSE awaits[c]]

\* The new tokens replace whatever tokens the client has by now, and they
\* come without the dappShare.
RefreshGranted(p) ==
    /\ presenting[p] # None /\ p \in granted
    /\ LET t == presenting[p]
       IN  /\ tokens' = [login |-> t.login, gen |-> t.gen + 1, dapp |-> FALSE]
           /\ spent' = spent \cup {t}
           /\ crossed' = (crossed \/ tokens # t)
    /\ Continue(p, tokens')
    /\ Settle(p)
    /\ UNCHANGED <<user, cachedKey, kmUser, pc, share, saveAs, storageVars,
                   who, gen, revoked, aged, loads, caller, cleared, overlapped, storeHistory,
                   unbound>>

\* The backend may refuse for reasons of its own, the network may fail with
\* or without the token rotated; a failure keeps the tokens.
RefreshFails(p) ==
    /\ presenting[p] # None
    /\ \/ p \notin granted /\ End(Waiting(p), None) /\ spent' = spent \cup {presenting[p]}
       \/ End(Waiting(p), tokens) /\ UNCHANGED spent
    /\ Settle(p)
    /\ UNCHANGED <<kmUser, backendShares, who, gen, revoked, aged, loads, crossed, overlapped,
                   unbound>>

Age(t) ==
    /\ t # None /\ t \notin aged /\ t.gen < MaxGen
    /\ aged' = aged \cup {t}
    /\ UNCHANGED <<clientVars, callVars, storageVars, who, gen, granted, revoked,
                   loads, historyVars>>

-----------------------------------------------------------------------------
(* The login methods, logout() and initialize().                           *)

Ready == pc[Boot] = "done"

InFlight(S) == {c \in S : pc[c] \in Running}

\* Four methods, and reconnectSession(), which is a login of the user whose
\* dappShare is stored.
StartLogin(l, u) ==
    /\ Ready /\ pc[l] = "idle"
    /\ pc' = [pc EXCEPT ![l] = "login"]
    /\ who' = [who EXCEPT ![l] = u]
    /\ cleared' = FALSE
    /\ overlapped' = (overlapped \/ InFlight(Logins \cup Logouts) # {})
    /\ UNCHANGED <<clientVars, awaits, cred, share, saveAs, storageVars,
                   gen, granted, revoked, aged, loads, caller, spent, crossed, storeHistory,
                   unbound>>

\* Mutant: the login method leaves _user alone.
SetTokensOnly(l, d) ==
    /\ tokens' = [login |-> l, gen |-> 0, dapp |-> d]
    /\ UNCHANGED user

\* Mutant: _user is set to the whole result of the login.
SetResult(l, d) ==
    /\ tokens' = [login |-> l, gen |-> 0, dapp |-> d]
    /\ user' = l

SetSession(l, d) ==
    /\ tokens' = [login |-> l, gen |-> 0, dapp |-> d]
    /\ user' = who[l]

\* A reconnected session has no dappShare, a login may have one.
LoginAnswers(l) ==
    /\ pc[l] = "login"
    /\ \E d \in BOOLEAN : SetSession(l, d)
    /\ cred' = [cred EXCEPT ![l] = tokens']
    /\ pc' = [pc EXCEPT ![l] = "storing"]
    /\ latest' = l
    /\ UNCHANGED <<refreshPromise, presenting, cachedKey, kmUser, awaits, share, saveAs,
                   storageVars, backendVars, loads, caller, spent, crossed, cleared, overlapped,
                   outdated, unbound>>

\* Mutant: stored tokens are kept.
KeepStored(l) == IF stored = None THEN cred[l] ELSE stored

TokensToStore(l) == cred[l]

\* storeTokens(), then keyManager.initialize() for whoever is the user by now.
StoreTokens(l) ==
    /\ pc[l] = "storing"
    /\ stored' = TokensToStore(l)
    /\ kmUser' = IF user # None THEN user ELSE kmUser
    /\ Finish({l})
    /\ outdated' = (l # latest)
    /\ UNCHANGED <<tokens, refreshPromise, presenting, user, cachedKey, backendShares,
                   backendVars, loads, spent, crossed, cleared, overlapped, latest, unbound>>

\* The encryption or the write throws (a full localStorage, an adapter's
\* set()): the login method throws, and the session it has set stays.
StoreTokensFails(l) ==
    /\ pc[l] = "storing"
    /\ Finish({l})
    /\ outdated' = (outdated \/ l = latest)
    /\ UNCHANGED <<clientVars, storageVars, backendVars, loads, spent, crossed, cleared,
                   overlapped, latest, unbound>>

StartLogout(c) ==
    /\ Ready /\ pc[c] = "idle"
    /\ Request(c, IF tokens # None /\ tokens.dapp THEN "revoke" ELSE "logout")
    /\ caller' = [caller EXCEPT ![c] = user]
    /\ overlapped' = (overlapped \/ InFlight(Logins) # {})
    /\ UNCHANGED <<tokens, user, cachedKey, kmUser, share, saveAs, storageVars, backendVars,
                   loads, spent, crossed, cleared, storeHistory, unbound>>

Accepted(c) == Sent(c) /\ cred[c] # None /\ cred[c].login \notin revoked

RevokeAnswers(c) ==
    /\ pc[c] = "revoke" /\ Accepted(c)
    /\ revoked' = revoked \cup {cred[c].login}
    /\ Request(c, "logout")
    /\ UNCHANGED <<tokens, user, cachedKey, kmUser, share, saveAs, storageVars,
                   who, gen, granted, aged, loads, historyVars>>

LogoutAnswers(c) ==
    /\ pc[c] = "logout" /\ Accepted(c)
    /\ revoked' = revoked \cup {cred[c].login}
    /\ End({c}, tokens)
    /\ UNCHANGED <<refreshPromise, presenting, kmUser, backendShares,
                   who, gen, granted, aged, loads, spent, crossed, overlapped, unbound>>

\* The rest of initialize(): the user of the restored tokens.
MeAnswers ==
    /\ pc[Boot] = "me" /\ Accepted(Boot)
    /\ user' = Owner(cred[Boot])
    /\ Finish({Boot})
    /\ UNCHANGED <<tokens, refreshPromise, presenting, cachedKey, kmUser, storageVars,
                   backendVars, loads, spent, crossed, cleared, overlapped, storeHistory,
                   unbound>>

\* Refused, or lost on its way there or back.
RequestFails(c) ==
    /\ Sent(c)
    /\ End({c}, tokens)
    /\ \/ UNCHANGED revoked
       \/ c \in Logouts /\ Accepted(c) /\ revoked' = revoked \cup {cred[c].login}
    /\ UNCHANGED <<refreshPromise, presenting, kmUser, backendShares,
                   who, gen, granted, aged, loads, spent, crossed, overlapped, unbound>>

\* The page is loaded again, and initialize() restores the stored tokens.
Reload ==
    /\ loads < MaxLoads /\ loads' = loads + 1
    /\ tokens' = stored /\ user' = None /\ cachedKey' = None /\ kmUser' = None
    /\ LET due == stored # None /\ stored \in aged
       IN  /\ refreshPromise' = IF due THEN Boot ELSE None
           /\ presenting' = [c \in Calls |-> IF c = Boot /\ due THEN stored ELSE None]
           /\ awaits' = [c \in Calls |-> IF c = Boot /\ due THEN Boot ELSE None]
           /\ cred' = [c \in Calls |-> IF c = Boot /\ ~ due THEN stored ELSE None]
    /\ pc' = [c \in Calls |-> IF c = Boot /\ stored # None THEN "me"
                              ELSE IF pc[c] \in Running THEN "done" ELSE pc[c]]
    /\ share' = [c \in Calls |-> None] /\ saveAs' = [c \in Calls |-> None]
    /\ granted' = {} /\ spent' = {} /\ crossed' = FALSE /\ overlapped' = FALSE
    /\ caller' = [c \in Calls |-> None]
    /\ latest' = None /\ outdated' = FALSE
    /\ UNCHANGED <<storageVars, who, gen, revoked, aged, cleared, unbound>>

-----------------------------------------------------------------------------
(* The calls of a session.                                                 *)

StartRead(c) ==
    /\ Ready /\ pc[c] = "idle"
    /\ Request(c, "read")
    /\ caller' = [caller EXCEPT ![c] = user]
    /\ UNCHANGED <<tokens, user, cachedKey, kmUser, share, saveAs, storageVars, backendVars,
                   loads, spent, crossed, cleared, overlapped, storeHistory, unbound>>

ReadAnswers(c) ==
    /\ pc[c] = "read" /\ Accepted(c)
    /\ Finish({c})
    /\ UNCHANGED <<clientVars, storageVars, backendVars, loads, spent, crossed, cleared,
                   overlapped, storeHistory, unbound>>

\* getKeyMaterial() without a user throws, with a cached key returns it.
StartKey(c) ==
    /\ Ready /\ pc[c] = "idle"
    /\ \/ /\ user = None \/ cachedKey # None
          /\ Finish({c}) /\ UNCHANGED <<refreshPromise, presenting>>
       \/ /\ user # None /\ cachedKey = None
          /\ Request(c, "key")
          /\ caller' = [caller EXCEPT ![c] = user]
          /\ UNCHANGED <<share, saveAs>>
    /\ UNCHANGED <<tokens, user, cachedKey, kmUser, storageVars, backendVars,
                   loads, spent, crossed, cleared, overlapped, storeHistory, unbound>>

KeyAnswers(c) ==
    /\ pc[c] = "key" /\ Accepted(c)
    /\ share' = [share EXCEPT ![c] = Owner(cred[c])]
    /\ pc' = [pc EXCEPT ![c] = "decrypting"] /\ cred' = [cred EXCEPT ![c] = None]
    /\ UNCHANGED <<clientVars, awaits, saveAs, storageVars, backendVars, loads, historyVars>>

\* keyManager.storeBackendShare(): a restored session has not initialized it.
Decrypted(c) ==
    /\ pc[c] = "decrypting"
    /\ \/ /\ kmUser = None
          /\ Finish({c})
          /\ unbound' = IF InFlight(Logins) = {} /\ ~ outdated THEN unbound \cup {c} ELSE unbound
       \/ /\ kmUser # None
          /\ saveAs' = [saveAs EXCEPT ![c] = kmUser]
          /\ pc' = [pc EXCEPT ![c] = "saving"]
          /\ UNCHANGED <<awaits, cred, share, caller, unbound>>
    /\ UNCHANGED <<clientVars, storageVars, backendVars, loads, spent, crossed, cleared,
                   overlapped, storeHistory>>

Saved(c) ==
    /\ pc[c] = "saving"
    /\ backendShares' = [backendShares EXCEPT ![saveAs[c]] = share[c]]
    /\ pc' = [pc EXCEPT ![c] = "loading"]
    /\ UNCHANGED <<clientVars, awaits, cred, share, saveAs, stored, backendVars, loads,
                   historyVars>>

\* getClientShare() finds the client's share, or NO_KEY_SHARE.
Loaded(c) ==
    /\ pc[c] = "loading"
    /\ cachedKey' = share[c] \/ UNCHANGED cachedKey
    /\ Finish({c})
    /\ UNCHANGED <<tokens, refreshPromise, presenting, user, kmUser, storageVars,
                   backendVars, loads, spent, crossed, cleared, overlapped, storeHistory,
                   unbound>>

Continues(c) ==
    \/ RefreshGranted(c) \/ RefreshFails(c) \/ RequestFails(c)
    \/ c \in Logins /\ (LoginAnswers(c) \/ StoreTokens(c) \/ StoreTokensFails(c))
    \/ c \in Logouts /\ (RevokeAnswers(c) \/ LogoutAnswers(c))
    \/ c = Boot /\ MeAnswers
    \/ c \in Reads /\ ReadAnswers(c)
    \/ c \in KeyCalls /\ (KeyAnswers(c) \/ Decrypted(c) \/ Saved(c) \/ Loaded(c))

Next ==
    \/ \E l \in Logins, u \in Users : StartLogin(l, u)
    \/ \E c \in Logouts : StartLogout(c)
    \/ \E c \in Reads : StartRead(c)
    \/ \E c \in KeyCalls : StartKey(c)
    \/ \E c \in Calls : Continues(c) \/ BackendRotates(c)
    \/ \E t \in {tokens, stored} : Age(t)
    \/ Reload

Spec == Init /\ [][Next]_vars

\* Every request is answered or fails, as fetch does in the end, and so do
\* WebCrypto and IndexedDB.
Fairness == \A c \in Calls : WF_vars(Continues(c))

FairSpec == Spec /\ Fairness

-----------------------------------------------------------------------------
(* Properties.                                                             *)

\* However requests, logins and logouts interleave, the client presents a
\* refresh token to one refresh at a time, runs one refresh at a time, and
\* does not present again in this page a token whose refresh was answered.
RefreshedOnce ==
    \A p \in Calls : presenting[p] # None =>
        /\ refreshPromise = p
        /\ presenting[p] \notin spent
        /\ \A q \in Calls \ {p} : presenting[q] = None

\* The tokens are those of the user who is logged in, and every request goes
\* out with tokens of the user who made it or with none, unless the answer of
\* a refresh that a logout or a login overtook has replaced the tokens, or a
\* login overtakes a logout between its two requests: there is no other way in
\* which sessions mix.
SessionsMixOnlyByRefresh ==
    ~ crossed =>
        /\ user # None /\ tokens # None => Owner(tokens) = user
        /\ \A c \in Calls \ Logins :
              /\ Sent(c) /\ caller[c] # None /\ cred[c] # None
              /\ c \in Logouts => ~ overlapped
              => Owner(cred[c]) = caller[c]

\* After a logout that no login, getKeyMaterial() or refresh overlapped, the
\* tokens, in memory and in storage, the user and the reconstructed key are
\* gone, and no refresh, login, key call or initialize() is under way that
\* could bring one of them back, until somebody logs in, in this page or the
\* next.  What logout() does not touch stays: the key manager's user, its
\* caches, the stored backend shares.
LogoutForgets ==
    cleared =>
        /\ tokens = None /\ stored = None /\ user = None /\ cachedKey = None
        /\ pc[Boot] # "me" /\ \A c \in Calls : ~ Lingers(c)

\* What a reload would restore is the session of the user who is logged in,
\* and nobody's when nobody is, whatever overlapping logins, logouts,
\* refreshes, failures and reloads have happened.  It is otherwise only while
\* the latest login has its tokens to store, and after a bad outcome
\* (outdated): the latest login could not store its tokens, or the last to
\* store was a login that another one, or a logout, had overtaken.
ReloadKeepsUser ==
    Ready /\ ~ outdated /\ (latest # None => pc[latest] # "storing") =>
        IF user = None THEN stored = None ELSE stored # None /\ Owner(stored) = user

\* Every call ends, also one that waits for the refresh of another.
CallsEnd == \A c \in Calls : pc[c] \in Running ~> pc[c] \notin Running

\* integration.md: "The private key exists in browser memory only for the
\* duration of the session".
KeyOnlyDuringSession == cachedKey # None => user = cachedKey

\* integration.md: "The backend share is never stored on the client beyond the
\* reconstruction step".
BackendShareNotKept ==
    \A u \in Users : backendShares[u] # None =>
        \E c \in KeyCalls : pc[c] \in {"saving", "loading"}

\* integration.md: "The getKeyMaterial() call works regardless of whether the
\* wallet was just created or already existed."
KeyCallsWork == unbound = {}
=============================================================================
