------------------------------ MODULE WalletKeys ------------------------------
(***************************************************************************)
(* Where a user's share of a wallet is: generateWallet() and               *)
(* initializeWallet() of nero-sdk.ts, core/client-key-manager.ts,          *)
(* core/secure-storage.ts and the storage of protocols/dkls/               *)
(* dkls-client.ts, over logins, logouts and page loads.                    *)
(*                                                                         *)
(* Every value that belongs to a wallet is written as the user whose       *)
(* wallet it is: the backend generates one wallet per user and refuses a   *)
(* second.  What the values are is in DklsWallet and PedersenWallet.       *)
(* The page runs at most one generation and one of initialize(), a login   *)
(* or importBackup(), each a step between two awaits at a time; a logout   *)
(* is its last part, after the requests.  A read that a cache answers is   *)
(* a step too, which the event loop never interrupts.                      *)
(***************************************************************************)
EXTENDS Integers

CONSTANTS Users,
          MaxLoads,  \* bound: page loads after the first
          MaxCalls,  \* bound: logins, generations and imports
          None

Protocols == {"dkls", "pedersen"}
Kinds == {"share", "party", "public", "backend"}   \* the entries of the key manager
Keys  == 1 .. (MaxLoads + 3)                       \* device keys, as they are made

Entries == [of : Users, key : Keys]
Wallets == [share : Users, party : Users, public : Users]

ASSUME WalletKeysAssumption ==
    /\ MaxLoads \in Nat /\ MaxCalls \in Nat
    /\ None \notin Users /\ None \notin Keys /\ None \notin Entries /\ None \notin Wallets

VARIABLES
    protocol,    \* SDKConfig.protocol
    page,        \* the SDK object and its key manager
    gen,         \* the generateWallet() call
    ses,         \* the initialize(), login or importBackup() call
    disk,        \* IndexedDB and localStorage
    backup,      \* the share in the backup file, or None
    registered,  \* backend: the users with a wallet
    loads, calls,
    mishap       \* history: what happened that the code does not guard against

vars == <<protocol, page, gen, ses, disk, backup, registered, loads, calls, mishap>>

Maybe(S) == S \cup {None}

Pages ==
    [deviceKey : Maybe(Keys), user : Maybe(Users),
     kmUser : Maybe(Users), kmShare : Maybe(Users), kmParty : Maybe(Users),
     publicKey : Maybe(Users), partyShares : Maybe(Users), address : Maybe(Users),
     wallet : Maybe(Wallets)]

Disks ==
    [dkls : Maybe(Users), entry : [Kinds -> [Users -> Maybe(Entries)]],
     idbKey : Maybe(Keys), lsKey : Maybe(Keys), made : 0 .. (MaxLoads + 3),
     token : Maybe(Entries)]

Mishaps == {"closed", "lost", "storage", "unstored", "unbound", "crossed", "shared",
            "switched", "foreign", "fallback"}

TypeOK ==
    /\ protocol \in Protocols /\ page \in Pages /\ disk \in Disks
    /\ gen \in [step : {"idle", "dkg", "answer", "save"} \cup Kinds,
                user : Maybe(Users), target : Maybe(Users)]
    /\ ses \in [call : {"none", "initialize", "login", "oauth", "reconnect", "import"},
                step : {"idle", "me", "login", "storing", "loading", "store", "address"}
                       \cup Kinds,
                user : Maybe(Users), target : Maybe(Users), share : Maybe(Users)]
    /\ backup \in Maybe(Users) /\ registered \subseteq Users
    /\ loads \in 0 .. MaxLoads /\ calls \in 0 .. MaxCalls /\ mishap \subseteq Mishaps

EmptyPage ==
    [deviceKey |-> None, user |-> None, kmUser |-> None, kmShare |-> None,
     kmParty |-> None, publicKey |-> None, partyShares |-> None, address |-> None,
     wallet |-> None]

Idle == [step |-> "idle", user |-> None, target |-> None]
NoCall == [call |-> "none", step |-> "idle", user |-> None, target |-> None,
           share |-> None]

Untouched(old) ==
    [dkls |-> None, entry |-> [k \in Kinds |-> [u \in Users |-> None]],
     idbKey |-> None, lsKey |-> old, made |-> IF old = None THEN 0 ELSE 1, token |-> None]

\* The device on which the users U generated Pedersen wallets in earlier pages.
Used(U) ==
    [Untouched(None) EXCEPT !.idbKey = 1, !.made = 1,
       !.entry = [k \in Kinds |-> [u \in Users |-> IF u \in U THEN [of |-> u, key |-> 1]
                                                    ELSE None]]]

\* A device that never ran the SDK, or ran the version that kept its key in
\* localStorage, or has wallets on it.
Init ==
    /\ protocol \in Protocols
    /\ page = EmptyPage /\ gen = Idle /\ ses = NoCall
    /\ \/ disk \in {Untouched(None), Untouched(1)} /\ registered = {}
       \/ protocol = "pedersen" /\ registered \in SUBSET Users /\ disk = Used(registered)
       \/ protocol = "dkls" /\ \E u \in Users :
             registered = {u} /\ disk = [Used({}) EXCEPT !.dkls = u]
    /\ backup = None /\ loads = 0 /\ calls = 0 /\ mishap = {}

Happens(what, when) == IF when THEN mishap \cup {what} ELSE mishap

-----------------------------------------------------------------------------
(* Storage: each entry is encrypted with the device key of the page.        *)

\* Mutant: the name of an entry does not hold the user.
StoredForAll(kind, u, owner) ==
    [disk EXCEPT !.entry[kind] = [v \in Users |-> [of |-> owner, key |-> page.deviceKey]]]

Stored(kind, u, owner) ==
    [disk EXCEPT !.entry[kind][u] = [of |-> owner, key |-> page.deviceKey]]

Unreadable(e) == e # None /\ e.key # page.deviceKey
Value(e) == IF e = None THEN None ELSE e.of

\* The key manager's getters: the cache, then the entry of its user.
Entry(kind) ==
    IF page.kmUser = None THEN None ELSE disk.entry[kind][page.kmUser]

-----------------------------------------------------------------------------
(* A page.                                                                  *)

FreshKey(d) == [d EXCEPT !.made = @ + 1]

\* Mutant: a key of localStorage is not migrated.
NoMigration(works) ==
    IF works /\ disk.idbKey = None THEN [FreshKey(disk) EXCEPT !.idbKey = disk.made + 1]
    ELSE IF ~works /\ disk.lsKey = None
    THEN [FreshKey(disk) EXCEPT !.lsKey = disk.made + 1]
    ELSE disk

\* loadOrGenerateDeviceKey: localStorage when IndexedDB does not work.
DeviceKeyOnDisk(works) ==
    IF (IF works THEN disk.idbKey ELSE disk.lsKey) # None THEN disk
    ELSE IF works /\ disk.lsKey # None THEN [disk EXCEPT !.idbKey = disk.lsKey]
    ELSE IF works THEN [FreshKey(disk) EXCEPT !.idbKey = disk.made + 1]
    ELSE [FreshKey(disk) EXCEPT !.lsKey = disk.made + 1]

\* initialize(): stored tokens that the device key opens restore the session.
Initialize(works) ==
    LET d == DeviceKeyOnDisk(works)
        key == IF works THEN d.idbKey ELSE d.lsKey
        restored == d.token # None /\ d.token.key = key
    IN  /\ page.deviceKey = None
        /\ disk' = d
        /\ page' = [page EXCEPT !.deviceKey = key]
        /\ ses' = IF restored
                  THEN [NoCall EXCEPT !.call = "initialize", !.step = "me",
                                      !.user = d.token.of]
                  ELSE NoCall
        /\ mishap' = mishap
             \cup (IF ~works /\ disk.idbKey \notin {None, disk.lsKey} THEN {"fallback"} ELSE {})
             \cup (IF restored /\ d.dkls \notin {None, d.token.of} THEN {"shared"} ELSE {})
        /\ UNCHANGED <<protocol, gen, backup, registered, loads, calls>>

Close ==
    /\ loads < MaxLoads /\ page.deviceKey # None
    /\ loads' = loads + 1
    /\ page' = EmptyPage /\ gen' = Idle /\ ses' = NoCall
    /\ mishap' = Happens("closed", gen.step # "idle")
    /\ UNCHANGED <<protocol, disk, backup, registered, calls>>

\* A session call that is over or that threw; initialize() then clears the tokens.
Throws ==
    /\ ses' = NoCall
    /\ disk' = IF ses.call = "initialize" THEN [disk EXCEPT !.token = None] ELSE disk
    /\ UNCHANGED page

\* initializeWallet() begins.
InitializeWallet ==
    ses' = [ses EXCEPT !.step = IF protocol = "dkls" THEN "address" ELSE "share"]

MeAnswers ==
    /\ ses.step = "me"
    /\ \/ page' = [page EXCEPT !.user = ses.user] /\ InitializeWallet /\ UNCHANGED disk
       \/ Throws
    /\ UNCHANGED <<protocol, gen, backup, registered, loads, calls, mishap>>

-----------------------------------------------------------------------------
(* Logins and logout.                                                       *)

StartLogin(u, call) ==
    /\ page.deviceKey # None /\ ses.step = "idle"
    /\ calls < MaxCalls /\ calls' = calls + 1
    /\ ses' = [NoCall EXCEPT !.call = call, !.step = "login", !.user = u]
    /\ mishap' = mishap
         \cup (IF gen.step # "idle" THEN {"crossed"} ELSE {})
         \cup (IF {page.kmParty, page.address} \subseteq {None, u} THEN {} ELSE {"switched"})
         \cup (IF disk.dkls \in {None, u} THEN {} ELSE {"shared"})
    /\ UNCHANGED <<protocol, page, gen, disk, backup, registered, loads>>

LoginAnswers ==
    /\ ses.step = "login"
    /\ page' = [page EXCEPT !.user = ses.user]
    /\ ses' = [ses EXCEPT !.step = "storing"]
    /\ UNCHANGED <<protocol, gen, disk, backup, registered, loads, calls, mishap>>

LoginFails ==
    /\ ses.step = "login" /\ ses' = NoCall
    /\ UNCHANGED <<protocol, page, gen, disk, backup, registered, loads, calls, mishap>>

\* storeTokens(), then keyManager.initialize() for whoever is the user by now.
StoreTokens ==
    /\ ses.step = "storing"
    /\ disk' = [disk EXCEPT !.token = [of |-> ses.user, key |-> page.deviceKey]]
    /\ page' = IF page.user = None THEN page ELSE [page EXCEPT !.kmUser = page.user]
    /\ ses' = [ses EXCEPT !.step = "loading", !.target = page.user]
    /\ UNCHANGED <<protocol, gen, backup, registered, loads, calls, mishap>>

\* storeTokens() throws: its user is logged in, and the key manager keeps its own.
StoreTokensFails ==
    /\ ses.step = "storing" /\ ses' = NoCall
    /\ mishap' = Happens("unstored", TRUE)
    /\ UNCHANGED <<protocol, page, gen, disk, backup, registered, loads, calls>>

\* The rest of keyManager.initialize(), which replaces the cached share alone
\* and which no logout stops, and of the login: a user without a wallet is told
\* to generate one, which reconnectSession() does not ask.
KeyManagerInitialized ==
    /\ ses.step = "loading"
    /\ LET e == IF ses.target = None THEN None ELSE disk.entry["share"][ses.target]
       IN  IF Unreadable(e) THEN Throws
           ELSE /\ page' = [page EXCEPT !.kmShare = IF ses.target = None THEN @ ELSE Value(e)]
                /\ IF ses.user \in registered \/ ses.call = "reconnect"
                   THEN InitializeWallet ELSE ses' = NoCall
                /\ UNCHANGED disk
    /\ UNCHANGED <<protocol, gen, backup, registered, loads, calls, mishap>>

\* logout(), after its requests: the key manager and _partyPublicShares stay.
Logout ==
    /\ page.user # None
    /\ page' = [page EXCEPT !.user = None, !.wallet = None, !.publicKey = None,
                            !.address = None]
    /\ disk' = [disk EXCEPT !.token = None]
    /\ mishap' = Happens("crossed", gen.step # "idle" \/ ses.step # "idle")
    /\ UNCHANGED <<protocol, gen, ses, backup, registered, loads, calls>>

-----------------------------------------------------------------------------
(* initializeWallet(): a missing part ends it without a wallet.             *)

Proceed(step) == ses' = [ses EXCEPT !.step = step]

LoadShare ==
    /\ ses.step = "share"
    /\ IF page.kmShare = None /\ Unreadable(Entry("share")) THEN Throws
       ELSE LET share == IF page.kmShare # None THEN page.kmShare ELSE Value(Entry("share"))
            IN  /\ page' = [page EXCEPT !.kmShare = share]
                /\ ses' = IF share = None THEN NoCall
                          ELSE [ses EXCEPT !.step = "party", !.share = share]
                /\ UNCHANGED disk
    /\ UNCHANGED <<protocol, gen, backup, registered, loads, calls, mishap>>

LoadPartyShares ==
    /\ ses.step = "party"
    /\ IF page.kmParty = None /\ Unreadable(Entry("party")) THEN Throws
       ELSE LET party == IF page.kmParty # None THEN page.kmParty ELSE Value(Entry("party"))
            IN  /\ page' = [page EXCEPT !.kmParty = party]
                /\ IF party = None THEN ses' = NoCall ELSE Proceed("public")
                /\ UNCHANGED disk
    /\ UNCHANGED <<protocol, gen, backup, registered, loads, calls, mishap>>

LoadPublicKey ==
    /\ ses.step = "public"
    /\ IF Unreadable(Entry("public")) THEN Throws
       ELSE IF Entry("public") = None
       THEN ses' = NoCall /\ UNCHANGED <<page, disk>>
       ELSE /\ page' = [page EXCEPT !.publicKey = Value(Entry("public")),
                                    !.partyShares = page.kmParty]
            /\ Proceed("backend") /\ UNCHANGED disk
    /\ UNCHANGED <<protocol, gen, backup, registered, loads, calls, mishap>>

\* Mutant: the wallet is made of what is there.
WalletUnchecked(share) ==
    [share |-> share, party |-> page.partyShares, public |-> page.publicKey]

WalletOf(share) ==
    IF None \in {page.partyShares, page.publicKey} THEN None
    ELSE [share |-> share, party |-> page.partyShares, public |-> page.publicKey]

LoadBackendShare ==
    /\ ses.step = "backend"
    /\ IF Unreadable(Entry("backend")) THEN Throws
       ELSE /\ page' = [page EXCEPT !.wallet = WalletOf(ses.share)]
            /\ ses' = NoCall /\ UNCHANGED disk
    /\ UNCHANGED <<protocol, gen, backup, registered, loads, calls, mishap>>

\* initializeWalletDKLS, of whoever's share is stored; the OAuth callback takes
\* the address from the backend's answer instead.
LoadDklsShare ==
    /\ ses.step = "address"
    /\ page' = IF disk.dkls = None THEN page
               ELSE [page EXCEPT !.address = IF ses.call = "oauth" THEN ses.user ELSE disk.dkls]
    /\ ses' = NoCall
    /\ UNCHANGED <<protocol, gen, disk, backup, registered, loads, calls, mishap>>

-----------------------------------------------------------------------------
(* generateWallet().                                                        *)

Generate ==
    /\ page.deviceKey # None /\ page.user # None /\ gen.step = "idle"
    /\ calls < MaxCalls /\ calls' = calls + 1
    /\ page.user \notin registered
    /\ gen' = [step |-> "dkg", user |-> page.user, target |-> None]
    /\ mishap' = mishap
         \cup (IF ses.step # "idle" THEN {"crossed"} ELSE {})
         \cup (IF page.kmUser = None THEN {"unbound"} ELSE {})
         \cup (IF page.kmUser \in {None, page.user} THEN {} ELSE {"foreign"})
         \cup (IF disk.dkls \in {None, page.user} THEN {} ELSE {"shared"})
    /\ UNCHANGED <<protocol, page, ses, disk, backup, registered, loads>>

\* The requests of the generation, the last of which makes the wallet.
BackendCompletes ==
    /\ gen.step = "dkg"
    /\ registered' = registered \cup {gen.user}
    /\ gen' = [gen EXCEPT !.step = "answer"]
    /\ UNCHANGED <<protocol, page, ses, disk, backup, loads, calls, mishap>>

GenerationFails ==
    /\ gen.step \in {"dkg", "answer"}
    /\ gen' = Idle
    /\ mishap' = Happens("lost", gen.step = "answer")
    /\ UNCHANGED <<protocol, page, ses, disk, backup, registered, loads, calls>>

\* keyManager.storeX(): refused without a user, and else written for that user.
BeginStore(kind) ==
    IF page.kmUser = None THEN gen' = Idle
    ELSE gen' = [gen EXCEPT !.step = kind, !.target = page.kmUser]

GenerationAnswered ==
    /\ gen.step = "answer"
    /\ IF protocol = "dkls" THEN gen' = [gen EXCEPT !.step = "save"]
       ELSE BeginStore("share")
    /\ UNCHANGED <<protocol, page, ses, disk, backup, registered, loads, calls, mishap>>

\* Mutant: the share is saved before the backend has completed.
SaveBeforeComplete ==
    /\ gen.step \in {"dkg", "save"} /\ protocol = "dkls"
    /\ disk' = [disk EXCEPT !.dkls = gen.user]
    /\ page' = [page EXCEPT !.address = gen.user]
    /\ gen' = IF gen.step = "save" THEN Idle ELSE gen
    /\ UNCHANGED <<protocol, ses, backup, registered, loads, calls, mishap>>

SaveDklsShare ==
    /\ gen.step = "save"
    /\ disk' = [disk EXCEPT !.dkls = gen.user]
    /\ page' = [page EXCEPT !.address = gen.user]
    /\ gen' = Idle
    /\ UNCHANGED <<protocol, ses, backup, registered, loads, calls, mishap>>

StoreShare ==
    /\ gen.step = "share"
    /\ disk' = Stored("share", gen.target, gen.user)
    /\ page' = [page EXCEPT !.kmShare = gen.user, !.publicKey = gen.user,
                            !.partyShares = gen.user]
    /\ BeginStore("party")
    /\ UNCHANGED <<protocol, ses, backup, registered, loads, calls, mishap>>

\* Mutant: the party shares are cached and not written.
CachePartySharesOnly ==
    /\ gen.step = "party"
    /\ UNCHANGED disk
    /\ page' = [page EXCEPT !.kmParty = page.partyShares]
    /\ BeginStore("public")
    /\ UNCHANGED <<protocol, ses, backup, registered, loads, calls, mishap>>

StorePartyShares ==
    /\ gen.step = "party"
    /\ disk' = Stored("party", gen.target, gen.user)
    /\ page' = [page EXCEPT !.kmParty = gen.user]
    /\ BeginStore("public")
    /\ UNCHANGED <<protocol, ses, backup, registered, loads, calls, mishap>>

StorePublicKey ==
    /\ gen.step = "public"
    /\ disk' = Stored("public", gen.target, gen.user)
    /\ BeginStore("backend")
    /\ UNCHANGED <<protocol, page, ses, backup, registered, loads, calls, mishap>>

StoreBackendShare ==
    /\ gen.step = "backend"
    /\ disk' = Stored("backend", gen.target, gen.user)
    /\ page' = [page EXCEPT !.wallet = WalletOf(gen.user)]
    /\ gen' = Idle
    /\ UNCHANGED <<protocol, ses, backup, registered, loads, calls, mishap>>

\* A write that IndexedDB refuses ends the generation.
StoreFails ==
    /\ gen.step \in {"save"} \cup Kinds
    /\ gen' = Idle
    /\ mishap' = Happens("storage", TRUE)
    /\ UNCHANGED <<protocol, page, ses, disk, backup, registered, loads, calls>>

-----------------------------------------------------------------------------
(* exportBackup() and importBackup().                                       *)

ExportBackup ==
    /\ page.deviceKey # None /\ ~Unreadable(Entry("share"))
    /\ LET share == IF page.kmShare # None THEN page.kmShare ELSE Value(Entry("share"))
       IN  /\ share # None
           /\ page' = [page EXCEPT !.kmShare = share]
           /\ backup' = share
    /\ UNCHANGED <<protocol, gen, ses, disk, registered, loads, calls, mishap>>

StartImport ==
    /\ backup # None /\ page.user # None /\ page.kmUser # None /\ ses.step = "idle"
    /\ calls < MaxCalls /\ calls' = calls + 1
    /\ ses' = [NoCall EXCEPT !.call = "import", !.step = "store", !.user = backup,
                             !.target = page.kmUser]
    /\ mishap' = mishap
         \cup (IF gen.step # "idle" THEN {"crossed"} ELSE {})
         \cup (IF backup = page.user /\ page.kmUser = page.user THEN {} ELSE {"foreign"})
    /\ UNCHANGED <<protocol, page, gen, disk, backup, registered, loads>>

ImportStored ==
    /\ ses.step = "store"
    /\ disk' = Stored("share", ses.target, ses.user)
    /\ page' = [page EXCEPT !.kmShare = ses.user]
    /\ InitializeWallet
    /\ UNCHANGED <<protocol, gen, backup, registered, loads, calls, mishap>>

Next ==
    \/ \E works \in BOOLEAN : Initialize(works)
    \/ \E u \in Users, call \in {"login", "oauth", "reconnect"} : StartLogin(u, call)
    \/ Close \/ MeAnswers \/ LoginAnswers \/ LoginFails \/ StoreTokens
    \/ StoreTokensFails \/ KeyManagerInitialized \/ Logout
    \/ LoadShare \/ LoadPartyShares \/ LoadPublicKey \/ LoadBackendShare \/ LoadDklsShare
    \/ Generate \/ BackendCompletes \/ GenerationFails \/ GenerationAnswered
    \/ SaveDklsShare \/ StoreShare \/ StorePartyShares \/ StorePublicKey
    \/ StoreBackendShare \/ StoreFails
    \/ ExportBackup \/ StartImport \/ ImportStored

Spec == Init /\ [][Next]_vars

-----------------------------------------------------------------------------

\* The wallet of the page is whole and the logged-in user's, whatever part of it
\* a closed page, a failed write or a lost answer left behind, as long as no
\* other user's key is around: the key manager keeps the cached party shares of
\* the user before (client-key-manager.ts:25), and a DKLS share is stored for all
\* users alike (dkls-client.ts:78).
WalletIsOwn ==
    mishap \cap {"crossed", "switched", "foreign", "shared"} = {} =>
        /\ page.wallet # None =>
              page.wallet = [share |-> page.user, party |-> page.user, public |-> page.user]
        /\ page.address # None => page.address = page.user /\ disk.dkls = page.user

\* A share that is stored is one of a wallet the backend has (dkls-client.ts:121).
StoredIsRegistered ==
    /\ disk.dkls \in Maybe(registered)
    /\ \A k \in Kinds, u \in Users : Value(disk.entry[k][u]) \in Maybe(registered)

\* The backend's wallet is on this device too, unless the page was closed or the
\* answer lost before it could be written, or one of the other mishaps did it.
ShareKept ==
    mishap \subseteq {"switched", "fallback", "unstored"} =>
        \A u \in registered :
            gen.user # u =>
                IF protocol = "dkls" THEN disk.dkls = u
                ELSE \A k \in Kinds : Value(disk.entry[k][u]) = u

\* Every page finds the key that opens what earlier pages wrote, unless it could
\* not read IndexedDB and made or found another one (nero-sdk.ts:1294).
EntriesOpen ==
    page.deviceKey # None /\ "fallback" \notin mishap =>
        \A k \in Kinds, u \in Users : ~Unreadable(disk.entry[k][u])

\* After a login, or a generation, the user of a kept wallet has it.
LoginRestores ==
    /\ mishap = {} /\ gen.step = "idle" /\ ses.step = "idle"
    /\ page.user \in registered /\ page.kmUser = page.user
    => page.wallet # None \/ page.address # None
===============================================================================
