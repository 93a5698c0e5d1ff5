--------------------------- MODULE WalletKeysProofs ---------------------------
(***************************************************************************)
(* Theorems about WalletKeys, for any number of users, page loads and      *)
(* calls.                                                                  *)
(***************************************************************************)
EXTENDS WalletKeys, TLAPS

-----------------------------------------------------------------------------
(* Types, and which call is at which step.                                  *)

\* Each page makes at most one device key.
KeysMade ==
    disk.made <= loads + 1 + IF page.deviceKey = None THEN 0 ELSE 1

GenPhases ==
    /\ gen.step # "idle" => gen.user \in Users /\ page.deviceKey # None
    /\ gen.step = "idle" => gen.user = None
    /\ gen.step = "dkg" => gen.user \notin registered
    /\ gen.step \notin {"idle", "dkg"} => gen.user \in registered
    /\ gen.step = "save" => protocol = "dkls"
    /\ gen.step \in Kinds => protocol = "pedersen" /\ gen.target \in Users

SesPhases ==
    /\ ses.step # "idle" => ses.user \in Users /\ page.deviceKey # None
    /\ ses.step = "store" => ses.target \in Users
    /\ ses.step \in Kinds => protocol = "pedersen"
    /\ ses.step = "address" => protocol = "dkls"
    /\ ses.step \in {"party", "public", "backend"} => ses.share \in Users
    /\ ses.step = "me" => page.user = None

TypeInv ==
    /\ TypeOK /\ KeysMade /\ GenPhases /\ SesPhases
    /\ page.deviceKey = None => page = EmptyPage

-----------------------------------------------------------------------------
(* What is stored is of the backend's wallets.                              *)

RegisteredInv ==
    /\ StoredIsRegistered
    /\ page.kmShare \in Maybe(registered) /\ backup \in Maybe(registered)
    /\ ses.step = "store" => ses.user \in registered

-----------------------------------------------------------------------------
(* Device keys.                                                             *)

\* The key that the next page finds.
CurrentKey == IF disk.idbKey # None THEN disk.idbKey ELSE disk.lsKey

KeyInv ==
    "fallback" \notin mishap =>
        /\ page.deviceKey \in {None, CurrentKey}
        /\ \A k \in Kinds, u \in Users :
              disk.entry[k][u] # None => disk.entry[k][u].key = CurrentKey

-----------------------------------------------------------------------------
(* Whose wallet it is.                                                      *)

\* One call at a time, for the user that is logged in.
CallsAgree ==
    /\ gen.step # "idle" => /\ ses.step = "idle" /\ page.user = gen.user
                            /\ page.kmUser \in {None, gen.user}
    /\ gen.step \in Kinds => gen.target = gen.user
    /\ ses.step \notin {"idle", "me", "login"} => page.user = ses.user
    /\ ses.step \notin {"idle", "me", "login", "storing"} => page.kmUser \in {None, ses.user}
    /\ ses.step = "loading" => ses.target = ses.user
    /\ ses.step = "store" => ses.target = ses.user
    /\ ses.step = "me" => page.kmUser = None /\ page.kmShare = None

\* The disk has entries of their users, and a share of the user that is logged in
\* or whose session is being made.
DiskAgrees ==
    /\ \A k \in Kinds, u \in Users : Value(disk.entry[k][u]) \in {None, u}
    /\ page.user # None => disk.dkls \in {None, page.user}
    /\ ses.step # "idle" => disk.dkls \in {None, ses.user}

\* What the page has cached is of one user.
PageAgrees ==
    /\ page.kmParty # None => /\ page.user \in {None, page.kmParty}
                              /\ ses.step # "idle" => ses.user = page.kmParty
    /\ page.address # None => /\ page.user = page.address /\ disk.dkls = page.address
                              /\ ses.step # "idle" => ses.user = page.address
    /\ page.wallet # None =>
          /\ page.wallet = [share |-> page.user, party |-> page.user, public |-> page.user]
          /\ page.kmParty = page.user
    /\ ses.step \in {"share"} => page.kmShare \in {None, ses.user}
    /\ ses.step \in {"party", "public", "backend"} => ses.share = ses.user
    /\ ses.step \in {"public", "backend"} => page.kmParty = ses.user
    /\ ses.step = "backend" => page.partyShares = ses.user /\ page.publicKey = ses.user
    /\ gen.step \in {"party", "public", "backend"} =>
          page.partyShares = gen.user /\ page.publicKey = gen.user
    /\ gen.step \in {"public", "backend"} => page.kmParty = gen.user

Calm == mishap \cap {"crossed", "switched", "foreign", "shared"} = {}

OwnInv == Calm => CallsAgree /\ DiskAgrees /\ PageAgrees

-----------------------------------------------------------------------------
(* The backend's wallet is on the device.                                   *)

StoredBefore ==
    [save |-> {}, share |-> {}, party |-> {"share"}, public |-> {"share", "party"},
     backend |-> {"share", "party", "public"}]

\* A generation is the only call, for the user of the key manager, and what it has
\* stored so far is there.
Generating ==
    /\ gen.step # "idle" => /\ ses.step = "idle" /\ page.kmUser = gen.user
                            /\ page.user = gen.user
                            /\ protocol = "dkls" => registered \subseteq {gen.user}
    /\ gen.step \in Kinds =>
          /\ gen.target = gen.user
          /\ \A k \in StoredBefore[gen.step] : Value(disk.entry[k][gen.user]) = gen.user
    /\ ses.step = "store" => ses.target = ses.user

OnDisk(u) ==
    IF protocol = "dkls" THEN disk.dkls = u
    ELSE \A k \in Kinds : Value(disk.entry[k][u]) = u

Kept == \A u \in registered : gen.user # u => OnDisk(u)

\* Nothing happened but what ShareKept excepts.
Careful == mishap \subseteq {"switched", "fallback", "unstored"}

KeptInv == Careful => Generating /\ Kept

-----------------------------------------------------------------------------
(* Logins restore the wallet.                                               *)

RestoreInv ==
    mishap = {} /\ gen.step = "idle" /\ ses.step \in {"idle", "login", "store"}
    /\ page.user \in registered /\ page.kmUser = page.user
    => page.wallet # None \/ page.address # None

-----------------------------------------------------------------------------
(* Writing an entry, and types.                                             *)

\* What an entry that is written changes.
Written(d, kind, u, owner, key) ==
    [d EXCEPT !.entry[kind][u] = [of |-> owner, key |-> key]]

\* Only the entries change, and they stay entries.
LEMMA WrittenDisk ==
    ASSUME NEW d \in Disks, NEW key \in Keys,
           NEW kind \in Kinds, NEW u \in Users, NEW owner \in Users
    PROVE  /\ Written(d, kind, u, owner, key) \in Disks
           /\ Written(d, kind, u, owner, key).dkls = d.dkls
           /\ Written(d, kind, u, owner, key).idbKey = d.idbKey
           /\ Written(d, kind, u, owner, key).lsKey = d.lsKey
           /\ Written(d, kind, u, owner, key).made = d.made
           /\ Written(d, kind, u, owner, key).token = d.token
<1> DEFINE e == [of |-> owner, key |-> key]
           row == [d.entry[kind] EXCEPT ![u] = e]
           entry == [d.entry EXCEPT ![kind] = row]
           w == Written(d, kind, u, owner, key)
<1>1. w = [d EXCEPT !.entry = entry]
  BY DEF Written, Disks
<1>2. e \in Maybe(Entries)
  BY DEF Entries, Maybe
<1>3. d.entry \in [Kinds -> [Users -> Maybe(Entries)]]
  BY DEF Disks
<1> HIDE DEF e
<1>4. row \in [Users -> Maybe(Entries)] /\ \A v \in Users :
        row[v] = IF v = u THEN e ELSE d.entry[kind][v]
  BY <1>2, <1>3
<1> HIDE DEF row
<1>5. entry \in [Kinds -> [Users -> Maybe(Entries)]] /\ \A k \in Kinds :
        entry[k] = IF k = kind THEN row ELSE d.entry[k]
  BY <1>3, <1>4
<1> HIDE DEF entry, w
<1>7. /\ w \in Disks /\ w.entry = entry
      /\ w.dkls = d.dkls /\ w.idbKey = d.idbKey /\ w.lsKey = d.lsKey
      /\ w.made = d.made /\ w.token = d.token
  BY <1>1, <1>5 DEF Disks
<1>. QED
  BY <1>7 DEF w

\* The entries after a write.
LEMMA WrittenEntries ==
    ASSUME NEW d \in Disks, NEW key \in Keys, NEW kind \in Kinds, NEW u \in Users, NEW owner
    PROVE  Written(d, kind, u, owner, key).entry
             = [d.entry EXCEPT ![kind][u] = [of |-> owner, key |-> key]]
  BY DEF Written, Disks

\* The entry that was written.
LEMMA WrittenEntry ==
    ASSUME NEW d \in Disks, NEW key \in Keys, NEW kind \in Kinds, NEW u \in Users, NEW owner
    PROVE  Written(d, kind, u, owner, key).entry[kind][u] = [of |-> owner, key |-> key]
<1>1. d.entry \in [Kinds -> [Users -> Maybe(Entries)]]
  BY DEF Disks
<1>2. Written(d, kind, u, owner, key).entry
        = [d.entry EXCEPT ![kind][u] = [of |-> owner, key |-> key]]
  BY WrittenEntries
<1>. QED
  BY <1>1, <1>2

\* Every other entry is as it was.
LEMMA WrittenElsewhere ==
    ASSUME NEW d \in Disks, NEW key \in Keys, NEW kind \in Kinds, NEW u \in Users, NEW owner,
           NEW k \in Kinds, NEW v \in Users, k # kind \/ v # u
    PROVE  Written(d, kind, u, owner, key).entry[k][v] = d.entry[k][v]
<1>1. d.entry \in [Kinds -> [Users -> Maybe(Entries)]]
  BY DEF Disks
<1>2. Written(d, kind, u, owner, key).entry
        = [d.entry EXCEPT ![kind][u] = [of |-> owner, key |-> key]]
  BY WrittenEntries
<1>. QED
  BY <1>1, <1>2


\* Every step of the page, the backend or the browser keeps the types.
LEMMA TypeStep == TypeInv /\ [Next]_vars => TypeInv'
<1> SUFFICES ASSUME TypeInv, [Next]_vars PROVE TypeInv'
  OBVIOUS
<1> USE DEF TypeInv, TypeOK, KeysMade, GenPhases, SesPhases, Maybe
<1>0. MaxLoads \in Nat /\ MaxCalls \in Nat /\ None \notin Users /\ None \notin Keys
  BY WalletKeysAssumption
<1>1. ASSUME Close PROVE TypeInv'
  BY <1>0, <1>1
     DEF Close, Pages, Disks, Mishaps, Protocols, Kinds, Idle, NoCall, EmptyPage, Happens,
         Value, Entries, Wallets
<1>2. ASSUME MeAnswers PROVE TypeInv'
  BY <1>0, <1>2
     DEF MeAnswers, Pages, Disks, Mishaps, Protocols, Kinds, NoCall, EmptyPage, Throws,
         InitializeWallet, Value, Entries, Wallets
<1>3. ASSUME LoginAnswers PROVE TypeInv'
  BY <1>0, <1>3
     DEF LoginAnswers, Pages, Disks, Mishaps, Protocols, Kinds, EmptyPage, Value, Entries,
         Wallets
<1>4. ASSUME LoginFails PROVE TypeInv'
  BY <1>0, <1>4
     DEF LoginFails, Pages, Disks, Mishaps, Protocols, Kinds, NoCall, EmptyPage, Value,
         Entries, Wallets
<1>4f. ASSUME StoreTokensFails PROVE TypeInv'
  BY <1>0, <1>4f
     DEF StoreTokensFails, Pages, Disks, Mishaps, Protocols, Kinds, NoCall, EmptyPage, Happens,
         Value, Entries, Wallets
<1>5. ASSUME KeyManagerInitialized PROVE TypeInv'
  BY <1>0, <1>5
     DEF KeyManagerInitialized, Pages, Disks, Mishaps, Protocols, Kinds, NoCall, EmptyPage,
         Throws, InitializeWallet, Value, Entries, Wallets, Unreadable
<1>6. ASSUME LoadPartyShares PROVE TypeInv'
  BY <1>0, <1>6
     DEF LoadPartyShares, Pages, Disks, Mishaps, Protocols, Kinds, NoCall, EmptyPage, Throws,
         Entry, Value, Entries, Wallets, Proceed, Unreadable
<1>7. ASSUME LoadBackendShare PROVE TypeInv'
  BY <1>0, <1>7
     DEF LoadBackendShare, Pages, Disks, Mishaps, Protocols, Kinds, NoCall, EmptyPage, Throws,
         Entry, Value, WalletOf, Entries, Wallets, Unreadable
<1>8. ASSUME LoadDklsShare PROVE TypeInv'
  BY <1>0, <1>8
     DEF LoadDklsShare, Pages, Disks, Mishaps, Protocols, Kinds, NoCall, EmptyPage, Value,
         Entries, Wallets
<1>9. ASSUME Generate PROVE TypeInv'
  BY <1>0, <1>9
     DEF Generate, Pages, Disks, Mishaps, Protocols, Kinds, EmptyPage, Value, Entries, Wallets
<1>10. ASSUME BackendCompletes PROVE TypeInv'
  BY <1>0, <1>10
     DEF BackendCompletes, Pages, Disks, Mishaps, Protocols, Kinds, EmptyPage, Value, Entries,
         Wallets
<1>11. ASSUME GenerationFails PROVE TypeInv'
  BY <1>0, <1>11
     DEF GenerationFails, Pages, Disks, Mishaps, Protocols, Kinds, Idle, EmptyPage, Happens,
         Value, Entries, Wallets
<1>12. ASSUME SaveDklsShare PROVE TypeInv'
  BY <1>0, <1>12
     DEF SaveDklsShare, Pages, Disks, Mishaps, Protocols, Kinds, Idle, EmptyPage, Value,
         Entries, Wallets
<1>13. ASSUME StoreFails PROVE TypeInv'
  BY <1>0, <1>13
     DEF StoreFails, Pages, Disks, Mishaps, Protocols, Kinds, Idle, EmptyPage, Happens, Value,
         Entries, Wallets
<1>14. ASSUME ExportBackup PROVE TypeInv'
  BY <1>0, <1>14
     DEF ExportBackup, Pages, Disks, Mishaps, Protocols, Kinds, EmptyPage, Entry, Value,
         Entries, Wallets, Unreadable
<1>15. ASSUME StoreTokens PROVE TypeInv'
  <2>1. disk' \in Disks /\ disk'.made = disk.made
    BY <1>0, <1>15 DEF StoreTokens, Disks, Entries, Pages
  <2>2. page' \in Pages /\ page'.deviceKey = page.deviceKey /\ page'.user = page.user
    BY <1>15 DEF StoreTokens, Pages
  <2>3. page.user \in Maybe(Users) /\ page'.kmUser \in Maybe(Users)
    BY <2>2 DEF Pages
  <2>. QED
    BY <1>0, <1>15, <2>1, <2>2, <2>3 DEF StoreTokens, Kinds
<1>16. ASSUME Logout PROVE TypeInv'
  <2>1. disk' \in Disks /\ disk'.made = disk.made
    BY <1>16 DEF Logout, Disks
  <2>2. page' \in Pages /\ page'.deviceKey = page.deviceKey /\ page'.user = None
    BY <1>16 DEF Logout, Pages
  <2>3. mishap' \subseteq Mishaps
    BY <1>16 DEF Logout, Happens, Mishaps
  <2>. QED
    BY <1>0, <1>16, <2>1, <2>2, <2>3 DEF Logout, EmptyPage
<1>17. ASSUME NEW kind \in Kinds
       PROVE  Value(Entry(kind)) \in Maybe(Users)
  BY <1>0 DEF Value, Entry, Disks, Pages, Entries
<1>18. ASSUME LoadShare PROVE TypeInv'
  <2>1. CASE Throws /\ UNCHANGED <<protocol, gen, backup, registered, loads, calls, mishap>>
    BY <1>0, <2>1 DEF Throws, NoCall, Disks, Kinds
  <2>2. CASE ~(page.kmShare = None /\ Unreadable(Entry("share")))
    <3> DEFINE share == IF page.kmShare # None THEN page.kmShare ELSE Value(Entry("share"))
    <3>1. share \in Maybe(Users)
      BY <1>17 DEF Pages, Kinds
    <3> HIDE DEF share
    <3>2. /\ page' = [page EXCEPT !.kmShare = share]
          /\ ses' = IF share = None THEN NoCall
                    ELSE [ses EXCEPT !.step = "party", !.share = share]
          /\ UNCHANGED <<protocol, gen, disk, backup, registered, loads, calls, mishap>>
          /\ ses.step = "share"
      BY <1>18, <2>2 DEF LoadShare, share
    <3>3. page' \in Pages /\ page'.deviceKey = page.deviceKey /\ page'.user = page.user
      BY <3>1, <3>2 DEF Pages
    <3>. QED
      BY <1>0, <3>1, <3>2, <3>3 DEF NoCall, Kinds
  <2>. QED
    BY <1>18, <2>1, <2>2 DEF LoadShare
<1>19. ASSUME LoadPublicKey PROVE TypeInv'
  <2>1. CASE Throws /\ UNCHANGED <<protocol, gen, backup, registered, loads, calls, mishap>>
    BY <1>0, <2>1 DEF Throws, NoCall, Disks, Kinds
  <2>2. CASE ses' = NoCall /\ UNCHANGED <<page, disk, protocol, gen, backup, registered, loads,
                                          calls, mishap>>
    BY <1>0, <2>2 DEF NoCall, Kinds
  <2>3. CASE ~Unreadable(Entry("public")) /\ Entry("public") # None
    <3> DEFINE public == Value(Entry("public"))
    <3>1. public \in Maybe(Users)
      BY <1>17 DEF Kinds
    <3> HIDE DEF public
    <3>2. /\ page' = [page EXCEPT !.publicKey = public, !.partyShares = page.kmParty]
          /\ ses' = [ses EXCEPT !.step = "backend"] /\ ses.step = "public"
          /\ UNCHANGED <<protocol, gen, disk, backup, registered, loads, calls, mishap>>
      BY <1>19, <2>3 DEF LoadPublicKey, Proceed, public
    <3>3. page' \in Pages /\ page'.deviceKey = page.deviceKey /\ page'.user = page.user
      BY <3>1, <3>2 DEF Pages
    <3>. QED
      BY <1>0, <3>2, <3>3 DEF Kinds
  <2>. QED
    BY <1>19, <2>1, <2>2, <2>3 DEF LoadPublicKey
<1>20. ASSUME NEW kind \in Kinds, BeginStore(kind), gen.step # "idle", gen.step # "dkg",
              protocol = "pedersen", disk' \in Disks, disk'.made = disk.made,
              page' \in Pages, page'.deviceKey = page.deviceKey, page'.user = page.user,
              UNCHANGED <<protocol, ses, backup, registered, loads, calls, mishap>>
       PROVE  TypeInv'
  <2>1. CASE page.kmUser = None
    BY <1>0, <1>20, <2>1 DEF BeginStore, Idle, Kinds
  <2>2. CASE page.kmUser # None
    <3>1. page.kmUser \in Users /\ gen' = [gen EXCEPT !.step = kind, !.target = page.kmUser]
      BY <1>20, <2>2 DEF BeginStore, Pages
    <3>2. /\ gen' \in [step : {"idle", "dkg", "answer", "save"} \cup Kinds,
                      user : Maybe(Users), target : Maybe(Users)]
          /\ gen'.step = kind /\ gen'.user = gen.user /\ gen'.target = page.kmUser
      BY <3>1
    <3>3. kind \notin {"idle", "dkg", "answer", "save"}
      BY DEF Kinds
    <3>. QED
      BY <1>20, <3>1, <3>2, <3>3
  <2>. QED
    BY <2>1, <2>2
<1>21. ASSUME NEW kind \in Kinds, disk' = Stored(kind, gen.target, gen.user), gen.step \in Kinds
       PROVE  disk' \in Disks /\ disk'.made = disk.made
  <2>1. gen.target \in Users /\ gen.user \in Users /\ page.deviceKey \in Keys
    BY <1>21 DEF Kinds, Pages
  <2>2. disk' = Written(disk, kind, gen.target, gen.user, page.deviceKey)
    BY <1>21 DEF Stored, Written
  <2>3. disk \in Disks
    OBVIOUS
  <2>. QED
    BY ONLY <2>1, <2>2, <2>3, WrittenDisk
<1>22. ASSUME GenerationAnswered PROVE TypeInv'
  <2>1. CASE protocol = "dkls"
    BY <1>0, <1>22, <2>1 DEF GenerationAnswered, Kinds
  <2>2. CASE protocol # "dkls"
    BY <1>20, <1>22, <2>2 DEF GenerationAnswered, Kinds, Protocols
  <2>. QED
    BY <2>1, <2>2
<1>23. ASSUME StoreShare PROVE TypeInv'
  <2>1. gen.step = "share" /\ gen.user \in Users
    BY <1>23 DEF StoreShare
  <2>2. page' \in Pages /\ page'.deviceKey = page.deviceKey /\ page'.user = page.user
    BY <1>23, <2>1 DEF StoreShare, Pages
  <2>3. "party" \in Kinds /\ "share" \in Kinds
    BY DEF Kinds
  <2>. QED
    BY <1>20, <1>21, <1>23, <2>1, <2>2, <2>3 DEF StoreShare
<1>24. ASSUME StorePartyShares PROVE TypeInv'
  <2>1. gen.step = "party" /\ gen.user \in Users
    BY <1>24 DEF StorePartyShares
  <2>2. page' \in Pages /\ page'.deviceKey = page.deviceKey /\ page'.user = page.user
    BY <1>24, <2>1 DEF StorePartyShares, Pages
  <2>3. "party" \in Kinds /\ "public" \in Kinds
    BY DEF Kinds
  <2>. QED
    BY <1>20, <1>21, <1>24, <2>1, <2>2, <2>3 DEF StorePartyShares
<1>25. ASSUME StorePublicKey PROVE TypeInv'
  <2>1. gen.step = "public" /\ "public" \in Kinds /\ "backend" \in Kinds
    BY <1>25 DEF StorePublicKey, Kinds
  <2>. QED
    BY <1>20, <1>21, <1>25, <2>1 DEF StorePublicKey
<1>26. ASSUME StoreBackendShare PROVE TypeInv'
  <2>1. gen.step = "backend" /\ gen.user \in Users /\ "backend" \in Kinds
    BY <1>26 DEF StoreBackendShare, Kinds
  <2>2. WalletOf(gen.user) \in Maybe(Wallets)
    BY <2>1 DEF WalletOf, Wallets, Pages
  <2>3. page' \in Pages /\ page'.deviceKey = page.deviceKey /\ page'.user = page.user
    BY <1>26, <2>2 DEF StoreBackendShare, Pages
  <2>4. disk' \in Disks /\ disk'.made = disk.made
    BY <1>21, <1>26, <2>1 DEF StoreBackendShare
  <2>. QED
    BY <1>0, <1>26, <2>3, <2>4 DEF StoreBackendShare, Idle, Kinds
<1>27. ASSUME StartImport PROVE TypeInv'
  <2>1. mishap' \subseteq Mishaps
    BY <1>27 DEF StartImport, Mishaps
  <2>2. /\ backup \in Users /\ page.kmUser \in Users /\ page.user # None
        /\ ses' = [NoCall EXCEPT !.call = "import", !.step = "store", !.user = backup,
                                !.target = page.kmUser]
        /\ calls' \in 0 .. MaxCalls
        /\ UNCHANGED <<protocol, page, gen, disk, backup, registered, loads>>
    BY <1>0, <1>27 DEF StartImport, Pages
  <2>. QED
    <3>1. page.deviceKey # None
      BY <2>2 DEF EmptyPage
    <3>. QED
      BY <1>0, <2>1, <2>2, <3>1 DEF NoCall, Kinds
<1>28. ASSUME ImportStored PROVE TypeInv'
  <2>1. ses.step = "store" /\ ses.target \in Users /\ ses.user \in Users /\ page.deviceKey \in Keys
    BY <1>28 DEF ImportStored, Pages
  <2>2. disk' \in Disks /\ disk'.made = disk.made
    <3>1. /\ "share" \in Kinds
          /\ disk' = Written(disk, "share", ses.target, ses.user, page.deviceKey)
      BY <1>28 DEF ImportStored, Kinds, Stored, Written
    <3>2. disk \in Disks
      OBVIOUS
    <3>. QED
      BY ONLY <2>1, <3>1, <3>2, WrittenDisk
  <2>3. page' \in Pages /\ page'.deviceKey = page.deviceKey /\ page'.user = page.user
    BY <1>28, <2>1 DEF ImportStored, Pages
  <2>. QED
    BY <1>0, <1>28, <2>2, <2>3 DEF ImportStored, InitializeWallet, Kinds, Protocols
<1>29. ASSUME NEW u \in Users, NEW call \in {"login", "oauth", "reconnect"}, StartLogin(u, call)
       PROVE  TypeInv'
  <2>1. mishap' \subseteq Mishaps
    BY <1>29 DEF StartLogin, Mishaps
  <2>2. /\ ses' = [NoCall EXCEPT !.call = call, !.step = "login", !.user = u]
        /\ calls' \in 0 .. MaxCalls /\ page.deviceKey # None
        /\ UNCHANGED <<protocol, page, gen, disk, backup, registered, loads>>
    BY <1>0, <1>29 DEF StartLogin
  <2>3. /\ ses'.step = "login" /\ ses'.user = u
        /\ ses' \in [call : {"none", "initialize", "login", "oauth", "reconnect", "import"},
                     step : {"idle", "me", "login", "storing", "loading", "store", "address"}
                            \cup Kinds,
                     user : Maybe(Users), target : Maybe(Users), share : Maybe(Users)]
    BY ONLY <1>29, <2>2 DEF NoCall, Maybe
  <2>. QED
    BY <2>1, <2>2, <2>3 DEF Kinds
<1>30. ASSUME NEW works \in BOOLEAN, Initialize(works) PROVE TypeInv'
  <2> DEFINE d == DeviceKeyOnDisk(works)
             key == IF works THEN d.idbKey ELSE d.lsKey
  <2>1. disk.made + 1 \in Keys /\ disk.made + 1 \in 0 .. (MaxLoads + 3) /\ page.deviceKey = None
    BY <1>0, <1>30 DEF Initialize, Keys, Disks
  <2>2. d \in Disks /\ d.made \in {disk.made, disk.made + 1} /\ key \in Keys
        /\ d.token = disk.token
    <3>1. CASE works
      BY <1>0, <2>1, <3>1 DEF DeviceKeyOnDisk, FreshKey, Disks
    <3>2. CASE ~works
      BY <1>0, <2>1, <3>2 DEF DeviceKeyOnDisk, FreshKey, Disks
    <3>. QED
      BY <3>1, <3>2
  <2> HIDE DEF d, key
  <2>3. /\ disk' = d /\ page' = [page EXCEPT !.deviceKey = key]
        /\ ses' = IF d.token # None /\ d.token.key = key
                  THEN [NoCall EXCEPT !.call = "initialize", !.step = "me",
                                      !.user = d.token.of]
                  ELSE NoCall
        /\ mishap' \subseteq mishap \cup {"fallback", "shared"}
        /\ UNCHANGED <<protocol, gen, backup, registered, loads, calls>>
    BY <1>30 DEF Initialize, d, key
  <2>. QED
    <3>1. mishap' \subseteq Mishaps
      BY <2>3 DEF Mishaps
    <3>2. page' \in Pages /\ page'.deviceKey = key /\ page'.user = None
      BY <2>1, <2>2, <2>3 DEF Pages, EmptyPage
    <3>3. ses' = NoCall \/ \E u \in Users :
            ses' = [NoCall EXCEPT !.call = "initialize", !.step = "me", !.user = u]
      BY <2>2, <2>3 DEF Disks, Entries
    <3>4. ses' \in [call : {"none", "initialize", "login", "oauth", "reconnect", "import"},
                   step : {"idle", "me", "login", "storing", "loading", "store", "address"}
                          \cup Kinds,
                   user : Maybe(Users), target : Maybe(Users), share : Maybe(Users)]
      <4>1. CASE ses' = NoCall
        BY <4>1 DEF NoCall
      <4>2. ASSUME NEW u \in Users,
                   ses' = [NoCall EXCEPT !.call = "initialize", !.step = "me", !.user = u]
            PROVE  <3>4
        BY <4>2 DEF NoCall
      <4>. QED
        BY <3>3, <4>1, <4>2
    <3>8. ses'.step = "idle" \/ (ses'.step = "me" /\ ses'.user \in Users)
      <4>1. CASE ses' = NoCall
        BY ONLY <4>1 DEF NoCall
      <4>2. ASSUME NEW u \in Users,
                   ses' = [NoCall EXCEPT !.call = "initialize", !.step = "me", !.user = u]
            PROVE  ses'.step = "me" /\ ses'.user \in Users
        BY ONLY <4>2 DEF NoCall
      <4>. QED
        BY ONLY <3>3, <4>1, <4>2
    <3>5. gen.step = "idle" /\ page'.deviceKey # None
      BY <1>0, <2>1, <2>2, <3>2
    <3>6. disk'.made <= loads + 2 /\ disk' \in Disks
      BY <2>1, <2>2, <2>3 DEF Disks
    <3>7. SesPhases' /\ GenPhases'
      BY <2>3, <3>2, <3>5, <3>8 DEF Kinds
    <3>. QED
      BY <2>3, <3>1, <3>2, <3>4, <3>5, <3>6, <3>7
<1>31. ASSUME UNCHANGED vars PROVE TypeInv'
  BY <1>31 DEF vars
<1>. QED
  BY <1>1, <1>2, <1>3, <1>4, <1>4f, <1>5, <1>6, <1>7, <1>8, <1>9, <1>10, <1>11, <1>12, <1>13,
     <1>14,
     <1>15, <1>16, <1>18, <1>19, <1>22, <1>23, <1>24, <1>25, <1>26, <1>27, <1>28, <1>29, <1>30,
     <1>31
     DEF Next


\* A device that is new, or was used before, has them.
LEMMA TypeInitial == Init => TypeInv
<1> SUFFICES ASSUME Init PROVE TypeInv
  OBVIOUS
<1>0. MaxLoads \in Nat /\ MaxCalls \in Nat /\ None \notin Users /\ None \notin Keys
  BY WalletKeysAssumption
<1>1. /\ protocol \in Protocols /\ page = EmptyPage /\ gen = Idle /\ ses = NoCall
      /\ backup = None /\ loads = 0 /\ calls = 0 /\ mishap = {} /\ registered \subseteq Users
  BY DEF Init
<1>2. disk \in Disks /\ disk.made <= 1
  <2> USE DEF Maybe
  <2>1. 1 \in Keys /\ 1 \in 0 .. (MaxLoads + 3) /\ 0 \in 0 .. (MaxLoads + 3)
    BY <1>0 DEF Keys
  <2>2. ASSUME NEW old \in {None, 1} PROVE Untouched(old) \in Disks /\ Untouched(old).made <= 1
    BY <2>1, <2>2 DEF Untouched, Disks
  <2>3. ASSUME NEW U \in SUBSET Users PROVE Used(U) \in Disks /\ Used(U).made <= 1
    <3> DEFINE rows == [k \in Kinds |-> [u \in Users |-> IF u \in U THEN [of |-> u, key |-> 1]
                                                         ELSE None]]
    <3>1. rows \in [Kinds -> [Users -> Maybe(Entries)]]
      BY <2>1 DEF Entries
    <3> HIDE DEF rows
    <3>2. Used(U) = [Untouched(None) EXCEPT !.idbKey = 1, !.made = 1, !.entry = rows]
      BY DEF Used, rows
    <3>3. Untouched(None) \in Disks
      BY <2>2
    <3>4. Used(U) \in Disks
      BY ONLY <2>1, <3>1, <3>2, <3>3 DEF Disks, Maybe
    <3>5. Used(U).made = 1
      BY <3>2 DEF Untouched
    <3>. QED
      BY <3>4, <3>5
  <2>4. \/ \E old \in {None, 1} : disk = Untouched(old)
        \/ \E U \in SUBSET Users : disk = Used(U)
        \/ \E u \in Users : disk = [Used({}) EXCEPT !.dkls = u]
    BY <1>1 DEF Init
  <2>5. \A u \in Users : [Used({}) EXCEPT !.dkls = u] \in Disks
                         /\ [Used({}) EXCEPT !.dkls = u].made <= 1
    <3>1. Used({}) \in Disks /\ Used({}).made <= 1
      BY <2>3
    <3>. QED
      BY <3>1 DEF Disks
  <2>. QED
    BY <2>2, <2>3, <2>4, <2>5
<1>3. page \in Pages /\ page.deviceKey = None
  BY <1>1 DEF EmptyPage, Pages, Maybe
<1>4. TypeOK
  BY <1>0, <1>1, <1>2, <1>3 DEF TypeOK, Idle, NoCall, Maybe
<1>. QED
  BY <1>0, <1>1, <1>2, <1>3, <1>4
     DEF TypeInv, KeysMade, GenPhases, SesPhases, Idle, NoCall, Kinds

\* The calls of the page and of the backend keep to their types, for any number of
\* users, page loads and calls.
THEOREM TypesKept == Spec => []TypeOK
<1>1. TypeInv => TypeOK
  BY DEF TypeInv
<1>. QED
  BY <1>1, TypeInitial, TypeStep, PTL DEF Spec
-----------------------------------------------------------------------------
(* Stored shares are registered.                                            *)

\* The wallets of a used device are of registered users.
LEMMA RegisteredInitial == Init => RegisteredInv
<1> SUFFICES ASSUME Init PROVE RegisteredInv
  OBVIOUS
<1>1. page = EmptyPage /\ ses = NoCall /\ backup = None
  BY DEF Init
<1>2. \/ \E old \in {None, 1} : disk = Untouched(old)
      \/ disk = Used(registered)
      \/ \E u \in Users : registered = {u} /\ disk = [Used({}) EXCEPT !.dkls = u]
  BY DEF Init
<1>3. StoredIsRegistered
  <2> USE DEF StoredIsRegistered, Value, Maybe
  <2>1. ASSUME NEW old \in {None, 1}, disk = Untouched(old) PROVE StoredIsRegistered
    BY <2>1 DEF Untouched
  <2>2. ASSUME NEW U \in SUBSET Users
        PROVE  /\ Used(U).dkls = None
               /\ \A k \in Kinds, u \in Users : Value(Used(U).entry[k][u]) \in {None} \cup U
    BY DEF Untouched, Used
  <2>3. CASE disk = Used(registered)
    BY <2>2, <2>3 DEF Init
  <2>4. ASSUME NEW u \in Users, registered = {u}, disk = [Used({}) EXCEPT !.dkls = u]
        PROVE  StoredIsRegistered
    <3>1. disk.dkls = u /\ disk.entry = Used({}).entry
      BY <2>4 DEF Used, Untouched
    <3>. QED
      BY <2>2, <2>4, <3>1
  <2>. QED
    BY <1>2, <2>1, <2>3, <2>4
<1>. QED
  BY <1>1, <1>3 DEF RegisteredInv, EmptyPage, NoCall, Maybe

\* What is stored, cached or exported comes from a generation the backend completed.
LEMMA RegisteredStep ==
    ASSUME TypeInv, TypeInv', RegisteredInv, [Next]_vars PROVE RegisteredInv'
<1> USE DEF RegisteredInv, StoredIsRegistered, Maybe
<1>0. None \notin Users
  BY WalletKeysAssumption
<1>t. page \in Pages /\ disk \in Disks /\ GenPhases /\ SesPhases /\ TypeOK
  BY DEF TypeInv, TypeOK
<1>1. ASSUME Close PROVE RegisteredInv'
  BY <1>0, <1>t, <1>1
     DEF Close, TypeOK, GenPhases, SesPhases, Pages, Disks, Kinds, Idle, NoCall, EmptyPage,
         Value
<1>2. ASSUME MeAnswers PROVE RegisteredInv'
  BY <1>0, <1>t, <1>2
     DEF MeAnswers, TypeOK, GenPhases, SesPhases, Pages, Disks, Kinds, NoCall, Throws,
         InitializeWallet, Value
<1>3. ASSUME LoginAnswers PROVE RegisteredInv'
  BY <1>0, <1>t, <1>3
     DEF LoginAnswers, TypeOK, GenPhases, SesPhases, Pages, Disks, Kinds, Value
<1>4. ASSUME LoginFails PROVE RegisteredInv'
  BY <1>0, <1>t, <1>4
     DEF LoginFails, TypeOK, GenPhases, SesPhases, Pages, Disks, Kinds, NoCall, Value
<1>4f. ASSUME StoreTokensFails PROVE RegisteredInv'
  BY <1>0, <1>t, <1>4f
     DEF StoreTokensFails, TypeOK, GenPhases, SesPhases, Pages, Disks, Kinds, NoCall, Value
<1>5. ASSUME StoreTokens PROVE RegisteredInv'
  BY <1>0, <1>t, <1>5 DEF StoreTokens, TypeOK, GenPhases, SesPhases, Pages, Disks, Kinds, Value
<1>6. ASSUME KeyManagerInitialized PROVE RegisteredInv'
  BY <1>0, <1>t, <1>6
     DEF KeyManagerInitialized, TypeOK, GenPhases, SesPhases, Pages, Disks, Kinds, NoCall,
         Throws, InitializeWallet, Value
<1>7. ASSUME Logout PROVE RegisteredInv'
  BY <1>0, <1>t, <1>7 DEF Logout, TypeOK, GenPhases, SesPhases, Pages, Disks, Kinds, Value
<1>e. ASSUME NEW kind \in Kinds PROVE Value(Entry(kind)) \in Maybe(registered)
  <2>1. CASE page.kmUser = None
    BY <2>1 DEF Entry, Value
  <2>2. CASE page.kmUser # None
    BY <1>t, <2>2 DEF Entry, Pages
  <2>. QED
    BY <2>1, <2>2
<1>8. ASSUME LoadShare PROVE RegisteredInv'
  <2>1. CASE Throws /\ UNCHANGED <<backup, registered>>
    BY <1>t, <2>1 DEF Throws, NoCall, Disks
  <2>2. CASE ~(page.kmShare = None /\ Unreadable(Entry("share")))
    <3> DEFINE share == IF page.kmShare # None THEN page.kmShare ELSE Value(Entry("share"))
    <3>1. share \in Maybe(registered)
      BY <1>e DEF Kinds
    <3> HIDE DEF share
    <3>2. /\ page' = [page EXCEPT !.kmShare = share] /\ UNCHANGED <<disk, backup, registered>>
          /\ ses' = IF share = None THEN NoCall
                    ELSE [ses EXCEPT !.step = "party", !.share = share]
      BY <1>8, <2>2 DEF LoadShare, share
    <3>3. ses'.step # "store"
      BY <1>t, <3>2 DEF NoCall, TypeOK
    <3>4. page'.kmShare = share
      BY <1>t, <3>2 DEF Pages
    <3>. QED
      BY <3>1, <3>2, <3>3, <3>4
  <2>. QED
    BY <1>8, <2>1, <2>2 DEF LoadShare
<1>9. ASSUME LoadPartyShares PROVE RegisteredInv'
  BY <1>0, <1>t, <1>9
     DEF LoadPartyShares, TypeOK, GenPhases, SesPhases, Pages, Disks, Kinds, NoCall, Throws,
         Entry, Value, Proceed
<1>10. ASSUME LoadPublicKey PROVE RegisteredInv'
  <2>1. /\ UNCHANGED <<backup, registered>> /\ ses'.step # "store"
        /\ disk'.dkls = disk.dkls /\ disk'.entry = disk.entry
    BY <1>t, <1>10 DEF LoadPublicKey, Throws, NoCall, Proceed, Disks, TypeOK
  <2>2. page'.kmShare = page.kmShare
    <3> DEFINE public == Value(Entry("public"))
    <3>1. page' = page \/ page' = [page EXCEPT !.publicKey = public, !.partyShares = page.kmParty]
      BY <1>10 DEF LoadPublicKey, Throws
    <3> HIDE DEF public
    <3>. QED
      BY <1>t, <3>1 DEF Pages
  <2>. QED
    BY <2>1, <2>2
<1>11. ASSUME LoadBackendShare PROVE RegisteredInv'
  BY <1>0, <1>t, <1>11
     DEF LoadBackendShare, TypeOK, GenPhases, SesPhases, Pages, Disks, Kinds, NoCall, Throws,
         Entry, Value
<1>12. ASSUME LoadDklsShare PROVE RegisteredInv'
  BY <1>0, <1>t, <1>12
     DEF LoadDklsShare, TypeOK, GenPhases, SesPhases, Pages, Disks, Kinds, NoCall, Value
<1>13. ASSUME Generate PROVE RegisteredInv'
  BY <1>0, <1>t, <1>13 DEF Generate, TypeOK, GenPhases, SesPhases, Pages, Disks, Kinds, Value
<1>14. ASSUME BackendCompletes PROVE RegisteredInv'
  BY <1>0, <1>t, <1>14
     DEF BackendCompletes, TypeOK, GenPhases, SesPhases, Pages, Disks, Kinds, Value
<1>15. ASSUME GenerationFails PROVE RegisteredInv'
  BY <1>0, <1>t, <1>15
     DEF GenerationFails, TypeOK, GenPhases, SesPhases, Pages, Disks, Kinds, Idle, Value
<1>16. ASSUME GenerationAnswered PROVE RegisteredInv'
  BY <1>0, <1>t, <1>16
     DEF GenerationAnswered, TypeOK, GenPhases, SesPhases, Pages, Disks, Kinds, Idle, Value,
         BeginStore
<1>17. ASSUME SaveDklsShare PROVE RegisteredInv'
  BY <1>0, <1>t, <1>17
     DEF SaveDklsShare, TypeOK, GenPhases, SesPhases, Pages, Disks, Kinds, Idle, Value
<1>18. ASSUME StoreShare PROVE RegisteredInv'
  BY <1>0, <1>t, <1>18
     DEF StoreShare, TypeOK, GenPhases, SesPhases, Pages, Disks, Kinds, Idle, Value, Stored,
         BeginStore
<1>19. ASSUME StorePartyShares PROVE RegisteredInv'
  BY <1>0, <1>t, <1>19
     DEF StorePartyShares, TypeOK, GenPhases, SesPhases, Pages, Disks, Kinds, Idle, Value,
         Stored, BeginStore
<1>20. ASSUME StorePublicKey PROVE RegisteredInv'
  BY <1>0, <1>t, <1>20
     DEF StorePublicKey, TypeOK, GenPhases, SesPhases, Pages, Disks, Kinds, Idle, Value,
         Stored, BeginStore
<1>21. ASSUME StoreBackendShare PROVE RegisteredInv'
  BY <1>0, <1>t, <1>21
     DEF StoreBackendShare, TypeOK, GenPhases, SesPhases, Pages, Disks, Kinds, Idle, Value,
         Stored
<1>22. ASSUME StoreFails PROVE RegisteredInv'
  BY <1>0, <1>t, <1>22
     DEF StoreFails, TypeOK, GenPhases, SesPhases, Pages, Disks, Kinds, Idle, Value
<1>23. ASSUME ExportBackup PROVE RegisteredInv'
  BY <1>0, <1>t, <1>23
     DEF ExportBackup, TypeOK, GenPhases, SesPhases, Pages, Disks, Kinds, Entry, Value
<1>24. ASSUME StartImport PROVE RegisteredInv'
  BY <1>0, <1>t, <1>24
     DEF StartImport, TypeOK, GenPhases, SesPhases, Pages, Disks, Kinds, NoCall, Value
<1>25. ASSUME ImportStored PROVE RegisteredInv'
  BY <1>0, <1>t, <1>25
     DEF ImportStored, TypeOK, GenPhases, SesPhases, Pages, Disks, Kinds, InitializeWallet,
         Value, Stored
<1>26. ASSUME NEW u \in Users, NEW call \in {"login", "oauth", "reconnect"}, StartLogin(u, call)
       PROVE  RegisteredInv'
  BY <1>26 DEF StartLogin, NoCall
<1>27. ASSUME NEW works \in BOOLEAN, Initialize(works) PROVE RegisteredInv'
  <2>1. disk'.dkls = disk.dkls /\ disk'.entry = disk.entry
    BY <1>t, <1>27 DEF Initialize, DeviceKeyOnDisk, FreshKey, Disks
  <2>2. ses'.step # "store" /\ page'.kmShare = page.kmShare /\ UNCHANGED <<backup, registered>>
    BY <1>t, <1>27 DEF Initialize, NoCall, Pages
  <2>. QED
    BY <2>1, <2>2
<1>28. ASSUME UNCHANGED vars PROVE RegisteredInv'
  BY <1>28 DEF vars, Value
<1>. QED
  BY <1>1, <1>2, <1>3, <1>4, <1>4f, <1>5, <1>6, <1>7, <1>8, <1>9, <1>10, <1>11, <1>12, <1>13,
     <1>14,
     <1>15, <1>16, <1>17, <1>18, <1>19, <1>20, <1>21, <1>22, <1>23, <1>24, <1>25, <1>26, <1>27,
     <1>28
     DEF Next

\* A share that is stored, cached or exported is one of a wallet the backend has,
\* whatever call, failure or page load comes between (dkls-client.ts:121).
THEOREM StoredSharesAreRegistered == Spec => []StoredIsRegistered
<1>1. RegisteredInv => StoredIsRegistered
  BY DEF RegisteredInv
<1>2. TypeInv /\ RegisteredInv /\ [Next]_vars => (TypeInv /\ RegisteredInv)'
  BY TypeStep, RegisteredStep
<1>. QED
  BY <1>1, <1>2, TypeInitial, RegisteredInitial, PTL DEF Spec

-----------------------------------------------------------------------------
(* What a store writes and what a session call leaves alone, field by field. *)

\* What the next read of each entry finds after a store.
LEMMA EntryStored ==
    ASSUME TypeInv, NEW kind \in Kinds, NEW u \in Users, NEW owner \in Users,
           page.deviceKey # None, disk' = Written(disk, kind, u, owner, page.deviceKey)
    PROVE  /\ disk'.dkls = disk.dkls /\ disk'.token = disk.token
           /\ \A k \in Kinds, v \in Users :
                 Value(disk'.entry[k][v])
                   = IF k = kind /\ v = u THEN owner ELSE Value(disk.entry[k][v])
<1>1. disk \in Disks /\ page.deviceKey \in Keys
  BY DEF TypeInv, TypeOK, Pages, Maybe
<1>2. ASSUME NEW d \in Disks, NEW key \in Keys
      PROVE  /\ Written(d, kind, u, owner, key).dkls = d.dkls
             /\ Written(d, kind, u, owner, key).token = d.token
  BY WrittenDisk
<1>3. ASSUME NEW d \in Disks, NEW key \in Keys
      PROVE  Value(Written(d, kind, u, owner, key).entry[kind][u]) = owner
  <2>1. Written(d, kind, u, owner, key).entry[kind][u] = [of |-> owner, key |-> key]
    BY WrittenEntry
  <2>2. [of |-> owner, key |-> key] # None
    BY WalletKeysAssumption DEF Entries
  <2>. QED
    BY <2>1, <2>2 DEF Value
<1>4. ASSUME NEW d \in Disks, NEW key \in Keys, NEW k \in Kinds, NEW v \in Users,
             k # kind \/ v # u
      PROVE  Written(d, kind, u, owner, key).entry[k][v] = d.entry[k][v]
  BY <1>4, WrittenElsewhere
<1>5. ASSUME NEW k \in Kinds, NEW v \in Users
      PROVE  Value(disk'.entry[k][v])
               = IF k = kind /\ v = u THEN owner ELSE Value(disk.entry[k][v])
  <2>1. CASE k = kind /\ v = u
    BY <1>1, <1>3, <2>1
  <2>2. CASE k # kind \/ v # u
    BY <1>1, <1>4, <2>2
  <2>. QED
    BY <2>1, <2>2
<1>. QED
  BY <1>1, <1>2, <1>5

\* The same for a store of a generation.
LEMMA GenerationStored ==
    ASSUME TypeInv, NEW kind \in Kinds, gen.step = kind,
           disk' = Stored(kind, gen.target, gen.user)
    PROVE  /\ gen.user \in Users /\ gen.target \in Users
           /\ disk'.dkls = disk.dkls /\ disk'.token = disk.token
           /\ \A k \in Kinds, v \in Users :
                 Value(disk'.entry[k][v])
                   = IF k = kind /\ v = gen.target THEN gen.user ELSE Value(disk.entry[k][v])
<1>1. gen.user \in Users /\ gen.target \in Users /\ page.deviceKey # None
  BY DEF TypeInv, GenPhases, Kinds
<1>2. disk' = Written(disk, kind, gen.target, gen.user, page.deviceKey)
  BY DEF Stored, Written
<1>. QED
  BY <1>1, <1>2, EntryStored

\* The same for the store of importBackup().
LEMMA ImportWritten ==
    ASSUME TypeInv, ImportStored
    PROVE  /\ ses.user \in Users /\ ses.target \in Users
           /\ disk'.dkls = disk.dkls /\ disk'.token = disk.token
           /\ \A k \in Kinds, v \in Users :
                 Value(disk'.entry[k][v])
                   = IF k = "share" /\ v = ses.target THEN ses.user
                     ELSE Value(disk.entry[k][v])
<1>1. ses.user \in Users /\ ses.target \in Users /\ page.deviceKey # None /\ "share" \in Kinds
  BY DEF TypeInv, SesPhases, Kinds, ImportStored
<1>2. disk' = Written(disk, "share", ses.target, ses.user, page.deviceKey)
  BY DEF ImportStored, Stored, Written
<1>. QED
  BY <1>1, <1>2, EntryStored

\* The next store of a generation: for the user of the key manager, if there is one.
LEMMA NextStore ==
    ASSUME TypeInv, gen.step # "idle", NEW kind \in Kinds, BeginStore(kind)
    PROVE  \/ page.kmUser = None /\ gen' = Idle
           \/ /\ page.kmUser \in Users
              /\ gen'.step = kind /\ gen'.user = gen.user /\ gen'.target = page.kmUser
<1>1. /\ gen \in [step : {"idle", "dkg", "answer", "save"} \cup Kinds,
                  user : Maybe(Users), target : Maybe(Users)]
      /\ page.kmUser \in Maybe(Users)
  BY DEF TypeInv, TypeOK, Pages
<1>. QED
  BY <1>1 DEF BeginStore, Maybe

\* A call that throws touches nothing but the stored tokens.
LEMMA CallThrows ==
    ASSUME TypeInv, Throws
    PROVE  /\ ses' = NoCall /\ page' = page
           /\ disk'.dkls = disk.dkls /\ disk'.entry = disk.entry
           /\ disk'.token \in {None, disk.token}
<1>1. disk \in Disks
  BY DEF TypeInv, TypeOK
<1>. QED
  BY <1>1 DEF Throws, Disks

\* The key manager's share is read, or the call ends.
LEMMA ShareLoaded ==
    ASSUME TypeInv, LoadShare
    PROVE  \/ Throws
           \/ /\ page'.kmShare = IF page.kmShare # None THEN page.kmShare
                                 ELSE Value(Entry("share"))
              /\ page' = [page EXCEPT !.kmShare = page'.kmShare]
              /\ disk' = disk
              /\ \/ page'.kmShare = None /\ ses' = NoCall
                 \/ /\ page'.kmShare # None
                    /\ ses' = [ses EXCEPT !.step = "party", !.share = page'.kmShare]
<1> SUFFICES ASSUME ~Throws PROVE
         /\ page'.kmShare = IF page.kmShare # None THEN page.kmShare
                            ELSE Value(Entry("share"))
         /\ page' = [page EXCEPT !.kmShare = page'.kmShare]
         /\ disk' = disk
         /\ \/ page'.kmShare = None /\ ses' = NoCall
            \/ /\ page'.kmShare # None
               /\ ses' = [ses EXCEPT !.step = "party", !.share = page'.kmShare]
  OBVIOUS
<1> DEFINE share == IF page.kmShare # None THEN page.kmShare ELSE Value(Entry("share"))
<1>1. /\ page' = [page EXCEPT !.kmShare = share] /\ disk' = disk
      /\ ses' = IF share = None THEN NoCall ELSE [ses EXCEPT !.step = "party", !.share = share]
  BY DEF LoadShare
<1>2. page'.kmShare = share
  <2> HIDE DEF share
  <2>1. page \in Pages
    BY DEF TypeInv, TypeOK
  <2>. QED
    BY <1>1, <2>1 DEF Pages
<1> HIDE DEF share
<1>3. page' = [page EXCEPT !.kmShare = page'.kmShare]
  BY <1>1, <1>2
<1>4. \/ page'.kmShare = None /\ ses' = NoCall
      \/ page'.kmShare # None /\ ses' = [ses EXCEPT !.step = "party", !.share = page'.kmShare]
  BY <1>1, <1>2
<1>. QED
  BY <1>1, <1>2, <1>3, <1>4 DEF share

\* The public key is read, and the party shares are taken from the key manager.
LEMMA PublicKeyLoaded ==
    ASSUME TypeInv, LoadPublicKey
    PROVE  \/ Throws
           \/ ses' = NoCall /\ UNCHANGED <<page, disk>>
           \/ /\ page'.publicKey = Value(Entry("public")) /\ Entry("public") # None
              /\ page' = [page EXCEPT !.publicKey = page'.publicKey,
                                      !.partyShares = page.kmParty]
              /\ disk' = disk /\ ses' = [ses EXCEPT !.step = "backend"]
<1> SUFFICES ASSUME ~Throws, ~(ses' = NoCall /\ UNCHANGED <<page, disk>>) PROVE
         /\ page'.publicKey = Value(Entry("public")) /\ Entry("public") # None
         /\ page' = [page EXCEPT !.publicKey = page'.publicKey, !.partyShares = page.kmParty]
         /\ disk' = disk /\ ses' = [ses EXCEPT !.step = "backend"]
  OBVIOUS
<1> DEFINE public == Value(Entry("public"))
<1>1. /\ page' = [page EXCEPT !.publicKey = public, !.partyShares = page.kmParty]
      /\ disk' = disk /\ ses' = [ses EXCEPT !.step = "backend"] /\ Entry("public") # None
  BY DEF LoadPublicKey, Proceed
<1>2. page'.publicKey = public
  <2> HIDE DEF public
  <2>1. page \in Pages
    BY DEF TypeInv, TypeOK
  <2>. QED
    BY <1>1, <2>1 DEF Pages
<1>3. page' = [page EXCEPT !.publicKey = page'.publicKey, !.partyShares = page.kmParty]
  <2> HIDE DEF public
  <2>. QED
    BY <1>1, <1>2
<1>. QED
  BY <1>1, <1>2, <1>3

-----------------------------------------------------------------------------
(* Entries stay readable.                                                   *)

\* The entries of a used device have its key.
LEMMA KeyInitial == Init => KeyInv
<1> SUFFICES ASSUME Init PROVE KeyInv
  OBVIOUS
<1>1. page.deviceKey = None
  BY DEF Init, EmptyPage
<1>2. \/ \E old \in {None, 1} : disk = Untouched(old)
      \/ \E U \in SUBSET Users : disk = Used(U)
      \/ \E u \in Users : disk = [Used({}) EXCEPT !.dkls = u]
  BY DEF Init
<1>3. ASSUME NEW k \in Kinds, NEW u \in Users
      PROVE  disk.entry[k][u] # None => disk.entry[k][u].key = CurrentKey
  <2>1. ASSUME NEW old \in {None, 1}, disk = Untouched(old) PROVE disk.entry[k][u] = None
    BY <2>1 DEF Untouched
  <2>2. ASSUME NEW U \in SUBSET Users
        PROVE  /\ Used(U).entry[k][u] # None => Used(U).entry[k][u].key = 1
               /\ Used(U).idbKey = 1
    BY DEF Used, Untouched
  <2>3. ASSUME NEW U \in SUBSET Users, disk = Used(U), disk.entry[k][u] # None
        PROVE  disk.entry[k][u].key = CurrentKey
    BY <2>2, <2>3, WalletKeysAssumption DEF CurrentKey, Keys
  <2>4. ASSUME NEW w \in Users, disk = [Used({}) EXCEPT !.dkls = w],
               disk.entry[k][u] # None
        PROVE  disk.entry[k][u].key = CurrentKey
    <3>1. disk.entry = Used({}).entry /\ disk.idbKey = Used({}).idbKey
      BY <2>4 DEF Used, Untouched
    <3>. QED
      BY <2>2, <2>4, <3>1, WalletKeysAssumption DEF CurrentKey, Keys
  <2>. QED
    BY <1>2, <2>1, <2>3, <2>4
<1>. QED
  BY <1>1, <1>3 DEF KeyInv

\* An entry written with the page's key keeps the invariant.
LEMMA KeyWritten ==
    ASSUME TypeInv, KeyInv, "fallback" \notin mishap, page.deviceKey # None,
           NEW kind \in Kinds, NEW u \in Users, NEW owner \in Users,
           disk' = Written(disk, kind, u, owner, page.deviceKey),
           page'.deviceKey = page.deviceKey
    PROVE  KeyInv'
<1>1. disk \in Disks /\ page.deviceKey \in Keys /\ page.deviceKey = CurrentKey
  BY DEF TypeInv, TypeOK, Pages, Maybe, KeyInv
<1>2. disk'.idbKey = disk.idbKey /\ disk'.lsKey = disk.lsKey
  <2>1. ASSUME NEW d \in Disks, NEW key \in Keys
        PROVE  /\ Written(d, kind, u, owner, key).idbKey = d.idbKey
               /\ Written(d, kind, u, owner, key).lsKey = d.lsKey
    BY WrittenDisk
  <2>. QED
    BY <1>1, <2>1
<1>3. CurrentKey' = CurrentKey
  BY <1>2 DEF CurrentKey
<1>4. ASSUME NEW k \in Kinds, NEW v \in Users, disk'.entry[k][v] # None
      PROVE  disk'.entry[k][v].key = CurrentKey
  <2>1. CASE k = kind /\ v = u
    <3>1. ASSUME NEW d \in Disks, NEW key \in Keys
          PROVE  Written(d, kind, u, owner, key).entry[k][v].key = key
      <4>1. Written(d, kind, u, owner, key).entry[kind][u] = [of |-> owner, key |-> key]
        BY WrittenEntry
      <4>. QED
        BY <2>1, <4>1
    <3>. QED
      BY <1>1, <3>1
  <2>2. CASE ~(k = kind /\ v = u)
    <3>1. ASSUME NEW d \in Disks, NEW key \in Keys
          PROVE  Written(d, kind, u, owner, key).entry[k][v] = d.entry[k][v]
      BY <2>2, WrittenElsewhere
    <3>2. disk'.entry[k][v] = disk.entry[k][v]
      BY <1>1, <3>1
    <3>. QED
      BY <1>4, <3>2 DEF KeyInv
  <2>. QED
    BY <2>1, <2>2
<1>. QED
  BY <1>1, <1>3, <1>4 DEF KeyInv

\* No step but a fallback to localStorage changes the key once there is one.
LEMMA KeyStep ==
    ASSUME TypeInv, TypeInv', KeyInv, [Next]_vars PROVE KeyInv'
<1>0. None \notin Keys
  BY WalletKeysAssumption
<1>t. page \in Pages /\ disk \in Disks /\ GenPhases /\ SesPhases /\ TypeOK
  BY DEF TypeInv, TypeOK
<1>u. ASSUME page'.deviceKey \in {None, page.deviceKey}, disk'.entry = disk.entry,
             disk'.idbKey = disk.idbKey, disk'.lsKey = disk.lsKey, mishap \subseteq mishap'
      PROVE  KeyInv'
  <2>1. CurrentKey' = CurrentKey
    BY <1>u DEF CurrentKey
  <2>. QED
    BY <1>u, <2>1 DEF KeyInv
<1>1. ASSUME Close PROVE KeyInv'
  BY <1>t, <1>u, <1>1 DEF Close, Idle, NoCall, EmptyPage, Happens, Pages, Disks
<1>2. ASSUME MeAnswers PROVE KeyInv'
  BY <1>t, <1>u, <1>2 DEF MeAnswers, NoCall, Throws, InitializeWallet, Pages, Disks
<1>3. ASSUME LoginAnswers PROVE KeyInv'
  BY <1>t, <1>u, <1>3 DEF LoginAnswers, Pages, Disks
<1>4. ASSUME LoginFails PROVE KeyInv'
  BY <1>t, <1>u, <1>4 DEF LoginFails, NoCall, Pages, Disks
<1>4f. ASSUME StoreTokensFails PROVE KeyInv'
  BY <1>t, <1>u, <1>4f DEF StoreTokensFails, NoCall, Happens, Pages, Disks
<1>5. ASSUME StoreTokens PROVE KeyInv'
  BY <1>t, <1>u, <1>5 DEF StoreTokens, Pages, Disks
<1>6. ASSUME KeyManagerInitialized PROVE KeyInv'
  BY <1>t, <1>u, <1>6 DEF KeyManagerInitialized, NoCall, Throws, InitializeWallet, Pages, Disks
<1>7. ASSUME Logout PROVE KeyInv'
  BY <1>t, <1>u, <1>7 DEF Logout, Happens, Pages, Disks
<1>8. ASSUME LoadShare PROVE KeyInv'
  BY <1>t, <1>u, <1>8 DEF LoadShare, NoCall, Throws, Pages, Disks
<1>9. ASSUME LoadPartyShares PROVE KeyInv'
  BY <1>t, <1>u, <1>9 DEF LoadPartyShares, NoCall, Throws, Proceed, Pages, Disks
<1>10. ASSUME LoadPublicKey PROVE KeyInv'
  BY <1>t, <1>u, <1>10 DEF LoadPublicKey, NoCall, Throws, Proceed, Pages, Disks
<1>11. ASSUME LoadBackendShare PROVE KeyInv'
  BY <1>t, <1>u, <1>11 DEF LoadBackendShare, NoCall, Throws, Pages, Disks
<1>12. ASSUME LoadDklsShare PROVE KeyInv'
  BY <1>t, <1>u, <1>12 DEF LoadDklsShare, NoCall, Pages, Disks
<1>13. ASSUME Generate PROVE KeyInv'
  BY <1>t, <1>u, <1>13 DEF Generate, Pages, Disks
<1>14. ASSUME BackendCompletes PROVE KeyInv'
  BY <1>t, <1>u, <1>14 DEF BackendCompletes, Pages, Disks
<1>15. ASSUME GenerationFails PROVE KeyInv'
  BY <1>t, <1>u, <1>15 DEF GenerationFails, Idle, Happens, Pages, Disks
<1>16. ASSUME GenerationAnswered PROVE KeyInv'
  BY <1>t, <1>u, <1>16 DEF GenerationAnswered, Idle, BeginStore, Pages, Disks
<1>17. ASSUME SaveDklsShare PROVE KeyInv'
  BY <1>t, <1>u, <1>17 DEF SaveDklsShare, Idle, Pages, Disks
<1>18. ASSUME StoreFails PROVE KeyInv'
  BY <1>t, <1>u, <1>18 DEF StoreFails, Idle, Happens, Pages, Disks
<1>19. ASSUME ExportBackup PROVE KeyInv'
  BY <1>t, <1>u, <1>19 DEF ExportBackup, Pages, Disks
<1>20. ASSUME StartImport PROVE KeyInv'
  BY <1>t, <1>u, <1>20 DEF StartImport, NoCall, Pages, Disks
<1>w. ASSUME NEW kind \in Kinds, gen.step = kind, disk' = Stored(kind, gen.target, gen.user),
             page'.deviceKey = page.deviceKey, mishap' = mishap
      PROVE  KeyInv'
  <2>1. gen.target \in Users /\ gen.user \in Users /\ page.deviceKey # None
    BY <1>t, <1>w DEF GenPhases, Kinds
  <2>2. disk' = Written(disk, kind, gen.target, gen.user, page.deviceKey)
    BY <1>w DEF Stored, Written
  <2>. QED
    BY <1>w, <2>1, <2>2, KeyWritten DEF KeyInv
<1>21. ASSUME StoreShare PROVE KeyInv'
  BY <1>t, <1>w, <1>21 DEF StoreShare, Pages, Kinds
<1>22. ASSUME StorePartyShares PROVE KeyInv'
  BY <1>t, <1>w, <1>22 DEF StorePartyShares, Pages, Kinds
<1>23. ASSUME StorePublicKey PROVE KeyInv'
  BY <1>t, <1>w, <1>23 DEF StorePublicKey, Pages, Kinds
<1>24. ASSUME StoreBackendShare PROVE KeyInv'
  BY <1>t, <1>w, <1>24 DEF StoreBackendShare, Pages, Kinds
<1>25. ASSUME ImportStored PROVE KeyInv'
  <2>1. /\ ses.target \in Users /\ ses.user \in Users /\ page.deviceKey # None
        /\ page'.deviceKey = page.deviceKey /\ mishap' = mishap /\ "share" \in Kinds
    BY <1>t, <1>25 DEF ImportStored, SesPhases, Pages, Kinds
  <2>2. disk' = Written(disk, "share", ses.target, ses.user, page.deviceKey)
    BY <1>25 DEF ImportStored, Stored, Written
  <2>. QED
    BY <2>1, <2>2, KeyWritten DEF KeyInv
<1>26. ASSUME NEW u \in Users, NEW call \in {"login", "oauth", "reconnect"}, StartLogin(u, call)
      PROVE  KeyInv'
  BY <1>u, <1>26 DEF StartLogin
<1>27. ASSUME NEW works \in BOOLEAN, Initialize(works) PROVE KeyInv'
  <2> SUFFICES ASSUME "fallback" \notin mishap' PROVE KeyInv'
    BY DEF KeyInv
  <2>1. /\ "fallback" \notin mishap /\ (works \/ disk.idbKey \in {None, disk.lsKey})
        /\ page.deviceKey = None /\ disk' = DeviceKeyOnDisk(works)
        /\ page'.deviceKey = IF works THEN disk'.idbKey ELSE disk'.lsKey
    BY <1>t, <1>27 DEF Initialize, Happens, Pages
  <2>2. disk.made + 1 \in Keys
    BY <1>t, <2>1, WalletKeysAssumption DEF TypeInv, TypeOK, KeysMade, Disks, Keys
  <2>3. disk'.entry = disk.entry
    BY <1>t, <2>1 DEF DeviceKeyOnDisk, FreshKey, Disks
  <2>4. CASE CurrentKey = None
    <3>1. ASSUME NEW k \in Kinds, NEW u \in Users PROVE disk.entry[k][u] = None
      <4>1. disk.entry[k][u] \in Maybe(Entries)
        BY <1>t DEF Disks
      <4>2. disk.entry[k][u] # None => disk.entry[k][u].key = None
        BY <2>1, <2>4 DEF KeyInv
      <4>. QED
        BY <1>0, <4>1, <4>2 DEF Entries, Maybe
    <3>2. page'.deviceKey = CurrentKey'
      BY <1>0, <1>t, <2>1, <2>2, <2>4 DEF DeviceKeyOnDisk, FreshKey, Disks, CurrentKey
    <3>. QED
      BY <2>3, <3>1, <3>2 DEF KeyInv
  <2>5. CASE CurrentKey # None
    <3>1. page'.deviceKey = CurrentKey' /\ CurrentKey' = CurrentKey
      BY <1>0, <1>t, <2>1, <2>2, <2>5 DEF DeviceKeyOnDisk, FreshKey, Disks, CurrentKey
    <3>2. ASSUME NEW k \in Kinds, NEW u \in Users, disk'.entry[k][u] # None
          PROVE  disk'.entry[k][u].key = CurrentKey'
      BY <2>1, <2>3, <3>1, <3>2 DEF KeyInv
    <3>. QED
      BY <3>1, <3>2 DEF KeyInv
  <2>. QED
    BY <2>4, <2>5
<1>28. ASSUME UNCHANGED vars PROVE KeyInv'
  BY <1>u, <1>28 DEF vars
<1>. QED
  BY <1>1, <1>2, <1>3, <1>4, <1>4f, <1>5, <1>6, <1>7, <1>8, <1>9, <1>10, <1>11, <1>12, <1>13,
     <1>14,
     <1>15, <1>16, <1>17, <1>18, <1>19, <1>20, <1>21, <1>22, <1>23, <1>24, <1>25, <1>26, <1>27,
     <1>28
     DEF Next

\* A page whose IndexedDB always worked opens every entry of the key manager that
\* earlier pages wrote, however many pages made or migrated a device key
\* (nero-sdk.ts:1294).
THEOREM EntriesStayReadable == Spec => []EntriesOpen
<1>1. KeyInv => EntriesOpen
  BY DEF KeyInv, EntriesOpen, Unreadable
<1>2. TypeInv /\ KeyInv /\ [Next]_vars => (TypeInv /\ KeyInv)'
  BY TypeStep, KeyStep
<1>. QED
  BY <1>1, <1>2, TypeInitial, KeyInitial, PTL DEF Spec

-----------------------------------------------------------------------------
(* The wallet is the logged-in user's.                                      *)

\* Every step keeps OwnInv.
LEMMA OwnStep ==
    ASSUME TypeInv, TypeInv', OwnInv, [Next]_vars PROVE OwnInv'
<1>0. None \notin Users /\ None \notin Keys /\ None \notin Wallets /\ None \notin Entries
  BY WalletKeysAssumption
<1>t. page \in Pages /\ disk \in Disks /\ GenPhases /\ SesPhases /\ TypeOK
  BY DEF TypeInv, TypeOK
<1>e. page.deviceKey = None => page = EmptyPage
  BY DEF TypeInv
<1> SUFFICES ASSUME Calm' PROVE (CallsAgree /\ DiskAgrees /\ PageAgrees)'
  BY DEF OwnInv, Calm
<1>m. ASSUME mishap \subseteq mishap' PROVE CallsAgree /\ DiskAgrees /\ PageAgrees /\ Calm
  BY <1>m DEF OwnInv, Calm
<1>v. ASSUME DiskAgrees, NEW kind \in Kinds PROVE Value(Entry(kind)) \in {None, page.kmUser}
  BY <1>t, <1>v DEF Entry, Value, DiskAgrees, Pages, Maybe
<1>d. ASSUME DiskAgrees, CallsAgree, page' = page, ses' = NoCall, disk'.dkls = disk.dkls,
             disk'.entry = disk.entry, disk'.token \in {None, disk.token},
             UNCHANGED gen, ses.step # "storing"
      PROVE  DiskAgrees'
  BY <1>0, <1>t, <1>d DEF DiskAgrees, NoCall, Value, Disks

<1>1. ASSUME Close PROVE (CallsAgree /\ DiskAgrees /\ PageAgrees)'
  <2>m. mishap \subseteq mishap'
    BY <1>1 DEF Close, Happens
  <2>h. CallsAgree /\ DiskAgrees /\ PageAgrees /\ Calm
    BY <1>m, <2>m
  <2>1. CallsAgree'
    BY <1>0, <1>t, <1>e, <1>1, <2>h
       DEF Close, CallsAgree, TypeOK, GenPhases, SesPhases, Idle, NoCall, EmptyPage, Happens,
           Value, Pages, Disks, Kinds, Maybe, Calm
  <2>2. DiskAgrees'
    BY <1>0, <1>t, <1>e, <1>1, <2>h
       DEF Close, CallsAgree, DiskAgrees, TypeOK, GenPhases, SesPhases, Idle, NoCall,
           EmptyPage, Happens, Value, Pages, Disks, Kinds, Maybe, Calm
  <2>3. PageAgrees'
    BY <1>0, <1>t, <1>e, <1>1, <2>h
       DEF Close, CallsAgree, DiskAgrees, PageAgrees, TypeOK, GenPhases, SesPhases, Idle,
           NoCall, EmptyPage, Happens, Value, Pages, Disks, Kinds, Maybe, Calm
  <2>. QED
    BY <2>1, <2>2, <2>3
<1>2. ASSUME MeAnswers PROVE (CallsAgree /\ DiskAgrees /\ PageAgrees)'
  <2>m. mishap \subseteq mishap'
    BY <1>2 DEF MeAnswers, Happens
  <2>h. CallsAgree /\ DiskAgrees /\ PageAgrees /\ Calm
    BY <1>m, <2>m
  <2>1. CallsAgree'
    BY <1>0, <1>t, <1>e, <1>2, <2>h
       DEF MeAnswers, CallsAgree, TypeOK, GenPhases, SesPhases, NoCall, Throws,
           InitializeWallet, Value, Pages, Disks, Kinds, Maybe, Calm
  <2>2. DiskAgrees'
    BY <1>0, <1>t, <1>e, <1>2, <2>h
       DEF MeAnswers, CallsAgree, DiskAgrees, TypeOK, GenPhases, SesPhases, NoCall, Throws,
           InitializeWallet, Value, Pages, Disks, Kinds, Maybe, Calm
  <2>3. PageAgrees'
    BY <1>0, <1>t, <1>e, <1>2, <2>h
       DEF MeAnswers, CallsAgree, DiskAgrees, PageAgrees, TypeOK, GenPhases, SesPhases, NoCall,
           Throws, InitializeWallet, Wallets, Value, Pages, Disks, Kinds, Maybe, Calm
  <2>. QED
    BY <2>1, <2>2, <2>3
<1>3. ASSUME LoginAnswers PROVE (CallsAgree /\ DiskAgrees /\ PageAgrees)'
  <2>m. mishap \subseteq mishap'
    BY <1>3 DEF LoginAnswers, Happens
  <2>h. CallsAgree /\ DiskAgrees /\ PageAgrees /\ Calm
    BY <1>m, <2>m
  <2>1. CallsAgree'
    BY <1>0, <1>t, <1>e, <1>3, <2>h
       DEF LoginAnswers, CallsAgree, TypeOK, GenPhases, SesPhases, Value, Pages, Disks, Kinds,
           Maybe, Calm
  <2>2. DiskAgrees'
    BY <1>0, <1>t, <1>e, <1>3, <2>h
       DEF LoginAnswers, CallsAgree, DiskAgrees, TypeOK, GenPhases, SesPhases, Value, Pages,
           Disks, Kinds, Maybe, Calm
  <2>3. PageAgrees'
    BY <1>0, <1>t, <1>e, <1>3, <2>h
       DEF LoginAnswers, CallsAgree, DiskAgrees, PageAgrees, TypeOK, GenPhases, SesPhases,
           Wallets, Value, Pages, Disks, Kinds, Maybe, Calm
  <2>. QED
    BY <2>1, <2>2, <2>3
<1>4. ASSUME LoginFails PROVE (CallsAgree /\ DiskAgrees /\ PageAgrees)'
  <2>m. mishap \subseteq mishap'
    BY <1>4 DEF LoginFails, Happens
  <2>h. CallsAgree /\ DiskAgrees /\ PageAgrees /\ Calm
    BY <1>m, <2>m
  <2>1. CallsAgree'
    BY <1>0, <1>t, <1>e, <1>4, <2>h
       DEF LoginFails, CallsAgree, TypeOK, GenPhases, SesPhases, NoCall, Value, Pages, Disks,
           Kinds, Maybe, Calm
  <2>2. DiskAgrees'
    BY <1>0, <1>t, <1>e, <1>4, <2>h
       DEF LoginFails, CallsAgree, DiskAgrees, TypeOK, GenPhases, SesPhases, NoCall, Value,
           Pages, Disks, Kinds, Maybe, Calm
  <2>3. PageAgrees'
    BY <1>0, <1>t, <1>e, <1>4, <2>h
       DEF LoginFails, CallsAgree, DiskAgrees, PageAgrees, TypeOK, GenPhases, SesPhases,
           NoCall, Value, Pages, Disks, Kinds, Maybe, Calm
  <2>. QED
    BY <2>1, <2>2, <2>3
<1>4f. ASSUME StoreTokensFails PROVE (CallsAgree /\ DiskAgrees /\ PageAgrees)'
  <2>m. mishap \subseteq mishap'
    BY <1>4f DEF StoreTokensFails, Happens
  <2>h. CallsAgree /\ DiskAgrees /\ PageAgrees /\ Calm
    BY <1>m, <2>m
  <2>1. CallsAgree'
    BY <1>0, <1>t, <1>e, <1>4f, <2>h
       DEF StoreTokensFails, Happens, CallsAgree, TypeOK, GenPhases, SesPhases, NoCall, Value,
           Pages, Disks, Kinds, Maybe, Calm
  <2>2. DiskAgrees'
    BY <1>0, <1>t, <1>e, <1>4f, <2>h
       DEF StoreTokensFails, Happens, CallsAgree, DiskAgrees, TypeOK, GenPhases, SesPhases,
           NoCall, Value, Pages, Disks, Kinds, Maybe, Calm
  <2>3. PageAgrees'
    BY <1>0, <1>t, <1>e, <1>4f, <2>h
       DEF StoreTokensFails, Happens, CallsAgree, DiskAgrees, PageAgrees, TypeOK, GenPhases,
           SesPhases, NoCall, Value, Pages, Disks, Kinds, Maybe, Calm
  <2>. QED
    BY <2>1, <2>2, <2>3
<1>5. ASSUME StoreTokens PROVE (CallsAgree /\ DiskAgrees /\ PageAgrees)'
  <2>m. mishap \subseteq mishap'
    BY <1>5 DEF StoreTokens, Happens
  <2>h. CallsAgree /\ DiskAgrees /\ PageAgrees /\ Calm
    BY <1>m, <2>m
  <2>1. CallsAgree'
    BY <1>0, <1>t, <1>e, <1>5, <2>h
       DEF StoreTokens, CallsAgree, TypeOK, GenPhases, SesPhases, Value, Pages, Disks, Kinds,
           Maybe, Calm
  <2>2. DiskAgrees'
    BY <1>0, <1>t, <1>e, <1>5, <2>h
       DEF StoreTokens, CallsAgree, DiskAgrees, TypeOK, GenPhases, SesPhases, Value, Pages,
           Disks, Kinds, Maybe, Calm
  <2>3. PageAgrees'
    BY <1>0, <1>t, <1>e, <1>5, <2>h
       DEF StoreTokens, CallsAgree, DiskAgrees, PageAgrees, TypeOK, GenPhases, SesPhases,
           Value, Pages, Disks, Kinds, Maybe, Calm
  <2>. QED
    BY <2>1, <2>2, <2>3
<1>6. ASSUME KeyManagerInitialized PROVE (CallsAgree /\ DiskAgrees /\ PageAgrees)'
  <2>m. mishap \subseteq mishap'
    BY <1>6 DEF KeyManagerInitialized, Happens
  <2>h. CallsAgree /\ DiskAgrees /\ PageAgrees /\ Calm
    BY <1>m, <2>m
  <2>1. CallsAgree'
    BY <1>0, <1>t, <1>e, <1>6, <2>h
       DEF KeyManagerInitialized, CallsAgree, TypeOK, GenPhases, SesPhases, NoCall, Throws,
           InitializeWallet, Value, Pages, Disks, Kinds, Maybe, Calm
  <2>2. DiskAgrees'
    BY <1>0, <1>t, <1>e, <1>6, <2>h
       DEF KeyManagerInitialized, CallsAgree, DiskAgrees, TypeOK, GenPhases, SesPhases, NoCall,
           Throws, InitializeWallet, Value, Pages, Disks, Kinds, Maybe, Calm
  <2>3. PageAgrees'
    BY <1>0, <1>t, <1>e, <1>6, <2>h
       DEF KeyManagerInitialized, CallsAgree, DiskAgrees, PageAgrees, TypeOK, GenPhases,
           SesPhases, NoCall, Throws, InitializeWallet, Value, Pages, Disks, Kinds, Maybe, Calm
  <2>. QED
    BY <2>1, <2>2, <2>3
<1>7. ASSUME Logout PROVE (CallsAgree /\ DiskAgrees /\ PageAgrees)'
  <2>m. mishap \subseteq mishap'
    BY <1>7 DEF Logout, Happens
  <2>h. CallsAgree /\ DiskAgrees /\ PageAgrees /\ Calm
    BY <1>m, <2>m
  <2>1. CallsAgree'
    BY <1>0, <1>t, <1>e, <1>7, <2>h
       DEF Logout, CallsAgree, TypeOK, GenPhases, SesPhases, Happens, Value, Pages, Disks,
           Kinds, Maybe, Calm
  <2>2. DiskAgrees'
    BY <1>0, <1>t, <1>e, <1>7, <2>h
       DEF Logout, CallsAgree, DiskAgrees, TypeOK, GenPhases, SesPhases, Happens, Value, Pages,
           Disks, Kinds, Maybe, Calm
  <2>3. PageAgrees'
    BY <1>0, <1>t, <1>e, <1>7, <2>h
       DEF Logout, CallsAgree, DiskAgrees, PageAgrees, TypeOK, GenPhases, SesPhases, Happens,
           Value, Pages, Disks, Kinds, Maybe, Calm
  <2>. QED
    BY <2>1, <2>2, <2>3
<1>8. ASSUME LoadShare PROVE (CallsAgree /\ DiskAgrees /\ PageAgrees)'
  <2>m. mishap \subseteq mishap'
    BY <1>8 DEF LoadShare, Happens
  <2>h. CallsAgree /\ DiskAgrees /\ PageAgrees /\ Calm
    BY <1>m, <2>m
  <2>u. UNCHANGED gen /\ ses.step = "share"
    BY <1>8 DEF LoadShare
  <2>a. CASE Throws
    <3>1. /\ page' = page /\ ses' = NoCall /\ disk'.dkls = disk.dkls
          /\ disk'.entry = disk.entry /\ disk'.token \in {None, disk.token}
      BY <2>a, CallThrows
    <3>2. CallsAgree' /\ PageAgrees'
      BY <1>0, <2>h, <2>u, <3>1 DEF CallsAgree, PageAgrees, NoCall, Kinds
    <3>. QED
      BY <1>d, <2>h, <2>u, <3>1, <3>2
  <2>b. CASE ~Throws
    <3>1. /\ page'.kmShare = IF page.kmShare # None THEN page.kmShare ELSE Value(Entry("share"))
          /\ page' = [page EXCEPT !.kmShare = page'.kmShare] /\ disk' = disk
          /\ \/ page'.kmShare = None /\ ses' = NoCall
             \/ /\ page'.kmShare # None
                /\ ses' = [ses EXCEPT !.step = "party", !.share = page'.kmShare]
      BY <1>8, <2>b, ShareLoaded
    <3>2. page'.kmShare \in {None, ses.user}
      <4>1. Value(Entry("share")) \in {None, page.kmUser}
        BY <1>v, <2>h DEF Kinds
      <4>. QED
        BY <2>h, <2>u, <3>1, <4>1 DEF CallsAgree, PageAgrees
    <3> DEFINE s == page'.kmShare
    <3>3. page' = [page EXCEPT !.kmShare = s] /\ s \in {None, ses.user}
          /\ (ses' = NoCall \/ (s # None /\ ses' = [ses EXCEPT !.step = "party", !.share = s]))
      BY <3>1, <3>2
    <3> HIDE DEF s
    <3>p. /\ page'.user = page.user /\ page'.kmUser = page.kmUser
          /\ page'.kmParty = page.kmParty /\ page'.address = page.address
          /\ page'.wallet = page.wallet /\ page'.partyShares = page.partyShares
          /\ page'.publicKey = page.publicKey /\ page'.kmShare = s
      BY <1>t, <3>3 DEF Pages
    <3>s. \/ ses'.step = "idle"
          \/ ses'.step = "party" /\ ses'.user = ses.user /\ ses'.share = ses.user
      <4>1. CASE ses' = NoCall
        BY <4>1 DEF NoCall
      <4>2. CASE s = ses.user /\ ses' = [ses EXCEPT !.step = "party", !.share = s]
        BY ONLY <1>t, <4>2 DEF TypeOK, Kinds
      <4>. QED
        BY <3>3, <4>1, <4>2
    <3>4. CallsAgree'
      BY <2>h, <2>u, <3>p, <3>s DEF CallsAgree, Kinds
    <3>5. DiskAgrees'
      BY <2>h, <2>u, <3>1, <3>p, <3>s DEF DiskAgrees
    <3>6. PageAgrees'
      BY <2>h, <2>u, <3>1, <3>p, <3>s DEF PageAgrees, Kinds
    <3>. QED
      BY <3>4, <3>5, <3>6
  <2>. QED
    BY <2>a, <2>b
<1>9. ASSUME LoadPartyShares PROVE (CallsAgree /\ DiskAgrees /\ PageAgrees)'
  <2>m. mishap \subseteq mishap'
    BY <1>9 DEF LoadPartyShares, Happens
  <2>h. CallsAgree /\ DiskAgrees /\ PageAgrees /\ Calm
    BY <1>m, <2>m
  <2>1. CallsAgree'
    BY <1>0, <1>t, <1>e, <1>9, <2>h
       DEF LoadPartyShares, CallsAgree, TypeOK, GenPhases, SesPhases, NoCall, Throws, Proceed,
           Value, Pages, Disks, Kinds, Maybe, Calm
  <2>2. DiskAgrees'
    BY <1>0, <1>t, <1>e, <1>9, <2>h
       DEF LoadPartyShares, CallsAgree, DiskAgrees, TypeOK, GenPhases, SesPhases, NoCall,
           Throws, Proceed, Value, Pages, Disks, Kinds, Maybe, Calm
  <2>3. PageAgrees'
    BY <1>0, <1>t, <1>e, <1>9, <2>h
       DEF LoadPartyShares, CallsAgree, DiskAgrees, PageAgrees, TypeOK, GenPhases, SesPhases,
           Entry, NoCall, Throws, Proceed, Value, Pages, Disks, Kinds, Maybe, Calm
  <2>. QED
    BY <2>1, <2>2, <2>3
<1>10. ASSUME LoadPublicKey PROVE (CallsAgree /\ DiskAgrees /\ PageAgrees)'
  <2>m. mishap \subseteq mishap'
    BY <1>10 DEF LoadPublicKey, Happens
  <2>h. CallsAgree /\ DiskAgrees /\ PageAgrees /\ Calm
    BY <1>m, <2>m
  <2>u. UNCHANGED gen /\ ses.step = "public"
    BY <1>10 DEF LoadPublicKey
  <2>a. CASE Throws
    <3>1. /\ page' = page /\ ses' = NoCall /\ disk'.dkls = disk.dkls
          /\ disk'.entry = disk.entry /\ disk'.token \in {None, disk.token}
      BY <2>a, CallThrows
    <3>2. CallsAgree' /\ PageAgrees'
      BY <1>0, <2>h, <2>u, <3>1 DEF CallsAgree, PageAgrees, NoCall, Kinds
    <3>. QED
      BY <1>d, <2>h, <2>u, <3>1, <3>2
  <2>b. CASE ses' = NoCall /\ UNCHANGED <<page, disk>>
    <3>2. CallsAgree' /\ PageAgrees'
      BY <1>0, <2>h, <2>u, <2>b DEF CallsAgree, PageAgrees, NoCall, Kinds
    <3>. QED
      BY <1>d, <2>h, <2>u, <2>b, <3>2
  <2>c. CASE ~Throws /\ ~(ses' = NoCall /\ UNCHANGED <<page, disk>>)
    <3>1. /\ page'.publicKey = Value(Entry("public")) /\ Entry("public") # None
          /\ page' = [page EXCEPT !.publicKey = page'.publicKey, !.partyShares = page.kmParty]
          /\ disk' = disk /\ ses' = [ses EXCEPT !.step = "backend"]
      BY <1>10, <2>c, PublicKeyLoaded
    <3>2. page'.publicKey = ses.user
      <4>1. Value(Entry("public")) \in {None, page.kmUser}
        BY <1>v, <2>h DEF Kinds
      <4>2. page.kmUser \in {None, ses.user}
        BY <2>h, <2>u DEF CallsAgree
      <4>3. Value(Entry("public")) # None
        BY <1>0, <1>t, <3>1 DEF Value, Entry, Entries, Disks, Pages, Maybe, Kinds
      <4>. QED
        BY <3>1, <4>1, <4>2, <4>3
    <3> DEFINE s == page'.publicKey
    <3>3. page' = [page EXCEPT !.publicKey = s, !.partyShares = page.kmParty] /\ s = ses.user
      BY <3>1, <3>2
    <3> HIDE DEF s
    <3>4. CallsAgree'
      BY <1>t, <2>h, <2>u, <3>1, <3>3 DEF CallsAgree, Pages, TypeOK, Kinds
    <3>5. DiskAgrees'
      BY <1>t, <2>h, <2>u, <3>1, <3>3 DEF DiskAgrees, Pages, TypeOK, Kinds
    <3>6. PageAgrees'
      BY <1>t, <2>h, <2>u, <3>1, <3>3 DEF PageAgrees, CallsAgree, Pages, TypeOK, Kinds
    <3>. QED
      BY <3>4, <3>5, <3>6
  <2>. QED
    BY <2>a, <2>b, <2>c
<1>11. ASSUME LoadBackendShare PROVE (CallsAgree /\ DiskAgrees /\ PageAgrees)'
  <2>m. mishap \subseteq mishap'
    BY <1>11 DEF LoadBackendShare, Happens
  <2>h. CallsAgree /\ DiskAgrees /\ PageAgrees /\ Calm
    BY <1>m, <2>m
  <2>1. CallsAgree'
    BY <1>0, <1>t, <1>e, <1>11, <2>h
       DEF LoadBackendShare, CallsAgree, TypeOK, GenPhases, SesPhases, NoCall, Throws, Value,
           Pages, Disks, Kinds, Maybe, Calm
  <2>2. DiskAgrees'
    BY <1>0, <1>t, <1>e, <1>11, <2>h
       DEF LoadBackendShare, CallsAgree, DiskAgrees, TypeOK, GenPhases, SesPhases, NoCall,
           Throws, Value, Pages, Disks, Kinds, Maybe, Calm
  <2>3. PageAgrees'
    BY <1>0, <1>t, <1>e, <1>11, <2>h
       DEF LoadBackendShare, CallsAgree, DiskAgrees, PageAgrees, TypeOK, GenPhases, SesPhases,
           WalletOf, Entry, NoCall, Throws, Value, Pages, Disks, Kinds, Maybe, Calm
  <2>. QED
    BY <2>1, <2>2, <2>3
<1>12. ASSUME LoadDklsShare PROVE (CallsAgree /\ DiskAgrees /\ PageAgrees)'
  <2>m. mishap \subseteq mishap'
    BY <1>12 DEF LoadDklsShare, Happens
  <2>h. CallsAgree /\ DiskAgrees /\ PageAgrees /\ Calm
    BY <1>m, <2>m
  <2>1. CallsAgree'
    BY <1>0, <1>t, <1>e, <1>12, <2>h
       DEF LoadDklsShare, CallsAgree, TypeOK, GenPhases, SesPhases, NoCall, Value, Pages,
           Disks, Kinds, Maybe, Calm
  <2>2. DiskAgrees'
    BY <1>0, <1>t, <1>e, <1>12, <2>h
       DEF LoadDklsShare, CallsAgree, DiskAgrees, TypeOK, GenPhases, SesPhases, NoCall, Value,
           Pages, Disks, Kinds, Maybe, Calm
  <2>3. PageAgrees'
    BY <1>0, <1>t, <1>e, <1>12, <2>h
       DEF LoadDklsShare, CallsAgree, DiskAgrees, PageAgrees, TypeOK, GenPhases, SesPhases,
           NoCall, Value, Pages, Disks, Kinds, Maybe, Calm
  <2>. QED
    BY <2>1, <2>2, <2>3
<1>13. ASSUME Generate PROVE (CallsAgree /\ DiskAgrees /\ PageAgrees)'
  <2>m. mishap \subseteq mishap'
    BY <1>13 DEF Generate, Happens
  <2>h. CallsAgree /\ DiskAgrees /\ PageAgrees /\ Calm
    BY <1>m, <2>m
  <2>1. CallsAgree'
    BY <1>0, <1>t, <1>e, <1>13, <2>h
       DEF Generate, CallsAgree, TypeOK, GenPhases, SesPhases, Value, Pages, Disks, Kinds,
           Maybe, Calm
  <2>2. DiskAgrees'
    BY <1>0, <1>t, <1>e, <1>13, <2>h
       DEF Generate, CallsAgree, DiskAgrees, TypeOK, GenPhases, SesPhases, Value, Pages, Disks,
           Kinds, Maybe, Calm
  <2>3. PageAgrees'
    BY <1>0, <1>t, <1>e, <1>13, <2>h
       DEF Generate, CallsAgree, DiskAgrees, PageAgrees, TypeOK, GenPhases, SesPhases, Value,
           Pages, Disks, Kinds, Maybe, Calm
  <2>. QED
    BY <2>1, <2>2, <2>3
<1>14. ASSUME BackendCompletes PROVE (CallsAgree /\ DiskAgrees /\ PageAgrees)'
  <2>m. mishap \subseteq mishap'
    BY <1>14 DEF BackendCompletes, Happens
  <2>h. CallsAgree /\ DiskAgrees /\ PageAgrees /\ Calm
    BY <1>m, <2>m
  <2>1. CallsAgree'
    BY <1>0, <1>t, <1>e, <1>14, <2>h
       DEF BackendCompletes, CallsAgree, TypeOK, GenPhases, SesPhases, Value, Pages, Disks,
           Kinds, Maybe, Calm
  <2>2. DiskAgrees'
    BY <1>0, <1>t, <1>e, <1>14, <2>h
       DEF BackendCompletes, CallsAgree, DiskAgrees, TypeOK, GenPhases, SesPhases, Value,
           Pages, Disks, Kinds, Maybe, Calm
  <2>3. PageAgrees'
    BY <1>0, <1>t, <1>e, <1>14, <2>h
       DEF BackendCompletes, CallsAgree, DiskAgrees, PageAgrees, TypeOK, GenPhases, SesPhases,
           Value, Pages, Disks, Kinds, Maybe, Calm
  <2>. QED
    BY <2>1, <2>2, <2>3
<1>15. ASSUME GenerationFails PROVE (CallsAgree /\ DiskAgrees /\ PageAgrees)'
  <2>m. mishap \subseteq mishap'
    BY <1>15 DEF GenerationFails, Happens
  <2>h. CallsAgree /\ DiskAgrees /\ PageAgrees /\ Calm
    BY <1>m, <2>m
  <2>1. CallsAgree'
    BY <1>0, <1>t, <1>e, <1>15, <2>h
       DEF GenerationFails, CallsAgree, TypeOK, GenPhases, SesPhases, Idle, Happens, Value,
           Pages, Disks, Kinds, Maybe, Calm
  <2>2. DiskAgrees'
    BY <1>0, <1>t, <1>e, <1>15, <2>h
       DEF GenerationFails, CallsAgree, DiskAgrees, TypeOK, GenPhases, SesPhases, Idle,
           Happens, Value, Pages, Disks, Kinds, Maybe, Calm
  <2>3. PageAgrees'
    BY <1>0, <1>t, <1>e, <1>15, <2>h
       DEF GenerationFails, CallsAgree, DiskAgrees, PageAgrees, TypeOK, GenPhases, SesPhases,
           Idle, Happens, Value, Pages, Disks, Kinds, Maybe, Calm
  <2>. QED
    BY <2>1, <2>2, <2>3
<1>16. ASSUME GenerationAnswered PROVE (CallsAgree /\ DiskAgrees /\ PageAgrees)'
  <2>m. mishap \subseteq mishap'
    BY <1>16 DEF GenerationAnswered, Happens
  <2>h. CallsAgree /\ DiskAgrees /\ PageAgrees /\ Calm
    BY <1>m, <2>m
  <2>u. gen.step = "answer" /\ UNCHANGED <<page, ses, disk>> /\ gen.user \in Users
    BY <1>t, <1>16 DEF GenerationAnswered, GenPhases
  <2>g. \/ gen' = Idle
        \/ gen' = [gen EXCEPT !.step = "save"]
        \/ /\ gen'.step = "share" /\ gen'.user = gen.user /\ gen'.target = page.kmUser
           /\ page.kmUser \in Users
    BY <1>16, <2>u, NextStore DEF GenerationAnswered, Kinds
  <2>1. CallsAgree'
    BY <1>0, <1>t, <2>h, <2>u, <2>g DEF CallsAgree, Idle, Kinds, TypeOK
  <2>2. DiskAgrees'
    BY <2>h, <2>u DEF DiskAgrees
  <2>3. PageAgrees'
    BY <1>t, <2>h, <2>u, <2>g DEF PageAgrees, Idle, Kinds, TypeOK
  <2>. QED
    BY <2>1, <2>2, <2>3
<1>17. ASSUME SaveDklsShare PROVE (CallsAgree /\ DiskAgrees /\ PageAgrees)'
  <2>m. mishap \subseteq mishap'
    BY <1>17 DEF SaveDklsShare, Happens
  <2>h. CallsAgree /\ DiskAgrees /\ PageAgrees /\ Calm
    BY <1>m, <2>m
  <2>1. CallsAgree'
    BY <1>0, <1>t, <1>e, <1>17, <2>h
       DEF SaveDklsShare, CallsAgree, TypeOK, GenPhases, SesPhases, Idle, Value, Pages, Disks,
           Kinds, Maybe, Calm
  <2>2. DiskAgrees'
    BY <1>0, <1>t, <1>e, <1>17, <2>h
       DEF SaveDklsShare, CallsAgree, DiskAgrees, TypeOK, GenPhases, SesPhases, Idle, Value,
           Pages, Disks, Kinds, Maybe, Calm
  <2>3. PageAgrees'
    BY <1>0, <1>t, <1>e, <1>17, <2>h
       DEF SaveDklsShare, CallsAgree, DiskAgrees, PageAgrees, TypeOK, GenPhases, SesPhases,
           Idle, Value, Pages, Disks, Kinds, Maybe, Calm
  <2>. QED
    BY <2>1, <2>2, <2>3
<1>18. ASSUME StoreShare PROVE (CallsAgree /\ DiskAgrees /\ PageAgrees)'
  <2>m. mishap \subseteq mishap'
    BY <1>18 DEF StoreShare, Happens
  <2>h. CallsAgree /\ DiskAgrees /\ PageAgrees /\ Calm
    BY <1>m, <2>m
  <2>u. gen.step = "share" /\ UNCHANGED ses /\ ses.step = "idle" /\ "share" \in Kinds
    BY <1>18, <2>h DEF StoreShare, CallsAgree, Kinds
  <2>d. /\ gen.user \in Users /\ gen.target = gen.user
        /\ disk'.dkls = disk.dkls /\ disk'.token = disk.token
        /\ \A k \in Kinds, v \in Users :
              Value(disk'.entry[k][v])
                = IF k = "share" /\ v = gen.target THEN gen.user ELSE Value(disk.entry[k][v])
    BY <1>18, <2>h, <2>u, GenerationStored DEF StoreShare, CallsAgree
  <2>g. \/ gen' = Idle
        \/ /\ gen'.step = "party" /\ gen'.user = gen.user /\ gen'.target = page.kmUser
           /\ page.kmUser \in Users
    BY <1>18, <2>u, NextStore DEF StoreShare, Kinds
  <2>1. CallsAgree'
    BY <1>0, <1>t, <1>18, <2>h, <2>u, <2>d, <2>g DEF StoreShare, CallsAgree, Pages, Idle, Kinds
  <2>2. DiskAgrees'
    BY <1>t, <1>18, <2>h, <2>u, <2>d DEF StoreShare, DiskAgrees, Pages, Kinds
  <2>3. PageAgrees'
    BY <1>0, <1>t, <1>18, <2>h, <2>u, <2>d, <2>g
       DEF StoreShare, PageAgrees, CallsAgree, Pages, Idle, Kinds
  <2>. QED
    BY <2>1, <2>2, <2>3
<1>19. ASSUME StorePartyShares PROVE (CallsAgree /\ DiskAgrees /\ PageAgrees)'
  <2>m. mishap \subseteq mishap'
    BY <1>19 DEF StorePartyShares, Happens
  <2>h. CallsAgree /\ DiskAgrees /\ PageAgrees /\ Calm
    BY <1>m, <2>m
  <2>u. gen.step = "party" /\ UNCHANGED ses /\ ses.step = "idle" /\ "party" \in Kinds
    BY <1>19, <2>h DEF StorePartyShares, CallsAgree, Kinds
  <2>d. /\ gen.user \in Users /\ gen.target = gen.user
        /\ disk'.dkls = disk.dkls /\ disk'.token = disk.token
        /\ \A k \in Kinds, v \in Users :
              Value(disk'.entry[k][v])
                = IF k = "party" /\ v = gen.target THEN gen.user ELSE Value(disk.entry[k][v])
    BY <1>19, <2>h, <2>u, GenerationStored DEF StorePartyShares, CallsAgree
  <2>g. \/ gen' = Idle
        \/ /\ gen'.step = "public" /\ gen'.user = gen.user /\ gen'.target = page.kmUser
           /\ page.kmUser \in Users
    BY <1>19, <2>u, NextStore DEF StorePartyShares, Kinds
  <2>1. CallsAgree'
    BY <1>0, <1>t, <1>19, <2>h, <2>u, <2>d, <2>g
       DEF StorePartyShares, CallsAgree, Pages, Idle, Kinds
  <2>2. DiskAgrees'
    BY <1>t, <1>19, <2>h, <2>u, <2>d DEF StorePartyShares, DiskAgrees, Pages, Kinds
  <2>3. PageAgrees'
    BY <1>0, <1>t, <1>19, <2>h, <2>u, <2>d, <2>g
       DEF StorePartyShares, PageAgrees, CallsAgree, Pages, Idle, Kinds
  <2>. QED
    BY <2>1, <2>2, <2>3
<1>20. ASSUME StorePublicKey PROVE (CallsAgree /\ DiskAgrees /\ PageAgrees)'
  <2>m. mishap \subseteq mishap'
    BY <1>20 DEF StorePublicKey, Happens
  <2>h. CallsAgree /\ DiskAgrees /\ PageAgrees /\ Calm
    BY <1>m, <2>m
  <2>u. gen.step = "public" /\ UNCHANGED ses /\ ses.step = "idle" /\ "public" \in Kinds
    BY <1>20, <2>h DEF StorePublicKey, CallsAgree, Kinds
  <2>d. /\ gen.user \in Users /\ gen.target = gen.user
        /\ disk'.dkls = disk.dkls /\ disk'.token = disk.token
        /\ \A k \in Kinds, v \in Users :
              Value(disk'.entry[k][v])
                = IF k = "public" /\ v = gen.target THEN gen.user ELSE Value(disk.entry[k][v])
    BY <1>20, <2>h, <2>u, GenerationStored DEF StorePublicKey, CallsAgree
  <2>g. \/ gen' = Idle
        \/ /\ gen'.step = "backend" /\ gen'.user = gen.user /\ gen'.target = page.kmUser
           /\ page.kmUser \in Users
    BY <1>20, <2>u, NextStore DEF StorePublicKey, Kinds
  <2>1. CallsAgree'
    BY <1>0, <1>t, <1>20, <2>h, <2>u, <2>d, <2>g
       DEF StorePublicKey, CallsAgree, Pages, Idle, Kinds
  <2>2. DiskAgrees'
    BY <1>t, <1>20, <2>h, <2>u, <2>d DEF StorePublicKey, DiskAgrees, Pages, Kinds
  <2>3. PageAgrees'
    BY <1>0, <1>t, <1>20, <2>h, <2>u, <2>d, <2>g
       DEF StorePublicKey, PageAgrees, CallsAgree, Pages, Idle, Kinds
  <2>. QED
    BY <2>1, <2>2, <2>3
<1>21. ASSUME StoreBackendShare PROVE (CallsAgree /\ DiskAgrees /\ PageAgrees)'
  <2>m. mishap \subseteq mishap'
    BY <1>21 DEF StoreBackendShare, Happens
  <2>h. CallsAgree /\ DiskAgrees /\ PageAgrees /\ Calm
    BY <1>m, <2>m
  <2>u. gen.step = "backend" /\ UNCHANGED ses /\ ses.step = "idle" /\ "backend" \in Kinds
    BY <1>21, <2>h DEF StoreBackendShare, CallsAgree, Kinds
  <2>d. /\ gen.user \in Users /\ gen.target = gen.user
        /\ disk'.dkls = disk.dkls /\ disk'.token = disk.token
        /\ \A k \in Kinds, v \in Users :
              Value(disk'.entry[k][v])
                = IF k = "backend" /\ v = gen.target THEN gen.user ELSE Value(disk.entry[k][v])
    BY <1>21, <2>h, <2>u, GenerationStored DEF StoreBackendShare, CallsAgree
  <2>g. gen' = Idle
    BY <1>21 DEF StoreBackendShare
  <2>1. CallsAgree'
    BY <1>0, <1>t, <1>21, <2>h, <2>u, <2>d, <2>g
       DEF StoreBackendShare, CallsAgree, Pages, Idle, Kinds
  <2>2. DiskAgrees'
    BY <1>t, <1>21, <2>h, <2>u, <2>d DEF StoreBackendShare, DiskAgrees, Pages, Kinds
  <2>3. PageAgrees'
    BY <1>0, <1>t, <1>21, <2>h, <2>u, <2>d, <2>g
       DEF StoreBackendShare, PageAgrees, CallsAgree, Pages, Idle, Kinds, WalletOf
  <2>. QED
    BY <2>1, <2>2, <2>3
<1>22. ASSUME StoreFails PROVE (CallsAgree /\ DiskAgrees /\ PageAgrees)'
  <2>m. mishap \subseteq mishap'
    BY <1>22 DEF StoreFails, Happens
  <2>h. CallsAgree /\ DiskAgrees /\ PageAgrees /\ Calm
    BY <1>m, <2>m
  <2>1. CallsAgree'
    BY <1>0, <1>t, <1>e, <1>22, <2>h
       DEF StoreFails, CallsAgree, TypeOK, GenPhases, SesPhases, Idle, Happens, Value, Pages,
           Disks, Kinds, Maybe, Calm
  <2>2. DiskAgrees'
    BY <1>0, <1>t, <1>e, <1>22, <2>h
       DEF StoreFails, CallsAgree, DiskAgrees, TypeOK, GenPhases, SesPhases, Idle, Happens,
           Value, Pages, Disks, Kinds, Maybe, Calm
  <2>3. PageAgrees'
    BY <1>0, <1>t, <1>e, <1>22, <2>h
       DEF StoreFails, CallsAgree, DiskAgrees, PageAgrees, TypeOK, GenPhases, SesPhases, Idle,
           Happens, Value, Pages, Disks, Kinds, Maybe, Calm
  <2>. QED
    BY <2>1, <2>2, <2>3
<1>23. ASSUME ExportBackup PROVE (CallsAgree /\ DiskAgrees /\ PageAgrees)'
  <2>m. mishap \subseteq mishap'
    BY <1>23 DEF ExportBackup, Happens
  <2>h. CallsAgree /\ DiskAgrees /\ PageAgrees /\ Calm
    BY <1>m, <2>m
  <2>1. page.kmShare = None => page.kmUser # None
    BY <1>23 DEF ExportBackup, Entry, Value
  <2>2. /\ page'.user = page.user /\ page'.kmUser = page.kmUser
        /\ page'.kmParty = page.kmParty /\ page'.address = page.address
        /\ page'.wallet = page.wallet /\ page'.partyShares = page.partyShares
        /\ page'.publicKey = page.publicKey /\ UNCHANGED <<gen, ses, disk>>
        /\ page'.kmShare = IF page.kmShare # None THEN page.kmShare ELSE Value(Entry("share"))
    <3> DEFINE share == IF page.kmShare # None THEN page.kmShare ELSE Value(Entry("share"))
    <3>1. page' = [page EXCEPT !.kmShare = share] /\ UNCHANGED <<gen, ses, disk>>
      BY <1>23 DEF ExportBackup
    <3> HIDE DEF share
    <3>2. /\ page'.user = page.user /\ page'.kmUser = page.kmUser
          /\ page'.kmParty = page.kmParty /\ page'.address = page.address
          /\ page'.wallet = page.wallet /\ page'.partyShares = page.partyShares
          /\ page'.publicKey = page.publicKey /\ page'.kmShare = share
      BY <1>t, <3>1 DEF Pages
    <3>. QED
      BY <3>1, <3>2 DEF share
  <2>3. CallsAgree'
    BY <2>1, <2>2, <2>h DEF CallsAgree
  <2>4. DiskAgrees'
    BY <2>2, <2>h DEF DiskAgrees
  <2>5. Value(Entry("share")) \in {None, page.kmUser}
    BY <1>v, <2>h DEF Kinds
  <2>6. PageAgrees'
    BY <2>2, <2>5, <2>h DEF PageAgrees, CallsAgree
  <2>. QED
    BY <2>3, <2>4, <2>6
<1>24. ASSUME StartImport PROVE (CallsAgree /\ DiskAgrees /\ PageAgrees)'
  <2>m. mishap \subseteq mishap'
    BY <1>24 DEF StartImport, Happens
  <2>h. CallsAgree /\ DiskAgrees /\ PageAgrees /\ Calm
    BY <1>m, <2>m
  <2>1. /\ gen.step = "idle" /\ ses.step = "idle" /\ UNCHANGED <<page, gen, disk>>
        /\ backup = page.user /\ page.kmUser = page.user /\ page.user \in Users
    BY <1>t, <1>24 DEF StartImport, Calm, Pages, Maybe
  <2>2. ses'.step = "store" /\ ses'.user = page.user /\ ses'.target = page.user
    BY <1>24, <2>1 DEF StartImport, NoCall
  <2>3. CallsAgree'
    BY <2>1, <2>2, <2>h DEF CallsAgree, Kinds
  <2>4. DiskAgrees'
    BY <1>0, <2>1, <2>2, <2>h DEF DiskAgrees
  <2>5. PageAgrees'
    BY <1>0, <2>1, <2>2, <2>h DEF PageAgrees, Kinds
  <2>. QED
    BY <2>3, <2>4, <2>5
<1>25. ASSUME ImportStored PROVE (CallsAgree /\ DiskAgrees /\ PageAgrees)'
  <2>m. mishap \subseteq mishap'
    BY <1>25 DEF ImportStored, Happens
  <2>h. CallsAgree /\ DiskAgrees /\ PageAgrees /\ Calm
    BY <1>m, <2>m
  <2>u. ses.step = "store" /\ UNCHANGED gen /\ gen.step = "idle" /\ "share" \in Kinds
    BY <1>25, <2>h DEF ImportStored, CallsAgree, Kinds
  <2>d. /\ ses.user \in Users /\ ses.target = ses.user
        /\ disk'.dkls = disk.dkls /\ disk'.token = disk.token
        /\ \A k \in Kinds, v \in Users :
              Value(disk'.entry[k][v])
                = IF k = "share" /\ v = ses.target THEN ses.user ELSE Value(disk.entry[k][v])
    BY <1>25, <2>h, <2>u, ImportWritten DEF CallsAgree
  <2>1. CallsAgree'
    BY <1>t, <1>25, <2>h, <2>u, <2>d
       DEF ImportStored, InitializeWallet, CallsAgree, Pages, TypeOK, Kinds
  <2>2. DiskAgrees'
    BY <1>t, <1>25, <2>h, <2>u, <2>d
       DEF ImportStored, InitializeWallet, DiskAgrees, CallsAgree, Pages, TypeOK, Kinds
  <2>3. PageAgrees'
    BY <1>0, <1>t, <1>25, <2>h, <2>u, <2>d
       DEF ImportStored, InitializeWallet, PageAgrees, CallsAgree, Pages, TypeOK, Kinds
  <2>. QED
    BY <2>1, <2>2, <2>3
<1>26. ASSUME NEW u \in Users, NEW call \in {"login", "oauth", "reconnect"}, StartLogin(u, call)
       PROVE  (CallsAgree /\ DiskAgrees /\ PageAgrees)'
  <2>h. CallsAgree /\ DiskAgrees /\ PageAgrees /\ Calm
    BY <1>m, <1>26 DEF StartLogin
  <2>1. /\ gen.step = "idle" /\ ses.step = "idle" /\ UNCHANGED <<page, gen, disk>>
        /\ page.kmParty \in {None, u} /\ page.address \in {None, u} /\ disk.dkls \in {None, u}
    BY <1>26 DEF StartLogin, Calm
  <2>2. ses'.step = "login" /\ ses'.user = u
    BY <1>26 DEF StartLogin, NoCall
  <2>3. CallsAgree'
    BY <2>1, <2>2, <2>h DEF CallsAgree, Kinds
  <2>4. DiskAgrees'
    BY <2>1, <2>2, <2>h DEF DiskAgrees
  <2>5. PageAgrees'
    BY <2>1, <2>2, <2>h DEF PageAgrees, Kinds
  <2>. QED
    BY <2>3, <2>4, <2>5
<1>27. ASSUME NEW works \in BOOLEAN, Initialize(works)
       PROVE  (CallsAgree /\ DiskAgrees /\ PageAgrees)'
  <2>h. CallsAgree /\ DiskAgrees /\ PageAgrees /\ Calm
    BY <1>m, <1>27 DEF Initialize, Happens
  <2>1. page = EmptyPage /\ gen.step = "idle" /\ UNCHANGED gen
    BY <1>e, <1>t, <1>27 DEF Initialize, GenPhases
  <2>2. /\ page'.user = None /\ page'.kmUser = None /\ page'.kmShare = None
        /\ page'.kmParty = None /\ page'.address = None /\ page'.wallet = None
    BY <1>27, <2>1 DEF Initialize, EmptyPage
  <2>3. disk'.dkls = disk.dkls /\ disk'.entry = disk.entry /\ disk'.token = disk.token
    BY <1>t, <1>27 DEF Initialize, DeviceKeyOnDisk, FreshKey, Disks
  <2>4. \/ ses'.step = "idle"
        \/ /\ disk.token # None /\ ses'.step = "me" /\ ses'.user = disk.token.of
           /\ disk.dkls \in {None, disk.token.of}
    BY <1>27, <2>3, Calm' DEF Initialize, NoCall, Calm
  <2>5. disk.token # None => Value(disk.token) = disk.token.of /\ disk.token.of \in Users
    BY <1>t DEF Value, Disks, Entries, Maybe
  <2>6. CallsAgree'
    BY <2>1, <2>2, <2>4 DEF CallsAgree, Kinds
  <2>7. DiskAgrees'
    BY <1>0, <2>2, <2>3, <2>4, <2>5, <2>h DEF DiskAgrees
  <2>8. PageAgrees'
    BY <2>1, <2>2, <2>4 DEF PageAgrees, Kinds
  <2>. QED
    BY <2>6, <2>7, <2>8
<1>28. ASSUME UNCHANGED vars PROVE (CallsAgree /\ DiskAgrees /\ PageAgrees)'
  <2>h. CallsAgree /\ DiskAgrees /\ PageAgrees
    BY <1>m, <1>28 DEF vars
  <2>1. CallsAgree'
    BY <1>28, <2>h DEF vars, CallsAgree
  <2>2. DiskAgrees'
    BY <1>28, <2>h DEF vars, DiskAgrees
  <2>3. PageAgrees'
    BY <1>28, <2>h DEF vars, PageAgrees
  <2>. QED
    BY <2>1, <2>2, <2>3
<1>. QED
  BY <1>1, <1>2, <1>3, <1>4, <1>4f, <1>5, <1>6, <1>7, <1>8, <1>9, <1>10, <1>11, <1>12, <1>13,
     <1>14,
     <1>15, <1>16, <1>17, <1>18, <1>19, <1>20, <1>21, <1>22, <1>23, <1>24, <1>25, <1>26, <1>27,
     <1>28
     DEF Next

\* Nobody is logged in, and each entry is its user's.
LEMMA OwnInitial == Init => OwnInv
<1> SUFFICES ASSUME Init PROVE CallsAgree /\ DiskAgrees /\ PageAgrees
  BY DEF OwnInv
<1>1. page = EmptyPage /\ gen = Idle /\ ses = NoCall
  BY DEF Init
<1>2. disk.token = None
  <2>1. ASSUME NEW old PROVE Untouched(old).token = None
    BY DEF Untouched
  <2>2. ASSUME NEW U PROVE Used(U).token = None
    BY DEF Used, Untouched
  <2>3. ASSUME NEW w PROVE [Used({}) EXCEPT !.dkls = w].token = None
    BY DEF Used, Untouched
  <2>. QED
    BY <2>1, <2>2, <2>3 DEF Init
<1>3. ASSUME NEW k \in Kinds, NEW u \in Users PROVE Value(disk.entry[k][u]) \in {None, u}
  <2>1. ASSUME NEW old PROVE Untouched(old).entry[k][u] = None
    BY DEF Untouched
  <2>2. ASSUME NEW U PROVE Used(U).entry[k][u] \in {None, [of |-> u, key |-> 1]}
    BY DEF Used, Untouched
  <2>3. ASSUME NEW w PROVE [Used({}) EXCEPT !.dkls = w].entry = Used({}).entry
    BY DEF Used, Untouched
  <2>4. disk.entry[k][u] \in {None, [of |-> u, key |-> 1]}
    BY <2>1, <2>2, <2>3 DEF Init
  <2>. QED
    BY <2>4 DEF Value
<1>. QED
  BY <1>1, <1>2, <1>3
     DEF CallsAgree, DiskAgrees, PageAgrees, EmptyPage, Idle, NoCall, Kinds, Value

\* The page's wallet is whole and of the user that is logged in, and so is its DKLS
\* share, as long as the page and the device were of one user at a time: whatever
\* call failed, whenever the page was closed (client-key-manager.ts:25).
THEOREM WalletOfTheUser == Spec => []WalletIsOwn
<1>1. TypeInv /\ OwnInv => WalletIsOwn
  BY DEF OwnInv, Calm, WalletIsOwn, PageAgrees
<1>2. TypeInv /\ OwnInv /\ [Next]_vars => (TypeInv /\ OwnInv)'
  BY TypeStep, OwnStep
<1>. QED
  BY <1>1, <1>2, TypeInitial, OwnInitial, PTL DEF Spec
-----------------------------------------------------------------------------
(* The share is kept.                                                       *)

\* Every step keeps KeptInv.
LEMMA KeptStep ==
    ASSUME TypeInv, TypeInv', KeptInv, [Next]_vars PROVE KeptInv'
<1>0. None \notin Users /\ None \notin Keys /\ None \notin Entries
  BY WalletKeysAssumption
<1>t. /\ page \in Pages /\ disk \in Disks /\ GenPhases /\ SesPhases /\ TypeOK
      /\ registered \subseteq Users
  BY DEF TypeInv, TypeOK
<1> SUFFICES ASSUME Careful' PROVE Generating' /\ Kept'
  BY DEF KeptInv
<1>m. ASSUME mishap \subseteq mishap' PROVE Generating /\ Kept /\ Careful
  BY <1>m DEF KeptInv, Careful

<1>1. ASSUME Close PROVE Generating' /\ Kept'
  <2>m. mishap \subseteq mishap'
    BY <1>1 DEF Close, Happens
  <2>h. Generating /\ Kept /\ Careful
    BY <1>m, <2>m
  <2>1. Generating'
    BY <1>0, <1>t, <1>1, <2>h
       DEF Close, Generating, TypeOK, GenPhases, SesPhases, Careful, Idle, NoCall, EmptyPage,
           Happens, Pages, Disks, Kinds, Maybe
  <2>2. Kept'
    BY <1>0, <1>t, <1>1, <2>h
       DEF Close, Kept, OnDisk, Careful, GenPhases, SesPhases, Generating, Idle, NoCall,
           EmptyPage, Happens, Pages, Disks, Kinds, Maybe
  <2>. QED
    BY <2>1, <2>2
<1>2. ASSUME MeAnswers PROVE Generating' /\ Kept'
  <2>m. mishap \subseteq mishap'
    BY <1>2 DEF MeAnswers, Happens
  <2>h. Generating /\ Kept /\ Careful
    BY <1>m, <2>m
  <2>1. Generating'
    BY <1>0, <1>t, <1>2, <2>h
       DEF MeAnswers, Generating, TypeOK, GenPhases, SesPhases, Careful, NoCall, Throws,
           InitializeWallet, Pages, Disks, Kinds, Maybe
  <2>2. Kept'
    BY <1>0, <1>t, <1>2, <2>h
       DEF MeAnswers, Kept, OnDisk, Careful, GenPhases, SesPhases, Generating, NoCall, Throws,
           InitializeWallet, Pages, Disks, Kinds, Maybe
  <2>. QED
    BY <2>1, <2>2
<1>3. ASSUME LoginAnswers PROVE Generating' /\ Kept'
  <2>m. mishap \subseteq mishap'
    BY <1>3 DEF LoginAnswers, Happens
  <2>h. Generating /\ Kept /\ Careful
    BY <1>m, <2>m
  <2>1. Generating'
    BY <1>0, <1>t, <1>3, <2>h
       DEF LoginAnswers, Generating, TypeOK, GenPhases, SesPhases, Careful, Pages, Disks,
           Kinds, Maybe
  <2>2. Kept'
    BY <1>0, <1>t, <1>3, <2>h
       DEF LoginAnswers, Kept, OnDisk, Careful, GenPhases, SesPhases, Generating, Pages, Disks,
           Kinds, Maybe
  <2>. QED
    BY <2>1, <2>2
<1>4. ASSUME LoginFails PROVE Generating' /\ Kept'
  <2>m. mishap \subseteq mishap'
    BY <1>4 DEF LoginFails, Happens
  <2>h. Generating /\ Kept /\ Careful
    BY <1>m, <2>m
  <2>1. Generating'
    BY <1>0, <1>t, <1>4, <2>h
       DEF LoginFails, Generating, TypeOK, GenPhases, SesPhases, Careful, NoCall, Pages, Disks,
           Kinds, Maybe
  <2>2. Kept'
    BY <1>0, <1>t, <1>4, <2>h
       DEF LoginFails, Kept, OnDisk, Careful, GenPhases, SesPhases, Generating, NoCall, Pages,
           Disks, Kinds, Maybe
  <2>. QED
    BY <2>1, <2>2
<1>4f. ASSUME StoreTokensFails PROVE Generating' /\ Kept'
  <2>m. mishap \subseteq mishap'
    BY <1>4f DEF StoreTokensFails, Happens
  <2>h. Generating /\ Kept /\ Careful
    BY <1>m, <2>m
  <2>1. Generating'
    BY <1>0, <1>t, <1>4f, <2>h
       DEF StoreTokensFails, Happens, Generating, TypeOK, GenPhases, SesPhases, Careful,
           NoCall, Pages, Disks, Kinds, Maybe
  <2>2. Kept'
    BY <1>0, <1>t, <1>4f, <2>h
       DEF StoreTokensFails, Happens, Kept, OnDisk, Careful, GenPhases, SesPhases, Generating,
           NoCall, Pages, Disks, Kinds, Maybe
  <2>. QED
    BY <2>1, <2>2
<1>5. ASSUME StoreTokens PROVE Generating' /\ Kept'
  <2>m. mishap \subseteq mishap'
    BY <1>5 DEF StoreTokens, Happens
  <2>h. Generating /\ Kept /\ Careful
    BY <1>m, <2>m
  <2>1. Generating'
    BY <1>0, <1>t, <1>5, <2>h
       DEF StoreTokens, Generating, TypeOK, GenPhases, SesPhases, Careful, Pages, Disks, Kinds,
           Maybe
  <2>2. Kept'
    BY <1>0, <1>t, <1>5, <2>h
       DEF StoreTokens, Kept, OnDisk, Careful, GenPhases, SesPhases, Generating, Pages, Disks,
           Kinds, Maybe
  <2>. QED
    BY <2>1, <2>2
<1>6. ASSUME KeyManagerInitialized PROVE Generating' /\ Kept'
  <2>m. mishap \subseteq mishap'
    BY <1>6 DEF KeyManagerInitialized, Happens
  <2>h. Generating /\ Kept /\ Careful
    BY <1>m, <2>m
  <2>1. Generating'
    BY <1>0, <1>t, <1>6, <2>h
       DEF KeyManagerInitialized, Generating, TypeOK, GenPhases, SesPhases, Careful, NoCall,
           Throws, InitializeWallet, Pages, Disks, Kinds, Maybe
  <2>2. Kept'
    BY <1>0, <1>t, <1>6, <2>h
       DEF KeyManagerInitialized, Kept, OnDisk, Careful, GenPhases, SesPhases, Generating,
           NoCall, Throws, InitializeWallet, Pages, Disks, Kinds, Maybe
  <2>. QED
    BY <2>1, <2>2
<1>7. ASSUME Logout PROVE Generating' /\ Kept'
  <2>m. mishap \subseteq mishap'
    BY <1>7 DEF Logout, Happens
  <2>h. Generating /\ Kept /\ Careful
    BY <1>m, <2>m
  <2>1. Generating'
    BY <1>0, <1>t, <1>7, <2>h
       DEF Logout, Generating, TypeOK, GenPhases, SesPhases, Careful, Happens, Pages, Disks,
           Kinds, Maybe
  <2>2. Kept'
    BY <1>0, <1>t, <1>7, <2>h
       DEF Logout, Kept, OnDisk, Careful, GenPhases, SesPhases, Generating, Happens, Pages,
           Disks, Kinds, Maybe
  <2>. QED
    BY <2>1, <2>2
<1>8. ASSUME LoadShare PROVE Generating' /\ Kept'
  <2>m. mishap \subseteq mishap'
    BY <1>8 DEF LoadShare, Happens
  <2>h. Generating /\ Kept /\ Careful
    BY <1>m, <2>m
  <2>1. UNCHANGED <<protocol, gen, registered>> /\ ses.step = "share"
    BY <1>8 DEF LoadShare
  <2>2. /\ disk'.dkls = disk.dkls /\ disk'.entry = disk.entry
        /\ page'.user = page.user /\ page'.kmUser = page.kmUser /\ ses'.step # "store"
    <3>1. CASE Throws
      BY <3>1, CallThrows DEF NoCall
    <3>2. CASE ~Throws
      <4> DEFINE s == page'.kmShare
      <4>1. page' = [page EXCEPT !.kmShare = s] /\ disk' = disk
            /\ (ses' = NoCall \/ ses' = [ses EXCEPT !.step = "party", !.share = s])
        BY <1>8, <3>2, ShareLoaded
      <4> HIDE DEF s
      <4>2. page'.user = page.user /\ page'.kmUser = page.kmUser
        BY <1>t, <4>1 DEF Pages
      <4>3. ses'.step \in {"idle", "party"}
        <5>1. CASE ses' = NoCall
          BY <5>1 DEF NoCall
        <5>2. CASE ses' = [ses EXCEPT !.step = "party", !.share = s]
          BY ONLY <1>t, <5>2 DEF TypeOK, Kinds
        <5>. QED
          BY <4>1, <5>1, <5>2
      <4>. QED
        BY <4>1, <4>2, <4>3
    <3>. QED
      BY <3>1, <3>2
  <2>3. gen.step = "idle"
    BY <2>1, <2>h DEF Generating
  <2>. QED
    BY <2>1, <2>2, <2>3, <2>h DEF Generating, Kept, OnDisk, Kinds
<1>9. ASSUME LoadPartyShares PROVE Generating' /\ Kept'
  <2>m. mishap \subseteq mishap'
    BY <1>9 DEF LoadPartyShares, Happens
  <2>h. Generating /\ Kept /\ Careful
    BY <1>m, <2>m
  <2>1. Generating'
    BY <1>0, <1>t, <1>9, <2>h
       DEF LoadPartyShares, Generating, TypeOK, GenPhases, SesPhases, Careful, NoCall, Throws,
           Proceed, Pages, Disks, Kinds, Maybe
  <2>2. Kept'
    BY <1>0, <1>t, <1>9, <2>h
       DEF LoadPartyShares, Kept, OnDisk, Careful, GenPhases, SesPhases, Generating, NoCall,
           Throws, Proceed, Pages, Disks, Kinds, Maybe
  <2>. QED
    BY <2>1, <2>2
<1>10. ASSUME LoadPublicKey PROVE Generating' /\ Kept'
  <2>m. mishap \subseteq mishap'
    BY <1>10 DEF LoadPublicKey, Happens
  <2>h. Generating /\ Kept /\ Careful
    BY <1>m, <2>m
  <2>1. Generating'
    BY <1>0, <1>t, <1>10, <2>h
       DEF LoadPublicKey, Generating, TypeOK, GenPhases, SesPhases, Careful, NoCall, Throws,
           Proceed, Pages, Disks, Kinds, Maybe
  <2>2. Kept'
    BY <1>0, <1>t, <1>10, <2>h
       DEF LoadPublicKey, Kept, OnDisk, Careful, GenPhases, SesPhases, Generating, NoCall,
           Throws, Proceed, Pages, Disks, Kinds, Maybe
  <2>. QED
    BY <2>1, <2>2
<1>11. ASSUME LoadBackendShare PROVE Generating' /\ Kept'
  <2>m. mishap \subseteq mishap'
    BY <1>11 DEF LoadBackendShare, Happens
  <2>h. Generating /\ Kept /\ Careful
    BY <1>m, <2>m
  <2>1. Generating'
    BY <1>0, <1>t, <1>11, <2>h
       DEF LoadBackendShare, Generating, TypeOK, GenPhases, SesPhases, Careful, NoCall, Throws,
           Pages, Disks, Kinds, Maybe
  <2>2. Kept'
    BY <1>0, <1>t, <1>11, <2>h
       DEF LoadBackendShare, Kept, OnDisk, Careful, GenPhases, SesPhases, Generating, NoCall,
           Throws, Pages, Disks, Kinds, Maybe
  <2>. QED
    BY <2>1, <2>2
<1>12. ASSUME LoadDklsShare PROVE Generating' /\ Kept'
  <2>m. mishap \subseteq mishap'
    BY <1>12 DEF LoadDklsShare, Happens
  <2>h. Generating /\ Kept /\ Careful
    BY <1>m, <2>m
  <2>1. Generating'
    BY <1>0, <1>t, <1>12, <2>h
       DEF LoadDklsShare, Generating, TypeOK, GenPhases, SesPhases, Careful, NoCall, Pages,
           Disks, Kinds, Maybe
  <2>2. Kept'
    BY <1>0, <1>t, <1>12, <2>h
       DEF LoadDklsShare, Kept, OnDisk, Careful, GenPhases, SesPhases, Generating, NoCall,
           Pages, Disks, Kinds, Maybe
  <2>. QED
    BY <2>1, <2>2
<1>13. ASSUME Generate PROVE Generating' /\ Kept'
  <2>m. mishap \subseteq mishap'
    BY <1>13 DEF Generate, Happens
  <2>h. Generating /\ Kept /\ Careful
    BY <1>m, <2>m
  <2>1. /\ gen.step = "idle" /\ gen.user = None /\ ses.step = "idle" /\ page.user \in Users
        /\ page.kmUser = page.user /\ disk.dkls \in {None, page.user}
        /\ page.user \notin registered
        /\ UNCHANGED <<protocol, page, ses, disk, registered>>
    BY <1>t, <1>13 DEF Generate, Careful, Pages, Maybe, GenPhases
  <2>2. gen'.step = "dkg" /\ gen'.user = page.user
    BY <1>13 DEF Generate
  <2>3. protocol = "dkls" => registered = {}
    BY <1>0, <1>t, <2>1, <2>h DEF Kept, OnDisk
  <2>4. Generating'
    BY <2>1, <2>2, <2>3 DEF Generating, Kinds
  <2>5. Kept'
    BY <1>0, <1>t, <2>1, <2>2, <2>h DEF Kept, OnDisk
  <2>. QED
    BY <2>4, <2>5
<1>14. ASSUME BackendCompletes PROVE Generating' /\ Kept'
  <2>m. mishap \subseteq mishap'
    BY <1>14 DEF BackendCompletes, Happens
  <2>h. Generating /\ Kept /\ Careful
    BY <1>m, <2>m
  <2>1. Generating'
    BY <1>0, <1>t, <1>14, <2>h
       DEF BackendCompletes, Generating, TypeOK, GenPhases, SesPhases, Careful, Pages, Disks,
           Kinds, Maybe
  <2>2. Kept'
    BY <1>0, <1>t, <1>14, <2>h
       DEF BackendCompletes, Kept, OnDisk, Careful, GenPhases, SesPhases, Generating, Pages,
           Disks, Kinds, Maybe
  <2>. QED
    BY <2>1, <2>2
<1>15. ASSUME GenerationFails PROVE Generating' /\ Kept'
  <2>m. mishap \subseteq mishap'
    BY <1>15 DEF GenerationFails, Happens
  <2>h. Generating /\ Kept /\ Careful
    BY <1>m, <2>m
  <2>1. Generating'
    BY <1>0, <1>t, <1>15, <2>h
       DEF GenerationFails, Generating, TypeOK, GenPhases, SesPhases, Careful, Idle, Happens,
           Pages, Disks, Kinds, Maybe
  <2>2. Kept'
    BY <1>0, <1>t, <1>15, <2>h
       DEF GenerationFails, Kept, OnDisk, Careful, GenPhases, SesPhases, Generating, Idle,
           Happens, Pages, Disks, Kinds, Maybe
  <2>. QED
    BY <2>1, <2>2
<1>16. ASSUME GenerationAnswered PROVE Generating' /\ Kept'
  <2>m. mishap \subseteq mishap'
    BY <1>16 DEF GenerationAnswered, Happens
  <2>h. Generating /\ Kept /\ Careful
    BY <1>m, <2>m
  <2>1. /\ gen.step = "answer" /\ UNCHANGED <<protocol, page, ses, disk, registered>>
        /\ gen.user \in Users /\ page.kmUser = gen.user
    BY <1>t, <1>16, <2>h DEF GenerationAnswered, GenPhases, Generating
  <2>2. \/ gen'.step = "save" /\ gen'.user = gen.user
        \/ gen'.step = "share" /\ gen'.user = gen.user /\ gen'.target = gen.user
    <3>1. CASE protocol = "dkls"
      BY <1>t, <1>16, <3>1 DEF GenerationAnswered, TypeOK
    <3>2. CASE protocol # "dkls"
      BY <1>0, <1>16, <2>1, <3>2, NextStore DEF GenerationAnswered, Kinds
    <3>. QED
      BY <3>1, <3>2
  <2>3. Generating'
    BY <2>1, <2>2, <2>h DEF Generating, Kinds, StoredBefore
  <2>4. Kept'
    BY <2>1, <2>2, <2>h DEF Kept, OnDisk
  <2>. QED
    BY <2>3, <2>4
<1>17. ASSUME SaveDklsShare PROVE Generating' /\ Kept'
  <2>m. mishap \subseteq mishap'
    BY <1>17 DEF SaveDklsShare, Happens
  <2>h. Generating /\ Kept /\ Careful
    BY <1>m, <2>m
  <2>1. Generating'
    BY <1>0, <1>t, <1>17, <2>h
       DEF SaveDklsShare, Generating, TypeOK, GenPhases, SesPhases, Careful, Idle, Pages,
           Disks, Kinds, Maybe
  <2>2. Kept'
    BY <1>0, <1>t, <1>17, <2>h
       DEF SaveDklsShare, Kept, OnDisk, Careful, GenPhases, SesPhases, Generating, Idle, Pages,
           Disks, Kinds, Maybe
  <2>. QED
    BY <2>1, <2>2
<1>18. ASSUME StoreShare PROVE Generating' /\ Kept'
  <2>m. mishap \subseteq mishap'
    BY <1>18 DEF StoreShare, Happens
  <2>h. Generating /\ Kept /\ Careful
    BY <1>m, <2>m
  <2>u. /\ gen.step = "share" /\ "share" \in Kinds /\ gen.target = gen.user
        /\ page.kmUser = gen.user /\ protocol = "pedersen" /\ ses.step = "idle"
        /\ UNCHANGED <<protocol, ses, registered>>
    BY <1>t, <1>18, <2>h DEF StoreShare, GenPhases, Generating, Kinds
  <2>d. /\ gen.user \in Users
        /\ \A k \in Kinds, v \in Users :
              Value(disk'.entry[k][v])
                = IF k = "share" /\ v = gen.user THEN gen.user ELSE Value(disk.entry[k][v])
    BY <1>18, <2>u, GenerationStored DEF StoreShare
  <2>g. gen'.step = "party" /\ gen'.user = gen.user /\ gen'.target = gen.user
    BY <1>0, <1>18, <2>u, <2>d, NextStore DEF StoreShare, Kinds
  <2>1. \A k \in StoredBefore["party"] : Value(disk'.entry[k][gen.user]) = gen.user
    BY <2>u, <2>d, <2>h DEF Generating, Kinds, StoredBefore
  <2>2. Generating'
    BY <1>t, <1>18, <2>u, <2>g, <2>1, <2>h DEF StoreShare, Generating, Pages
  <2>3. Kept'
    BY <1>t, <2>u, <2>d, <2>g, <2>h DEF Kept, OnDisk
  <2>. QED
    BY <2>2, <2>3
<1>19. ASSUME StorePartyShares PROVE Generating' /\ Kept'
  <2>m. mishap \subseteq mishap'
    BY <1>19 DEF StorePartyShares, Happens
  <2>h. Generating /\ Kept /\ Careful
    BY <1>m, <2>m
  <2>u. /\ gen.step = "party" /\ "party" \in Kinds /\ gen.target = gen.user
        /\ page.kmUser = gen.user /\ protocol = "pedersen" /\ ses.step = "idle"
        /\ UNCHANGED <<protocol, ses, registered>>
    BY <1>t, <1>19, <2>h DEF StorePartyShares, GenPhases, Generating, Kinds
  <2>d. /\ gen.user \in Users
        /\ \A k \in Kinds, v \in Users :
              Value(disk'.entry[k][v])
                = IF k = "party" /\ v = gen.user THEN gen.user ELSE Value(disk.entry[k][v])
    BY <1>19, <2>u, GenerationStored DEF StorePartyShares
  <2>g. gen'.step = "public" /\ gen'.user = gen.user /\ gen'.target = gen.user
    BY <1>0, <1>19, <2>u, <2>d, NextStore DEF StorePartyShares, Kinds
  <2>1. \A k \in StoredBefore["public"] : Value(disk'.entry[k][gen.user]) = gen.user
    BY <2>u, <2>d, <2>h DEF Generating, Kinds, StoredBefore
  <2>2. Generating'
    BY <1>t, <1>19, <2>u, <2>g, <2>1, <2>h DEF StorePartyShares, Generating, Pages
  <2>3. Kept'
    BY <1>t, <2>u, <2>d, <2>g, <2>h DEF Kept, OnDisk
  <2>. QED
    BY <2>2, <2>3
<1>20. ASSUME StorePublicKey PROVE Generating' /\ Kept'
  <2>m. mishap \subseteq mishap'
    BY <1>20 DEF StorePublicKey, Happens
  <2>h. Generating /\ Kept /\ Careful
    BY <1>m, <2>m
  <2>u. /\ gen.step = "public" /\ "public" \in Kinds /\ gen.target = gen.user
        /\ page.kmUser = gen.user /\ protocol = "pedersen" /\ ses.step = "idle"
        /\ UNCHANGED <<protocol, ses, registered>>
    BY <1>t, <1>20, <2>h DEF StorePublicKey, GenPhases, Generating, Kinds
  <2>d. /\ gen.user \in Users
        /\ \A k \in Kinds, v \in Users :
              Value(disk'.entry[k][v])
                = IF k = "public" /\ v = gen.user THEN gen.user ELSE Value(disk.entry[k][v])
    BY <1>20, <2>u, GenerationStored DEF StorePublicKey
  <2>g. gen'.step = "backend" /\ gen'.user = gen.user /\ gen'.target = gen.user
    BY <1>0, <1>20, <2>u, <2>d, NextStore DEF StorePublicKey, Kinds
  <2>1. \A k \in StoredBefore["backend"] : Value(disk'.entry[k][gen.user]) = gen.user
    BY <2>u, <2>d, <2>h DEF Generating, Kinds, StoredBefore
  <2>2. Generating'
    BY <1>t, <1>20, <2>u, <2>g, <2>1, <2>h DEF StorePublicKey, Generating, Pages
  <2>3. Kept'
    BY <1>t, <2>u, <2>d, <2>g, <2>h DEF Kept, OnDisk
  <2>. QED
    BY <2>2, <2>3
<1>21. ASSUME StoreBackendShare PROVE Generating' /\ Kept'
  <2>m. mishap \subseteq mishap'
    BY <1>21 DEF StoreBackendShare, Happens
  <2>h. Generating /\ Kept /\ Careful
    BY <1>m, <2>m
  <2>u. /\ gen.step = "backend" /\ "backend" \in Kinds /\ gen.target = gen.user
        /\ page.kmUser = gen.user /\ protocol = "pedersen" /\ ses.step = "idle"
        /\ UNCHANGED <<protocol, ses, registered>>
    BY <1>t, <1>21, <2>h DEF StoreBackendShare, GenPhases, Generating, Kinds
  <2>d. /\ gen.user \in Users
        /\ \A k \in Kinds, v \in Users :
              Value(disk'.entry[k][v])
                = IF k = "backend" /\ v = gen.user THEN gen.user ELSE Value(disk.entry[k][v])
    BY <1>21, <2>u, GenerationStored DEF StoreBackendShare
  <2>g. gen' = Idle
    BY <1>21 DEF StoreBackendShare
  <2>1. \A k \in Kinds : Value(disk'.entry[k][gen.user]) = gen.user
    BY <2>u, <2>d, <2>h DEF Generating, Kinds, StoredBefore
  <2>2. Generating'
    BY <2>u, <2>g DEF Generating, Idle, Kinds
  <2>3. Kept'
    BY <1>t, <2>u, <2>d, <2>g, <2>1, <2>h DEF Kept, OnDisk, Idle
  <2>. QED
    BY <2>2, <2>3
<1>22. ASSUME StoreFails PROVE Generating' /\ Kept'
  <2>m. mishap \subseteq mishap'
    BY <1>22 DEF StoreFails, Happens
  <2>h. Generating /\ Kept /\ Careful
    BY <1>m, <2>m
  <2>1. Generating'
    BY <1>0, <1>t, <1>22, <2>h
       DEF StoreFails, Generating, TypeOK, GenPhases, SesPhases, Careful, Idle, Happens, Pages,
           Disks, Kinds, Maybe
  <2>2. Kept'
    BY <1>0, <1>t, <1>22, <2>h
       DEF StoreFails, Kept, OnDisk, Careful, GenPhases, SesPhases, Generating, Idle, Happens,
           Pages, Disks, Kinds, Maybe
  <2>. QED
    BY <2>1, <2>2
<1>23. ASSUME ExportBackup PROVE Generating' /\ Kept'
  <2>m. mishap \subseteq mishap'
    BY <1>23 DEF ExportBackup, Happens
  <2>h. Generating /\ Kept /\ Careful
    BY <1>m, <2>m
  <2>1. Generating'
    BY <1>0, <1>t, <1>23, <2>h
       DEF ExportBackup, Generating, TypeOK, GenPhases, SesPhases, Careful, Pages, Disks,
           Kinds, Maybe
  <2>2. Kept'
    BY <1>0, <1>t, <1>23, <2>h
       DEF ExportBackup, Kept, OnDisk, Careful, GenPhases, SesPhases, Generating, Pages, Disks,
           Kinds, Maybe
  <2>. QED
    BY <2>1, <2>2
<1>24. ASSUME StartImport PROVE Generating' /\ Kept'
  <2>m. mishap \subseteq mishap'
    BY <1>24 DEF StartImport, Happens
  <2>h. Generating /\ Kept /\ Careful
    BY <1>m, <2>m
  <2>1. Generating'
    BY <1>0, <1>t, <1>24, <2>h
       DEF StartImport, Generating, TypeOK, GenPhases, SesPhases, Careful, NoCall, Pages,
           Disks, Kinds, Maybe
  <2>2. Kept'
    BY <1>0, <1>t, <1>24, <2>h
       DEF StartImport, Kept, OnDisk, Careful, GenPhases, SesPhases, Generating, NoCall, Pages,
           Disks, Kinds, Maybe
  <2>. QED
    BY <2>1, <2>2
<1>25. ASSUME ImportStored PROVE Generating' /\ Kept'
  <2>m. mishap \subseteq mishap'
    BY <1>25 DEF ImportStored, Happens
  <2>h. Generating /\ Kept /\ Careful
    BY <1>m, <2>m
  <2>u. /\ ses.step = "store" /\ ses.target = ses.user /\ gen.step = "idle"
        /\ UNCHANGED <<protocol, gen, registered>>
    BY <1>25, <2>h DEF ImportStored, Generating
  <2>d. /\ ses.user \in Users /\ disk'.dkls = disk.dkls
        /\ \A k \in Kinds, v \in Users :
              Value(disk'.entry[k][v])
                = IF k = "share" /\ v = ses.user THEN ses.user ELSE Value(disk.entry[k][v])
    BY <1>25, <2>u, ImportWritten
  <2>1. Generating'
    BY <1>t, <1>25, <2>u DEF ImportStored, InitializeWallet, Generating, TypeOK, Kinds
  <2>2. Kept'
    BY <1>t, <2>u, <2>d, <2>h DEF Kept, OnDisk
  <2>. QED
    BY <2>1, <2>2
<1>26. ASSUME NEW u \in Users, NEW call \in {"login", "oauth", "reconnect"}, StartLogin(u, call)
       PROVE  Generating' /\ Kept'
  <2>h. Generating /\ Kept /\ Careful
    BY <1>m, <1>26 DEF StartLogin
  <2>1. gen.step = "idle" /\ UNCHANGED <<protocol, page, gen, disk, registered>>
    BY <1>26 DEF StartLogin, Careful
  <2>2. ses'.step = "login"
    BY <1>26 DEF StartLogin, NoCall
  <2>. QED
    BY <2>1, <2>2, <2>h DEF Generating, Kept, OnDisk, Kinds
<1>27. ASSUME NEW works \in BOOLEAN, Initialize(works) PROVE Generating' /\ Kept'
  <2>h. Generating /\ Kept /\ Careful
    BY <1>m, <1>27 DEF Initialize, Happens
  <2>1. gen.step = "idle" /\ UNCHANGED <<protocol, gen, registered>> /\ ses'.step # "store"
    BY <1>t, <1>27 DEF Initialize, GenPhases, NoCall
  <2>2. disk'.dkls = disk.dkls /\ disk'.entry = disk.entry
    BY <1>t, <1>27 DEF Initialize, DeviceKeyOnDisk, FreshKey, Disks
  <2>. QED
    BY <2>1, <2>2, <2>h DEF Generating, Kept, OnDisk, Kinds
<1>28. ASSUME UNCHANGED vars PROVE Generating' /\ Kept'
  BY <1>28, <1>m DEF vars, Generating, Kept, OnDisk
<1>. QED
  BY <1>1, <1>2, <1>3, <1>4, <1>4f, <1>5, <1>6, <1>7, <1>8, <1>9, <1>10, <1>11, <1>12, <1>13,
     <1>14,
     <1>15, <1>16, <1>17, <1>18, <1>19, <1>20, <1>21, <1>22, <1>23, <1>24, <1>25, <1>26, <1>27,
     <1>28
     DEF Next

\* A device has the wallets that were generated on it.
LEMMA KeptInitial == Init => KeptInv
<1> SUFFICES ASSUME Init PROVE Generating /\ Kept
  BY DEF KeptInv
<1>1. gen = Idle /\ ses = NoCall /\ None \notin Users
  BY WalletKeysAssumption DEF Init
<1>2. Generating
  BY <1>1 DEF Generating, Idle, NoCall, Kinds
<1>3. Kept
  <2>1. CASE registered = {}
    BY <2>1 DEF Kept
  <2>2. CASE protocol = "pedersen" /\ disk = Used(registered)
    <3>1. ASSUME NEW U, NEW k \in Kinds, NEW u \in Users, u \in U
          PROVE  Used(U).entry[k][u] = [of |-> u, key |-> 1]
      BY <3>1 DEF Used, Untouched
    <3>2. ASSUME NEW u \in Users PROVE Value([of |-> u, key |-> 1]) = u
      <4>1. [of |-> u, key |-> 1] # None
        BY WalletKeysAssumption DEF Entries, Keys
      <4>. QED
        BY <4>1 DEF Value
    <3>3. registered \subseteq Users
      BY DEF Init
    <3>. QED
      BY <2>2, <3>1, <3>2, <3>3 DEF Kept, OnDisk
  <2>3. ASSUME NEW u \in Users, protocol = "dkls", registered = {u},
               disk = [Used({}) EXCEPT !.dkls = u]
        PROVE  Kept
    <3>1. disk.dkls = u
      BY <2>3 DEF Used, Untouched
    <3>. QED
      BY <2>3, <3>1 DEF Kept, OnDisk
  <2>. QED
    BY <2>1, <2>2, <2>3 DEF Init
<1>. QED
  BY <1>2, <1>3

\* The backend's wallet of a user is on the device, or its generation still runs,
\* when no page was closed and no answer lost in a generation, and when generations
\* and logins did not cross (nero-sdk.ts:495).
THEOREM SharesAreKept == Spec => []ShareKept
<1>1. KeptInv => ShareKept
  BY DEF KeptInv, ShareKept, Careful, Kept, OnDisk
<1>2. TypeInv /\ KeptInv /\ [Next]_vars => (TypeInv /\ KeptInv)'
  BY TypeStep, KeptStep
<1>. QED
  BY <1>1, <1>2, TypeInitial, KeptInitial, PTL DEF Spec
-----------------------------------------------------------------------------
(* Logins restore the wallet.                                               *)

\* A login that is over has the wallet: nothing it reads is missing or unreadable.
LEMMA RestoreStep ==
    ASSUME TypeInv, TypeInv', RegisteredInv, KeyInv, OwnInv, KeptInv, RestoreInv, [Next]_vars
    PROVE  RestoreInv'
<1>0. None \notin Users /\ None \notin Keys /\ None \notin Entries /\ None \notin Wallets
  BY WalletKeysAssumption
<1>t. /\ page \in Pages /\ disk \in Disks /\ GenPhases /\ SesPhases /\ TypeOK
      /\ registered \subseteq Users
  BY DEF TypeInv, TypeOK
<1> DEFINE Found == /\ gen.step = "idle" /\ ses.step \in {"idle", "login", "store"}
                    /\ page.user \in registered /\ page.kmUser = page.user
           Whole == page.wallet # None \/ page.address # None
<1> SUFFICES ASSUME mishap' = {}, Found' PROVE Whole'
  BY DEF RestoreInv
<1>r. ASSUME Found, mishap = {}, page'.wallet = page.wallet, page'.address = page.address
      PROVE  Whole'
  BY <1>r DEF RestoreInv
<1>m. ASSUME mishap = {}
      PROVE  CallsAgree /\ PageAgrees /\ Generating /\ Kept /\ "fallback" \notin mishap
  BY <1>m DEF KeptInv, OwnInv, Calm, Careful
\* What a session call finds for the user of the key manager.
<1>f. ASSUME mishap = {}, gen.step = "idle", page.user \in registered, page.kmUser = page.user,
             NEW kind \in Kinds, page.deviceKey # None
      PROVE  /\ ~Unreadable(Entry(kind))
             /\ protocol = "pedersen" => Entry(kind) # None /\ Value(Entry(kind)) # None
  <2>1. page.user \in Users /\ Entry(kind) = disk.entry[kind][page.user]
    BY <1>0, <1>t, <1>f DEF Entry
  <2>2. ~Unreadable(Entry(kind))
    BY <1>f, <1>m, <2>1 DEF KeyInv, Unreadable
  <2>3. ASSUME protocol = "pedersen" PROVE Value(Entry(kind)) = page.user
    BY <1>0, <1>f, <1>m, <1>t, <2>1, <2>3 DEF Kept, OnDisk, GenPhases
  <2>4. ASSUME protocol = "pedersen" PROVE Entry(kind) # None
    BY <1>0, <2>1, <2>3, <2>4 DEF Value
  <2>. QED
    BY <1>0, <2>1, <2>2, <2>3, <2>4

<1>1. ASSUME Close PROVE Whole'
  BY <1>0, <1>t, <1>r, <1>1
     DEF Close, TypeOK, SesPhases, GenPhases, Idle, NoCall, EmptyPage, Happens, Pages, Kinds
<1>2. ASSUME MeAnswers PROVE Whole'
  BY <1>0, <1>t, <1>r, <1>2
     DEF MeAnswers, Throws, TypeOK, SesPhases, GenPhases, NoCall, InitializeWallet, Pages,
         Kinds
<1>3. ASSUME LoginAnswers PROVE Whole'
  BY <1>0, <1>t, <1>r, <1>3 DEF LoginAnswers, TypeOK, SesPhases, GenPhases, Pages, Kinds
<1>4. ASSUME LoginFails PROVE Whole'
  BY <1>0, <1>t, <1>r, <1>4 DEF LoginFails, TypeOK, SesPhases, GenPhases, NoCall, Pages, Kinds
<1>4f. ASSUME StoreTokensFails PROVE Whole'
  BY <1>0, <1>t, <1>r, <1>4f
     DEF StoreTokensFails, TypeOK, SesPhases, GenPhases, NoCall, Happens, Pages, Kinds
<1>5. ASSUME StoreTokens PROVE Whole'
  BY <1>0, <1>t, <1>r, <1>5 DEF StoreTokens, TypeOK, SesPhases, GenPhases, Pages, Kinds
<1>6. ASSUME Logout PROVE Whole'
  BY <1>0, <1>t, <1>r, <1>6 DEF Logout, TypeOK, SesPhases, GenPhases, Happens, Pages, Kinds
<1>7. ASSUME Generate PROVE Whole'
  BY <1>0, <1>t, <1>r, <1>7 DEF Generate, TypeOK, SesPhases, GenPhases, Pages, Kinds
<1>8. ASSUME BackendCompletes PROVE Whole'
  BY <1>0, <1>t, <1>r, <1>8 DEF BackendCompletes, TypeOK, SesPhases, GenPhases, Pages, Kinds
<1>9. ASSUME StoreFails PROVE Whole'
  BY <1>0, <1>t, <1>r, <1>9
     DEF StoreFails, TypeOK, SesPhases, GenPhases, Idle, Happens, Pages, Kinds
<1>10. ASSUME ExportBackup PROVE Whole'
  BY <1>0, <1>t, <1>r, <1>10 DEF ExportBackup, TypeOK, SesPhases, GenPhases, Pages, Kinds
<1>11. ASSUME StartImport PROVE Whole'
  BY <1>0, <1>t, <1>r, <1>11
     DEF StartImport, TypeOK, SesPhases, GenPhases, NoCall, Pages, Kinds
<1>12. ASSUME ImportStored PROVE Whole'
  BY <1>0, <1>t, <1>r, <1>12
     DEF ImportStored, TypeOK, SesPhases, GenPhases, InitializeWallet, Pages, Kinds
<1>13. ASSUME KeyManagerInitialized PROVE Whole'
  <2>1. /\ mishap = {} /\ ses.step = "loading" /\ UNCHANGED <<gen, registered, protocol>>
        /\ page.deviceKey # None /\ ses.user \in Users
    BY <1>t, <1>13 DEF KeyManagerInitialized, SesPhases
  <2>2. ses.target = ses.user /\ page.user = ses.user
    BY <1>m, <2>1 DEF CallsAgree, Kinds
  <2>3. page'.user = page.user /\ page'.kmUser = page.kmUser
    BY <1>t, <1>13 DEF KeyManagerInitialized, Throws, Pages
  <2>4. ~Unreadable(disk.entry["share"][ses.target])
    <3>1. Entry("share") = disk.entry["share"][ses.target]
      BY <1>0, <2>1, <2>2, <2>3 DEF Entry
    <3>. QED
      BY <1>f, <2>1, <2>3, <3>1 DEF Kinds
  <2>5. ses.user \in registered
    BY <2>1, <2>2, <2>3
  <2>6. InitializeWallet
    BY <1>0, <1>13, <2>1, <2>2, <2>4, <2>5 DEF KeyManagerInitialized
  <2>. QED
    BY <1>t, <2>6 DEF InitializeWallet, TypeOK, Kinds
<1>14. ASSUME LoadShare PROVE Whole'
  <2>1. /\ mishap = {} /\ ses.step = "share" /\ UNCHANGED <<gen, registered, protocol>>
        /\ page.deviceKey # None /\ protocol = "pedersen"
    BY <1>t, <1>14 DEF LoadShare, SesPhases, Kinds
  <2>2. CASE Throws
    <3>1. page' = page
      BY <2>2 DEF Throws
    <3>2. ~Unreadable(Entry("share")) /\ Value(Entry("share")) # None
      BY <1>f, <2>1, <3>1 DEF Kinds
    <3> DEFINE s == IF page.kmShare # None THEN page.kmShare ELSE Value(Entry("share"))
    <3>3. ses' = IF s = None THEN NoCall ELSE [ses EXCEPT !.step = "party", !.share = s]
      BY <1>14, <3>2 DEF LoadShare
    <3>4. s # None
      BY <3>2
    <3> HIDE DEF s
    <3>5. ses'.step = "party"
      BY ONLY <1>t, <3>3, <3>4 DEF TypeOK, Kinds
    <3>. QED
      BY <3>5
  <2>3. CASE ~Throws
    <3> DEFINE s == page'.kmShare
    <3>1. /\ s = IF page.kmShare # None THEN page.kmShare ELSE Value(Entry("share"))
          /\ page' = [page EXCEPT !.kmShare = s]
          /\ s # None => ses' = [ses EXCEPT !.step = "party", !.share = s]
      BY <1>14, <2>3, ShareLoaded
    <3> HIDE DEF s
    <3>2. page'.user = page.user /\ page'.kmUser = page.kmUser
      BY <1>t, <3>1 DEF Pages
    <3>3. s # None
      BY <1>f, <2>1, <3>1, <3>2 DEF Kinds
    <3>4. ses'.step = "party"
      BY ONLY <1>t, <3>1, <3>3 DEF TypeOK, Kinds
    <3>. QED
      BY <3>4
  <2>. QED
    BY <2>2, <2>3
<1>15. ASSUME LoadPartyShares PROVE Whole'
  <2>1. /\ mishap = {} /\ ses.step = "party" /\ UNCHANGED <<gen, registered, protocol>>
        /\ page.deviceKey # None /\ protocol = "pedersen"
    BY <1>t, <1>15 DEF LoadPartyShares, SesPhases, Kinds
  <2>2. page'.user = page.user /\ page'.kmUser = page.kmUser
    BY <1>t, <1>15 DEF LoadPartyShares, Throws, Pages
  <2>3. ~Unreadable(Entry("party")) /\ Value(Entry("party")) # None
    BY <1>f, <2>1, <2>2 DEF Kinds
  <2>4. Proceed("public")
    BY <1>15, <2>3 DEF LoadPartyShares
  <2>. QED
    BY <1>t, <2>4 DEF Proceed, TypeOK
<1>16. ASSUME LoadPublicKey PROVE Whole'
  <2>1. /\ mishap = {} /\ ses.step = "public" /\ UNCHANGED <<gen, registered, protocol>>
        /\ page.deviceKey # None /\ protocol = "pedersen"
    BY <1>t, <1>16 DEF LoadPublicKey, SesPhases, Kinds
  <2>2. page'.user = page.user /\ page'.kmUser = page.kmUser
    <3>1. CASE page' = page
      BY <3>1
    <3>2. CASE page' # page
      <4> DEFINE s == page'.publicKey
      <4>1. page' = [page EXCEPT !.publicKey = s, !.partyShares = page.kmParty]
        BY <1>16, <3>2, PublicKeyLoaded DEF Throws
      <4> HIDE DEF s
      <4>. QED
        BY <1>t, <4>1 DEF Pages
    <3>. QED
      BY <3>1, <3>2
  <2>3. ~Unreadable(Entry("public")) /\ Entry("public") # None
    BY <1>f, <2>1, <2>2 DEF Kinds
  <2>4. Proceed("backend")
    BY <1>16, <2>3 DEF LoadPublicKey
  <2>. QED
    BY <1>t, <2>4 DEF Proceed, TypeOK
<1>17. ASSUME LoadBackendShare PROVE Whole'
  <2>1. /\ mishap = {} /\ ses.step = "backend" /\ UNCHANGED <<gen, registered, protocol>>
        /\ page.deviceKey # None /\ ses.user \in Users /\ ses.share \in Users
    BY <1>t, <1>17 DEF LoadBackendShare, SesPhases
  <2>2. page'.user = page.user /\ page'.kmUser = page.kmUser
    BY <1>t, <1>17 DEF LoadBackendShare, Throws, Pages
  <2>3. ~Unreadable(Entry("backend"))
    BY <1>f, <2>1, <2>2 DEF Kinds
  <2>4. page'.wallet = WalletOf(ses.share)
    BY <1>t, <1>17, <2>3 DEF LoadBackendShare, Pages
  <2>5. page.partyShares = ses.user /\ page.publicKey = ses.user
    BY <1>m, <2>1 DEF PageAgrees
  <2>6. WalletOf(ses.share) \in Wallets
    BY <1>0, <2>1, <2>5 DEF WalletOf, Wallets
  <2>. QED
    BY <1>0, <2>4, <2>6
<1>18. ASSUME LoadDklsShare PROVE Whole'
  <2>1. /\ mishap = {} /\ ses.step = "address" /\ UNCHANGED <<gen, registered, protocol>>
        /\ protocol = "dkls" /\ ses.user \in Users
    BY <1>t, <1>18 DEF LoadDklsShare, SesPhases
  <2>2. page'.user = page.user
    BY <1>t, <1>18 DEF LoadDklsShare, Pages
  <2>3. disk.dkls = page.user /\ page.user \in Users
    BY <1>0, <1>m, <1>t, <2>1, <2>2 DEF Kept, OnDisk, GenPhases
  <2>. QED
    BY <1>0, <1>t, <1>18, <2>1, <2>3 DEF LoadDklsShare, Pages
<1>19. ASSUME GenerationFails PROVE Whole'
  <2>1. gen.step = "dkg" /\ mishap = {} /\ UNCHANGED <<page, registered>>
    BY <1>19 DEF GenerationFails, Happens
  <2>2. page.user = gen.user
    BY <1>m, <2>1 DEF Generating
  <2>. QED
    BY <1>t, <2>1, <2>2 DEF GenPhases
<1>20. ASSUME GenerationAnswered PROVE Whole'
  <2>1. gen.step = "answer" /\ mishap = {}
    BY <1>20 DEF GenerationAnswered
  <2>2. gen.user \in Users /\ page.kmUser = gen.user
    BY <1>m, <1>t, <2>1 DEF Generating, GenPhases
  <2>. QED
    BY <1>0, <1>t, <1>20, <2>1, <2>2, NextStore DEF GenerationAnswered, TypeOK, Kinds
<1>21. ASSUME StoreShare PROVE Whole'
  <2>1. gen.step = "share" /\ mishap = {} /\ BeginStore("party")
    BY <1>21 DEF StoreShare
  <2>2. gen.user \in Users /\ page.kmUser = gen.user
    BY <1>m, <1>t, <2>1 DEF Generating, GenPhases
  <2>. QED
    BY <1>0, <2>1, <2>2, NextStore DEF Kinds
<1>22. ASSUME StorePartyShares PROVE Whole'
  <2>1. gen.step = "party" /\ mishap = {} /\ BeginStore("public")
    BY <1>22 DEF StorePartyShares
  <2>2. gen.user \in Users /\ page.kmUser = gen.user
    BY <1>m, <1>t, <2>1 DEF Generating, GenPhases
  <2>. QED
    BY <1>0, <2>1, <2>2, NextStore DEF Kinds
<1>23. ASSUME StorePublicKey PROVE Whole'
  <2>1. gen.step = "public" /\ mishap = {} /\ BeginStore("backend")
    BY <1>23 DEF StorePublicKey
  <2>2. gen.user \in Users /\ page.kmUser = gen.user
    BY <1>m, <1>t, <2>1 DEF Generating, GenPhases
  <2>. QED
    BY <1>0, <2>1, <2>2, NextStore DEF Kinds
<1>24. ASSUME SaveDklsShare PROVE Whole'
  <2>1. gen.user \in Users
    BY <1>t, <1>24 DEF SaveDklsShare, GenPhases
  <2>. QED
    BY <1>0, <1>t, <1>24, <2>1 DEF SaveDklsShare, Pages
<1>25. ASSUME StoreBackendShare PROVE Whole'
  <2>1. gen.step = "backend" /\ mishap = {} /\ gen.user \in Users
    BY <1>t, <1>25 DEF StoreBackendShare, GenPhases
  <2>2. page.partyShares = gen.user /\ page.publicKey = gen.user
    BY <1>m, <2>1 DEF PageAgrees
  <2>3. WalletOf(gen.user) \in Wallets
    BY <1>0, <2>1, <2>2 DEF WalletOf, Wallets
  <2>. QED
    BY <1>0, <1>t, <1>25, <2>3 DEF StoreBackendShare, Pages
<1>26. ASSUME NEW u \in Users, NEW call \in {"login", "oauth", "reconnect"}, StartLogin(u, call)
       PROVE  Whole'
  BY <1>r, <1>26 DEF StartLogin, NoCall
<1>27. ASSUME NEW works \in BOOLEAN, Initialize(works) PROVE Whole'
  <2>1. page.user = None
    BY <1>27 DEF TypeInv, EmptyPage, Initialize
  <2>2. page'.user = page.user
    BY <1>t, <1>27 DEF Initialize, Pages
  <2>. QED
    BY <1>0, <1>t, <1>27, <2>1, <2>2 DEF Initialize
<1>28. ASSUME UNCHANGED vars PROVE Whole'
  BY <1>r, <1>28 DEF vars
<1>. QED
  BY <1>1, <1>2, <1>3, <1>4, <1>4f, <1>5, <1>6, <1>7, <1>8, <1>9, <1>10, <1>11, <1>12, <1>13,
     <1>14,
     <1>15, <1>16, <1>17, <1>18, <1>19, <1>20, <1>21, <1>22, <1>23, <1>24, <1>25, <1>26, <1>27,
     <1>28
     DEF Next

\* Nobody is logged in.
LEMMA RestoreInitial == Init => RestoreInv
  BY WalletKeysAssumption DEF Init, EmptyPage, RestoreInv

\* A user whose wallet the backend has gets it from every login, once the login is
\* over, if nothing happened that the code does not guard against.
THEOREM LoginsRestore == Spec => []LoginRestores
<1> DEFINE Inv == TypeInv /\ RegisteredInv /\ KeyInv /\ OwnInv /\ KeptInv /\ RestoreInv
<1>1. Init => Inv
  BY TypeInitial, RegisteredInitial, KeyInitial, OwnInitial, KeptInitial, RestoreInitial
<1>2. Inv /\ [Next]_vars => Inv'
  BY TypeStep, RegisteredStep, KeyStep, OwnStep, KeptStep, RestoreStep
<1>3. Inv => LoginRestores
  BY DEF RestoreInv, LoginRestores
<1>. QED
  BY <1>1, <1>2, <1>3, PTL DEF Spec

===============================================================================
