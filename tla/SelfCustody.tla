----------------------------- MODULE SelfCustody -----------------------------
(***************************************************************************)
(* Self-custody recovery (core/self-custody-recovery.ts): both shares of a *)
(* wallet in one blob that a password opens, and the private key rebuilt   *)
(* from it without the backend.                                            *)
(*                                                                         *)
(* The seed is a function of password and salt.  A sealed box is its key   *)
(* and its content: AES-GCM fails under another key or on a changed box.   *)
(* The HMAC is the key and the fields it covers.  Blobs are stored outside *)
(* the SDK, so any field may come back changed, or the blob may be the one *)
(* of an earlier wallet of the user.                                       *)
(***************************************************************************)
EXTENDS PrimeField

CONSTANTS Passwords, ShortPasswords,   \* below MIN_PASSWORD_LENGTH
          Salts,
          SeedScalar(_, _),  \* scrypt, reduced mod Q: of a password and a salt
          Kdfs, BadKdfs,     \* kdfParams, and those out of KDF_LIMITS
          Wallets,           \* bound: how many wallets the user has in turn
          WalletDraws,       \* bound: scalars their shares are made of
          Nothing

ASSUME SeedAssumption ==
    /\ WalletDraws \subseteq Scalars
    /\ ShortPasswords \subseteq Passwords /\ BadKdfs \subseteq Kdfs
    /\ \A p \in Passwords, s \in Salts : SeedScalar(p, s) \in Field
    /\ Wallets \in Nat \ {0}

VARIABLES
    wallets,   \* wallets[n]: the n-th wallet: protocol, shares and address
    current,   \* the number of the current one
    blob,      \* the composite blob, with who made it, or Nothing
    recovered  \* the last outcome of extractClientShare or offlineReconstructKey

custodyVars == <<wallets, current, blob, recovered>>

Sharings == {"multiplicative", "additive"}
SharingTypes == Sharings \cup {"other"}

\* The backend's share of an additive wallet is its Shamir share at 2, the
\* client's the one at 1, of a line through the secret at 0 (BackendShare and
\* SharesInterpolate of module PedersenWallet).
SecretOf(sharing, skA, skB) ==
    IF sharing = "multiplicative" THEN Mod(skA * skB) ELSE Mod(2 * skA - skB)

ProductWallet(skA, skB) ==
    [sharing |-> "multiplicative", skA |-> skA, skB |-> skB, address |-> Mod(skA * skB)]
LineWallet(secret, slope) ==
    [sharing |-> "additive", skA |-> Mod(secret + slope), skB |-> Mod(secret + 2 * slope),
     address |-> secret]

AnyWallet ==
    {w \in {ProductWallet(a, b) : a, b \in WalletDraws}
           \cup {LineWallet(a, b) : a, b \in WalletDraws} : w.address # 0}

Seed(password, salt, kdf) == <<password, salt, kdf>>
ScalarOf(seed) == SeedScalar(seed[1], seed[2])

Box(key, content) == [key |-> key, content |-> content, intact |-> TRUE]
Opens(box, key) == box.intact /\ box.key = key

\* computeMetadataHmac covers what steers the recovery, and neither box.
\* (The first definition is the mutant: the sharing type is not covered.)
HmacOfSalt(seed, sharing, salt, kdf) == <<seed, "other", salt, kdf>>
MetadataHmac(seed, sharing, salt, kdf) == <<seed, sharing, salt, kdf>>

\* CompositeBlob, as it is made and as it may come back.
Seeds == Passwords \X Salts \X Kdfs
Boxes(Keys) == [key : Keys, content : Field, intact : BOOLEAN]
Blobs == [madeFor : 1 .. Wallets, password : Passwords,
          encryptedClientShare : Boxes(Seeds), backendShareBlob : Boxes(Field),
          sharingType : SharingTypes, kdfSalt : Salts, kdfParams : Kdfs,
          metadataMac : Seeds \X SharingTypes \X Salts \X Kdfs]

ASSUME NothingAssumption == Nothing \notin Blobs

CustodyInit ==
    /\ wallets \in [1 .. Wallets -> AnyWallet]
    /\ current = 1
    /\ blob = Nothing
    /\ recovered = Nothing

CustodyTypeOK ==
    /\ wallets \in [1 .. Wallets -> AnyWallet]
    /\ current \in 1 .. Wallets
    /\ blob \in Blobs \cup {Nothing}
    /\ recovered = Nothing \/ recovered.outcome \in {"share", "key", "refused"}

-----------------------------------------------------------------------------

ValidPassword(password) == password \notin ShortPasswords
ValidKdf(kdf) == kdf \notin BadKdfs

\* buildCompositeBlob, with who made it: the backend encrypted its share to the
\* public key of the seed.
CompositeBlob(password, salt, kdf) ==
    LET seed == Seed(password, salt, kdf)
        w == wallets[current]
    IN  [madeFor |-> current, password |-> password,
         encryptedClientShare |-> Box(seed, w.skA),
         backendShareBlob |-> Box(ScalarOf(seed), w.skB),
         sharingType |-> w.sharing, kdfSalt |-> salt, kdfParams |-> kdf,
         metadataMac |-> MetadataHmac(seed, w.sharing, salt, kdf)]

\* setupSelfCustodyRecovery refuses a short password and a seed of scalar 0.
Setup ==
    /\ blob = Nothing
    /\ \E password \in Passwords, salt \in Salts, kdf \in Kdfs :
          /\ ValidPassword(password) /\ ValidKdf(kdf)
          /\ Multiplies(ScalarOf(Seed(password, salt, kdf)))
          /\ blob' = CompositeBlob(password, salt, kdf)
    /\ UNCHANGED <<wallets, current, recovered>>

\* parseCompositeBlob accepts well-formed fields within the limits only.
Parses(b) == b.sharingType \in Sharings /\ ValidKdf(b.kdfParams)

\* verifyMetadataIntegrity: the HMAC under the seed that the blob's own salt and
\* parameters give with this password.
MetadataIntact(b, seed) ==
    b.metadataMac = MetadataHmac(seed, b.sharingType, b.kdfSalt, b.kdfParams)

Refused == [outcome |-> "refused", value |-> Nothing, expected |-> Nothing,
            password |-> Nothing]

\* extractClientShare, of a recovery while the backend is there.
ExtractClientShare ==
    /\ blob # Nothing
    /\ \E password \in Passwords :
          LET seed == Seed(password, blob.kdfSalt, blob.kdfParams)
          IN  recovered' =
                IF /\ Parses(blob) /\ MetadataIntact(blob, seed)
                   /\ Opens(blob.encryptedClientShare, seed)
                THEN [outcome |-> "share", value |-> blob.encryptedClientShare.content,
                      expected |-> Nothing, password |-> password]
                ELSE Refused
    /\ UNCHANGED <<wallets, current, blob>>

\* offlineReconstructKey, with or without the address to compare with.
AddressMatches(expected, address) == expected \in {Nothing, address}

OfflineReconstructKey ==
    /\ blob # Nothing
    /\ \E password \in Passwords, expected \in {Nothing, wallets[current].address} :
          LET seed == Seed(password, blob.kdfSalt, blob.kdfParams)
              sk == SecretOf(blob.sharingType, blob.encryptedClientShare.content,
                             blob.backendShareBlob.content)
          IN  recovered' =
                IF /\ Parses(blob) /\ MetadataIntact(blob, seed)
                   /\ Opens(blob.encryptedClientShare, seed)
                   /\ Multiplies(ScalarOf(seed))
                   /\ Opens(blob.backendShareBlob, ScalarOf(seed))
                   /\ Multiplies(sk) /\ AddressMatches(expected, Times(1, sk))
                THEN [outcome |-> "key", value |-> sk, expected |-> expected,
                      password |-> password]
                ELSE Refused
    /\ UNCHANGED <<wallets, current, blob>>

\* Where the blob is kept, a field is lost, mangled or mixed up.
BlobDamaged ==
    /\ blob # Nothing
    /\ \/ \E s \in SharingTypes : blob' = [blob EXCEPT !.sharingType = s]
       \/ \E s \in Salts : blob' = [blob EXCEPT !.kdfSalt = s]
       \/ \E k \in Kdfs : blob' = [blob EXCEPT !.kdfParams = k]
       \/ blob' = [blob EXCEPT !.encryptedClientShare.intact = FALSE]
       \/ blob' = [blob EXCEPT !.backendShareBlob.intact = FALSE]
    /\ UNCHANGED <<wallets, current, recovered>>

\* The user generates another wallet; the blob stays that of the old one.
NewWallet ==
    /\ current < Wallets
    /\ current' = current + 1
    /\ recovered' = Nothing
    /\ UNCHANGED <<wallets, blob>>

CustodyNext ==
    \/ Setup \/ ExtractClientShare \/ OfflineReconstructKey
    \/ BlobDamaged \/ NewWallet

CustodySpec == CustodyInit /\ [][CustodyNext]_custodyVars

-----------------------------------------------------------------------------

\* What a recovery returns is the share or the private key of the wallet the
\* blob was made for, under the password it was made with: damage to a field
\* makes the recovery fail and never gives another key; with the expected address
\* given, the key of an earlier wallet is not handed out for the current one
\* (self-custody-recovery.ts:421 and 456).
RecoversTheBackedUpWallet ==
    recovered # Nothing =>
        LET w == wallets[blob.madeFor]
        IN  /\ recovered.outcome = "key" =>
                  /\ recovered.value = w.address /\ recovered.password = blob.password
                  /\ recovered.expected # Nothing =>
                        recovered.value = wallets[current].address
            /\ recovered.outcome = "share" =>
                  recovered.value = w.skA /\ recovered.password = blob.password
===============================================================================
