# Formal models of the NERO MPC SDK

TLA+ modules for `@nerochain/mpc-sdk`: a browser client that holds one share of
a 2-party threshold ECDSA key and runs key generation, signing, session,
transport and wallet logic against a backend that holds the other share. The
client is single-threaded JavaScript; everything hard about it happens at
`await`: other calls, events of the network and of the page run in between, on
shared fields of long-lived objects.

Paths below are relative to the repository; its code is in `src/`.

## Inventory

| Component | State | Operations | Works with | What is hard | What makes it correct |
|---|---|---|---|---|---|
| DKLS signing client (`protocols/dkls/dkls-client.ts`, `crypto.ts`) | `signingState`, `mtaState`, `keyShare`, `dkgSessionId` | `sign`, `signMessage`, `signTypedData`, `clearKeyShare` | API client, storage | overlapping calls share two fields; 409 retry and cancel; lost answers | one session per partial signature, no signature over another caller's message, fields cleared, every call ends |
| DKLS key generation (same files) | `keygenState`, stored share | `executeKeygen` | API client, storage | crash between the backend's completion and saving the share; one storage key for all users | share stored if the backend completed, or the loss is visible |
| DKLS multiplication (`mta-protocol.ts`, `oblivious-transfer.ts`) | per-round states | MtA rounds 1-4, COT batches | signing client | bit-wise arithmetic modulo the group order | additive shares of the product; the assembled signature verifies |
| Pedersen DKG (`protocols/dkg/*`) | `state`, polynomial, received shares | `execute`, `getKeyShare`, `cleanup` | API client | share interpolation, failure in each round | shares of one key, reconstruction 2·a − b |
| Pedersen signing (`protocols/signing/*`) | nonce shares | `sign` | API client | arithmetic of partial signatures | the sum is the signature |
| SDK session (`nero-sdk.ts`) | user, wallet, shares, cached key, provider | five login paths, `initialize`, `logout`, `generateWallet`, `getKeyMaterial` | all of the above | operations in flight across a logout or another login; partial failure; reload | state of one user at a time; tokens, user and key gone after logout |
| API client (`transport/api-client.ts`, retry middleware) | `tokens`, `refreshPromise` | `request`, refresh, set and clear tokens | every endpoint wrapper | single-flight refresh racing logout and login | requests carry the current user's tokens |
| WebSocket transport (`transport/websocket-client.ts`) | socket, flags, timer, ping interval, queue | `connect`, `disconnect`, `send`, handlers | application | late events of replaced sockets; bounded queue | wanted connection restored; messages in order, none twice |
| Key manager, storage (`core/client-key-manager.ts`, `secure-storage.ts`, `storage-adapters.ts`) | caches, stored items | store, get, delete, rotate, backup | SDK session | caches against user changes and crashes | a cache equals what is stored for the current user |
| Provider, connection state (`core/provider.ts`, `connection-state.ts`) | chain, listeners, status | EIP-1193 requests, `switchChain` | SDK session | two ways to switch chains; events of an old provider | SDK, provider and wallet agree on the chain |
| Chains, RPC (`chains/chain-manager.ts`) | current chain, connections, endpoint index | switch, `call` | wallet | shared endpoint index of concurrent calls | a call succeeds if an endpoint does |
| Smart wallet, AA (`wallet/smart-wallet.ts`, `aa/*`) | cached nonce, deployment flag | build, sign, send, wait | bundler, RPC, API | overlapping operations, timeouts | nonces not reused, wallet deployed once |
| Self-custody recovery (`core/self-custody-recovery.ts`) | composite blob | setup, offline reconstruction | API client | two sharing types | reconstruction returns the key of the wallet |
| External wallet adapters (`adapters/*`) | status, listeners | `connect`, `disconnect` | browser wallets | disconnect during connect, stale listeners | status matches the wallet |
| React provider and hooks (`react/*`) | context state | effects | SDK | an effect that ends after its component | context shows the current SDK |
| Endpoint wrappers, types, UI | none | one request each; rendering | | | |

`PROJECT.json` lists the hazards of this code line by line, with the properties
that cover them.

## Plan

The most important behaviour first: a threshold signature leaving the client.

1. `ThresholdSigning`, `DklsSigning`, `DklsSigningProofs` (done).
2. `WebSocketClient`, `WebSocketClientProofs` (done).
3. `SdkSession`, `SdkSessionProofs`, `SdkSessionOwnerProofs` (done): tokens,
   refresh, login, restore, logout and key material.
4. `WalletKeys`, `WalletKeysProofs` (done): where a user's share is, over key generation of both
   protocols, key manager, storage, backups and page loads.
5. `PrimeField`, `ObliviousMultiplication` over `Multiplication`, `DklsWallet`,
   `PedersenWallet`, `SelfCustody`, joined in `KeyProtocols`, and
   `KeyArithmeticProofs` (done): what the values are, checked over a small field and
   proved for every prime order.
6. `ChainSync`, `RpcEndpoints`, `SmartAccount`, `AccountProofs` (done).
7. `WalletAdapter`, `ReactProvider`, joined with those of step 6 in
   `AccountComponents`, and `FrontEndProofs` (done).
8. Every invariant and action property of a passing run, and both refinements, are
   theorems (see Proofs). What is left is what the prover cannot do: liveness.

The runs are one per stateful module of steps 1 to 4, one for the arithmetic of
step 5 and one for the five components of steps 6 and 7, which share no state;
a liveness run where the safety run's instance is too large; and one run per
finding.

## Modules

### ThresholdSigning

What `DKLSClient.sign()` promises with no protocol in it: a call is opened once
and ends once; at most one signature is issued on its behalf, over its own
message; "signed" is only reported when there is one. A signature may be issued
for a call that already failed: its last request can arrive after the client
gave it up, and no client can prevent that.

### DklsSigning

`Calls` are the `sign()` calls made on one client; each of the client's actions
is the code between two awaits.

| Action | Code in `dkls-client.ts` |
|---|---|
| `Start`, `LookUpSession`, `LoadShare` | `signMessage`/`signTypedData`, then `sign` to its first request |
| `InitReply` | `signingInit` and `signingStoreBackendCommitment` |
| `NonceReply` | `signingProcessBackendNonce`, `initMtAForSigning` |
| `Mta1Reply` | `processMtARound2Response` |
| `Mta2Reply` | `computeClientPartialSignature` |
| `PartialReply` | return, and `finally` |
| `ConflictReply`, `CancelReply` | the `catch` that handles a 409 |
| `RequestRejected` | every other error, and `finally` |

A nonce share, message, backend nonce or MtA share is represented by the
session it belongs to, because the properties ask whether material of different
sessions is mixed. Sessions are pairs of a call and its first or second run of
`executeSigningFlow`, so a session's own message is known. A commitment that
matches a nonce (`verifyCommitment`) and an MtA session id that is echoed are
equalities of sessions: a hash collision and a backend that reveals the nonce
of another session are outside the model.

The backend is external. It is modelled as the client uses it: one session in
progress per key, a 409 on a second `signingInit` that may name it in
`details.activeSessionId`, steps of a session in order, cancellation by id.
`RequestLost` rejects a request before or after it took effect; a request lost
by the client may still be served later (`LateRequest`). `OtherDevice` is a
second client of the user that cancels the session in progress and opens its
own, once, at any moment.

`TransactionCalls` are calls made by `sendTransactionInternal`, which passes an
empty `dkgSessionId` (`nero-sdk.ts:980`) and therefore ends in
`MISSING_DKG_SESSION_ID` whenever a share is stored. The checked instance has
none, since they send no request; the theorems allow any.

Not modelled: a `clearKeyShare` or a key generation during a `sign()`, and
`signMessage`'s hash. What the values are is in `DklsWallet`.

### WebSocketClient

`sock[i]` is the i-th `WebSocket` the client creates, `ws` the current one. A
replaced socket keeps its callbacks, and each callback works on the client's
fields whichever socket it belongs to: this is the source of every hard case.

| Action | Code in `websocket-client.ts` |
|---|---|
| `Connect`, `Disconnect`, `Send` | the methods |
| `SocketOpens` | `onopen`, with `startPingInterval` and `flushMessageQueue` |
| `SocketCloses` | `onclose`, with the application's disconnect handlers, which may call `connect()`, and `scheduleReconnect` |
| `TimerFires` | the callback of `scheduleReconnect` |
| `SocketDrops` | external: the network or the server ends a connection |

`close()` on a connecting socket makes its close event unclean, as browsers do;
on an open one the event is clean unless the peer never answers. Ages of queued
messages are a choice at each flush: timestamps grow along the queue, so the
expired ones are a prefix. `reconnectAttempt` is kept up to the last index of
`RECONNECT_DELAYS`, beyond which the code clamps it; how long a delay is does
not matter to an untimed model.

What the model shows and no property claims, because the code does not keep it:
two sockets can be open at once, an old socket's close event can stop the
current ping interval, and `connect()`'s promise stays pending after a failure
unless a disconnect handler calls `connect()` again.

Not modelled: the dispatch of received messages to handlers and
`waitForMessage`, which nothing in the SDK calls.

### SdkSession

The calls of one `NeroMpcSDK` on one `APIClient`: logins, logouts, authenticated
requests, `getKeyMaterial()` and the `initialize()` of each page. A step is the
code between two awaits of the network, of WebCrypto or of IndexedDB. What runs
in the microtasks of one event is one step: when a refresh is answered, every
call that awaited it sends its own request before anything else happens.

| Action | Code in `nero-sdk.ts`, `transport/api-client.ts` |
|---|---|
| `StartLogin`, `LoginAnswers`, `StoreTokens`, `StoreTokensFails` | the four login methods and `reconnectSession`; `storeTokens` encrypts first, so a logout fits in between, and it may throw with user and tokens already set; then `keyManager.initialize` |
| `StartLogout`, `RevokeAnswers`, `LogoutAnswers` | `logout`: `revoke` if the tokens have a dappShare, then `auth.logout`, then clearing, which `RequestFails` does too |
| `Reload`, `MeAnswers` | a page is closed at any moment; `initialize` in the next one |
| `StartRead`, `ReadAnswers` | any other `request` with `requiresAuth` |
| `StartKey`, `KeyAnswers`, `Decrypted`, `Saved`, `Loaded` | `getKeyMaterial` and the key manager's `storeBackendShare` |
| `RefreshGranted`, `RefreshFails` | the two ends of `refreshAccessToken` |
| `RequestFails` | an error response or none |
| `Age`, `BackendRotates` | time; external: the backend accepts a refresh token once |

Tokens are represented by the login they come from and their rotation, key
material by the user it belongs to. An answer may be lost after the backend
acted on it, also that of a refresh: the client then holds a token the backend
no longer accepts. The retry middleware repeats a request with the headers it
was built with, so a request stands for all its attempts.

What the model shows and no property claims: a refresh that a logout overtakes
puts the tokens back (and one that a login overtakes puts the former user's
tokens under the new user), and refreshed tokens are not stored, so that the
next page presents a used refresh token and drops the session.
`SessionsMixOnlyByRefresh` excepts what a refresh crossed, and the second request
of a logout that a login overlapped.

`LogoutForgets` is about four things: the tokens in memory and in storage, the
user, and the reconstructed key, after a logout that no login, key call or
refresh overlapped. `logout()` (`nero-sdk.ts:696-704`) does not touch the rest, and
it stays: the key manager's user and caches, the stored backend shares, and of the
SDK `_backendShare`, `_partyPublicShares` and `_cachedWalletInfo`. What the caches
do to the next user is in `WalletKeys`; that the backend share stays is a finding
(`BackendShareNotKept`).

`ReloadKeepsUser` is about the tokens that the next page would find. They are
those of the user in memory unless the latest login has its own still to store,
could not store them, or had a login that it overtook store later (`outdated`).
A page closed in that moment, or such a failure, does restore the former user's
session; the code has no guard against it and no document promises one.

Not modelled: failures of storage other than that of `storeTokens()` and, in
`WalletKeys`, those of a generation; calls made before `initialize()` has ended,
and what a login does about the wallet (`WalletKeys`) and the provider
(`ChainSync`).

### PrimeField

Scalars modulo the order and the group they act on. The group is cyclic, so a
point is its discrete logarithm: a multiplication by a scalar is a product,
point addition is a sum, and an equation between points holds exactly when it
does in the curve. The curve library refuses to multiply by 0 and to encode the
identity; in a field of five elements both are frequent, and both are guards
(`Multiplies`, `Encodes`). `ModInverse` is the code's extended Euclidean
algorithm. Hashes are constants: `Challenge` of a tuple, `XCoord` of a point.

### Multiplication, ObliviousMultiplication

`Multiplication` says what a multiplicative-to-additive conversion promises: the
client's share is decided first and without regard to the inputs, and the
backend's completes the product. `ObliviousMultiplication` implements it
(`ImplementsMultiplication`): the four rounds of `mta-protocol.ts` over the
correlated transfers of `oblivious-transfer.ts`, bit by bit.

| Action | Code in `mta-protocol.ts` |
|---|---|
| `MtaAliceRound1` | `mtaAliceRound1`, `batchCOTSenderSetup`, which draws a key for each bit |
| `MtaBobRound2` | `mtaBobRound2`, `otReceiverRespond` for each bit |
| `MtaAliceRound3` | `mtaAliceRound3`: session check, `batchCOTSenderEncrypt`, the client's share |
| `MtaBobRound4` | `mtaBobRound4`: session check, `batchCOTReceiverDecrypt` |

The client may begin another session while messages of the first are on their
way, as the retry after a conflict and the next signature do; an answer is
delivered to whichever session the client is in. A message xored with the
`sha256` of a point is the point added to it: only the same point undoes it.

### DklsWallet

What the DKLS client computes in `crypto.ts`. Key generation: `KeygenInitClient`,
`KeygenProcessBackendCommitment`, `KeygenGenerateReveal`, `KeygenComplete`.
Signing: `SigningInit` to `ComputeClientPartialSignature`, with the two products
taken from `Multiplication`. The backend is what the client checks of it: it may
reveal a point it did not commit to, prove another secret, send a challenge of
its own or answer in the client's name; `sound` records whether it did none of
these. A commitment is the hash of a point and is written as the point. Message
hashes are not reduced by the code, so `Digests` exceed the field.

### PedersenWallet

The legacy protocol, between party 1 (client) and the backend, which says itself
which number it has (`PartyIds`).

| Action | Code |
|---|---|
| `Initiate`, `SubmitCommitment`, `SubmitShare` | `DKGClient.execute` (`dkg-client.ts`) over `polynomial.ts`, `commitments.ts`, `share-exchange.ts` |
| `SigningNonce`, `SubmitNonce`, `SubmitPartial` | `SigningClient.sign` (`signing-client.ts`) over `nonce.ts`, `partial-signature.ts` |

A commitment to a polynomial is, in discrete logarithms, the polynomial. An
encrypted share is the point it is sealed under and the share; it opens under
that key, of which only the x coordinate counts. Any answer of the backend may
be wrong, and `honest` tells whether all were right. Its number and the length
of its commitment (`TheirDegrees`) are answers like any other: the client checks
neither.

What follows from that, and bounds what the properties claim:

* A commitment longer than the threshold passes `verifyVSSSCommitment`
  (`commitments.ts:105`). The key generation completes, and two shares do not
  determine the key; `SharesInterpolate` claims interpolation for at most two
  coefficients.
* A backend that calls itself party 1 has its commitment and its share replaced
  by the client's own (`dkg-client.ts:84`, `92`, `130`); nothing is claimed then.
* A partial signature under a number no commitment came with is not verified
  (`signing-client.ts:85`) and the client submits its own; `AcceptedPartialIsRight`
  is about the others.

What the model shows and no property claims: partial signatures are computed
with the inverse of each party's own nonce, and for R the sum of the nonces
their sum is no ECDSA signature.

### SelfCustody

`setupSelfCustodyRecovery`, `extractClientShare` and `offlineReconstructKey` of
`core/self-custody-recovery.ts`, for both sharing types. The seed is a function
of password, salt and parameters; a sealed box is its key and its content; the
HMAC covers what steers the recovery (seed, sharing type, salt, parameters), and
neither box. Blobs are kept outside the SDK: `BlobDamaged` changes any field,
and `NewWallet` makes the blob one of an earlier wallet.

The comment at line 449 ("backend stored sk_B = fullKey - sk_A") contradicts the
code below it, which computes 2·sk_A − sk_B; the code agrees with the shares
`PedersenWallet` ends with.

### WalletKeys

Where a user's share is. Every value that belongs to a wallet is written as the
user whose wallet it is, because the properties ask whose share is where.

| State | In the code |
|---|---|
| `page` | fields of one `NeroMpcSDK` (`_publicKey`, `_partyPublicShares`, `_wallet`, the DKLS address) and the caches and user of its `ClientKeyManager`; a page load makes a new one |
| `disk` | IndexedDB and `localStorage`: key manager entries with the device key they are encrypted under, device keys, tokens, the one DKLS share |
| `gen` | the running `generateWallet()` |
| `ses` | the running `initialize()`, login, `reconnectSession()` or `importBackup()` |
| `registered` | external: users with a wallet; the backend refuses a second |
| `backup` | an exported file |

| Action | Code |
|---|---|
| `Initialize`, `MeAnswers` | `initialize()`, `loadOrGenerateDeviceKey` |
| `StartLogin` to `KeyManagerInitialized` | logins, `storeTokens`, `keyManager.initialize` |
| `LoadShare`, `LoadPartyShares`, `LoadPublicKey`, `LoadBackendShare`, `LoadDklsShare` | `initializeWallet`, `initializeWalletDKLS` |
| `Generate` to `GenerationAnswered`, `SaveDklsShare`, `StoreShare` to `StoreBackendShare`, `StoreFails` | `generateWallet()` and the key generations |
| `ExportBackup`, `StartImport`, `ImportStored` | `exportBackup()`, `importBackup()` |
| `Logout` | the end of `logout()` |
| `Close` | external: the page is closed at any moment |

`mishap` is a history of what the code does not guard against; each property
names those it excepts, and holds after all the others:

| Mishap | What happened |
|---|---|
| closed, lost, storage | during a generation the page was closed, the last answer was lost, or a write failed |
| unstored | a login's tokens could not be stored: its user is logged in, and the key manager still has the user before |
| unbound | a generation in a session restored by `initialize()`, whose key manager has no user |
| crossed | a generation beside a login, or a logout during either |
| switched | a login while the page holds another user's party shares or address |
| shared | the one DKLS share of the origin is another user's, at a login, a restored session or a generation |
| foreign | another user's backup is imported, or a generation or import runs while the key manager has another user |
| fallback | IndexedDB worked before and does not now |

What the model shows and no property claims: `logout()` leaves the key manager,
`_partyPublicShares` and `_cachedWalletInfo`, and `keyManager.initialize`
replaces the cached key share only, so that the next user of the page gets a
wallet with the first one's party shares ("switched"); with DKLS the next user
is given the first one's share ("shared").

Not modelled: `MemoryStorage`, `deleteKeyShare`, `rotateKeyShare` and
`clearAllData`, which the SDK does not call.

### SmartAccount

User operations of one account in `SmartWallet` and in its public twin
`SimpleAccount`, which ask the same questions in another order (`NonceGate`,
`InitCodeRead`). `account` holds `_isDeployed` and `_cachedNonce`, `op[o]` an
operation and the call chain that makes it. A read is three steps: it begins
(a cached field answers at once), the node answers, the answer is used and kept.
`ReadFails` is a failed request, which `isDeployed()` takes for "no". The bundler
and the EntryPoint are external: an operation is taken or not, the answer may be
lost, and it is executed once, with the nonce and the initCode the chain expects.
`sure` tells which operations have no other one outstanding and no failed read
behind them; `overlap` that a `wait()` ended during another build.

Calldata is modelled in words, numbers apart from payload, with the decoder of
the contract's ABI beside it (`DecodedData`).

What the model shows and no property claims: an operation built before the
receipt of the one before reuses its nonce and its initCode.
`sendTransactionInternal` (`nero-sdk.ts:946-995`) never calls `wait()`, so this would
be what a second `eth_sendTransaction` does. The selector `18dfb3c7` belongs to
`executeBatch(address[],bytes[])`, while three arrays are encoded.

### RpcEndpoints

`RpcConnection.call` of `chain-manager.ts`: a call tries the endpoint at the shared
index and, when that fails, moves the index and tries there, at most as often as
there are endpoints. `Outage` changes which endpoints answer, between calls.
Overlapping calls can step over the endpoint that answers; the property is about
a call that overlaps with none, after any others.

### ChainSync

Which chain the SDK, its chain manager, its providers, its wallet and its
connection status are on.

| Action | Code |
|---|---|
| `SwitchChain`, `SwitchProvider`, `RebuildWallet` or `RebuildNothing`, `WalletInfoArrives` | the four parts of `switchChain()` between its awaits; without a key share the wallet stays as it was |
| `Connect`, `AddChain` | `connect()`, `addChain()` |
| `DappSwitches`, `DappAdds`, `RequestAccounts` | `wallet_switchEthereumChain`, `wallet_addEthereumChain`, `eth_requestAccounts` of any provider made so far |
| `Login`, `LoginInfoArrives`, `Logout`, `DisconnectProvider` | what logins and logouts do about wallet and provider |

Between `SwitchChain` and `SwitchProvider` lies a promise that is already
settled: no event fits in, but another call of the same turn does. `queue` holds
such calls in the order of their microtasks. `mishap` says what may disagree
until the next `switchChain()` that overlaps nothing: everything, after a dapp
switched, a provider refused or there was no key share to rebuild the wallet with;
only the wallet's info, after overlapping calls or a failed request.

What the model shows and no property claims: a chain added before `connect()` is
unknown to the provider, so `switchChain()` throws after the SDK and the manager
have switched; after a logout `eth_requestAccounts` reconnects the old provider
once the next user is logged in; a `switchChain()` that a logout overtakes fails
where it needs the public key.

### WalletAdapter

The three adapters of external wallets. `connect()` is `StartConnect`, `Loaded`,
then `Approved` and `ChainAnswered` (MetaMask, Coinbase) or `Enabled`
(WalletConnect); `StartDisconnect` and `Closed` are `disconnect()`. Nothing keeps
two calls apart, and listeners are never removed: `wallet[p].heard` says which
providers the adapter still hears. `WalletChanges` is external, the user or the
wallet; `astray` names what an old provider or a late answer left wrong, until the
next connection or disconnection.

What the model shows and no property claims: MetaMask's events after
`disconnect()` leave accounts with the status disconnected, and a WalletConnect
`connect()` that another one overlaps can report the other's provider, connected
with no account.

### ReactProvider

`NeroMpcAuthProvider` and the hooks. `NewSdk` is the first effect for a new
configuration, `Commit` the second one, which subscribes to events; the actions
`InitUser`, `InitEnds`, `InitFails` are `initialize()` with the `finally` of the
effect, also for an SDK that was replaced. `Start` is a hook's call, which sets its
flag; `LoginAnswered`, `WalletGenerated`, `LoggedOut` change the SDK and
`Announced`, `GeneratedInfo`, `RequestEnds`, `Fails` end the call. An SDK's state is
whether it has a user, a wallet and its info. The data that some hooks keep
beside, and their errors, are left out.

`missed` says what the context lacks until the next event: the state, if a
replaced SDK's was copied or something changed without an event; the info, since
`generateWallet()` fetches it after its "connected" event. A flag is cleared by the
first of two overlapping calls.

### KeyProtocols, AccountComponents, MC modules

`KeyProtocols` and `AccountComponents` join components that share no state: a
behaviour runs one of them (`running`) and the others stay as they begin, so that a
run checks each over its own state space and never over their product. The MC
modules give the constants their values.

## Runs

| Run | Instance | Shows |
|---|---|---|
| `dkls_signing` | two calls, all failures above | `OneSessionPerPartial`, `AcceptedIsOwn`: signatures never cross calls; `NoNonceLeftBehind`; `FailureHasCause`: a call fails only if something interfered, a session left open by an earlier failure does not count; `CallsSettle`; `ImplementsThresholdSigning` (refinement) |
| `websocket` | four application calls, one network failure, up to five sockets; three messages, a queue of two | `BusyEnds`: the flag that turns `connect()` into a no-op is never stuck; `NeverStranded`, `Recovers`: a wanted connection is being restored, and is restored; `SentOnceInOrder`, `QueuedOnlyOffline` |
| `sdk_session` | two users, two logins, a logout, a request, a key call, one rotation, one reload (symmetric in users and in logins) | `RefreshedOnce`; `SessionsMixOnlyByRefresh`; `LogoutForgets`: a logout that nothing overlaps leaves no token, user or key; `ReloadKeepsUser`: what a reload restores is the user who was logged in, but for what `outdated` names |
| `sdk_calls_end` | one of each | `CallsEnd`, also for calls that wait for another call's refresh |
| `sdk_key_after_logout` | one of each, no request | finding: `KeyOnlyDuringSession` is violated |
| `sdk_key_after_reload` | a login, a key call, a reload | finding: `KeyCallsWork` is violated |
| `sdk_backend_share` | the same | finding: `BackendShareNotKept` is violated |
| `key_arithmetic` | a field of five elements; two multiplication sessions; all secrets and nonces of a key and a signature; two polynomials of a DKG, the backend's of degree 0 to 2, as party 1, 2 or 3; two wallets of a recovery | `SharesMultiply`, `OpensOnlyTheChosen`, `ImplementsMultiplication` (refinement); `KeyIsShared`, `SignatureVerifies`: an accepted key is the product, the assembled s satisfies the ECDSA equation; `SharesInterpolate`, `AcceptedPartialIsRight`; `RecoversTheBackedUpWallet` |
| `pedersen_signing` | the same | finding: `HonestPartialAccepted` is violated |
| `wallet_keys` | two users (symmetric), two pages, four logins, generations or imports, both protocols, new and used devices | `WalletIsOwn`, `StoredIsRegistered`, `ShareKept`, `EntriesOpen`, `LoginRestores` |
| `account` | three operations; two callers over three endpoints; two switches, two providers, a built-in and a custom chain; two adapter calls, two providers; two SDKs, two hook calls | `FreshNonce`, `AloneReachesLive`, `ChainsAgree`, `AdapterTracksWallet`, `ContextCurrent` |
| `account_batch` | the same, with batches of one and two transactions | finding: `BatchDecodes` is violated |

Why the bounds suffice. Two calls already put every step of one between any two
steps of the other, and a third adds no field they could meet on; two runs per
call are all the code makes. Four application calls cover connecting, disconnecting while
connecting, connecting again and one call more: three are enough to refute a
`NeverStranded` without its last case, two are not. The number
of sockets is not an extra bound: each call and each drop leads to at most one
more. Queue size and message count let the queue overflow once and flush twice.
Every property of this run but `Recovers` is also proved without the bounds.
In `SdkSession` two logins are the session before and after a change of user,
and the other kinds of call only meet through the client's fields and storage,
which hold one value each: one call of each kind before, between and after the
logins shows every overwriting. Reads and key calls are the two calls that share
a refresh. One rotation makes a stored token stale; one reload shows what a page
leaves to the next.

The arithmetic has no case that depends on the size of the order: the equations
are identities over a field, and a formula that is wrong is wrong for some values
of a small one too. Five is the smallest prime order with a scalar that is not its
own inverse, and its three bits make a transfer batch with a first, a middle and a
last one. The values drawn are those of the
whole field where a value decides alone (DKLS secrets and
nonces, the backend's Pedersen shares and partials), and a few where any will do or many
are combined (nonces of proofs and of Pedersen signatures, keys and pads of the
transfers). The coefficients of a DKG are 1 and 4, which is -1: sums of two
and three of them reach every element, 0 included, and the longest commitment has
one coefficient more than a threshold of 2 needs. Three party numbers are the
client's own, the backend's and one that no commitment came from. A field of five
makes the cases that never happen in a field of 2^256, a product or a sum of 0,
frequent: that is where guards are seen. In `WalletKeys` a second user's login and
generation after the first one's are four calls, and one page load shows what a
page leaves. In `SmartAccount` three operations are two that overlap and one
after both. Three endpoints are needed for an index that two calls move past one
that answers, and four requests for two that overlap and one after them. In
`ChainSync`, `WalletAdapter` and `ReactProvider` an old and a current provider or
SDK, and two calls, are all that can meet on a field.

Deadlock is not checked: all calls may have ended, and all bounds may be used up.

Fairness. `DklsSigning`: the continuation of a settled promise runs, and a
request is answered or fails (`fetch` rejects at the latest when the connection
is closed). Nobody has to start a call or deliver a late request.
`WebSocketClient`: a connecting socket opens or fails, a closing one reports it,
a timeout fires; the environment's failures are bounded by `MaxDrops`, and the
liveness property is about what follows them. `SdkSession`: a request is answered
or fails and local operations end; the backend need not grant anything and
nobody has to start a call. The other modules state safety only and no fairness.

Findings. Each violated run is a disagreement with a document or a test.

* `src/integration.md:291`: "The private key exists in browser memory only for the duration of
  the session". `getKeyMaterial()` writes its cache after several awaits; a
  `logout()` in between has cleared it, and the key is back with nobody logged
  in, where the next user's call finds it.
* `src/integration.md:176`: "The `getKeyMaterial()` call works regardless of whether the wallet
  was just created or already existed." After `initialize()` has restored a
  session the key manager has no user, because only the login methods call
  `keyManager.initialize()`, and the call throws `USER_NOT_INITIALIZED`.
* `src/integration.md:295`: "The backend share is never stored on the client beyond the
  reconstruction step". `getKeyMaterial()` stores it through the key manager
  (`nero-sdk.ts:538`, `client-key-manager.ts:93`) before it reconstructs, and nothing
  removes it, neither the reconstruction nor `logout()`.
* `src/README.md:134` offers the Pedersen protocol, and
  `partial-signature.test.ts:68` verifies a partial against the signer's key share
  times G. `getPartyPublicShares()` (`dkg-client.ts:202`) hands out the commitment to
  the party's constant term instead, and the partial of an honest backend is
  rejected.
* `aa-components.test.ts:182`: "should calculate correct bytes[] offsets in
  executeBatch". The offsets of both classes (`smart-wallet.ts:423`,
  `simple-account.ts:272`) start one word too far, and the test expects them to; a
  decoder finds other words than the calls' data.

## Proofs

Every invariant and action property that a passing run checks is a theorem, and so
are both refinements. The theorems hold for every value of the constants that
satisfies the named assumptions of the modules, all of which TLC evaluates:

| Module | Assumptions it uses | What they say |
|---|---|---|
| `DklsSigningProofs` | `CallsAssumption` | sessions differ from null and from a foreign one |
| `WebSocketClientProofs` | `BoundsAssumption` | the bounds are numbers |
| `SdkSessionProofs`, `SdkSessionOwnerProofs` | `CallsAssumption`, `NoneIsNoToken` | kinds of call are disjoint; null is no token |
| `WalletKeysProofs` | `WalletKeysAssumption` | null is no user, the bounds are numbers |
| `AccountProofs`, `FrontEndProofs` | `RpcAssumption`, `OpsAssumption`, `ChainAssumption`, `AdapterAssumption`, `ReactAssumption` | bounds are numbers, null is none of the values; a connection has an endpoint |
| `KeyArithmeticProofs` | `FieldAssumption`, `BitsAssumption`, `NoneAssumption`, `DigestAssumption`, `SeedAssumption`, `NothingAssumption`, `PedersenAssumption` | the order has no zero divisors and is below 2^SCALAR_BITS; hashes and seeds are scalars; the powers of two, which the provers do not know; null is none of the values |

The arguments, with the inductive invariant of each and why the property alone is
not inductive (TLC was asked about the harder ones before they were proved).

**DklsSigning.**

* `TypeCorrect`. `TypeInv` adds to the types that only `signingInit` meets a
  conflict and that a cancel belongs to the first run; without this the attempt
  counter could not be bounded by two.
* `PartialsAreCoherent`, `NoncesAreReleased`. `FieldInv` says how the two
  fields agree with each other: once a nonce is combined, the MtA state beside
  it has the same owner, because `NonceReply` writes both in one step and every
  other write resets one of them. The invariant is about the fields only; which
  call reads them does not matter.
* `AcceptedPartialsAreOwn`. Coherence is not enough: a call could read another
  call's complete state and sign the wrong message. `SessionInv` adds the
  backend: while a call runs in the active session, the fields hold no other
  call's combined nonce (`Exclusive`) and no other call holds an answer that
  would combine one. The backend serves steps of the active session only, so the
  partial of the active session is its own (`PartialOfActive`). `GivenUp` says
  that a late request belongs to the run its call ended in.
* `SigningImplementsPromise` (refinement of `ThresholdSigning`, step by step). What
  needs an invariant is that the abstract signature is issued once: a call has two
  runs, and late requests of both may still arrive. `IssueInv` says that only the
  last run of a call is ever completed (`LastRunOnly`), not before its last request is
  served (`NotYetServed`), that an answered last request and a reported signature
  were served (`ServedOnce`) and that a given-up one that may still arrive was not
  (`LatePartials`).
* `FailuresHaveCauses`. `CauseInv` says what a call that nothing disturbed can rely
  on: it runs alone (`RunsAlone`), and fields and backend are where its own last step
  left them (`Undisturbed`). A conflict can then only come from a session left open
  before the call began, which the cancel of the first run ends.

**WebSocketClient.**

* `BusyAlwaysEnds`, `ConnectionIsRestored`, `QueueIsFlushed`. `ConnInv` ties
  `isConnecting` to what clears it: the current socket is connecting or failing,
  or there is none and some socket's failure is still to be reported
  (`BusyMeans`). That is what makes the early return of `connect()` harmless.
* `MessagesAreInOrder`. `OutboxInv` says that what was sent, then what is queued,
  is increasing and below the next message. A direct send keeps that only because
  nothing is queued while the socket is open, which is `QueuedOnlyOffline`.
* `TypesKept`.

**SdkSession.**

* `TypeCorrect`; `TokensAreRefreshedOnce`. `RefreshInv` says that every token the
  client holds was issued (`AllIssued`: its rotation is not ahead of the backend's),
  that the tokens in memory and those being presented are not among those already
  answered (`Unspent`), and that a granted refresh will bring tokens ahead of
  all of their login that were answered (`GrantedAhead`). The single
  `refreshPromise` alone would not do: it says nothing about the next refresh.
* `SessionsStayApart`. The property speaks of tokens in memory and in headers;
  `OwnerInv` follows them on their way. A call that joins a refresh of the tokens
  in memory will send the refreshed ones (`OwnRefreshes`), a logout between its
  two requests will send whatever is in memory (`OwnLogouts`), so it must not have
  met a login (`Overlaps`). `initialize()` takes its user from the answer to its
  request, which is right because nothing else runs (`Booting`).
* `LogoutsForget`. That the tokens, the user and the key are gone is not inductive by
  itself: a pending refresh, login or `getKeyMaterial()` brings one of them back. With
  the second half of the property, that none is under way (`Lingers`), it is, because
  none can begin without a login.
* `ReloadsKeepTheUser`. Between a login's answer and its `storeTokens` the stored
  tokens are the former user's. `KeepInv` follows the tokens of a login until they
  are stored (`Storing`: those of the latest are the user's) and those that
  `initialize()` reads back (`Restoring`).

**WalletKeys.** `TypesKept`; `StoredSharesAreRegistered` (`RegisteredInv`);
`EntriesStayReadable` (`KeyInv`: unless a page had to fall back on another key,
every entry and the page are under the key that the next page will find, also half way through
the move of the key to IndexedDB); `WalletOfTheUser` (`OwnInv`: page, disk
and the calls under way agree on whose share they hold, unless a mishap that the
property names has happened); `SharesAreKept` (`KeptInv`: what a generation has stored
before each of its writes); `LoginsRestore` (`RestoreInv`, on top of the other
four: without a mishap, and with no step of a restore under way, the page of a
user whose key manager is ready has the wallet).

**Account.** `LoneCallsReachLive`: a call that is alone has tried exactly the
endpoints between its first and its current index, and none of them is live
(`RpcInv`, with a small theory of rotations). `OperationsAreFresh`: fields and answers
under way are what the chain has, unless there is an execution that no `wait()` has
seen; then no build is sure (`AccountInv`). `OneChainWhenIdle`: the queue holds the
calls at their provider, each once (`Queued`), the last of them decides the chain
(`LastDecides`), and without a mishap one call runs at a time (`OneAtATime`). The
proof found two overlapping arms in the model's choice of the next read
(`StepsAfter`), which are in order now.

**Front end.** `AdapterShowsItsWallet`: an adapter never shows a provider it does not
hear (`ProvidersHeard`). `ContextFollowsTheSdk`: `ReactInv` says that hooks call
SDKs the provider has subscribed to, that the SDKs of later configurations are
untouched, and that the context shows the state of the current SDK unless an event
of it has still to be heard (`Follows`). `ComponentTypesKept`: `TypesOK` of
`AccountComponents`, for a finite set of operations; it needs that the nonce
counts the operations that were executed and that no cached, answered or built nonce is ahead of it (`NonceInv`).

**Key arithmetic**, for every prime order and not for the small field only.

* The prover has induction for single formulas but not with a formula as a
  parameter, so `KeyArithmeticProofs` does induction over sets of numbers
  (`LeastElement`, `Induction`, `SubsetInduction`) and derives from it: Euclid's
  algorithm returns the inverse (`InverseIsInverse`), a sum over a finite set does
  not depend on the order in which it is taken (`TakeOut`, `SumsCombine`), and the bits
  of a number make the number (`BitsMakeTheNumber`).
* `OneMessageOpens`, `SharesAreOfTheProduct`, `SessionsImplementConversion` (refinement
  of `Multiplication`): `MtaInv` and `ShareInv` say that an answer on its way is to the
  keys of its session, which are drawn once, and that the messages and the share of
  round 3 are made from it.
* `BothPartiesHaveTheKey`, `PartialsMakeASignature`: `KeygenInv`, `SigningInv` collect what
  the parties have drawn and computed; the rest is algebra.
* `AcceptedPartialsAreRight`, `AcceptedSharesInterpolate`: Lagrange coefficients of two
  parties with any two numbers, one solution of the check of a share, and the sum of
  two lines at the two numbers. What the code accepts beyond that (a longer commitment, a
  second party 1, a partial of an unknown party) is in the model and excepted in the
  statements.
* `RecoveryIsOfTheBackedUpWallet`: the HMAC binds password and sharing type of a blob
  (`MacBindsTheBlob`), whatever field of it is damaged.
* `ProtocolTypesKept`: `TypesOK` of `KeyProtocols`.

Two of these have a hypothesis. `AcceptedKeysAreShared` assumes `ProofsBind` and
`AcceptedSharesInterpolate` assumes `CommitmentsBind`: a Schnorr proof does not verify
against another point than its prover's, and a sealed share opens under its own key
only. Both are what the hash and the key agreement are trusted with; for a real hash
they hold up to a negligible probability, which a model without probabilities can
only state as a hypothesis. TLC evaluates both for the hash of the checked instance
(`MCBinding`). What does not rest on them is stated without them: that both parties
compute the same public key and an honest backend is not refused
(`BothPartiesHaveTheKey`), that accepted partials are right, and that partials make a
signature.

Model-checked only: `CallsSettle`, `Recovers` and `CallsEnd`. They are liveness under
fairness, which the prover's temporal backend does not reach (it has no rule for
`ENABLED`). The five findings are counterexamples, which need no proof.

## Not modelled

Endpoint wrappers (one request per method, which appears as the request of the
operation that uses it), rendering, type declarations, errors and configuration
tables have no state to model. Of the components that are modelled, these parts
are left out, each also said in its section:

* the variant of the multiplication with a consistency check
  (`mta-protocol.ts:304-398`), which the client does not use;
* dispatch of received WebSocket messages and `waitForMessage`;
* key manager operations the SDK does not call, and `MemoryStorage`;
* the provider's signing requests and what it forwards to the RPC endpoint: one
  call to a component that is modelled, and no state;
* gas prices, user operation hashes and EIP-712 encoding, which no property
  tells apart;
* the delays and limits of the retry middleware and of polling;
* MFA, factors, profile and audit log: requests without state, and the copies
  that hooks keep of their answers.
