------------------------------- MODULE ChainSync -------------------------------
(***************************************************************************)
(* Which chain the parts of the SDK are on: nero-sdk.ts with its chain     *)
(* manager (chains/chain-manager.ts), its EIP-1193 provider                *)
(* (core/provider.ts), its smart wallet and its connection status          *)
(* (core/connection-state.ts), for a Pedersen wallet.                      *)
(*                                                                         *)
(* switchChain() changes the parts one after the other, with awaits in     *)
(* between; a dapp can switch the provider, also one that connect() has    *)
(* replaced.  A chain is built in, or was added by the application         *)
(* (addChain) to the SDK, its manager and the provider of that moment, or  *)
(* by a dapp to the provider alone.                                        *)
(***************************************************************************)
EXTENDS Integers, Sequences

CONSTANTS BuiltIn, Custom,   \* chain ids
          Switches,          \* switchChain() calls
          MaxProviders,      \* bound: connect() calls that make a provider
          NoChain

Chains == BuiltIn \cup Custom

ASSUME ChainAssumption == MaxProviders \in Nat /\ NoChain \notin Chains

VARIABLES
    sdk,        \* _chainId, _customChains, whose provider and wallet, status
    manager,    \* the chain manager's currentChainId (its custom chains are the SDK's)
    providers,  \* providers[i]: the i-th provider, or NoChain
    switch,     \* switch[s]: the switchChain() call s
    queue,      \* the calls whose next step is already scheduled, which is first come first served
    fetching,   \* the chain of the wallet whose info a login waits for, or NoChain
    mishap      \* history: what may disagree until the next switch ("info": only the wallet's info)

chainVars == <<sdk, manager, providers, switch, queue, fetching, mishap>>

Providers == 1 .. MaxProviders
Statuses == {"disconnected", "connecting", "connected", "errored"}
Optional(S) == S \cup {NoChain}

Idle == [step |-> "idle", target |-> NoChain, built |-> NoChain]

Exists(i) == providers[i] # NoChain
Provider == providers[sdk.provider]

ChainTypeOK ==
    /\ sdk \in [chainId : Chains, custom : SUBSET Custom, provider : 0 .. MaxProviders,
                wallet : Optional([chainId : Chains, rpc : Chains]),
                walletInfo : Optional(Chains), status : Statuses, loggedIn : BOOLEAN]
    /\ manager \in Chains
    /\ providers \in [Providers -> Optional([chainId : Chains, custom : SUBSET Custom,
                                             connected : BOOLEAN])]
    /\ switch \in [Switches -> [step : {"idle", "provider", "key", "info"},
                                target : Optional(Chains), built : Optional(Chains)]]
    /\ queue \in Seq(Switches) /\ fetching \in Optional(Chains)
    /\ mishap \in {"none", "info", "chain"}

ChainInit ==
    /\ \E c \in BuiltIn :
          /\ sdk = [chainId |-> c, custom |-> {}, provider |-> 0,
                    wallet |-> [chainId |-> c, rpc |-> c], walletInfo |-> c,
                    status |-> "disconnected", loggedIn |-> TRUE]
          /\ manager = c
    /\ providers = [i \in Providers |-> NoChain]
    /\ switch = [s \in Switches |-> Idle]
    /\ queue = <<>> /\ fetching = NoChain
    /\ mishap = "none"

\* A chain that may disagree includes the wallet's info.
InfoMayBeStale == IF mishap = "chain" THEN "chain" ELSE "info"

\* VALID_TRANSITIONS; an invalid one is reported and changes nothing.
Allowed(from) ==
    CASE from = "disconnected" -> {"connecting"}
      [] from = "connecting"   -> {"connected", "errored"}
      [] from = "connected"    -> {"disconnected", "errored"}
      [] from = "errored"      -> {"connecting", "disconnected"}
Transition(from, to) == IF to \in Allowed(from) THEN to ELSE from

\* createSmartWallet(): the chain of the SDK over the connection of the manager.
SmartWalletOf(chainId, managed) == [chainId |-> chainId, rpc |-> managed]

-----------------------------------------------------------------------------

\* connect(): a provider of the SDK's chain, which knows the built-in ones only.
Connect ==
    /\ sdk.loggedIn /\ sdk.wallet # NoChain /\ sdk.provider < MaxProviders
    /\ LET i == sdk.provider + 1
       IN  /\ providers' = [providers EXCEPT ![i] =
                 [chainId |-> sdk.chainId, custom |-> {}, connected |-> TRUE]]
           /\ sdk' = [sdk EXCEPT !.provider = i, !.status =
                 Transition(Transition(@, "connecting"), "connected")]
    /\ UNCHANGED <<manager, switch, queue, fetching, mishap>>

\* addChain() of the SDK.
AddChain(c) ==
    /\ c \notin sdk.custom
    /\ sdk' = [sdk EXCEPT !.custom = @ \cup {c}]
    /\ providers' = IF sdk.provider = 0 THEN providers
                    ELSE [providers EXCEPT ![sdk.provider].custom = Provider.custom \cup {c}]
    /\ UNCHANGED <<manager, switch, queue, fetching, mishap>>

Running(s) == switch[s] # Idle
Busy == fetching # NoChain \/ \E s \in Switches : Running(s)

\* switchChain(), to its first await: an unknown chain is refused at once.
\* Mutant: the manager is not switched.
SwitchSdkOnly(s) ==
    /\ ~Running(s)
    /\ \E c \in BuiltIn \cup sdk.custom :
          /\ sdk' = [sdk EXCEPT !.chainId = c]
          /\ switch' = [switch EXCEPT ![s].step = "provider", ![s].target = c]
    /\ queue' = Append(queue, s)
    /\ mishap' = IF Busy THEN InfoMayBeStale ELSE "none"
    /\ UNCHANGED <<manager, providers, fetching>>

SwitchChain(s) ==
    /\ ~Running(s)
    /\ \E c \in BuiltIn \cup sdk.custom :
          /\ sdk' = [sdk EXCEPT !.chainId = c]
          /\ manager' = c
          /\ switch' = [switch EXCEPT ![s].step = "provider", ![s].target = c]
    /\ queue' = Append(queue, s)
    /\ mishap' = IF Busy THEN InfoMayBeStale ELSE "none"
    /\ UNCHANGED <<providers, fetching>>

\* What provider.switchChain() does to the provider, and onChainChanged to the
\* SDK if that is another chain than the provider's.
SwitchedProvider(i, c) == [providers EXCEPT ![i].chainId = c]
ChainChanged(i, c) == IF providers[i].chainId # c THEN [sdk EXCEPT !.chainId = c] ELSE sdk
Knows(i, c) == c \in BuiltIn \cup providers[i].custom

\* The provider is switched next; one that does not know the chain throws.
\* Without a wallet the call is done.
SwitchProvider(s) ==
    /\ queue # <<>> /\ s = Head(queue) /\ queue' = Tail(queue)
    /\ LET i == sdk.provider
           c == switch[s].target
           refused == i # 0 /\ ~Knows(i, c)
       IN  /\ switch' = [switch EXCEPT ![s] =
                 IF refused \/ sdk.wallet = NoChain THEN Idle ELSE [@ EXCEPT !.step = "key"]]
           /\ IF i # 0 /\ Knows(i, c)
              THEN providers' = SwitchedProvider(i, c) /\ sdk' = ChainChanged(i, c)
              ELSE UNCHANGED <<providers, sdk>>
           /\ mishap' = IF refused THEN "chain" ELSE mishap
    /\ UNCHANGED <<manager, fetching>>

\* With the key share, the wallet is built for the chain of this moment; after
\* a logout there is no public key to build it with.
RebuildWallet(s) ==
    /\ switch[s].step = "key"
    /\ IF sdk.wallet = NoChain
       THEN switch' = [switch EXCEPT ![s] = Idle] /\ UNCHANGED sdk
       ELSE /\ sdk' = [sdk EXCEPT !.wallet = SmartWalletOf(sdk.chainId, manager)]
            /\ switch' = [switch EXCEPT ![s].step = "info", ![s].built = sdk.chainId]
    /\ UNCHANGED <<manager, providers, queue, fetching, mishap>>

\* There is no key share, as for a user who logged in over another one's session,
\* or reading it throws: the wallet stays what it was.
RebuildNothing(s) ==
    /\ switch[s].step = "key" /\ sdk.wallet # NoChain
    /\ switch' = [switch EXCEPT ![s] = Idle]
    /\ mishap' = "chain"
    /\ UNCHANGED <<sdk, manager, providers, queue, fetching>>

\* getWalletInfo() of that wallet arrives, or its request fails.
WalletInfoArrives(s) ==
    /\ switch[s].step = "info" /\ switch' = [switch EXCEPT ![s] = Idle]
    /\ \/ sdk' = [sdk EXCEPT !.walletInfo = switch[s].built] /\ UNCHANGED mishap
       \/ mishap' = InfoMayBeStale /\ UNCHANGED sdk
    /\ UNCHANGED <<manager, providers, queue, fetching>>

\* wallet_switchEthereumChain of a provider, the current or an old one.
DappSwitches(i) ==
    /\ Exists(i)
    /\ \E c \in Chains :
          /\ Knows(i, c) /\ c # providers[i].chainId
          /\ providers' = SwitchedProvider(i, c) /\ sdk' = ChainChanged(i, c)
    /\ mishap' = "chain"
    /\ UNCHANGED <<manager, switch, queue, fetching>>

\* wallet_addEthereumChain.
DappAdds(i) ==
    /\ Exists(i)
    /\ \E c \in Custom :
          /\ c \notin providers[i].custom
          /\ providers' = [providers EXCEPT ![i].custom = providers[i].custom \cup {c}]
    /\ UNCHANGED <<sdk, manager, switch, queue, fetching, mishap>>

\* eth_requestAccounts connects a provider as long as there is an account.
RequestAccounts(i) ==
    /\ Exists(i) /\ sdk.wallet # NoChain /\ ~providers[i].connected
    /\ providers' = [providers EXCEPT ![i].connected = TRUE]
    /\ UNCHANGED <<sdk, manager, switch, queue, fetching, mishap>>

\* logout() after its requests, and the rest of it after clearStoredTokens():
\* the provider, the chain and the wallet's info stay.
Logout ==
    /\ sdk.loggedIn
    /\ sdk' = [sdk EXCEPT !.loggedIn = FALSE, !.wallet = NoChain, !.status = "disconnected"]
    /\ mishap' = IF Busy THEN InfoMayBeStale ELSE mishap
    /\ UNCHANGED <<manager, providers, switch, queue, fetching>>

DisconnectProvider ==
    /\ ~sdk.loggedIn /\ sdk.provider # 0 /\ Provider.connected
    /\ providers' = [providers EXCEPT ![sdk.provider].connected = FALSE]
    /\ UNCHANGED <<sdk, manager, switch, queue, fetching, mishap>>

\* A login whose initializeWallet() finds the wallet.
Login ==
    /\ ~sdk.loggedIn /\ fetching = NoChain
    /\ sdk' = [sdk EXCEPT !.loggedIn = TRUE, !.wallet = SmartWalletOf(sdk.chainId, manager)]
    /\ fetching' = sdk.chainId
    /\ mishap' = IF Busy THEN InfoMayBeStale ELSE mishap
    /\ UNCHANGED <<manager, providers, switch, queue>>

\* getWalletInfo() of the login arrives, or its failure is swallowed.
LoginInfoArrives ==
    /\ fetching # NoChain /\ fetching' = NoChain
    /\ \/ sdk' = [sdk EXCEPT !.walletInfo = fetching] /\ UNCHANGED mishap
       \/ mishap' = InfoMayBeStale /\ UNCHANGED sdk
    /\ UNCHANGED <<manager, providers, switch, queue>>

ChainNext ==
    \/ Connect \/ \E c \in Custom : AddChain(c)
    \/ \E s \in Switches :
          \/ SwitchChain(s) \/ SwitchProvider(s) \/ RebuildWallet(s) \/ RebuildNothing(s)
          \/ WalletInfoArrives(s)
    \/ \E i \in Providers : DappSwitches(i) \/ DappAdds(i) \/ RequestAccounts(i)
    \/ Logout \/ DisconnectProvider \/ Login \/ LoginInfoArrives

ChainSpec == ChainInit /\ [][ChainNext]_chainVars

-----------------------------------------------------------------------------

\* Once no switchChain() and no login is running, the manager, the current
\* provider, the wallet and its RPC connection are on the SDK's chain, and the
\* wallet's info is of that chain (nero-sdk.ts:782).  Excepted are, until the next
\* switchChain(): everything, after a provider did not know the chain, a dapp
\* switched one or there was no key share to rebuild the wallet with; the info,
\* after calls that overlapped, a failed request, or a logout before it arrived.
ChainsAgree ==
    ~Busy /\ mishap # "chain" =>
        /\ manager = sdk.chainId
        /\ sdk.provider # 0 => Provider.chainId = sdk.chainId
        /\ sdk.wallet # NoChain => sdk.wallet = SmartWalletOf(sdk.chainId, sdk.chainId)
        /\ mishap = "none" /\ sdk.wallet # NoChain => sdk.walletInfo = sdk.chainId
===============================================================================
