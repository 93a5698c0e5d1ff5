---------------------------- MODULE WalletAdapter ----------------------------
(***************************************************************************)
(* An adapter of an external wallet: adapters/base-adapter.ts and the       *)
(* adapters of MetaMask, WalletConnect and Coinbase.                        *)
(*                                                                         *)
(* connect() asks the wallet in several awaits and attaches its listeners  *)
(* after the last answer; nothing keeps two calls, or a connect() and a     *)
(* disconnect(), apart.  Listeners are never removed: a provider that was   *)
(* replaced or disconnected is still heard.                                *)
(***************************************************************************)
EXTENDS Integers

CONSTANTS Accounts, Networks,   \* what a wallet can be on
          AdapterCalls,                \* connect() and disconnect() calls
          MaxOpened,            \* bound: provider objects
          Nobody                \* no account, no chain

\* MetaMask's provider is there before any other.
ASSUME AdapterAssumption ==
    MaxOpened \in Nat \ {0} /\ Nobody \notin Accounts /\ Nobody \notin Networks

VARIABLES
    kind,      \* which adapter it is
    adapter,   \* its status, account, chain and provider (0: null)
    handle,    \* ethereumProvider or coinbaseWallet (0: null)
    wallet,    \* wallet[p]: what the wallet shows to the provider p, and whether p is heard
    call,      \* call[c]: the call c
    opened,    \* how many providers were made
    astray     \* history: what of the adapter an answer or another provider left wrong

adapterVars == <<kind, adapter, handle, wallet, call, opened, astray>>

Openable == 1 .. MaxOpened
None0(S) == S \cup {Nobody}
NoCall == [step |-> "idle", provider |-> 0, account |-> Nobody]
Disconnected == [status |-> "disconnected", account |-> Nobody, chain |-> Nobody, provider |-> 0]

AdapterTypeOK ==
    /\ kind \in {"metamask", "walletconnect", "coinbase"}
    /\ adapter \in [status : {"disconnected", "connecting", "connected", "errored"},
                    account : None0(Accounts), chain : None0(Networks), provider : 0 .. MaxOpened]
    /\ handle \in 0 .. MaxOpened /\ opened \in 0 .. MaxOpened
    /\ wallet \in [Openable -> [account : None0(Accounts), chain : Networks, heard : BOOLEAN]]
    /\ call \in [AdapterCalls -> [step : {"idle", "load", "enable", "accounts", "chain", "closing"},
                           provider : 0 .. MaxOpened, account : None0(Accounts)]]
    /\ astray \subseteq {"account", "chain"}

\* MetaMask is one provider of the page; the others make one in connect().
AdapterInit ==
    /\ kind \in {"metamask", "walletconnect", "coinbase"}
    /\ adapter = Disconnected /\ handle = 0
    /\ \E n \in Networks :
          wallet = [p \in Openable |-> [account |-> Nobody, chain |-> n, heard |-> FALSE]]
    /\ call = [c \in AdapterCalls |-> NoCall]
    /\ opened = IF kind = "metamask" THEN 1 ELSE 0
    /\ astray = {}

-----------------------------------------------------------------------------

\* What the adapter does with the events of a provider it hears.
\* handleDisconnect(), and a mutant that keeps the provider.
KeepProvider == adapter' = [Disconnected EXCEPT !.provider = adapter.provider] /\ astray' = {}
HandleDisconnect == adapter' = Disconnected /\ astray' = {}

Wrong(what, p) == IF p = adapter.provider THEN astray \ {what} ELSE astray \cup {what}

\* setAccounts(): no account is a disconnect.
AccountsChanged(p, a) ==
    /\ wallet' = [wallet EXCEPT ![p].account = a]
    /\ IF ~wallet[p].heard THEN UNCHANGED <<adapter, astray>>
       ELSE IF a = Nobody THEN HandleDisconnect
       ELSE adapter' = [adapter EXCEPT !.account = a] /\ astray' = Wrong("account", p)

ChainChanges(p, n) ==
    /\ wallet' = [wallet EXCEPT ![p].chain = n]
    /\ IF ~wallet[p].heard THEN UNCHANGED <<adapter, astray>>
       ELSE adapter' = [adapter EXCEPT !.chain = n] /\ astray' = Wrong("chain", p)

\* The user changes the account or the chain in the wallet, or the wallet ends
\* the connection.
WalletChanges(p) ==
    /\ p <= opened
    /\ \/ \E a \in None0(Accounts) : a # wallet[p].account /\ AccountsChanged(p, a)
       \/ \E n \in Networks : n # wallet[p].chain /\ ChainChanges(p, n)
       \/ /\ wallet[p].heard /\ HandleDisconnect
          /\ wallet' = [wallet EXCEPT ![p].account =
                           IF kind = "metamask" THEN wallet[p].account ELSE Nobody]
    /\ UNCHANGED <<kind, handle, call, opened>>

\* switchChain() of the adapter, for the provider it holds on to.
SwitchNetwork ==
    LET p == CASE kind = "metamask"      -> 1
               [] kind = "walletconnect" -> handle
               [] kind = "coinbase"      -> adapter.provider
    IN  /\ p # 0
        /\ \E n \in Networks : n # wallet[p].chain /\ ChainChanges(p, n)
        /\ UNCHANGED <<kind, handle, call, opened>>

-----------------------------------------------------------------------------

\* connect(), to its first await: MetaMask is asked for accounts, or its SDK is
\* loaded, as the code of the other two is.
StartConnect(c) ==
    /\ call[c].step = "idle"
    /\ adapter' = [adapter EXCEPT !.status = "connecting"]
    /\ \/ call' = [call EXCEPT ![c].step = "load"]
       \/ /\ kind = "metamask"
          /\ call' = [call EXCEPT ![c].step = "accounts", ![c].provider = 1]
    /\ UNCHANGED <<kind, handle, wallet, opened, astray>>

\* The library is there: MetaMask's provider, or a new one.
Loaded(c) ==
    /\ call[c].step = "load"
    /\ IF kind = "metamask"
       THEN /\ call' = [call EXCEPT ![c].step = "accounts", ![c].provider = 1]
            /\ UNCHANGED <<opened, handle>>
       ELSE /\ opened < MaxOpened /\ opened' = opened + 1 /\ handle' = opened'
            /\ call' = [call EXCEPT ![c].provider = opened',
                          ![c].step = IF kind = "walletconnect" THEN "enable" ELSE "accounts"]
    /\ UNCHANGED <<kind, adapter, wallet, astray>>

\* The user approves an account, which the wallet reports to those who hear it.
Approved(c) ==
    /\ call[c].step = "accounts"
    /\ \E a \in Accounts :
          /\ IF a = wallet[call[c].provider].account THEN UNCHANGED <<wallet, adapter, astray>>
             ELSE AccountsChanged(call[c].provider, a)
          /\ call' = [call EXCEPT ![c].step = "chain", ![c].account = a]
    /\ UNCHANGED <<kind, handle, opened>>

\* The provider is set, listened to and connected (handleConnect()).
HandleConnect(p, a) ==
    /\ adapter' = [status |-> "connected", account |-> a, chain |-> wallet[p].chain, provider |-> p]

\* The chain arrives last; the account may be another one by now.
ChainAnswered(c) ==
    /\ call[c].step = "chain"
    /\ LET p == call[c].provider
           a == call[c].account
       IN  /\ HandleConnect(p, a)
           /\ wallet' = [wallet EXCEPT ![p].heard = TRUE]
           /\ astray' = IF a = wallet[p].account THEN {} ELSE {"account"}
    /\ call' = [call EXCEPT ![c] = NoCall]
    /\ UNCHANGED <<kind, handle, opened>>

\* WalletConnect's session is approved.  connect() then reads the provider the
\* adapter holds by now: another connect() may have replaced it, a disconnect()
\* cleared it, which is an error.
Enabled(c) ==
    /\ call[c].step = "enable"
    /\ \E a \in Accounts :
          LET p == call[c].provider
              approved == [wallet EXCEPT ![p].account = a]
          IN  IF handle # 0
              THEN /\ HandleConnect(handle, approved[handle].account)
                   /\ wallet' = [approved EXCEPT ![handle].heard = TRUE] /\ astray' = {}
              ELSE /\ wallet' = approved
                   /\ IF wallet[p].heard /\ a # wallet[p].account
                      THEN /\ adapter' = [adapter EXCEPT !.status = "errored", !.account = a]
                           /\ astray' = Wrong("account", p)
                      ELSE /\ adapter' = [adapter EXCEPT !.status = "errored"]
                           /\ UNCHANGED astray
    /\ call' = [call EXCEPT ![c] = NoCall]
    /\ UNCHANGED <<kind, handle, opened>>

\* handleError(): a request is refused or fails.
ConnectFails(c) ==
    /\ call[c].step \in {"load", "enable", "accounts", "chain"}
    /\ adapter' = [adapter EXCEPT !.status = "errored"]
    /\ call' = [call EXCEPT ![c] = NoCall]
    /\ UNCHANGED <<kind, handle, wallet, opened, astray>>

\* disconnect(): at once, or after the provider's own disconnect(), which may
\* fire its event, or may fail.
StartDisconnect(c) ==
    /\ call[c].step = "idle"
    /\ \/ handle = 0 /\ HandleDisconnect /\ UNCHANGED <<call, wallet>>
       \/ /\ handle # 0
          /\ call' = [call EXCEPT ![c].step = "closing", ![c].provider = handle]
          /\ \/ /\ wallet[handle].heard /\ HandleDisconnect
                /\ wallet' = [wallet EXCEPT ![handle].account = Nobody]
             \/ UNCHANGED <<adapter, astray, wallet>>
    /\ UNCHANGED <<kind, handle, opened>>

Closed(c) ==
    /\ call[c].step = "closing"
    /\ handle' = 0 /\ HandleDisconnect
    /\ \E a \in {wallet[call[c].provider].account, Nobody} :
          wallet' = [wallet EXCEPT ![call[c].provider].account = a]
    /\ call' = [call EXCEPT ![c] = NoCall]
    /\ UNCHANGED <<kind, opened>>

AdapterNext ==
    \/ \E p \in Openable : WalletChanges(p)
    \/ SwitchNetwork
    \/ \E c \in AdapterCalls :
          StartConnect(c) \/ Loaded(c) \/ Approved(c) \/ ChainAnswered(c) \/ Enabled(c)
          \/ ConnectFails(c) \/ StartDisconnect(c) \/ Closed(c)

AdapterSpec == AdapterInit /\ [][AdapterNext]_adapterVars

-----------------------------------------------------------------------------

\* A connected adapter has a provider.  With one it shows the account and the
\* chain the wallet shows to that provider, without one it shows none: except,
\* until the next connection or disconnection, what a provider it no longer uses
\* has announced, and an account that was changed between its answer and the
\* listeners (metamask-adapter.ts:57).
AdapterTracksWallet ==
    /\ adapter.status = "connected" => adapter.provider # 0
    /\ adapter.provider # 0 =>
          /\ "account" \notin astray => adapter.account = wallet[adapter.provider].account
          /\ "chain" \notin astray => adapter.chain = wallet[adapter.provider].chain
    /\ adapter.provider = 0 =>
          /\ "account" \notin astray => adapter.account = Nobody
          /\ "chain" \notin astray => adapter.chain = Nobody
==============================================================================
