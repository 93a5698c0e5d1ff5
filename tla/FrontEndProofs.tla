---------------------------- MODULE FrontEndProofs ----------------------------
(***************************************************************************)
(* Theorems about WalletAdapter and ReactProvider, for any number of       *)
(* accounts, networks, providers, configurations and calls.                *)
(***************************************************************************)
EXTENDS AccountComponents, AccountProofs

-----------------------------------------------------------------------------
(* WalletAdapter.                                                           *)

\* A provider that a call waits for, that is held or that is shown exists, and the
\* one that is shown is heard.
ProvidersHeard ==
    /\ \A c \in AdapterCalls :
          call[c].step \in {"enable", "accounts", "chain", "closing"} =>
              call[c].provider \in Openable
    /\ adapter.provider # 0 => wallet[adapter.provider].heard

AdapterInv == AdapterTypeOK /\ ProvidersHeard /\ AdapterTracksWallet

LEMMA AdapterInitial == AdapterInit => AdapterInv
<1> SUFFICES ASSUME AdapterInit PROVE AdapterInv
  OBVIOUS
<1>1. AdapterTypeOK
  <2>1. opened \in 0 .. MaxOpened /\ 0 \in 0 .. MaxOpened
    BY AdapterAssumption DEF AdapterInit
  <2>. QED
    BY <2>1 DEF AdapterInit, AdapterTypeOK, Disconnected, NoCall, None0
<1>. QED
  BY <1>1 DEF AdapterInit, AdapterInv, ProvidersHeard, AdapterTracksWallet, Disconnected, NoCall

\* A provider that announces an account.
LEMMA AccountsStep ==
    ASSUME AdapterInv, NEW p \in Openable, NEW a \in None0(Accounts), AccountsChanged(p, a),
           UNCHANGED <<kind, handle, opened>>
    PROVE  /\ adapter' \in [status : {"disconnected", "connecting", "connected", "errored"},
                    account : None0(Accounts), chain : None0(Networks), provider : 0 .. MaxOpened]
           /\ wallet' \in [Openable -> [account : None0(Accounts), chain : Networks,
                                        heard : BOOLEAN]]
           /\ astray' \subseteq {"account", "chain"}
           /\ adapter'.provider # 0 => wallet'[adapter'.provider].heard
           /\ AdapterTracksWallet'
<1> USE AdapterAssumption DEF AdapterInv, AdapterTypeOK, ProvidersHeard
<1>1. /\ wallet' \in [Openable -> [account : None0(Accounts), chain : Networks, heard : BOOLEAN]]
      /\ \A q \in Openable : /\ wallet'[q].chain = wallet[q].chain
                             /\ wallet'[q].heard = wallet[q].heard
                             /\ wallet'[q].account = IF q = p THEN a ELSE wallet[q].account
  BY DEF AccountsChanged
<1>2. adapter.provider \in 0 .. MaxOpened /\ (adapter.provider # 0 => adapter.provider \in Openable)
  BY DEF Openable
<1>3. CASE ~wallet[p].heard
  BY <1>1, <1>2, <1>3 DEF AccountsChanged, AdapterTracksWallet
<1>4. CASE wallet[p].heard /\ a = Nobody
  BY <1>1, <1>4 DEF AccountsChanged, HandleDisconnect, Disconnected, AdapterTracksWallet, None0
<1>5. CASE wallet[p].heard /\ a # Nobody
  <2>1. adapter' = [adapter EXCEPT !.account = a] /\ astray' = Wrong("account", p)
    BY <1>5 DEF AccountsChanged
  <2>2. /\ adapter' \in [status : {"disconnected", "connecting", "connected", "errored"},
                        account : None0(Accounts), chain : None0(Networks),
                        provider : 0 .. MaxOpened]
        /\ adapter'.account = a /\ adapter'.chain = adapter.chain
        /\ adapter'.status = adapter.status /\ adapter'.provider = adapter.provider
    BY <2>1 DEF None0
  <2>3. /\ astray' \subseteq {"account", "chain"}
        /\ "chain" \in astray' <=> "chain" \in astray
        /\ "account" \notin astray' => p = adapter.provider
    BY <2>1 DEF Wrong
  <2>4. AdapterTracksWallet'
    <3>1. CASE adapter.provider = 0
      BY <1>2, <2>2, <2>3, <3>1 DEF AdapterTracksWallet, Openable
    <3>2. CASE adapter.provider # 0
      BY <1>1, <1>2, <2>2, <2>3, <3>2 DEF AdapterTracksWallet
    <3>. QED
      BY <3>1, <3>2
  <2>. QED
    BY <1>1, <1>2, <2>2, <2>3, <2>4
<1>. QED
  BY <1>3, <1>4, <1>5

LEMMA NetworkStep ==
    ASSUME AdapterInv, NEW p \in Openable, NEW n \in Networks, ChainChanges(p, n),
           UNCHANGED <<kind, handle, opened>>
    PROVE  /\ adapter' \in [status : {"disconnected", "connecting", "connected", "errored"},
                    account : None0(Accounts), chain : None0(Networks), provider : 0 .. MaxOpened]
           /\ wallet' \in [Openable -> [account : None0(Accounts), chain : Networks,
                                        heard : BOOLEAN]]
           /\ astray' \subseteq {"account", "chain"}
           /\ adapter'.provider # 0 => wallet'[adapter'.provider].heard
           /\ AdapterTracksWallet'
<1> USE AdapterAssumption DEF AdapterInv, AdapterTypeOK, ProvidersHeard
<1>1. /\ wallet' \in [Openable -> [account : None0(Accounts), chain : Networks, heard : BOOLEAN]]
      /\ \A q \in Openable : /\ wallet'[q].account = wallet[q].account
                             /\ wallet'[q].heard = wallet[q].heard
                             /\ wallet'[q].chain = IF q = p THEN n ELSE wallet[q].chain
  BY DEF ChainChanges
<1>2. adapter.provider \in 0 .. MaxOpened /\ (adapter.provider # 0 => adapter.provider \in Openable)
  BY DEF Openable
<1>3. CASE ~wallet[p].heard
  BY <1>1, <1>2, <1>3 DEF ChainChanges, AdapterTracksWallet
<1>4. CASE wallet[p].heard
  <2>1. adapter' = [adapter EXCEPT !.chain = n] /\ astray' = Wrong("chain", p)
    BY <1>4 DEF ChainChanges
  <2>2. /\ adapter' \in [status : {"disconnected", "connecting", "connected", "errored"},
                        account : None0(Accounts), chain : None0(Networks),
                        provider : 0 .. MaxOpened]
        /\ adapter'.chain = n /\ adapter'.account = adapter.account
        /\ adapter'.status = adapter.status /\ adapter'.provider = adapter.provider
    BY <2>1 DEF None0
  <2>3. /\ astray' \subseteq {"account", "chain"}
        /\ "account" \in astray' <=> "account" \in astray
        /\ "chain" \notin astray' => p = adapter.provider
    BY <2>1 DEF Wrong
  <2>4. AdapterTracksWallet'
    <3>1. CASE adapter.provider = 0
      BY <1>2, <2>2, <2>3, <3>1 DEF AdapterTracksWallet, Openable
    <3>2. CASE adapter.provider # 0
      BY <1>1, <1>2, <2>2, <2>3, <3>2 DEF AdapterTracksWallet
    <3>. QED
      BY <3>1, <3>2
  <2>. QED
    BY <1>1, <1>2, <2>2, <2>3, <2>4
<1>. QED
  BY <1>3, <1>4

\* HandleDisconnect shows nothing, of no provider.
LEMMA DisconnectStep ==
    ASSUME HandleDisconnect
    PROVE  /\ adapter' \in [status : {"disconnected", "connecting", "connected", "errored"},
                    account : None0(Accounts), chain : None0(Networks), provider : 0 .. MaxOpened]
           /\ astray' \subseteq {"account", "chain"}
           /\ adapter'.provider = 0
           /\ AdapterTracksWallet'
<1>1. adapter' = Disconnected /\ 0 \in 0 .. MaxOpened
  BY AdapterAssumption DEF HandleDisconnect
<1>. QED
  BY <1>1 DEF HandleDisconnect, Disconnected, AdapterTracksWallet, None0

\* A provider becomes the one that is shown.
LEMMA ConnectStep ==
    ASSUME AdapterInv, NEW p \in Openable, NEW a \in None0(Accounts),
           NEW shown \in [Openable -> [account : None0(Accounts), chain : Networks,
                                       heard : BOOLEAN]],
           adapter' = [status |-> "connected", account |-> a, chain |-> shown[p].chain,
                       provider |-> p],
           wallet' = [shown EXCEPT ![p].heard = TRUE],
           astray' = IF a = shown[p].account THEN {} ELSE {"account"}
    PROVE  /\ adapter' \in [status : {"disconnected", "connecting", "connected", "errored"},
                    account : None0(Accounts), chain : None0(Networks), provider : 0 .. MaxOpened]
           /\ wallet' \in [Openable -> [account : None0(Accounts), chain : Networks,
                                        heard : BOOLEAN]]
           /\ astray' \subseteq {"account", "chain"}
           /\ wallet'[adapter'.provider].heard
           /\ AdapterTracksWallet'
<1>1. p \in 0 .. MaxOpened /\ p # 0
  BY DEF Openable
<1>2. /\ wallet' \in [Openable -> [account : None0(Accounts), chain : Networks, heard : BOOLEAN]]
      /\ wallet'[p].chain = shown[p].chain /\ wallet'[p].account = shown[p].account
      /\ wallet'[p].heard
  OBVIOUS
<1>3. /\ adapter' \in [status : {"disconnected", "connecting", "connected", "errored"},
                    account : None0(Accounts), chain : None0(Networks), provider : 0 .. MaxOpened]
      /\ adapter'.provider = p /\ adapter'.account = a /\ adapter'.chain = shown[p].chain
  BY <1>1, <1>2 DEF None0
<1>4. /\ astray' \subseteq {"account", "chain"} /\ "chain" \notin astray'
      /\ "account" \notin astray' => a = shown[p].account
  OBVIOUS
<1>. QED
  BY <1>1, <1>2, <1>3, <1>4 DEF AdapterTracksWallet

LEMMA AdapterStep == AdapterInv /\ [AdapterNext]_adapterVars => AdapterInv'
<1> SUFFICES ASSUME AdapterInv, [AdapterNext]_adapterVars PROVE AdapterInv'
  OBVIOUS
<1> USE AdapterAssumption DEF AdapterInv, AdapterTypeOK
<1>0. /\ Openable \subseteq 0 .. MaxOpened /\ 0 \in 0 .. MaxOpened /\ 0 \notin Openable
      /\ \A p \in 0 .. MaxOpened : p # 0 => p \in Openable
      /\ 1 \in Openable /\ Nobody \in None0(Accounts) /\ Accounts \subseteq None0(Accounts)
  BY DEF Openable, None0
<1>c. ASSUME NEW p \in Openable, NEW a \in None0(Accounts), AccountsChanged(p, a),
             UNCHANGED <<kind, handle, opened, call>>
      PROVE  AdapterInv'
  BY <1>c, AccountsStep DEF ProvidersHeard
<1>n. ASSUME NEW p \in Openable, NEW n \in Networks, ChainChanges(p, n),
             UNCHANGED <<kind, handle, opened, call>>
      PROVE  AdapterInv'
  BY <1>n, NetworkStep DEF ProvidersHeard
<1>1. ASSUME NEW p \in Openable, WalletChanges(p) PROVE AdapterInv'
  <2>1. CASE wallet[p].heard /\ HandleDisconnect
             /\ wallet' = [wallet EXCEPT ![p].account =
                              IF kind = "metamask" THEN wallet[p].account ELSE Nobody]
    <3>1. wallet' \in [Openable -> [account : None0(Accounts), chain : Networks, heard : BOOLEAN]]
      BY <1>0, <2>1
    <3>. QED
      BY <1>1, <2>1, <3>1, DisconnectStep DEF WalletChanges, ProvidersHeard
  <2>. QED
    BY <1>c, <1>n, <1>1, <2>1 DEF WalletChanges
<1>2. ASSUME SwitchNetwork PROVE AdapterInv'
  <2> DEFINE p == CASE kind = "metamask"      -> 1
                    [] kind = "walletconnect" -> handle
                    [] kind = "coinbase"      -> adapter.provider
  <2>1. p \in Openable
    BY <1>0, <1>2 DEF SwitchNetwork
  <2> HIDE DEF p
  <2>2. PICK n \in Networks : ChainChanges(p, n)
    BY <1>2 DEF SwitchNetwork, p
  <2>. QED
    BY <1>2, <1>n, <2>1, <2>2 DEF SwitchNetwork
\* A call that waits for another provider.
<1>w. ASSUME NEW c \in AdapterCalls, NEW p \in Openable, NEW step \in {"accounts", "closing"},
             call' = [call EXCEPT ![c].step = step, ![c].provider = p]
      PROVE  /\ call' \in [AdapterCalls ->
                        [step : {"idle", "load", "enable", "accounts", "chain", "closing"},
                         provider : 0 .. MaxOpened, account : None0(Accounts)]]
             /\ \A d \in AdapterCalls :
                  call'[d].step \in {"enable", "accounts", "chain", "closing"} =>
                      call'[d].provider \in Openable
  <2>1. p \in 0 .. MaxOpened
    BY <1>0
  <2> DEFINE Calls == [step : {"idle", "load", "enable", "accounts", "chain", "closing"},
                       provider : 0 .. MaxOpened, account : None0(Accounts)]
             f == [call EXCEPT ![c].step = step]
  <2>2. call' = [f EXCEPT ![c].provider = p]
    BY <1>w
  <2>3. /\ f \in [AdapterCalls -> Calls] /\ f[c].step = step
        /\ \A d \in AdapterCalls : d # c => f[d] = call[d]
    OBVIOUS
  <2> HIDE DEF f
  <2>4. /\ call' \in [AdapterCalls -> Calls]
        /\ call'[c].step = step /\ call'[c].provider = p
        /\ \A d \in AdapterCalls : d # c => call'[d] = call[d]
    BY <2>1, <2>2, <2>3
  <2>. QED
    BY <2>4 DEF ProvidersHeard
<1>3. ASSUME NEW c \in AdapterCalls, StartConnect(c) PROVE AdapterInv'
  <2>1. /\ adapter' = [adapter EXCEPT !.status = "connecting"]
        /\ UNCHANGED <<kind, handle, wallet, opened, astray>>
    BY <1>3 DEF StartConnect
  <2>2. /\ call' \in [AdapterCalls ->
                        [step : {"idle", "load", "enable", "accounts", "chain", "closing"},
                         provider : 0 .. MaxOpened, account : None0(Accounts)]]
        /\ \A d \in AdapterCalls :
              call'[d].step \in {"enable", "accounts", "chain", "closing"} =>
                  call'[d].provider \in Openable
    <3>1. CASE call' = [call EXCEPT ![c].step = "load"]
      BY <1>0, <3>1 DEF ProvidersHeard
    <3>2. CASE call' = [call EXCEPT ![c].step = "accounts", ![c].provider = 1]
      BY <1>0, <1>w, <3>2
    <3>. QED
      BY <1>3, <3>1, <3>2 DEF StartConnect
  <2>. QED
    BY <2>1, <2>2 DEF ProvidersHeard, AdapterTracksWallet
<1>4. ASSUME NEW c \in AdapterCalls, Loaded(c) PROVE AdapterInv'
  <2>1. handle' \in 0 .. MaxOpened /\ opened' \in 0 .. MaxOpened
    BY <1>0, <1>4 DEF Loaded
  <2>2. /\ call' \in [AdapterCalls ->
                        [step : {"idle", "load", "enable", "accounts", "chain", "closing"},
                         provider : 0 .. MaxOpened, account : None0(Accounts)]]
        /\ \A d \in AdapterCalls :
              call'[d].step \in {"enable", "accounts", "chain", "closing"} =>
                  call'[d].provider \in Openable
    <3>1. CASE kind = "metamask"
      BY <1>0, <1>4, <3>1 DEF Loaded, ProvidersHeard
    <3>2. CASE kind # "metamask"
      <4>1. opened' \in Openable
        BY <1>4, <3>2 DEF Loaded, Openable
      <4>. QED
        BY <1>0, <1>4, <3>2, <4>1 DEF Loaded, ProvidersHeard
    <3>. QED
      BY <3>1, <3>2
  <2>. QED
    BY <1>4, <2>1, <2>2 DEF Loaded, ProvidersHeard, AdapterTracksWallet
\* Calls that are over, or whose provider does not change, wait for one that exists.
<1>k. ASSUME NEW c \in AdapterCalls,
             \/ call' = [call EXCEPT ![c] = NoCall]
             \/ /\ call[c].step = "accounts"
                /\ \E a \in Accounts : call' = [call EXCEPT ![c].step = "chain", ![c].account = a]
             \/ call' = [call EXCEPT ![c].step = "closing", ![c].provider = handle] /\ handle # 0
             \/ UNCHANGED call
      PROVE  /\ call' \in [AdapterCalls ->
                        [step : {"idle", "load", "enable", "accounts", "chain", "closing"},
                         provider : 0 .. MaxOpened, account : None0(Accounts)]]
             /\ \A d \in AdapterCalls :
                  call'[d].step \in {"enable", "accounts", "chain", "closing"} =>
                      call'[d].provider \in Openable
  <2>1. CASE call' = [call EXCEPT ![c] = NoCall]
    BY <1>0, <2>1 DEF NoCall, ProvidersHeard
  <2>2. ASSUME NEW a \in Accounts, call[c].step = "accounts",
               call' = [call EXCEPT ![c].step = "chain", ![c].account = a]
        PROVE  /\ call' \in [AdapterCalls ->
                        [step : {"idle", "load", "enable", "accounts", "chain", "closing"},
                         provider : 0 .. MaxOpened, account : None0(Accounts)]]
               /\ \A d \in AdapterCalls :
                    call'[d].step \in {"enable", "accounts", "chain", "closing"} =>
                        call'[d].provider \in Openable
    BY <1>0, <2>2 DEF ProvidersHeard
  <2>3. CASE call' = [call EXCEPT ![c].step = "closing", ![c].provider = handle] /\ handle # 0
    BY <1>0, <1>w, <2>3
  <2>4. CASE UNCHANGED call
    BY <2>4 DEF ProvidersHeard
  <2>. QED
    BY <1>k, <2>1, <2>2, <2>3, <2>4
<1>5. ASSUME NEW c \in AdapterCalls, Approved(c) PROVE AdapterInv'
  <2>1. PICK a \in Accounts :
           /\ \/ AccountsChanged(call[c].provider, a)
              \/ UNCHANGED <<wallet, adapter, astray>>
           /\ call' = [call EXCEPT ![c].step = "chain", ![c].account = a]
    BY <1>5 DEF Approved
  <2>2. call[c].step = "accounts" /\ call[c].provider \in Openable /\ a \in None0(Accounts)
        /\ UNCHANGED <<kind, handle, opened>>
    BY <1>0, <1>5 DEF Approved, ProvidersHeard
  <2>3. CASE AccountsChanged(call[c].provider, a)
    BY <1>k, <2>1, <2>2, <2>3, AccountsStep DEF ProvidersHeard
  <2>4. CASE UNCHANGED <<wallet, adapter, astray>>
    BY <1>k, <2>1, <2>2, <2>4 DEF ProvidersHeard, AdapterTracksWallet
  <2>. QED
    BY <2>1, <2>3, <2>4
<1>6. ASSUME NEW c \in AdapterCalls, ChainAnswered(c) PROVE AdapterInv'
  <2>1. call[c].provider \in Openable /\ call[c].account \in None0(Accounts)
    BY <1>6 DEF ChainAnswered, ProvidersHeard
  <2>2. /\ adapter' = [status |-> "connected", account |-> call[c].account,
                       chain |-> wallet[call[c].provider].chain, provider |-> call[c].provider]
        /\ wallet' = [wallet EXCEPT ![call[c].provider].heard = TRUE]
        /\ astray' = IF call[c].account = wallet[call[c].provider].account THEN {}
                     ELSE {"account"}
        /\ call' = [call EXCEPT ![c] = NoCall] /\ UNCHANGED <<kind, handle, opened>>
    BY <1>6 DEF ChainAnswered, HandleConnect
  <2>. QED
    BY <1>k, <2>1, <2>2, ConnectStep DEF ProvidersHeard
<1>7. ASSUME NEW c \in AdapterCalls, Enabled(c) PROVE AdapterInv'
  <2> DEFINE p == call[c].provider
             approved(a) == [wallet EXCEPT ![p].account = a]
  <2>1. p \in Openable /\ call' = [call EXCEPT ![c] = NoCall] /\ UNCHANGED <<kind, handle, opened>>
    BY <1>7 DEF Enabled, ProvidersHeard
  <2>2. CASE handle # 0
    <3>1. PICK a \in Accounts :
            /\ HandleConnect(handle, approved(a)[handle].account)
            /\ wallet' = [approved(a) EXCEPT ![handle].heard = TRUE] /\ astray' = {}
      BY <1>7, <2>2 DEF Enabled
    <3> DEFINE shown == approved(a)
    <3>2. /\ shown \in [Openable -> [account : None0(Accounts), chain : Networks, heard : BOOLEAN]]
          /\ handle \in Openable /\ shown[handle].account \in None0(Accounts)
          /\ shown[handle].chain = wallet[handle].chain
      BY <1>0, <2>1, <2>2
    <3> HIDE DEF shown
    <3>3. /\ adapter' = [status |-> "connected", account |-> shown[handle].account,
                         chain |-> shown[handle].chain, provider |-> handle]
          /\ wallet' = [shown EXCEPT ![handle].heard = TRUE]
          /\ astray' = IF shown[handle].account = shown[handle].account THEN {}
                       ELSE {"account"}
      BY <3>1, <3>2 DEF HandleConnect, shown
    <3>. QED
      BY <1>k, <2>1, <3>2, <3>3, ConnectStep DEF ProvidersHeard
  <2>3. CASE handle = 0
    <3>1. PICK a \in Accounts :
            /\ wallet' = [wallet EXCEPT ![p].account = a]
            /\ IF wallet[p].heard /\ a # wallet[p].account
               THEN /\ adapter' = [adapter EXCEPT !.status = "errored", !.account = a]
                    /\ astray' = Wrong("account", p)
               ELSE /\ adapter' = [adapter EXCEPT !.status = "errored"]
                    /\ UNCHANGED astray
      BY <1>7, <2>3 DEF Enabled
    <3>2. /\ wallet' \in [Openable -> [account : None0(Accounts), chain : Networks, heard : BOOLEAN]]
          /\ \A q \in Openable : /\ wallet'[q].chain = wallet[q].chain
                                 /\ wallet'[q].heard = wallet[q].heard
                                 /\ wallet'[q].account = IF q = p THEN a ELSE wallet[q].account
      BY <1>0, <2>1, <3>1
    <3>3. CASE wallet[p].heard /\ a # wallet[p].account
      <4>1. /\ adapter' \in [status : {"disconnected", "connecting", "connected", "errored"},
                             account : None0(Accounts), chain : None0(Networks),
                             provider : 0 .. MaxOpened]
            /\ adapter'.account = a /\ adapter'.chain = adapter.chain
            /\ adapter'.status = "errored" /\ adapter'.provider = adapter.provider
        BY <1>0, <3>1, <3>3
      <4>2. /\ astray' \subseteq {"account", "chain"}
            /\ "chain" \in astray' <=> "chain" \in astray
            /\ "account" \notin astray' => p = adapter.provider
        BY <3>1, <3>3 DEF Wrong
      <4>3. AdapterTracksWallet'
        <5>1. CASE adapter.provider = 0
          BY <1>0, <2>1, <4>1, <4>2, <5>1 DEF AdapterTracksWallet
        <5>2. CASE adapter.provider # 0
          BY <1>0, <3>2, <4>1, <4>2, <5>2 DEF AdapterTracksWallet
        <5>. QED
          BY <5>1, <5>2
      <4>. QED
        BY <1>0, <1>k, <2>1, <3>2, <4>1, <4>2, <4>3 DEF ProvidersHeard
    <3>4. CASE ~(wallet[p].heard /\ a # wallet[p].account)
      <4>1. /\ adapter' \in [status : {"disconnected", "connecting", "connected", "errored"},
                             account : None0(Accounts), chain : None0(Networks),
                             provider : 0 .. MaxOpened]
            /\ adapter'.account = adapter.account /\ adapter'.chain = adapter.chain
            /\ adapter'.status = "errored" /\ adapter'.provider = adapter.provider
            /\ astray' = astray
        BY <3>1, <3>4
      <4>2. adapter.provider # 0 =>
               wallet'[adapter.provider].account = wallet[adapter.provider].account
        BY <1>0, <3>2, <3>4 DEF ProvidersHeard
      <4>3. AdapterTracksWallet'
        BY <1>0, <3>2, <4>1, <4>2 DEF AdapterTracksWallet
      <4>. QED
        BY <1>0, <1>k, <2>1, <3>2, <4>1, <4>3 DEF ProvidersHeard
    <3>. QED
      BY <3>3, <3>4
  <2>. QED
    BY <2>2, <2>3
<1>8. ASSUME NEW c \in AdapterCalls, ConnectFails(c) PROVE AdapterInv'
  <2>1. /\ adapter' = [adapter EXCEPT !.status = "errored"]
        /\ call' = [call EXCEPT ![c] = NoCall]
        /\ UNCHANGED <<kind, handle, wallet, opened, astray>>
    BY <1>8 DEF ConnectFails
  <2>. QED
    BY <1>k, <2>1 DEF ProvidersHeard, AdapterTracksWallet
<1>9. ASSUME NEW c \in AdapterCalls, StartDisconnect(c) PROVE AdapterInv'
  <2>1. /\ UNCHANGED <<kind, handle, opened>>
        /\ \/ UNCHANGED call
           \/ call' = [call EXCEPT ![c].step = "closing", ![c].provider = handle] /\ handle # 0
    BY <1>9 DEF StartDisconnect
  <2>2. CASE HandleDisconnect
    <3>1. wallet' \in [Openable -> [account : None0(Accounts), chain : Networks, heard : BOOLEAN]]
      BY <1>0, <1>9 DEF StartDisconnect
    <3>. QED
      BY <1>k, <2>1, <2>2, <3>1, DisconnectStep DEF ProvidersHeard
  <2>3. CASE UNCHANGED <<adapter, astray, wallet>>
    BY <1>k, <2>1, <2>3 DEF ProvidersHeard, AdapterTracksWallet
  <2>. QED
    BY <1>9, <2>2, <2>3 DEF StartDisconnect
<1>10. ASSUME NEW c \in AdapterCalls, Closed(c) PROVE AdapterInv'
  <2>1. call[c].provider \in Openable /\ HandleDisconnect /\ handle' = 0
        /\ call' = [call EXCEPT ![c] = NoCall] /\ UNCHANGED <<kind, opened>>
    BY <1>10 DEF Closed, ProvidersHeard
  <2>2. wallet' \in [Openable -> [account : None0(Accounts), chain : Networks, heard : BOOLEAN]]
    BY <1>0, <1>10, <2>1 DEF Closed
  <2>. QED
    BY <1>0, <1>k, <2>1, <2>2, DisconnectStep DEF ProvidersHeard
<1>11. ASSUME UNCHANGED adapterVars PROVE AdapterInv'
  BY <1>11 DEF adapterVars, ProvidersHeard, AdapterTracksWallet
<1>. QED
  BY <1>1, <1>2, <1>3, <1>4, <1>5, <1>6, <1>7, <1>8, <1>9, <1>10, <1>11 DEF AdapterNext

\* A connected adapter has a provider and shows what that provider's wallet shows,
\* except for what astray records, however the answers, events and calls of any
\* number of connect() and disconnect() calls interleave (base-adapter.ts).
THEOREM AdapterShowsItsWallet == AdapterSpec => []AdapterTracksWallet
<1>1. AdapterInv => AdapterTracksWallet
  BY DEF AdapterInv
<1>. QED
  BY <1>1, AdapterInitial, AdapterStep, PTL DEF AdapterSpec

-----------------------------------------------------------------------------
(* ReactProvider.                                                           *)

\* A call that has changed the SDK i, and whose event is still to come.
Unannounced(i) ==
    \E c \in HookCalls :
        hookCall[c].step = "changed" /\ hookCall[c].kind # "generate" /\ hookCall[c].sdk = i

\* What the context shows of the SDK i, when nothing is left to announce.
Shows(i) ==
    /\ ~context.loading
    /\ context.state.user = sdks[i].state.user /\ context.state.wallet = sdks[i].state.wallet
    /\ missed = "nothing" => context.state.info = sdks[i].state.info

\* The context follows its SDK from the end of initialize() on.
Follows ==
    LET i == context.sdk
    IN  i # 0 /\ sdks[i].init = "ended" =>
           /\ ~context.loading
           /\ ~Unannounced(i) /\ missed # "state" => Shows(i)

\* Calls are made on an SDK that is subscribed to; the SDKs of later configurations
\* are untouched.
ReactInv ==
    /\ ReactTypeOK
    /\ subscribed <= context.sdk
    /\ \A c \in HookCalls : hookCall[c].sdk <= subscribed
    /\ \A c \in HookCalls : hookCall[c].step # "idle" => hookCall[c].sdk \in Sdks
    /\ \A i \in Sdks : i > context.sdk => sdks[i].state = Fresh /\ sdks[i].init = "none"
    /\ Follows
    /\ \A k \in Kinds : flag[k] => \E c \in HookCalls : hookCall[c].kind = k

LEMMA ReactInitial == ReactInit => ReactInv
<1> SUFFICES ASSUME ReactInit PROVE ReactInv
  OBVIOUS
<1>0. 0 \in 0 .. MaxSdks
  BY ReactAssumption
<1>1. ReactTypeOK
  BY <1>0 DEF ReactInit, ReactTypeOK, Fresh, States, NoHookCall, Kinds
<1>. QED
  BY <1>1 DEF ReactInit, ReactInv, Follows, NoHookCall, Kinds, Sdks

LEMMA ReactShown == ReactInv => ContextCurrent
<1> SUFFICES ASSUME ReactInv PROVE ContextCurrent
  OBVIOUS
<1>1. \A k \in Kinds : flag[k] => \E c \in HookCalls : hookCall[c].kind = k
  BY DEF ReactInv
<1>2. ASSUME context.sdk # 0, subscribed = context.sdk, sdks[context.sdk].init = "ended",
             ~Pending(context.sdk), missed # "state"
      PROVE  /\ ~context.loading
             /\ context.state = [sdks[context.sdk].state EXCEPT
                    !.info = IF missed = "info" THEN context.state.info
                             ELSE sdks[context.sdk].state.info]
  <2>1. context.sdk \in Sdks /\ sdks[context.sdk].state \in States /\ context.state \in States
        /\ missed \in {"nothing", "info", "state"}
    BY <1>2 DEF ReactInv, ReactTypeOK, Sdks
  <2>2. ~Unannounced(context.sdk)
    BY <1>2 DEF Unannounced, Pending
  <2>3. Shows(context.sdk)
    BY <1>2, <2>2 DEF ReactInv, Follows
  <2>. QED
    BY <1>2, <2>1, <2>3 DEF Shows, States
<1>. QED
  BY <1>1, <1>2 DEF ContextCurrent

LEMMA ReactStep == ReactInv /\ [ReactNext]_reactVars => ReactInv'
<1> SUFFICES ASSUME ReactInv, [ReactNext]_reactVars PROVE ReactInv'
  OBVIOUS
<1> USE ReactAssumption DEF ReactInv, Follows, ReactTypeOK, Sdks
<1>0. Fresh \in States /\ 0 \in 0 .. MaxSdks
  BY DEF Fresh, States
<1>1. ASSUME NEW a \in BOOLEAN, NewSdk(a) PROVE ReactInv'
  <2>1. context.sdk + 1 \in Sdks /\ context.sdk + 1 \in 0 .. MaxSdks
    BY <1>1 DEF NewSdk
  <2>i. PICK i \in Sdks : i = context.sdk + 1
    BY <2>1
  <2>2. /\ context'.sdk = i /\ context'.loading = a
        /\ context'.state = IF a THEN context.state ELSE Fresh
        /\ context' \in [sdk : 0 .. MaxSdks, state : States, loading : BOOLEAN]
        /\ missed' = IF a THEN "state" ELSE "nothing"
        /\ UNCHANGED <<subscribed, hookCall, flag>>
    BY <1>0, <1>1, <2>1, <2>i DEF NewSdk
  <2>3. /\ sdks' \in [Sdks -> [init : {"none", "tokens", "wallet", "ended"}, state : States]]
        /\ \A j \in Sdks : sdks'[j].state = sdks[j].state
        /\ \A j \in Sdks : j # i => sdks'[j] = sdks[j]
        /\ sdks'[i].init = IF a THEN "tokens" ELSE "ended"
    BY <1>1, <2>1, <2>i DEF NewSdk
  <2>4. ~a => Shows(i)'
    <3>1. sdks[i].state = Fresh
      BY <2>i
    <3>. QED
      BY ONLY <3>1, <2>2, <2>3 DEF Shows, Fresh
  <2>5. ReactTypeOK' /\ subscribed' <= context'.sdk
    BY <2>1, <2>i, <2>2, <2>3
  <2>6. \A j \in Sdks : j > context'.sdk => sdks'[j].state = Fresh /\ sdks'[j].init = "none"
    BY <2>i, <2>2, <2>3
  <2>7. sdks'[i].init = "ended" => ~a
    BY <2>3
  <2>. QED
    BY <2>2, <2>4, <2>5, <2>6, <2>7
<1>2. ASSUME Commit PROVE ReactInv'
  BY <1>2 DEF Commit, Unannounced, Shows
<1>3. ASSUME NEW i \in Sdks, InitUser(i) PROVE ReactInv'
  <2>1. /\ sdks' \in [Sdks -> [init : {"none", "tokens", "wallet", "ended"}, state : States]]
        /\ \A j \in Sdks : j # i => sdks'[j] = sdks[j]
        /\ sdks'[i].init = "wallet" /\ sdks[i].init = "tokens"
    BY <1>3 DEF InitUser, States
  <2>2. UNCHANGED <<context, subscribed, hookCall, flag, missed>>
    BY <1>3 DEF InitUser
  <2>. QED
    BY <2>1, <2>2 DEF Unannounced, Shows
<1>4. ASSUME NEW i \in Sdks, InitEnds(i) PROVE ReactInv'
  <2>1. PICK w \in BOOLEAN, f \in BOOLEAN :
          LET s == [sdks[i].state EXCEPT !.wallet = @ \/ w, !.info = @ \/ f]
          IN  /\ \/ sdks[i].init = "wallet" /\ (f => w)
                 \/ sdks[i].init = "tokens" /\ ~w /\ ~f
              /\ sdks' = [sdks EXCEPT ![i] = [init |-> "ended", state |-> s]]
              /\ context' = [context EXCEPT !.state = s, !.loading = FALSE]
    BY <1>4 DEF InitEnds
  <2> DEFINE s == [sdks[i].state EXCEPT !.wallet = @ \/ w, !.info = @ \/ f]
  <2>2. s \in States
    <3>1. sdks[i].state \in States
      OBVIOUS
    <3>. QED
      BY ONLY <3>1 DEF States
  <2>3. /\ sdks' = [sdks EXCEPT ![i] = [init |-> "ended", state |-> s]]
        /\ context' = [context EXCEPT !.state = s, !.loading = FALSE]
        /\ sdks[i].init \in {"wallet", "tokens"}
    BY <2>1
  <2> HIDE DEF s
  <2>4. /\ sdks' \in [Sdks -> [init : {"none", "tokens", "wallet", "ended"}, state : States]]
        /\ \A j \in Sdks : j # i => sdks'[j] = sdks[j]
        /\ sdks'[i].init = "ended" /\ sdks'[i].state = s
    BY <2>2, <2>3
  <2>5. /\ context' \in [sdk : 0 .. MaxSdks, state : States, loading : BOOLEAN]
        /\ context'.sdk = context.sdk /\ context'.state = s /\ ~context'.loading
    BY <2>2, <2>3
  <2>6. /\ missed' = IF i = context.sdk THEN "nothing" ELSE "state"
        /\ UNCHANGED <<subscribed, hookCall, flag>>
    BY <1>4 DEF InitEnds
  <2>7. i = context.sdk => Shows(i)'
    BY <2>4, <2>5, <2>6 DEF Shows
  <2>. QED
    BY <2>3, <2>4, <2>5, <2>6, <2>7
<1>5. ASSUME NEW i \in Sdks, InitFails(i) PROVE ReactInv'
  <2>1. /\ sdks' \in [Sdks -> [init : {"none", "tokens", "wallet", "ended"}, state : States]]
        /\ \A j \in Sdks : j # i => sdks'[j] = sdks[j]
        /\ sdks[i].init = "tokens"
    BY <1>5 DEF InitFails
  <2>2. /\ context' \in [sdk : 0 .. MaxSdks, state : States, loading : BOOLEAN]
        /\ context'.sdk = context.sdk /\ ~context'.loading /\ missed' = "state"
        /\ UNCHANGED <<subscribed, hookCall, flag>>
    BY <1>5 DEF InitFails
  <2>. QED
    BY <2>1, <2>2
<1>6. ASSUME NEW c \in HookCalls, NEW k \in Kinds, Start(c, k) PROVE ReactInv'
  <2>1. /\ hookCall' = [hookCall EXCEPT ![c] = [kind |-> k, sdk |-> subscribed, step |-> "asked"]]
        /\ hookCall[c] = NoHookCall /\ subscribed # 0 /\ subscribed \in Sdks
        /\ flag' = [flag EXCEPT ![k] = TRUE]
        /\ UNCHANGED <<sdks, context, subscribed, missed>>
    BY <1>6 DEF Start
  <2>2. Unannounced(context.sdk)' <=> Unannounced(context.sdk)
    BY <2>1 DEF Unannounced, NoHookCall
  <2>3. Shows(context.sdk)' <=> Shows(context.sdk)
    BY <2>1 DEF Shows
  <2>4. /\ hookCall' \in [HookCalls -> [kind : Kinds \cup {"none"}, sdk : 0 .. MaxSdks,
                                      step : {"idle", "asked", "changed"}]]
        /\ hookCall'[c].kind = k /\ hookCall'[c].sdk = subscribed
        /\ \A d \in HookCalls : d # c => hookCall'[d] = hookCall[d]
    BY <2>1
  <2>5. flag' \in [Kinds -> BOOLEAN] /\ \A l \in Kinds : flag'[l] => l = k \/ flag[l]
    BY <2>1
  <2>6. \A l \in Kinds : flag'[l] => \E d \in HookCalls : hookCall'[d].kind = l
    <3>1. hookCall[c].kind \notin Kinds
      BY <2>1 DEF NoHookCall, Kinds
    <3>. QED
      BY <2>4, <2>5, <3>1
  <2>. QED
    BY <2>1, <2>2, <2>3, <2>4, <2>5, <2>6
\* A call that has changed its SDK, and the copy of it if there was one.
<1>c. ASSUME NEW c \in HookCalls, NEW k \in Kinds, NEW t \in States, Changes(c, k, t),
             \/ Copies(hookCall[c].sdk, t) /\ subscribed = hookCall[c].sdk
             \/ UNCHANGED <<context, missed>> /\ k # "generate"
             \/ UNCHANGED <<context, missed>> /\ subscribed # hookCall[c].sdk
      PROVE  ReactInv'
  <2>i. PICK i \in Sdks : i = hookCall[c].sdk
    BY <1>c DEF Changes
  <2>1. /\ i \in Sdks /\ i <= subscribed /\ hookCall[c].step = "asked" /\ hookCall[c].kind = k
        /\ UNCHANGED <<subscribed, flag>>
    BY <1>c, <2>i DEF Changes
  <2>2. /\ sdks' \in [Sdks -> [init : {"none", "tokens", "wallet", "ended"}, state : States]]
        /\ \A j \in Sdks : sdks'[j].init = sdks[j].init
        /\ \A j \in Sdks : j # i => sdks'[j] = sdks[j]
        /\ sdks'[i].state = t
    BY <1>c, <2>1, <2>i DEF Changes
  <2>3. /\ hookCall' \in [HookCalls -> [kind : Kinds \cup {"none"}, sdk : 0 .. MaxSdks,
                                      step : {"idle", "asked", "changed"}]]
        /\ hookCall'[c].step = "changed"
        /\ \A d \in HookCalls : /\ d # c => hookCall'[d].step = hookCall[d].step
                                /\ hookCall'[d].sdk = hookCall[d].sdk
                                /\ hookCall'[d].kind = hookCall[d].kind
    <3>1. /\ hookCall' = [hookCall EXCEPT ![c].step = "changed"]
          /\ hookCall \in [HookCalls -> [kind : Kinds \cup {"none"}, sdk : 0 .. MaxSdks,
                                         step : {"idle", "asked", "changed"}]]
      BY <1>c DEF Changes
    <3>2. hookCall[c] \in [kind : Kinds \cup {"none"}, sdk : 0 .. MaxSdks,
                            step : {"idle", "asked", "changed"}]
      BY <3>1
    <3>3. [hookCall[c] EXCEPT !.step = "changed"] \in
              [kind : Kinds \cup {"none"}, sdk : 0 .. MaxSdks, step : {"idle", "asked", "changed"}]
      BY ONLY <3>2
    <3>4. hookCall' = [hookCall EXCEPT ![c] = [hookCall[c] EXCEPT !.step = "changed"]]
      BY <3>1
    <3>5. hookCall'[c] = [hookCall[c] EXCEPT !.step = "changed"]
      BY ONLY <3>1, <3>4
    <3>. QED
      BY ONLY <3>1, <3>2, <3>3, <3>4, <3>5
  <2>4. \A j : Unannounced(j) => Unannounced(j)'
    BY <2>1, <2>3 DEF Unannounced
  <2>5. k # "generate" => Unannounced(i)'
    BY <2>1, <2>3, <2>i DEF Unannounced
  <2>8. ASSUME context' \in [sdk : 0 .. MaxSdks, state : States, loading : BOOLEAN],
               context'.sdk = context.sdk, missed' \in {"nothing", "info", "state"}, Follows'
        PROVE  ReactInv'
    <3>1. ReactTypeOK' /\ subscribed' <= context'.sdk
      BY <2>1, <2>2, <2>3, <2>8
    <3>2. \A j \in Sdks : j > context'.sdk => sdks'[j].state = Fresh /\ sdks'[j].init = "none"
      BY <2>1, <2>2, <2>8
    <3>3. /\ \A d \in HookCalls : hookCall'[d].sdk <= subscribed'
          /\ \A d \in HookCalls : hookCall'[d].step # "idle" => hookCall'[d].sdk \in Sdks
      BY <2>1, <2>3, <2>i
    <3>4. \A l \in Kinds : flag'[l] => \E d \in HookCalls : hookCall'[d].kind = l
      BY <2>1, <2>3
    <3>. QED
      BY ONLY <2>8, <3>1, <3>2, <3>3, <3>4 DEF ReactInv, Sdks
  <2>6. CASE Copies(i, t) /\ subscribed = i
    <3>1. /\ context' \in [sdk : 0 .. MaxSdks, state : States, loading : BOOLEAN]
          /\ context'.sdk = context.sdk /\ context'.loading = context.loading
          /\ context'.state = t /\ missed' = IF i = context.sdk THEN "nothing" ELSE "state"
      BY <2>6 DEF Copies
    <3>2. i = context.sdk /\ ~context.loading => Shows(i)'
      BY <2>1, <2>2, <3>1 DEF Shows
    <3>3. context.sdk # 0 /\ sdks'[context.sdk].init = "ended" => ~context'.loading
      BY <2>2, <3>1
    <3>4. i # context.sdk => missed' = "state"
      BY <3>1
    <3>5. Follows'
      BY ONLY <3>1, <3>2, <3>3, <3>4 DEF Follows
    <3>. QED
      BY ONLY <2>8, <3>1, <3>5 DEF ReactInv
  <2>7. CASE UNCHANGED <<context, missed>> /\ (k # "generate" \/ subscribed # i)
    <3>00. /\ context' \in [sdk : 0 .. MaxSdks, state : States, loading : BOOLEAN]
           /\ context'.sdk = context.sdk /\ missed' \in {"nothing", "info", "state"}
      BY <2>7
    <3>0. context.sdk # 0 /\ sdks'[context.sdk].init = "ended" =>
             ~context.loading /\ (~Unannounced(context.sdk) /\ missed # "state" => Shows(context.sdk))
      BY <2>2
    <3>1. CASE i = context.sdk
      <4>1. Unannounced(i)'
        BY <2>1, <2>5, <2>7, <3>1
      <4>2. Follows'
        BY ONLY <3>0, <3>1, <4>1, <2>7 DEF Follows
      <4>. QED
        BY ONLY <2>8, <3>00, <4>2
    <3>2. CASE i # context.sdk
      <4>1. context.sdk # 0 /\ Shows(context.sdk) => Shows(context.sdk)'
        BY <2>1, <2>2, <2>7, <3>2 DEF Shows
      <4>2. PICK n : n = context.sdk
        OBVIOUS
      <4>3. Unannounced(n) => Unannounced(n)'
        BY <2>4
      <4>4. Follows'
        BY ONLY <3>0, <4>1, <4>2, <4>3, <2>7 DEF Follows
      <4>. QED
        BY ONLY <2>8, <3>00, <4>4
    <3>. QED
      BY <3>1, <3>2
  <2>. QED
    BY <1>c, <2>6, <2>7, <2>i
<1>7. ASSUME NEW c \in HookCalls, LoginAnswered(c) PROVE ReactInv'
  BY <1>7, <1>c DEF LoginAnswered, Emits, Kinds
<1>8. ASSUME NEW c \in HookCalls, WalletGenerated(c) PROVE ReactInv'
  <2> DEFINE t == [sdks[hookCall[c].sdk].state EXCEPT !.wallet = TRUE]
  <2>1. Changes(c, "generate", t) /\ Emits(hookCall[c].sdk, t)
    BY <1>8 DEF WalletGenerated
  <2>2. t \in States
    <3>1. sdks[hookCall[c].sdk].state \in States
      BY <2>1 DEF Changes
    <3>. QED
      BY ONLY <3>1 DEF States
  <2> HIDE DEF t
  <2>. QED
    BY <1>c, <2>1, <2>2 DEF Emits, Kinds
<1>9. ASSUME NEW c \in HookCalls, LoggedOut(c) PROVE ReactInv'
  <2> DEFINE t == [sdks[hookCall[c].sdk].state EXCEPT !.user = FALSE, !.wallet = FALSE]
  <2>1. Changes(c, "logout", t) /\ UNCHANGED <<context, missed>>
    BY <1>9 DEF LoggedOut
  <2>2. t \in States
    <3>1. sdks[hookCall[c].sdk].state \in States
      BY <2>1 DEF Changes
    <3>. QED
      BY ONLY <3>1 DEF States
  <2> HIDE DEF t
  <2>. QED
    BY <1>c, <2>1, <2>2 DEF Kinds
\* A call that is over: the other calls and flags stay.
<1>o. ASSUME NEW c \in HookCalls, Over(c), hookCall[c].step # "idle"
      PROVE  /\ hookCall' \in [HookCalls -> [kind : Kinds \cup {"none"}, sdk : 0 .. MaxSdks,
                                           step : {"idle", "asked", "changed"}]]
             /\ subscribed' = subscribed /\ flag' \in [Kinds -> BOOLEAN]
             /\ \A d \in HookCalls : hookCall'[d].sdk <= subscribed
             /\ \A d \in HookCalls : hookCall'[d].step # "idle" => hookCall'[d].sdk \in Sdks
             /\ \A k \in Kinds : flag'[k] => \E d \in HookCalls : hookCall'[d].kind = k
             /\ \A d \in HookCalls : d # c => hookCall'[d] = hookCall[d]
             /\ hookCall'[c].step = "idle"
             /\ \A j : Unannounced(j) =>
                   \/ Unannounced(j)'
                   \/ (hookCall[c].step = "changed" /\ hookCall[c].kind # "generate"
                       /\ hookCall[c].sdk = j)
             /\ hookCall[c].sdk \in Sdks /\ hookCall[c].sdk <= subscribed
  <2>1. /\ hookCall' = [hookCall EXCEPT ![c] = NoHookCall] /\ subscribed' = subscribed
        /\ flag' = [flag EXCEPT ![hookCall[c].kind] = FALSE]
    BY <1>o DEF Over, ClearFlag
  <2>2. /\ hookCall' \in [HookCalls -> [kind : Kinds \cup {"none"}, sdk : 0 .. MaxSdks,
                                      step : {"idle", "asked", "changed"}]]
        /\ \A d \in HookCalls : d # c => hookCall'[d] = hookCall[d]
        /\ hookCall'[c].step = "idle" /\ hookCall'[c].sdk = 0
    BY <1>0, <2>1 DEF NoHookCall
  <2>3. /\ flag' \in [Kinds -> BOOLEAN]
        /\ \A k \in Kinds : flag'[k] => flag[k] /\ k # hookCall[c].kind
    BY <2>1
  <2>4. \A k \in Kinds : flag'[k] => \E d \in HookCalls : hookCall'[d].kind = k
    <3> TAKE k \in Kinds
    <3> HAVE flag'[k]
    <3>1. PICK d \in HookCalls : hookCall[d].kind = k
      BY <2>3
    <3>2. d # c
      BY <2>3, <3>1
    <3>. QED
      BY <2>2, <3>1, <3>2
  <2>5. ASSUME NEW j, Unannounced(j),
               ~(hookCall[c].step = "changed" /\ hookCall[c].kind # "generate"
                 /\ hookCall[c].sdk = j)
        PROVE  Unannounced(j)'
    <3>1. PICK d \in HookCalls : hookCall[d].step = "changed" /\ hookCall[d].kind # "generate"
                                 /\ hookCall[d].sdk = j
      BY ONLY <2>5 DEF Unannounced
    <3>2. d # c
      BY ONLY <2>5, <3>1
    <3>3. hookCall'[d] = hookCall[d]
      BY <2>2, <3>2
    <3>. QED
      BY ONLY <3>1, <3>3 DEF Unannounced
  <2>. QED
    BY <1>o, <2>1, <2>2, <2>3, <2>4, <2>5
<1>10. ASSUME NEW c \in HookCalls, Announced(c) PROVE ReactInv'
  <2>i. PICK i \in Sdks : i = hookCall[c].sdk
    BY <1>10 DEF Announced
  <2>1. Over(c) /\ hookCall[c].step = "changed" /\ UNCHANGED sdks
        /\ Emits(i, sdks[i].state) /\ i \in Sdks /\ i <= subscribed
    BY <1>10, <2>i DEF Announced
  <2>2. \A j : j # i => (Unannounced(j) => Unannounced(j)')
    BY <1>o, <2>1, <2>i
  <2>3. CASE subscribed = i
    <3>1. /\ context' \in [sdk : 0 .. MaxSdks, state : States, loading : BOOLEAN]
          /\ context'.sdk = context.sdk /\ context'.loading = context.loading
          /\ context'.state = sdks[i].state
          /\ missed' = IF i = context.sdk THEN "nothing" ELSE "state"
      BY <2>1, <2>3 DEF Copies, Emits
    <3>2. i = context.sdk /\ ~context.loading => Shows(i)'
      BY <2>1, <3>1 DEF Shows
    <3>. QED
      BY <1>o, <2>1, <3>1, <3>2
  <2>4. CASE subscribed # i
    <3>1. UNCHANGED <<context, missed>> /\ i # context.sdk
      BY <2>1, <2>4 DEF Emits
    <3>2. Shows(context.sdk) => Shows(context.sdk)'
      BY <2>1, <3>1 DEF Shows
    <3>. QED
      BY <1>o, <2>1, <2>2, <3>1, <3>2
  <2>. QED
    BY <2>3, <2>4
<1>11. ASSUME NEW c \in HookCalls, GeneratedInfo(c) PROVE ReactInv'
  <2>i. PICK i \in Sdks : i = hookCall[c].sdk
    BY <1>11 DEF GeneratedInfo
  <2>1. /\ Over(c) /\ hookCall[c].step = "changed" /\ hookCall[c].kind = "generate"
        /\ sdks' = [sdks EXCEPT ![i].state.info = TRUE] /\ UNCHANGED context
        /\ missed' = IF i = context.sdk /\ missed = "nothing" THEN "info" ELSE missed
        /\ i \in Sdks /\ i <= subscribed
    BY <1>11, <2>i DEF GeneratedInfo
  <2>2. \A j : Unannounced(j) => Unannounced(j)'
    BY <1>o, <2>1
  <2>3. /\ sdks' \in [Sdks -> [init : {"none", "tokens", "wallet", "ended"}, state : States]]
        /\ \A j \in Sdks : sdks'[j].init = sdks[j].init
        /\ \A j \in Sdks : j # i => sdks'[j] = sdks[j]
        /\ sdks'[i].state.user = sdks[i].state.user /\ sdks'[i].state.wallet = sdks[i].state.wallet
    <3> DEFINE t == [sdks[i].state EXCEPT !.info = TRUE]
    <3>1. sdks[i] \in [init : {"none", "tokens", "wallet", "ended"}, state : States]
      OBVIOUS
    <3>2. t \in States /\ t.user = sdks[i].state.user /\ t.wallet = sdks[i].state.wallet
      BY ONLY <3>1 DEF States
    <3>3. sdks' = [sdks EXCEPT ![i].state = t]
      BY <2>1
    <3> HIDE DEF t
    <3>. QED
      BY <3>2, <3>3
  <2>4. missed # "state" /\ context.sdk # 0 /\ Shows(context.sdk) => Shows(context.sdk)'
    <3>1. CASE i = context.sdk
      <4>1. missed' # "nothing" /\ UNCHANGED context
        BY <2>1, <3>1
      <4>. QED
        BY ONLY <2>3, <3>1, <4>1 DEF Shows
    <3>2. CASE i # context.sdk
      <4>1. UNCHANGED <<context, missed>>
        BY <2>1, <3>2
      <4>2. context.sdk # 0 => sdks'[context.sdk] = sdks[context.sdk]
        BY <2>3, <3>2
      <4>. QED
        BY ONLY <4>1, <4>2 DEF Shows
    <3>. QED
      BY <3>1, <3>2
  <2>. QED
    BY <1>o, <2>1, <2>2, <2>3, <2>4
<1>12. ASSUME NEW c \in HookCalls, RequestEnds(c) PROVE ReactInv'
  <2>1. Over(c) /\ hookCall[c].step = "asked" /\ UNCHANGED <<sdks, context, missed>>
    BY <1>12 DEF RequestEnds
  <2>2. \A j : Unannounced(j) => Unannounced(j)'
    BY <1>o, <2>1
  <2>3. Shows(context.sdk) => Shows(context.sdk)'
    BY <2>1 DEF Shows
  <2>. QED
    BY <1>o, <2>1, <2>2, <2>3
<1>13. ASSUME NEW c \in HookCalls, Fails(c) PROVE ReactInv'
  <2>1. /\ Over(c) /\ hookCall[c].step # "idle" /\ UNCHANGED <<sdks, context>>
        /\ missed' = IF hookCall[c].step = "changed" /\ hookCall[c].sdk = context.sdk
                     THEN "state" ELSE missed
    BY <1>13 DEF Fails
  <2>2. missed' # "state" => (Unannounced(context.sdk) => Unannounced(context.sdk)')
    <3>1. PICK n : n = context.sdk
      OBVIOUS
    <3>2. Unannounced(n) =>
             Unannounced(n)' \/ (hookCall[c].step = "changed" /\ hookCall[c].sdk = n)
      BY <1>o, <2>1
    <3>. QED
      BY ONLY <2>1, <3>1, <3>2
  <2>3. missed' # "state" => (Shows(context.sdk) => Shows(context.sdk)')
    BY <2>1 DEF Shows
  <2>. QED
    BY <1>o, <2>1, <2>2, <2>3
<1>14. ASSUME UNCHANGED reactVars PROVE ReactInv'
  BY <1>14 DEF reactVars, Unannounced, Shows
<1>. QED
  BY <1>1, <1>2, <1>3, <1>4, <1>5, <1>6, <1>7, <1>8, <1>9, <1>10, <1>11, <1>12, <1>13, <1>14
     DEF ReactNext

\* The context shows the state of its SDK once that is initialized, subscribed to and
\* idle, except for what missed records, for any number of configurations and of calls
\* of hooks at once (NeroMpcAuthProvider.tsx:49).
THEOREM ContextFollowsTheSdk == ReactSpec => []ContextCurrent
  BY ReactInitial, ReactStep, ReactShown, PTL DEF ReactSpec

-----------------------------------------------------------------------------
(* All components around the account.                                       *)

\* In an application that runs any one of the five components every value keeps to
\* its type, for every finite set of operations and any number of the rest; what is
\* proved of the component holds in it, for it runs as in its own specification.
THEOREM ComponentTypesKept ==
    ASSUME IsFiniteSet(Ops)
    PROVE  Spec => []TypesOK
<1>1. Init => AccountInit /\ RpcInit /\ ChainInit /\ AdapterInit /\ ReactInit
  BY DEF Init
<1>2. [Next]_vars =>
        /\ [AccountNext]_accountVars /\ [RpcNext]_rpcVars /\ [ChainNext]_chainVars
        /\ [AdapterNext]_adapterVars /\ [ReactNext]_reactVars
  BY DEF Next, vars
<1>3. Spec => AccountSpec /\ RpcSpec /\ ChainSpec /\ AdapterSpec /\ ReactSpec
  BY <1>1, <1>2, PTL DEF Spec, AccountSpec, RpcSpec, ChainSpec, AdapterSpec, ReactSpec
<1>4. AccountSpec => []AccountTypeOK
  BY AccountTypesKept
<1>5. AdapterSpec => []AdapterTypeOK
  <2>1. AdapterInv => AdapterTypeOK
    BY DEF AdapterInv
  <2>. QED
    BY <2>1, AdapterInitial, AdapterStep, PTL DEF AdapterSpec
<1>6. ReactSpec => []ReactTypeOK
  <2>1. ReactInv => ReactTypeOK
    BY DEF ReactInv
  <2>. QED
    BY <2>1, ReactInitial, ReactStep, PTL DEF ReactSpec
<1>7. AccountTypeOK /\ RpcTypeOK /\ ChainTypeOK /\ AdapterTypeOK /\ ReactTypeOK => TypesOK
  BY DEF TypesOK
<1>. QED
  BY <1>3, <1>4, <1>5, <1>6, <1>7, RpcTypesKept, ChainTypesKept, PTL

===============================================================================
