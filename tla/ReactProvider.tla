---------------------------- MODULE ReactProvider ----------------------------
(***************************************************************************)
(* What React components see of the SDK: react/NeroMpcAuthProvider.tsx,     *)
(* which copies the SDK's state into its context, and the hooks, which call *)
(* the SDK of the context and keep a flag while they do.                    *)
(*                                                                         *)
(* An effect makes an SDK for every configuration and copies its state when *)
(* initialize() ends, also for an SDK that was replaced meanwhile.  A second *)
(* one, of the next commit, copies it on six events of the SDK.             *)
(***************************************************************************)
EXTENDS Integers, FiniteSets

CONSTANTS MaxSdks,   \* bound: configurations
          HookCalls      \* calls of hooks

ASSUME ReactAssumption == MaxSdks \in Nat

VARIABLES
    sdks,        \* sdks[i]: the i-th SDK, where its initialize() is, and its state
    context,     \* the context: which SDK, a copy of a state, isLoading
    subscribed,  \* the SDK whose events are heard (0: none)
    hookCall,    \* hookCall[c]: the call c
    flag,        \* flag[k]: isConnecting, isGenerating, isDisconnecting, isSigning, isLoading
    missed       \* history: what the context has missed since it last copied

reactVars == <<sdks, context, subscribed, hookCall, flag, missed>>

Sdks == 1 .. MaxSdks
Kinds == {"login", "generate", "logout", "sign", "request"}

\* NeroSDKState: whether there is a user, a wallet and its info.
States == [user : BOOLEAN, wallet : BOOLEAN, info : BOOLEAN]
Fresh == [user |-> FALSE, wallet |-> FALSE, info |-> FALSE]
NoHookCall == [kind |-> "none", sdk |-> 0, step |-> "idle"]

ReactTypeOK ==
    /\ sdks \in [Sdks -> [init : {"none", "tokens", "wallet", "ended"}, state : States]]
    /\ context \in [sdk : 0 .. MaxSdks, state : States, loading : BOOLEAN]
    /\ subscribed \in 0 .. MaxSdks
    /\ hookCall \in [HookCalls -> [kind : Kinds \cup {"none"}, sdk : 0 .. MaxSdks,
                           step : {"idle", "asked", "changed"}]]
    /\ flag \in [Kinds -> BOOLEAN]
    /\ missed \in {"nothing", "info", "state"}

ReactInit ==
    /\ sdks = [i \in Sdks |-> [init |-> "none", state |-> Fresh]]
    /\ context = [sdk |-> 0, state |-> Fresh, loading |-> TRUE]
    /\ subscribed = 0
    /\ hookCall = [c \in HookCalls |-> NoHookCall]
    /\ flag = [k \in Kinds |-> FALSE]
    /\ missed = "nothing"

\* setState(sdk.state) of the SDK i whose state is s: into the context of i.
Copies(i, s) ==
    /\ context' = [context EXCEPT !.state = s]
    /\ missed' = IF i = context.sdk THEN "nothing" ELSE "state"

\* An event of the SDK i that syncState() is subscribed to.
\* Mutant: only the first SDK is, as if the effect had no dependencies.
EmitsOfFirst(i, s) ==
    IF subscribed = i /\ i = 1 THEN Copies(i, s) ELSE UNCHANGED <<context, missed>>
Emits(i, s) == IF subscribed = i THEN Copies(i, s) ELSE UNCHANGED <<context, missed>>

-----------------------------------------------------------------------------

\* The first effect, for a new configuration; without autoConnect it has ended.
NewSdk(autoConnect) ==
    /\ context.sdk < MaxSdks
    /\ LET i == context.sdk + 1
       IN  /\ sdks' = [sdks EXCEPT ![i].init = IF autoConnect THEN "tokens" ELSE "ended"]
           /\ context' = [sdk |-> i, loading |-> autoConnect,
                          state |-> IF autoConnect THEN context.state ELSE Fresh]
           /\ missed' = IF autoConnect THEN "state" ELSE "nothing"
    /\ UNCHANGED <<subscribed, hookCall, flag>>

\* The second effect: the old SDK is unsubscribed from, the new one subscribed to.
Commit ==
    /\ subscribed # context.sdk /\ subscribed' = context.sdk
    /\ UNCHANGED <<sdks, context, hookCall, flag, missed>>

\* initialize() finds tokens and a user, or none.
InitUser(i) ==
    /\ sdks[i].init = "tokens"
    /\ sdks' = [sdks EXCEPT ![i].state.user = TRUE, ![i].init = "wallet"]
    /\ UNCHANGED <<context, subscribed, hookCall, flag, missed>>

\* It ends, with or without a wallet and its info: "initialized", and the copy
\* of the first effect, whichever SDK the context has by now.
InitEnds(i) ==
    /\ \E w, f \in BOOLEAN :
          LET s == [sdks[i].state EXCEPT !.wallet = @ \/ w, !.info = @ \/ f]
          IN  /\ \/ sdks[i].init = "wallet" /\ (f => w)
                 \/ sdks[i].init = "tokens" /\ ~w /\ ~f
              /\ sdks' = [sdks EXCEPT ![i] = [init |-> "ended", state |-> s]]
              /\ context' = [context EXCEPT !.state = s, !.loading = FALSE]
    /\ missed' = IF i = context.sdk THEN "nothing" ELSE "state"
    /\ UNCHANGED <<subscribed, hookCall, flag>>

\* The device key cannot be made: the state is not copied.
InitFails(i) ==
    /\ sdks[i].init = "tokens"
    /\ sdks' = [sdks EXCEPT ![i].init = "ended"]
    /\ context' = [context EXCEPT !.loading = FALSE]
    /\ missed' = "state"
    /\ UNCHANGED <<subscribed, hookCall, flag>>

-----------------------------------------------------------------------------

\* A hook's call: the flag is set, and it is cleared whatever the end.
ClearFlag(c) == flag' = [flag EXCEPT ![hookCall[c].kind] = FALSE]

\* A signature is refused without a wallet in the context, a wallet without a user.
Start(c, k) ==
    /\ hookCall[c] = NoHookCall /\ subscribed # 0
    /\ k = "generate" => sdks[subscribed].state.user
    /\ k = "sign" => context.state.wallet
    /\ hookCall' = [hookCall EXCEPT ![c] = [kind |-> k, sdk |-> subscribed, step |-> "asked"]]
    /\ flag' = [flag EXCEPT ![k] = TRUE]
    /\ UNCHANGED <<sdks, context, subscribed, missed>>

\* The answer of a call changes its SDK, before the call's last event.
Changes(c, kind, state) ==
    /\ hookCall[c].step = "asked" /\ hookCall[c].kind = kind
    /\ sdks' = [sdks EXCEPT ![hookCall[c].sdk].state = state]
    /\ hookCall' = [hookCall EXCEPT ![c].step = "changed"]
    /\ UNCHANGED <<subscribed, flag>>

\* A login sets the user, and may restore the wallet and its info and connect.
LoginAnswered(c) ==
    \E t \in States :
        LET i == hookCall[c].sdk
        IN  /\ Changes(c, "login", t)
            /\ t.user /\ (sdks[i].state.wallet => t.wallet) /\ (sdks[i].state.info => t.info)
            /\ t.info /\ ~sdks[i].state.info => t.wallet
            /\ (t.wallet /\ Emits(i, t)) \/ UNCHANGED <<context, missed>>

\* generateWallet() connects its wallet, which is an event.
WalletGenerated(c) ==
    LET t == [sdks[hookCall[c].sdk].state EXCEPT !.wallet = TRUE]
    IN  Changes(c, "generate", t) /\ Emits(hookCall[c].sdk, t)

\* logout() keeps the info.
LoggedOut(c) ==
    /\ Changes(c, "logout", [sdks[hookCall[c].sdk].state EXCEPT !.user = FALSE, !.wallet = FALSE])
    /\ UNCHANGED <<context, missed>>

Over(c) ==
    /\ hookCall' = [hookCall EXCEPT ![c] = NoHookCall] /\ ClearFlag(c)
    /\ UNCHANGED subscribed

\* "login" or "logout" ends the call.
Announced(c) ==
    /\ hookCall[c].step = "changed" /\ hookCall[c].kind # "generate"
    /\ Emits(hookCall[c].sdk, sdks[hookCall[c].sdk].state)
    /\ Over(c) /\ UNCHANGED sdks

\* generateWallet() gets the wallet's info after its event.
GeneratedInfo(c) ==
    /\ hookCall[c].step = "changed" /\ hookCall[c].kind = "generate"
    /\ sdks' = [sdks EXCEPT ![hookCall[c].sdk].state.info = TRUE]
    /\ missed' = IF hookCall[c].sdk = context.sdk /\ missed = "nothing" THEN "info" ELSE missed
    /\ Over(c) /\ UNCHANGED context

\* A signature or a request of another hook changes nothing of the SDK's state.
RequestEnds(c) ==
    /\ hookCall[c].step = "asked" /\ hookCall[c].kind \in {"sign", "request"}
    /\ Over(c) /\ UNCHANGED <<sdks, context, missed>>

\* The call throws: what it has changed is announced by no event.
Fails(c) ==
    /\ hookCall[c].step # "idle"
    /\ missed' = IF hookCall[c].step = "changed" /\ hookCall[c].sdk = context.sdk
                 THEN "state" ELSE missed
    /\ Over(c) /\ UNCHANGED <<sdks, context>>

ReactNext ==
    \/ \E a \in BOOLEAN : NewSdk(a)
    \/ Commit
    \/ \E i \in Sdks : InitUser(i) \/ InitEnds(i) \/ InitFails(i)
    \/ \E c \in HookCalls :
          \/ \E k \in Kinds : Start(c, k)
          \/ LoginAnswered(c) \/ WalletGenerated(c) \/ LoggedOut(c)
          \/ Announced(c) \/ GeneratedInfo(c) \/ RequestEnds(c) \/ Fails(c)

ReactSpec == ReactInit /\ [][ReactNext]_reactVars

-----------------------------------------------------------------------------

Pending(i) == \E c \in HookCalls : hookCall[c].step # "idle" /\ hookCall[c].sdk = i

\* Once the SDK of the context is initialized, subscribed to and idle, the
\* context shows its state and does not load (NeroMpcAuthProvider.tsx:49).
\* Excepted are, until the next event: an initialize() of a replaced SDK that
\* ended late, what a call or initialize() changed before it failed, and the
\* wallet's info after generateWallet().  A hook's flag is set only during a call.
ContextCurrent ==
    /\ LET i == context.sdk
       IN  i # 0 /\ subscribed = i /\ sdks[i].init = "ended" /\ ~Pending(i)
               /\ missed # "state" =>
             /\ ~context.loading
             /\ context.state = [sdks[i].state EXCEPT
                   !.info = IF missed = "info" THEN context.state.info ELSE @]
    /\ \A k \in Kinds : flag[k] => \E c \in HookCalls : hookCall[c].kind = k
==============================================================================
