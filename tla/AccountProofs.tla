---------------------------- MODULE AccountProofs ----------------------------
(***************************************************************************)
(* Theorems about RpcEndpoints, SmartAccount and ChainSync, for any number *)
(* of endpoints, callers, operations, chains and calls.                    *)
(***************************************************************************)
EXTENDS RpcEndpoints, SmartAccount, ChainSync, SequenceTheorems,
        FiniteSetTheorems, TLAPS

-----------------------------------------------------------------------------
(* RpcEndpoints.                                                            *)

\* How many rotations lead from the index j to the index i.
Ahead(j, i) == IF j <= i THEN i - j ELSE i - j + Urls

\* The endpoints that a call which is alone has tried are those its position has
\* passed, and none of them is live.
Passed(r) ==
    \A j \in Indices : Ahead(j, r.url) \in 1 .. r.attempt => j \notin live

Alone(c) ==
    /\ \A d \in Callers : d # c => request[d].step # "waiting"
    /\ request[c].url = currentRpcIndex
    /\ Passed(request[c])

Requests == [step : {"idle", "waiting", "answered", "failed"}, attempt : 0 .. Urls,
             url : Indices, alone : BOOLEAN]

RpcInv ==
    /\ RpcTypeOK
    /\ \A c \in Callers :
          /\ request[c].step = "waiting" => request[c].attempt < Urls
          /\ request[c].step = "waiting" /\ request[c].alone => Alone(c)
    /\ AloneReachesLive

\* A rotation moves on by one, and back to the first endpoint after the last.
LEMMA Rotation ==
    ASSUME NEW i \in Indices
    PROVE  /\ RotateRpc(i) \in Indices
           /\ RotateRpc(i) = IF i + 1 = Urls THEN 0 ELSE i + 1
BY RpcAssumption DEF RotateRpc, Indices

\* Every endpoint is less than a whole round behind; a rotation leaves each but
\* the new one behind by one more.
LEMMA Rounds ==
    ASSUME NEW i \in Indices, NEW j \in Indices
    PROVE  /\ Ahead(j, i) \in 0 .. (Urls - 1)
           /\ Ahead(j, i) = 0 => j = i
           /\ j # RotateRpc(i) => Ahead(j, RotateRpc(i)) = Ahead(j, i) + 1
           /\ Ahead(RotateRpc(i), RotateRpc(i)) = 0
BY RpcAssumption, Rotation DEF Ahead, Indices

LEMMA RpcInitial == RpcInit => RpcInv
BY RpcAssumption DEF RpcInit, RpcInv, RpcTypeOK, Indices, AloneReachesLive

LEMMA RpcStep == RpcInv /\ [RpcNext]_rpcVars => RpcInv'
<1> SUFFICES ASSUME RpcInv, [RpcNext]_rpcVars PROVE RpcInv'
  OBVIOUS
<1>1. ASSUME NEW c \in Callers, Call(c) PROVE RpcInv'
  <2>1. /\ requests < MaxRequests /\ requests' = requests + 1
        /\ request' = [d \in Callers |->
              IF d = c THEN [step |-> "waiting", attempt |-> 0, url |-> currentRpcIndex,
                             alone |-> \A e \in Callers : request[e].step # "waiting"]
              ELSE [request[d] EXCEPT !.alone = @ /\ request[d].step # "waiting"]]
        /\ UNCHANGED <<currentRpcIndex, live>>
    BY <1>1 DEF Call
  <2>2. RpcTypeOK'
    <3>1. ASSUME NEW d \in Callers PROVE request'[d] \in Requests
      <4>1. CASE d = c
        BY <2>1, <4>1, RpcAssumption DEF RpcInv, RpcTypeOK, Requests
      <4>2. CASE d # c
        <5>1. request[d] \in Requests
          BY DEF RpcInv, RpcTypeOK, Requests
        <5>2. (request[d].alone /\ request[d].step # "waiting") \in BOOLEAN
          OBVIOUS
        <5>. QED
          BY <2>1, <4>2, <5>1, <5>2 DEF Requests
      <4>. QED
        BY <4>1, <4>2
    <3>2. request' \in [Callers -> Requests]
      BY <2>1, <3>1
    <3>. QED
      BY <2>1, <3>2, RpcAssumption DEF RpcInv, RpcTypeOK, Requests
  <2>3. ASSUME NEW d \in Callers
        PROVE  /\ request'[d].step = "waiting" => request'[d].attempt < Urls
               /\ request'[d].step = "waiting" /\ request'[d].alone => Alone(d)'
               /\ request'[d].step = "failed" /\ request'[d].alone => live' = {}
    BY <1>1, <2>2, RpcAssumption
       DEF Call, RpcInv, RpcTypeOK, Alone, Passed, AloneReachesLive
  <2>. QED
    BY <2>2, <2>3 DEF RpcInv, AloneReachesLive
<1>2. ASSUME NEW c \in Callers, Answered(c) PROVE RpcInv'
  <2>1. RpcTypeOK'
    BY <1>2 DEF Answered, RpcInv, RpcTypeOK
  <2>. QED
    BY <1>2, <2>1 DEF Answered, RpcInv, RpcTypeOK, Alone, Passed, AloneReachesLive
<1>3. ASSUME NEW c \in Callers, AttemptFails(c) PROVE RpcInv'
  <2>1. /\ request[c].step = "waiting" /\ request[c].url \notin live
        /\ currentRpcIndex' = RotateRpc(currentRpcIndex)
        /\ request' = [request EXCEPT ![c] =
              IF request[c].attempt + 1 < Urls
              THEN [@ EXCEPT !.attempt = request[c].attempt + 1, !.url = currentRpcIndex']
              ELSE [@ EXCEPT !.attempt = request[c].attempt + 1, !.step = "failed"]]
        /\ UNCHANGED <<live, requests>>
    BY <1>3 DEF AttemptFails
  <2>2. currentRpcIndex' \in Indices
    BY <2>1, Rotation DEF RpcInv, RpcTypeOK
  <2>3. RpcTypeOK'
    <3>1. request[c] \in Requests
      BY DEF RpcInv, RpcTypeOK, Requests
    <3>2. request'[c] \in Requests
      <4>1. request'[c] = IF request[c].attempt + 1 < Urls
                THEN [request[c] EXCEPT !.attempt = request[c].attempt + 1,
                                        !.url = currentRpcIndex']
                ELSE [request[c] EXCEPT !.attempt = request[c].attempt + 1, !.step = "failed"]
        BY <2>1 DEF RpcInv, RpcTypeOK
      <4>2. request[c].attempt + 1 \in 0 .. Urls
        BY <2>1, <3>1, RpcAssumption DEF RpcInv, Requests
      <4>. QED
        BY <2>2, <3>1, <4>1, <4>2 DEF Requests
    <3>3. request' \in [Callers -> Requests]
      BY <2>1, <3>2 DEF RpcInv, RpcTypeOK, Requests
    <3>. QED
      BY <2>1, <2>2, <3>3 DEF RpcInv, RpcTypeOK, Requests
  <2>4. ASSUME request[c].alone
        PROVE  \A j \in Indices : Ahead(j, currentRpcIndex) \in 0 .. request[c].attempt
                                     => j \notin live
    BY <2>1, <2>4, Rounds DEF RpcInv, RpcTypeOK, Alone, Passed
  <2>5. CASE request[c].attempt + 1 < Urls
    <3>1. request'[c] = [request[c] EXCEPT !.attempt = request[c].attempt + 1,
                                           !.url = currentRpcIndex']
      BY <2>1, <2>5 DEF RpcInv, RpcTypeOK
    <3>2. ASSUME request[c].alone PROVE Passed(request[c])'
      <4> SUFFICES ASSUME NEW j \in Indices,
                          Ahead(j, currentRpcIndex') \in 1 .. (request[c].attempt + 1)
                   PROVE  j \notin live
        BY <2>1, <3>1 DEF Passed, RpcInv, RpcTypeOK, Ahead, Indices
      <4>1. Ahead(j, currentRpcIndex) + 1 = Ahead(j, currentRpcIndex')
        BY <2>1, Rounds DEF RpcInv, RpcTypeOK
      <4>. QED
        BY <4>1, <2>4, <3>2, Rounds DEF RpcInv, RpcTypeOK
    <3>3. \A d \in Callers : d # c => request'[d] = request[d]
      BY <2>1 DEF RpcInv, RpcTypeOK
    <3>4. ASSUME NEW d \in Callers, request'[d].step = "waiting", request'[d].alone
          PROVE  Alone(d)'
      BY <2>1, <3>1, <3>2, <3>3, <3>4 DEF RpcInv, RpcTypeOK, Alone
    <3>. QED
      BY <2>1, <2>3, <2>5, <3>1, <3>3, <3>4 DEF RpcInv, RpcTypeOK, AloneReachesLive
  <2>6. CASE ~ (request[c].attempt + 1 < Urls)
    <3>1. request'[c] = [request[c] EXCEPT !.attempt = request[c].attempt + 1,
                                           !.step = "failed"]
      BY <2>1, <2>6 DEF RpcInv, RpcTypeOK
    <3>2. \A d \in Callers : d # c => request'[d] = request[d]
      BY <2>1 DEF RpcInv, RpcTypeOK
    <3>3. request[c].attempt = Urls - 1
      BY <2>1, <2>6, RpcAssumption DEF RpcInv, RpcTypeOK
    <3>4. ASSUME request[c].alone PROVE live = {}
      BY <2>4, <3>3, <3>4, Rounds DEF RpcInv, RpcTypeOK
    <3>5. ASSUME NEW d \in Callers, request'[d].step = "waiting", request'[d].alone
          PROVE  FALSE
      BY <2>1, <3>1, <3>2, <3>5 DEF RpcInv, RpcTypeOK, Alone
    <3>. QED
      BY <2>1, <2>3, <3>1, <3>2, <3>4, <3>5 DEF RpcInv, RpcTypeOK, AloneReachesLive
  <2>. QED
    BY <2>5, <2>6
<1>4. CASE Outage
  BY <1>4 DEF Outage, RpcInv, RpcTypeOK, AloneReachesLive
<1>5. CASE UNCHANGED rpcVars
  BY <1>5 DEF rpcVars, RpcInv, RpcTypeOK, Alone, Passed, AloneReachesLive
<1>. QED
  BY <1>1, <1>2, <1>3, <1>4, <1>5 DEF RpcNext

\* Wherever earlier calls left the shared index, a call that no other overlaps
\* tries every endpoint before it fails.
THEOREM LoneCallsReachLive == RpcSpec => []AloneReachesLive
<1>1. RpcInv => AloneReachesLive
  BY DEF RpcInv
<1>. QED
  BY <1>1, RpcInitial, RpcStep, PTL DEF RpcSpec

\* An index is one of the endpoints, and a call makes at most as many attempts as
\* there are endpoints, for every number of callers (chain-manager.ts:167).
THEOREM RpcTypesKept == RpcSpec => []RpcTypeOK
<1>1. RpcInv => RpcTypeOK
  BY DEF RpcInv
<1>. QED
  BY <1>1, RpcInitial, RpcStep, PTL DEF RpcSpec

-----------------------------------------------------------------------------
(* SmartAccount.                                                            *)

Operations ==
    [step : {"idle", "built", "sent", "unsure", "confirmed", "failed"} \cup Reads,
     calls : CallLists \cup {<<>>}, answer : BOOLEAN \cup Nat \cup {Unknown},
     cached : BOOLEAN, nonce : Nat \cup {Unknown}, deploys : BOOLEAN \cup {Unknown},
     fate : {"none", "pooled", "executed"}, sure : BOOLEAN]

AccountTypes ==
    /\ class \in {"smart", "simple"}
    /\ account \in [isDeployed : BOOLEAN \cup {Unknown}, cachedNonce : Nat \cup {Unknown}]
    /\ op \in [Ops -> Operations]
    /\ chain \in [deployed : BOOLEAN, nonce : Nat]
    /\ overlap \in BOOLEAN

\* What a read of this step should find, and what the fields and the answers
\* under way may hold.
Actual(step) == IF step = "nonce" THEN chain.nonce ELSE chain.deployed
FreshAccount == \A step \in Reads : Field(account, step) \in {Unknown, Actual(step)}
FreshAnswers ==
    \A o \in Ops : Building(o) => op[o].answer \in {Unknown, Actual(op[o].step)}

\* An execution that no wait() has seen yet: until then fields may be stale.
Unseen == \E q \in Ops : op[q].fate = "executed" /\ op[q].step \in {"sent", "unsure"}

\* Where a build has its nonce, and where it knows whether it deploys.
HasNonce(step) == step \in IF class = "smart" THEN {"deployed2", "built"} ELSE {"gas", "built"}
HasInitCode(step) ==
    step \in IF class = "smart" THEN {"built"} ELSE {"deployed2", "nonce", "gas", "built"}

Known(o) ==
    /\ HasNonce(op[o].step) => op[o].nonce = chain.nonce
    /\ HasInitCode(op[o].step) => op[o].deploys = ~chain.deployed

Fates(o) ==
    /\ op[o].fate = "pooled" => op[o].step \in {"sent", "unsure"}
    /\ op[o].fate = "executed" =>
          op[o].step \in {"sent", "unsure", "confirmed"} /\ chain.deployed

\* What an answer is.
AnswerTypes(o) ==
    Building(o) /\ op[o].answer # Unknown =>
        /\ op[o].step = "nonce" => op[o].answer \in Nat
        /\ op[o].step # "nonce" => op[o].answer \in BOOLEAN

AccountInv ==
    /\ AccountTypes
    /\ ~chain.deployed => chain.nonce = 0
    /\ \A o \in Ops :
          /\ Fates(o) /\ AnswerTypes(o)
          /\ op[o].step = "gas" => class = "simple"
          /\ op[o].sure /\ Outstanding(o) => \A p \in Ops : p # o => ~Outstanding(p)
    /\ ~overlap =>
          /\ Unseen \/ (FreshAccount /\ FreshAnswers)
          /\ \A o \in Ops : op[o].sure => Known(o)

LEMMA AccountInitial == AccountInit => AccountInv
<1> SUFFICES ASSUME AccountInit PROVE AccountInv
  OBVIOUS
<1>0. /\ account = [isDeployed |-> Unknown, cachedNonce |-> Unknown]
      /\ op = [o \in Ops |-> Unbuilt] /\ overlap = FALSE
      /\ class \in {"smart", "simple"}
  BY DEF AccountInit
<1>1. chain \in [deployed : BOOLEAN, nonce : Nat] /\ chain.nonce = 0
  <2>1. chain = [deployed |-> FALSE, nonce |-> 0] \/ chain = [deployed |-> TRUE, nonce |-> 0]
    BY DEF AccountInit
  <2>2. [deployed |-> FALSE, nonce |-> 0] \in [deployed : BOOLEAN, nonce : Nat]
    OBVIOUS
  <2>3. [deployed |-> TRUE, nonce |-> 0] \in [deployed : BOOLEAN, nonce : Nat]
    OBVIOUS
  <2>4. chain \in [deployed : BOOLEAN, nonce : Nat]
    BY <2>1, <2>2, <2>3
  <2>5. chain.nonce = 0
    BY <2>1
  <2>. QED
    BY <2>4, <2>5
<1>2. Unbuilt \in Operations
  BY DEF Unbuilt, Operations
<1>3. AccountTypes
  BY <1>0, <1>1, <1>2 DEF AccountTypes
<1>4. \A o \in Ops : op[o].step = "idle" /\ op[o].fate = "none"
  BY <1>0 DEF Unbuilt
<1>5. FreshAccount
  BY <1>0 DEF FreshAccount, Field
<1>6. \A o \in Ops : ~Building(o) /\ ~Outstanding(o) /\ Fates(o) /\ Known(o) /\ AnswerTypes(o)
  BY <1>4 DEF Outstanding, Building, Reads, Fates, AnswerTypes, Known, HasNonce, HasInitCode
<1>. QED
  BY <1>1, <1>3, <1>4, <1>5, <1>6 DEF AccountInv, FreshAnswers

Accounts0 == [isDeployed : BOOLEAN \cup {Unknown}, cachedNonce : Nat \cup {Unknown}]

\* A read begins with what its field has, and leaves the rest of the operation.
LEMMA BeginFacts ==
    ASSUME NEW a \in Accounts0, NEW u \in Operations, NEW step \in Reads \cup {"built"}
    PROVE  /\ Begin(a, u, step) \in Operations
           /\ Begin(a, u, step).step = step
           /\ Begin(a, u, step).answer = IF step = "built" THEN Unknown ELSE Field(a, step)
           /\ Begin(a, u, step).nonce = u.nonce /\ Begin(a, u, step).deploys = u.deploys
           /\ Begin(a, u, step).sure = u.sure /\ Begin(a, u, step).fate = u.fate
<1>1. CASE step = "built"
  BY <1>1 DEF Begin, Operations
<1>2. CASE step # "built"
  <2>1. Field(a, step) \in BOOLEAN \cup Nat \cup {Unknown}
    BY DEF Field, Accounts0
  <2>2. (Field(a, step) # Unknown) \in BOOLEAN
    OBVIOUS
  <2>. QED
    BY <1>2, <2>1, <2>2 DEF Begin, Operations
<1>. QED
  BY <1>1, <1>2

\* An answer decides the nonce, or whether the account is deployed, or both.
LEMMA DecideFacts ==
    ASSUME NEW u \in Operations, NEW answer,
           u.step = "nonce" => answer \in Nat, u.step # "nonce" => answer \in BOOLEAN,
           u.step = InitCodeRead => u.step # "nonce"
    PROVE  LET d == Decide(u, answer)
           IN  /\ d \in Operations
               /\ d.step = u.step /\ d.sure = u.sure /\ d.fate = u.fate
               /\ d.deploys = IF u.step = InitCodeRead THEN ~answer ELSE u.deploys
               /\ d.nonce = IF u.step = "nonce" THEN answer
                            ELSE IF u.step = NonceGate /\ ~answer THEN 0 ELSE u.nonce
<1> DEFINE deploys == IF u.step = InitCodeRead THEN ~answer ELSE u.deploys
<1> DEFINE nonce == IF u.step = "nonce" THEN answer
                    ELSE IF u.step = NonceGate /\ ~answer THEN 0 ELSE u.nonce
<1>1. Decide(u, answer) = [u EXCEPT !.deploys = deploys, !.nonce = nonce]
  BY DEF Decide
<1>2. deploys \in BOOLEAN \cup {Unknown}
  <2>1. CASE u.step = InitCodeRead
    <3>1. answer \in BOOLEAN
      BY <2>1
    <3>2. (~answer) \in BOOLEAN
      BY <3>1
    <3>. QED
      BY <2>1, <3>2
  <2>2. CASE u.step # InitCodeRead
    BY <2>2 DEF Operations
  <2>. QED
    BY <2>1, <2>2
<1>3. nonce \in Nat \cup {Unknown}
  BY DEF Operations
<1> HIDE DEF deploys, nonce
<1>4. /\ Decide(u, answer) \in Operations
      /\ Decide(u, answer).step = u.step /\ Decide(u, answer).sure = u.sure
      /\ Decide(u, answer).fate = u.fate
      /\ Decide(u, answer).deploys = deploys /\ Decide(u, answer).nonce = nonce
  BY <1>1, <1>2, <1>3 DEF Operations
<1>. QED
  BY <1>4 DEF deploys, nonce

\* The order of the reads.
LEMMA StepsAfterFacts ==
    ASSUME class \in {"smart", "simple"}, NEW step \in Reads, NEW answer,
           step # "nonce" => answer \in BOOLEAN, step = "gas" => class = "simple",
           NEW next \in StepsAfter(step, answer)
    PROVE  /\ next \in Reads \cup {"built"}
           /\ next = "gas" => class = "simple"
           /\ HasNonce(next) =>
                 HasNonce(step) \/ step = "nonce" \/ (step = NonceGate /\ ~answer)
           /\ HasInitCode(next) => HasInitCode(step) \/ step = InitCodeRead
<1>1. /\ class = "smart" => /\ NonceGate = "deployed1" /\ InitCodeRead = "deployed2"
                            /\ AfterNonce = {"deployed2"}
      /\ class = "simple" => /\ NonceGate = "deployed2" /\ InitCodeRead = "deployed1"
                             /\ AfterNonce = {"gas", "built"}
  BY DEF NonceGate, InitCodeRead, AfterNonce
<1>2. \/ step = NonceGate /\ answer /\ next = "nonce"
      \/ step = NonceGate /\ ~answer /\ next \in AfterNonce
      \/ step # NonceGate /\ step = "nonce" /\ next \in AfterNonce
      \/ step # NonceGate /\ step = "deployed1" /\ next = "deployed2"
      \/ step # NonceGate /\ step \notin {"nonce", "deployed1"} /\ next = "built"
  <2>1. CASE step = NonceGate /\ step = "deployed1"
    <3>1. CASE answer
      BY <2>1, <3>1 DEF StepsAfter
    <3>2. CASE ~answer
      BY <2>1, <3>2 DEF StepsAfter
    <3>. QED
      BY <3>1, <3>2
  <2>2. CASE step = NonceGate /\ step = "deployed2"
    BY <2>2 DEF StepsAfter
  <2>3. CASE step # NonceGate
    BY <2>3 DEF StepsAfter
  <2>. QED
    BY <1>1, <2>1, <2>2, <2>3
<1>. QED
  BY <1>1, <1>2 DEF HasNonce, HasInitCode, Reads

\* A step of one operation that keeps its fate, or sends it, and what it has to
\* show: that it stays as sure as it was, and decides only what is so.
LEMMA OneOperation ==
    ASSUME AccountInv, NEW o \in Ops, NEW u \in Operations, op' = [op EXCEPT ![o] = u],
           class' = class, chain' = chain, overlap' = overlap, account' \in Accounts0,
           u.fate = op[o].fate \/ (op[o].fate = "none" /\ u.fate = "pooled"),
           u.fate = "pooled" => u.step \in {"sent", "unsure"},
           op[o].fate = "executed" =>
               op[o].step \in {"sent", "unsure"} /\ u.step \in {"sent", "unsure"},
           u.step = "gas" => class = "simple",
           u.step \in Reads /\ u.answer # Unknown =>
               /\ u.step = "nonce" => u.answer \in Nat
               /\ u.step # "nonce" => u.answer \in BOOLEAN,
           u.sure => op[o].sure,
           u.step \in Reads \cup {"built", "sent", "unsure"} => Outstanding(o),
           ~overlap /\ ~Unseen =>
               /\ FreshAccount'
               /\ u.step \in Reads => u.answer \in {Unknown, Actual(u.step)},
           ~overlap /\ u.sure =>
               /\ HasNonce(u.step) => u.nonce = chain.nonce
               /\ HasInitCode(u.step) => u.deploys = ~chain.deployed
    PROVE  AccountInv'
<1>1. /\ op \in [Ops -> Operations] /\ class \in {"smart", "simple"}
      /\ chain \in [deployed : BOOLEAN, nonce : Nat] /\ overlap \in BOOLEAN
  BY DEF AccountInv, AccountTypes
<1>2. op'[o] = u /\ \A p \in Ops : p # o => op'[p] = op[p]
  BY <1>1
<1>3. AccountTypes'
  BY <1>1 DEF AccountTypes, Accounts0
<1>4. \A p \in Ops : Outstanding(p)' => Outstanding(p)
  BY <1>2 DEF Outstanding, Building
<1>5. \A p \in Ops : Fates(p)' /\ AnswerTypes(p)' /\ (op'[p].step = "gas" => class' = "simple")
  <2>1. Fates(o)' /\ AnswerTypes(o)'
    BY <1>1, <1>2 DEF AccountInv, Fates, AnswerTypes, Building
  <2>. QED
    BY <1>2, <2>1 DEF AccountInv, Fates, AnswerTypes, Building
<1>6. ASSUME NEW p \in Ops, op'[p].sure, Outstanding(p)', NEW q \in Ops, q # p
      PROVE  ~Outstanding(q)'
  <2>1. op[p].sure /\ Outstanding(p)
    BY <1>2, <1>4, <1>6
  <2>. QED
    BY <1>4, <1>6, <2>1 DEF AccountInv
<1>7. Unseen' = Unseen
  BY <1>1, <1>2 DEF Unseen
<1>8. ASSUME ~overlap PROVE Unseen' \/ (FreshAccount' /\ FreshAnswers')
  <2>1. CASE Unseen
    BY <1>7, <2>1
  <2>2. CASE ~Unseen
    <3>1. \A step : Actual(step)' = Actual(step)
      BY DEF Actual
    <3>2. \A p \in Ops : Building(p)' => op'[p].answer \in {Unknown, Actual(op[p].step)'}
      BY <1>2, <1>8, <2>2, <3>1 DEF AccountInv, FreshAnswers, Building
    <3>. QED
      BY <1>8, <2>2, <3>2 DEF FreshAnswers
  <2>. QED
    BY <2>1, <2>2
<1>9. ASSUME ~overlap, NEW p \in Ops, op'[p].sure PROVE Known(p)'
  BY <1>2, <1>9 DEF AccountInv, Known, HasNonce, HasInitCode
<1>. QED
  BY <1>3, <1>5, <1>6, <1>8, <1>9 DEF AccountInv

LEMMA AccountStep == AccountInv /\ [AccountNext]_accountVars => AccountInv'
<1> SUFFICES ASSUME AccountInv, [AccountNext]_accountVars PROVE AccountInv'
  OBVIOUS
<1>1. /\ op \in [Ops -> Operations] /\ class \in {"smart", "simple"}
      /\ chain \in [deployed : BOOLEAN, nonce : Nat] /\ overlap \in BOOLEAN
      /\ account \in Accounts0
  BY DEF AccountInv, AccountTypes, Accounts0
<1>2. InitCodeRead # "nonce"
  BY DEF InitCodeRead
<1>3. ASSUME NEW o \in Ops, StartBuild(o) PROVE AccountInv'
  <2>1. PICK calls \in CallLists :
          op' = [p \in Ops |->
                   IF p = o
                   THEN Begin(account,
                              [Unbuilt EXCEPT !.calls = calls,
                                 !.sure = \A q \in Ops : ~Outstanding(q)],
                              "deployed1")
                   ELSE [op[p] EXCEPT !.sure = @ /\ ~Outstanding(p)]]
    BY <1>3 DEF StartBuild
  <2> DEFINE alone == \A q \in Ops : ~Outstanding(q)
             u == [Unbuilt EXCEPT !.calls = calls, !.sure = alone]
             new == Begin(account, u, "deployed1")
  <2>2. UNCHANGED <<class, account, chain, overlap>> /\ op[o].step = "idle"
    BY <1>3 DEF StartBuild
  <2>3. u \in Operations /\ u.fate = "none" /\ u.sure = alone
    BY DEF Unbuilt, Operations
  <2> HIDE DEF alone, u
  <2>4. /\ new \in Operations /\ new.step = "deployed1" /\ new.fate = "none"
        /\ new.answer = account.isDeployed /\ new.sure = alone
    <3>1. "deployed1" \in Reads \cup {"built"}
      BY DEF Reads
    <3>2. new.answer = Field(account, "deployed1")
      BY <1>1, <2>3, <3>1, BeginFacts
    <3>. QED
      BY <1>1, <2>3, <3>1, <3>2, BeginFacts DEF Field
  <2> HIDE DEF new
  <2>5. op'[o] = new
    BY <2>1 DEF new, u, alone
  <2>6. ASSUME NEW p \in Ops, p # o
        PROVE  /\ op'[p] \in Operations
               /\ op'[p].step = op[p].step /\ op'[p].answer = op[p].answer
               /\ op'[p].fate = op[p].fate /\ op'[p].nonce = op[p].nonce
               /\ op'[p].deploys = op[p].deploys
               /\ op'[p].sure => op[p].sure /\ ~Outstanding(p)
    <3> DEFINE s == op[p].sure /\ ~Outstanding(p)
    <3>1. op'[p] = [op[p] EXCEPT !.sure = s]
      BY <2>1, <2>6
    <3>2. op[p] \in Operations /\ s \in BOOLEAN
      BY <1>1
    <3> HIDE DEF s
    <3>3. /\ op'[p] \in Operations
          /\ op'[p].step = op[p].step /\ op'[p].answer = op[p].answer
          /\ op'[p].fate = op[p].fate /\ op'[p].nonce = op[p].nonce
          /\ op'[p].deploys = op[p].deploys /\ op'[p].sure = s
      BY <3>1, <3>2 DEF Operations
    <3>. QED
      BY <3>3 DEF s
  <2>7. AccountTypes'
    <3>1. DOMAIN op' = Ops /\ op' = [p \in Ops |-> op'[p]]
      BY <2>1
    <3>2. op' \in [Ops -> Operations]
      BY <2>4, <2>5, <2>6, <3>1
    <3>. QED
      BY <1>1, <2>2, <3>2 DEF AccountTypes, Accounts0
  <2>8. \A p \in Ops : Fates(p)' /\ AnswerTypes(p)' /\ (op'[p].step = "gas" => class' = "simple")
    <3>1. Fates(o)' /\ AnswerTypes(o)' /\ op'[o].step # "gas"
      BY <1>1, <2>4, <2>5 DEF Fates, AnswerTypes, Building, Accounts0
    <3>. QED
      BY <2>2, <2>6, <3>1 DEF AccountInv, Fates, AnswerTypes, Building
  <2>9. \A p \in Ops : p # o => Outstanding(p)' = Outstanding(p)
    BY <2>6 DEF Outstanding, Building
  <2>10. ASSUME NEW p \in Ops, op'[p].sure, Outstanding(p)', NEW q \in Ops, q # p
         PROVE  ~Outstanding(q)'
    <3>1. p = o
      BY <2>6, <2>9, <2>10
    <3>. QED
      BY <2>4, <2>5, <2>9, <2>10, <3>1 DEF alone
  <2>11. ASSUME ~overlap PROVE Unseen' \/ (FreshAccount' /\ FreshAnswers')
    <3>1. CASE Unseen
      <4>1. PICK q \in Ops : op[q].fate = "executed" /\ op[q].step \in {"sent", "unsure"}
        BY <3>1 DEF Unseen
      <4>. QED
        BY <2>2, <2>6, <4>1 DEF Unseen
    <3>2. CASE ~Unseen
      <4>1. FreshAccount /\ FreshAnswers
        BY <2>11, <3>2 DEF AccountInv
      <4>2. FreshAccount'
        BY <2>2, <4>1 DEF FreshAccount, Actual, Field
      <4>3. \A p \in Ops : Building(p)' => op'[p].answer \in {Unknown, Actual(op[p].step)'}
        <5>1. op'[o].answer \in {Unknown, Actual(op[o].step)'}
          BY <2>2, <2>4, <2>5, <4>1 DEF FreshAccount, Actual, Field, Reads
        <5>2. ASSUME NEW p \in Ops, p # o, Building(p)'
              PROVE  op'[p].answer \in {Unknown, Actual(op[p].step)'}
          BY <2>2, <2>6, <4>1, <5>2 DEF FreshAnswers, Actual, Building
        <5>. QED
          BY <5>1, <5>2
      <4>. QED
        BY <4>2, <4>3 DEF FreshAnswers
    <3>. QED
      BY <3>1, <3>2
  <2>12. ASSUME ~overlap, NEW p \in Ops, op'[p].sure PROVE Known(p)'
    <3>1. CASE p = o
      BY <1>1, <2>2, <2>4, <2>5, <3>1 DEF Known, HasNonce, HasInitCode
    <3>2. CASE p # o
      BY <2>2, <2>6, <2>12, <3>2 DEF AccountInv, Known, HasNonce, HasInitCode
    <3>. QED
      BY <3>1, <3>2
  <2>. QED
    BY <2>2, <2>7, <2>8, <2>10, <2>11, <2>12 DEF AccountInv
<1>4. ASSUME NEW o \in Ops, NodeAnswers(o) PROVE AccountInv'
  <2> DEFINE answer == IF op[o].step = "nonce" THEN chain.nonce ELSE chain.deployed
             u == [op[o] EXCEPT !.answer = answer]
  <2>1. /\ Building(o) /\ UNCHANGED <<class, account, chain, overlap>>
        /\ op' = [op EXCEPT ![o] = u]
    BY <1>4 DEF NodeAnswers
  <2>2. answer \in BOOLEAN \cup Nat \cup {Unknown} /\ answer = Actual(op[o].step)
    BY <1>1 DEF Actual
  <2>3. /\ op[o].step = "nonce" => answer \in Nat
        /\ op[o].step # "nonce" => answer \in BOOLEAN
    BY <1>1
  <2> HIDE DEF answer
  <2>4. /\ u \in Operations /\ u.step = op[o].step /\ u.fate = op[o].fate
        /\ u.sure = op[o].sure /\ u.answer = answer /\ u.nonce = op[o].nonce
        /\ u.deploys = op[o].deploys
    BY <1>1, <2>2 DEF Operations
  <2> HIDE DEF u
  <2>5. FreshAccount' = FreshAccount
    BY <2>1 DEF FreshAccount, Actual, Field
  <2>6. /\ op[o].fate \notin {"pooled", "executed"} /\ Outstanding(o)
        /\ op[o].step = "gas" => class = "simple"
        /\ u.step \notin {"sent", "unsure"}
    BY <2>1, <2>4 DEF AccountInv, Fates, Building, Reads, Outstanding
  <2>7. ~overlap /\ ~Unseen =>
          FreshAccount' /\ (u.step \in Reads => u.answer \in {Unknown, Actual(u.step)})
    BY <2>2, <2>4, <2>5 DEF AccountInv
  <2>8. ~overlap /\ u.sure =>
          /\ HasNonce(u.step) => u.nonce = chain.nonce
          /\ HasInitCode(u.step) => u.deploys = ~chain.deployed
    BY <2>4 DEF AccountInv, Known
  <2>. QED
    BY <1>1, <2>1, <2>3, <2>4, <2>6, <2>7, <2>8, OneOperation
<1>5. ASSUME NEW o \in Ops, ReadEnds(o) PROVE AccountInv'
  <2> DEFINE answer == op[o].answer
             d == Decide(op[o], answer)
  <2>1. PICK step \in StepsAfter(op[o].step, answer) :
          op' = [op EXCEPT ![o] = Begin(account', d, step)]
    BY <1>5 DEF ReadEnds
  <2> DEFINE new == Begin(account', d, step)
  <2>2. /\ Building(o) /\ answer # Unknown /\ UNCHANGED <<class, chain, overlap>>
        /\ account' = IF op[o].cached THEN account
                      ELSE IF op[o].step = "nonce"
                      THEN [account EXCEPT !.cachedNonce = answer]
                      ELSE [account EXCEPT !.isDeployed = answer]
    BY <1>5 DEF ReadEnds
  <2>3. /\ op[o] \in Operations /\ op[o].step \in Reads
        /\ op[o].step = "nonce" => answer \in Nat
        /\ op[o].step # "nonce" => answer \in BOOLEAN
        /\ op[o].step = "gas" => class = "simple"
    BY <1>1, <2>2 DEF AccountInv, AnswerTypes, Building
  <2>4. account' \in Accounts0
    BY <1>1, <2>2, <2>3 DEF Accounts0
  <2>5. /\ step \in Reads \cup {"built"} /\ (step = "gas" => class = "simple")
        /\ HasNonce(step) => \/ HasNonce(op[o].step) \/ op[o].step = "nonce"
                             \/ op[o].step = NonceGate /\ ~answer
        /\ HasInitCode(step) => HasInitCode(op[o].step) \/ op[o].step = InitCodeRead
    BY <1>1, <2>1, <2>3, StepsAfterFacts
  <2>6. /\ d \in Operations
        /\ d.step = op[o].step /\ d.sure = op[o].sure /\ d.fate = op[o].fate
        /\ d.deploys = IF op[o].step = InitCodeRead THEN ~answer ELSE op[o].deploys
        /\ d.nonce = IF op[o].step = "nonce" THEN answer
                     ELSE IF op[o].step = NonceGate /\ ~answer THEN 0 ELSE op[o].nonce
    BY <1>2, <2>3, DecideFacts
  <2> HIDE DEF d
  <2>7. /\ new \in Operations /\ new.step = step
        /\ new.answer = IF step = "built" THEN Unknown ELSE Field(account', step)
        /\ new.nonce = d.nonce /\ new.deploys = d.deploys
        /\ new.sure = d.sure /\ new.fate = d.fate
    BY <2>4, <2>5, <2>6, BeginFacts
  <2> HIDE DEF new
  <2>8. /\ op[o].fate \notin {"pooled", "executed"} /\ Outstanding(o)
        /\ step \notin {"sent", "unsure"} /\ new.fate = op[o].fate
        /\ new.sure = op[o].sure
    BY <2>3, <2>5, <2>6, <2>7 DEF AccountInv, Fates, Building, Reads, Outstanding
  <2>9. op' = [op EXCEPT ![o] = new]
    BY <2>1 DEF new
  <2>10. new.step \in Reads /\ new.answer # Unknown =>
            /\ new.step = "nonce" => new.answer \in Nat
            /\ new.step # "nonce" => new.answer \in BOOLEAN
    BY <2>4, <2>7 DEF Field, Accounts0, Reads
  <2>11. ASSUME ~overlap, ~Unseen
         PROVE  /\ FreshAccount' /\ answer = Actual(op[o].step)
                /\ new.step \in Reads => new.answer \in {Unknown, Actual(new.step)}
    <3>1. FreshAccount /\ answer = Actual(op[o].step)
      BY <2>2, <2>11 DEF AccountInv, FreshAnswers
    <3>2. \A s \in Reads : Field(account', s) \in {Unknown, Actual(s)}
      <4>1. CASE op[o].cached
        BY <2>2, <3>1, <4>1 DEF FreshAccount
      <4>2. CASE ~op[o].cached /\ op[o].step = "nonce"
        <5>1. account'.cachedNonce = answer /\ account'.isDeployed = account.isDeployed
          BY <1>1, <2>2, <4>2 DEF Accounts0
        <5>. QED
          BY <3>1, <4>2, <5>1 DEF FreshAccount, Field, Actual
      <4>3. CASE ~op[o].cached /\ op[o].step # "nonce"
        <5>1. account'.isDeployed = answer /\ account'.cachedNonce = account.cachedNonce
          BY <1>1, <2>2, <4>3 DEF Accounts0
        <5>. QED
          BY <3>1, <4>3, <5>1 DEF FreshAccount, Field, Actual
      <4>. QED
        BY <4>1, <4>2, <4>3
    <3>3. FreshAccount'
      BY <2>2, <3>2 DEF FreshAccount, Field, Actual
    <3>. QED
      BY <2>7, <3>1, <3>2, <3>3 DEF Reads
  <2>12. ASSUME ~overlap, new.sure
         PROVE  /\ HasNonce(step) => new.nonce = chain.nonce
                /\ HasInitCode(step) => new.deploys = ~chain.deployed
    <3>1. ~Unseen
      <4>1. \A q \in Ops : q # o => ~Outstanding(q)
        BY <2>8, <2>12 DEF AccountInv
      <4>. QED
        BY <2>8, <4>1 DEF Unseen, Outstanding
    <3>2. answer = Actual(op[o].step) /\ Known(o)
      BY <2>8, <2>11, <2>12, <3>1 DEF AccountInv
    <3>3. ASSUME HasNonce(step) PROVE new.nonce = chain.nonce
      <4>1. CASE op[o].step = "nonce"
        BY <2>6, <2>7, <3>2, <4>1 DEF Actual
      <4>2. CASE op[o].step = NonceGate /\ op[o].step # "nonce" /\ ~answer
        <5>1. ~chain.deployed
          BY <3>2, <4>2 DEF Actual
        <5>. QED
          BY <2>6, <2>7, <4>2, <5>1 DEF AccountInv
      <4>3. CASE /\ op[o].step # "nonce" /\ ~(op[o].step = NonceGate /\ ~answer)
                 /\ HasNonce(op[o].step)
        BY <2>6, <2>7, <3>2, <4>3 DEF Known
      <4>. QED
        BY <2>5, <3>3, <4>1, <4>2, <4>3
    <3>4. ASSUME HasInitCode(step) PROVE new.deploys = ~chain.deployed
      <4>1. CASE op[o].step = InitCodeRead
        <5>1. new.deploys = ~answer /\ answer = chain.deployed
          BY <1>2, <2>6, <2>7, <3>2, <4>1 DEF Actual
        <5>. QED
          BY <5>1
      <4>2. CASE op[o].step # InitCodeRead /\ HasInitCode(op[o].step)
        BY <2>6, <2>7, <3>2, <4>2 DEF Known
      <4>. QED
        BY <2>5, <3>4, <4>1, <4>2
    <3>. QED
      BY <3>3, <3>4
  <2>. QED
    BY <2>2, <2>4, <2>5, <2>7, <2>8, <2>9, <2>10, <2>11, <2>12, OneOperation
<1>6. ASSUME NEW o \in Ops, ReadFails(o) PROVE AccountInv'
  <2> DEFINE w == [op[o] EXCEPT !.sure = FALSE]
             d == Decide(w, FALSE)
  <2>1. /\ Building(o) /\ UNCHANGED <<class, account, chain, overlap>>
        /\ \/ op[o].step = "nonce"
              /\ op' = [op EXCEPT ![o].step = "failed", ![o].answer = Unknown]
           \/ op[o].step # "nonce"
              /\ \E step \in StepsAfter(w.step, FALSE) :
                    op' = [op EXCEPT ![o] = Begin(account, d, step)]
    BY <1>1, <1>6 DEF ReadFails, Operations
  <2>2. /\ w \in Operations /\ w.step = op[o].step /\ w.fate = op[o].fate
        /\ w.sure = FALSE
    BY <1>1 DEF Operations
  <2>3. /\ op[o].fate \notin {"pooled", "executed"} /\ Outstanding(o)
        /\ op[o].step \in Reads /\ (op[o].step = "gas" => class = "simple")
        /\ op[o].fate = "none"
    BY <1>1, <2>1 DEF AccountInv, Fates, Building, Reads, Outstanding, Operations
  <2>4. FreshAccount' = FreshAccount
    BY <2>1 DEF FreshAccount, Actual, Field
  <2> HIDE DEF w
  <2>5. CASE op[o].step = "nonce"
    <3> DEFINE new == [op[o] EXCEPT !.step = "failed", !.answer = Unknown]
    <3>1. op' = [op EXCEPT ![o] = new]
      BY <2>1, <2>5
    <3>2. /\ new \in Operations /\ new.step = "failed" /\ new.fate = op[o].fate
          /\ new.sure = op[o].sure
      BY <1>1 DEF Operations
    <3> HIDE DEF new
    <3>3. new.step \notin Reads \cup {"gas", "built", "sent", "unsure"}
      BY <3>2 DEF Reads
    <3>4. ~HasNonce(new.step) /\ ~HasInitCode(new.step)
      BY <3>2 DEF HasNonce, HasInitCode
    <3>5. ~overlap /\ ~Unseen => FreshAccount'
      BY <2>4 DEF AccountInv
    <3>. QED
      BY <1>1, <2>1, <2>3, <3>1, <3>2, <3>3, <3>4, <3>5, OneOperation
  <2>6. CASE op[o].step # "nonce"
    <3>1. PICK step \in StepsAfter(w.step, FALSE) :
            op' = [op EXCEPT ![o] = Begin(account, d, step)]
      BY <2>1, <2>6
    <3> DEFINE new == Begin(account, d, step)
    <3>2. step \in Reads \cup {"built"} /\ (step = "gas" => class = "simple")
      BY <1>1, <2>2, <2>3, <3>1, StepsAfterFacts
    <3>3. d \in Operations /\ d.sure = FALSE /\ d.fate = op[o].fate
      BY <1>2, <2>2, <2>6, DecideFacts
    <3> HIDE DEF d
    <3>4. /\ new \in Operations /\ new.step = step
          /\ new.answer = IF step = "built" THEN Unknown ELSE Field(account, step)
          /\ new.sure = FALSE /\ new.fate = op[o].fate
      BY <1>1, <3>2, <3>3, BeginFacts
    <3> HIDE DEF new
    <3>5. op' = [op EXCEPT ![o] = new]
      BY <3>1 DEF new
    <3>6. new.step \in Reads /\ new.answer # Unknown =>
             /\ new.step = "nonce" => new.answer \in Nat
             /\ new.step # "nonce" => new.answer \in BOOLEAN
      BY <1>1, <3>4 DEF Field, Accounts0, Reads
    <3>7. ~overlap /\ ~Unseen =>
            FreshAccount' /\ (new.step \in Reads => new.answer \in {Unknown, Actual(new.step)})
      BY <2>4, <3>4 DEF AccountInv, FreshAccount, Reads
    <3>8. new.step \notin {"sent", "unsure"}
      BY <3>2, <3>4 DEF Reads
    <3>. QED
      BY <1>1, <2>1, <2>3, <3>2, <3>4, <3>5, <3>6, <3>7, <3>8, OneOperation
  <2>. QED
    BY <2>5, <2>6
<1>7. ASSUME NEW o \in Ops,
             op[o].step \in {"built", "sent"}, NEW step \in {"failed", "sent", "unsure"},
             NEW fate, fate = op[o].fate \/ (step # "failed" /\ fate = "pooled"
                                               /\ op[o].step = "built"),
             step = "failed" => op[o].step = "built",
             op' = [op EXCEPT ![o].step = step, ![o].fate = fate],
             UNCHANGED <<class, account, chain, overlap>>
      PROVE  AccountInv'
  <2> DEFINE u == [op[o] EXCEPT !.step = step, !.fate = fate]
  <2>1. op' = [op EXCEPT ![o] = u]
    BY <1>7
  <2>2. fate \in {"none", "pooled", "executed"}
    BY <1>1, <1>7 DEF Operations
  <2>3. u \in Operations /\ u.step = step /\ u.fate = fate /\ u.sure = op[o].sure
    BY <1>1, <1>7, <2>2 DEF Operations
  <2> HIDE DEF u
  <2>4. u.step \notin Reads \cup {"gas", "built"} /\ Outstanding(o)
    BY <1>7, <2>3 DEF Reads, Outstanding
  <2>5. ~HasNonce(u.step) /\ ~HasInitCode(u.step)
    BY <2>3, <2>4, <1>7 DEF HasNonce, HasInitCode
  <2>6. ~overlap /\ ~Unseen => FreshAccount'
    BY <1>7 DEF AccountInv, FreshAccount, Actual, Field
  <2>7. /\ fate = op[o].fate \/ (op[o].fate = "none" /\ fate = "pooled")
        /\ fate = "pooled" => step \in {"sent", "unsure"}
        /\ op[o].fate = "executed" =>
              op[o].step \in {"sent", "unsure"} /\ step \in {"sent", "unsure"}
    BY <1>1, <1>7, <2>2 DEF AccountInv, Fates, Operations
  <2>8. class' = class /\ chain' = chain /\ overlap' = overlap /\ account' \in Accounts0
    BY <1>1, <1>7
  <2>9. /\ u.fate = op[o].fate \/ (op[o].fate = "none" /\ u.fate = "pooled")
        /\ u.fate = "pooled" => u.step \in {"sent", "unsure"}
        /\ op[o].fate = "executed" =>
              op[o].step \in {"sent", "unsure"} /\ u.step \in {"sent", "unsure"}
    BY <2>3, <2>7
  <2>10. /\ u.step = "gas" => class = "simple"
         /\ u.step \in Reads /\ u.answer # Unknown =>
               /\ u.step = "nonce" => u.answer \in Nat
               /\ u.step # "nonce" => u.answer \in BOOLEAN
         /\ u.step \in Reads \cup {"built", "sent", "unsure"} => Outstanding(o)
         /\ ~overlap /\ ~Unseen =>
               FreshAccount' /\ (u.step \in Reads => u.answer \in {Unknown, Actual(u.step)})
         /\ ~overlap /\ u.sure =>
               /\ HasNonce(u.step) => u.nonce = chain.nonce
               /\ HasInitCode(u.step) => u.deploys = ~chain.deployed
    BY <2>4, <2>5, <2>6
  <2>. QED
    BY <2>1, <2>3, <2>8, <2>9, <2>10, OneOperation
<1>8. ASSUME NEW o \in Ops, SendUserOperation(o) PROVE AccountInv'
  BY <1>7, <1>8 DEF SendUserOperation
<1>9. ASSUME NEW o \in Ops, NotSent(o) PROVE AccountInv'
  <2>1. op' = [op EXCEPT ![o].step = "failed", ![o].fate = op[o].fate]
    BY <1>1, <1>9 DEF NotSent, Operations
  <2>. QED
    BY <1>7, <1>9, <2>1 DEF NotSent
<1>10. ASSUME NEW o \in Ops, WaitTimesOut(o) PROVE AccountInv'
  <2>1. op' = [op EXCEPT ![o].step = "unsure", ![o].fate = op[o].fate]
    BY <1>1, <1>10 DEF WaitTimesOut, Operations
  <2>. QED
    BY <1>7, <1>10, <2>1 DEF WaitTimesOut
<1>11. ASSUME NEW o \in Ops, Executes(o) PROVE AccountInv'
  <2>1. /\ op[o].fate = "pooled" /\ UNCHANGED <<class, account, overlap>>
        /\ op' = [op EXCEPT ![o].fate = "executed"]
        /\ chain' = [deployed |-> TRUE, nonce |-> chain.nonce + 1]
    BY <1>11 DEF Executes
  <2>2. op[o].step \in {"sent", "unsure"} /\ Outstanding(o)
    BY <2>1 DEF AccountInv, Fates, Outstanding
  <2> DEFINE u == [op[o] EXCEPT !.fate = "executed"]
  <2>3. /\ u \in Operations /\ u.fate = "executed" /\ u.step = op[o].step
        /\ u.sure = op[o].sure /\ u.answer = op[o].answer
    BY <1>1 DEF Operations
  <2>4. op'[o] = u /\ \A p \in Ops : p # o => op'[p] = op[p]
    BY <1>1, <2>1
  <2>5. op' \in [Ops -> Operations]
    BY <1>1, <2>1, <2>3
  <2>6. chain' \in [deployed : BOOLEAN, nonce : Nat] /\ chain'.deployed
    BY <1>1, <2>1
  <2> HIDE DEF u
  <2>7. AccountTypes'
    BY <1>1, <2>1, <2>5, <2>6 DEF AccountTypes, Accounts0
  <2>8. \A p \in Ops : /\ Fates(p)' /\ AnswerTypes(p)'
                       /\ op'[p].step = "gas" => class' = "simple"
    BY <2>1, <2>2, <2>3, <2>4, <2>6 DEF AccountInv, Fates, AnswerTypes, Building
  <2>9. \A p \in Ops : Outstanding(p)' = Outstanding(p) /\ op'[p].sure = op[p].sure
    BY <2>3, <2>4 DEF Outstanding, Building
  <2>10. Unseen'
    BY <2>2, <2>3, <2>4 DEF Unseen
  <2>11. ASSUME NEW p \in Ops, op'[p].sure PROVE Known(p)'
    <3>1. CASE p = o
      BY <1>1, <2>1, <2>2, <2>3, <2>4, <3>1 DEF Known, HasNonce, HasInitCode
    <3>2. CASE p # o
      <4>1. ~Outstanding(p)
        BY <2>2, <2>9, <2>11, <3>2 DEF AccountInv
      <4>. QED
        BY <1>1, <2>1, <2>4, <3>2, <4>1
           DEF Known, HasNonce, HasInitCode, Outstanding, Building, Reads
    <3>. QED
      BY <3>1, <3>2
  <2>. QED
    BY <2>6, <2>7, <2>8, <2>9, <2>10, <2>11 DEF AccountInv
<1>12. ASSUME NEW o \in Ops, WaitEnds(o) PROVE AccountInv'
  <2>1. /\ op[o].step = "sent" /\ op[o].fate = "executed" /\ UNCHANGED <<class, chain>>
        /\ op' = [op EXCEPT ![o].step = "confirmed"]
        /\ account' = [isDeployed |-> TRUE, cachedNonce |-> Unknown]
        /\ overlap' = (overlap \/ \E p \in Ops : Building(p))
    BY <1>12 DEF WaitEnds
  <2> DEFINE u == [op[o] EXCEPT !.step = "confirmed"]
  <2>2. u \in Operations /\ u.fate = "executed" /\ u.step = "confirmed" /\ u.sure = op[o].sure
    BY <1>1, <2>1 DEF Operations
  <2>3. op'[o] = u /\ \A p \in Ops : p # o => op'[p] = op[p]
    BY <1>1, <2>1
  <2>4. op' \in [Ops -> Operations]
    BY <1>1, <2>1, <2>2
  <2>5. chain.deployed
    BY <2>1 DEF AccountInv, Fates
  <2> HIDE DEF u
  <2>6. overlap' \in BOOLEAN /\ (~overlap' => ~overlap /\ \A p \in Ops : ~Building(p))
    <3>1. (overlap \/ \E p \in Ops : Building(p)) \in BOOLEAN
      OBVIOUS
    <3>. QED
      BY <2>1, <3>1
  <2>7. account' \in Accounts0
    BY <2>1 DEF Accounts0
  <2>8. AccountTypes'
    BY <1>1, <2>1, <2>4, <2>6, <2>7 DEF AccountTypes, Accounts0
  <2>9. \A p \in Ops : Building(p)' => Building(p) /\ op'[p] = op[p]
    BY <2>2, <2>3 DEF Building, Reads
  <2>10. \A p \in Ops : /\ Fates(p)' /\ AnswerTypes(p)'
                        /\ op'[p].step = "gas" => class' = "simple"
    BY <2>1, <2>2, <2>3, <2>5, <2>9 DEF AccountInv, Fates, AnswerTypes
  <2>11. \A p \in Ops : (Outstanding(p)' => Outstanding(p)) /\ op'[p].sure = op[p].sure
    BY <2>2, <2>3 DEF Outstanding, Building, Reads
  <2>12. ASSUME ~overlap' PROVE FreshAccount' /\ FreshAnswers'
    BY <2>1, <2>5, <2>6, <2>9, <2>12 DEF FreshAccount, FreshAnswers, Field, Actual
  <2>13. ASSUME ~overlap', NEW p \in Ops, op'[p].sure PROVE Known(p)'
    <3>1. CASE p = o
      BY <1>1, <2>1, <2>2, <2>3, <3>1 DEF Known, HasNonce, HasInitCode
    <3>2. CASE p # o
      BY <2>1, <2>3, <2>6, <2>13, <3>2 DEF AccountInv, Known, HasNonce, HasInitCode
    <3>. QED
      BY <3>1, <3>2
  <2>. QED
    BY <2>1, <2>5, <2>8, <2>10, <2>11, <2>12, <2>13 DEF AccountInv
<1>13. ASSUME UNCHANGED accountVars PROVE AccountInv'
  BY <1>13 DEF AccountInv, AccountTypes, Fates, AnswerTypes, Known, HasNonce, HasInitCode, Unseen,
               FreshAccount, FreshAnswers, Field, Actual, Building, Outstanding, accountVars
<1>. QED
  BY <1>3, <1>4, <1>5, <1>6, <1>8, <1>9, <1>10, <1>11, <1>12, <1>13 DEF AccountNext

\* A user operation is built with the nonce the chain expects, and deploys the
\* account exactly if it is not there, for every set of operations and every list of
\* calls (buildUserOperation() with its cached fields, smart-wallet.ts).
THEOREM OperationsAreFresh == AccountSpec => []FreshNonce
<1>1. AccountInv => FreshNonce
  BY DEF AccountInv, AccountTypes, FreshNonce, Known, HasNonce, HasInitCode
<1>. QED
  BY <1>1, AccountInitial, AccountStep, PTL DEF AccountSpec

\* The nonces anybody has seen are those that executed operations have used up; an
\* answer that is not awaited is not kept.
Executed == {o \in Ops : op[o].fate = "executed"}
Seen == 0 .. chain.nonce \cup {Unknown}

NonceInv ==
    /\ chain.nonce = Cardinality(Executed)
    /\ account.cachedNonce \in Seen
    /\ \A o \in Ops :
          /\ op[o].nonce \in Seen
          /\ op[o].step = "nonce" => op[o].answer \in Seen
          /\ ~Building(o) => op[o].answer = Unknown

LEMMA NonceInitial == AccountInit => NonceInv
<1> SUFFICES ASSUME AccountInit PROVE NonceInv
  OBVIOUS
<1>1. /\ account = [isDeployed |-> Unknown, cachedNonce |-> Unknown]
      /\ op = [o \in Ops |-> Unbuilt] /\ chain.nonce = 0
  BY DEF AccountInit
<1>2. Executed = {}
  BY <1>1 DEF Executed, Unbuilt
<1>3. Cardinality(Executed) = 0
  BY <1>2, FS_EmptySet
<1>. QED
  BY <1>1, <1>3 DEF NonceInv, Seen, Unbuilt

\* A step of one operation that the chain does not see.
LEMMA SeenByOne ==
    ASSUME AccountInv, NonceInv, NEW o \in Ops, NEW u \in Operations,
           op' = [op EXCEPT ![o] = u], chain' = chain, account'.cachedNonce \in Seen,
           u.fate = "executed" <=> op[o].fate = "executed", u.nonce \in Seen,
           u.step = "nonce" => u.answer \in Seen, u.step \notin Reads => u.answer = Unknown
    PROVE  NonceInv'
<1>1. op'[o] = u /\ \A p \in Ops : p # o => op'[p] = op[p]
  BY DEF AccountInv, AccountTypes
<1>2. Executed' = Executed /\ Seen' = Seen
  BY <1>1 DEF Executed, Seen
<1>. QED
  BY <1>1, <1>2 DEF NonceInv, Building

LEMMA NonceStep ==
    ASSUME IsFiniteSet(Ops), AccountInv, NonceInv, [AccountNext]_accountVars
    PROVE  NonceInv'
<1>1. /\ op \in [Ops -> Operations] /\ class \in {"smart", "simple"}
      /\ chain \in [deployed : BOOLEAN, nonce : Nat] /\ account \in Accounts0
  BY DEF AccountInv, AccountTypes, Accounts0
<1>2. InitCodeRead # "nonce"
  BY DEF InitCodeRead
<1>3. /\ account.cachedNonce \in Seen /\ 0 \in Seen /\ chain.nonce \in Seen
      /\ \A o \in Ops : op[o].nonce \in Seen
  BY <1>1 DEF NonceInv, Seen
<1>4. ASSUME NEW o \in Ops, StartBuild(o) PROVE NonceInv'
  <2>1. PICK calls \in CallLists :
          op' = [p \in Ops |->
                   IF p = o
                   THEN Begin(account,
                              [Unbuilt EXCEPT !.calls = calls,
                                 !.sure = \A q \in Ops : ~Outstanding(q)],
                              "deployed1")
                   ELSE [op[p] EXCEPT !.sure = @ /\ ~Outstanding(p)]]
    BY <1>4 DEF StartBuild
  <2> DEFINE alone == \A q \in Ops : ~Outstanding(q)
             u == [Unbuilt EXCEPT !.calls = calls, !.sure = alone]
             new == Begin(account, u, "deployed1")
  <2>2. UNCHANGED <<class, account, chain, overlap>> /\ op[o].fate # "executed"
    BY <1>4 DEF StartBuild, AccountInv, Fates
  <2>3. u \in Operations /\ u.fate = "none" /\ u.nonce = Unknown
    BY DEF Unbuilt, Operations
  <2> HIDE DEF alone, u
  <2>4. /\ new.step = "deployed1" /\ new.fate = "none" /\ new.nonce = Unknown
    <3>1. "deployed1" \in Reads \cup {"built"}
      BY DEF Reads
    <3>. QED
      BY <1>1, <2>3, <3>1, BeginFacts
  <2> HIDE DEF new
  <2>5. op'[o] = new
    BY <2>1 DEF new, u, alone
  <2>6. ASSUME NEW p \in Ops, p # o
        PROVE  /\ op'[p].step = op[p].step /\ op'[p].answer = op[p].answer
               /\ op'[p].fate = op[p].fate /\ op'[p].nonce = op[p].nonce
    <3> DEFINE s == op[p].sure /\ ~Outstanding(p)
    <3>1. op'[p] = [op[p] EXCEPT !.sure = s] /\ op[p] \in Operations
      BY <1>1, <2>1, <2>6
    <3> HIDE DEF s
    <3>. QED
      BY <3>1 DEF Operations
  <2>7. Executed' = Executed /\ Seen' = Seen
    BY <2>2, <2>4, <2>5, <2>6 DEF Executed, Seen
  <2>8. "deployed1" \in Reads
    BY DEF Reads
  <2>9. ASSUME NEW p \in Ops
        PROVE  /\ op'[p].nonce \in Seen
               /\ op'[p].step = "nonce" => op'[p].answer \in Seen
               /\ op'[p].step \notin Reads => op'[p].answer = Unknown
    <3>1. CASE p = o
      BY <2>4, <2>5, <2>8, <3>1 DEF Seen
    <3>2. CASE p # o
      BY <2>6, <3>2 DEF NonceInv, Building
    <3>. QED
      BY <3>1, <3>2
  <2>. QED
    BY <1>3, <2>2, <2>7, <2>9 DEF NonceInv, Building
<1>5. ASSUME NEW o \in Ops, NodeAnswers(o) PROVE NonceInv'
  <2> DEFINE answer == IF op[o].step = "nonce" THEN chain.nonce ELSE chain.deployed
             u == [op[o] EXCEPT !.answer = answer]
  <2>1. /\ op[o].step \in Reads /\ UNCHANGED <<class, account, chain, overlap>>
        /\ op' = [op EXCEPT ![o] = u]
    BY <1>5 DEF NodeAnswers, Building
  <2>2. answer \in BOOLEAN \cup Nat \cup {Unknown} /\ (op[o].step = "nonce" => answer \in Seen)
    BY <1>1, <1>3
  <2> HIDE DEF answer
  <2>3. /\ u \in Operations /\ u.step = op[o].step /\ u.fate = op[o].fate
        /\ u.answer = answer /\ u.nonce = op[o].nonce
    BY <1>1, <2>2 DEF Operations
  <2> HIDE DEF u
  <2>. QED
    BY <1>3, <2>1, <2>2, <2>3, SeenByOne
<1>6. ASSUME NEW o \in Ops, ReadEnds(o) PROVE NonceInv'
  <2> DEFINE answer == op[o].answer
             d == Decide(op[o], answer)
  <2>1. PICK step \in StepsAfter(op[o].step, answer) :
          op' = [op EXCEPT ![o] = Begin(account', d, step)]
    BY <1>6 DEF ReadEnds
  <2> DEFINE new == Begin(account', d, step)
  <2>2. /\ Building(o) /\ answer # Unknown /\ UNCHANGED <<class, chain, overlap>>
        /\ account' = IF op[o].cached THEN account
                      ELSE IF op[o].step = "nonce"
                      THEN [account EXCEPT !.cachedNonce = answer]
                      ELSE [account EXCEPT !.isDeployed = answer]
    BY <1>6 DEF ReadEnds
  <2>3. /\ op[o] \in Operations /\ op[o].step \in Reads
        /\ op[o].step = "nonce" => answer \in Nat /\ answer \in Seen
        /\ op[o].step # "nonce" => answer \in BOOLEAN
        /\ op[o].step = "gas" => class = "simple"
    BY <1>1, <2>2 DEF AccountInv, AnswerTypes, Building, NonceInv
  <2>4. account' \in Accounts0 /\ account'.cachedNonce \in Seen
    BY <1>1, <1>3, <2>2, <2>3 DEF Accounts0
  <2>5. step \in Reads \cup {"built"}
    BY <1>1, <2>1, <2>3, StepsAfterFacts
  <2>6. /\ d \in Operations /\ d.fate = op[o].fate
        /\ d.nonce = IF op[o].step = "nonce" THEN answer
                     ELSE IF op[o].step = NonceGate /\ ~answer THEN 0 ELSE op[o].nonce
    BY <1>2, <2>3, DecideFacts
  <2> HIDE DEF d
  <2>7. /\ new \in Operations /\ new.step = step
        /\ new.answer = IF step = "built" THEN Unknown ELSE Field(account', step)
        /\ new.nonce = d.nonce /\ new.fate = d.fate
    BY <2>4, <2>5, <2>6, BeginFacts
  <2> HIDE DEF new
  <2>8. op' = [op EXCEPT ![o] = new]
    BY <2>1 DEF new
  <2>9. new.nonce \in Seen
    BY <1>3, <2>3, <2>6, <2>7
  <2>10. /\ new.step = "nonce" => new.answer \in Seen
         /\ new.step \notin Reads => new.answer = Unknown
    BY <2>4, <2>5, <2>7 DEF Field
  <2>. QED
    BY <2>2, <2>4, <2>6, <2>7, <2>8, <2>9, <2>10, SeenByOne
<1>7. ASSUME NEW o \in Ops, ReadFails(o) PROVE NonceInv'
  <2> DEFINE w == [op[o] EXCEPT !.sure = FALSE]
             d == Decide(w, FALSE)
  <2>1. /\ op[o].step \in Reads /\ UNCHANGED <<class, account, chain, overlap>>
        /\ \/ op[o].step = "nonce"
              /\ op' = [op EXCEPT ![o].step = "failed", ![o].answer = Unknown]
           \/ op[o].step # "nonce"
              /\ \E step \in StepsAfter(w.step, FALSE) :
                    op' = [op EXCEPT ![o] = Begin(account, d, step)]
    BY <1>1, <1>7 DEF ReadFails, Operations, Building
  <2>2. /\ w \in Operations /\ w.step = op[o].step /\ w.fate = op[o].fate
        /\ w.nonce = op[o].nonce /\ (op[o].step = "gas" => class = "simple")
    BY <1>1 DEF Operations, AccountInv
  <2> HIDE DEF w
  <2>3. CASE op[o].step = "nonce"
    <3> DEFINE new == [op[o] EXCEPT !.step = "failed", !.answer = Unknown]
    <3>1. op' = [op EXCEPT ![o] = new]
      BY <2>1, <2>3
    <3>2. /\ new \in Operations /\ new.step = "failed" /\ new.fate = op[o].fate
          /\ new.nonce = op[o].nonce /\ new.answer = Unknown
      BY <1>1 DEF Operations
    <3> HIDE DEF new
    <3>. QED
      BY <1>3, <2>1, <3>1, <3>2, SeenByOne
  <2>4. CASE op[o].step # "nonce"
    <3>1. PICK step \in StepsAfter(w.step, FALSE) :
            op' = [op EXCEPT ![o] = Begin(account, d, step)]
      BY <2>1, <2>4
    <3> DEFINE new == Begin(account, d, step)
    <3>2. step \in Reads \cup {"built"}
      BY <1>1, <2>1, <2>2, <3>1, StepsAfterFacts
    <3>3. /\ d \in Operations /\ d.fate = op[o].fate
          /\ d.nonce = IF w.step = NonceGate THEN 0 ELSE op[o].nonce
      BY <1>2, <2>2, <2>4, DecideFacts
    <3> HIDE DEF d
    <3>4. /\ new \in Operations /\ new.step = step
          /\ new.answer = IF step = "built" THEN Unknown ELSE Field(account, step)
          /\ new.nonce = d.nonce /\ new.fate = d.fate
      BY <1>1, <3>2, <3>3, BeginFacts
    <3> HIDE DEF new
    <3>5. op' = [op EXCEPT ![o] = new] /\ new.nonce \in Seen
      BY <1>3, <3>1, <3>3, <3>4 DEF new
    <3>6. /\ new.step = "nonce" => new.answer \in Seen
          /\ new.step \notin Reads => new.answer = Unknown
      BY <1>3, <3>2, <3>4 DEF Field
    <3>. QED
      BY <1>3, <2>1, <3>3, <3>4, <3>5, <3>6, SeenByOne
  <2>. QED
    BY <2>3, <2>4
<1>8. ASSUME NEW o \in Ops,
             SendUserOperation(o) \/ NotSent(o) \/ WaitTimesOut(o) \/ WaitEnds(o)
      PROVE  NonceInv'
  <2>1. PICK u : op' = [op EXCEPT ![o] = u] /\ u \in Operations /\ u.answer = op[o].answer
                 /\ u.nonce = op[o].nonce /\ u.step \notin Reads
                 /\ (u.fate = "executed" <=> op[o].fate = "executed")
    <3>1. CASE SendUserOperation(o)
      <4>1. PICK step \in {"sent", "unsure"} :
              op' = [op EXCEPT ![o].step = step, ![o].fate = "pooled"]
        BY <3>1 DEF SendUserOperation
      <4>2. op[o].step = "built" /\ op[o].fate # "executed"
        BY <3>1 DEF SendUserOperation, AccountInv, Fates
      <4>3. [op[o] EXCEPT !.step = step, !.fate = "pooled"] \in Operations
        BY <1>1 DEF Operations
      <4>. QED
        BY <1>1, <4>1, <4>2, <4>3 DEF Operations, Reads
    <3>2. CASE NotSent(o)
      <4>1. op' = [op EXCEPT ![o] = [op[o] EXCEPT !.step = "failed"]]
        BY <3>2 DEF NotSent
      <4>2. /\ [op[o] EXCEPT !.step = "failed"] \in Operations
            /\ [op[o] EXCEPT !.step = "failed"].step = "failed"
        BY <1>1 DEF Operations
      <4>. QED
        BY <1>1, <4>1, <4>2 DEF Operations, Reads
    <3>3. CASE WaitTimesOut(o)
      <4>1. op' = [op EXCEPT ![o] = [op[o] EXCEPT !.step = "unsure"]]
        BY <3>3 DEF WaitTimesOut
      <4>2. /\ [op[o] EXCEPT !.step = "unsure"] \in Operations
            /\ [op[o] EXCEPT !.step = "unsure"].step = "unsure"
        BY <1>1 DEF Operations
      <4>. QED
        BY <1>1, <4>1, <4>2 DEF Operations, Reads
    <3>4. CASE WaitEnds(o)
      <4>1. op' = [op EXCEPT ![o] = [op[o] EXCEPT !.step = "confirmed"]]
        BY <3>4 DEF WaitEnds
      <4>2. /\ [op[o] EXCEPT !.step = "confirmed"] \in Operations
            /\ [op[o] EXCEPT !.step = "confirmed"].step = "confirmed"
        BY <1>1 DEF Operations
      <4>. QED
        BY <1>1, <4>1, <4>2 DEF Operations, Reads
    <3>. QED
      BY <1>8, <3>1, <3>2, <3>3, <3>4
  <2>2. op[o].step \notin Reads /\ chain' = chain /\ account'.cachedNonce \in Seen
    BY <1>3, <1>8 DEF SendUserOperation, NotSent, WaitTimesOut, WaitEnds, Reads, Seen
  <2>3. u.answer = Unknown /\ u.step # "nonce"
    BY <2>1, <2>2 DEF NonceInv, Building, Reads
  <2>. QED
    BY <1>3, <2>1, <2>2, <2>3, SeenByOne
<1>9. ASSUME NEW o \in Ops, Executes(o) PROVE NonceInv'
  <2>1. /\ op[o].fate = "pooled" /\ account' = account
        /\ op' = [op EXCEPT ![o].fate = "executed"] /\ chain'.nonce = chain.nonce + 1
    BY <1>9 DEF Executes
  <2>2. /\ op'[o].fate = "executed" /\ op'[o].step = op[o].step
        /\ op'[o].answer = op[o].answer /\ op'[o].nonce = op[o].nonce
        /\ \A p \in Ops : p # o => op'[p] = op[p]
    BY <1>1, <2>1 DEF Operations
  <2>3. Executed' = Executed \cup {o} /\ o \notin Executed
    BY <2>1, <2>2 DEF Executed
  <2>4. Cardinality(Executed') = Cardinality(Executed) + 1
    <3>1. IsFiniteSet(Executed)
      BY FS_Subset DEF Executed
    <3>. QED
      BY <2>3, <3>1, FS_AddElement
  <2>5. Seen \subseteq Seen'
    BY <1>1, <2>1 DEF Seen
  <2>6. ASSUME NEW p \in Ops
        PROVE  /\ op'[p].nonce = op[p].nonce /\ op'[p].step = op[p].step
               /\ op'[p].answer = op[p].answer
    BY <2>2
  <2>. QED
    BY <1>3, <2>1, <2>4, <2>5, <2>6 DEF NonceInv, Building
<1>10. ASSUME UNCHANGED accountVars PROVE NonceInv'
  BY <1>10 DEF NonceInv, Executed, Seen, Building, accountVars
<1>. QED
  BY <1>4, <1>5, <1>6, <1>7, <1>8, <1>9, <1>10 DEF AccountNext

\* The EntryPoint's nonce counts the executed operations, and no field, answer or
\* operation ever holds one that is ahead of it, for every finite set of operations
\* (the cached fields of smart-wallet.ts); everything else keeps to its type, too.
THEOREM AccountTypesKept ==
    ASSUME IsFiniteSet(Ops)
    PROVE  AccountSpec => []AccountTypeOK
<1>1. AccountInv /\ NonceInv => AccountTypeOK
  <2> SUFFICES ASSUME AccountInv, NonceInv PROVE AccountTypeOK
    OBVIOUS
  <2>1. Seen \subseteq Nonces \cup {Unknown} /\ chain.nonce \in Nonces
    <3>1. Cardinality(Executed) <= Cardinality(Ops) /\ Cardinality(Ops) \in Nat
      BY FS_Subset, FS_CardinalityType DEF Executed
    <3>. QED
      BY <3>1 DEF NonceInv, Seen, Nonces, AccountInv, AccountTypes
  <2>2. ASSUME NEW o \in Ops, op[o].answer # Unknown
        PROVE  op[o].answer \in IF op[o].step = "nonce" THEN Nonces ELSE BOOLEAN
    BY <2>1, <2>2 DEF NonceInv, AccountInv, AnswerTypes
  <2>3. /\ class \in {"smart", "simple"} /\ op \in [Ops -> Operations] /\ overlap \in BOOLEAN
        /\ account \in [isDeployed : BOOLEAN \cup {Unknown}, cachedNonce : Nat \cup {Unknown}]
        /\ chain \in [deployed : BOOLEAN, nonce : Nat]
    BY DEF AccountInv, AccountTypes
  <2>4. account.cachedNonce \in Seen /\ \A o \in Ops : op[o].nonce \in Seen
    BY DEF NonceInv
  <2>. QED
    BY <2>1, <2>2, <2>3, <2>4 DEF AccountTypeOK, Operations
<1>2. AccountInv /\ NonceInv /\ [AccountNext]_accountVars => NonceInv'
  BY NonceStep
<1>. QED
  BY <1>1, <1>2, AccountInitial, AccountStep, NonceInitial, PTL DEF AccountSpec

-----------------------------------------------------------------------------
(* ChainSync.                                                               *)

SdkStates ==
    [chainId : Chains, custom : SUBSET Custom, provider : 0 .. MaxProviders,
     wallet : Optional([chainId : Chains, rpc : Chains]),
     walletInfo : Optional(Chains), status : Statuses, loggedIn : BOOLEAN]
ProviderStates == [chainId : Chains, custom : SUBSET Custom, connected : BOOLEAN]
SwitchStates ==
    [step : {"idle", "provider", "key", "info"}, target : Optional(Chains),
     built : Optional(Chains)]

ChainTypes ==
    /\ sdk \in SdkStates /\ manager \in Chains
    /\ providers \in [Providers -> Optional(ProviderStates)]
    /\ sdk.provider # 0 => Provider \in ProviderStates
    /\ switch \in [Switches -> SwitchStates]
    /\ queue \in Seq(Switches) /\ fetching \in Optional(Chains)
    /\ mishap \in {"none", "info", "chain"}

\* The calls at their provider are those in the queue, each once.
Queued ==
    /\ \A n \in 1 .. Len(queue) : /\ switch[queue[n]].step = "provider"
                                  /\ switch[queue[n]].target \in Chains
    /\ \A m, n \in 1 .. Len(queue) : queue[m] = queue[n] => m = n
    /\ \A s \in Switches : switch[s].step = "provider" => \E n \in 1 .. Len(queue) : queue[n] = s

\* The call that is last in the queue decides; until then the SDK is on its chain
\* or on the provider's.
LastDecides ==
    /\ queue = <<>> =>
          /\ manager = sdk.chainId
          /\ sdk.provider # 0 => Provider.chainId = sdk.chainId
          /\ sdk.wallet # NoChain /\ (\A s \in Switches : switch[s].step # "key") =>
                sdk.wallet = SmartWalletOf(sdk.chainId, sdk.chainId)
    /\ queue # <<>> =>
          /\ switch[queue[Len(queue)]].target = manager
          /\ \/ sdk.chainId = manager
             \/ sdk.provider # 0 /\ Provider.chainId = sdk.chainId

\* Without a mishap one call runs at a time, and the info it waits for is current.
OneAtATime ==
    /\ manager = sdk.chainId
    /\ \A s, t \in Switches : Running(s) /\ Running(t) => s = t
    /\ fetching # NoChain => fetching = sdk.chainId /\ \A s \in Switches : ~Running(s)
    /\ \A s \in Switches : switch[s].step = "info" => switch[s].built = sdk.chainId
    /\ ~Busy /\ sdk.wallet # NoChain => sdk.walletInfo = sdk.chainId

ChainInv ==
    /\ ChainTypes
    /\ Queued
    /\ mishap # "chain" => LastDecides
    /\ mishap = "none" => OneAtATime

LEMMA ChainInitial == ChainInit => ChainInv
<1> SUFFICES ASSUME ChainInit PROVE ChainInv
  OBVIOUS
<1>1. PICK c \in BuiltIn :
        /\ sdk = [chainId |-> c, custom |-> {}, provider |-> 0,
                  wallet |-> [chainId |-> c, rpc |-> c], walletInfo |-> c,
                  status |-> "disconnected", loggedIn |-> TRUE]
        /\ manager = c
  BY DEF ChainInit
<1>2. /\ providers = [i \in Providers |-> NoChain] /\ switch = [s \in Switches |-> Idle]
      /\ queue = <<>> /\ fetching = NoChain /\ mishap = "none"
  BY DEF ChainInit
<1>3. c \in Chains /\ MaxProviders \in Nat
  BY ChainAssumption DEF Chains
<1>4. sdk \in SdkStates
  BY <1>1, <1>3 DEF SdkStates, Optional, Statuses
<1>5. Idle \in SwitchStates
  BY DEF Idle, SwitchStates, Optional
<1>6. ChainTypes
  BY <1>1, <1>2, <1>3, <1>4, <1>5 DEF ChainTypes, Optional
<1>7. \A s \in Switches : switch[s].step = "idle" /\ ~Running(s)
  BY <1>2 DEF Idle, Running
<1>8. Queued
  BY <1>2, <1>7 DEF Queued
<1>. QED
  BY <1>1, <1>2, <1>6, <1>7, <1>8 DEF ChainInv, LastDecides, OneAtATime, SmartWalletOf

\* A step that leaves the calls, the chain and the wallet alone, and the current
\* provider on its chain or on the SDK's.
LEMMA SameChain ==
    ASSUME ChainInv, UNCHANGED <<manager, switch, queue, fetching, mishap>>,
           sdk' \in SdkStates, sdk'.chainId = sdk.chainId, sdk'.wallet = sdk.wallet,
           sdk'.walletInfo = sdk.walletInfo, sdk.provider # 0 => sdk'.provider # 0,
           providers' \in [Providers -> Optional(ProviderStates)],
           sdk'.provider # 0 =>
               /\ Provider' \in ProviderStates
               /\ \/ Provider'.chainId = sdk.chainId
                  \/ sdk.provider # 0 /\ Provider'.chainId = Provider.chainId
    PROVE  ChainInv'
<1>1. ChainTypes'
  BY DEF ChainInv, ChainTypes
<1>2. Queued'
  BY DEF ChainInv, Queued
<1>3. mishap' # "chain" => LastDecides'
  BY DEF ChainInv, LastDecides, SmartWalletOf
<1>4. mishap' = "none" => OneAtATime'
  BY DEF ChainInv, OneAtATime, Busy, Running
<1>. QED
  BY <1>1, <1>2, <1>3, <1>4 DEF ChainInv

\* A change of a provider that keeps its chain.
LEMMA ChangedProvider ==
    ASSUME ChainInv, NEW i \in Providers, Exists(i), NEW p \in ProviderStates,
           p.chainId = providers[i].chainId, providers' = [providers EXCEPT ![i] = p],
           UNCHANGED <<manager, switch, queue, fetching, mishap>>,
           sdk' \in SdkStates, sdk'.chainId = sdk.chainId, sdk'.wallet = sdk.wallet,
           sdk'.walletInfo = sdk.walletInfo, sdk'.provider = sdk.provider
    PROVE  ChainInv'
<1>1. providers' \in [Providers -> Optional(ProviderStates)]
  BY DEF ChainInv, ChainTypes, Optional
<1>2. ASSUME sdk'.provider # 0
      PROVE  Provider' \in ProviderStates /\ Provider'.chainId = Provider.chainId
  <2>1. sdk.provider \in Providers
    BY <1>2, ChainAssumption DEF ChainInv, ChainTypes, SdkStates, Providers
  <2>. QED
    BY <1>2, <2>1 DEF ChainInv, ChainTypes, Provider
<1>. QED
  BY <1>1, <1>2, SameChain

LEMMA ChainStep == ChainInv /\ [ChainNext]_chainVars => ChainInv'
<1> SUFFICES ASSUME ChainInv, [ChainNext]_chainVars PROVE ChainInv'
  OBVIOUS
<1>1. /\ sdk \in SdkStates /\ manager \in Chains
      /\ providers \in [Providers -> Optional(ProviderStates)]
      /\ sdk.provider # 0 => Provider \in ProviderStates /\ sdk.provider \in Providers
      /\ switch \in [Switches -> SwitchStates] /\ MaxProviders \in Nat
      /\ queue \in Seq(Switches) /\ fetching \in Optional(Chains)
      /\ mishap \in {"none", "info", "chain"} /\ BuiltIn \subseteq Chains
      /\ Custom \subseteq Chains
  BY ChainAssumption DEF ChainInv, ChainTypes, SdkStates, Providers, Chains
<1>2. \A i \in Providers : Exists(i) => providers[i] \in ProviderStates
  BY <1>1 DEF Exists, Optional
<1>3. InfoMayBeStale \in {"info", "chain"} /\ (InfoMayBeStale = "chain" <=> mishap = "chain")
  BY DEF InfoMayBeStale
<1>4. \A from, to \in Statuses : Transition(from, to) \in Statuses
  BY DEF Transition
<1>5. \A s \in Switches : switch[s].step # "idle" => Running(s)
  BY DEF Running, Idle
<1>6. ASSUME Connect PROVE ChainInv'
  <2> DEFINE i == sdk.provider + 1
             p == [chainId |-> sdk.chainId, custom |-> {}, connected |-> TRUE]
             status == Transition(Transition(sdk.status, "connecting"), "connected")
  <2>1. /\ sdk.provider < MaxProviders /\ UNCHANGED <<manager, switch, queue, fetching, mishap>>
        /\ providers' = [providers EXCEPT ![i] = p]
        /\ sdk' = [sdk EXCEPT !.provider = i, !.status = status]
    BY <1>6 DEF Connect
  <2>2. i \in Providers /\ i \in 0 .. MaxProviders /\ i # 0
    BY <1>1, <2>1 DEF Providers, SdkStates
  <2>3. p \in ProviderStates
    BY <1>1 DEF ProviderStates, SdkStates
  <2>4. status \in Statuses
    BY <1>1, <1>4 DEF Statuses, SdkStates
  <2> HIDE DEF i, status
  <2>5. sdk' \in SdkStates /\ sdk'.provider = i /\ sdk'.chainId = sdk.chainId
        /\ sdk'.wallet = sdk.wallet /\ sdk'.walletInfo = sdk.walletInfo
    BY <1>1, <2>1, <2>2, <2>4 DEF SdkStates
  <2>6. providers' \in [Providers -> Optional(ProviderStates)] /\ providers'[i] = p
    BY <1>1, <2>1, <2>2, <2>3 DEF Optional
  <2>7. Provider' = p
    BY <2>5, <2>6 DEF Provider
  <2>8. p.chainId = sdk.chainId
    OBVIOUS
  <2>. QED
    BY <2>1, <2>2, <2>3, <2>5, <2>6, <2>7, <2>8, SameChain
<1>7. ASSUME NEW c \in Custom, AddChain(c) PROVE ChainInv'
  <2>1. /\ sdk' = [sdk EXCEPT !.custom = @ \cup {c}]
        /\ providers' = IF sdk.provider = 0 THEN providers
                        ELSE [providers EXCEPT ![sdk.provider].custom = Provider.custom \cup {c}]
        /\ UNCHANGED <<manager, switch, queue, fetching, mishap>>
    BY <1>7 DEF AddChain
  <2>2. sdk.custom \cup {c} \in SUBSET Custom
    BY <1>1 DEF SdkStates
  <2>3. sdk' \in SdkStates /\ sdk'.provider = sdk.provider /\ sdk'.chainId = sdk.chainId
        /\ sdk'.wallet = sdk.wallet /\ sdk'.walletInfo = sdk.walletInfo
    BY <1>1, <2>1, <2>2 DEF SdkStates
  <2>4. CASE sdk.provider = 0
    BY <1>1, <2>1, <2>3, <2>4, SameChain
  <2>5. CASE sdk.provider # 0
    <3> DEFINE p == [Provider EXCEPT !.custom = Provider.custom \cup {c}]
    <3>1. p \in ProviderStates /\ p.chainId = Provider.chainId
      BY <1>1, <2>5 DEF ProviderStates
    <3>2. providers' = [providers EXCEPT ![sdk.provider] = p]
      BY <1>1, <2>1, <2>5 DEF Provider
    <3>3. providers' \in [Providers -> Optional(ProviderStates)]
      BY <1>1, <2>5, <3>1, <3>2 DEF Optional
    <3>4. Provider' = p
      BY <1>1, <2>3, <2>5, <3>2 DEF Provider
    <3>. QED
      BY <2>1, <2>3, <2>5, <3>1, <3>3, <3>4, SameChain
  <2>. QED
    BY <2>4, <2>5
<1>8. ASSUME NEW i \in Providers, DappAdds(i) PROVE ChainInv'
  <2>1. PICK c \in Custom :
          providers' = [providers EXCEPT ![i].custom = providers[i].custom \cup {c}]
    BY <1>8 DEF DappAdds
  <2>2. Exists(i) /\ UNCHANGED <<sdk, manager, switch, queue, fetching, mishap>>
    BY <1>8 DEF DappAdds
  <2> DEFINE p == [providers[i] EXCEPT !.custom = providers[i].custom \cup {c}]
  <2>3. p \in ProviderStates /\ p.chainId = providers[i].chainId
    BY <1>2, <2>2 DEF ProviderStates
  <2>4. providers' = [providers EXCEPT ![i] = p]
    BY <1>1, <2>1
  <2>. QED
    BY <1>1, <2>2, <2>3, <2>4, ChangedProvider
<1>9. ASSUME NEW i \in Providers, NEW connected \in BOOLEAN, Exists(i),
             providers' = [providers EXCEPT ![i].connected = connected],
             UNCHANGED <<sdk, manager, switch, queue, fetching, mishap>>
      PROVE ChainInv'
  <2> DEFINE p == [providers[i] EXCEPT !.connected = connected]
  <2>1. p \in ProviderStates /\ p.chainId = providers[i].chainId
    BY <1>2, <1>9 DEF ProviderStates
  <2>2. providers' = [providers EXCEPT ![i] = p]
    BY <1>1, <1>9
  <2>. QED
    BY <1>1, <1>9, <2>1, <2>2, ChangedProvider
<1>10. ASSUME NEW i \in Providers, RequestAccounts(i) PROVE ChainInv'
  BY <1>9, <1>10 DEF RequestAccounts
<1>11. ASSUME DisconnectProvider PROVE ChainInv'
  <2>1. sdk.provider \in Providers /\ Provider \in ProviderStates
    BY <1>1, <1>11 DEF DisconnectProvider
  <2>2. providers' = [providers EXCEPT ![sdk.provider].connected = FALSE]
        /\ UNCHANGED <<sdk, manager, switch, queue, fetching, mishap>>
    BY <1>11 DEF DisconnectProvider
  <2> DEFINE p == [Provider EXCEPT !.connected = FALSE]
  <2>3. p \in ProviderStates /\ p.chainId = Provider.chainId
    BY <2>1 DEF ProviderStates
  <2>4. providers' = [providers EXCEPT ![sdk.provider] = p]
    BY <1>1, <2>2 DEF Provider
  <2>5. providers' \in [Providers -> Optional(ProviderStates)] /\ Provider' = p
    BY <1>1, <2>1, <2>2, <2>3, <2>4 DEF Optional, Provider
  <2>. QED
    BY <1>1, <2>1, <2>2, <2>3, <2>5, SameChain
<1>12. ASSUME NEW i \in Providers, DappSwitches(i) PROVE ChainInv'
  <2>1. PICK c \in Chains : /\ Exists(i) /\ providers' = SwitchedProvider(i, c)
                            /\ sdk' = ChainChanged(i, c)
    BY <1>12 DEF DappSwitches
  <2>2. mishap' = "chain" /\ UNCHANGED <<manager, switch, queue, fetching>>
    BY <1>12 DEF DappSwitches
  <2> DEFINE p == [providers[i] EXCEPT !.chainId = c]
  <2>3. p \in ProviderStates /\ providers' = [providers EXCEPT ![i] = p]
    BY <1>1, <1>2, <2>1 DEF SwitchedProvider, ProviderStates
  <2>4. sdk' \in SdkStates /\ sdk'.provider = sdk.provider
    BY <1>1, <2>1 DEF ChainChanged, SdkStates
  <2>5. ChainTypes'
    BY <1>1, <2>2, <2>3, <2>4 DEF ChainTypes, Optional, Provider
  <2>. QED
    BY <2>2, <2>5 DEF ChainInv, Queued
<1>13. ASSUME Logout \/ Login \/ LoginInfoArrives PROVE ChainInv'
  <2> DEFINE same == UNCHANGED <<manager, providers, switch, queue>>
  <2>1. CASE Logout
    <3>1. /\ sdk' = [sdk EXCEPT !.loggedIn = FALSE, !.wallet = NoChain, !.status = "disconnected"]
          /\ mishap' = IF Busy THEN InfoMayBeStale ELSE mishap
          /\ UNCHANGED <<manager, providers, switch, queue, fetching>>
      BY <2>1 DEF Logout
    <3>2. /\ sdk' \in SdkStates /\ sdk'.provider = sdk.provider /\ sdk'.chainId = sdk.chainId
          /\ sdk'.wallet = NoChain
      BY <1>1, <3>1 DEF SdkStates, Optional, Statuses
    <3>3. ChainTypes' /\ Queued'
      BY <1>1, <1>3, <3>1, <3>2 DEF ChainInv, ChainTypes, Provider, Queued
    <3>4. mishap' # "chain" => LastDecides'
      BY <1>3, <3>1, <3>2 DEF ChainInv, LastDecides, Provider
    <3>5. mishap' = "none" => OneAtATime'
      BY <1>3, <3>1, <3>2 DEF ChainInv, OneAtATime, Running
    <3>. QED
      BY <3>3, <3>4, <3>5 DEF ChainInv
  <2>2. CASE Login
    <3> DEFINE w == SmartWalletOf(sdk.chainId, manager)
    <3>1. /\ sdk' = [sdk EXCEPT !.loggedIn = TRUE, !.wallet = w]
          /\ fetching = NoChain /\ fetching' = sdk.chainId
          /\ mishap' = IF Busy THEN InfoMayBeStale ELSE mishap
          /\ UNCHANGED <<manager, providers, switch, queue>>
      BY <2>2 DEF Login
    <3>2. w \in Optional([chainId : Chains, rpc : Chains])
      BY <1>1 DEF SmartWalletOf, SdkStates, Optional
    <3>3. /\ sdk' \in SdkStates /\ sdk'.provider = sdk.provider /\ sdk'.chainId = sdk.chainId
          /\ sdk'.wallet = w
      BY <1>1, <3>1, <3>2 DEF SdkStates
    <3>4. ChainTypes' /\ Queued'
      BY <1>1, <1>3, <3>1, <3>3 DEF ChainInv, ChainTypes, Provider, Queued, Optional, SdkStates
    <3>5. mishap' # "chain" => LastDecides'
      BY <1>3, <3>1, <3>3 DEF ChainInv, LastDecides, Provider, SmartWalletOf
    <3>6. sdk.chainId # NoChain
      BY <1>1, ChainAssumption DEF SdkStates
    <3>7. ASSUME mishap' = "none" PROVE OneAtATime'
      <4>1. ~Busy /\ mishap = "none"
        BY <1>3, <3>1, <3>7
      <4>2. \A s \in Switches : ~Running(s) /\ ~Running(s)'
        BY <3>1, <4>1 DEF Busy, Running
      <4>3. \A s \in Switches : switch'[s].step = "info" => FALSE
        BY <1>5, <3>1, <4>2
      <4>. QED
        BY <3>1, <3>3, <3>6, <4>1, <4>2, <4>3 DEF ChainInv, OneAtATime, Busy
    <3>. QED
      BY <3>4, <3>5, <3>7 DEF ChainInv
  <2>3. CASE LoginInfoArrives
    <3>1. /\ fetching # NoChain /\ fetching' = NoChain
          /\ UNCHANGED <<manager, providers, switch, queue>>
          /\ \/ sdk' = [sdk EXCEPT !.walletInfo = fetching] /\ UNCHANGED mishap
             \/ mishap' = InfoMayBeStale /\ UNCHANGED sdk
      BY <2>3 DEF LoginInfoArrives
    <3>2. /\ sdk' \in SdkStates /\ sdk'.provider = sdk.provider /\ sdk'.chainId = sdk.chainId
          /\ sdk'.wallet = sdk.wallet
          /\ sdk'.walletInfo = fetching \/ mishap' = InfoMayBeStale
      BY <1>1, <3>1 DEF SdkStates
    <3>3. ChainTypes' /\ Queued'
      BY <1>1, <1>3, <3>1, <3>2 DEF ChainInv, ChainTypes, Provider, Queued, Optional
    <3>4. mishap' # "chain" => LastDecides'
      BY <1>3, <3>1, <3>2 DEF ChainInv, LastDecides, Provider
    <3>5. mishap' = "none" => OneAtATime'
      BY <1>3, <3>1, <3>2 DEF ChainInv, OneAtATime, Running
    <3>. QED
      BY <3>3, <3>4, <3>5 DEF ChainInv
  <2>. QED
    BY <1>13, <2>1, <2>2, <2>3
<1>14. ASSUME NEW s \in Switches, SwitchChain(s) PROVE ChainInv'
  <2>1. PICK c \in BuiltIn \cup sdk.custom :
          /\ sdk' = [sdk EXCEPT !.chainId = c] /\ manager' = c
          /\ switch' = [switch EXCEPT ![s].step = "provider", ![s].target = c]
    BY <1>14 DEF SwitchChain
  <2>2. /\ ~Running(s) /\ queue' = Append(queue, s)
        /\ mishap' = IF Busy THEN InfoMayBeStale ELSE "none"
        /\ UNCHANGED <<providers, fetching>>
    BY <1>14 DEF SwitchChain
  <2>3. c \in Chains
    BY <1>1, <2>1 DEF SdkStates
  <2> DEFINE u == [switch[s] EXCEPT !.step = "provider", !.target = c]
  <2>4. /\ u \in SwitchStates /\ u.step = "provider" /\ u.target = c
        /\ switch'[s] = u /\ \A t \in Switches : t # s => switch'[t] = switch[t]
        /\ switch' \in [Switches -> SwitchStates]
    BY <1>1, <2>1, <2>3 DEF SwitchStates, Optional
  <2> HIDE DEF u
  <2>5. /\ sdk' \in SdkStates /\ sdk'.provider = sdk.provider /\ sdk'.chainId = c
        /\ sdk'.wallet = sdk.wallet /\ sdk'.walletInfo = sdk.walletInfo
    BY <1>1, <2>1, <2>3 DEF SdkStates
  <2>6. /\ queue' \in Seq(Switches) /\ Len(queue') = Len(queue) + 1 /\ queue' # <<>>
        /\ queue'[Len(queue')] = s /\ Len(queue) \in Nat
        /\ \A n \in 1 .. Len(queue) : queue'[n] = queue[n] /\ queue[n] \in Switches
    BY <1>1, <2>2
  <2>7. \A n \in 1 .. Len(queue) : queue[n] # s
    BY <1>5, <2>2 DEF ChainInv, Queued
  <2>8. ChainTypes'
    BY <1>1, <1>3, <2>1, <2>2, <2>3, <2>4, <2>5, <2>6 DEF ChainTypes, Provider
  <2>9. Queued'
    <3>1. \A n \in 1 .. Len(queue') : n = Len(queue') \/ n \in 1 .. Len(queue)
      BY <2>6
    <3>2. \A n \in 1 .. Len(queue') :
             switch'[queue'[n]].step = "provider" /\ switch'[queue'[n]].target \in Chains
      BY <2>3, <2>4, <2>6, <2>7, <3>1 DEF ChainInv, Queued
    <3>3. \A m, n \in 1 .. Len(queue') : queue'[m] = queue'[n] => m = n
      BY <2>6, <2>7, <3>1 DEF ChainInv, Queued
    <3>4. ASSUME NEW t \in Switches, switch'[t].step = "provider"
          PROVE  \E n \in 1 .. Len(queue') : queue'[n] = t
      <4>1. CASE t = s
        BY <2>6, <4>1
      <4>2. CASE t # s
        <5>1. PICK n \in 1 .. Len(queue) : queue[n] = t
          BY <2>4, <3>4, <4>2 DEF ChainInv, Queued
        <5>. QED
          BY <2>6, <5>1
      <4>. QED
        BY <4>1, <4>2
    <3>. QED
      BY <3>2, <3>3, <3>4 DEF Queued
  <2>10. LastDecides'
    BY <2>1, <2>4, <2>5, <2>6 DEF LastDecides
  <2>11. ASSUME mishap' = "none" PROVE OneAtATime'
    <3>1. ~Busy
      BY <1>3, <2>2, <2>11
    <3>2. \A t \in Switches : t # s => ~Running(t)'
      BY <2>4, <3>1 DEF Busy, Running
    <3>3. Running(s)'
      BY <2>4 DEF Running, Idle
    <3>4. \A t \in Switches : switch'[t].step # "info"
      BY <1>5, <2>4, <3>1 DEF Busy
    <3>. QED
      BY <2>1, <2>2, <2>5, <3>1, <3>2, <3>3, <3>4 DEF OneAtATime, Busy
  <2>. QED
    BY <2>8, <2>9, <2>10, <2>11 DEF ChainInv
<1>15. ASSUME NEW s \in Switches, RebuildWallet(s) PROVE ChainInv'
  <2>1. /\ switch[s].step = "key"
        /\ UNCHANGED <<manager, providers, queue, fetching, mishap>>
        /\ \/ /\ sdk.wallet = NoChain /\ switch' = [switch EXCEPT ![s] = Idle] /\ UNCHANGED sdk
           \/ /\ sdk' = [sdk EXCEPT !.wallet = SmartWalletOf(sdk.chainId, manager)]
              /\ switch' = [switch EXCEPT ![s].step = "info", ![s].built = sdk.chainId]
    BY <1>15 DEF RebuildWallet
  <2>2. Running(s)
    BY <1>5, <2>1
  <2>3. \A n \in 1 .. Len(queue) : queue[n] # s /\ queue[n] \in Switches
    BY <1>1, <2>1 DEF ChainInv, Queued
  <2>4. CASE sdk.wallet = NoChain /\ switch' = [switch EXCEPT ![s] = Idle] /\ UNCHANGED sdk
    <3>1. /\ switch' \in [Switches -> SwitchStates] /\ switch'[s] = Idle
          /\ \A t \in Switches : t # s => switch'[t] = switch[t]
      BY <1>1, <2>4 DEF SwitchStates, Idle, Optional
    <3>2. ChainTypes'
      BY <1>1, <2>1, <2>4, <3>1 DEF ChainTypes, Provider
    <3>3. Queued'
      BY <2>1, <2>3, <3>1 DEF ChainInv, Queued, Idle
    <3>4. queue # <<>> => queue[Len(queue)] # s /\ queue[Len(queue)] \in Switches
      BY <1>1, <2>3
    <3>5. mishap' # "chain" => LastDecides'
      BY <2>1, <2>4, <3>1, <3>4 DEF ChainInv, LastDecides, Provider, Idle
    <3>6. ASSUME mishap' = "none" PROVE OneAtATime'
      <4>1. \A t \in Switches : Running(t)' => Running(t)
        BY <3>1 DEF Running
      <4>2. \A t \in Switches : switch'[t].step = "info" => switch'[t] = switch[t]
        BY <3>1 DEF Idle
      <4>. QED
        BY <2>1, <2>4, <3>6, <4>1, <4>2 DEF ChainInv, OneAtATime
    <3>. QED
      BY <3>2, <3>3, <3>5, <3>6 DEF ChainInv
  <2>5. CASE /\ sdk' = [sdk EXCEPT !.wallet = SmartWalletOf(sdk.chainId, manager)]
             /\ switch' = [switch EXCEPT ![s].step = "info", ![s].built = sdk.chainId]
    <3> DEFINE u == [switch[s] EXCEPT !.step = "info", !.built = sdk.chainId]
               w == SmartWalletOf(sdk.chainId, manager)
    <3>1. /\ switch' \in [Switches -> SwitchStates] /\ switch'[s] = u
          /\ u.step = "info" /\ u.built = sdk.chainId
          /\ \A t \in Switches : t # s => switch'[t] = switch[t]
      BY <1>1, <2>5 DEF SwitchStates, Optional, SdkStates
    <3>2. w \in Optional([chainId : Chains, rpc : Chains])
      BY <1>1 DEF SmartWalletOf, SdkStates, Optional
    <3>3. /\ sdk' \in SdkStates /\ sdk'.provider = sdk.provider /\ sdk'.chainId = sdk.chainId
          /\ sdk'.wallet = w
      BY <1>1, <2>5, <3>2 DEF SdkStates
    <3> HIDE DEF u
    <3>4. ChainTypes'
      BY <1>1, <2>1, <3>1, <3>3 DEF ChainTypes, Provider
    <3>5. Queued'
      BY <2>1, <2>3, <3>1 DEF ChainInv, Queued
    <3>6. queue # <<>> => queue[Len(queue)] # s /\ queue[Len(queue)] \in Switches
      BY <1>1, <2>3
    <3>7. mishap' # "chain" => LastDecides'
      BY <2>1, <3>1, <3>3, <3>6 DEF ChainInv, LastDecides, Provider, SmartWalletOf
    <3>8. ASSUME mishap' = "none" PROVE OneAtATime'
      <4>1. \A t \in Switches : Running(t)' => Running(t)
        BY <2>2, <3>1 DEF Running
      <4>2. Running(s)'
        BY <3>1 DEF Running, Idle
      <4>. QED
        BY <2>1, <2>2, <3>1, <3>3, <3>8, <4>1, <4>2 DEF ChainInv, OneAtATime, Busy
    <3>. QED
      BY <3>4, <3>5, <3>7, <3>8 DEF ChainInv
  <2>. QED
    BY <2>1, <2>4, <2>5
<1>15n. ASSUME NEW s \in Switches, RebuildNothing(s) PROVE ChainInv'
  <2>1. /\ switch[s].step = "key" /\ switch' = [switch EXCEPT ![s] = Idle]
        /\ mishap' = "chain" /\ UNCHANGED <<sdk, manager, providers, queue, fetching>>
    BY <1>15n DEF RebuildNothing
  <2>2. \A n \in 1 .. Len(queue) : queue[n] # s /\ queue[n] \in Switches
    BY <1>1, <2>1 DEF ChainInv, Queued
  <2>3. /\ switch' \in [Switches -> SwitchStates] /\ switch'[s] = Idle
        /\ \A t \in Switches : t # s => switch'[t] = switch[t]
    BY <1>1, <2>1 DEF SwitchStates, Idle, Optional
  <2>4. ChainTypes'
    BY <1>1, <2>1, <2>3 DEF ChainTypes, Provider
  <2>5. Queued'
    BY <2>1, <2>2, <2>3 DEF ChainInv, Queued, Idle
  <2>. QED
    BY <2>1, <2>4, <2>5 DEF ChainInv
<1>16. ASSUME NEW s \in Switches, WalletInfoArrives(s) PROVE ChainInv'
  <2>1. /\ switch[s].step = "info" /\ switch' = [switch EXCEPT ![s] = Idle]
        /\ \/ sdk' = [sdk EXCEPT !.walletInfo = switch[s].built] /\ UNCHANGED mishap
           \/ mishap' = InfoMayBeStale /\ UNCHANGED sdk
        /\ UNCHANGED <<manager, providers, queue, fetching>>
    BY <1>16 DEF WalletInfoArrives
  <2>2. /\ switch' \in [Switches -> SwitchStates] /\ switch'[s] = Idle
        /\ \A t \in Switches : t # s => switch'[t] = switch[t]
    BY <1>1, <2>1 DEF SwitchStates, Idle, Optional
  <2>3. /\ sdk' \in SdkStates /\ sdk'.provider = sdk.provider /\ sdk'.chainId = sdk.chainId
        /\ sdk'.wallet = sdk.wallet
        /\ sdk'.walletInfo = switch[s].built \/ mishap' = InfoMayBeStale
    BY <1>1, <2>1 DEF SdkStates, SwitchStates
  <2>4. \A n \in 1 .. Len(queue) : queue[n] # s /\ queue[n] \in Switches
    BY <1>1, <2>1 DEF ChainInv, Queued
  <2>5. ChainTypes' /\ Queued'
    BY <1>1, <1>3, <2>1, <2>2, <2>3, <2>4 DEF ChainInv, ChainTypes, Provider, Queued, Idle
  <2>6. queue # <<>> => queue[Len(queue)] # s /\ queue[Len(queue)] \in Switches
    BY <1>1, <2>4
  <2>7. mishap' # "chain" => LastDecides'
    BY <1>3, <2>1, <2>2, <2>3, <2>6 DEF ChainInv, LastDecides, Provider, Idle
  <2>8. ASSUME mishap' = "none" PROVE OneAtATime'
    <3>1. \A t \in Switches : Running(t)' => Running(t)
      BY <2>2 DEF Running
    <3>2. \A t \in Switches : switch'[t].step = "info" => switch'[t] = switch[t]
      BY <2>2 DEF Idle
    <3>3. sdk'.walletInfo = switch[s].built /\ mishap = "none"
      BY <1>3, <2>1, <2>3, <2>8
    <3>. QED
      BY <2>1, <2>3, <3>1, <3>2, <3>3 DEF ChainInv, OneAtATime
  <2>. QED
    BY <2>5, <2>7, <2>8 DEF ChainInv
<1>17. ASSUME NEW s \in Switches, SwitchProvider(s) PROVE ChainInv'
  <2> DEFINE i == sdk.provider
             c == switch[s].target
             refused == i # 0 /\ ~Knows(i, c)
  <2>1. /\ queue # <<>> /\ s = Head(queue) /\ queue' = Tail(queue)
        /\ switch' = [switch EXCEPT ![s] =
              IF refused \/ sdk.wallet = NoChain THEN Idle ELSE [@ EXCEPT !.step = "key"]]
        /\ IF i # 0 /\ Knows(i, c)
           THEN providers' = SwitchedProvider(i, c) /\ sdk' = ChainChanged(i, c)
           ELSE UNCHANGED <<providers, sdk>>
        /\ mishap' = IF refused THEN "chain" ELSE mishap
        /\ UNCHANGED <<manager, fetching>>
    BY <1>17 DEF SwitchProvider
  <2>2. /\ Len(queue) \in Nat \ {0} /\ queue[1] = s
        /\ queue' \in Seq(Switches) /\ Len(queue') = Len(queue) - 1
        /\ \A n \in 1 .. Len(queue') : queue'[n] = queue[n + 1]
        /\ queue' = <<>> <=> Len(queue) = 1
    <3>1. Len(queue) \in Nat \ {0}
      BY <1>1, <2>1
    <3>2. queue[1] = s
      BY <1>1, <2>1
    <3>3. /\ queue' \in Seq(Switches) /\ Len(queue') = Len(queue) - 1
          /\ \A n \in 1 .. Len(queue') : queue'[n] = queue[n + 1]
      BY <1>1, <2>1, HeadTailProperties
    <3>4. queue' = <<>> <=> Len(queue') = 0
      BY <3>3
    <3>. QED
      BY <3>1, <3>2, <3>3, <3>4
  <2>3. switch[s].step = "provider" /\ c \in Chains
    BY <2>2 DEF ChainInv, Queued
  <2>4. \A n \in 1 .. Len(queue') : /\ n + 1 \in 1 .. Len(queue)
                                    /\ queue'[n] # s /\ queue'[n] \in Switches
    BY <1>1, <2>2 DEF ChainInv, Queued
  <2>5. /\ switch' \in [Switches -> SwitchStates]
        /\ \A t \in Switches : t # s => switch'[t] = switch[t]
        /\ refused \/ sdk.wallet = NoChain => switch'[s] = Idle
        /\ ~refused /\ sdk.wallet # NoChain => switch'[s].step = "key"
        /\ switch'[s].step \in {"idle", "key"}
    <3>1. CASE refused \/ sdk.wallet = NoChain
      BY <1>1, <2>1, <3>1 DEF SwitchStates, Idle, Optional
    <3>2. CASE ~(refused \/ sdk.wallet = NoChain)
      BY <1>1, <2>1, <3>2 DEF SwitchStates, Idle, Optional
    <3>. QED
      BY <3>1, <3>2
  <2>6. /\ sdk' \in SdkStates /\ sdk'.provider = i /\ sdk'.wallet = sdk.wallet
        /\ sdk'.walletInfo = sdk.walletInfo
        /\ sdk'.chainId \in {sdk.chainId, c}
    BY <1>1, <2>1, <2>3 DEF SdkStates, ChainChanged
  <2>7. ASSUME i # 0
        PROVE  /\ Provider' \in ProviderStates
               /\ ~refused => Provider'.chainId = c /\ (sdk'.chainId = c \/ Provider.chainId = c)
               /\ ~refused /\ Provider.chainId = c => sdk'.chainId = sdk.chainId
    <3>1. CASE refused
      BY <1>1, <2>1, <2>7, <3>1 DEF Provider
    <3>2. CASE ~refused
      <4>1. providers' = [providers EXCEPT ![i].chainId = c] /\ sdk' = ChainChanged(i, c)
        BY <2>1, <2>7, <3>2 DEF SwitchedProvider
      <4>2. Provider' = [Provider EXCEPT !.chainId = c]
        BY <1>1, <2>6, <2>7, <4>1 DEF Provider
      <4>3. Provider' \in ProviderStates /\ Provider'.chainId = c
        BY <1>1, <2>3, <2>7, <4>2 DEF ProviderStates
      <4>. QED
        BY <1>1, <4>1, <4>3 DEF ChainChanged, Provider, SdkStates
    <3>. QED
      BY <3>1, <3>2
  <2>8. i = 0 => ~refused /\ sdk' = sdk
    BY <2>1
  <2>9. providers' \in [Providers -> Optional(ProviderStates)]
    <3>1. CASE i # 0 /\ Knows(i, c)
      <4> DEFINE p == [Provider EXCEPT !.chainId = c]
      <4>1. p \in ProviderStates
        BY <1>1, <2>3, <3>1 DEF ProviderStates
      <4>2. providers' = [providers EXCEPT ![i] = p]
        BY <1>1, <2>1, <3>1 DEF SwitchedProvider, Provider
      <4>. QED
        BY <1>1, <4>1, <4>2 DEF Optional
    <3>2. CASE ~(i # 0 /\ Knows(i, c))
      BY <1>1, <2>1, <3>2
    <3>. QED
      BY <3>1, <3>2
  <2> HIDE DEF refused
  <2>10. mishap' \in {"none", "info", "chain"} /\ (mishap' # "chain" => ~refused /\ mishap' = mishap)
    BY <1>1, <2>1
  <2>11. ChainTypes'
    BY <1>1, <2>1, <2>2, <2>5, <2>6, <2>7, <2>9, <2>10 DEF ChainTypes
  <2>12. Queued'
    <3>1. \A n \in 1 .. Len(queue') :
             switch'[queue'[n]].step = "provider" /\ switch'[queue'[n]].target \in Chains
      <4>1. ASSUME NEW n \in 1 .. Len(queue')
            PROVE  /\ switch'[queue'[n]].step = "provider"
                   /\ switch'[queue'[n]].target \in Chains
        <5>1. n + 1 \in 1 .. Len(queue) /\ queue'[n] = queue[n + 1]
          BY <2>2, <2>4
        <5>2. switch[queue'[n]].step = "provider" /\ switch[queue'[n]].target \in Chains
          BY <5>1 DEF ChainInv, Queued
        <5>3. switch'[queue'[n]] = switch[queue'[n]]
          BY <2>4, <2>5
        <5>. QED
          BY <5>2, <5>3
      <4>. QED
        BY <4>1
    <3>2. \A m, n \in 1 .. Len(queue') : queue'[m] = queue'[n] => m = n
      <4>1. ASSUME NEW m \in 1 .. Len(queue'), NEW n \in 1 .. Len(queue'), queue'[m] = queue'[n]
            PROVE  m = n
        <5>1. queue[m + 1] = queue[n + 1]
          BY <2>2, <4>1
        <5>2. m + 1 = n + 1
          BY <2>4, <5>1 DEF ChainInv, Queued
        <5>. QED
          BY <2>2, <5>2
      <4>. QED
        BY <4>1
    <3>3. ASSUME NEW t \in Switches, switch'[t].step = "provider"
          PROVE  \E n \in 1 .. Len(queue') : queue'[n] = t
      <4>1. t # s /\ switch[t].step = "provider"
        BY <2>5, <3>3
      <4>2. PICK n \in 1 .. Len(queue) : queue[n] = t
        BY <4>1 DEF ChainInv, Queued
      <4>3. n - 1 \in 1 .. Len(queue') /\ n = (n - 1) + 1
        BY <2>2, <4>1, <4>2
      <4>4. queue'[n - 1] = t
        BY <2>2, <4>2, <4>3
      <4>. QED
        BY <4>3, <4>4
    <3>. QED
      BY <3>1, <3>2, <3>3 DEF Queued
  <2>13. ASSUME mishap' # "chain" PROVE LastDecides'
    <3>1. LastDecides /\ ~refused
      BY <2>10, <2>13 DEF ChainInv
    <3>2. /\ switch[queue[Len(queue)]].target = manager
          /\ sdk.chainId = manager \/ (i # 0 /\ Provider.chainId = sdk.chainId)
      BY <2>1, <3>1 DEF LastDecides
    <3>3. CASE queue' = <<>>
      <4>1. c = manager
        BY <2>2, <3>2, <3>3
      <4>2. sdk'.chainId = manager /\ (i # 0 => Provider'.chainId = sdk'.chainId)
        BY <2>6, <2>7, <2>8, <3>1, <3>2, <4>1
      <4>3. sdk'.wallet # NoChain => \E t \in Switches : switch'[t].step = "key"
        BY <2>5, <2>6, <3>1
      <4>. QED
        BY <2>1, <2>6, <3>3, <4>2, <4>3 DEF LastDecides
    <3>4. CASE queue' # <<>>
      <4>1. Len(queue') \in 1 .. Len(queue') /\ Len(queue') + 1 = Len(queue)
        BY <2>2, <3>4
      <4>2. queue'[Len(queue')] = queue[Len(queue)] /\ queue[Len(queue)] # s
            /\ queue[Len(queue)] \in Switches
        BY <2>2, <2>4, <4>1
      <4>3. switch'[queue'[Len(queue')]].target = manager'
        BY <2>1, <2>5, <3>2, <4>2
      <4>4. sdk'.chainId = manager' \/ (sdk'.provider # 0 /\ Provider'.chainId = sdk'.chainId)
        BY <2>1, <2>6, <2>7, <2>8, <3>1, <3>2
      <4>. QED
        BY <3>4, <4>3, <4>4 DEF LastDecides
    <3>. QED
      BY <3>3, <3>4
  <2>14. ASSUME mishap' = "none" PROVE OneAtATime'
    <3>1. OneAtATime /\ LastDecides
      BY <2>10, <2>14 DEF ChainInv
    <3>2. Running(s)
      BY <1>5, <2>3
    <3>3. queue[Len(queue)] = s
      <4>1. Len(queue) \in 1 .. Len(queue)
        BY <2>2
      <4>2. queue[Len(queue)] \in Switches /\ switch[queue[Len(queue)]].step = "provider"
        BY <1>1, <4>1 DEF ChainInv, Queued
      <4>. QED
        BY <1>5, <3>1, <3>2, <4>2 DEF OneAtATime
    <3>4. c = manager /\ c = sdk.chainId
      BY <2>1, <3>1, <3>3 DEF LastDecides, OneAtATime
    <3>5. sdk'.chainId = sdk.chainId
      BY <2>6, <3>4
    <3>6. \A t \in Switches : Running(t)' => Running(t)
      BY <2>5, <3>2 DEF Running
    <3>7. \A t \in Switches : switch'[t].step = "info" => switch'[t] = switch[t]
      BY <2>5
    <3>8. ~Busy' => sdk'.wallet = NoChain
      <4>1. ASSUME sdk.wallet # NoChain PROVE Running(s)'
        BY <2>5, <2>10, <2>14, <4>1 DEF Running, Idle
      <4>. QED
        BY <2>6, <4>1 DEF Busy
    <3>. QED
      BY <2>1, <3>1, <3>5, <3>6, <3>7, <3>8 DEF OneAtATime
  <2>. QED
    BY <2>11, <2>12, <2>13, <2>14 DEF ChainInv
<1>18. ASSUME UNCHANGED chainVars PROVE ChainInv'
  BY <1>1, <1>18, SameChain DEF ChainInv, ChainTypes, chainVars, Provider
<1>. QED
  BY <1>6, <1>7, <1>8, <1>10, <1>11, <1>12, <1>13, <1>14, <1>15, <1>15n, <1>16,
     <1>17, <1>18
     DEF ChainNext

\* Once no switchChain() and no login is running, the parts of the SDK are on one
\* chain, for any number of chains, calls and providers (switchChain(), nero-sdk.ts).
THEOREM OneChainWhenIdle == ChainSpec => []ChainsAgree
<1>1. ASSUME ChainInv PROVE ChainsAgree
  <2> SUFFICES ASSUME ~Busy, mishap # "chain"
               PROVE  /\ manager = sdk.chainId
                      /\ sdk.provider # 0 => Provider.chainId = sdk.chainId
                      /\ sdk.wallet # NoChain =>
                            sdk.wallet = SmartWalletOf(sdk.chainId, sdk.chainId)
                      /\ mishap = "none" /\ sdk.wallet # NoChain =>
                            sdk.walletInfo = sdk.chainId
    BY DEF ChainsAgree
  <2>1. \A s \in Switches : switch[s].step = "idle"
    BY DEF Busy, Running, Idle
  <2>2. queue = <<>>
    <3>1. ASSUME queue # <<>> PROVE FALSE
      <4>1. queue \in Seq(Switches) /\ 1 \in 1 .. Len(queue)
        BY <1>1, <3>1 DEF ChainInv, ChainTypes
      <4>2. queue[1] \in Switches /\ switch[queue[1]].step = "provider"
        BY <1>1, <4>1 DEF ChainInv, Queued
      <4>. QED
        BY <2>1, <4>2
    <3>. QED
      BY <3>1
  <2>. QED
    BY <1>1, <2>1, <2>2 DEF ChainInv, LastDecides, OneAtATime
<1>. QED
  BY <1>1, ChainInitial, ChainStep, PTL DEF ChainSpec

\* Every part of the SDK keeps to its types, for any number of chains, calls and
\* providers.
THEOREM ChainTypesKept == ChainSpec => []ChainTypeOK
<1>1. ChainInv => ChainTypeOK
  BY DEF ChainInv, ChainTypes, SdkStates, ProviderStates, SwitchStates, ChainTypeOK
<1>. QED
  BY <1>1, ChainInitial, ChainStep, PTL DEF ChainSpec

===============================================================================
