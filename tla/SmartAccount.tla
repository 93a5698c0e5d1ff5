----------------------------- MODULE SmartAccount -----------------------------
(***************************************************************************)
(* User operations of one account: wallet/smart-wallet.ts and its public   *)
(* twin aa/simple-account.ts with bundler-client.ts and                    *)
(* paymaster-client.ts.                                                    *)
(*                                                                         *)
(* buildUserOperation() asks the chain whether the account is deployed and *)
(* for its nonce, each unless a field already has the answer; the two      *)
(* classes ask in a different order.  A request is answered by the node at *)
(* one moment and its answer is used at a later one.  Addresses, gas       *)
(* prices, signatures and hashes are left out: they fail or they do not.   *)
(*                                                                         *)
(* The bundler and the EntryPoint are external: an operation is taken or   *)
(* refused, the answer may be lost, and it is executed once, when its      *)
(* nonce and its initCode are what the chain expects.                      *)
(***************************************************************************)
EXTENDS Integers, SequencesExt

CONSTANTS Ops,        \* the operations that are built, one call chain each
          CallLists,  \* bound: their transactions: sequences of data lengths
          Unknown     \* null

ASSUME OpsAssumption ==
    /\ CallLists \subseteq Seq(Nat) \ {<<>>}
    /\ Unknown \notin Nat /\ Unknown \notin BOOLEAN

VARIABLES
    class,     \* "smart" or "simple"
    account,   \* _isDeployed and _cachedNonce
    op,        \* op[o]: the UserOperation o and the call that makes it
    chain,     \* EntryPoint: whether the account exists, and its nonce
    overlap    \* history: a wait() ended while an operation was being built

accountVars == <<class, account, op, chain, overlap>>

Reads == {"deployed1", "deployed2", "nonce", "gas"}
Nonces == 0 .. Cardinality(Ops)

AccountTypeOK ==
    /\ class \in {"smart", "simple"}
    /\ account.isDeployed \in BOOLEAN \cup {Unknown}
    /\ account.cachedNonce \in Nonces \cup {Unknown}
    /\ \A o \in Ops :
          /\ op[o].step \in {"idle", "built", "sent", "unsure", "confirmed", "failed"}
                            \cup Reads
          /\ op[o].calls \in CallLists \cup {<<>>} /\ op[o].cached \in BOOLEAN
          /\ op[o].answer # Unknown =>
                op[o].answer \in IF op[o].step = "nonce" THEN Nonces ELSE BOOLEAN
          /\ op[o].nonce \in Nonces \cup {Unknown}
          /\ op[o].deploys \in BOOLEAN \cup {Unknown}
          /\ op[o].fate \in {"none", "pooled", "executed"} /\ op[o].sure \in BOOLEAN
    /\ chain.deployed \in BOOLEAN /\ chain.nonce \in Nonces
    /\ overlap \in BOOLEAN

Unbuilt == [step |-> "idle", calls |-> <<>>, answer |-> Unknown, cached |-> FALSE,
            nonce |-> Unknown, deploys |-> Unknown, fate |-> "none", sure |-> TRUE]

AccountInit ==
    /\ class \in {"smart", "simple"}
    /\ account = [isDeployed |-> Unknown, cachedNonce |-> Unknown]
    /\ op = [o \in Ops |-> Unbuilt]
    /\ chain \in {[deployed |-> FALSE, nonce |-> 0], [deployed |-> TRUE, nonce |-> 0]}
    /\ overlap = FALSE

-----------------------------------------------------------------------------
(* The calldata, in words of 32 bytes after the selector: numbers, and what  *)
(* belongs to the i-th call: its address, its value and its payload's words. *)

Number(v) == <<0, v>>
To(i) == <<i, 0>>
Value(i) == <<i, -1>>
Reverts == <<-1, 0>>

PaddedWords(bytes) == (bytes + 31) \div 32
Payload(i, bytes) == <<Number(bytes)>> \o [k \in 1 .. PaddedWords(bytes) |-> <<i, k>>]

\* execute(to, value, data).
ExecuteWords(calls) == <<To(1), Value(1), Number(96)>> \o Payload(1, calls[1])

\* executeBatch(to[], value[], data[]): the offset of the i-th data starts from
\* currentOffset = 32 + n * 32.
BatchWords(calls) ==
    LET n == Len(calls)
        size == 32 + n * 32
        offset[i \in 1 .. n] ==
            IF i = 1 THEN 32 + n * 32 ELSE offset[i-1] + 32 + 32 * PaddedWords(calls[i-1])
    IN  <<Number(96), Number(96 + size), Number(96 + 2 * size)>>
        \o <<Number(n)>> \o [i \in 1 .. n |-> To(i)]
        \o <<Number(n)>> \o [i \in 1 .. n |-> Value(i)]
        \o <<Number(n)>> \o [i \in 1 .. n |-> Number(offset[i])]
        \o FlattenSeq([i \in 1 .. n |-> Payload(i, calls[i])])

EncodeExecute(calls) ==
    IF Len(calls) = 1 THEN ExecuteWords(calls) ELSE BatchWords(calls)

\* The contract's decoder.  The offset of an array is from the start of the
\* arguments, the one of an element from the word after the array's length.
WordAt(words, byte) ==
    IF byte \div 32 < Len(words) THEN words[1 + byte \div 32] ELSE Reverts
DataAt(words, byte) ==
    LET length == WordAt(words, byte)
    IN  IF length[1] = 0
        THEN [k \in 1 .. 1 + PaddedWords(length[2]) |-> WordAt(words, byte + 32 * (k - 1))]
        ELSE <<Reverts>>
DecodedData(words, n) ==
    IF n = 1 THEN <<DataAt(words, words[3][2])>>
    ELSE LET elements == words[3][2] + 32
         IN  [i \in 1 .. n |->
                DataAt(words, elements + WordAt(words, elements + 32 * (i - 1))[2])]

-----------------------------------------------------------------------------
(* buildUserOperation().                                                    *)

\* The isDeployed() that getNonce() asks, and the one that decides initCode.
NonceGate == IF class = "smart" THEN "deployed1" ELSE "deployed2"
InitCodeRead == IF class = "smart" THEN "deployed2" ELSE "deployed1"

\* Gas that the bundler did not estimate is decided by another isDeployed().
AfterNonce == IF class = "smart" THEN {"deployed2"} ELSE {"gas", "built"}

StepsAfter(step, answer) ==
    IF step = NonceGate THEN IF answer THEN {"nonce"} ELSE AfterNonce
    ELSE IF step = "nonce" THEN AfterNonce
    ELSE IF step = "deployed1" THEN {"deployed2"}
    ELSE {"built"}

Field(a, step) == IF step = "nonce" THEN a.cachedNonce ELSE a.isDeployed

\* A read begins: a field that has the answer gives it, or a request is sent.
Begin(a, u, step) ==
    IF step = "built" THEN [u EXCEPT !.step = step, !.answer = Unknown]
    ELSE [u EXCEPT !.step = step, !.answer = Field(a, step),
                   !.cached = Field(a, step) # Unknown]

\* What an answer decides; an account that is not there has nonce 0.
Decide(u, answer) ==
    [u EXCEPT !.deploys = IF u.step = InitCodeRead THEN ~answer ELSE @,
              !.nonce = IF u.step = "nonce" THEN answer
                        ELSE IF u.step = NonceGate /\ ~answer THEN 0 ELSE @]

Building(o) == op[o].step \in Reads
\* An operation whose fate wait() has not told.
Outstanding(o) == Building(o) \/ op[o].step \in {"built", "sent", "unsure"}

\* Two outstanding operations cannot both be sure of their nonce.
StartBuild(o) ==
    /\ op[o].step = "idle"
    /\ \E calls \in CallLists :
          op' = [p \in Ops |->
                   IF p = o
                   THEN Begin(account,
                              [Unbuilt EXCEPT !.calls = calls,
                                 !.sure = \A q \in Ops : ~Outstanding(q)],
                              "deployed1")
                   ELSE [op[p] EXCEPT !.sure = @ /\ ~Outstanding(p)]]
    /\ UNCHANGED <<class, account, chain, overlap>>

NodeAnswers(o) ==
    /\ Building(o) /\ op[o].answer = Unknown
    /\ op' = [op EXCEPT ![o].answer = IF op[o].step = "nonce" THEN chain.nonce
                                      ELSE chain.deployed]
    /\ UNCHANGED <<class, account, chain, overlap>>

\* The answer is kept in its field, and the next read begins.
ReadEnds(o) ==
    /\ Building(o) /\ op[o].answer # Unknown
    /\ LET u == op[o]
       IN  /\ account' = IF u.cached THEN account
                         ELSE IF u.step = "nonce"
                         THEN [account EXCEPT !.cachedNonce = u.answer]
                         ELSE [account EXCEPT !.isDeployed = u.answer]
           /\ \E step \in StepsAfter(u.step, u.answer) :
                 op' = [op EXCEPT ![o] = Begin(account', Decide(u, u.answer), step)]
    /\ UNCHANGED <<class, chain, overlap>>

\* isDeployed() takes a failure for "no", and keeps nothing; getNonce() throws.
ReadFails(o) ==
    /\ Building(o) /\ ~op[o].cached
    /\ LET u == [op[o] EXCEPT !.sure = FALSE]
       IN  IF u.step = "nonce" THEN op' = [op EXCEPT ![o].step = "failed", ![o].answer = Unknown]
           ELSE \E step \in StepsAfter(u.step, FALSE) :
                   op' = [op EXCEPT ![o] = Begin(account, Decide(u, FALSE), step)]
    /\ UNCHANGED <<class, account, chain, overlap>>

-----------------------------------------------------------------------------
(* sendUserOperation() and wait().                                          *)

\* The bundler has the operation, and its answer arrives or is lost.
SendUserOperation(o) ==
    /\ op[o].step = "built"
    /\ \E step \in {"sent", "unsure"} :
          op' = [op EXCEPT ![o].step = step, ![o].fate = "pooled"]
    /\ UNCHANGED <<class, account, chain, overlap>>

\* No paymaster data ("simple"), no signature ("smart"), or refused.
NotSent(o) ==
    /\ op[o].step = "built"
    /\ op' = [op EXCEPT ![o].step = "failed"]
    /\ UNCHANGED <<class, account, chain, overlap>>

Executes(o) ==
    /\ op[o].fate = "pooled"
    /\ op[o].nonce = chain.nonce /\ op[o].deploys = ~chain.deployed
    /\ op' = [op EXCEPT ![o].fate = "executed"]
    /\ chain' = [deployed |-> TRUE, nonce |-> chain.nonce + 1]
    /\ UNCHANGED <<class, account, overlap>>

\* Mutant: the nonce is kept.
WaitKeepsNonce(o) ==
    /\ op[o].step = "sent" /\ op[o].fate = "executed"
    /\ op' = [op EXCEPT ![o].step = "confirmed"]
    /\ account' = [account EXCEPT !.isDeployed = TRUE]
    /\ overlap' = (overlap \/ \E p \in Ops : Building(p))
    /\ UNCHANGED <<class, chain>>

\* waitForUserOperationReceipt() found one.
WaitEnds(o) ==
    /\ op[o].step = "sent" /\ op[o].fate = "executed"
    /\ op' = [op EXCEPT ![o].step = "confirmed"]
    /\ account' = [isDeployed |-> TRUE, cachedNonce |-> Unknown]
    /\ overlap' = (overlap \/ \E p \in Ops : Building(p))
    /\ UNCHANGED <<class, chain>>

\* It found none in time, or nobody called wait().
WaitTimesOut(o) ==
    /\ op[o].step = "sent"
    /\ op' = [op EXCEPT ![o].step = "unsure"]
    /\ UNCHANGED <<class, account, chain, overlap>>

AccountNext ==
    \E o \in Ops :
        \/ StartBuild(o) \/ NodeAnswers(o) \/ ReadEnds(o) \/ ReadFails(o)
        \/ SendUserOperation(o) \/ NotSent(o) \/ Executes(o)
        \/ WaitEnds(o) \/ WaitTimesOut(o)

AccountSpec == AccountInit /\ [][AccountNext]_accountVars

-----------------------------------------------------------------------------

\* An operation built while no other one is outstanding, from answers of the node
\* and without a failed read, has the nonce the chain expects and deploys the
\* account exactly if it is not there, whatever happened to the operations before
\* (smart-wallet.ts:462).  The exception is an answer that was on its way when
\* wait() cleared the fields: it is kept afterwards.
FreshNonce ==
    ~overlap =>
        \A o \in Ops :
            op[o].step = "built" /\ op[o].sure =>
                op[o].nonce = chain.nonce /\ op[o].deploys = ~chain.deployed

\* aa-components.test.ts:182 ("should calculate correct bytes[] offsets in
\* executeBatch"): the contract decodes the data of every call of a batch.
BatchDecodes ==
    \A o \in Ops :
        LET calls == op[o].calls
        IN  op[o].step = "built" =>
                DecodedData(EncodeExecute(calls), Len(calls))
                    = [i \in 1 .. Len(calls) |-> Payload(i, calls[i])]
===============================================================================
