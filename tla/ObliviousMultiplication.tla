----------------------- MODULE ObliviousMultiplication -----------------------
(***************************************************************************)
(* The multiplication of the DKLS signature: protocols/dkls/               *)
(* mta-protocol.ts over the correlated oblivious transfers of              *)
(* oblivious-transfer.ts.                                                  *)
(*                                                                         *)
(* The client (Alice) multiplies her scalar by each power of two and       *)
(* offers, per bit, a random pad and the pad plus that multiple; the       *)
(* backend (Bob) opens the one his bit chooses.  A session is one run of   *)
(* the four rounds; the client may begin another at any time (the retry    *)
(* after a conflict, or the next signature), while the messages of the old *)
(* one are still on their way.                                             *)
(*                                                                         *)
(* sha256 of a point, xored to a message, is the point added to it: what   *)
(* matters is that only the same point undoes it.  The loops over the bits *)
(* are functions over Bits.  Scalars travel as hex strings of 32 bytes,    *)
(* which hold every value of the field: they are sent as they are.         *)
(***************************************************************************)
EXTENDS PrimeField, FiniteSetsExt

CONSTANTS SCALAR_BITS, \* enough for the order
          Sessions,    \* bound: the sessions that may begin, in order
          FactorsA,    \* inputs of the client, and
          FactorsB,    \* of the backend
          KeyDraws,    \* bound: functions drawn for the keys of the transfers
          PadDraws,    \* bound: functions drawn for randomT
          None

Bits == 0 .. (SCALAR_BITS - 1)

ASSUME BitsAssumption ==
    /\ SCALAR_BITS \in Nat /\ Q <= 2^SCALAR_BITS
    /\ Sessions \subseteq Nat
    /\ FactorsA \subseteq Field /\ FactorsB \subseteq Field
    /\ KeyDraws \subseteq [Bits -> Scalars] /\ PadDraws \subseteq [Bits -> Scalars]
    /\ 2^0 = 1 /\ \A j \in Bits : 2^(j + 1) = 2 * 2^j   \* the provers know no power

VARIABLES
    alice,      \* the client's MtAAliceState
    bob,        \* bob[s]: the backend's MtABobState of session s
    response,   \* response[s], sent[s]: the messages of rounds 2 and 3 on
    sent,       \*   their way, or None.  Round 1's is read off began[s]
    began,      \* began[s]: the client's side of session s, or None
    share       \* share[s]: the MtAResult of the client in session s

mtaVars == <<alice, bob, response, sent, began, share>>

\* The sender's side of the transfers: a key (otState) and a pad (randomT) per bit.
AliceStates == [input : FactorsA, key : KeyDraws, pads : PadDraws]

BobStates == [input : FactorsB, key : KeyDraws, publicKey : [Bits -> Scalars],
              share : Field \cup {None}, failed : BOOLEAN]

ASSUME NoneAssumption ==
    /\ None \notin Field /\ None \notin AliceStates /\ None \notin BobStates
    /\ None \notin [Bits -> Field] /\ None \notin [Bits -> Field \X Field]

MtaTypeOK ==
    /\ alice \in [phase : {"idle", "waiting", "done", "failed"},
                  session : Sessions \cup {None}]
    /\ bob \in [Sessions -> BobStates \cup {None}]
    /\ response \in [Sessions -> [Bits -> Field] \cup {None}]
    /\ sent \in [Sessions -> [Bits -> Field \X Field] \cup {None}]
    /\ began \in [Sessions -> AliceStates \cup {None}]
    /\ share \in [Sessions -> Field \cup {None}]

MtaInit ==
    /\ alice = [phase |-> "idle", session |-> None]
    /\ bob = [s \in Sessions |-> None]
    /\ response = [s \in Sessions |-> None]
    /\ sent = [s \in Sessions |-> None]
    /\ began = [s \in Sessions |-> None]
    /\ share = [s \in Sessions |-> None]

-----------------------------------------------------------------------------
(* One oblivious transfer, and what the batch makes of it.                  *)

Seal(m, point) == Plus(m, point)
Unseal(e, point) == Minus(e, point)

\* The receiver blinds the sender's key with its choice.
ReceiverRespond(publicKey, bit, key) ==
    IF bit = 0 THEN key ELSE Plus(publicKey, key)

\* The two keys of the sender; their points must be encodable.  (The first
\* definition is the mutant.)
SwappedKeys(key, B) == <<Times(Minus(B, key), key), Times(B, key)>>
SenderKeys(key, B) == <<Times(B, key), Times(Minus(B, key), key)>>
ReceiverKey(publicKey, key) == Times(publicKey, key)

Correlation(a, j) == Mod(a * 2^j)
Bit(b, j) == (b \div 2^j) % 2

Responses(publicKey, b, key) ==
    [j \in Bits |-> ReceiverRespond(publicKey[j], Bit(b, j), key[j])]

Encryptable(st, B) ==
    \A j \in Bits : \A i \in {1, 2} : Encodes(SenderKeys(st.key[j], B[j])[i])

\* m0 is the pad, m1 the pad plus the correlation.
Encrypted(st, B) ==
    [j \in Bits |->
        LET k == SenderKeys(st.key[j], B[j])
        IN  <<Seal(st.pads[j], k[1]),
              Seal(Plus(st.pads[j], Correlation(st.input, j)), k[2])>>]

\* The pads are subtracted; the mutant adds them.
PositiveShare(st) == Mod(MapThenSumSet(LAMBDA j : st.pads[j], Bits))
SenderShare(st) == Mod(Q - Mod(MapThenSumSet(LAMBDA j : st.pads[j], Bits)))

ReceiverShare(st, e) ==
    Mod(MapThenSumSet(LAMBDA j : Unseal(e[j][1 + Bit(st.input, j)],
                                        ReceiverKey(st.publicKey[j], st.key[j])), Bits))

-----------------------------------------------------------------------------

\* mtaAliceRound1: a session of its own, with fresh keys and pads.
MtaAliceRound1 ==
    \E s \in Sessions, st \in AliceStates :
        /\ began[s] = None
        /\ \A earlier \in Sessions : earlier < s => began[earlier] # None
        /\ began' = [began EXCEPT ![s] = st]
        /\ alice' = [phase |-> "waiting", session |-> s]
        /\ UNCHANGED <<bob, response, sent, share>>

\* mtaBobRound2: the answer is bound to the session of the request.  The
\* points of the answer must be encodable to be sent.
MtaBobRound2 ==
    \E s \in Sessions, b \in FactorsB, key \in KeyDraws :
        /\ began[s] # None /\ bob[s] = None
        /\ LET publicKey == began[s].key
               B == Responses(publicKey, b, key)
           IN  /\ \A j \in Bits : Encodes(B[j])
               /\ response' = [response EXCEPT ![s] = B]
               /\ bob' = [bob EXCEPT ![s] =
                            [input |-> b, key |-> key, publicKey |-> publicKey,
                             share |-> None, failed |-> FALSE]]
        /\ UNCHANGED <<alice, sent, began, share>>

\* mtaAliceRound3 refuses the answer of another session; the mutant does not.
AnswersAny(own, other) == TRUE
AnswersSession(own, other) == own = other

MtaAliceRound3 ==
    \E s \in Sessions :
        /\ alice.phase = "waiting" /\ response[s] # None
        /\ LET own == alice.session
               st == began[own]
               B == response[s]
           IN  IF AnswersSession(own, s) /\ Encryptable(st, B)
               THEN /\ alice' = [alice EXCEPT !.phase = "done"]
                    /\ share' = [share EXCEPT ![own] = SenderShare(st)]
                    /\ sent' = [sent EXCEPT ![own] = Encrypted(st, B)]
               ELSE /\ alice' = [alice EXCEPT !.phase = "failed"]
                    /\ UNCHANGED <<share, sent>>
        /\ UNCHANGED <<bob, response, began>>

\* mtaBobRound4, of a session of the backend that has no result yet.
MtaBobRound4 ==
    \E s, m \in Sessions :
        /\ bob[s] # None /\ sent[m] # None
        /\ bob[s].share = None /\ ~bob[s].failed
        /\ bob' = IF s = m
                  THEN [bob EXCEPT ![s].share = ReceiverShare(bob[s], sent[m])]
                  ELSE [bob EXCEPT ![s].failed = TRUE]
        /\ UNCHANGED <<alice, response, sent, began, share>>

MtaNext == MtaAliceRound1 \/ MtaBobRound2 \/ MtaAliceRound3 \/ MtaBobRound4

MtaSpec == MtaInit /\ [][MtaNext]_mtaVars

-----------------------------------------------------------------------------

\* Whatever sessions overlap and in whatever order their messages arrive, two
\* shares of one session add up to the product of its inputs
\* (mta-protocol.ts:215, verifyMtAResult).
SharesMultiply ==
    \A s \in Sessions :
        share[s] # None /\ bob[s] # None /\ bob[s].share # None =>
            Plus(share[s], bob[s].share) = Mod(began[s].input * bob[s].input)

\* The backend can open, in each transfer, the message its bit chooses and not
\* the other (oblivious-transfer.ts:149 and 171).
OpensOnlyTheChosen ==
    \A s \in Sessions :
        sent[s] # None =>
            \A j \in Bits :
                LET k == SenderKeys(began[s].key[j], response[s][j])
                    chosen == 1 + Bit(bob[s].input, j)
                    own == ReceiverKey(bob[s].publicKey[j], bob[s].key[j])
                IN  /\ k[chosen] = own
                    /\ k[3 - chosen] # own

\* The sessions implement the abstract conversion.
Abstract == INSTANCE Multiplication WITH
    factorA <- [s \in Sessions |-> IF began[s] = None THEN None ELSE began[s].input],
    factorB <- [s \in Sessions |-> IF bob[s] = None THEN None ELSE bob[s].input],
    shareA <- share,
    shareB <- [s \in Sessions |-> IF bob[s] = None THEN None ELSE bob[s].share]

ImplementsMultiplication == Abstract!Spec
===============================================================================
