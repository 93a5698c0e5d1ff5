---------------------------- MODULE PedersenWallet ----------------------------
(***************************************************************************)
(* The legacy Pedersen wallet: the key generation of protocols/dkg         *)
(* (dkg-client.ts over polynomial.ts, commitments.ts and share-exchange.ts)*)
(* and the signing of protocols/signing (signing-client.ts over nonce.ts   *)
(* and partial-signature.ts), between party 1, the client, and the backend.*)
(* Which party the backend is, in the key generation, with its nonce and   *)
(* with its partial signature, and how many coefficients it commits to,    *)
(* are its own answers: the client compares them with nothing.             *)
(*                                                                         *)
(* A commitment to a polynomial is the tuple of its coefficients times G,  *)
(* so in discrete logarithms it is the polynomial.  An encrypted share is  *)
(* the ECDH point it is sealed under and the share; AES-GCM fails under    *)
(* another key.  The backend is modelled from what the client checks: any  *)
(* of its answers may be wrong, and "honest" tells whether all were right. *)
(***************************************************************************)
EXTENDS PrimeField, FiniteSetsExt

CONSTANTS Coefficients,  \* bound: scalars drawn for polynomials
          Nonces,        \* bound: scalars drawn for nonces, proofs, ephemeral keys
          Hashes,        \* message hashes
          PartyIds,      \* bound: the numbers the backend can give itself
          Null           \* null, undefined

ASSUME PedersenAssumption ==
    /\ Coefficients \subseteq Scalars /\ Nonces \subseteq Scalars /\ Hashes \subseteq Nat
    /\ PartyIds \subseteq Field /\ 1 \in PartyIds

VARIABLES
    dkg,        \* the client's DKGSessionState, polynomial and key pair
    theirs,     \* the backend's number and polynomial, and whether it kept to it
    sign,       \* what one sign() call holds
    honest      \* the backend's answers to that call were right

pedVars == <<dkg, theirs, sign, honest>>

Maybe == Field \cup {Null}
Party == PartyIds \cup {Null}
\* generatePolynomial(threshold - 1), and what may come from the backend.
Polynomials == [0 .. 1 -> Coefficients]
TheirDegrees == 0 .. 2    \* bound: the degree of the backend's polynomial
TheirPolynomials == UNION {[0 .. d -> Coefficients] : d \in TheirDegrees}

PedTypeOK ==
    /\ dkg \in [phase : {"idle", "initiated", "shared", "complete", "failed"},
                polynomial : Polynomials \cup {Null}, ephemeral : Scalars \cup {Null},
                received : UNION {[known -> Field] : known \in SUBSET PartyIds},
                privateShare : Maybe, publicKey : Maybe]
    /\ theirs \in [party : Party, polynomial : TheirPolynomials \cup {Null}, honest : BOOLEAN]
    /\ sign \in [phase : {"idle", "nonced", "accepted", "done", "failed"},
                 messageHash : Hashes \cup {Null}, party : Party, k : Maybe, E : Maybe,
                 r : Maybe, theirParty : Party, theirSigma : Maybe, sigma : Maybe]
    /\ honest \in BOOLEAN

NoReceived == [i \in {} |-> Null]
PedInit ==
    /\ dkg = [phase |-> "idle", polynomial |-> Null, ephemeral |-> Null,
              received |-> NoReceived, privateShare |-> Null, publicKey |-> Null]
    /\ theirs = [party |-> Null, polynomial |-> Null, honest |-> TRUE]
    /\ sign = [phase |-> "idle", messageHash |-> Null, party |-> Null, k |-> Null,
               E |-> Null, r |-> Null, theirParty |-> Null, theirSigma |-> Null,
               sigma |-> Null]
    /\ honest = TRUE

-----------------------------------------------------------------------------
(* polynomial.ts, commitments.ts, share-exchange.ts                         *)

Coefficient(f, i) == IF i \in DOMAIN f THEN f[i] ELSE 0

\* Mutant: the power of x one too high.
EvaluateShifted(f, x) ==
    Mod(Coefficient(f, 0) * x + Coefficient(f, 1) * x * x + Coefficient(f, 2) * x * x * x)
EvaluatePolynomial(f, x) ==
    Mod(Coefficient(f, 0) + Coefficient(f, 1) * x + Coefficient(f, 2) * x * x)

\* computeLagrangeCoefficient of both files, of the two parties of a call.
Factor(i, j, n) == IF j = i THEN 1 ELSE n
Lagrange(i, parties) ==
    LET one == parties[1]
        two == parties[2]
        numerator == Mod(Factor(i, one, Q - one) * Factor(i, two, Q - two))
        denominator == Mod(Factor(i, one, i - one) * Factor(i, two, i - two))
    IN  Mod(numerator * ModInverse(denominator))

\* A share is right if times G it is the commitment evaluated in the exponent,
\* however many coefficients were committed to; multiply() refuses a share of 0.
VerifyVSSSCommitment(commitment, share, party) ==
    /\ Multiplies(share)
    /\ share = Plus(Plus(commitment[0], Times(Coefficient(commitment, 1), party)),
                    Times(Coefficient(commitment, 2), Mod(party * party)))

\* The sum of what each party gave, of scalars or of points.
SumOf(terms) == Mod(MapThenSumSet(LAMBDA i : terms[i], DOMAIN terms))
AggregateShares(shares) == SumOf(shares)
CombineVSSSCommitments(commitments) ==
    SumOf([i \in DOMAIN commitments |-> commitments[i][0]])

EncryptShare(share, ephemeral, recipientPublic) ==
    [ephemeralPublicKey |-> Times(1, ephemeral), sealedUnder |-> Times(recipientPublic, ephemeral),
     share |-> share]

\* The key is derived from the x coordinate of the ECDH point only.
Decryptable(e, privateKey) ==
    XCoord(Times(e.ephemeralPublicKey, privateKey)) = XCoord(e.sealedUnder)

\* What the hash and the key agreement are trusted with: a proof does not verify
\* against another commitment, and a share that is not sealed for the client's
\* ephemeral key does not open.
CommitmentsBind ==
    /\ \A p \in PartyIds, public, known \in Coefficients, n \in Nonces :
          SchnorrHolds(<<"vsss", p>>, public, SchnorrProof(<<"vsss", p>>, known, n))
             => known = public
    /\ \A own, key \in Nonces :
          Decryptable(EncryptShare(0, key, 1), own) => Times(1, own) = 1

-----------------------------------------------------------------------------
(* DKGClient.execute                                                        *)

\* The Map of commitments: the client's own takes the place of a backend's that
\* calls itself party 1.
Commitments == [i \in {1, theirs.party} |->
                  IF i = 1 THEN dkg.polynomial ELSE theirs.polynomial]

\* The backend's commitment, with its proof of knowledge of the constant term.
\* Its ephemeral key is the one the client's share is later encrypted to.
Initiate ==
    /\ dkg.phase = "idle"
    /\ \E p \in PartyIds, f \in Polynomials, g \in TheirPolynomials,
          own, n \in Nonces, known \in Coefficients :
          LET proof == SchnorrProof(<<"vsss", p>>, known, n)
              holds == SchnorrHolds(<<"vsss", p>>, g[0], proof)
          IN  /\ theirs' = [party |-> p, polynomial |-> g,
                            honest |-> known = g[0] /\ holds]
              /\ dkg' = IF holds
                        THEN [dkg EXCEPT !.phase = "initiated", !.polynomial = f,
                                         !.ephemeral = own]
                        ELSE [dkg EXCEPT !.phase = "failed"]
    /\ UNCHANGED <<sign, honest>>

\* The client commits; the backend's share comes back encrypted, is decrypted
\* and checked against the commitment. The client's own share is set last.
SubmitCommitment ==
    /\ dkg.phase = "initiated"
    /\ \E share \in Field, key \in Nonces, to \in {Times(1, dkg.ephemeral), 1} :
          LET e == EncryptShare(share, key, to)
              own == EvaluatePolynomial(dkg.polynomial, 1)
              right == share = EvaluatePolynomial(theirs.polynomial, 1)
          IN  /\ dkg' =
                   IF /\ Decryptable(e, dkg.ephemeral)
                      /\ VerifyVSSSCommitment(Commitments[theirs.party], e.share, 1)
                   THEN [dkg EXCEPT !.phase = "shared",
                                    !.received = [i \in {1, theirs.party} |->
                                        IF i = 1 THEN own ELSE e.share]]
                   ELSE [dkg EXCEPT !.phase = "failed"]
              /\ theirs' = [theirs EXCEPT !.honest =
                              @ /\ right /\ share # 0 /\ to = Times(1, dkg.ephemeral)]
    /\ UNCHANGED <<sign, honest>>

\* The client's share for the backend is encrypted and submitted; the share of
\* the wallet and its public key are computed from what was received.
ShareForBackend == EvaluatePolynomial(dkg.polynomial, theirs.party)
SubmitShare ==
    /\ dkg.phase = "shared"
    /\ LET publicKey == CombineVSSSCommitments(Commitments)
       IN  dkg' = IF Encodes(publicKey)
                  THEN [dkg EXCEPT !.phase = "complete", !.publicKey = publicKey,
                                   !.privateShare = AggregateShares(dkg.received)]
                  ELSE [dkg EXCEPT !.phase = "failed"]
    /\ UNCHANGED <<theirs, sign, honest>>

\* getKeyShare answers null for a share of 0, as if there were none.
KeyShare == IF dkg.privateShare = 0 THEN Null ELSE dkg.privateShare

\* getPartyPublicShares hands out the commitments to the constant terms.
PartyPublicShares(commitments) == [i \in DOMAIN commitments |-> commitments[i][0]]

\* The share of the wallet the backend ends with.
BackendShare ==
    Plus(EvaluatePolynomial(theirs.polynomial, theirs.party), ShareForBackend)

-----------------------------------------------------------------------------
(* SigningClient.sign                                                       *)

\* verifyNonceProof: two Schnorr proofs under one challenge.
NonceProof(party, k, gamma, n1, n2) ==
    LET c == Challenge(<<<<"nonce", party>>, gamma, k, n1, n2>>)
    IN  [R1 |-> n1, R2 |-> n2, s1 |-> Mod(n1 + gamma * c), s2 |-> Mod(n2 + k * c)]
VerifyNonceProof(party, D, E, p) ==
    LET c == Challenge(<<<<"nonce", party>>, D, E, p.R1, p.R2>>)
    IN  /\ Multiplies(p.s1) /\ Multiplies(p.s2) /\ Multiplies(c)
        /\ p.s1 = Plus(p.R1, Times(D, c))
        /\ p.s2 = Plus(p.R2, Times(E, c))

\* The backend's nonce commitment is verified, and the joint nonce is the sum.
SigningNonce ==
    /\ dkg.phase = "complete" /\ KeyShare # Null /\ sign.phase = "idle"
    /\ \E p \in PartyIds, m \in Hashes, k, E, gamma, known \in Nonces :
          LET holds == VerifyNonceProof(p, gamma, E, NonceProof(p, known, gamma, gamma, known))
              R == Plus(k, E)
          IN  /\ honest' = (p = theirs.party /\ known = E /\ holds /\ Encodes(R))
              /\ sign' = IF holds /\ Encodes(R)
                         THEN [sign EXCEPT !.phase = "nonced", !.messageHash = m,
                                           !.party = p, !.k = k, !.E = E, !.r = XCoord(R)]
                         ELSE [sign EXCEPT !.phase = "failed"]
    /\ UNCHANGED <<dkg, theirs>>

\* computePartialSignature, of either party.
ComputePartialSignature(party, parties, keyShare, k, m, r) ==
    [partyId |-> party,
     sigma |-> Mod(ModInverse(k) * (m + r * Mod(keyShare * Lagrange(party, parties)))),
     publicShare |-> Times(1, keyShare), nonceCommitment |-> Times(1, k)]

\* verifyPartialSignature; multiply() refuses a digest or a factor of 0.
\* (The first definition is the mutant: the equation is not checked.)
VerifyFieldsOnly(p, expectedPublicShare, expectedNonce, r, m, parties) ==
    /\ Multiplies(p.sigma)
    /\ p.publicShare = expectedPublicShare
    /\ p.nonceCommitment = expectedNonce
VerifyPartialSignature(p, expectedPublicShare, expectedNonce, r, m, parties) ==
    /\ Multiplies(p.sigma)
    /\ p.publicShare = expectedPublicShare
    /\ p.nonceCommitment = expectedNonce
    /\ Encodes(p.publicShare)
    /\ LET rTimesLambda == Mod(r * Lagrange(p.partyId, parties))
       IN  /\ Multiplies(m) /\ Multiplies(rTimesLambda)
           /\ Times(p.nonceCommitment, p.sigma) = Plus(m, Times(p.publicShare, rTimesLambda))

\* The parties of a signing call are the client and the sender of the nonce.
Signers == <<1, sign.party>>

\* The backend answers the client's nonce with its partial signature: the one of
\* its key share (right), or another one, under any number. Only that of a party
\* of the key generation is verified.
SubmitNonce ==
    /\ sign.phase = "nonced"
    /\ \E p \in PartyIds, share, sigma \in Field :
          LET right == ComputePartialSignature(p, Signers, BackendShare, sign.E,
                                               sign.messageHash, sign.r)
              answer == [right EXCEPT !.sigma = sigma, !.publicShare = share]
              expected == PartyPublicShares(Commitments)
          IN  /\ honest' = /\ honest /\ p = theirs.party /\ answer = right
                           /\ \A n \in {share, sigma, sign.messageHash, sign.r} : Multiplies(n)
              /\ sign' =
                   IF p \in DOMAIN expected =>
                         VerifyPartialSignature(answer, expected[p], sign.E, sign.r,
                                                sign.messageHash, Signers)
                   THEN [sign EXCEPT !.phase = "accepted", !.theirParty = p,
                                     !.theirSigma = sigma]
                   ELSE [sign EXCEPT !.phase = "failed"]
    /\ UNCHANGED <<dkg, theirs>>

SubmitPartial ==
    /\ sign.phase = "accepted"
    /\ sign' = [sign EXCEPT !.phase = "done",
                  !.sigma = ComputePartialSignature(1, Signers, KeyShare, sign.k,
                                sign.messageHash, sign.r).sigma]
    /\ UNCHANGED <<dkg, theirs, honest>>

PedNext ==
    \/ Initiate \/ SubmitCommitment \/ SubmitShare
    \/ SigningNonce \/ SubmitNonce \/ SubmitPartial

PedSpec == PedInit /\ [][PedNext]_pedVars

-----------------------------------------------------------------------------

\* With a backend that is another party than the client: the share of a
\* completed key generation is the value at 1 of the polynomial both parties
\* committed to, and no answer of the backend that it did not commit to is
\* accepted (dkg-client.ts:125 and 158). If the backend committed to no more than
\* the two coefficients of a threshold of 2, Lagrange interpolation of both shares
\* at 0 is the secret key of the public key; a longer commitment is accepted as
\* well (commitments.ts:105), and then the two shares need not give the key. Nor
\* is anything claimed of a backend that calls itself party 1, whose commitment
\* and share the client's own replace (dkg-client.ts:84, 92 and 130).
SharesInterpolate ==
    theirs.party # 1 =>
       /\ dkg.phase = "complete" =>
             /\ theirs.honest
             /\ dkg.privateShare = Plus(EvaluatePolynomial(dkg.polynomial, 1),
                                        EvaluatePolynomial(theirs.polynomial, 1))
             /\ 2 \notin DOMAIN theirs.polynomial =>
                   Mod(Lagrange(1, <<1, theirs.party>>) * dkg.privateShare
                       + Lagrange(theirs.party, <<1, theirs.party>>) * BackendShare)
                      = dkg.publicKey
       /\ dkg.phase = "failed" =>
             ~theirs.honest \/ ~Encodes(CombineVSSSCommitments(Commitments))

\* A backend's partial signature that the client verifies and accepts is the one
\* of the public share of that party and of the nonce it expected, whatever else
\* the backend could answer and whoever sent the nonce (partial-signature.ts:147).
\* One of a party that no commitment came from is accepted without that
\* (signing-client.ts:85).
AcceptedPartialIsRight ==
    sign.phase \in {"accepted", "done"} /\ sign.theirParty \in DOMAIN Commitments =>
        sign.theirSigma =
            ComputePartialSignature(sign.theirParty, Signers,
                                    Commitments[sign.theirParty][0], sign.E,
                                    sign.messageHash, sign.r).sigma

\* README.md:134 offers the Pedersen protocol, and partial-signature.test.ts:68
\* expects of verifyPartialSignature that the public share is the key share
\* times G: then the partial of an honest backend is accepted.
HonestPartialAccepted ==
    sign.phase = "failed" => ~honest
===============================================================================
