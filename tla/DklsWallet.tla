------------------------------ MODULE DklsWallet ------------------------------
(***************************************************************************)
(* What the DKLS client computes (protocols/dkls/crypto.ts): a key that is *)
(* the product of two secrets, and a signature whose partial the client    *)
(* derives from two multiplications (module Multiplication).  Requests and *)
(* retries are in module DklsSigning; here is what the values must be.     *)
(*                                                                         *)
(* The backend is modelled from what the client checks of it: it may       *)
(* reveal another point than it committed to, or prove another secret.     *)
(***************************************************************************)
EXTENDS PrimeField

CONSTANTS DklsNonces,   \* bound: scalars drawn for Schnorr proofs
          Digests,      \* message hashes, not reduced mod Q
          NoValue       \* null

ASSUME DigestAssumption == Digests \subseteq Nat

VARIABLES
    keygen,     \* the client's DKLSKeygenClientState, then its DKLSKeyShare
    peer,       \* the backend's secret, and whether all it sent was sound
    signing,    \* the client's DKLSSigningClientState
    backend,    \* the backend's nonce and its shares of the products
    partial     \* s of the client, or NoValue

dklsVars == <<keygen, peer, signing, backend, partial>>

Optional == Field \cup {NoValue}

KeygenStates ==
    [phase : {"idle", "started", "committed", "revealed", "complete", "failed"},
     secretShare : Optional, publicShare : Optional,
     peerCommitment : Optional, jointPublicKey : Optional]

SigningStates ==
    [phase : {"idle", "started", "committed", "nonced", "multiplied", "done", "failed"},
     messageHash : Digests \cup {NoValue}, nonceShare : Optional,
     peerNonceCommitment : Optional, rValue : Optional,
     mta1Share : Optional, mta2Share : Optional]

DklsTypeOK ==
    /\ keygen \in KeygenStates
    /\ peer \in [secret : Optional, sound : BOOLEAN]
    /\ signing \in SigningStates
    /\ backend \in [nonce : Optional, t1 : Optional, t2 : Optional]
    /\ partial \in Optional

DklsInit ==
    /\ keygen = [phase |-> "idle", secretShare |-> NoValue, publicShare |-> NoValue,
                 peerCommitment |-> NoValue, jointPublicKey |-> NoValue]
    /\ peer = [secret |-> NoValue, sound |-> TRUE]
    /\ signing = [phase |-> "idle", messageHash |-> NoValue, nonceShare |-> NoValue,
                  peerNonceCommitment |-> NoValue, rValue |-> NoValue,
                  mta1Share |-> NoValue, mta2Share |-> NoValue]
    /\ backend = [nonce |-> NoValue, t1 |-> NoValue, t2 |-> NoValue]
    /\ partial = NoValue

-----------------------------------------------------------------------------
(* Key generation.  A commitment is the hash of a point; equal hashes are   *)
(* equal points, so it is written as the point.                             *)

KeygenInitClient ==
    /\ keygen.phase = "idle"
    /\ \E secret \in Scalars :
          keygen' = [keygen EXCEPT !.phase = "started", !.secretShare = secret,
                                   !.publicShare = Times(1, secret)]
    /\ UNCHANGED <<peer, signing, backend, partial>>

\* keygenProcessBackendCommitment; the party of the commitment is not this one.
KeygenProcessBackendCommitment ==
    /\ keygen.phase = "started"
    /\ \E secret \in Scalars, ownParty \in BOOLEAN :
          /\ keygen' = IF ownParty THEN [keygen EXCEPT !.phase = "failed"]
                       ELSE [keygen EXCEPT !.phase = "committed",
                                           !.peerCommitment = Times(1, secret)]
          /\ peer' = [peer EXCEPT !.secret = secret, !.sound = ~ownParty]
    /\ UNCHANGED <<signing, backend, partial>>

\* generateSchnorrProof: the challenge travels beside the proof.
GenerateSchnorrProof(secret, nonce) ==
    [proof |-> SchnorrProof("dkls", secret, nonce),
     challenge |-> Challenge(<<"dkls", Mod(secret), nonce>>)]

\* Mutant: the challenge is the prover's, unverified.
VerifyWithSentChallenge(public, p) ==
    /\ Multiplies(p.proof.response)
    /\ p.proof.response = Plus(p.proof.R, Times(public, p.challenge))
VerifySchnorrProof(public, p) ==
    /\ p.challenge = Challenge(<<"dkls", public, p.proof.R>>)
    /\ SchnorrHolds("dkls", public, p.proof)

\* What the hash is trusted with: a proof does not verify against another point.
ProofsBind ==
    \A public, known \in Scalars, n \in DklsNonces :
        SchnorrHolds("dkls", public, SchnorrProof("dkls", known, n)) => known = public

VerifyCommitment(commitment, point) == commitment = point

\* keygenGenerateReveal, then keygenComplete on the backend's reveal: a point
\* and a proof, which are the committed one's unless the backend fails.
\* (The first definition is the mutant: the product is not reduced.)
UnreducedKey(peerPublic, secretShare) == peerPublic * secretShare
JointPublicKey(peerPublic, secretShare) == Times(peerPublic, secretShare)

KeygenGenerateReveal ==
    /\ keygen.phase = "committed"
    /\ keygen' = [keygen EXCEPT !.phase = "revealed"]
    /\ UNCHANGED <<peer, signing, backend, partial>>

KeygenComplete ==
    /\ keygen.phase = "revealed"
    /\ \E public, known \in Scalars, nonce \in DklsNonces, challenge \in Field :
          LET own == GenerateSchnorrProof(known, nonce)
              p == [own EXCEPT !.challenge = challenge]
          IN  /\ keygen' =
                   IF /\ VerifyCommitment(keygen.peerCommitment, public)
                      /\ VerifySchnorrProof(public, p)
                   THEN [keygen EXCEPT !.phase = "complete", !.jointPublicKey =
                            JointPublicKey(public, keygen.secretShare)]
                   ELSE [keygen EXCEPT !.phase = "failed"]
              /\ peer' = [peer EXCEPT !.sound =
                            /\ public = Times(1, peer.secret) /\ known = peer.secret
                            /\ p = own
                            /\ SchnorrHolds("dkls", public, own.proof)]
    /\ UNCHANGED <<signing, backend, partial>>

-----------------------------------------------------------------------------
(* Signing.                                                                 *)

\* signingInit, once the key is there.
SigningInit ==
    /\ keygen.phase = "complete" /\ signing.phase = "idle"
    /\ \E m \in Digests, k \in Scalars :
          signing' = [signing EXCEPT !.phase = "started", !.messageHash = m,
                                     !.nonceShare = k]
    /\ UNCHANGED <<keygen, peer, backend, partial>>

SigningStoreBackendCommitment ==
    /\ signing.phase = "started"
    /\ \E k \in Scalars :
          /\ signing' = [signing EXCEPT !.phase = "committed",
                                        !.peerNonceCommitment = Times(1, k)]
          /\ backend' = [backend EXCEPT !.nonce = k]
    /\ UNCHANGED <<keygen, peer, partial>>

\* signingProcessBackendNonce: R is the product of both nonces.
SigningProcessBackendNonce ==
    /\ signing.phase = "committed"
    /\ \E R \in Scalars :
          signing' = IF VerifyCommitment(signing.peerNonceCommitment, R)
                     THEN [signing EXCEPT !.phase = "nonced",
                              !.rValue = XCoord(Times(R, signing.nonceShare))]
                     ELSE [signing EXCEPT !.phase = "failed"]
    /\ UNCHANGED <<keygen, peer, backend, partial>>

\* initMtAForSigning: what the client puts into the two multiplications.  The
\* backend puts in the inverse of its nonce, and its secret over its nonce.
MtaInput1(nonce) == ModInverse(nonce)
MtaInput2(secret, nonce) == Mod(secret * ModInverse(nonce))

\* processMtARound2Response: the client's shares are any values, and the
\* backend's shares complete the products.
ProcessMtARound2Response ==
    /\ signing.phase = "nonced"
    /\ \E t1, t2 \in Field :
          LET kA == signing.nonceShare
              kB == backend.nonce
          IN  /\ signing' = [signing EXCEPT !.phase = "multiplied",
                                !.mta1Share = t1, !.mta2Share = t2]
              /\ backend' = [backend EXCEPT
                    !.t1 = Mod(MtaInput1(kA) * ModInverse(kB) - t1),
                    !.t2 = Mod(MtaInput2(keygen.secretShare, kA)
                               * Mod(peer.secret * ModInverse(kB)) - t2)]
    /\ UNCHANGED <<keygen, peer, partial>>

\* computeClientPartialSignature refuses r = 0, as a missing value.
\* (The first definition is the mutant.)
PartialSwapped(m, r, t1, t2) == Mod(r * t1 + m * t2)
PartialS(m, r, t1, t2) == Mod(m * t1 + r * t2)

ComputeClientPartialSignature ==
    /\ signing.phase = "multiplied"
    /\ IF signing.rValue = 0
       THEN /\ signing' = [signing EXCEPT !.phase = "failed"]
            /\ UNCHANGED partial
       ELSE /\ signing' = [signing EXCEPT !.phase = "done"]
            /\ partial' = PartialS(signing.messageHash, signing.rValue,
                                   signing.mta1Share, signing.mta2Share)
    /\ UNCHANGED <<keygen, peer, backend>>

DklsNext ==
    \/ KeygenInitClient \/ KeygenProcessBackendCommitment
    \/ KeygenGenerateReveal \/ KeygenComplete
    \/ SigningInit \/ SigningStoreBackendCommitment \/ SigningProcessBackendNonce
    \/ ProcessMtARound2Response \/ ComputeClientPartialSignature

DklsSpec == DklsInit /\ [][DklsNext]_dklsVars

-----------------------------------------------------------------------------

\* A generated key is accepted exactly from a backend that revealed what it
\* committed to and proved that it knows it (crypto.ts:187 and 191), and both
\* parties compute the same public key, of the product of their secrets.
KeyIsShared ==
    /\ keygen.phase = "complete" =>
          /\ peer.sound
          /\ keygen.jointPublicKey = Times(keygen.publicShare, peer.secret)
    /\ keygen.phase = "failed" => ~peer.sound

\* The client's partial and the backend's add up to an ECDSA signature: s times
\* the joint nonce is m + r * (the secret key), for the r of that joint nonce
\* (crypto.ts:420).
SignatureVerifies ==
    signing.phase = "done" =>
        LET k == signing.nonceShare * backend.nonce
            r == signing.rValue
            s == Plus(partial, PartialS(signing.messageHash, r, backend.t1, backend.t2))
        IN  /\ r = XCoord(Mod(k))
            /\ Times(s, k) = Mod(signing.messageHash + r * keygen.jointPublicKey)
===============================================================================
