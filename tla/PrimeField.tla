------------------------------ MODULE PrimeField ------------------------------
(***************************************************************************)
(* Scalars modulo the curve order and the group they act on, as the        *)
(* protocols use them (mod, modInverse, randomScalar, and what             *)
(* ProjectivePoint does with a scalar).                                    *)
(*                                                                         *)
(* The group is cyclic of order Q, so a point is written as its discrete   *)
(* logarithm: G.multiply(k) is k, point addition is addition, and the      *)
(* identity is 0.  The library refuses the scalar 0 and refuses to encode  *)
(* the identity; both are guards here, because a small field meets them.   *)
(***************************************************************************)
EXTENDS Integers, Sequences

CONSTANTS Q,               \* CURVE_ORDER
          Challenge(_),    \* sha256 of an encoded tuple, reduced mod Q
          XCoord(_)        \* the affine x of a point, reduced mod Q

Field   == 0 .. (Q - 1)
Scalars == 1 .. (Q - 1)

ASSUME FieldAssumption ==
    /\ Q \in Nat \ {0, 1, 2}
    /\ \A a, b \in Scalars : (a * b) % Q # 0
    /\ \A p \in Field : XCoord(p) \in Field

Mod(n) == n % Q

\* The extended Euclidean algorithm: oldR, r, oldS and s of the loop.
Euclid[q \in Nat \X Nat \X Int \X Int] ==
    LET quotient == q[1] \div q[2]
    IN  IF q[2] = 0 THEN q[3]
        ELSE Euclid[<<q[2], q[1] - quotient * q[2], q[4], q[3] - quotient * q[4]>>]

ModInverse(a) == Mod(Euclid[<<a, Q, 1, 0>>])

\* multiply() takes the scalars 1 .. Q - 1 only, toHex() every point but 0.
Multiplies(k) == k \in Scalars
Encodes(p)    == p # 0
Times(p, k)   == Mod(p * k)
Plus(p, q)    == Mod(p + q)
Minus(p, q)   == Mod(p - q)

\* A Schnorr proof that the prover knows the discrete logarithm of Times(1,
\* secret), bound to a context; nonce is the prover's random scalar.
SchnorrProof(context, secret, nonce) ==
    [R |-> nonce,
     response |-> Mod(nonce + secret * Challenge(<<context, Mod(secret), nonce>>))]

\* Its verification, which throws or answers false on a scalar multiply refuses.
SchnorrHolds(context, public, proof) ==
    LET challenge == Challenge(<<context, public, proof.R>>)
    IN  /\ Encodes(public) /\ Encodes(proof.R)
        /\ Multiplies(challenge) /\ Multiplies(proof.response)
        /\ proof.response = Plus(proof.R, Times(public, challenge))
===============================================================================
