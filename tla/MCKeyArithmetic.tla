--------------------------- MODULE MCKeyArithmetic ---------------------------
(* The arithmetic of keys and signatures over a field of five elements.     *)
EXTENDS KeyProtocols

CONSTANTS short, long, other, k1, weak

\* Injective in the secret for every nonce and never 0, as a collision of the
\* hash would make it.
MCChallenge(t) == (t[2] * t[2] * (1 + (t[3] % 4))) % Q
\* One value for a point and its negation; 0 for some points.
MCXCoord(p) == (p * p + 1) % Q
MCSeedScalar(p, s) == IF p = other /\ s = 1 THEN 0 ELSE IF p = long THEN s ELSE s + 1

\* Two functions over the bits, whose values at each bit add up to 0.
MCDraws == {[j \in Bits |-> 1 + j], [j \in Bits |-> 4 - j]}
Few == {1, 3}

ASSUME MCBinding == ProofsBind /\ CommitmentsBind
===============================================================================
