-------------------------- MODULE KeyArithmeticProofs --------------------------
(***************************************************************************)
(* Theorems about SelfCustody, ObliviousMultiplication, DklsWallet and     *)
(* PedersenWallet, for every prime order of the group, every number of     *)
(* bits, sessions, wallets and passwords, and whatever the hashes are.     *)
(* The operators they share are PrimeField's: the field comes first, then  *)
(* Euclid's inverse, finite sums and bits, and each component after them.  *)
(***************************************************************************)
EXTENDS KeyProtocols,
        WellFoundedInduction, NaturalsInduction, FiniteSetTheorems, TLAPS

-----------------------------------------------------------------------------
(* Induction.  The library's theorems take an operator, which the provers   *)
(* cannot instantiate; these take a set.                                    *)

LEMMA LeastElement ==
    ASSUME NEW T \in SUBSET Nat, T # {}
    PROVE  \E x \in T : \A y \in T : x <= y
<1> DEFINE R == {p \in Nat \X Nat : p[1] < p[2]}
<1>1. IsWellFoundedOn(R, Nat)
  <2>1. R = OpToRel(<, Nat)
    BY DEF OpToRel
  <2>. QED
    BY <2>1, NatLessThanWellFounded
<1>2. PICK x \in T : \A y \in T : ~(<<y, x>> \in R)
  <2> HIDE DEF R
  <2>. QED
    BY <1>1, WFMin
<1>3. ASSUME NEW y \in T PROVE x <= y
  <2>1. ~(<<y, x>> \in R) /\ <<y, x>> \in Nat \X Nat
    BY <1>2
  <2>2. ~(y < x)
    BY <2>1
  <2>. QED
    BY <2>2
<1>. QED
  BY <1>3

LEMMA Induction ==
    ASSUME NEW T, \A n \in Nat : (\A m \in Nat : m < n => m \in T) => n \in T
    PROVE  Nat \subseteq T
<1> DEFINE U == Nat \ T
<1>1. SUFFICES ASSUME U # {} PROVE FALSE
  OBVIOUS
<1>2. PICK x \in U : \A y \in U : x <= y
  <2>1. U \in SUBSET Nat
    OBVIOUS
  <2> HIDE DEF U
  <2>. QED
    BY <1>1, <2>1, LeastElement
<1>3. \A m \in Nat : m < x => m \in T
  BY <1>2
<1>. QED
  BY <1>2, <1>3

-----------------------------------------------------------------------------
(* Remainders modulo Q.                                                     *)

LEMMA OrderIsPositive == Q \in Int /\ Q > 2 /\ Q \in Nat \ {0}
  BY FieldAssumption

LEMMA InField == ASSUME NEW x \in Int PROVE Mod(x) \in Field /\ Mod(x) \in Int
  BY OrderIsPositive DEF Mod, Field

LEMMA Quotient ==
    ASSUME NEW x \in Int
    PROVE  \E l \in Int : x = Q * l + Mod(x)
<1>1. x \div Q \in Int
  BY OrderIsPositive
<1>2. x = Q * (x \div Q) + (x % Q)
  BY OrderIsPositive
<1>. QED
  BY <1>1, <1>2 DEF Mod

LEMMA Remainder ==
    ASSUME NEW l \in Int, NEW r \in Field
    PROVE  Mod(Q * l + r) = r
  BY OrderIsPositive DEF Mod, Field

LEMMA Ring ==
    ASSUME NEW a \in Int, NEW b \in Int, NEW c \in Int
    PROVE  /\ a * (b + c) = a * b + a * c
           /\ a * (b - c) = a * b - a * c
           /\ a * b = b * a /\ a * b \in Int
           /\ a * (b * c) = (a * b) * c
  OBVIOUS

\* Multiples of Q do not matter.
LEMMA DropMultiple ==
    ASSUME NEW l \in Int, NEW x \in Int
    PROVE  Mod(Q * l + x) = Mod(x)
<1>1. PICK m \in Int, r \in Field : x = Q * m + r /\ r = Mod(x)
  BY Quotient, InField
<1>2. Q * (l + m) = Q * l + Q * m /\ Q * l \in Int /\ Q * m \in Int
  BY OrderIsPositive, Ring
<1>3. Q * l + x = Q * (l + m) + r
  BY <1>1, <1>2, OrderIsPositive DEF Field
<1>4. Mod(Q * (l + m) + r) = r
  BY Remainder
<1>. QED
  BY <1>1, <1>3, <1>4

LEMMA ModOfField == ASSUME NEW r \in Field PROVE Mod(r) = r
<1>1. Mod(Q * 0 + r) = r
  BY Remainder
<1>2. Q * 0 + r = r
  BY OrderIsPositive DEF Field
<1>. QED
  BY <1>1, <1>2

\* A factor may be reduced first.
LEMMA ReduceFactor ==
    ASSUME NEW a \in Int, NEW b \in Int
    PROVE  Mod(Mod(a) * b) = Mod(a * b) /\ Mod(b * Mod(a)) = Mod(a * b)
<1>1. PICK l \in Int : a = Q * l + Mod(a)
  BY Quotient
<1>2. PICK r \in Int : r = Mod(a)
  BY InField
<1>3. a * b = Q * (l * b) + r * b
  <2>1. /\ (Q * l + r) * b = b * (Q * l + r) /\ b * (Q * l + r) = b * (Q * l) + b * r
        /\ b * (Q * l) = (Q * l) * b /\ b * r = r * b /\ Q * (l * b) = (Q * l) * b
    BY <1>2, OrderIsPositive, Ring
  <2>. QED
    BY ONLY <1>1, <1>2, <2>1
<1>4. r * b \in Int /\ l * b \in Int /\ r * b = b * r
  BY Ring
<1>5. Mod(Q * (l * b) + r * b) = Mod(r * b)
  BY <1>4, DropMultiple
<1>. QED
  BY <1>2, <1>3, <1>4, <1>5

\* Two numbers with the same remainder differ by a multiple of Q.
LEMMA SameRemainder ==
    ASSUME NEW x \in Int, NEW y \in Int, Mod(x - y) = Mod(x)
    PROVE  Mod(y) = 0
<1>1. PICK l \in Int : x = Q * l + Mod(x)
  BY Quotient
<1>2. PICK m \in Int : x - y = Q * m + Mod(x - y)
  BY Quotient
<1>3. PICK r \in Int : r = Mod(x)
  BY InField
<1>4. Q * (l - m) = Q * l - Q * m /\ Q * l \in Int /\ Q * m \in Int /\ Q * (l - m) \in Int
  BY OrderIsPositive, Ring
<1>5. y = Q * (l - m) + 0
  <2>1. x = Q * l + r /\ x - y = Q * m + r
    BY <1>1, <1>2, <1>3
  <2>. QED
    BY <2>1, <1>4
<1>6. 0 \in Field
  BY OrderIsPositive DEF Field
<1>. QED
  BY <1>5, <1>6, Remainder

\* A term may be reduced first.
LEMMA ReduceTerm ==
    ASSUME NEW a \in Int, NEW b \in Int
    PROVE  Mod(Mod(a) + b) = Mod(a + b) /\ Mod(b + Mod(a)) = Mod(a + b)
<1>1. PICK l \in Int, r \in Int : a = Q * l + r /\ r = Mod(a)
  BY Quotient, InField
<1>2. Q * l \in Int
  BY OrderIsPositive, Ring
<1>3. a + b = Q * l + (r + b) /\ r + b = b + r
  BY <1>1, <1>2
<1>4. Mod(Q * l + (r + b)) = Mod(r + b)
  BY DropMultiple
<1>. QED
  BY <1>1, <1>3, <1>4

\* Sums, differences and products of congruent numbers are congruent.
LEMMA CongruentSum ==
    ASSUME NEW a \in Int, NEW b \in Int, NEW c \in Int, NEW d \in Int,
           Mod(a) = Mod(c), Mod(b) = Mod(d)
    PROVE  Mod(a + b) = Mod(c + d)
<1>1. PICK r \in Int, s \in Int : r = Mod(a) /\ s = Mod(b)
  BY InField
<1>2. Mod(a + b) = Mod(r + b) /\ Mod(r + b) = Mod(r + s)
  BY <1>1, ReduceTerm
<1>3. Mod(c + d) = Mod(r + d) /\ Mod(r + d) = Mod(r + s)
  BY <1>1, ReduceTerm
<1>. QED
  BY <1>2, <1>3

LEMMA CongruentProduct ==
    ASSUME NEW a \in Int, NEW b \in Int, NEW c \in Int, NEW d \in Int,
           Mod(a) = Mod(c), Mod(b) = Mod(d)
    PROVE  Mod(a * b) = Mod(c * d)
<1>1. PICK r \in Int, s \in Int : r = Mod(a) /\ s = Mod(b)
  BY InField
<1>2. Mod(a * b) = Mod(r * b) /\ Mod(b * r) = Mod(s * r) /\ b * r = r * b
  BY <1>1, ReduceFactor, Ring
<1>3. Mod(c * d) = Mod(r * d) /\ Mod(d * r) = Mod(s * r) /\ d * r = r * d
  BY <1>1, ReduceFactor, Ring
<1>. QED
  BY <1>2, <1>3

LEMMA ModTwice == ASSUME NEW x \in Int PROVE Mod(Mod(x)) = Mod(x)
  BY InField, ModOfField

-----------------------------------------------------------------------------
(* modInverse.                                                              *)

EuclidStates == Nat \X Nat \X Int \X Int

\* One turn of the loop: it is over when the second remainder is 0.
Turn(q) ==
    LET quotient == q[1] \div q[2]
    IN  <<q[2], q[1] - quotient * q[2], q[4], q[3] - quotient * q[4]>>

LEMMA TurnShrinks ==
    ASSUME NEW q \in EuclidStates, q[2] # 0
    PROVE  Turn(q) \in EuclidStates /\ Turn(q)[2] < q[2]
<1>1. PICK a \in Nat, b \in Nat \ {0}, c \in Int, d \in Int : q = <<a, b, c, d>>
  BY DEF EuclidStates
<1>2. a \div b \in Nat /\ a = b * (a \div b) + (a % b) /\ a % b \in 0 .. (b - 1)
  <2>1. a \div b \in Int /\ a % b \in 0 .. (b - 1)
    OBVIOUS
  <2>2. a = b * (a \div b) + (a % b)
    OBVIOUS
  <2>3. a \div b >= 0
    OBVIOUS
  <2>. QED
    BY <2>1, <2>2, <2>3
<1>3. PICK e \in Nat : e = a \div b
  BY <1>2
<1>4. a - e * b = (a % b) /\ c - e * d \in Int
  <2>1. e * b = b * e /\ e * b \in Int /\ e * d \in Int
    BY Ring
  <2>. QED
    BY <1>2, <1>3, <2>1
<1>5. Turn(q) = <<b, a - e * b, d, c - e * d>> /\ q[2] = b
  BY <1>1, <1>3 DEF Turn
<1>. QED
  BY <1>2, <1>4, <1>5 DEF EuclidStates

\* A function that computes the recursion where the second remainder is at most k.
Computes(g, k) ==
    \A q \in EuclidStates : q[2] <= k => g[q] = IF q[2] = 0 THEN q[3] ELSE g[Turn(q)]

LEMMA ComputesAlike ==
    ASSUME NEW g, NEW h, NEW k \in Nat, NEW l \in Nat, Computes(g, k), Computes(h, l)
    PROVE  \A q \in EuclidStates : q[2] <= k /\ q[2] <= l => g[q] = h[q]
<1> DEFINE T == {n \in Nat : n <= k /\ n <= l => \A q \in EuclidStates : q[2] = n => g[q] = h[q]}
<1>1. ASSUME NEW n \in Nat, \A m \in Nat : m < n => m \in T PROVE n \in T
  <2>1. SUFFICES ASSUME n <= k, n <= l, NEW q \in EuclidStates, q[2] = n PROVE g[q] = h[q]
    OBVIOUS
  <2>2. CASE n = 0
    BY <2>1, <2>2 DEF Computes
  <2>3. CASE n # 0
    <3>1. Turn(q) \in EuclidStates /\ Turn(q)[2] < n
      BY <2>1, <2>3, TurnShrinks
    <3>2. Turn(q)[2] \in Nat
      BY <3>1 DEF EuclidStates
    <3>3. g[Turn(q)] = h[Turn(q)]
      BY <1>1, <2>1, <3>1, <3>2
    <3>. QED
      BY <2>1, <2>3, <3>3 DEF Computes
  <2>. QED
    BY <2>2, <2>3
<1>2. Nat \subseteq T
  <2> HIDE DEF T
  <2>. QED
    BY <1>1, Induction
<1>3. \A q \in EuclidStates : q[2] \in Nat
  BY DEF EuclidStates
<1>. QED
  BY <1>2, <1>3

LEMMA SomeComputes == \A k \in Nat : \E g : Computes(g, k)
<1> DEFINE T == {k \in Nat : \E g : Computes(g, k)}
<1>1. ASSUME NEW n \in Nat, \A m \in Nat : m < n => m \in T PROVE n \in T
  <2>1. CASE n = 0
    <3> DEFINE g == [q \in EuclidStates |-> q[3]]
    <3>1. Computes(g, n)
      <4>1. \A q \in EuclidStates : q[2] <= 0 => q[2] = 0
        BY DEF EuclidStates
      <4>. QED
        BY <2>1, <4>1 DEF Computes
    <3>. QED
      BY <3>1
  <2>2. CASE n # 0
    <3>1. n - 1 \in Nat /\ n - 1 < n
      BY <2>2
    <3>2. PICK h : Computes(h, n - 1)
      BY <1>1, <3>1
    <3> DEFINE g == [q \in EuclidStates |-> IF q[2] = 0 THEN q[3] ELSE h[Turn(q)]]
    <3>3. \A q \in EuclidStates : q[2] <= n - 1 => g[q] = h[q]
      BY <3>2 DEF Computes
    <3>4. ASSUME NEW q \in EuclidStates, q[2] <= n, q[2] # 0 PROVE g[q] = g[Turn(q)]
      <4>1. Turn(q) \in EuclidStates /\ Turn(q)[2] < q[2] /\ q[2] \in Nat
        BY <3>4, TurnShrinks DEF EuclidStates
      <4>2. Turn(q)[2] \in Nat
        BY <4>1 DEF EuclidStates
      <4>3. Turn(q)[2] <= n - 1
        BY <3>4, <4>1, <4>2
      <4>4. g[Turn(q)] = h[Turn(q)]
        BY ONLY <3>3, <4>1, <4>3
      <4>5. g[q] = h[Turn(q)]
        BY <3>4
      <4>. QED
        BY ONLY <4>4, <4>5
    <3>5. \A q \in EuclidStates : q[2] = 0 => g[q] = q[3]
      OBVIOUS
    <3> HIDE DEF g
    <3>6. Computes(g, n)
      BY <3>4, <3>5 DEF Computes
    <3>. QED
      BY <3>6
  <2>. QED
    BY <2>1, <2>2
<1>2. Nat \subseteq T
  <2> HIDE DEF T
  <2>. QED
    BY <1>1, Induction
<1>. QED
  BY <1>2

\* The recursion of Euclid is one: there is a function that computes it everywhere.
LEMMA EuclidComputes ==
    \A q \in EuclidStates : Euclid[q] = IF q[2] = 0 THEN q[3] ELSE Euclid[Turn(q)]
<1> DEFINE Body(g) == [q \in EuclidStates |-> IF q[2] = 0 THEN q[3] ELSE g[Turn(q)]]
           of(n) == CHOOSE g : Computes(g, n)
           G == [q \in EuclidStates |-> of(q[2])[q]]
<1>1. Euclid = CHOOSE g : g = Body(g)
  BY DEF Euclid, EuclidStates, Turn
<1>2. \A n \in Nat : Computes(of(n), n)
  BY SomeComputes
<1>3. ASSUME NEW q \in EuclidStates PROVE G[q] = Body(G)[q]
  <2>1. q[2] \in Nat
    BY DEF EuclidStates
  <2>2. CASE q[2] = 0
    <3>1. Computes(of(q[2]), q[2])
      BY <1>2, <2>1
    <3> HIDE DEF of
    <3>2. of(q[2])[q] = q[3]
      BY <2>1, <2>2, <3>1 DEF Computes
    <3>. QED
      BY <2>2, <3>2
  <2>3. CASE q[2] # 0
    <3>1. Turn(q) \in EuclidStates /\ Turn(q)[2] < q[2]
      BY <2>3, TurnShrinks
    <3>2. Turn(q)[2] \in Nat
      BY <3>1 DEF EuclidStates
    <3>3. of(q[2])[q] = of(q[2])[Turn(q)]
      BY <1>2, <2>1, <2>3 DEF Computes
    <3>4. Computes(of(q[2]), q[2]) /\ Computes(of(Turn(q)[2]), Turn(q)[2])
      BY <1>2, <2>1, <3>2
    <3> HIDE DEF of
    <3>5. of(q[2])[Turn(q)] = of(Turn(q)[2])[Turn(q)]
      BY <2>1, <3>1, <3>2, <3>4, ComputesAlike
    <3>6. G[q] = of(q[2])[q] /\ G[Turn(q)] = of(Turn(q)[2])[Turn(q)]
      BY <3>1
    <3>. QED
      BY <2>3, <3>3, <3>5, <3>6
  <2>. QED
    BY <2>2, <2>3
<1>4. G = Body(G)
  <2>1. G = [q \in EuclidStates |-> G[q]]
    OBVIOUS
  <2>2. Body(G) = [q \in EuclidStates |-> Body(G)[q]]
    OBVIOUS
  <2>. QED
    BY <1>3
<1> HIDE DEF G
<1>5. Euclid = Body(Euclid)
  BY <1>1, <1>4
<1>. QED
  BY <1>5

\* What the loop keeps: each remainder is the number times its coefficient, and
\* what divides both remainders of a turn divides both of the turn before.
Tracks(a, q) ==
    /\ Mod(a * q[3]) = Mod(q[1]) /\ Mod(a * q[4]) = Mod(q[2])
    /\ q[1] # 0 \/ q[2] # 0

Divides(d, n) == \E e \in Int : n = d * e

LEMMA TurnTracks ==
    ASSUME NEW a \in Int, NEW q \in EuclidStates, q[2] # 0, Tracks(a, q)
    PROVE  /\ Tracks(a, Turn(q))
           /\ \A d \in Nat : Divides(d, Turn(q)[1]) /\ Divides(d, Turn(q)[2])
                => Divides(d, q[1]) /\ Divides(d, q[2])
<1>1. PICK x \in Nat, n \in Nat \ {0}, c \in Int, s \in Int : q = <<x, n, c, s>>
  BY DEF EuclidStates
<1>2. PICK e \in Int : e = x \div n
  OBVIOUS
<1>3. Turn(q) = <<n, x - e * n, s, c - e * s>>
  BY <1>1, <1>2 DEF Turn
<1>4. PICK m \in Int : m = -e
  OBVIOUS
<1>5. PICK y \in Int : y = m * n
  BY Ring
<1>6. e * n = -y /\ x - e * n = x + y /\ x + y \in Int
  BY <1>2, <1>4, <1>5
<1>7. PICK t \in Int : t = m * s
  BY Ring
<1>8. e * s = -t /\ c - e * s = c + t /\ c + t \in Int
  BY <1>4, <1>7
<1>9. Mod(a * c) = Mod(x) /\ Mod(a * s) = Mod(n)
  BY <1>1 DEF Tracks
<1>10. Mod(a * (c + t)) = Mod(x + y)
  <2>1. a * (c + t) = a * c + a * t /\ a * c \in Int /\ a * t \in Int /\ a * s \in Int
    BY Ring
  <2>2. a * t = m * (a * s)
    <3>1. a * (m * s) = (a * m) * s /\ a * m = m * a /\ (m * a) * s = m * (a * s)
      BY Ring
    <3>. QED
      BY <1>7, <3>1
  <2>3. Mod(m * (a * s)) = Mod(m * n)
    <3>1. PICK u \in Int : u = a * s
      BY <2>1
    <3>2. Mod(u) = Mod(n) /\ n \in Int
      BY <1>9, <3>1
    <3>3. Mod(m * u) = Mod(m * n)
      <4>1. PICK v \in Int : v = Mod(m)
        BY InField
      <4>2. Mod(v * u) = Mod(m * u) /\ Mod(v * n) = Mod(m * n)
        BY <3>2, <4>1, ReduceFactor
      <4>3. Mod(v * u) = Mod(v * n)
        <5>1. PICK w \in Int : w = Mod(u)
          BY InField
        <5>2. Mod(v * w) = Mod(u * v) /\ u * v = v * u
          BY <5>1, ReduceFactor, Ring
        <5>3. Mod(v * w) = Mod(n * v) /\ n * v = v * n
          BY <3>2, <5>1, ReduceFactor, Ring
        <5>. QED
          BY <5>2, <5>3
      <4>. QED
        BY <4>2, <4>3
    <3>. QED
      BY <3>1, <3>3
  <2>4. Mod(a * t) = Mod(y)
    BY <1>5, <2>2, <2>3
  <2>5. Mod(a * c + a * t) = Mod(x + y)
    BY <1>9, <2>1, <2>4, CongruentSum
  <2>. QED
    BY <2>1, <2>5
<1>11. Tracks(a, Turn(q))
  BY <1>3, <1>6, <1>8, <1>9, <1>10 DEF Tracks
<1>12. ASSUME NEW d \in Nat, Divides(d, n), Divides(d, x - e * n)
       PROVE  Divides(d, x)
  <2>1. PICK f \in Int, g \in Int : n = d * f /\ x - e * n = d * g
    BY <1>12 DEF Divides
  <2>2. PICK h \in Int : h = e * f
    BY Ring
  <2>3. e * n = d * h
    <3>1. e * (d * f) = (e * d) * f /\ e * d = d * e /\ (d * e) * f = d * (e * f)
      BY Ring
    <3>. QED
      BY <2>1, <2>2, <3>1
  <2>4. d * (g + h) = d * g + d * h /\ d * g \in Int /\ d * h \in Int /\ g + h \in Int
    BY Ring
  <2>5. x = d * (g + h)
    BY <2>1, <2>3, <2>4
  <2>. QED
    BY <2>4, <2>5 DEF Divides
<1>. QED
  BY <1>1, <1>3, <1>11, <1>12

\* The answer of the loop, times the number, is a common divisor of the remainders.
LEMMA EuclidInverts ==
    ASSUME NEW a \in Int
    PROVE  \A q \in EuclidStates : Tracks(a, q) =>
             /\ Euclid[q] \in Int
             /\ \E d \in Nat \ {0} :
                  Divides(d, q[1]) /\ Divides(d, q[2]) /\ Mod(a * Euclid[q]) = Mod(d)
<1> DEFINE Good(q) == /\ Euclid[q] \in Int
                      /\ \E d \in Nat \ {0} :
                           Divides(d, q[1]) /\ Divides(d, q[2]) /\ Mod(a * Euclid[q]) = Mod(d)
           T == {n \in Nat : \A q \in EuclidStates : q[2] = n /\ Tracks(a, q) => Good(q)}
<1>1. ASSUME NEW n \in Nat, \A m \in Nat : m < n => m \in T PROVE n \in T
  <2>1. SUFFICES ASSUME NEW q \in EuclidStates, q[2] = n, Tracks(a, q) PROVE Good(q)
    OBVIOUS
  <2>2. CASE n = 0
    <3>1. PICK x \in Nat, c \in Int : q[1] = x /\ q[3] = c
      BY DEF EuclidStates
    <3>2. Euclid[q] = c
      BY <2>1, <2>2, <3>1, EuclidComputes
    <3>3. x # 0 /\ Mod(a * c) = Mod(x)
      BY <2>1, <2>2, <3>1 DEF Tracks
    <3>4. x = x * 1 /\ 0 = x * 0
      OBVIOUS
    <3>5. Divides(x, x) /\ Divides(x, 0)
      BY <3>4 DEF Divides
    <3>. QED
      BY <2>1, <2>2, <3>1, <3>2, <3>3, <3>5
  <2>3. CASE n # 0
    <3>1. Turn(q) \in EuclidStates /\ Turn(q)[2] < n /\ Turn(q)[2] \in Nat
      BY <2>1, <2>3, TurnShrinks DEF EuclidStates
    <3>2. Tracks(a, Turn(q))
      BY <2>1, <2>3, TurnTracks
    <3>3. Good(Turn(q))
      BY <1>1, <3>1, <3>2
    <3>4. Euclid[q] = Euclid[Turn(q)]
      BY <2>1, <2>3, EuclidComputes
    <3>5. PICK d \in Nat \ {0} : /\ Divides(d, Turn(q)[1]) /\ Divides(d, Turn(q)[2])
                                 /\ Mod(a * Euclid[Turn(q)]) = Mod(d)
      BY <3>3
    <3>6. Divides(d, q[1]) /\ Divides(d, q[2])
      BY <2>1, <2>3, <3>5, TurnTracks
    <3>. QED
      BY <3>3, <3>4, <3>5, <3>6
  <2>. QED
    BY <2>2, <2>3
<1>2. Nat \subseteq T
  <2> HIDE DEF T
  <2>. QED
    BY <1>1, Induction
<1>3. \A q \in EuclidStates : q[2] \in Nat
  BY DEF EuclidStates
<1>. QED
  BY <1>2, <1>3

\* A number that divides a scalar and the order is 1, for the order is prime.
LEMMA CommonDivisor ==
    ASSUME NEW a \in Scalars, NEW d \in Nat \ {0}, Divides(d, a), Divides(d, Q)
    PROVE  d = 1
<1>1. PICK e \in Int, f \in Int : a = d * e /\ Q = d * f
  BY DEF Divides
<1>2. a \in Nat /\ a > 0 /\ a < Q
  BY OrderIsPositive DEF Scalars
<1>3. e > 0 /\ f > 0
  BY <1>1, <1>2, OrderIsPositive
<1>4. d <= a
  BY <1>1, <1>2, <1>3
<1>5. SUFFICES ASSUME d # 1 PROVE FALSE
  OBVIOUS
<1>6. f < Q
  <2>1. d * f >= 2 * f
    BY <1>3, <1>5
  <2>. QED
    BY <1>1, <1>3, <2>1
<1>7. d \in Scalars /\ f \in Scalars
  BY <1>2, <1>3, <1>4, <1>6, OrderIsPositive DEF Scalars
<1>8. (d * f) % Q # 0
  BY <1>7, FieldAssumption
<1>9. Q % Q = 0
  BY OrderIsPositive
<1>. QED
  BY <1>1, <1>8, <1>9

\* modInverse gives the inverse of every scalar, and a scalar.
THEOREM InverseIsInverse ==
    \A a \in Scalars : ModInverse(a) \in Scalars /\ Mod(a * ModInverse(a)) = 1
<1>1. SUFFICES ASSUME NEW a \in Scalars
               PROVE  ModInverse(a) \in Scalars /\ Mod(a * ModInverse(a)) = 1
  OBVIOUS
<1>2. a \in Nat /\ a > 0 /\ a < Q /\ a \in Int
  BY OrderIsPositive DEF Scalars
<1>3. PICK q : q = <<a, Q, 1, 0>> /\ q \in EuclidStates
  <2>1. a \in Nat /\ Q \in Nat /\ 1 \in Int /\ 0 \in Int
    BY <1>2, OrderIsPositive
  <2>2. <<a, Q, 1, 0>> \in EuclidStates
    BY ONLY <2>1 DEF EuclidStates
  <2>. QED
    BY <2>2
<1>4. 0 \in Field /\ 1 \in Field /\ Mod(0) = 0 /\ Mod(1) = 1
  BY OrderIsPositive, ModOfField DEF Field
<1>5. Tracks(a, q)
  <2>1. a * 1 = a /\ a * 0 = 0
    BY <1>2
  <2>2. Mod(Q) = 0
    BY OrderIsPositive DEF Mod
  <2>. QED
    BY <1>2, <1>3, <1>4, <2>1, <2>2 DEF Tracks
<1>6. PICK x \in Int, d \in Nat \ {0} : /\ x = Euclid[q] /\ Divides(d, a) /\ Divides(d, Q)
                                        /\ Mod(a * x) = Mod(d)
  BY <1>2, <1>3, <1>5, EuclidInverts
<1>7. Mod(a * x) = 1
  BY <1>4, <1>6, CommonDivisor
<1>8. PICK i \in Field : i = Mod(x) /\ i \in Int
  BY InField
<1>9. ModInverse(a) = i
  BY <1>3, <1>6, <1>8 DEF ModInverse
<1>10. Mod(a * i) = 1
  <2>1. Mod(i * a) = Mod(x * a) /\ x * a = a * x /\ i * a = a * i
    BY <1>2, <1>8, ReduceFactor, Ring
  <2>. QED
    BY <1>7, <2>1
<1>11. i # 0
  <2>1. a * 0 = 0
    BY <1>2
  <2>. QED
    BY <1>4, <1>10, <2>1
<1>12. i \in Scalars
  BY <1>8, <1>11, OrderIsPositive DEF Field, Scalars
<1>. QED
  BY <1>9, <1>10, <1>12

-----------------------------------------------------------------------------
(* Sums over a finite set, which the folds take in the order of CHOOSE.     *)

SumStep(h, f, s) ==
    IF s = {} THEN 0 ELSE f[CHOOSE x \in s : TRUE] + h[s \ {CHOOSE x \in s : TRUE}]

Terms(S) == [S -> Int]
Sums(h, f, S) == h = [s \in SUBSET S |-> SumStep(h, f, s)]

LEMMA SubsetInduction ==
    ASSUME NEW S, IsFiniteSet(S), NEW T,
           \A s \in SUBSET S :
               (\A t \in SUBSET S : Cardinality(t) < Cardinality(s) => t \in T) => s \in T
    PROVE  SUBSET S \subseteq T
<1> DEFINE N == {n \in Nat : \A s \in SUBSET S : Cardinality(s) = n => s \in T}
<1>1. \A s \in SUBSET S : Cardinality(s) \in Nat
  BY FS_Subset, FS_CardinalityType
<1>2. ASSUME NEW n \in Nat, \A m \in Nat : m < n => m \in N PROVE n \in N
  <2>1. SUFFICES ASSUME NEW s \in SUBSET S, Cardinality(s) = n PROVE s \in T
    OBVIOUS
  <2>2. \A t \in SUBSET S : Cardinality(t) < Cardinality(s) => t \in T
    BY <1>1, <1>2, <2>1
  <2>. QED
    BY <2>2
<1>3. Nat \subseteq N
  <2> HIDE DEF N
  <2>. QED
    BY <1>2, Induction
<1>. QED
  BY <1>1, <1>3

\* Without an element, a subset is smaller.
LEMMA Smaller ==
    ASSUME NEW S, IsFiniteSet(S), NEW s \in SUBSET S, NEW x \in s
    PROVE  s \ {x} \in SUBSET S /\ Cardinality(s \ {x}) < Cardinality(s)
<1>1. IsFiniteSet(s) /\ Cardinality(s) \in Nat
  BY FS_Subset, FS_CardinalityType
<1>2. Cardinality(s \ {x}) = Cardinality(s) - 1
  BY <1>1, FS_RemoveElement
<1>. QED
  BY <1>1, <1>2

LEMMA SumsExist ==
    ASSUME NEW S, IsFiniteSet(S), NEW f
    PROVE  \E h : Sums(h, f, S)
<1> DEFINE Upto(h, k) == \A s \in SUBSET S : Cardinality(s) <= k => h[s] = SumStep(h, f, s)
           Fun(h) == h = [s \in SUBSET S |-> h[s]]
           T == {k \in Nat : \E h : Fun(h) /\ Upto(h, k)}
<1>1. \A s \in SUBSET S : IsFiniteSet(s) /\ Cardinality(s) \in Nat /\ Cardinality(s) <= Cardinality(S)
  BY FS_Subset, FS_CardinalityType
<1>2. ASSUME NEW s \in SUBSET S, s # {}
      PROVE  /\ s \ {CHOOSE x \in s : TRUE} \in SUBSET S
             /\ Cardinality(s \ {CHOOSE x \in s : TRUE}) < Cardinality(s)
  <2>1. (CHOOSE x \in s : TRUE) \in s
    BY <1>2
  <2>. QED
    BY <2>1, Smaller
<1>3. ASSUME NEW n \in Nat, \A m \in Nat : m < n => m \in T PROVE n \in T
  <2>1. CASE n = 0
    <3> DEFINE h == [s \in SUBSET S |-> 0]
    <3>1. ASSUME NEW s \in SUBSET S, Cardinality(s) <= 0 PROVE h[s] = SumStep(h, f, s)
      <4>1. s = {}
        BY <1>1, <3>1, FS_EmptySet
      <4>. QED
        BY <4>1 DEF SumStep
    <3>2. Fun(h)
      OBVIOUS
    <3>. QED
      BY <2>1, <3>1, <3>2
  <2>2. CASE n # 0
    <3>1. n - 1 \in Nat /\ n - 1 < n
      BY <2>2
    <3>2. PICK h : Fun(h) /\ Upto(h, n - 1)
      BY <1>3, <3>1
    <3> DEFINE g == [s \in SUBSET S |-> SumStep(h, f, s)]
    <3>3. ASSUME NEW s \in SUBSET S, Cardinality(s) <= n PROVE g[s] = SumStep(g, f, s)
      <4>1. CASE s = {}
        BY <4>1 DEF SumStep
      <4>2. CASE s # {}
        <5>1. PICK t \in SUBSET S : t = s \ {CHOOSE x \in s : TRUE} /\ Cardinality(t) < Cardinality(s)
          BY <1>2, <4>2
        <5>2. Cardinality(t) <= n - 1
          BY <1>1, <3>3, <5>1
        <5>3. g[t] = h[t]
          BY <3>2, <5>2
        <5>4. g[s] = f[CHOOSE x \in s : TRUE] + h[t]
          BY <4>2, <5>1 DEF SumStep
        <5>5. SumStep(g, f, s) = f[CHOOSE x \in s : TRUE] + g[t]
          BY <4>2, <5>1 DEF SumStep
        <5>. QED
          BY <5>3, <5>4, <5>5
      <4>. QED
        BY <4>1, <4>2
    <3>4. Fun(g)
      OBVIOUS
    <3> HIDE DEF g
    <3>. QED
      BY <3>3, <3>4
  <2>. QED
    BY <2>1, <2>2
<1>4. Nat \subseteq T
  <2> HIDE DEF T
  <2>. QED
    BY <1>3, Induction
<1>5. PICK h : Fun(h) /\ Upto(h, Cardinality(S))
  BY <1>1, <1>4
<1>6. \A s \in SUBSET S : h[s] = SumStep(h, f, s)
  BY <1>1, <1>5
<1>7. h = [s \in SUBSET S |-> SumStep(h, f, s)]
  BY <1>5, <1>6
<1>. QED
  BY <1>7 DEF Sums

LEMMA SumIsInt ==
    ASSUME NEW S, IsFiniteSet(S), NEW f \in Terms(S), NEW h, Sums(h, f, S)
    PROVE  \A s \in SUBSET S : h[s] \in Int
<1> USE DEF Terms
<1> DEFINE T == {s \in SUBSET S : h[s] \in Int}
<1>1. ASSUME NEW s \in SUBSET S,
             \A t \in SUBSET S : Cardinality(t) < Cardinality(s) => t \in T
      PROVE  s \in T
  <2>1. h[s] = SumStep(h, f, s)
    BY DEF Sums
  <2>2. CASE s = {}
    BY <2>1, <2>2 DEF SumStep
  <2>3. CASE s # {}
    <3>1. PICK x \in s : x = CHOOSE y \in s : TRUE
      BY <2>3
    <3>2. s \ {x} \in T
      BY <1>1, Smaller
    <3>3. h[s] = f[x] + h[s \ {x}]
      BY <2>1, <2>3, <3>1 DEF SumStep
    <3>4. h[s \ {x}] \in Int /\ f[x] \in Int
      BY <3>2
    <3>5. h[s] \in Int
      BY <3>3, <3>4
    <3>. QED
      BY <3>5
  <2>. QED
    BY <2>2, <2>3
<1>2. SUBSET S \subseteq T
  <2> HIDE DEF T
  <2>. QED
    BY <1>1, SubsetInduction
<1>. QED
  BY <1>2

\* The order does not matter: any element may be taken out first.
LEMMA TakeOut ==
    ASSUME NEW S, IsFiniteSet(S), NEW f \in Terms(S), NEW h, Sums(h, f, S),
           NEW z \in SUBSET S, NEW y \in z
    PROVE  h[z] = f[y] + h[z \ {y}]
<1> DEFINE T == {s \in SUBSET S : \A x \in s : h[s] = f[x] + h[s \ {x}]}
<1>1. ASSUME NEW s \in SUBSET S,
             \A t \in SUBSET S : Cardinality(t) < Cardinality(s) => t \in T
      PROVE  s \in T
  <2>1. SUFFICES ASSUME NEW x \in s PROVE h[s] = f[x] + h[s \ {x}]
    OBVIOUS
  <2>2. PICK c \in s : c = CHOOSE w \in s : TRUE
    OBVIOUS
  <2>3. h[s] = f[c] + h[s \ {c}]
    <3>1. h[s] = SumStep(h, f, s)
      BY DEF Sums
    <3>. QED
      BY <2>2, <3>1 DEF SumStep
  <2>4. CASE x = c
    BY <2>3, <2>4
  <2>5. CASE x # c
    <3>1. s \ {c} \in T /\ s \ {x} \in T
      BY <1>1, Smaller
    <3>2. h[s \ {c}] = f[x] + h[(s \ {c}) \ {x}] /\ h[s \ {x}] = f[c] + h[(s \ {x}) \ {c}]
      BY <2>5, <3>1
    <3>3. (s \ {c}) \ {x} = (s \ {x}) \ {c}
      OBVIOUS
    <3>4. PICK r \in Int : r = h[(s \ {x}) \ {c}]
      BY SumIsInt
    <3>5. PICK p \in Int, q \in Int : p = f[x] /\ q = f[c]
      BY DEF Terms
    <3>6. h[s] = q + (p + r) /\ h[s \ {x}] = q + r
      BY <2>3, <3>2, <3>3, <3>4, <3>5
    <3>7. q + (p + r) = p + (q + r)
      OBVIOUS
    <3>. QED
      BY <3>5, <3>6, <3>7
  <2>. QED
    BY <2>4, <2>5
<1>2. SUBSET S \subseteq T
  <2> HIDE DEF T
  <2>. QED
    BY <1>1, SubsetInduction
<1>. QED
  BY <1>2

\* If each term is a combination of the terms of two other sums, modulo Q, so is
\* the sum.
Combines(a, e, f, g, S) == \A x \in S : Mod(e[x]) = Mod(f[x] + a * g[x])

LEMMA SumsCombine ==
    ASSUME NEW S, IsFiniteSet(S), NEW a \in Int,
           NEW f \in Terms(S), NEW g \in Terms(S), NEW e \in Terms(S),
           Combines(a, e, f, g, S),
           NEW h, NEW i, NEW k, Sums(h, f, S), Sums(i, g, S), Sums(k, e, S)
    PROVE  Mod(k[S]) = Mod(h[S] + a * i[S])
<1> DEFINE T == {s \in SUBSET S : Mod(k[s]) = Mod(h[s] + a * i[s])}
<1>0. /\ \A s \in SUBSET S : \A x \in s : h[s] = f[x] + h[s \ {x}]
      /\ \A s \in SUBSET S : \A x \in s : i[s] = g[x] + i[s \ {x}]
      /\ \A s \in SUBSET S : \A x \in s : k[s] = e[x] + k[s \ {x}]
  <2>1. ASSUME NEW s \in SUBSET S, NEW x \in s PROVE h[s] = f[x] + h[s \ {x}]
    BY TakeOut
  <2>2. ASSUME NEW s \in SUBSET S, NEW x \in s PROVE i[s] = g[x] + i[s \ {x}]
    BY TakeOut
  <2>3. ASSUME NEW s \in SUBSET S, NEW x \in s PROVE k[s] = e[x] + k[s \ {x}]
    BY TakeOut
  <2>. QED
    BY <2>1, <2>2, <2>3
<1>1. ASSUME NEW s \in SUBSET S,
             \A t \in SUBSET S : Cardinality(t) < Cardinality(s) => t \in T
      PROVE  s \in T
  <2>0. SUFFICES Mod(k[s]) = Mod(h[s] + a * i[s])
    OBVIOUS
  <2>1. CASE s = {}
    <3>1. h[s] = 0 /\ i[s] = 0 /\ k[s] = 0
      BY <2>1 DEF Sums, SumStep
    <3>2. a * 0 = 0 /\ 0 + 0 = 0
      OBVIOUS
    <3>3. h[s] + a * i[s] = k[s]
      BY <3>1, <3>2
    <3>. QED
      BY <3>3
  <2>2. CASE s # {}
    <3>1. PICK x \in s : TRUE
      BY <2>2
    <3>2. PICK t \in SUBSET S : t = s \ {x} /\ t \in T
      BY <1>1, Smaller
    <3>3. h[s] = f[x] + h[t] /\ i[s] = g[x] + i[t] /\ k[s] = e[x] + k[t]
      BY <1>0, <3>2
    <3>4. PICK u \in Int, v \in Int, w \in Int : u = h[t] /\ v = i[t] /\ w = k[t]
      BY SumIsInt
    <3>5. PICK p \in Int, q \in Int, r \in Int : p = f[x] /\ q = g[x] /\ r = e[x]
      BY DEF Terms
    <3>6. PICK y \in Int, z \in Int : y = p + a * q /\ z = u + a * v
      BY Ring
    <3>7. Mod(r) = Mod(y) /\ Mod(w) = Mod(z)
      BY <3>2, <3>4, <3>5, <3>6 DEF Combines
    <3>8. Mod(r + w) = Mod(y + z)
      BY <3>7, CongruentSum
    <3>9. y + z = (p + u) + a * (q + v)
      <4>1. a * (q + v) = a * q + a * v /\ a * q \in Int /\ a * v \in Int
        BY Ring
      <4>. QED
        BY <3>6, <4>1
    <3>10. h[s] = p + u /\ i[s] = q + v /\ k[s] = r + w
      BY <3>3, <3>4, <3>5
    <3>11. PICK m \in Int, n \in Int : m = r + w /\ n = y + z
      OBVIOUS
    <3>12. h[s] + a * i[s] = n
      BY <3>9, <3>10, <3>11
    <3>13. k[s] = m
      BY <3>10, <3>11
    <3>. QED
      BY <3>8, <3>11, <3>12, <3>13
  <2>. QED
    BY <2>1, <2>2
<1>2. SUBSET S \subseteq T
  <2> HIDE DEF T
  <2>. QED
    BY <1>1, SubsetInduction
<1>. QED
  BY <1>2

-----------------------------------------------------------------------------
(* A number is the sum of its bits times the powers of two.                 *)

\* Division has one result.
LEMMA Division ==
    ASSUME NEW m \in Nat \ {0}, NEW l \in Int, NEW r \in 0 .. (m - 1)
    PROVE  (m * l + r) % m = r /\ (m * l + r) \div m = l
  OBVIOUS

LEMMA Powers == \A n \in Nat : n <= SCALAR_BITS => 2^n \in Nat \ {0}
<1> DEFINE T == {n \in Nat : n <= SCALAR_BITS => 2^n \in Nat \ {0}}
<1>1. ASSUME NEW n \in Nat, \A m \in Nat : m < n => m \in T PROVE n \in T
  <2>1. SUFFICES ASSUME n <= SCALAR_BITS PROVE 2^n \in Nat \ {0}
    OBVIOUS
  <2>2. CASE n = 0
    BY <2>2, BitsAssumption
  <2>3. CASE n # 0
    <3>1. PICK j \in Bits : n = j + 1
      <4>1. n - 1 \in Bits /\ n = (n - 1) + 1
        BY <2>1, <2>3, BitsAssumption DEF Bits
      <4>. QED
        BY <4>1
    <3>2. j \in Nat /\ j < n /\ j <= SCALAR_BITS
      BY <2>1, <3>1, BitsAssumption DEF Bits
    <3>3. PICK p \in Nat \ {0} : p = 2^j
      BY <1>1, <3>2
    <3>4. 2^(j + 1) = 2 * p
      BY <3>3, BitsAssumption
    <3>. QED
      BY <3>1, <3>4
  <2>. QED
    BY <2>2, <2>3
<1>2. Nat \subseteq T
  <2> HIDE DEF T
  <2>. QED
    BY <1>1, Induction
<1>. QED
  BY <1>2

\* One more bit.
LEMMA NextBit ==
    ASSUME NEW b \in Nat, NEW p \in Nat \ {0}
    PROVE  b % (2 * p) = ((b \div p) % 2) * p + (b % p)
<1>1. PICK u \in Int, r \in 0 .. (p - 1) : u = b \div p /\ r = b % p /\ b = p * u + r
  <2>1. b \div p \in Int /\ b % p \in 0 .. (p - 1) /\ b = p * (b \div p) + (b % p)
    OBVIOUS
  <2>. QED
    BY <2>1
<1>2. PICK v \in Int, t \in {0, 1} : t = u % 2 /\ u = 2 * v + t
  <2>1. u \div 2 \in Int /\ u % 2 \in {0, 1} /\ u = 2 * (u \div 2) + (u % 2)
    OBVIOUS
  <2>. QED
    BY <2>1
<1>3. PICK s \in Int : s = t * p + r
  BY Ring
<1>4. s \in 0 .. (2 * p - 1)
  <2>1. CASE t = 0
    BY <1>3, <2>1
  <2>2. CASE t = 1
    BY <1>3, <2>2
  <2>. QED
    BY <2>1, <2>2
<1>5. b = (2 * p) * v + s
  <2>1. PICK w \in Int : w = 2 * v
    OBVIOUS
  <2>2. p * (w + t) = p * w + p * t /\ p * (2 * v) = (p * 2) * v /\ p * t = t * p
    BY Ring
  <2>3. PICK y \in Int, z \in Int : y = p * w /\ z = p * t
    BY Ring
  <2>4. p * 2 = 2 * p
    OBVIOUS
  <2>5. y = (2 * p) * v
    BY <2>1, <2>2, <2>3, <2>4
  <2>6. b = p * (w + t) + r
    BY <1>1, <1>2, <2>1
  <2>7. b = (y + z) + r /\ s = z + r
    BY <1>3, <2>2, <2>3, <2>6
  <2>8. b = y + s
    BY <1>1, <2>3, <2>7
  <2>. QED
    BY <2>5, <2>8
<1>6. 2 * p \in Nat \ {0}
  OBVIOUS
<1>7. ((2 * p) * v + s) % (2 * p) = s
  BY <1>4, <1>6, Division
<1>. QED
  BY <1>1, <1>2, <1>3, <1>5, <1>7

\* The terms of the sum: the bits at their places.
Places(b) == [j \in Bits |-> Bit(b, j) * 2^j]

LEMMA BitsAreFinite == IsFiniteSet(Bits)
  BY FS_Interval, BitsAssumption DEF Bits

LEMMA PlacesAreInt == ASSUME NEW b \in Nat PROVE Places(b) \in Terms(Bits)
<1>1. ASSUME NEW j \in Bits PROVE Bit(b, j) * 2^j \in Int
  <2>1. PICK p \in Nat \ {0} : p = 2^j
    BY Powers, BitsAssumption DEF Bits
  <2>2. PICK t \in Int : t = (b \div p) % 2
    OBVIOUS
  <2>3. t * p \in Int
    BY Ring
  <2>. QED
    BY <2>1, <2>2, <2>3 DEF Bit
<1>. QED
  BY <1>1 DEF Places, Terms

LEMMA PlaceTakenOut ==
    ASSUME NEW b \in Nat, NEW h, Sums(h, Places(b), Bits), NEW s \in SUBSET Bits, NEW j \in s
    PROVE  h[s] = Places(b)[j] + h[s \ {j}]
<1>1. PICK f \in Terms(Bits) : f = Places(b)
  BY PlacesAreInt
<1>2. Sums(h, f, Bits)
  BY <1>1
<1>3. h[s] = f[j] + h[s \ {j}]
  BY <1>2, BitsAreFinite, TakeOut
<1>. QED
  BY <1>1, <1>3

LEMMA BitsSum ==
    ASSUME NEW b \in Nat, NEW h, Sums(h, Places(b), Bits)
    PROVE  \A n \in Nat : n <= SCALAR_BITS => h[0 .. (n - 1)] = b % (2^n)
<1> DEFINE T == {n \in Nat : n <= SCALAR_BITS => h[0 .. (n - 1)] = b % (2^n)}
<1>1. ASSUME NEW n \in Nat, \A m \in Nat : m < n => m \in T PROVE n \in T
  <2>1. SUFFICES ASSUME n <= SCALAR_BITS PROVE h[0 .. (n - 1)] = b % (2^n)
    OBVIOUS
  <2>2. CASE n = 0
    <3>1. 0 .. (n - 1) = {} /\ {} \in SUBSET Bits
      BY <2>2
    <3>2. h[{}] = 0
      BY <3>1 DEF Sums, SumStep
    <3>3. PICK p : p = 2^0 /\ p = 1
      BY BitsAssumption
    <3>4. b % p = 0
      BY <3>3
    <3>. QED
      BY <2>2, <3>1, <3>2, <3>3, <3>4
  <2>3. CASE n # 0
    <3>1. PICK j \in Bits : n = j + 1
      <4>1. n - 1 \in Bits /\ n = (n - 1) + 1
        BY <2>1, <2>3, BitsAssumption DEF Bits
      <4>. QED
        BY <4>1
    <3>2. j \in Nat /\ j < n /\ j <= SCALAR_BITS
      BY <2>1, <3>1, BitsAssumption DEF Bits
    <3>3. PICK p \in Nat \ {0} : p = 2^j
      BY <3>2, Powers
    <3>4. h[0 .. (j - 1)] = b % p
      BY <1>1, <3>2, <3>3
    <3>5. /\ 0 .. j \in SUBSET Bits /\ j \in 0 .. j /\ (0 .. j) \ {j} = 0 .. (j - 1)
      BY <3>1, <3>2, BitsAssumption DEF Bits
    <3>6. h[0 .. j] = Places(b)[j] + h[0 .. (j - 1)]
      <4>1. PICK s, t : s = 0 .. j /\ t = 0 .. (j - 1)
        OBVIOUS
      <4>2. s \in SUBSET Bits /\ j \in s /\ s \ {j} = t
        BY <3>5, <4>1
      <4>3. h[s] = Places(b)[j] + h[s \ {j}]
        BY <4>2, PlaceTakenOut
      <4>. QED
        BY <4>1, <4>2, <4>3
    <3>7. Places(b)[j] = ((b \div p) % 2) * p
      BY <3>3 DEF Places, Bit
    <3>8. 2^n = 2 * p
      BY <3>1, <3>3, BitsAssumption
    <3>9. b % (2 * p) = ((b \div p) % 2) * p + (b % p)
      BY NextBit
    <3>10. 0 .. (n - 1) = 0 .. j
      BY <3>1, <3>2
    <3>. QED
      BY <3>4, <3>6, <3>7, <3>8, <3>9, <3>10
  <2>. QED
    BY <2>2, <2>3
<1>2. Nat \subseteq T
  <2> HIDE DEF T
  <2>. QED
    BY <1>1, Induction
<1>. QED
  BY <1>2

\* The bits are enough for every element of the field.
LEMMA BitsMakeTheNumber ==
    ASSUME NEW b \in Field, NEW h, Sums(h, Places(b), Bits)
    PROVE  h[Bits] = b
<1>1. PICK p \in Nat \ {0} : p = 2^SCALAR_BITS /\ Q <= p
  BY Powers, BitsAssumption
<1>2. b \in Nat /\ b < p
  BY <1>1, OrderIsPositive DEF Field
<1>3. h[0 .. (SCALAR_BITS - 1)] = b % p
  BY <1>1, <1>2, BitsSum, BitsAssumption
<1>4. b % p = b
  BY <1>2
<1>. QED
  BY <1>3, <1>4 DEF Bits

-----------------------------------------------------------------------------
(* SelfCustody.                                                             *)

\* Two points on a line give its value at 0.
LEMMA LineAtZero ==
    ASSUME NEW secret \in Field, NEW slope \in Int
    PROVE  Mod(2 * Mod(secret + slope) - Mod(secret + 2 * slope)) = secret
<1>0. secret \in Int
  BY OrderIsPositive DEF Field
<1>1. PICK l \in Int, a \in Int : secret + slope = Q * l + a /\ a = Mod(secret + slope)
  BY <1>0, Quotient, InField
<1>2. PICK m \in Int, b \in Int :
        secret + 2 * slope = Q * m + b /\ b = Mod(secret + 2 * slope)
  BY <1>0, Quotient, InField
<1>3. Q * (m - 2 * l) = Q * m - 2 * (Q * l) /\ Q * m \in Int /\ Q * l \in Int
  <2>1. /\ Q * (m - 2 * l) = Q * m - Q * (2 * l) /\ Q * (2 * l) = (Q * 2) * l
        /\ Q * 2 = 2 * Q /\ (2 * Q) * l = 2 * (Q * l) /\ Q * m \in Int /\ Q * l \in Int
    BY OrderIsPositive, Ring
  <2>. QED
    BY <2>1
<1>4. 2 * a - b = Q * (m - 2 * l) + secret
  BY ONLY <1>0, <1>1, <1>2, <1>3, slope \in Int
<1>. QED
  BY <1>1, <1>2, <1>4, Remainder

\* The two shares of a wallet give its secret, which is its address.
LEMMA SharesGiveTheSecret ==
    ASSUME NEW w \in AnyWallet
    PROVE  /\ w.sharing \in Sharings /\ w.skA \in Field /\ w.skB \in Field
           /\ w.address \in Scalars /\ SecretOf(w.sharing, w.skA, w.skB) = w.address
<1>1. PICK a \in WalletDraws, b \in WalletDraws : w = ProductWallet(a, b) \/ w = LineWallet(a, b)
  BY DEF AnyWallet
<1>2. a \in Field /\ b \in Field /\ a \in Int /\ b \in Int /\ a \in Scalars /\ b \in Scalars
  BY <1>1, SeedAssumption, OrderIsPositive DEF Field, Scalars
<1>3. CASE w = ProductWallet(a, b)
  <2>1. Mod(a * b) \in Field /\ a * b \in Int
    BY <1>2, InField, Ring
  <2>2. Mod(a * b) # 0
    BY <1>3 DEF AnyWallet, ProductWallet
  <2>. QED
    BY <1>2, <1>3, <2>1, <2>2 DEF ProductWallet, SecretOf, Sharings, Scalars, Field
<1>4. CASE w = LineWallet(a, b)
  <2>1. Mod(a + b) \in Field /\ Mod(a + 2 * b) \in Field
    BY <1>2, InField
  <2>2. Mod(2 * Mod(a + b) - Mod(a + 2 * b)) = a
    BY <1>2, LineAtZero
  <2>. QED
    BY <1>2, <1>4, <2>1, <2>2 DEF LineWallet, SecretOf, Sharings
<1>. QED
  BY <1>1, <1>3, <1>4

\* What a blob keeps of the wallet it was made for, whatever is damaged: the shares,
\* and the HMAC over the sharing type, the salt, the parameters and the password.
MadeFor(b, w) ==
    /\ b.encryptedClientShare.content = w.skA /\ b.backendShareBlob.content = w.skB
    /\ \E salt \in Salts, kdf \in Kdfs :
          b.metadataMac = MetadataHmac(Seed(b.password, salt, kdf), w.sharing, salt, kdf)

CustodyInv ==
    /\ wallets \in [1 .. Wallets -> AnyWallet] /\ current \in 1 .. Wallets
    /\ blob \in Blobs \cup {Nothing}
    /\ blob = Nothing => recovered = Nothing
    /\ blob # Nothing => MadeFor(blob, wallets[blob.madeFor])
    /\ RecoversTheBackedUpWallet

\* A password under which the HMAC holds is the one the blob was made with, and the
\* blob's sharing type is then that of the wallet.
LEMMA MacBindsTheBlob ==
    ASSUME NEW b, NEW w, MadeFor(b, w), NEW password,
           MetadataIntact(b, Seed(password, b.kdfSalt, b.kdfParams))
    PROVE  password = b.password /\ b.sharingType = w.sharing
  BY DEF MadeFor, MetadataIntact, MetadataHmac, Seed

LEMMA CustodyInitial == CustodyInit => CustodyInv
  BY SeedAssumption DEF CustodyInit, CustodyInv, RecoversTheBackedUpWallet

LEMMA CustodyStep == CustodyInv /\ [CustodyNext]_custodyVars => CustodyInv'
<1> SUFFICES ASSUME CustodyInv, [CustodyNext]_custodyVars PROVE CustodyInv'
  OBVIOUS
<1> USE DEF CustodyInv
<1>1. CASE Setup
  <2>1. PICK password \in Passwords, salt \in Salts, kdf \in Kdfs :
          blob' = CompositeBlob(password, salt, kdf)
    BY <1>1 DEF Setup
  <2>2. blob = Nothing /\ UNCHANGED <<wallets, current, recovered>>
    BY <1>1 DEF Setup
  <2>3. PICK w \in AnyWallet : w = wallets[current]
    OBVIOUS
  <2>4. w.sharing \in SharingTypes /\ w.skA \in Field /\ w.skB \in Field
    BY SharesGiveTheSecret DEF SharingTypes
  <2>5. Seed(password, salt, kdf) \in Seeds /\ ScalarOf(Seed(password, salt, kdf)) \in Field
    BY SeedAssumption DEF Seeds, Seed, ScalarOf
  <2>6. blob' \in Blobs
    BY <2>1, <2>2, <2>3, <2>4, <2>5 DEF CompositeBlob, Blobs, Boxes, Box, MetadataHmac
  <2>7. MadeFor(blob', wallets[blob'.madeFor])
    BY <2>1, <2>3 DEF CompositeBlob, MadeFor, Box
  <2>. QED
    BY <2>2, <2>6, <2>7 DEF RecoversTheBackedUpWallet
<1>2. CASE ExtractClientShare
  <2>1. PICK password \in Passwords :
          LET seed == Seed(password, blob.kdfSalt, blob.kdfParams)
          IN  recovered' =
                IF /\ Parses(blob) /\ MetadataIntact(blob, seed)
                   /\ Opens(blob.encryptedClientShare, seed)
                THEN [outcome |-> "share", value |-> blob.encryptedClientShare.content,
                      expected |-> Nothing, password |-> password]
                ELSE Refused
    BY <1>2 DEF ExtractClientShare
  <2>2. blob # Nothing /\ UNCHANGED <<wallets, current, blob>>
    BY <1>2 DEF ExtractClientShare
  <2>3. CASE recovered' = Refused
    BY <2>2, <2>3 DEF Refused, RecoversTheBackedUpWallet
  <2>4. CASE recovered' # Refused
    <3>1. MetadataIntact(blob, Seed(password, blob.kdfSalt, blob.kdfParams))
      BY <2>1, <2>4
    <3>2. password = blob.password
      BY <2>2, <3>1, MacBindsTheBlob
    <3>3. /\ recovered'.outcome = "share" /\ recovered'.password = password
          /\ recovered'.value = blob.encryptedClientShare.content
      BY <2>1, <2>4
    <3>. QED
      BY <2>2, <3>2, <3>3 DEF RecoversTheBackedUpWallet, MadeFor
  <2>. QED
    BY <2>3, <2>4
<1>3. CASE OfflineReconstructKey
  <2> DEFINE sk == SecretOf(blob.sharingType, blob.encryptedClientShare.content,
                            blob.backendShareBlob.content)
  <2>1. PICK password \in Passwords, expected \in {Nothing, wallets[current].address} :
          LET seed == Seed(password, blob.kdfSalt, blob.kdfParams)
          IN  recovered' =
                IF /\ Parses(blob) /\ MetadataIntact(blob, seed)
                   /\ Opens(blob.encryptedClientShare, seed)
                   /\ Multiplies(ScalarOf(seed))
                   /\ Opens(blob.backendShareBlob, ScalarOf(seed))
                   /\ Multiplies(sk) /\ AddressMatches(expected, Times(1, sk))
                THEN [outcome |-> "key", value |-> sk, expected |-> expected,
                      password |-> password]
                ELSE Refused
    BY <1>3 DEF OfflineReconstructKey
  <2>2. blob # Nothing /\ UNCHANGED <<wallets, current, blob>>
    BY <1>3 DEF OfflineReconstructKey
  <2>3. CASE recovered' = Refused
    BY <2>2, <2>3 DEF Refused, RecoversTheBackedUpWallet
  <2>4. CASE recovered' # Refused
    <3>1. /\ MetadataIntact(blob, Seed(password, blob.kdfSalt, blob.kdfParams))
          /\ AddressMatches(expected, Times(1, sk))
          /\ recovered' = [outcome |-> "key", value |-> sk, expected |-> expected,
                           password |-> password]
      BY <2>1, <2>4
    <3>2. PICK w \in AnyWallet : w = wallets[blob.madeFor]
      BY <2>2 DEF Blobs
    <3>3. password = blob.password /\ blob.sharingType = w.sharing
      BY <2>2, <3>1, <3>2, MacBindsTheBlob
    <3>4. sk = w.address /\ w.address \in Scalars
      BY <2>2, <3>2, <3>3, SharesGiveTheSecret DEF MadeFor
    <3>5. Times(1, sk) = sk
      <4>1. sk \in Field /\ 1 * sk = sk
        BY <3>4 DEF Scalars, Field
      <4>. QED
        BY <4>1, ModOfField DEF Times
    <3> HIDE DEF sk
    <3>6. expected # Nothing => sk = wallets[current].address
      BY <2>1, <3>1, <3>5 DEF AddressMatches
    <3>. QED
      BY <2>2, <3>1, <3>2, <3>3, <3>4, <3>6 DEF RecoversTheBackedUpWallet
  <2>. QED
    BY <2>3, <2>4
<1>4. CASE BlobDamaged
  <2>1. blob \in Blobs /\ blob # Nothing /\ UNCHANGED <<wallets, current, recovered>>
    BY <1>4 DEF BlobDamaged
  <2>2. /\ blob' \in Blobs
        /\ blob'.encryptedClientShare.content = blob.encryptedClientShare.content
        /\ blob'.backendShareBlob.content = blob.backendShareBlob.content
        /\ blob'.metadataMac = blob.metadataMac /\ blob'.password = blob.password
        /\ blob'.madeFor = blob.madeFor
    <3>1. CASE \E s \in SharingTypes : blob' = [blob EXCEPT !.sharingType = s]
      BY <2>1, <3>1 DEF Blobs
    <3>2. CASE \E s \in Salts : blob' = [blob EXCEPT !.kdfSalt = s]
      BY <2>1, <3>2 DEF Blobs
    <3>3. CASE \E k \in Kdfs : blob' = [blob EXCEPT !.kdfParams = k]
      BY <2>1, <3>3 DEF Blobs
    <3>4. CASE blob' = [blob EXCEPT !.encryptedClientShare.intact = FALSE]
      BY <2>1, <3>4 DEF Blobs, Boxes
    <3>5. CASE blob' = [blob EXCEPT !.backendShareBlob.intact = FALSE]
      BY <2>1, <3>5 DEF Blobs, Boxes
    <3>. QED
      BY <1>4, <3>1, <3>2, <3>3, <3>4, <3>5 DEF BlobDamaged
  <2>3. MadeFor(blob', wallets[blob'.madeFor])
    BY <2>1, <2>2 DEF MadeFor
  <2>. QED
    BY <2>1, <2>2, <2>3, NothingAssumption DEF RecoversTheBackedUpWallet
<1>5. CASE NewWallet
  BY <1>5, SeedAssumption DEF NewWallet, RecoversTheBackedUpWallet
<1>6. CASE UNCHANGED custodyVars
  BY <1>6 DEF custodyVars, RecoversTheBackedUpWallet
<1>. QED
  BY <1>1, <1>2, <1>3, <1>4, <1>5, <1>6 DEF CustodyNext

\* What a recovery returns is the share or the private key of the wallet that was
\* backed up, under the password of the backup, whatever is damaged and however many
\* wallets followed (self-custody-recovery.ts:421 and 456).
THEOREM RecoveryIsOfTheBackedUpWallet == CustodySpec => []RecoversTheBackedUpWallet
<1>1. CustodyInv => RecoversTheBackedUpWallet
  BY DEF CustodyInv
<1>. QED
  BY <1>1, CustodyInitial, CustodyStep, PTL DEF CustodySpec

-----------------------------------------------------------------------------
(* ObliviousMultiplication.                                                 *)

LEMMA BitIsABit == ASSUME NEW b \in Field, NEW j \in Bits PROVE Bit(b, j) \in {0, 1}
<1>1. PICK n \in Nat \ {0} : n = 2^j
  BY Powers, BitsAssumption DEF Bits
<1>2. b \div n \in Int
  BY DEF Field
<1>. QED
  BY <1>1, <1>2 DEF Bit

\* A product of scalars is not 0: that is what makes the two keys differ.
LEMMA NoZeroDivisors == ASSUME NEW a \in Scalars, NEW b \in Scalars PROVE Mod(a * b) # 0
  BY FieldAssumption DEF Mod

\* The sender's keys for an answer of the receiver: the chosen one is the key the
\* receiver computes, the other one is not.
LEMMA ChosenKey ==
    ASSUME NEW a \in Scalars, NEW k \in Scalars, NEW bit \in {0, 1}
    PROVE  LET keys == SenderKeys(a, ReceiverRespond(a, bit, k))
           IN  /\ keys[1 + bit] = ReceiverKey(a, k)
               /\ keys[3 - (1 + bit)] # ReceiverKey(a, k)
<1>0. a \in Int /\ k \in Int /\ k \in Field
  BY OrderIsPositive DEF Scalars, Field
<1>1. /\ a * k = k * a /\ a * k \in Int /\ a * a \in Int
      /\ (k - a) * a = k * a - a * a /\ (a + k) * a = a * a + k * a
  BY <1>0, Ring
<1>2. Mod(a * a) # 0
  BY NoZeroDivisors
<1>3. CASE bit = 0
  <2>1. SenderKeys(a, ReceiverRespond(a, bit, k)) = <<Mod(k * a), Mod(Mod(k - a) * a)>>
    BY <1>3 DEF SenderKeys, ReceiverRespond, Times, Minus
  <2>2. Mod(Mod(k - a) * a) = Mod(k * a - a * a)
    BY <1>0, <1>1, ReduceFactor
  <2>3. Mod(k * a - a * a) # Mod(k * a)
    BY <1>1, <1>2, SameRemainder
  <2>. QED
    BY <1>1, <1>3, <2>1, <2>2, <2>3 DEF ReceiverKey, Times
<1>4. CASE bit = 1
  <2>1. SenderKeys(a, ReceiverRespond(a, bit, k)) =
            <<Mod(Mod(a + k) * a), Mod(Mod(Mod(a + k) - a) * a)>>
    BY <1>4 DEF SenderKeys, ReceiverRespond, Times, Minus, Plus
  <2>2. Mod(Mod(a + k) * a) = Mod(a * a + k * a)
    BY <1>0, <1>1, ReduceFactor
  <2>3. Mod(a * a + k * a) # Mod(k * a)
    <3>1. (a * a + k * a) - a * a = k * a /\ a * a + k * a \in Int
      BY <1>1
    <3>2. Mod((a * a + k * a) - a * a) = Mod(a * a + k * a) => Mod(a * a) = 0
      BY <1>1, <3>1, SameRemainder
    <3>. QED
      BY <1>2, <3>1, <3>2
  <2>4. Mod(Mod(a + k) - a) = k
    <3>1. PICK l \in Int, s \in Int : a + k = Q * l + s /\ s = Mod(a + k)
      BY <1>0, Quotient, InField
    <3>2. Q * (-l) = -(Q * l) /\ Q * l \in Int
      BY OrderIsPositive
    <3>3. s - a = Q * (-l) + k
      BY <1>0, <3>1, <3>2
    <3>4. Mod(Q * (-l) + k) = k
      BY <1>0, Remainder
    <3>. QED
      BY <3>1, <3>3, <3>4
  <2>. QED
    BY <1>1, <1>4, <2>1, <2>2, <2>3, <2>4 DEF ReceiverKey, Times
<1>. QED
  BY <1>3, <1>4

\* The messages of the transfers are scalars at every bit.
LEMMA MessageTypes ==
    ASSUME NEW a \in [Bits -> Scalars], NEW b \in Field, NEW k \in [Bits -> Scalars]
    PROVE  /\ Responses(a, b, k) \in [Bits -> Field]
           /\ \A j \in Bits : Responses(a, b, k)[j] = ReceiverRespond(a[j], Bit(b, j), k[j])
<1>1. ASSUME NEW j \in Bits PROVE ReceiverRespond(a[j], Bit(b, j), k[j]) \in Field
  <2>1. a[j] + k[j] \in Int /\ k[j] \in Field
    <3>1. a[j] \in Scalars /\ k[j] \in Scalars
      OBVIOUS
    <3>. QED
      BY <3>1, OrderIsPositive DEF Scalars, Field
  <2>. QED
    BY <2>1, InField DEF ReceiverRespond, Plus
<1>. QED
  BY <1>1 DEF Responses

\* The answer of the backend to a session is to the client's keys of that session,
\* which are not drawn again.
Answered(s) ==
    /\ began[s] # None /\ began[s].key \in [Bits -> Scalars]
    /\ bob[s] = [input |-> bob[s].input, key |-> bob[s].key, publicKey |-> began[s].key,
                 share |-> bob[s].share, failed |-> bob[s].failed]
    /\ bob[s].key \in [Bits -> Scalars] /\ bob[s].input \in Field
    /\ response[s] = Responses(began[s].key, bob[s].input, bob[s].key)

MtaInv ==
    /\ DOMAIN began = Sessions /\ DOMAIN bob = Sessions
    /\ DOMAIN response = Sessions /\ DOMAIN sent = Sessions
    /\ \A s \in Sessions : began[s] \in AliceStates \cup {None}
    /\ \A s \in Sessions : response[s] # None => Answered(s)
    /\ \A s \in Sessions : sent[s] # None => response[s] # None

LEMMA MtaInitial == MtaInit => MtaInv
  BY DEF MtaInit, MtaInv

LEMMA MtaStep == MtaInv /\ [MtaNext]_mtaVars => MtaInv'
<1> SUFFICES ASSUME MtaInv, [MtaNext]_mtaVars PROVE MtaInv'
  OBVIOUS
<1> USE DEF MtaInv
<1>1. CASE MtaAliceRound1
  <2>1. PICK s \in Sessions, st \in AliceStates :
          began[s] = None /\ began' = [began EXCEPT ![s] = st]
    BY <1>1 DEF MtaAliceRound1
  <2>2. UNCHANGED <<bob, response, sent>>
    BY <1>1 DEF MtaAliceRound1
  <2>3. ASSUME NEW t \in Sessions, response'[t] # None PROVE Answered(t)'
    <3>1. Answered(t) /\ t # s
      BY <2>1, <2>2, <2>3 DEF Answered
    <3>. QED
      BY <2>1, <2>2, <3>1 DEF Answered
  <2>. QED
    BY <2>1, <2>2, <2>3
<1>2. CASE MtaBobRound2
  <2>1. PICK s \in Sessions, b \in FactorsB, key \in KeyDraws :
          /\ began[s] # None
          /\ response' = [response EXCEPT ![s] = Responses(began[s].key, b, key)]
          /\ bob' = [bob EXCEPT ![s] =
                       [input |-> b, key |-> key, publicKey |-> began[s].key,
                        share |-> None, failed |-> FALSE]]
    BY <1>2 DEF MtaBobRound2
  <2>2. UNCHANGED <<sent, began>>
    BY <1>2 DEF MtaBobRound2
  <2>3. b \in Field /\ key \in [Bits -> Scalars] /\ began[s].key \in [Bits -> Scalars]
    BY <2>1, BitsAssumption DEF AliceStates
  <2>4. Responses(began[s].key, b, key) # None
    BY <2>3, MessageTypes, NoneAssumption
  <2>5. Answered(s)'
    BY <2>1, <2>2, <2>3 DEF Answered
  <2>6. ASSUME NEW t \in Sessions, response'[t] # None PROVE Answered(t)'
    <3>1. CASE t = s
      BY <2>5, <3>1
    <3>2. CASE t # s
      BY <2>1, <2>2, <2>6, <3>2 DEF Answered
    <3>. QED
      BY <3>1, <3>2
  <2>. QED
    BY <2>1, <2>2, <2>4, <2>6
<1>3. CASE MtaAliceRound3
  <2>1. UNCHANGED <<bob, response, began>>
    BY <1>3 DEF MtaAliceRound3
  <2>2. /\ DOMAIN sent' = Sessions
        /\ \A t \in Sessions : sent'[t] # None => sent[t] # None \/ response[t] # None
    BY <1>3 DEF MtaAliceRound3, AnswersSession
  <2>. QED
    BY <2>1, <2>2 DEF Answered
<1>4. CASE MtaBobRound4
  <2>1. UNCHANGED <<response, sent, began>>
    BY <1>4 DEF MtaBobRound4
  <2>2. PICK s \in Sessions : \E x, y :
          bob' = [bob EXCEPT ![s].share = x] \/ bob' = [bob EXCEPT ![s].failed = y]
    BY <1>4 DEF MtaBobRound4
  <2>3. DOMAIN bob' = Sessions /\ \A t \in Sessions : t # s => bob'[t] = bob[t]
    BY <2>2
  <2>4. ASSUME Answered(s) PROVE Answered(s)'
    BY <2>1, <2>2, <2>4 DEF Answered
  <2>. QED
    BY <2>1, <2>3, <2>4 DEF Answered
<1>5. CASE UNCHANGED mtaVars
  BY <1>5 DEF mtaVars, Answered
<1>. QED
  BY <1>1, <1>2, <1>3, <1>4, <1>5 DEF MtaNext

LEMMA OneKeyOpens == MtaInv => OpensOnlyTheChosen
<1> SUFFICES ASSUME MtaInv, NEW s \in Sessions, sent[s] # None, NEW j \in Bits
             PROVE  LET k == SenderKeys(began[s].key[j], response[s][j])
                        chosen == 1 + Bit(bob[s].input, j)
                        own == ReceiverKey(bob[s].publicKey[j], bob[s].key[j])
                    IN  k[chosen] = own /\ k[3 - chosen] # own
  BY DEF OpensOnlyTheChosen
<1>1. Answered(s)
  BY DEF MtaInv
<1>2. PICK a \in Scalars, k \in Scalars, bit \in {0, 1} :
        a = began[s].key[j] /\ k = bob[s].key[j] /\ bit = Bit(bob[s].input, j)
  BY <1>1, BitIsABit DEF Answered
<1>3. response[s][j] = ReceiverRespond(a, bit, k) /\ bob[s].publicKey[j] = a
  BY <1>1, <1>2 DEF Answered, Responses
<1>. QED
  BY <1>2, <1>3, ChosenKey

\* However sessions overlap and in whatever order their messages arrive, the backend
\* opens the message its bit chooses and not the other, for every key and every
\* input (oblivious-transfer.ts:149 and 171).
THEOREM OneMessageOpens == MtaSpec => []OpensOnlyTheChosen
  BY MtaInitial, MtaStep, OneKeyOpens, PTL DEF MtaSpec

-----------------------------------------------------------------------------
(* ObliviousMultiplication: the shares.                                     *)

LEMMA SenderShareIsSum ==
    ASSUME NEW st, NEW f, st.pads = f
    PROVE  \E h : Sums(h, f, Bits) /\ SenderShare(st) = Mod(Q - Mod(h[Bits]))
<1> DEFINE Body(g) == [s \in SUBSET Bits |->
                         IF s = {} THEN 0
                         ELSE LET x == CHOOSE x \in s : TRUE IN st.pads[x] + g[s \ {x}]]
<1>1. SenderShare(st) = Mod(Q - Mod((CHOOSE g : g = Body(g))[Bits]))
  BY DEF SenderShare, MapThenSumSet, MapThenFoldSet
<1>2. \A g : Sums(g, f, Bits) <=> g = Body(g)
  BY DEF Sums, SumStep
<1> HIDE DEF Body
<1>3. \E g : g = Body(g)
  <2>1. \E h : Sums(h, f, Bits)
    BY BitsAreFinite, SumsExist
  <2>. QED
    BY <1>2, <2>1
<1>4. PICK h : h = (CHOOSE g : g = Body(g)) /\ h = Body(h)
  BY <1>3
<1>. QED
  BY <1>1, <1>2, <1>4

LEMMA ReceiverShareIsSum ==
    ASSUME NEW st, NEW e, NEW f,
           f = [j \in Bits |-> Unseal(e[j][1 + Bit(st.input, j)],
                                      ReceiverKey(st.publicKey[j], st.key[j]))]
    PROVE  \E h : Sums(h, f, Bits) /\ ReceiverShare(st, e) = Mod(h[Bits])
<1> DEFINE k(x) == ReceiverKey(st.publicKey[x], st.key[x])
           Body(g) == [s \in SUBSET Bits |->
                         IF s = {} THEN 0
                         ELSE LET x == CHOOSE x \in s : TRUE
                              IN  Unseal(e[x][1 + Bit(st.input, x)], k(x)) + g[s \ {x}]]
<1>1. ReceiverShare(st, e) = Mod((CHOOSE g : g = Body(g))[Bits])
  BY DEF ReceiverShare, MapThenSumSet, MapThenFoldSet
<1>2. ASSUME NEW g PROVE Sums(g, f, Bits) <=> g = Body(g)
  <2>1. ASSUME NEW s \in SUBSET Bits PROVE SumStep(g, f, s) = Body(g)[s]
    <3>1. CASE s = {}
      BY <3>1 DEF SumStep
    <3>2. CASE s # {}
      <4>1. PICK x \in s : x = CHOOSE y \in s : TRUE
        BY <3>2
      <4>2. f[x] = Unseal(e[x][1 + Bit(st.input, x)], k(x))
        OBVIOUS
      <4>3. SumStep(g, f, s) = f[x] + g[s \ {x}]
        BY <3>2, <4>1 DEF SumStep
      <4>4. Body(g)[s] = Unseal(e[x][1 + Bit(st.input, x)], k(x)) + g[s \ {x}]
        BY <3>2, <4>1
      <4>. QED
        BY <4>2, <4>3, <4>4
    <3>. QED
      BY <3>1, <3>2
  <2>2. Body(g) = [s \in SUBSET Bits |-> Body(g)[s]]
    OBVIOUS
  <2> HIDE DEF Body
  <2>3. [s \in SUBSET Bits |-> SumStep(g, f, s)] = [s \in SUBSET Bits |-> Body(g)[s]]
    BY <2>1
  <2>. QED
    BY <2>2, <2>3 DEF Sums
<1> HIDE DEF Body
<1>3. \E g : g = Body(g)
  <2>1. \E h : Sums(h, f, Bits)
    BY BitsAreFinite, SumsExist
  <2>. QED
    BY <1>2, <2>1
<1>4. PICK h : h = (CHOOSE g : g = Body(g)) /\ h = Body(h)
  BY <1>3
<1>. QED
  BY <1>1, <1>2, <1>4

\* What the backend opens in the transfer of one bit is the pad plus, if the bit is
\* set, the client's input at its place.
LEMMA OpenedTerm ==
    ASSUME NEW st, NEW keys \in [Bits -> Scalars], NEW x \in Field,
           NEW own \in [Bits -> Scalars], NEW b \in Field,
           st.key = keys, st.input = x, st.pads \in [Bits -> Scalars], NEW j \in Bits
    PROVE  LET e == Encrypted(st, Responses(keys, b, own))
               t == Unseal(e[j][1 + Bit(b, j)], ReceiverKey(keys[j], own[j]))
           IN  t \in Int /\ Mod(t) = Mod(st.pads[j] + x * Places(b)[j])
<1>0. PICK a \in Scalars, k \in Scalars : a = keys[j] /\ k = own[j]
  OBVIOUS
<1>1. PICK bit \in {0, 1}, p \in Nat \ {0}, pad \in Int :
        bit = Bit(b, j) /\ p = 2^j /\ pad = st.pads[j]
  <2>1. 2^j \in Nat \ {0}
    BY Powers, BitsAssumption DEF Bits
  <2>2. st.pads[j] \in Int
    BY OrderIsPositive DEF Scalars
  <2>. QED
    BY <2>1, <2>2, BitIsABit
<1>2. PICK mine \in Int : mine = ReceiverKey(a, k)
  <2>1. a * k \in Int
    BY OrderIsPositive DEF Scalars
  <2>. QED
    BY <2>1, InField DEF ReceiverKey, Times
<1>3. PICK both : both = SenderKeys(a, ReceiverRespond(a, bit, k)) /\ both[1 + bit] = mine
  BY <1>2, ChosenKey
<1>4. PICK xp \in Int, corr \in Int : xp = x * p /\ corr = Mod(xp)
  <2>1. x * p \in Int
    BY OrderIsPositive DEF Field
  <2>. QED
    BY <2>1, InField
<1>5. PICK m \in Int : /\ m = IF bit = 0 THEN pad ELSE Mod(pad + corr)
                       /\ Mod(m) = Mod(pad + bit * xp)
  <2>1. Mod(pad + corr) \in Int /\ Mod(Mod(pad + corr)) = Mod(pad + corr)
    BY InField, ModTwice
  <2>2. Mod(pad + corr) = Mod(pad + xp)
    <3>1. Mod(pad) = Mod(pad) /\ Mod(corr) = Mod(xp)
      BY <1>4, ModTwice
    <3>. QED
      BY <1>4, ReduceTerm
  <2>3. 0 * xp = 0 /\ 1 * xp = xp /\ pad + 0 = pad
    OBVIOUS
  <2>4. CASE bit = 0
    BY <2>3, <2>4
  <2>5. CASE bit = 1
    BY <2>1, <2>2, <2>3, <2>5
  <2>. QED
    BY <2>4, <2>5
<1> DEFINE e == Encrypted(st, Responses(keys, b, own))
<1>6. e[j][1 + bit] = Mod(m + mine)
  <2>1. Responses(keys, b, own)[j] = ReceiverRespond(a, bit, k) /\ st.key[j] = a
    BY <1>0, <1>1, MessageTypes
  <2>2. e[j] = <<Plus(pad, both[1]), Plus(Plus(pad, corr), both[2])>>
    <3>1. Correlation(x, j) = corr
      BY <1>1, <1>4 DEF Correlation
    <3>. QED
      BY <1>1, <1>3, <2>1, <3>1 DEF Encrypted, Seal
  <2>3. CASE bit = 0
    BY <1>3, <1>5, <2>2, <2>3 DEF Plus
  <2>4. CASE bit = 1
    BY <1>3, <1>5, <2>2, <2>4 DEF Plus
  <2>. QED
    BY <2>3, <2>4
<1>7. Mod(Mod(m + mine) - mine) = Mod(m)
  <2>1. PICK o \in Int : o = -mine
    OBVIOUS
  <2>2. PICK y \in Int : y = m + mine
    OBVIOUS
  <2>3. Mod(Mod(y) + o) = Mod(y + o)
    BY ReduceTerm
  <2>4. PICK z \in Int : z = Mod(y)
    BY InField
  <2>5. z + o = z - mine /\ y + o = m
    BY <2>1, <2>2
  <2>. QED
    BY <2>2, <2>3, <2>4, <2>5
<1>8. PICK t \in Int : t = Unseal(e[j][1 + bit], mine) /\ t = Mod(Mod(m + mine) - mine)
  <2>1. PICK z \in Int : z = Mod(m + mine)
    BY InField
  <2>2. Mod(z - mine) \in Int
    BY InField
  <2>. QED
    BY <1>6, <2>1, <2>2 DEF Unseal, Minus
<1>9. Mod(t) = Mod(m)
  BY <1>7, <1>8, ModTwice
<1>10. bit * xp = x * Places(b)[j]
  <2>1. Places(b)[j] = bit * p
    BY <1>1 DEF Places
  <2>2. x \in Int
    BY OrderIsPositive DEF Field
  <2>3. bit * (x * p) = (bit * x) * p /\ bit * x = x * bit /\ (x * bit) * p = x * (bit * p)
    BY <2>2, Ring
  <2>. QED
    BY <1>4, <2>1, <2>3
<1>. QED
  BY <1>0, <1>1, <1>2, <1>5, <1>8, <1>9, <1>10

\* The two shares of one session add up to the product.
LEMMA SharesOfOneSession ==
    ASSUME NEW st, NEW bt, NEW a \in [Bits -> Scalars], NEW x \in Field,
           NEW k \in [Bits -> Scalars], NEW b \in Field, st.key = a, st.input = x, st.pads \in [Bits -> Scalars],
           bt.publicKey = a, bt.key = k, bt.input = b
    PROVE  LET r == ReceiverShare(bt, Encrypted(st, Responses(a, b, k)))
           IN  /\ r \in Field /\ SenderShare(st) \in Field
               /\ Plus(SenderShare(st), r) = Mod(x * b)
               /\ r = Mod(x * b - SenderShare(st))
<1> DEFINE e == Encrypted(st, Responses(a, b, k))
<1>0. x \in Int /\ b \in Int /\ b \in Nat
  BY OrderIsPositive DEF Field
<1>t. ASSUME NEW j \in Bits
       PROVE  LET opened == Unseal(e[j][1 + Bit(b, j)], ReceiverKey(a[j], k[j]))
              IN  opened \in Int /\ Mod(opened) = Mod(st.pads[j] + x * Places(b)[j])
  BY OpenedTerm
<1>1. PICK f \in Terms(Bits) : f = st.pads
  BY OrderIsPositive DEF Scalars, Terms
<1>2. PICK g \in Terms(Bits) : g = Places(b)
  BY <1>0, PlacesAreInt
<1>3. PICK t \in Terms(Bits) :
        t = [j \in Bits |-> Unseal(e[j][1 + Bit(bt.input, j)],
                                   ReceiverKey(bt.publicKey[j], bt.key[j]))]
  <2>1. \A j \in Bits : Unseal(e[j][1 + Bit(b, j)], ReceiverKey(a[j], k[j])) \in Int
    BY <1>t
  <2>. QED
    BY <2>1 DEF Terms
<1>4. \A j \in Bits : Mod(t[j]) = Mod(f[j] + x * g[j])
  <2>1. TAKE j \in Bits
  <2>2. t[j] = Unseal(e[j][1 + Bit(b, j)], ReceiverKey(a[j], k[j]))
    BY <1>3
  <2> HIDE DEF e
  <2>. QED
    BY <1>1, <1>2, <1>t, <2>2
<1>5. PICK h : Sums(h, f, Bits) /\ SenderShare(st) = Mod(Q - Mod(h[Bits]))
  BY <1>1, SenderShareIsSum
<1>6. PICK i : Sums(i, g, Bits)
  BY BitsAreFinite, SumsExist
<1>7. PICK l : Sums(l, t, Bits) /\ ReceiverShare(bt, e) = Mod(l[Bits])
  <2> HIDE DEF e
  <2>. QED
    BY <1>3, ReceiverShareIsSum
<1>8. PICK sums \in Int, opened \in Int : sums = h[Bits] /\ opened = l[Bits]
  <2>1. \A s \in SUBSET Bits : h[s] \in Int
    BY <1>5, BitsAreFinite, SumIsInt
  <2>2. \A s \in SUBSET Bits : l[s] \in Int
    BY <1>7, BitsAreFinite, SumIsInt
  <2>. QED
    BY <2>1, <2>2
<1>9. i[Bits] = b
  BY <1>2, <1>6, BitsMakeTheNumber
<1>10. PICK y \in Int : y = x * b
  BY <1>0, Ring
<1>11. Mod(opened) = Mod(sums + y)
  <2>1. Mod(l[Bits]) = Mod(h[Bits] + x * i[Bits])
    <3>1. Combines(x, t, f, g, Bits)
      BY <1>4 DEF Combines
    <3>. QED
      BY <1>0, <1>5, <1>6, <1>7, <3>1, BitsAreFinite, SumsCombine
  <2>. QED
    BY <1>8, <1>9, <1>10, <2>1
<1>12. PICK z \in Int, r \in Field, s \in Field : z = Mod(sums) /\ r = Mod(opened) /\ s = Mod(Q - z)
  <2>1. Mod(sums) \in Int /\ Mod(opened) \in Field
    BY InField
  <2>2. Q - Mod(sums) \in Int
    BY <2>1, OrderIsPositive
  <2>. QED
    BY <2>1, <2>2, InField
<1>13. r \in Int /\ s \in Int
  BY OrderIsPositive DEF Field
<1>14. Mod(s + r) = Mod(y)
  <2>1. PICK v \in Int : v = Q - z
    BY OrderIsPositive
  <2>2. Mod(s + r) = Mod(v + r)
    BY <1>12, <1>13, <2>1, ReduceTerm
  <2>3. Mod(v + r) = Mod(v + opened)
    BY <1>12, <2>1, ReduceTerm
  <2>4. Mod(v + opened) = Mod(v + (sums + y))
    <3>1. PICK w \in Int : w = sums + y
      OBVIOUS
    <3>2. r = Mod(w)
      BY <1>11, <1>12, <3>1
    <3>3. Mod(v + r) = Mod(v + w)
      BY <3>2, ReduceTerm
    <3>. QED
      BY <2>3, <3>1, <3>3
  <2>5. PICK m \in Int : sums = Q * m + z
    BY <1>12, Quotient
  <2>6. v + (sums + y) = Q * (m + 1) + y
    <3>1. PICK n \in Int : n = Q * m
      BY OrderIsPositive, Ring
    <3>2. Q * (m + 1) = Q * m + Q * 1 /\ Q * 1 = Q
      BY OrderIsPositive, Ring
    <3>. QED
      BY <2>1, <2>5, <3>1, <3>2, OrderIsPositive
  <2>7. Mod(Q * (m + 1) + y) = Mod(y)
    BY DropMultiple
  <2>. QED
    BY <2>2, <2>3, <2>4, <2>6, <2>7
<1>15. r = Mod(y - s)
  <2>1. PICK o \in Int : o = -s
    BY <1>13
  <2>2. PICK n \in Int : n = s + r
    BY <1>13
  <2>3. Mod(n + o) = Mod(y + o)
    BY <1>14, <2>2, CongruentSum
  <2>4. n + o = r /\ y + o = y - s
    BY <1>13, <2>1, <2>2
  <2>5. Mod(r) = r
    BY ModOfField
  <2>. QED
    BY <2>3, <2>4, <2>5
<1>16. SenderShare(st) = s /\ ReceiverShare(bt, e) = r
  BY <1>5, <1>7, <1>8, <1>12
<1> HIDE DEF e
<1>17. Plus(s, r) = Mod(x * b) /\ r = Mod(x * b - s)
  BY <1>10, <1>14, <1>15 DEF Plus
<1>. QED
  BY <1>16, <1>17 DEF e

\* A message of round 3 is on its way with the client's share, and both are of the
\* answer to its session.
Sealed(s) ==
    /\ response[s] # None /\ sent[s] # None
    /\ sent[s] = Encrypted(began[s], response[s])
    /\ share[s] = SenderShare(began[s])

\* What the shares were made of stays as it is, and a session has a share once.
ShareInv ==
    /\ alice \in [phase : {"idle", "waiting", "done", "failed"}, session : Sessions \cup {None}]
    /\ DOMAIN share = Sessions
    /\ \A s \in Sessions : IF response[s] = None THEN bob[s] = None ELSE bob[s] \in BobStates
    /\ \A s \in Sessions : sent[s] # None \/ share[s] # None => Sealed(s)
    /\ \A s \in Sessions : bob[s] # None /\ bob[s].share # None =>
          Sealed(s) /\ bob[s].share = Mod(began[s].input * bob[s].input - share[s])
    /\ alice.phase = "waiting" =>
          /\ alice.session \in Sessions /\ began[alice.session] # None
          /\ share[alice.session] = None

LEMMA ShareInitial == MtaInit => ShareInv
  BY DEF MtaInit, ShareInv

\* The two shares of a session whose messages are out.
LEMMA SealedShares ==
    ASSUME MtaInv, NEW s \in Sessions, Sealed(s)
    PROVE  LET r == ReceiverShare(bob[s], sent[s])
           IN  /\ Answered(s) /\ began[s] \in AliceStates
               /\ r \in Field /\ share[s] \in Field
               /\ Plus(share[s], r) = Mod(began[s].input * bob[s].input)
               /\ r = Mod(began[s].input * bob[s].input - share[s])
<1>1. Answered(s) /\ began[s] \in AliceStates
  BY DEF MtaInv, Sealed, Answered
<1>2. PICK st, bt : st = began[s] /\ bt = bob[s]
  OBVIOUS
<1>3. PICK a \in [Bits -> Scalars], x \in Field, k \in [Bits -> Scalars], b \in Field :
        /\ a = st.key /\ x = st.input /\ k = bt.key /\ b = bt.input
        /\ st.pads \in [Bits -> Scalars] /\ bt.publicKey = a
  BY <1>1, <1>2, BitsAssumption DEF Answered, AliceStates
<1>4. sent[s] = Encrypted(st, Responses(a, b, k)) /\ share[s] = SenderShare(st)
  BY <1>1, <1>2, <1>3 DEF Sealed, Answered
<1>5. LET r == ReceiverShare(bt, Encrypted(st, Responses(a, b, k)))
      IN  /\ r \in Field /\ SenderShare(st) \in Field
          /\ Plus(SenderShare(st), r) = Mod(x * b)
          /\ r = Mod(x * b - SenderShare(st))
  BY <1>3, SharesOfOneSession
<1>. QED
  BY <1>1, <1>2, <1>3, <1>4, <1>5

\* What a client in round 3 computes is not None.
LEMMA RoundThreeTypes ==
    ASSUME MtaInv, NEW s \in Sessions, response[s] # None
    PROVE  /\ SenderShare(began[s]) # None /\ Encrypted(began[s], response[s]) # None
           /\ SenderShare(began[s]) \in Field
           /\ Encrypted(began[s], response[s]) \in [Bits -> Field \X Field]
<1>1. Answered(s) /\ began[s] \in AliceStates
  BY DEF MtaInv, Answered
<1>2. SenderShare(began[s]) \in Field
  <2>1. PICK a \in [Bits -> Scalars], x \in Field, k \in [Bits -> Scalars], b \in Field,
             st \in AliceStates :
          /\ st = began[s] /\ a = st.key /\ x = st.input /\ k = bob[s].key /\ b = bob[s].input
          /\ st.pads \in [Bits -> Scalars]
    BY <1>1, BitsAssumption DEF Answered, AliceStates
  <2>2. PICK bt : bt.publicKey = a /\ bt.key = k /\ bt.input = b
    <3>1. \E bt : bt = [publicKey |-> a, key |-> k, input |-> b]
      OBVIOUS
    <3>. QED
      BY <3>1
  <2>3. SenderShare(st) \in Field
    BY <2>1, <2>2, SharesOfOneSession
  <2>. QED
    BY <2>1, <2>3
<1>3. Encrypted(began[s], response[s]) \in [Bits -> Field \X Field]
  <2>1. ASSUME NEW j \in Bits
        PROVE  Encrypted(began[s], response[s])[j] \in Field \X Field
    <3>1. PICK st, keys : st = began[s] /\ keys = SenderKeys(st.key[j], response[s][j])
      OBVIOUS
    <3>2. PICK a \in Scalars, x \in Field, pad \in Int :
            a = st.key[j] /\ x = st.input /\ pad = st.pads[j]
      <4>1. st.key \in [Bits -> Scalars] /\ st.input \in Field /\ st.pads \in [Bits -> Scalars]
        BY <1>1, <3>1, BitsAssumption DEF AliceStates
      <4>2. st.pads[j] \in Int
        BY <4>1, OrderIsPositive DEF Scalars
      <4>. QED
        BY <4>1, <4>2
    <3>3. PICK B \in Int : B = response[s][j]
      <4>1. response[s] \in [Bits -> Field]
        BY <1>1, MessageTypes DEF Answered
      <4>. QED
        BY <4>1, OrderIsPositive DEF Field
    <3>4. PICK k1 \in Int, k2 \in Int : keys = <<k1, k2>>
      <4>1. Mod(B - a) \in Int /\ a \in Int
        BY InField, OrderIsPositive DEF Scalars
      <4>2. B * a \in Int /\ Mod(B - a) * a \in Int
        BY <4>1, Ring
      <4>3. Mod(B * a) \in Int /\ Mod(Mod(B - a) * a) \in Int
        BY <4>2, InField
      <4>. QED
        BY <3>1, <3>2, <3>3, <4>3 DEF SenderKeys, Times, Minus
    <3>5. PICK corr \in Int : corr = Correlation(x, j)
      <4>1. PICK p \in Nat \ {0} : p = 2^j
        BY Powers, BitsAssumption DEF Bits
      <4>2. x * p \in Int
        BY OrderIsPositive DEF Field
      <4>. QED
        BY <4>1, <4>2, InField DEF Correlation
    <3>6. Mod(pad + k1) \in Field
      BY InField
    <3>7. Mod(Mod(pad + corr) + k2) \in Field
      <4>1. Mod(pad + corr) \in Int
        BY InField
      <4>. QED
        BY <4>1, InField
    <3>8. Encrypted(began[s], response[s])[j] = <<Mod(pad + k1), Mod(Mod(pad + corr) + k2)>>
      <4>1. Encrypted(st, response[s])[j] =
              <<Seal(st.pads[j], keys[1]), Seal(Plus(st.pads[j], Correlation(st.input, j)), keys[2])>>
        BY <3>1 DEF Encrypted
      <4>. QED
        BY <3>1, <3>2, <3>4, <3>5, <4>1 DEF Seal, Plus
    <3>. QED
      BY <3>6, <3>7, <3>8
  <2>. QED
    BY <2>1 DEF Encrypted
<1>. QED
  BY <1>2, <1>3, NoneAssumption

LEMMA ShareStep == MtaInv /\ MtaInv' /\ ShareInv /\ [MtaNext]_mtaVars => ShareInv'
<1> SUFFICES ASSUME MtaInv, MtaInv', ShareInv, [MtaNext]_mtaVars PROVE ShareInv'
  OBVIOUS
<1>d. /\ DOMAIN began = Sessions /\ DOMAIN bob = Sessions /\ DOMAIN share = Sessions
      /\ DOMAIN response = Sessions /\ DOMAIN sent = Sessions
  BY DEF MtaInv, ShareInv
<1>r. \A s \in Sessions : response[s] # None => began[s] # None
  BY DEF MtaInv, Answered
<1>1. CASE MtaAliceRound1
  <2>1. PICK s \in Sessions, st \in AliceStates :
          /\ began[s] = None /\ began' = [began EXCEPT ![s] = st]
          /\ alice' = [phase |-> "waiting", session |-> s]
    BY <1>1 DEF MtaAliceRound1
  <2>2. UNCHANGED <<bob, response, sent, share>>
    BY <1>1 DEF MtaAliceRound1
  <2>3. response[s] = None /\ sent[s] = None /\ share[s] = None
    BY <1>r, <2>1 DEF ShareInv, Sealed
  <2>4. began'[s] = st /\ st # None /\ \A t \in Sessions : t # s => began'[t] = began[t]
    BY <1>d, <2>1, NoneAssumption
  <2>5. ASSUME NEW t \in Sessions, Sealed(t) PROVE Sealed(t)' /\ began'[t] = began[t]
    BY <2>2, <2>3, <2>4, <2>5 DEF Sealed
  <2>6. alice' \in [phase : {"idle", "waiting", "done", "failed"}, session : Sessions \cup {None}]
    BY <2>1
  <2>7. alice'.phase = "waiting" => /\ alice'.session \in Sessions /\ began'[alice'.session] # None
                                   /\ share'[alice'.session] = None
    BY <2>1, <2>2, <2>3, <2>4
  <2>. QED
    BY <2>2, <2>5, <2>6, <2>7 DEF ShareInv
<1>2. CASE MtaBobRound2
  <2>1. PICK s \in Sessions, b \in FactorsB, key \in KeyDraws :
          /\ began[s] # None /\ bob[s] = None
          /\ response' = [response EXCEPT ![s] = Responses(began[s].key, b, key)]
          /\ bob' = [bob EXCEPT ![s] =
                       [input |-> b, key |-> key, publicKey |-> began[s].key,
                        share |-> None, failed |-> FALSE]]
    BY <1>2 DEF MtaBobRound2
  <2>2. UNCHANGED <<alice, sent, began, share>>
    BY <1>2 DEF MtaBobRound2
  <2>3. response[s] = None
    BY <2>1, NoneAssumption DEF ShareInv
  <2>4. bob'[s] \in BobStates /\ bob'[s].share = None
    <3>1. began[s].key \in [Bits -> Scalars]
      BY <2>1, BitsAssumption DEF MtaInv, AliceStates
    <3>. QED
      BY <1>d, <2>1, <3>1 DEF BobStates
  <2>5. \A t \in Sessions : t # s => bob'[t] = bob[t] /\ response'[t] = response[t]
    BY <1>d, <2>1
  <2>6. bob'[s] # None /\ response'[s] # None
    <3>1. began[s].key \in [Bits -> Scalars] /\ key \in [Bits -> Scalars] /\ b \in Field
      BY <2>1, BitsAssumption DEF MtaInv, AliceStates
    <3>2. Responses(began[s].key, b, key) \in [Bits -> Field]
      BY <3>1, MessageTypes
    <3>. QED
      BY <1>d, <2>1, <2>4, <3>2, NoneAssumption
  <2>7. ASSUME NEW t \in Sessions, Sealed(t) PROVE Sealed(t)' /\ t # s
    BY <2>2, <2>3, <2>5, <2>7 DEF Sealed
  <2>8. \A t \in Sessions : IF response'[t] = None THEN bob'[t] = None ELSE bob'[t] \in BobStates
    BY <2>4, <2>5, <2>6 DEF ShareInv
  <2>9. ASSUME NEW t \in Sessions, bob'[t] # None, bob'[t].share # None
        PROVE  Sealed(t)' /\ bob'[t].share = Mod(began'[t].input * bob'[t].input - share'[t])
    <3>1. t # s /\ bob'[t] = bob[t]
      BY <2>4, <2>5, <2>9
    <3>. QED
      BY <2>2, <2>7, <2>9, <3>1 DEF ShareInv
  <2>10. \A t \in Sessions : sent'[t] # None \/ share'[t] # None => Sealed(t)'
    BY <2>2, <2>7 DEF ShareInv
  <2>. QED
    BY <2>2, <2>8, <2>9, <2>10 DEF ShareInv
<1>3. CASE MtaAliceRound3
  <2>1. PICK s \in Sessions :
          /\ alice.phase = "waiting" /\ response[s] # None
          /\ \/ /\ alice.session = s /\ alice' = [alice EXCEPT !.phase = "done"]
                /\ share' = [share EXCEPT ![s] = SenderShare(began[s])]
                /\ sent' = [sent EXCEPT ![s] = Encrypted(began[s], response[s])]
             \/ alice' = [alice EXCEPT !.phase = "failed"] /\ UNCHANGED <<share, sent>>
    BY <1>3 DEF MtaAliceRound3, AnswersSession
  <2>2. UNCHANGED <<bob, response, began>>
    BY <1>3 DEF MtaAliceRound3
  <2>3. CASE UNCHANGED <<share, sent>>
    <3>1. \A t \in Sessions : Sealed(t) => Sealed(t)'
      BY <2>2, <2>3 DEF Sealed
    <3>2. alice'.phase \in {"done", "failed"} /\ alice'.session = alice.session
      <4>1. alice' = [alice EXCEPT !.phase = "done"] \/ alice' = [alice EXCEPT !.phase = "failed"]
        BY <2>1
      <4>. QED
        BY <4>1 DEF ShareInv
    <3>3. alice' \in [phase : {"idle", "waiting", "done", "failed"}, session : Sessions \cup {None}]
      BY <2>1 DEF ShareInv
    <3>. QED
      BY <2>2, <2>3, <3>1, <3>2, <3>3 DEF ShareInv
  <2>4. CASE /\ alice.session = s /\ alice' = [alice EXCEPT !.phase = "done"]
             /\ share' = [share EXCEPT ![s] = SenderShare(began[s])]
             /\ sent' = [sent EXCEPT ![s] = Encrypted(began[s], response[s])]
    <3>1. /\ share'[s] = SenderShare(began[s]) /\ sent'[s] = Encrypted(began[s], response[s])
          /\ sent'[s] # None /\ DOMAIN share' = Sessions
          /\ \A t \in Sessions : t # s => share'[t] = share[t] /\ sent'[t] = sent[t]
      BY <1>d, <2>1, <2>4, RoundThreeTypes
    <3>2. Sealed(s)'
      BY <2>1, <2>2, <3>1 DEF Sealed
    <3>3. share[s] = None /\ ~Sealed(s)
      <4>1. share[s] = None
        BY <2>1, <2>4 DEF ShareInv
      <4>. QED
        BY <2>1, <4>1, RoundThreeTypes DEF Sealed
    <3>4. ASSUME NEW t \in Sessions, Sealed(t) PROVE Sealed(t)' /\ t # s
      BY <2>2, <3>1, <3>3, <3>4 DEF Sealed
    <3>5. \A t \in Sessions : sent'[t] # None \/ share'[t] # None => Sealed(t)'
      BY <3>1, <3>2, <3>4 DEF ShareInv
    <3>6. ASSUME NEW t \in Sessions, bob'[t] # None, bob'[t].share # None
          PROVE  Sealed(t)' /\ bob'[t].share = Mod(began'[t].input * bob'[t].input - share'[t])
      BY <2>2, <3>1, <3>4, <3>6 DEF ShareInv
    <3>7. /\ alice'.phase # "waiting"
          /\ alice' \in [phase : {"idle", "waiting", "done", "failed"}, session : Sessions \cup {None}]
      BY <2>4 DEF ShareInv
    <3>. QED
      BY <2>2, <3>1, <3>5, <3>6, <3>7 DEF ShareInv
  <2>. QED
    BY <2>1, <2>3, <2>4
<1>4. CASE MtaBobRound4
  <2>1. PICK s \in Sessions, m \in Sessions :
          /\ bob[s] # None /\ sent[m] # None /\ bob[s].share = None
          /\ bob' = IF s = m
                    THEN [bob EXCEPT ![s].share = ReceiverShare(bob[s], sent[m])]
                    ELSE [bob EXCEPT ![s].failed = TRUE]
    BY <1>4 DEF MtaBobRound4
  <2>2. UNCHANGED <<alice, response, sent, began, share>>
    BY <1>4 DEF MtaBobRound4
  <2>3. bob[s] \in BobStates /\ \A t \in Sessions : t # s => bob'[t] = bob[t]
    <3>1. bob[s] \in BobStates
      BY <2>1 DEF ShareInv
    <3>. QED
      BY <1>d, <2>1, <3>1
  <2>4. \A t \in Sessions : Sealed(t) => Sealed(t)'
    BY <2>2 DEF Sealed
  <2>5. /\ bob'[s] \in BobStates /\ bob'[s].input = bob[s].input
        /\ \/ bob'[s].share = None
           \/ /\ Sealed(s)
              /\ bob'[s].share = Mod(began[s].input * bob[s].input - share[s])
    <3>1. CASE s = m
      <4>1. Sealed(s)
        BY <2>1, <3>1 DEF ShareInv
      <4>2. PICK r \in Field : /\ r = ReceiverShare(bob[s], sent[s])
                              /\ r = Mod(began[s].input * bob[s].input - share[s])
        BY <4>1, SealedShares
      <4>3. bob'[s] = [bob[s] EXCEPT !.share = r]
        BY <1>d, <2>1, <3>1, <4>2
      <4>4. bob'[s] \in BobStates /\ bob'[s].input = bob[s].input /\ bob'[s].share = r
        BY <2>3, <4>3 DEF BobStates
      <4>. QED
        BY <4>1, <4>2, <4>4
    <3>2. CASE s # m
      <4>1. bob'[s] = [bob[s] EXCEPT !.failed = TRUE]
        BY <1>d, <2>1, <3>2
      <4>2. bob'[s] \in BobStates /\ bob'[s].input = bob[s].input /\ bob'[s].share = bob[s].share
        BY <2>3, <4>1 DEF BobStates
      <4>. QED
        BY <2>1, <4>2
    <3>. QED
      BY <3>1, <3>2
  <2>6. response[s] # None
    BY <2>1 DEF ShareInv
  <2>7. \A t \in Sessions : IF response'[t] = None THEN bob'[t] = None ELSE bob'[t] \in BobStates
    BY <2>2, <2>3, <2>5, <2>6 DEF ShareInv
  <2>8. ASSUME NEW t \in Sessions, bob'[t] # None, bob'[t].share # None
        PROVE  Sealed(t)' /\ bob'[t].share = Mod(began'[t].input * bob'[t].input - share'[t])
    BY <2>2, <2>3, <2>4, <2>5, <2>8 DEF ShareInv
  <2>. QED
    BY <2>2, <2>4, <2>7, <2>8 DEF ShareInv
<1>5. CASE UNCHANGED mtaVars
  BY <1>5 DEF mtaVars, ShareInv, Sealed
<1>. QED
  BY <1>1, <1>2, <1>3, <1>4, <1>5 DEF MtaNext

LEMMA SharesAddUp == MtaInv /\ ShareInv => SharesMultiply
<1> SUFFICES ASSUME MtaInv, ShareInv, NEW s \in Sessions, share[s] # None,
                    bob[s] # None, bob[s].share # None
             PROVE  Plus(share[s], bob[s].share) = Mod(began[s].input * bob[s].input)
  BY DEF SharesMultiply
<1>1. Sealed(s) /\ bob[s].share = Mod(began[s].input * bob[s].input - share[s])
  BY DEF ShareInv
<1>. QED
  BY <1>1, SealedShares

\* Whatever sessions overlap and in whatever order their messages arrive, two shares
\* of one session add up to the product of its inputs, for every order of the group
\* and every number of bits that holds it (mta-protocol.ts:215, verifyMtAResult).
THEOREM SharesAreOfTheProduct == MtaSpec => []SharesMultiply
  BY MtaInitial, MtaStep, ShareInitial, ShareStep, SharesAddUp, PTL DEF MtaSpec

\* Every step of the sessions is one of the abstract conversion, or none: a share of
\* the client is decided when both inputs are, and the backend's follows from it.
LEMMA MtaStepImplements ==
    MtaInv /\ MtaInv' /\ ShareInv /\ ShareInv' /\ [MtaNext]_mtaVars
        => [Abstract!Next]_Abstract!vars
<1> SUFFICES ASSUME MtaInv, MtaInv', ShareInv, ShareInv', [MtaNext]_mtaVars
             PROVE  [Abstract!Next]_Abstract!vars
  OBVIOUS
<1> DEFINE A == [s \in Sessions |-> IF began[s] = None THEN None ELSE began[s].input]
           B == [s \in Sessions |-> IF bob[s] = None THEN None ELSE bob[s].input]
           T == [s \in Sessions |-> IF bob[s] = None THEN None ELSE bob[s].share]
<1>d. /\ DOMAIN began = Sessions /\ DOMAIN bob = Sessions /\ DOMAIN share = Sessions
      /\ DOMAIN response = Sessions /\ DOMAIN sent = Sessions
  BY DEF MtaInv, ShareInv
<1>s. (UNCHANGED <<A, B, share, T>>) => [Abstract!Next]_Abstract!vars
  BY DEF Abstract!vars
<1>1. CASE MtaAliceRound1
  <2>1. PICK s \in Sessions, st \in AliceStates :
          /\ began[s] = None /\ began' = [began EXCEPT ![s] = st]
    BY <1>1 DEF MtaAliceRound1
  <2>2. UNCHANGED <<bob, response, sent, share>>
    BY <1>1 DEF MtaAliceRound1
  <2>3. PICK a \in Field : a = st.input
    BY BitsAssumption DEF AliceStates
  <2>4. A' = [A EXCEPT ![s] = a] /\ A[s] = None
    <3>1. st # None
      BY NoneAssumption
    <3>. QED
      BY <1>d, <2>1, <2>3, <3>1
  <2>5. UNCHANGED <<B, share, T>>
    BY <2>2
  <2> HIDE DEF A, B, T
  <2>6. Abstract!Enter(s)
    BY <2>3, <2>4, <2>5 DEF Abstract!Enter, Abstract!Field, Field, A, B, T
  <2>. QED
    BY <2>6 DEF Abstract!Next
<1>2. CASE MtaBobRound2
  <2>1. PICK s \in Sessions, b \in FactorsB, key \in KeyDraws :
          /\ bob[s] = None
          /\ bob' = [bob EXCEPT ![s] =
                       [input |-> b, key |-> key, publicKey |-> began[s].key,
                        share |-> None, failed |-> FALSE]]
          /\ response' = [response EXCEPT ![s] = Responses(began[s].key, b, key)]
    BY <1>2 DEF MtaBobRound2
  <2>2. UNCHANGED <<alice, sent, began, share>>
    BY <1>2 DEF MtaBobRound2
  <2>3. bob'[s].input = b /\ bob'[s].share = None /\ b \in Field
    BY <1>d, <2>1, BitsAssumption
  <2>4. bob'[s] # None
    <3>1. response'[s] = None => bob'[s] = None
      BY DEF ShareInv
    <3>2. response'[s] # None => bob'[s] # None
      BY NoneAssumption DEF ShareInv
    <3>3. response'[s] # None
      <4>1. began[s].key \in [Bits -> Scalars] /\ key \in [Bits -> Scalars]
        BY <1>2, <2>1, BitsAssumption DEF MtaBobRound2, MtaInv, AliceStates
      <4>2. Responses(began[s].key, b, key) \in [Bits -> Field]
        BY <2>3, <4>1, MessageTypes
      <4>. QED
        BY <1>d, <2>1, <4>2, NoneAssumption
    <3>. QED
      BY <3>2, <3>3
  <2>5. B' = [B EXCEPT ![s] = b] /\ B[s] = None /\ T' = T
    BY <1>d, <2>1, <2>3, <2>4
  <2>6. A' = A
    BY <2>2
  <2> HIDE DEF A, B, T
  <2>7. Abstract!Enter(s)
    BY <2>2, <2>3, <2>5, <2>6 DEF Abstract!Enter, Abstract!Field, Field, A, B, T
  <2>. QED
    BY <2>7 DEF Abstract!Next
<1>3. CASE MtaAliceRound3
  <2>1. PICK s \in Sessions :
          /\ alice.phase = "waiting" /\ response[s] # None
          /\ \/ /\ alice.session = s
                /\ share' = [share EXCEPT ![s] = SenderShare(began[s])]
             \/ UNCHANGED <<share, sent>>
    BY <1>3 DEF MtaAliceRound3, AnswersSession
  <2>2. UNCHANGED <<bob, response, began>>
    BY <1>3 DEF MtaAliceRound3
  <2>3. A' = A /\ B' = B /\ T' = T
    BY <2>2
  <2>4. CASE UNCHANGED <<share, sent>>
    BY <1>s, <2>3, <2>4
  <2>5. CASE alice.session = s /\ share' = [share EXCEPT ![s] = SenderShare(began[s])]
    <3>1. PICK t \in Field : t = SenderShare(began[s])
      BY <2>1, RoundThreeTypes
    <3>2. share[s] = None
      BY <2>1, <2>5 DEF ShareInv
    <3>3. A[s] # None /\ B[s] # None
      <4>1. Answered(s) /\ began[s] \in AliceStates
        BY <2>1 DEF MtaInv, Answered
      <4>2. bob[s] # None
        BY <2>1, NoneAssumption DEF ShareInv
      <4>. QED
        BY <4>1, <4>2, NoneAssumption, BitsAssumption DEF Answered, AliceStates
    <3> HIDE DEF A, B, T
    <3>4. Abstract!ClientShare(s)
      BY <2>3, <2>5, <3>1, <3>2, <3>3 DEF Abstract!ClientShare, Abstract!Field, Field, A, B, T
    <3>. QED
      BY <3>4 DEF Abstract!Next
  <2>. QED
    BY <2>1, <2>4, <2>5
<1>4. CASE MtaBobRound4
  <2>1. PICK s \in Sessions, m \in Sessions :
          /\ bob[s] # None /\ sent[m] # None /\ bob[s].share = None
          /\ bob' = IF s = m
                    THEN [bob EXCEPT ![s].share = ReceiverShare(bob[s], sent[m])]
                    ELSE [bob EXCEPT ![s].failed = TRUE]
    BY <1>4 DEF MtaBobRound4
  <2>2. UNCHANGED <<alice, response, sent, began, share>>
    BY <1>4 DEF MtaBobRound4
  <2>3. bob[s] \in BobStates /\ bob'[s] # None
    <3>1. response[s] # None /\ response'[s] # None
      BY <2>1, <2>2 DEF ShareInv
    <3>. QED
      BY <2>1, <3>1, NoneAssumption DEF ShareInv
  <2>4. A' = A
    BY <2>2
  <2>5. CASE s = m
    <3>1. Sealed(s)
      BY <2>1, <2>5 DEF ShareInv
    <3>2. PICK r \in Field : /\ r = ReceiverShare(bob[s], sent[s])
                            /\ r = Mod(began[s].input * bob[s].input - share[s])
      BY <3>1, SealedShares
    <3>3. bob' = [bob EXCEPT ![s].share = r]
      BY <2>1, <2>5, <3>2
    <3>4. bob'[s].input = bob[s].input /\ bob'[s].share = r
      BY <1>d, <2>3, <3>3 DEF BobStates
    <3>5. \A t \in Sessions : t # s => bob'[t] = bob[t]
      BY <1>d, <3>3
    <3>6. B' = B
      BY <2>1, <2>3, <3>4, <3>5
    <3>7. T' = [T EXCEPT ![s] = r] /\ T[s] = None
      <4>1. \A t \in Sessions :
              (IF bob'[t] = None THEN None ELSE bob'[t].share) = (IF t = s THEN r ELSE T[t])
        BY <2>3, <3>4, <3>5
      <4>2. T' = [t \in Sessions |-> IF t = s THEN r ELSE T[t]]
        BY <4>1
      <4>3. T[s] = None
        BY <2>1
      <4>. QED
        BY <4>2, <4>3
    <3>8. A[s] = began[s].input /\ B[s] = bob[s].input /\ share[s] # None
      <4>1. Answered(s) /\ share[s] \in Field
        BY <3>1, SealedShares
      <4>. QED
        BY <2>1, <4>1, NoneAssumption DEF Answered
    <3>9. r = (A[s] * B[s] - share[s]) % Q
      BY <3>2, <3>8 DEF Mod
    <3> HIDE DEF A, B, T
    <3>10. Abstract!BackendShare(s)
      BY <2>2, <2>4, <3>6, <3>7, <3>8, <3>9 DEF Abstract!BackendShare, A, B, T
    <3>. QED
      BY <3>10 DEF Abstract!Next
  <2>6. CASE s # m
    <3>1. bob' = [bob EXCEPT ![s].failed = TRUE]
      BY <2>1, <2>6
    <3>2. bob'[s].input = bob[s].input /\ bob'[s].share = bob[s].share
      BY <1>d, <2>3, <3>1 DEF BobStates
    <3>3. \A t \in Sessions : t # s => bob'[t] = bob[t]
      BY <1>d, <3>1
    <3>4. B' = B /\ T' = T
      BY <2>1, <2>3, <3>2, <3>3
    <3>. QED
      BY <1>s, <2>2, <2>4, <3>4
  <2>. QED
    BY <2>5, <2>6
<1>5. CASE UNCHANGED mtaVars
  BY <1>5, <1>s DEF mtaVars
<1>. QED
  BY <1>1, <1>2, <1>3, <1>4, <1>5 DEF MtaNext

LEMMA MtaInitialImplements == MtaInit => Abstract!Init
<1> SUFFICES ASSUME MtaInit PROVE Abstract!Init
  OBVIOUS
<1>1. /\ began = [s \in Sessions |-> None] /\ bob = [s \in Sessions |-> None]
      /\ share = [s \in Sessions |-> None]
  BY DEF MtaInit
<1>. QED
  BY <1>1 DEF Abstract!Init

\* The sessions implement the abstract conversion, however many there are.
THEOREM SessionsImplementConversion == MtaSpec => ImplementsMultiplication
<1>1. MtaSpec => [](MtaInv /\ ShareInv)
  BY MtaInitial, MtaStep, ShareInitial, ShareStep, PTL DEF MtaSpec
<1>. QED
  BY <1>1, MtaInitialImplements, MtaStepImplements, PTL
     DEF MtaSpec, ImplementsMultiplication, Abstract!Spec

-----------------------------------------------------------------------------
(* DklsWallet: the key.                                                     *)

LEMMA TimesOfScalar == ASSUME NEW a \in Scalars PROVE Times(1, a) = a /\ a \in Field /\ a \in Int
<1>1. a \in Field /\ 1 * a = a /\ a \in Int
  BY OrderIsPositive DEF Scalars, Field
<1>. QED
  BY <1>1, ModOfField DEF Times

\* The secrets are there from the steps on that draw them, the key is the product.
KeygenInv ==
    /\ keygen \in KeygenStates /\ peer \in [secret : Optional, sound : BOOLEAN]
    /\ keygen.phase \in {"started", "committed", "revealed", "complete"} =>
          keygen.secretShare \in Scalars /\ keygen.publicShare = keygen.secretShare
    /\ keygen.phase \in {"committed", "revealed", "complete"} =>
          peer.secret \in Scalars /\ keygen.peerCommitment = peer.secret
    /\ keygen.phase = "complete" =>
          keygen.jointPublicKey = Times(keygen.publicShare, peer.secret)
    /\ keygen.phase = "failed" => ~peer.sound

LEMMA KeygenInitial == DklsInit => KeygenInv
  BY DEF DklsInit, KeygenInv, KeygenStates, Optional

LEMMA KeygenStep == KeygenInv /\ [DklsNext]_dklsVars => KeygenInv'
<1> SUFFICES ASSUME KeygenInv, [DklsNext]_dklsVars PROVE KeygenInv'
  OBVIOUS
<1> USE DEF KeygenInv
<1>1. CASE KeygenInitClient
  <2>1. PICK secret \in Scalars :
          keygen' = [keygen EXCEPT !.phase = "started", !.secretShare = secret,
                                   !.publicShare = Times(1, secret)]
    BY <1>1 DEF KeygenInitClient
  <2>2. Times(1, secret) = secret /\ secret \in Optional
    BY TimesOfScalar DEF Optional
  <2>3. keygen' \in KeygenStates /\ keygen'.phase = "started" /\ keygen'.secretShare = secret
        /\ keygen'.publicShare = secret /\ peer' = peer
    BY <1>1, <2>1, <2>2 DEF KeygenInitClient, KeygenStates
  <2>. QED
    BY <2>3
<1>2. CASE KeygenProcessBackendCommitment
  <2>1. PICK secret \in Scalars, ownParty \in BOOLEAN :
          /\ keygen' = IF ownParty THEN [keygen EXCEPT !.phase = "failed"]
                       ELSE [keygen EXCEPT !.phase = "committed",
                                           !.peerCommitment = Times(1, secret)]
          /\ peer' = [peer EXCEPT !.secret = secret, !.sound = ~ownParty]
    BY <1>2 DEF KeygenProcessBackendCommitment
  <2>2. Times(1, secret) = secret /\ secret \in Optional /\ keygen.phase = "started"
    BY <1>2, TimesOfScalar DEF Optional, KeygenProcessBackendCommitment
  <2>3. peer' \in [secret : Optional, sound : BOOLEAN] /\ peer'.secret = secret
    BY <2>1, <2>2
  <2>4. CASE ownParty
    <3>1. keygen' \in KeygenStates /\ keygen'.phase = "failed" /\ ~peer'.sound
      BY <2>1, <2>4 DEF KeygenStates
    <3>. QED
      BY <2>3, <3>1
  <2>5. CASE ~ownParty
    <3>1. /\ keygen' \in KeygenStates /\ keygen'.phase = "committed"
          /\ keygen'.secretShare = keygen.secretShare /\ keygen'.publicShare = keygen.publicShare
          /\ keygen'.peerCommitment = secret
      BY <2>1, <2>2, <2>5 DEF KeygenStates
    <3>. QED
      BY <2>2, <2>3, <3>1
  <2>. QED
    BY <2>4, <2>5
<1>3. CASE KeygenGenerateReveal
  <2>1. /\ keygen' \in KeygenStates /\ keygen'.phase = "revealed" /\ peer' = peer
        /\ keygen'.secretShare = keygen.secretShare /\ keygen'.publicShare = keygen.publicShare
        /\ keygen'.peerCommitment = keygen.peerCommitment /\ keygen.phase = "committed"
    BY <1>3 DEF KeygenGenerateReveal, KeygenStates
  <2>. QED
    BY <2>1
<1>4. CASE KeygenComplete
  <2>1. PICK public \in Scalars, known \in Scalars, nonce \in DklsNonces, challenge \in Field :
          LET own == GenerateSchnorrProof(known, nonce)
              p == [own EXCEPT !.challenge = challenge]
          IN  /\ keygen' =
                   IF /\ VerifyCommitment(keygen.peerCommitment, public)
                      /\ VerifySchnorrProof(public, p)
                   THEN [keygen EXCEPT !.phase = "complete", !.jointPublicKey =
                            JointPublicKey(public, keygen.secretShare)]
                   ELSE [keygen EXCEPT !.phase = "failed"]
              /\ peer' = [peer EXCEPT !.sound =
                            /\ public = Times(1, peer.secret) /\ known = peer.secret
                            /\ p = own
                            /\ SchnorrHolds("dkls", public, own.proof)]
    BY <1>4 DEF KeygenComplete
  <2> DEFINE own == GenerateSchnorrProof(known, nonce)
             p == [own EXCEPT !.challenge = challenge]
             accepts == VerifyCommitment(keygen.peerCommitment, public)
                        /\ VerifySchnorrProof(public, p)
             sound == /\ public = Times(1, peer.secret) /\ known = peer.secret
                      /\ p = own
                      /\ SchnorrHolds("dkls", public, own.proof)
  <2>2. /\ keygen.phase = "revealed" /\ keygen.secretShare \in Scalars
        /\ keygen.publicShare = keygen.secretShare
        /\ peer.secret \in Scalars /\ keygen.peerCommitment = peer.secret
    BY <1>4 DEF KeygenComplete
  <2>3. peer' \in [secret : Optional, sound : BOOLEAN] /\ peer'.secret = peer.secret
        /\ peer'.sound = sound
    <3>1. peer' = [peer EXCEPT !.sound = sound] /\ sound \in BOOLEAN
      BY <2>1
    <3> HIDE DEF sound
    <3>. QED
      BY <3>1
  <2>4. sound => accepts
    <3>1. SUFFICES ASSUME sound PROVE accepts
      OBVIOUS
    <3>2. public = peer.secret /\ known = public
      BY <2>2, <3>1, TimesOfScalar
    <3>3. own = [proof |-> SchnorrProof("dkls", known, nonce),
                 challenge |-> Challenge(<<"dkls", Mod(known), nonce>>)]
      BY DEF GenerateSchnorrProof
    <3>4. own.proof.R = nonce
      BY <3>3 DEF SchnorrProof
    <3>5. Mod(known) = public
      BY <3>2, TimesOfScalar, ModOfField
    <3>. QED
      BY <2>2, <3>1, <3>2, <3>3, <3>4, <3>5 DEF VerifyCommitment, VerifySchnorrProof
  <2>5. CASE accepts
    <3>1. keygen' = [keygen EXCEPT !.phase = "complete", !.jointPublicKey =
                        JointPublicKey(public, keygen.secretShare)]
      BY <2>1, <2>5
    <3>2. public = peer.secret
      BY <2>2, <2>5 DEF VerifyCommitment
    <3>3. JointPublicKey(public, keygen.secretShare) = Times(keygen.publicShare, peer.secret)
      <4>1. /\ public * keygen.secretShare = keygen.secretShare * public
        BY <2>2, TimesOfScalar, Ring
      <4>. QED
        BY <2>2, <3>2, <4>1 DEF JointPublicKey, Times
    <3>4. Times(keygen.publicShare, peer.secret) \in Optional
      <4>1. keygen.publicShare * peer.secret \in Int
        BY <2>2, TimesOfScalar, Ring
      <4>. QED
        BY <4>1, InField DEF Times, Optional
    <3>5. /\ keygen' \in KeygenStates /\ keygen'.phase = "complete"
          /\ keygen'.jointPublicKey = Times(keygen.publicShare, peer.secret)
          /\ keygen'.secretShare = keygen.secretShare /\ keygen'.publicShare = keygen.publicShare
          /\ keygen'.peerCommitment = keygen.peerCommitment
      BY <3>1, <3>3, <3>4 DEF KeygenStates
    <3>. QED
      BY <2>2, <2>3, <3>5
  <2>6. CASE ~accepts
    <3>1. keygen' = [keygen EXCEPT !.phase = "failed"] /\ ~peer'.sound
      BY <2>1, <2>3, <2>4, <2>6
    <3>2. keygen' \in KeygenStates /\ keygen'.phase = "failed"
      BY <3>1 DEF KeygenStates
    <3>. QED
      BY <2>3, <3>1, <3>2
  <2>. QED
    BY <2>5, <2>6
<1>5. CASE \/ SigningInit \/ SigningStoreBackendCommitment \/ SigningProcessBackendNonce
           \/ ProcessMtARound2Response \/ ComputeClientPartialSignature
  BY <1>5 DEF SigningInit, SigningStoreBackendCommitment, SigningProcessBackendNonce,
              ProcessMtARound2Response, ComputeClientPartialSignature
<1>6. CASE UNCHANGED dklsVars
  BY <1>6 DEF dklsVars
<1>. QED
  BY <1>1, <1>2, <1>3, <1>4, <1>5, <1>6 DEF DklsNext

\* A key that is accepted is one the backend has proved that it knows.
LEMMA AcceptedIsSound ==
    ASSUME ProofsBind, KeygenInv, [DklsNext]_dklsVars,
           keygen.phase \in {"committed", "revealed", "complete"} => peer.sound,
           keygen'.phase \in {"committed", "revealed", "complete"}
    PROVE  peer'.sound
<1> USE DEF KeygenInv
<1>1. CASE KeygenInitClient
  <2>1. keygen'.phase = "started"
    BY <1>1 DEF KeygenInitClient, KeygenStates
  <2>. QED
    BY <2>1
<1>2. CASE KeygenProcessBackendCommitment
  <2>1. PICK ownParty \in BOOLEAN :
          /\ ownParty => keygen' = [keygen EXCEPT !.phase = "failed"]
          /\ \E secret \in Scalars : peer' = [peer EXCEPT !.secret = secret, !.sound = ~ownParty]
    BY <1>2 DEF KeygenProcessBackendCommitment
  <2>2. peer'.sound = ~ownParty
    BY <2>1
  <2>3. ownParty => keygen'.phase = "failed"
    BY <2>1 DEF KeygenStates
  <2>. QED
    BY <2>2, <2>3
<1>3. CASE KeygenGenerateReveal
  BY <1>3 DEF KeygenGenerateReveal, KeygenStates
<1>4. CASE KeygenComplete
  <2>1. PICK public \in Scalars, known \in Scalars, nonce \in DklsNonces, challenge \in Field :
          LET own == GenerateSchnorrProof(known, nonce)
              p == [own EXCEPT !.challenge = challenge]
          IN  /\ keygen' =
                   IF /\ VerifyCommitment(keygen.peerCommitment, public)
                      /\ VerifySchnorrProof(public, p)
                   THEN [keygen EXCEPT !.phase = "complete", !.jointPublicKey =
                            JointPublicKey(public, keygen.secretShare)]
                   ELSE [keygen EXCEPT !.phase = "failed"]
              /\ peer' = [peer EXCEPT !.sound =
                            /\ public = Times(1, peer.secret) /\ known = peer.secret
                            /\ p = own
                            /\ SchnorrHolds("dkls", public, own.proof)]
    BY <1>4 DEF KeygenComplete
  <2> DEFINE own == GenerateSchnorrProof(known, nonce)
             p == [own EXCEPT !.challenge = challenge]
             accepts == VerifyCommitment(keygen.peerCommitment, public)
                        /\ VerifySchnorrProof(public, p)
             sound == /\ public = Times(1, peer.secret) /\ known = peer.secret
                      /\ p = own
                      /\ SchnorrHolds("dkls", public, own.proof)
  <2>2. keygen.phase = "revealed" /\ peer.secret \in Scalars /\ keygen.peerCommitment = peer.secret
    BY <1>4 DEF KeygenComplete
  <2>3. peer'.sound = sound
    <3>1. peer' = [peer EXCEPT !.sound = sound] /\ sound \in BOOLEAN
      BY <2>1
    <3> HIDE DEF sound
    <3>. QED
      BY <3>1
  <2>4. accepts
    <3>1. ~accepts => keygen'.phase = "failed"
      <4>1. ~accepts => keygen' = [keygen EXCEPT !.phase = "failed"]
        BY <2>1
      <4>. QED
        BY <4>1 DEF KeygenStates
    <3>. QED
      BY <3>1
  <2>5. own = [proof |-> SchnorrProof("dkls", known, nonce),
               challenge |-> Challenge(<<"dkls", Mod(known), nonce>>)]
    BY DEF GenerateSchnorrProof
  <2>6. p = [proof |-> SchnorrProof("dkls", known, nonce), challenge |-> challenge]
    BY <2>5
  <2>7. /\ public = peer.secret
        /\ challenge = Challenge(<<"dkls", public, p.proof.R>>)
        /\ SchnorrHolds("dkls", public, p.proof)
    BY <2>2, <2>4, <2>6 DEF VerifyCommitment, VerifySchnorrProof
  <2>8. SchnorrHolds("dkls", public, SchnorrProof("dkls", known, nonce)) /\ p.proof.R = nonce
    BY <2>6, <2>7 DEF SchnorrProof
  <2>9. known = public
    BY <2>8 DEF ProofsBind
  <2>10. Mod(known) = public /\ Times(1, peer.secret) = public
    BY <2>2, <2>7, <2>9, TimesOfScalar, ModOfField
  <2>11. p = own
    BY <2>5, <2>6, <2>7, <2>8, <2>10
  <2>12. own.proof = SchnorrProof("dkls", known, nonce)
    BY <2>5
  <2>13. sound
    BY <2>7, <2>8, <2>9, <2>10, <2>11, <2>12
  <2>. QED
    BY ONLY <2>3, <2>13
<1>5. CASE \/ SigningInit \/ SigningStoreBackendCommitment \/ SigningProcessBackendNonce
           \/ ProcessMtARound2Response \/ ComputeClientPartialSignature
  BY <1>5 DEF SigningInit, SigningStoreBackendCommitment, SigningProcessBackendNonce,
              ProcessMtARound2Response, ComputeClientPartialSignature
<1>6. CASE UNCHANGED dklsVars
  BY <1>6 DEF dklsVars
<1>. QED
  BY <1>1, <1>2, <1>3, <1>4, <1>5, <1>6 DEF DklsNext

\* Both parties end with the public key of the product of their secrets, and a
\* backend that did as it should is not refused, whatever the hash does
\* (crypto.ts:187 and 195).
THEOREM BothPartiesHaveTheKey ==
    DklsSpec => [](/\ keygen.phase = "complete" =>
                        keygen.jointPublicKey = Times(keygen.publicShare, peer.secret)
                   /\ keygen.phase = "failed" => ~peer.sound)
<1>1. KeygenInv => /\ keygen.phase = "complete" =>
                         keygen.jointPublicKey = Times(keygen.publicShare, peer.secret)
                   /\ keygen.phase = "failed" => ~peer.sound
  BY DEF KeygenInv
<1>. QED
  BY <1>1, KeygenInitial, KeygenStep, PTL DEF DklsSpec

\* If proofs bind, a generated key is accepted exactly from a backend that revealed
\* what it committed to and proved that it knows it (crypto.ts:187 and 191).
THEOREM AcceptedKeysAreShared ==
    ASSUME ProofsBind
    PROVE  DklsSpec => []KeyIsShared
<1> DEFINE Accepted == keygen.phase \in {"committed", "revealed", "complete"} => peer.sound
<1>1. DklsInit => Accepted
  BY DEF DklsInit
<1>2. KeygenInv /\ Accepted /\ [DklsNext]_dklsVars => Accepted'
  BY AcceptedIsSound
<1>3. KeygenInv /\ Accepted => KeyIsShared
  BY DEF KeygenInv, KeyIsShared
<1> HIDE DEF Accepted
<1>. QED
  BY <1>1, <1>2, <1>3, KeygenInitial, KeygenStep, PTL DEF DklsSpec

-----------------------------------------------------------------------------
(* DklsWallet: the signature.                                               *)

LEMMA InverseOf ==
    ASSUME NEW k \in Scalars
    PROVE  /\ ModInverse(k) \in Int /\ Mod(k * ModInverse(k)) = Mod(1)
<1>1. ModInverse(k) \in Scalars /\ Mod(k * ModInverse(k)) = 1
  BY InverseIsInverse
<1>2. 1 \in Field
  BY OrderIsPositive DEF Field
<1>. QED
  BY <1>1, <1>2, ModOfField, TimesOfScalar

\* The products of the two multiplications, times the joint nonce, are 1 and the
\* secret key.
LEMMA NonceCancels ==
    ASSUME NEW a \in Int, NEW b \in Int, NEW i \in Int, NEW j \in Int, NEW k \in Int,
           NEW l \in Int, Times(k, i) = Mod(1), Times(l, j) = Mod(1)
    PROVE  Times(i * j, k * l) = Mod(1) /\ Times(Times(a, i) * Times(b, j), k * l) = Times(a, b)
<1> USE DEF Times
<1>0. /\ k * i \in Int /\ l * j \in Int /\ k * l \in Int /\ i * j \in Int /\ a * b \in Int
      /\ a * i \in Int /\ b * j \in Int /\ (a * i) * (b * j) \in Int
      /\ (k * i) * (l * j) \in Int /\ (i * j) * (k * l) \in Int
  BY Ring
<1>1. (i * j) * (k * l) = (k * i) * (l * j)
  <2>1. /\ (i * j) * (k * l) = ((i * j) * k) * l /\ (i * j) * k = k * (i * j)
        /\ k * (i * j) = (k * i) * j /\ ((k * i) * j) * l = (k * i) * (j * l) /\ j * l = l * j
    BY <1>0, Ring
  <2>. QED
    BY ONLY <2>1
<1>2. Mod((k * i) * (l * j)) = Mod(1)
  <2>1. Mod((k * i) * (l * j)) = Mod(1 * 1)
    BY <1>0, CongruentProduct
  <2>. QED
    BY <2>1
<1>3. Mod(Mod(a * i) * Mod(b * j)) = Mod((a * i) * (b * j))
  <2>1. PICK v \in Int, w \in Int : v = Mod(a * i) /\ w = Mod(b * j)
    BY <1>0, InField
  <2>2. Mod(v) = Mod(a * i) /\ Mod(w) = Mod(b * j)
    BY <1>0, <2>1, ModTwice
  <2>3. Mod(v * w) = Mod((a * i) * (b * j))
    BY <1>0, <2>2, CongruentProduct
  <2>. QED
    BY <2>1, <2>3
<1>4. Mod((Mod(a * i) * Mod(b * j)) * (k * l)) = Mod(((a * i) * (b * j)) * (k * l))
  <2>1. PICK v \in Int : v = Mod(a * i) * Mod(b * j)
    BY <1>0, InField, Ring
  <2>2. Mod(v * (k * l)) = Mod(((a * i) * (b * j)) * (k * l))
    BY <1>0, <1>3, <2>1, CongruentProduct
  <2>. QED
    BY <2>1, <2>2
<1>5. ((a * i) * (b * j)) * (k * l) = (a * b) * ((i * j) * (k * l))
  <2>1. /\ (a * i) * (b * j) = a * (i * (b * j)) /\ i * (b * j) = (i * b) * j
        /\ i * b = b * i /\ (b * i) * j = b * (i * j) /\ a * (b * (i * j)) = (a * b) * (i * j)
        /\ ((a * b) * (i * j)) * (k * l) = (a * b) * ((i * j) * (k * l))
    BY <1>0, Ring
  <2>. QED
    BY ONLY <2>1
<1>6. Mod((a * b) * ((i * j) * (k * l))) = Mod((a * b) * 1)
  BY <1>0, <1>1, <1>2, CongruentProduct
<1>7. (a * b) * 1 = a * b
  BY <1>0
<1>. QED
  BY <1>1, <1>2, <1>4, <1>5, <1>6, <1>7

\* What the parties have drawn and computed, from the step on that does so.
SigningInv ==
    /\ signing \in SigningStates
    /\ backend \in [nonce : Optional, t1 : Optional, t2 : Optional]
    /\ signing.phase # "idle" => keygen.phase = "complete"
    /\ signing.phase \in {"started", "committed", "nonced", "multiplied", "done"} =>
          signing.messageHash \in Nat /\ signing.nonceShare \in Scalars
    /\ signing.phase \in {"committed", "nonced", "multiplied", "done"} =>
          backend.nonce \in Scalars /\ signing.peerNonceCommitment = backend.nonce
    /\ signing.phase \in {"nonced", "multiplied", "done"} =>
          signing.rValue = XCoord(Times(backend.nonce, signing.nonceShare))
    /\ signing.phase \in {"multiplied", "done"} =>
          LET kA == signing.nonceShare
              kB == backend.nonce
          IN  /\ signing.mta1Share \in Field /\ signing.mta2Share \in Field
              /\ backend.t1 = Mod(MtaInput1(kA) * ModInverse(kB) - signing.mta1Share)
              /\ backend.t2 = Mod(MtaInput2(keygen.secretShare, kA)
                                  * Mod(peer.secret * ModInverse(kB)) - signing.mta2Share)
    /\ signing.phase = "done" =>
          partial = PartialS(signing.messageHash, signing.rValue,
                             signing.mta1Share, signing.mta2Share)

LEMMA SigningInitial == DklsInit => SigningInv
  BY DEF DklsInit, SigningInv, SigningStates, Optional

LEMMA SigningStep == KeygenInv /\ SigningInv /\ [DklsNext]_dklsVars => SigningInv'
<1> SUFFICES ASSUME KeygenInv, SigningInv, [DklsNext]_dklsVars PROVE SigningInv'
  OBVIOUS
<1> USE DEF SigningInv
<1>1. CASE KeygenInitClient \/ KeygenProcessBackendCommitment \/ KeygenGenerateReveal
           \/ KeygenComplete
  <2>1. UNCHANGED <<signing, backend, partial>> /\ keygen.phase # "complete"
    BY <1>1 DEF KeygenInitClient, KeygenProcessBackendCommitment, KeygenGenerateReveal,
                KeygenComplete
  <2>2. signing.phase = "idle"
    BY <2>1
  <2>. QED
    BY ONLY <2>1, <2>2, SigningInv DEF SigningInv
<1>2. CASE SigningInit
  <2>1. PICK m \in Digests, k \in Scalars :
          signing' = [signing EXCEPT !.phase = "started", !.messageHash = m, !.nonceShare = k]
    BY <1>2 DEF SigningInit
  <2>2. m \in Nat /\ k \in Optional
    BY DigestAssumption, TimesOfScalar DEF Optional
  <2>3. /\ signing' \in SigningStates /\ signing'.phase = "started"
        /\ signing'.messageHash = m /\ signing'.nonceShare = k
    BY <2>1, <2>2 DEF SigningStates
  <2>4. keygen.phase = "complete" /\ UNCHANGED <<keygen, backend>>
    BY <1>2 DEF SigningInit
  <2>. QED
    BY ONLY <2>2, <2>3, <2>4, SigningInv DEF SigningInv
<1>3. CASE SigningStoreBackendCommitment
  <2>1. PICK k \in Scalars :
          /\ signing' = [signing EXCEPT !.phase = "committed",
                                        !.peerNonceCommitment = Times(1, k)]
          /\ backend' = [backend EXCEPT !.nonce = k]
    BY <1>3 DEF SigningStoreBackendCommitment
  <2>2. Times(1, k) = k /\ k \in Optional
    BY TimesOfScalar DEF Optional
  <2>3. /\ signing' \in SigningStates /\ signing'.phase = "committed"
        /\ signing'.messageHash = signing.messageHash
        /\ signing'.nonceShare = signing.nonceShare /\ signing'.peerNonceCommitment = k
    BY <2>1, <2>2 DEF SigningStates
  <2>4. /\ backend' \in [nonce : Optional, t1 : Optional, t2 : Optional] /\ backend'.nonce = k
    BY <2>1, <2>2
  <2>5. signing.phase = "started" /\ keygen' = keygen
    BY <1>3 DEF SigningStoreBackendCommitment
  <2>. QED
    BY ONLY <2>3, <2>4, <2>5, SigningInv DEF SigningInv
<1>4. CASE SigningProcessBackendNonce
  <2>1. PICK R \in Scalars :
          signing' = IF VerifyCommitment(signing.peerNonceCommitment, R)
                     THEN [signing EXCEPT !.phase = "nonced",
                              !.rValue = XCoord(Times(R, signing.nonceShare))]
                     ELSE [signing EXCEPT !.phase = "failed"]
    BY <1>4 DEF SigningProcessBackendNonce
  <2>2. signing.phase = "committed" /\ UNCHANGED <<keygen, backend>>
    BY <1>4 DEF SigningProcessBackendNonce
  <2>3. CASE signing.peerNonceCommitment = R
    <3>1. R = backend.nonce
      BY <2>2, <2>3
    <3>2. XCoord(Times(R, signing.nonceShare)) \in Optional
      <4>1. R * signing.nonceShare \in Int
        BY <2>2, TimesOfScalar, Ring
      <4>. QED
        BY <4>1, InField, FieldAssumption DEF Times, Optional
    <3>3. signing' = [signing EXCEPT !.phase = "nonced",
                         !.rValue = XCoord(Times(R, signing.nonceShare))]
      BY <2>1, <2>3 DEF VerifyCommitment
    <3>4. /\ signing' \in SigningStates /\ signing'.phase = "nonced"
          /\ signing'.messageHash = signing.messageHash
          /\ signing'.nonceShare = signing.nonceShare
          /\ signing'.peerNonceCommitment = signing.peerNonceCommitment
          /\ signing'.rValue = XCoord(Times(R, signing.nonceShare))
      BY <3>2, <3>3 DEF SigningStates
    <3>. QED
      BY ONLY <2>2, <3>1, <3>4, SigningInv DEF SigningInv
  <2>4. CASE signing.peerNonceCommitment # R
    <3>1. signing' \in SigningStates /\ signing'.phase = "failed"
      BY <2>1, <2>4 DEF SigningStates, VerifyCommitment
    <3>. QED
      BY ONLY <2>2, <3>1, SigningInv DEF SigningInv
  <2>. QED
    BY <2>3, <2>4
<1>5. CASE ProcessMtARound2Response
  <2>0. /\ signing.phase = "nonced" /\ UNCHANGED <<keygen, peer>>
        /\ keygen.secretShare \in Scalars /\ peer.secret \in Scalars
    BY <1>5 DEF ProcessMtARound2Response, KeygenInv
  <2>p. PICK t1 \in Field, t2 \in Field : \E u1, u2 :
          /\ signing' = [signing EXCEPT !.phase = "multiplied",
                            !.mta1Share = t1, !.mta2Share = t2]
          /\ backend' = [backend EXCEPT !.t1 = u1, !.t2 = u2]
          /\ u1 = Mod(MtaInput1(signing.nonceShare) * ModInverse(backend.nonce) - t1)
          /\ u2 = Mod(MtaInput2(keygen.secretShare, signing.nonceShare)
                       * Mod(peer.secret * ModInverse(backend.nonce)) - t2)
    BY ONLY <1>5 DEF ProcessMtARound2Response
  <2>1. PICK u1, u2 :
          /\ signing' = [signing EXCEPT !.phase = "multiplied",
                            !.mta1Share = t1, !.mta2Share = t2]
          /\ backend' = [backend EXCEPT !.t1 = u1, !.t2 = u2]
          /\ u1 = Mod(MtaInput1(signing.nonceShare) * ModInverse(backend.nonce) - t1)
          /\ u2 = Mod(MtaInput2(keygen.secretShare, signing.nonceShare)
                       * Mod(peer.secret * ModInverse(backend.nonce)) - t2)
    BY ONLY <2>p
  <2>2. u1 \in Optional /\ u2 \in Optional
    <3>1. PICK i \in Int, j \in Int, a \in Int, b \in Int :
            /\ i = ModInverse(signing.nonceShare) /\ j = ModInverse(backend.nonce)
            /\ a = keygen.secretShare /\ b = peer.secret
      BY <2>0, InverseOf, TimesOfScalar
    <3>2. PICK v \in Int, w \in Int : v = Mod(a * i) /\ w = Mod(b * j)
      BY InField, Ring
    <3>3. i * j - t1 \in Int /\ v * w - t2 \in Int
      BY OrderIsPositive DEF Field
    <3>. QED
      BY <2>1, <3>1, <3>2, <3>3, InField DEF MtaInput1, MtaInput2, Optional
  <2>3. /\ signing' \in SigningStates /\ signing'.phase = "multiplied"
        /\ signing'.messageHash = signing.messageHash
        /\ signing'.nonceShare = signing.nonceShare
        /\ signing'.peerNonceCommitment = signing.peerNonceCommitment
        /\ signing'.rValue = signing.rValue
        /\ signing'.mta1Share = t1 /\ signing'.mta2Share = t2
    BY <2>1 DEF SigningStates, Optional
  <2>4. /\ backend' \in [nonce : Optional, t1 : Optional, t2 : Optional]
        /\ backend'.nonce = backend.nonce /\ backend'.t1 = u1 /\ backend'.t2 = u2
    BY <2>1, <2>2
  <2>. QED
    BY ONLY <2>0, <2>1, <2>3, <2>4, SigningInv DEF SigningInv
<1>6. CASE ComputeClientPartialSignature
  <2>1. /\ signing.phase = "multiplied" /\ UNCHANGED <<keygen, peer, backend>>
    BY <1>6 DEF ComputeClientPartialSignature
  <2>2. CASE signing.rValue = 0
    <3>1. signing' \in SigningStates /\ signing'.phase = "failed"
      BY <1>6, <2>2 DEF ComputeClientPartialSignature, SigningStates
    <3>. QED
      BY ONLY <2>1, <3>1, SigningInv DEF SigningInv
  <2>3. CASE signing.rValue # 0
    <3>1. /\ signing' = [signing EXCEPT !.phase = "done"]
          /\ partial' = PartialS(signing.messageHash, signing.rValue,
                                 signing.mta1Share, signing.mta2Share)
      BY <1>6, <2>3 DEF ComputeClientPartialSignature
    <3>2. /\ signing' \in SigningStates /\ signing'.phase = "done"
          /\ signing'.messageHash = signing.messageHash
          /\ signing'.nonceShare = signing.nonceShare
          /\ signing'.peerNonceCommitment = signing.peerNonceCommitment
          /\ signing'.rValue = signing.rValue
          /\ signing'.mta1Share = signing.mta1Share /\ signing'.mta2Share = signing.mta2Share
      BY <3>1 DEF SigningStates
    <3>. QED
      BY ONLY <2>1, <3>1, <3>2, SigningInv DEF SigningInv
  <2>. QED
    BY <2>2, <2>3
<1>7. CASE UNCHANGED dklsVars
  BY <1>7 DEF dklsVars
<1>. QED
  BY <1>1, <1>2, <1>3, <1>4, <1>5, <1>6, <1>7 DEF DklsNext

LEMMA SignatureIsRight == KeygenInv /\ SigningInv => SignatureVerifies
<1> SUFFICES ASSUME KeygenInv, SigningInv, signing.phase = "done"
             PROVE  LET k == signing.nonceShare * backend.nonce
                        r == signing.rValue
                        s == Plus(partial, PartialS(signing.messageHash, r, backend.t1, backend.t2))
                    IN  /\ r = XCoord(Mod(k))
                        /\ Times(s, k) = Mod(signing.messageHash + r * keygen.jointPublicKey)
  BY DEF SignatureVerifies
<1>1. PICK a \in Int, b \in Int, k \in Scalars, l \in Scalars, m \in Int, r \in Int,
           t \in Int, u \in Int :
        /\ a = keygen.secretShare /\ b = peer.secret
        /\ k = signing.nonceShare /\ l = backend.nonce
        /\ m = signing.messageHash /\ r = signing.rValue
        /\ t = signing.mta1Share /\ u = signing.mta2Share
  <2>1. /\ keygen.secretShare \in Scalars /\ peer.secret \in Scalars
        /\ signing.nonceShare \in Scalars /\ backend.nonce \in Scalars
        /\ signing.messageHash \in Int
        /\ signing.mta1Share \in Int /\ signing.mta2Share \in Int
    BY OrderIsPositive DEF KeygenInv, SigningInv, Field
  <2>2. signing.rValue \in Int
    <3>1. backend.nonce * signing.nonceShare \in Int
      BY <2>1, TimesOfScalar, Ring
    <3>2. XCoord(Times(backend.nonce, signing.nonceShare)) \in Field
      BY <3>1, InField, FieldAssumption DEF Times
    <3>. QED
      BY <3>2, OrderIsPositive DEF SigningInv, Field
  <2>. QED
    BY <2>1, <2>2, TimesOfScalar
<1>2. PICK i \in Int, j \in Int :
        /\ i = ModInverse(k) /\ j = ModInverse(l)
        /\ Mod(k * i) = Mod(1) /\ Mod(l * j) = Mod(1)
  BY InverseOf
<1>3. k \in Int /\ l \in Int /\ k * l \in Int /\ k * l = l * k
  BY TimesOfScalar, Ring
<1>4. r = XCoord(Mod(k * l))
  BY <1>1, <1>3 DEF SigningInv, Times
<1>5. PICK x \in Int, y \in Int : x = i * j /\ y = Mod(a * i) * Mod(b * j)
  <2>1. PICK v \in Int, w \in Int : v = Mod(a * i) /\ w = Mod(b * j)
    BY InField, Ring
  <2>. QED
    BY <2>1, Ring
<1>6. /\ backend.t1 = Mod(x - t) /\ backend.t2 = Mod(y - u)
      /\ partial = PartialS(m, r, t, u)
  BY <1>1, <1>2, <1>5 DEF SigningInv, MtaInput1, MtaInput2
<1>7. Times(Plus(partial, PartialS(m, r, backend.t1, backend.t2)), k * l)
        = Mod(m * (x * (k * l)) + r * (y * (k * l)))
  <2>1. PICK n \in Int : n = k * l
    BY <1>3
  <2>2. Times(Plus(PartialS(m, r, t, u), PartialS(m, r, Minus(x, t), Minus(y, u))), n)
          = Mod(m * (x * n) + r * (y * n))
    <3>0. PICK v \in Int, w \in Int : v = Mod(x - t) /\ w = Mod(y - u)
      BY InField
    <3>1. Mod(v) = Mod(x - t) /\ Mod(w) = Mod(y - u)
      BY <3>0, ModTwice
    <3>2. /\ m * t \in Int /\ r * u \in Int /\ m * v \in Int /\ r * w \in Int
          /\ m * (x - t) \in Int /\ r * (y - u) \in Int
          /\ m * (x - t) = m * x - m * t /\ r * (y - u) = r * y - r * u
          /\ m * x \in Int /\ r * y \in Int
      BY <3>1, Ring
    <3>3. Mod(m * v) = Mod(m * (x - t)) /\ Mod(r * w) = Mod(r * (y - u))
      <4>1. x - t \in Int /\ y - u \in Int
        OBVIOUS
      <4>2. PICK d \in Int, e \in Int : d = x - t /\ e = y - u
        BY <4>1
      <4>3. Mod(v) = Mod(d) /\ Mod(w) = Mod(e)
        BY <3>1, <4>2
      <4>4. Mod(m * v) = Mod(m * d)
        <5>1. Mod(m * Mod(v)) = Mod(v * m) /\ Mod(m * Mod(d)) = Mod(d * m)
          BY ReduceFactor
        <5>2. v * m = m * v /\ d * m = m * d
          BY Ring
        <5>. QED
          BY <4>3, <5>1, <5>2
      <4>5. Mod(r * w) = Mod(r * e)
        <5>1. Mod(r * Mod(w)) = Mod(w * r) /\ Mod(r * Mod(e)) = Mod(e * r)
          BY ReduceFactor
        <5>2. w * r = r * w /\ e * r = r * e
          BY Ring
        <5>. QED
          BY <4>3, <5>1, <5>2
      <4>. QED
        BY <4>2, <4>4, <4>5
    <3>4. Mod(m * v + r * w) = Mod(m * (x - t) + r * (y - u))
      BY <3>2, <3>3, CongruentSum
    <3>5. Mod(Mod(m * t + r * u) + Mod(m * v + r * w))
            = Mod((m * t + r * u) + (m * (x - t) + r * (y - u)))
      <4>1. /\ m * t + r * u \in Int /\ m * v + r * w \in Int
            /\ m * (x - t) + r * (y - u) \in Int
        BY <3>2
      <4>2. PICK c \in Int, d \in Int : c = Mod(m * t + r * u) /\ d = Mod(m * v + r * w)
        BY <4>1, InField
      <4>3. Mod(c) = Mod(m * t + r * u) /\ Mod(d) = Mod(m * (x - t) + r * (y - u))
        BY <3>4, <4>1, <4>2, ModTwice
      <4>4. Mod(c + d) = Mod((m * t + r * u) + (m * (x - t) + r * (y - u)))
        BY <4>1, <4>3, CongruentSum
      <4>. QED
        BY <4>2, <4>4
    <3>6. (m * t + r * u) + (m * (x - t) + r * (y - u)) = m * x + r * y
      BY <3>2
    <3>7. Mod(Mod(m * x + r * y) * n) = Mod((m * x + r * y) * n)
      <4>1. m * x + r * y \in Int
        BY <3>2
      <4>. QED
        BY <4>1, ReduceFactor
    <3>8. (m * x + r * y) * n = m * (x * n) + r * (y * n)
      <4>1. /\ (m * x + r * y) * n = n * (m * x + r * y)
            /\ n * (m * x + r * y) = n * (m * x) + n * (r * y)
            /\ n * (m * x) = (m * x) * n /\ n * (r * y) = (r * y) * n
            /\ (m * x) * n = m * (x * n) /\ (r * y) * n = r * (y * n)
        <5>1. m * x + r * y \in Int
          BY <3>2
        <5>. QED
          BY <3>2, <5>1, Ring
      <4>. QED
        BY ONLY <4>1
    <3>. QED
      BY <3>0, <3>5, <3>6, <3>7, <3>8 DEF Times, Plus, Minus, PartialS
  <2>3. Minus(x, t) = Mod(x - t) /\ Minus(y, u) = Mod(y - u)
    BY DEF Minus
  <2>. QED
    BY <1>6, <2>1, <2>2, <2>3
<1>8. Mod(x * (k * l)) = Mod(1) /\ Mod(y * (k * l)) = Mod(a * b)
  <2>1. PICK kk \in Int, ll \in Int : kk = k /\ ll = l
    BY <1>3
  <2>2. Times(kk, i) = Mod(1) /\ Times(ll, j) = Mod(1)
    BY <1>2, <2>1 DEF Times
  <2>3. Times(i * j, kk * ll) = Mod(1) /\ Times(Times(a, i) * Times(b, j), kk * ll) = Times(a, b)
    BY <2>2, NonceCancels
  <2>. QED
    BY <1>5, <2>1, <2>3 DEF Times
<1>9. Mod(m * (x * (k * l)) + r * (y * (k * l))) = Mod(m + r * (a * b))
  <2>1. PICK p \in Int, q \in Int : p = x * (k * l) /\ q = y * (k * l)
    BY <1>3, Ring
  <2>2. /\ Mod(m * Mod(p)) = Mod(p * m) /\ Mod(m * Mod(1)) = Mod(1 * m)
        /\ Mod(r * Mod(q)) = Mod(q * r) /\ Mod(r * Mod(a * b)) = Mod((a * b) * r)
    BY Ring, ReduceFactor
  <2>3. /\ p * m = m * p /\ 1 * m = m /\ q * r = r * q /\ (a * b) * r = r * (a * b)
        /\ m * p \in Int /\ r * q \in Int /\ r * (a * b) \in Int
    BY Ring
  <2>4. Mod(m * p) = Mod(m) /\ Mod(r * q) = Mod(r * (a * b))
    BY <1>8, <2>1, <2>2, <2>3
  <2>5. Mod(m * p + r * q) = Mod(m + r * (a * b))
    BY <2>3, <2>4, CongruentSum
  <2>. QED
    BY <2>1, <2>5
<1>10. Mod(m + r * keygen.jointPublicKey) = Mod(m + r * (a * b))
  <2>1. keygen.jointPublicKey = Mod(a * b)
    BY <1>1 DEF KeygenInv, SigningInv, Times
  <2>2. PICK g \in Int : g = Mod(a * b)
    BY InField, Ring
  <2>3. Mod(r * g) = Mod(r * (a * b))
    <3>1. Mod(r * g) = Mod((a * b) * r) /\ (a * b) * r = r * (a * b)
      BY <2>2, Ring, ReduceFactor
    <3>. QED
      BY <3>1
  <2>4. r * g \in Int /\ r * (a * b) \in Int
    BY Ring
  <2>5. Mod(m + r * g) = Mod(m + r * (a * b))
    <3>1. /\ Mod(m + Mod(r * g)) = Mod(r * g + m)
          /\ Mod(m + Mod(r * (a * b))) = Mod(r * (a * b) + m)
      BY <2>4, ReduceTerm
    <3>2. r * g + m = m + r * g /\ r * (a * b) + m = m + r * (a * b)
      BY <2>4
    <3>. QED
      BY <2>3, <3>1, <3>2
  <2>. QED
    BY <2>1, <2>2, <2>5
<1>. QED
  BY <1>1, <1>4, <1>7, <1>9, <1>10

\* The partials of both parties add up to an ECDSA signature under the joint key, for
\* every order, digest, nonce and share (crypto.ts:420).
THEOREM PartialsMakeASignature == DklsSpec => []SignatureVerifies
  BY KeygenInitial, KeygenStep, SigningInitial, SigningStep, SignatureIsRight, PTL DEF DklsSpec

-----------------------------------------------------------------------------
(* PedersenWallet: Lagrange coefficients and shares.                        *)

\* A factor that is not 0 can be cancelled.
LEMMA Cancel ==
    ASSUME NEW a \in Int, Mod(a) # 0, NEW x \in Int, NEW y \in Int, Mod(a * x) = Mod(a * y)
    PROVE  Mod(x) = Mod(y)
<1>1. PICK z \in Int, p \in Int, q \in Int, t \in Int :
        z = x - y /\ p = a * x /\ q = a * y /\ t = a * z
  BY Ring
<1>2. t = p - q
  BY <1>1, Ring
<1>3. Mod(t) = 0
  <2>1. p - t = q
    BY <1>2
  <2>. QED
    BY <1>1, <2>1, SameRemainder
<1>4. PICK u \in Scalars, v \in Field : u = Mod(a) /\ v = Mod(z)
  BY InField, OrderIsPositive DEF Field, Scalars
<1>5. Mod(u * v) = 0
  <2>1. u \in Int /\ v \in Int /\ Mod(u) = Mod(a) /\ Mod(v) = Mod(z)
    BY <1>1, <1>4, InField, ModTwice
  <2>. QED
    BY <1>1, <1>3, <2>1, CongruentProduct
<1>6. v = 0
  BY <1>5, NoZeroDivisors, OrderIsPositive DEF Field, Scalars
<1>7. PICK l \in Int : z = Q * l + 0
  BY <1>1, <1>4, <1>6, Quotient
<1>8. x = Q * l + y
  <2>1. PICK m \in Int : m = Q * l
    BY OrderIsPositive, Ring
  <2>. QED
    BY <1>1, <1>7, <2>1
<1>. QED
  BY <1>8, DropMultiple

\* Two parties differ, and so do their numbers modulo Q.
LEMMA PartiesDiffer ==
    ASSUME NEW i \in Field, NEW j \in Field, i # j
    PROVE  i - j \in Int /\ Mod(i - j) # 0 /\ Mod(i - j) \in Scalars
<1>1. PICK d \in Int : d = i - j
  BY OrderIsPositive DEF Field
<1>2. CASE d > 0
  <2>1. d \in Field /\ d # 0
    BY <1>1, <1>2, OrderIsPositive DEF Field
  <2>. QED
    BY <1>1, <2>1, ModOfField DEF Field, Scalars
<1>3. CASE d < 0
  <2>1. Q + d \in Field /\ Q + d # 0
    BY <1>1, <1>3, OrderIsPositive DEF Field
  <2>2. Q * (-1) = -Q
    BY OrderIsPositive
  <2>3. d = Q * (-1) + (Q + d)
    BY <1>1, <2>2, OrderIsPositive
  <2>4. Mod(d) = Q + d
    BY <2>1, <2>3, Remainder
  <2>. QED
    BY <1>1, <2>1, <2>4 DEF Field, Scalars
<1>. QED
  BY <1>1, <1>2, <1>3 DEF Field

\* A numerator times the inverse of a denominator is their quotient.
LEMMA Fraction ==
    ASSUME NEW n \in Int, NEW c \in Int, Mod(c) \in Scalars
    PROVE  LET l == Mod(Mod(n) * ModInverse(Mod(c))) IN l \in Int /\ Mod(l * c) = Mod(n)
<1>1. PICK d \in Int, w \in Int, m \in Int :
        d = Mod(c) /\ w = ModInverse(Mod(c)) /\ m = Mod(n) /\ Mod(d * w) = 1
  <2>1. ModInverse(Mod(c)) \in Scalars /\ Mod(Mod(c) * ModInverse(Mod(c))) = 1
    BY InverseIsInverse
  <2>. QED
    BY <2>1, InField, OrderIsPositive DEF Scalars
<1>2. PICK mw \in Int, cw \in Int, dw \in Int : mw = m * w /\ cw = c * w /\ dw = d * w
  BY Ring
<1>3. PICK l \in Int : l = Mod(mw)
  BY InField
<1>4. Mod(l * c) = Mod(mw * c)
  BY <1>3, ReduceFactor
<1>5. mw * c = m * cw
  <2>1. m * (w * c) = (m * w) * c /\ w * c = c * w
    BY Ring
  <2>. QED
    BY <1>2, <2>1
<1>6. Mod(cw) = Mod(1)
  <2>1. Mod(cw) = Mod(dw)
    BY <1>1, <1>2, ReduceFactor
  <2>2. 1 \in Field
    BY OrderIsPositive DEF Field
  <2>. QED
    BY <1>1, <1>2, <2>1, <2>2, ModOfField
<1>7. Mod(m * cw) = Mod(n)
  <2>1. Mod(m) = Mod(n)
    BY <1>1, ModTwice
  <2>2. Mod(m * cw) = Mod(n * 1)
    BY <1>6, <2>1, CongruentProduct
  <2>. QED
    BY <2>2
<1>. QED
  BY <1>1, <1>2, <1>3, <1>4, <1>5, <1>7

LEMMA LagrangeIsInt ==
    ASSUME NEW i \in PartyIds, NEW p \in PartyIds
    PROVE  Lagrange(i, <<1, p>>) \in Int
<1>1. i \in Field /\ p \in Field /\ 1 \in Field
  BY PedersenAssumption, OrderIsPositive DEF Field
<1>2. ASSUME NEW j \in Field
      PROVE  /\ Factor(i, j, Q - j) \in Int
             /\ Factor(i, j, i - j) \in Int /\ Mod(Factor(i, j, i - j)) \in Scalars
  <2>1. CASE i = j
    <3>1. 1 \in Scalars /\ Mod(1) = 1
      BY <1>1, OrderIsPositive, ModOfField DEF Scalars
    <3>. QED
      BY <2>1, <3>1 DEF Factor
  <2>2. CASE i # j
    BY <1>1, <2>2, PartiesDiffer, OrderIsPositive DEF Factor, Field
  <2>. QED
    BY <2>1, <2>2
<1>3. PICK a \in Int, b \in Int, c \in Int, d \in Int :
        /\ a = Factor(i, 1, Q - 1) /\ b = Factor(i, p, Q - p)
        /\ c = Factor(i, 1, i - 1) /\ d = Factor(i, p, i - p)
        /\ Mod(c) \in Scalars /\ Mod(d) \in Scalars
  BY <1>1, <1>2
<1>4. PICK ab \in Int, cd \in Int : ab = a * b /\ cd = c * d
  BY Ring
<1>5. Mod(cd) \in Scalars
  <2>1. PICK u \in Scalars, v \in Scalars : u = Mod(c) /\ v = Mod(d)
    BY <1>3
  <2>2. u \in Int /\ v \in Int /\ Mod(u) = Mod(c) /\ Mod(v) = Mod(d)
    BY <2>1, InField, ModTwice
  <2>3. Mod(cd) = Mod(u * v)
    BY <1>4, <2>2, CongruentProduct
  <2>. QED
    BY <2>3, NoZeroDivisors, InField, OrderIsPositive DEF Field, Scalars
<1>6. Mod(Mod(ab) * ModInverse(Mod(cd))) \in Int
  BY <1>5, Fraction
<1>. QED
  BY <1>3, <1>4, <1>6 DEF Lagrange

\* The coefficients of the client and of party p, times p - 1: the client's is p and
\* the other one's is -1.
LEMMA LagrangeOfTwo ==
    ASSUME NEW p \in Field, p # 1
    PROVE  /\ Lagrange(1, <<1, p>>) \in Int /\ Mod(Lagrange(1, <<1, p>>) * (p - 1)) = Mod(p)
           /\ Lagrange(p, <<1, p>>) \in Int /\ Mod(Lagrange(p, <<1, p>>) * (p - 1)) = Mod(-1)
<1>1. p \in Int /\ 1 \in Field
  BY OrderIsPositive DEF Field
<1>2. Mod(1 - p) \in Scalars /\ Mod(p - 1) \in Scalars
  BY <1>1, PartiesDiffer
<1>3. PICK c \in Int, e \in Int, n \in Int : c = 1 - p /\ e = p - 1 /\ n = Q - p
  BY <1>1, OrderIsPositive
<1>4. PICK l \in Int : l = Lagrange(1, <<1, p>>) /\ Mod(l * c) = Mod(n)
  <2>1. Lagrange(1, <<1, p>>) = Mod(Mod(1 * n) * ModInverse(Mod(1 * c)))
    BY <1>3 DEF Lagrange, Factor
  <2>2. 1 * n = n /\ 1 * c = c
    BY <1>3
  <2>. QED
    BY <1>2, <1>3, <2>1, <2>2, Fraction
<1>5. PICK k \in Int : k = Lagrange(p, <<1, p>>) /\ Mod(k * e) = Mod(Q - 1)
  <2>1. Lagrange(p, <<1, p>>) = Mod(Mod((Q - 1) * 1) * ModInverse(Mod(e * 1)))
    BY <1>3 DEF Lagrange, Factor
  <2>2. (Q - 1) * 1 = Q - 1 /\ e * 1 = e /\ Q - 1 \in Int
    BY <1>3, OrderIsPositive
  <2>. QED
    BY <1>2, <1>3, <2>1, <2>2, Fraction
<1>6. \A x \in Int : Mod(Q - x) = Mod(-x)
  <2>1. ASSUME NEW x \in Int PROVE Mod(Q - x) = Mod(-x)
    <3>1. PICK y \in Int : y = -x
      OBVIOUS
    <3>2. Q - x = Q * 1 + y
      BY <3>1, OrderIsPositive
    <3>. QED
      BY <3>1, <3>2, DropMultiple
  <2>. QED
    BY <2>1
<1>7. Mod(l * e) = Mod(p)
  <2>1. PICK lc \in Int, le \in Int, m \in Int : lc = l * c /\ le = l * e /\ m = -p
    BY <1>1, Ring
  <2>2. Mod(lc) = Mod(m)
    BY <1>1, <1>3, <1>4, <1>6, <2>1
  <2>3. Mod(lc * (-1)) = Mod(m * (-1))
    <3>1. PICK z \in Int : z = -1
      OBVIOUS
    <3>2. Mod(Mod(lc) * z) = Mod(lc * z) /\ Mod(Mod(m) * z) = Mod(m * z)
      BY ReduceFactor
    <3>. QED
      BY <2>2, <3>1, <3>2
  <2>4. lc * (-1) = -lc /\ m * (-1) = p
    BY <1>1, <2>1
  <2>5. le = -lc
    <3>1. l * (0 - c) = l * 0 - l * c
      BY Ring
    <3>2. 0 - c = e
      BY <1>1, <1>3
    <3>3. l * 0 = 0
      OBVIOUS
    <3>4. le = 0 - lc
      BY ONLY <2>1, <3>1, <3>2, <3>3
    <3>. QED
      BY <2>1, <3>4
  <2>. QED
    BY <2>1, <2>3, <2>4, <2>5
<1>. QED
  BY <1>3, <1>4, <1>5, <1>6, <1>7

\* A sum over the client and one other party, or over the client alone.
LEMMA SumOfTwo ==
    ASSUME NEW p, NEW t \in [{1, p} -> Int]
    PROVE  /\ p = 1 => SumOf(t) = Mod(t[1])
           /\ p # 1 => SumOf(t) = Mod(t[1] + t[p])
           /\ SumOf(t) \in Field /\ SumOf(t) \in Int
<1> DEFINE S == {1, p}
           Body(g) == [s \in SUBSET S |->
                         IF s = {} THEN 0
                         ELSE LET x == CHOOSE x \in s : TRUE IN t[x] + g[s \ {x}]]
<1>1. SumOf(t) = Mod((CHOOSE g : g = Body(g))[S])
  <2>1. DOMAIN t = S
    OBVIOUS
  <2>. QED
    BY <2>1 DEF SumOf, MapThenSumSet, MapThenFoldSet
<1>2. \A g : Sums(g, t, S) <=> g = Body(g)
  BY DEF Sums, SumStep
<1> HIDE DEF Body
<1>3. IsFiniteSet(S) /\ t \in Terms(S)
  <2>1. IsFiniteSet({1}) /\ S = {1} \cup {p}
    BY FS_Singleton
  <2>2. IsFiniteSet(S)
    BY <2>1, FS_AddElement
  <2>. QED
    BY <2>2 DEF Terms
<1>4. PICK h : h = (CHOOSE g : g = Body(g)) /\ Sums(h, t, S)
  <2>1. \E g : g = Body(g)
    BY <1>2, <1>3, SumsExist
  <2>. QED
    BY <1>2, <2>1
<1>5. h[{}] = 0
  BY <1>4 DEF Sums, SumStep
<1>6. PICK one : one = {1} /\ one \in SUBSET S /\ 1 \in one /\ one \ {1} = {}
  <2>1. {1} \in SUBSET S /\ 1 \in {1} /\ {1} \ {1} = {}
    OBVIOUS
  <2>. QED
    BY <2>1
<1>7. PICK a \in Int, b \in Int : a = t[1] /\ b = t[p]
  OBVIOUS
<1>8. h[one] = a
  <2>1. h[one] = t[1] + h[one \ {1}]
    BY <1>3, <1>4, <1>6, TakeOut
  <2>2. h[one] = a + 0
    BY <1>5, <1>6, <1>7, <2>1
  <2>. QED
    BY <2>2
<1>9. CASE p = 1
  <2>1. h[S] = a
    BY <1>6, <1>8, <1>9
  <2>. QED
    BY <1>1, <1>4, <1>7, <1>9, <2>1, InField
<1>10. CASE p # 1
  <2>1. PICK both : both = S /\ both \in SUBSET S /\ p \in both /\ both \ {p} = one
    <3>1. S \in SUBSET S /\ p \in S /\ S \ {p} = {1}
      BY <1>10
    <3>. QED
      BY <1>6, <3>1
  <2>2. h[both] = t[p] + h[both \ {p}]
    BY <1>3, <1>4, <2>1, TakeOut
  <2>3. h[S] = b + a
    BY <1>7, <1>8, <2>1, <2>2
  <2>4. b + a = a + b /\ a + b \in Int
    OBVIOUS
  <2>. QED
    BY <1>1, <1>4, <1>7, <1>10, <2>3, <2>4, InField
<1>. QED
  BY <1>9, <1>10

\* The shares of both parties on the line f(0) = s, f(1) = s + t, f(p) = s + t * p,
\* weighted, are the value at 0.
LEMMA Interpolation ==
    ASSUME NEW p \in Field, p # 1, NEW s \in Int, NEW t \in Int, NEW x \in Int, NEW y \in Int,
           Mod(x) = Mod(s + t), Mod(y) = Mod(s + t * p)
    PROVE  Mod(Lagrange(1, <<1, p>>) * x + Lagrange(p, <<1, p>>) * y) = Mod(s)
<1>1. PICK k \in Int, l \in Int, e \in Int :
        /\ k = Lagrange(1, <<1, p>>) /\ l = Lagrange(p, <<1, p>>) /\ e = p - 1
        /\ Mod(k * e) = Mod(p) /\ Mod(l * e) = Mod(-1)
  BY LagrangeOfTwo, OrderIsPositive DEF Field
<1>2. p \in Int
  BY OrderIsPositive DEF Field
<1>3. PICK kx \in Int, ly \in Int, tp \in Int, sp \in Int, ke \in Int, le \in Int :
        kx = k * x /\ ly = l * y /\ tp = t * p /\ sp = s * p /\ ke = k * e /\ le = l * e
  BY <1>2, Ring
<1>4. PICK u \in Int, v \in Int : u = s + t /\ v = s + tp
  OBVIOUS
<1>5. e * (kx + ly) = ke * x + le * y
  <2>1. e * (kx + ly) = e * kx + e * ly
    BY Ring
  <2>2. e * (k * x) = (e * k) * x /\ e * k = k * e
    BY Ring
  <2>3. e * (l * y) = (e * l) * y /\ e * l = l * e
    BY Ring
  <2>. QED
    BY <1>3, <2>1, <2>2, <2>3
<1>6. PICK kex \in Int, ley \in Int : kex = ke * x /\ ley = le * y
  BY Ring
<1>7. Mod(kex) = Mod(p * u)
  BY <1>1, <1>2, <1>3, <1>4, <1>6, CongruentProduct
<1>8. Mod(ley) = Mod((-1) * v)
  BY <1>1, <1>3, <1>4, <1>6, CongruentProduct
<1>9. PICK pu \in Int, nv \in Int : pu = p * u /\ nv = (-1) * v
  BY <1>2, <1>4, Ring
<1>10. pu + nv = e * s
  <2>1. p * (s + t) = p * s + p * t /\ p * s = s * p /\ p * t = t * p
    BY <1>2, Ring
  <2>2. pu = sp + tp
    BY <1>3, <1>4, <1>9, <2>1
  <2>3. nv = -v
    BY <1>4, <1>9
  <2>4. s * (p - 1) = s * p - s * 1 /\ s * 1 = s
    BY <1>2, Ring
  <2>5. s * e = e * s
    BY Ring
  <2>6. s * e = sp - s
    BY <1>1, <1>3, <2>4
  <2>. QED
    BY <1>4, <2>2, <2>3, <2>5, <2>6
<1>11. Mod(kex + ley) = Mod(pu + nv)
  BY <1>6, <1>7, <1>8, <1>9, CongruentSum
<1>12. PICK z \in Int : z = kx + ly
  OBVIOUS
<1>13. Mod(e * z) = Mod(e * s)
  BY <1>5, <1>6, <1>10, <1>11, <1>12
<1>14. Mod(e) # 0
  <2>1. 1 \in Field
    BY OrderIsPositive DEF Field
  <2>. QED
    BY <1>1, <2>1, PartiesDiffer
<1>. QED
  BY <1>1, <1>3, <1>12, <1>13, <1>14, Cancel

\* The equation the client checks has one solution.
LEMMA OneSigma ==
    ASSUME NEW k \in Scalars, NEW sigma \in Field, NEW m \in Int, NEW r \in Int, NEW s \in Int,
           NEW l \in Int, Times(k, sigma) = Plus(m, Times(s, Times(r, l)))
    PROVE  sigma = Mod(ModInverse(k) * (m + r * Times(s, l)))
<1>1. PICK i \in Int : i = ModInverse(k) /\ Mod(k * i) = 1
  BY InverseIsInverse, OrderIsPositive DEF Scalars
<1>2. k \in Int /\ sigma \in Int
  BY OrderIsPositive DEF Scalars, Field
<1>3. PICK rl \in Int, sl \in Int, ks \in Int, ki \in Int :
        rl = r * l /\ sl = s * l /\ ks = k * sigma /\ ki = k * i
  BY <1>2, Ring
<1>4. PICK u \in Int, v \in Int : u = Mod(rl) /\ v = Mod(sl)
  BY InField
<1>5. PICK su \in Int, rv \in Int, srl \in Int : su = s * u /\ rv = r * v /\ srl = s * rl
  BY Ring
<1>6. Mod(su) = Mod(srl)
  <2>1. Mod(s * u) = Mod(rl * s) /\ rl * s = s * rl
    BY <1>4, ReduceFactor, Ring
  <2>. QED
    BY <1>5, <2>1
<1>7. Mod(rv) = Mod(srl)
  <2>1. Mod(r * v) = Mod(sl * r) /\ sl * r = r * sl
    BY <1>4, ReduceFactor, Ring
  <2>2. r * (s * l) = (r * s) * l /\ r * s = s * r /\ (s * r) * l = s * (r * l)
    BY Ring
  <2>3. r * sl = srl
    BY <1>3, <1>5, <2>2
  <2>. QED
    BY <1>5, <2>1, <2>3
<1>8. Mod(ks) = Mod(m + rv)
  <2>1. PICK t \in Int : t = Mod(su)
    BY InField
  <2>2. Mod(ks) = Mod(m + t)
    BY <1>3, <1>4, <1>5, <2>1 DEF Times, Plus
  <2>3. Mod(m + t) = Mod(rv + m) /\ rv + m = m + rv
    BY <1>6, <1>7, <2>1, ReduceTerm
  <2>. QED
    BY <2>2, <2>3
<1>9. PICK x \in Int : x = m + rv
  OBVIOUS
<1>10. Mod(i * x) = Mod(i * ks)
  <2>1. PICK t \in Int : t = Mod(ks)
    BY InField
  <2>2. Mod(i * t) = Mod(ks * i) /\ ks * i = i * ks
    BY <2>1, ReduceFactor, Ring
  <2>3. Mod(i * t) = Mod(x * i) /\ x * i = i * x
    BY <1>8, <1>9, <2>1, ReduceFactor, Ring
  <2>. QED
    BY <2>2, <2>3
<1>11. Mod(i * ks) = sigma
  <2>1. i * (k * sigma) = (i * k) * sigma /\ i * k = k * i
    BY <1>2, Ring
  <2>2. i * ks = ki * sigma
    BY <1>3, <2>1
  <2>3. Mod(Mod(ki) * sigma) = Mod(ki * sigma)
    BY <1>2, ReduceFactor
  <2>4. Mod(ki) = 1 /\ 1 * sigma = sigma
    BY <1>1, <1>2, <1>3
  <2>5. Mod(sigma) = sigma
    BY ModOfField
  <2>. QED
    BY <2>2, <2>3, <2>4, <2>5
<1>12. m + r * Mod(s * l) = x
  BY <1>3, <1>4, <1>5, <1>9
<1>. QED
  BY <1>1, <1>10, <1>11, <1>12 DEF Times

-----------------------------------------------------------------------------
(* PedersenWallet: the invariants.                                          *)

\* The key generation keeps the polynomials it began with, the share it accepted is
\* the committed polynomial's, and a failure has a cause.
DkgInv ==
    /\ PedTypeOK
    /\ dkg.phase # "idle" => theirs.polynomial \in TheirPolynomials /\ theirs.party \in PartyIds
    /\ dkg.phase \in {"initiated", "shared", "complete"} =>
          dkg.polynomial \in Polynomials /\ dkg.ephemeral \in Nonces
    /\ dkg.phase \in {"shared", "complete"} =>
          dkg.received = [i \in {1, theirs.party} |-> EvaluatePolynomial(Commitments[i], 1)]
    /\ dkg.phase = "complete" =>
          /\ dkg.publicKey = CombineVSSSCommitments(Commitments)
          /\ dkg.privateShare = AggregateShares(dkg.received)
    /\ dkg.phase = "failed" /\ theirs.party # 1 =>
          ~theirs.honest \/ ~Encodes(CombineVSSSCommitments(Commitments))

\* A signature is made with the finished key, and an accepted partial solves the
\* equation of the client's check.
PedSigningInv ==
    /\ sign.phase # "idle" => dkg.phase = "complete" /\ KeyShare \in Field
    /\ sign.phase \in {"nonced", "accepted", "done"} =>
          /\ sign.k \in Nonces /\ sign.E \in Nonces /\ sign.messageHash \in Hashes
          /\ sign.r \in Field /\ sign.party \in PartyIds
    /\ AcceptedPartialIsRight

LEMMA CoefficientsAreScalars ==
    ASSUME NEW f \in TheirPolynomials
    PROVE  /\ f[0] \in Coefficients /\ f[0] \in Scalars /\ f[0] \in Int /\ Coefficient(f, 0) = f[0]
           /\ \A i \in Nat : Coefficient(f, i) \in Field /\ Coefficient(f, i) \in Int
<1>1. PICK d \in 0 .. 2 : f \in [0 .. d -> Coefficients]
  BY DEF TheirPolynomials, TheirDegrees
<1>2. 0 \in DOMAIN f
  BY <1>1
<1>3. ASSUME NEW i \in DOMAIN f
      PROVE  f[i] \in Coefficients /\ f[i] \in Scalars /\ f[i] \in Field /\ f[i] \in Int
  <2>1. f[i] \in Coefficients
    BY <1>1
  <2>2. f[i] \in Scalars
    BY <2>1, PedersenAssumption
  <2>. QED
    BY <2>1, <2>2, OrderIsPositive DEF Scalars, Field
<1>4. 0 \in Field
  BY OrderIsPositive DEF Field
<1>5. ASSUME NEW i \in Nat PROVE Coefficient(f, i) \in Field /\ Coefficient(f, i) \in Int
  BY <1>3, <1>4 DEF Coefficient
<1>. QED
  BY <1>2, <1>3, <1>5 DEF Coefficient

LEMMA OwnPolynomials == ASSUME NEW f \in Polynomials PROVE f \in TheirPolynomials /\ 2 \notin DOMAIN f
  BY DEF Polynomials, TheirPolynomials, TheirDegrees

LEMMA Evaluated ==
    ASSUME NEW f \in TheirPolynomials, NEW x \in Int
    PROVE  /\ EvaluatePolynomial(f, x) \in Field /\ EvaluatePolynomial(f, x) \in Int
           /\ EvaluatePolynomial(f, 1) = Mod(f[0] + Coefficient(f, 1) + Coefficient(f, 2))
           /\ 2 \notin DOMAIN f =>
                 EvaluatePolynomial(f, x) = Mod(f[0] + Coefficient(f, 1) * x)
<1>1. PICK a \in Int, b \in Int, c \in Int :
        a = Coefficient(f, 0) /\ b = Coefficient(f, 1) /\ c = Coefficient(f, 2) /\ a = f[0]
  BY CoefficientsAreScalars
<1>2. PICK bx \in Int, cx \in Int, cxx \in Int : bx = b * x /\ cx = c * x /\ cxx = cx * x
  BY Ring
<1>3. EvaluatePolynomial(f, x) = Mod(a + bx + cxx)
  BY <1>1, <1>2 DEF EvaluatePolynomial
<1>4. a + bx + cxx \in Int
  OBVIOUS
<1>5. EvaluatePolynomial(f, 1) = Mod(a + b + c)
  <2>1. b * 1 = b /\ c * 1 = c
    OBVIOUS
  <2>. QED
    BY <1>1, <2>1 DEF EvaluatePolynomial
<1>6. ASSUME 2 \notin DOMAIN f PROVE a + bx + cxx = a + bx
  <2>1. c = 0
    BY <1>1, <1>6 DEF Coefficient
  <2>2. 0 * x = 0
    OBVIOUS
  <2>3. cxx = 0
    BY <1>2, <2>1, <2>2
  <2>. QED
    BY <2>3
<1>. QED
  BY <1>1, <1>2, <1>3, <1>4, <1>5, <1>6, InField

\* The check of a share has one solution.
LEMMA OneShare ==
    ASSUME NEW g \in TheirPolynomials, NEW piece \in Field
    PROVE  VerifyVSSSCommitment(g, piece, 1) <=>
               piece # 0 /\ piece = EvaluatePolynomial(g, 1)
<1>1. PICK a \in Int, b \in Field, c \in Field :
        a = g[0] /\ b = Coefficient(g, 1) /\ c = Coefficient(g, 2) /\ b \in Int /\ c \in Int
  BY CoefficientsAreScalars
<1>2. Times(b, 1) = b /\ Times(c, Mod(1 * 1)) = c
  <2>1. b * 1 = b /\ c * 1 = c /\ 1 * 1 = 1
    BY <1>1
  <2>2. 1 \in Field
    BY OrderIsPositive DEF Field
  <2>3. Mod(1) = 1 /\ Mod(b) = b /\ Mod(c) = c
    BY <2>2, ModOfField
  <2>. QED
    BY <2>1, <2>3 DEF Times
<1>3. Plus(Plus(a, b), c) = Mod(a + b + c)
  <2>1. PICK u \in Int : u = a + b
    BY <1>1
  <2>2. Mod(Mod(u) + c) = Mod(u + c)
    BY <1>1, ReduceTerm
  <2>. QED
    BY <2>1, <2>2 DEF Plus
<1>4. EvaluatePolynomial(g, 1) = Mod(a + b + c)
  <2>1. 1 \in Int
    OBVIOUS
  <2>. QED
    BY <1>1, <2>1, Evaluated
<1>5. Multiplies(piece) <=> piece # 0
  BY OrderIsPositive DEF Multiplies, Scalars, Field
<1>. QED
  BY <1>1, <1>2, <1>3, <1>4, <1>5 DEF VerifyVSSSCommitment

\* What is sealed for the client's key opens with it.
LEMMA SealedOpens ==
    ASSUME NEW own \in Nonces, NEW key \in Nonces, NEW piece
    PROVE  Decryptable(EncryptShare(piece, key, Times(1, own)), own)
<1>1. own \in Int /\ key \in Int /\ own \in Scalars /\ key \in Scalars
  BY PedersenAssumption, OrderIsPositive DEF Scalars
<1>2. Times(1, own) = own /\ Times(1, key) = key /\ key * own = own * key
  BY <1>1, TimesOfScalar, Ring
<1>. QED
  BY <1>2 DEF Decryptable, EncryptShare, Times

\* The commitments, by party.
LEMMA CommitmentsOf ==
    ASSUME theirs.polynomial \in TheirPolynomials, dkg.polynomial \in Polynomials
    PROVE  /\ DOMAIN Commitments = {1, theirs.party}
           /\ Commitments[1] = dkg.polynomial
           /\ theirs.party # 1 => Commitments[theirs.party] = theirs.polynomial
           /\ \A i \in {1, theirs.party} :
                 Commitments[i] \in TheirPolynomials /\ Commitments[i][0] \in Int
<1>1. /\ DOMAIN Commitments = {1, theirs.party}
      /\ Commitments[1] = dkg.polynomial
      /\ theirs.party # 1 => Commitments[theirs.party] = theirs.polynomial
  BY DEF Commitments
<1>2. \A i \in {1, theirs.party} : Commitments[i] \in TheirPolynomials
  BY <1>1, OwnPolynomials
<1>. QED
  BY <1>1, <1>2, CoefficientsAreScalars

\* The public key of the commitments.
LEMMA CombinedKey ==
    ASSUME theirs.polynomial \in TheirPolynomials, dkg.polynomial \in Polynomials
    PROVE  /\ CombineVSSSCommitments(Commitments) \in Field
           /\ theirs.party # 1 =>
                 CombineVSSSCommitments(Commitments)
                    = Mod(dkg.polynomial[0] + theirs.polynomial[0])
<1>1. PICK t : t = [i \in DOMAIN Commitments |-> Commitments[i][0]]
  OBVIOUS
<1>2. t \in [{1, theirs.party} -> Int] /\ t[1] = Commitments[1][0]
      /\ t[theirs.party] = Commitments[theirs.party][0]
  BY <1>1, CommitmentsOf
<1>. QED
  BY <1>1, <1>2, SumOfTwo, CommitmentsOf DEF CombineVSSSCommitments

\* The share of the wallet.
LEMMA AggregatedShare ==
    ASSUME theirs.polynomial \in TheirPolynomials, dkg.polynomial \in Polynomials,
           dkg.received = [i \in {1, theirs.party} |-> EvaluatePolynomial(Commitments[i], 1)]
    PROVE  /\ AggregateShares(dkg.received) \in Field
           /\ theirs.party # 1 =>
                 AggregateShares(dkg.received)
                    = Plus(EvaluatePolynomial(dkg.polynomial, 1),
                           EvaluatePolynomial(theirs.polynomial, 1))
<1>1. 1 \in Int
  OBVIOUS
<1>2. PICK t : t = dkg.received
  OBVIOUS
<1>3. /\ t \in [{1, theirs.party} -> Int] /\ t[1] = EvaluatePolynomial(Commitments[1], 1)
      /\ t[theirs.party] = EvaluatePolynomial(Commitments[theirs.party], 1)
  BY <1>1, <1>2, CommitmentsOf, Evaluated
<1>. QED
  BY <1>2, <1>3, SumOfTwo, CommitmentsOf DEF AggregateShares, Plus

LEMMA PedInitialInv == PedInit => DkgInv /\ PedSigningInv
<1> SUFFICES ASSUME PedInit PROVE DkgInv /\ PedSigningInv
  OBVIOUS
<1>1. NoReceived \in UNION {[known -> Field] : known \in SUBSET PartyIds}
  BY DEF NoReceived
<1>2. dkg.phase = "idle" /\ sign.phase = "idle"
  BY DEF PedInit
<1>3. PedTypeOK
  BY <1>1 DEF PedInit, PedTypeOK, Maybe, Party
<1>. QED
  BY <1>2, <1>3 DEF DkgInv, PedSigningInv, AcceptedPartialIsRight

SignStates == [phase : {"idle", "nonced", "accepted", "done", "failed"},
               messageHash : Hashes \cup {Null}, party : Party, k : Maybe, E : Maybe,
               r : Maybe, theirParty : Party, theirSigma : Maybe, sigma : Maybe]

\* A step of a signature leaves the key as it is.
LEMMA PedSigningStep ==
    ASSUME DkgInv, PedSigningInv, SigningNonce \/ SubmitNonce \/ SubmitPartial
    PROVE  sign' \in SignStates /\ honest' \in BOOLEAN /\ PedSigningInv' /\ UNCHANGED <<dkg, theirs>>
<1>t. sign \in SignStates /\ dkg.privateShare \in Maybe /\ honest \in BOOLEAN
  BY DEF DkgInv, PedTypeOK, SignStates
<1>u. UNCHANGED <<dkg, theirs>>
  BY DEF SigningNonce, SubmitNonce, SubmitPartial
<1>k. KeyShare' = KeyShare /\ Commitments' = Commitments
  BY <1>u DEF KeyShare, Commitments
<1>1. CASE SigningNonce
  <2>1. PICK p \in PartyIds, m \in Hashes, k \in Nonces, E \in Nonces, gamma \in Nonces, known \in Nonces :
          LET holds == VerifyNonceProof(p, gamma, E, NonceProof(p, known, gamma, gamma, known))
              R == Plus(k, E)
          IN  /\ honest' = (p = theirs.party /\ known = E /\ holds /\ Encodes(R))
              /\ sign' = IF holds /\ Encodes(R)
                         THEN [sign EXCEPT !.phase = "nonced", !.messageHash = m,
                                           !.party = p, !.k = k, !.E = E, !.r = XCoord(R)]
                         ELSE [sign EXCEPT !.phase = "failed"]
    BY <1>1 DEF SigningNonce
  <2>2. dkg.phase = "complete" /\ KeyShare \in Field
    BY <1>1, <1>t DEF SigningNonce, KeyShare, Maybe
  <2> DEFINE holds == VerifyNonceProof(p, gamma, E, NonceProof(p, known, gamma, gamma, known))
                      /\ Encodes(Plus(k, E))
  <2>3. PICK r \in Field : r = XCoord(Plus(k, E))
    <3>1. k + E \in Int
      BY PedersenAssumption, OrderIsPositive DEF Scalars
    <3>2. Plus(k, E) \in Field
      BY <3>1, InField DEF Plus
    <3>. QED
      BY <3>2, FieldAssumption
  <2>4. k \in Maybe /\ E \in Maybe /\ r \in Maybe /\ p \in Party
    BY PedersenAssumption, OrderIsPositive DEF Maybe, Party, Scalars, Field
  <2>5. honest' \in BOOLEAN
    BY <2>1
  <2>6. CASE holds
    <3>1. sign' = [sign EXCEPT !.phase = "nonced", !.messageHash = m, !.party = p,
                               !.k = k, !.E = E, !.r = r]
      BY <2>1, <2>3, <2>6
    <3> HIDE DEF holds
    <3>2. /\ sign' \in SignStates /\ sign'.phase = "nonced" /\ sign'.messageHash = m
          /\ sign'.k = k /\ sign'.E = E /\ sign'.r = r /\ sign'.party = p
      BY <1>t, <2>4, <3>1 DEF SignStates
    <3>. QED
      BY <1>u, <1>k, <2>2, <2>5, <3>2 DEF PedSigningInv, AcceptedPartialIsRight
  <2>7. CASE ~holds
    <3>1. sign' = [sign EXCEPT !.phase = "failed"]
      BY <2>1, <2>7
    <3> HIDE DEF holds
    <3>2. sign' \in SignStates /\ sign'.phase = "failed"
      BY <1>t, <3>1 DEF SignStates
    <3>. QED
      BY <1>u, <1>k, <2>2, <2>5, <3>2 DEF PedSigningInv, AcceptedPartialIsRight
  <2>. QED
    BY <2>6, <2>7
<1>2. CASE SubmitNonce
  <2>0. /\ sign.phase = "nonced" /\ dkg.phase = "complete" /\ KeyShare \in Field
        /\ sign.E \in Nonces /\ sign.messageHash \in Hashes /\ sign.r \in Field /\ sign.k \in Nonces
        /\ sign.party \in PartyIds
        /\ theirs.polynomial \in TheirPolynomials /\ dkg.polynomial \in Polynomials
    BY <1>2 DEF SubmitNonce, PedSigningInv, DkgInv
  <2>1. PICK p \in PartyIds, piece \in Field, sigma \in Field :
          LET right == ComputePartialSignature(p, Signers, BackendShare, sign.E,
                                               sign.messageHash, sign.r)
              answer == [right EXCEPT !.sigma = sigma, !.publicShare = piece]
              expected == PartyPublicShares(Commitments)
          IN  /\ honest' = (/\ honest /\ p = theirs.party /\ answer = right
                            /\ \A n \in {piece, sigma, sign.messageHash, sign.r} : Multiplies(n))
              /\ sign' =
                   IF p \in DOMAIN expected =>
                         VerifyPartialSignature(answer, expected[p], sign.E, sign.r,
                                                sign.messageHash, Signers)
                   THEN [sign EXCEPT !.phase = "accepted", !.theirParty = p,
                                     !.theirSigma = sigma]
                   ELSE [sign EXCEPT !.phase = "failed"]
    BY <1>2 DEF SubmitNonce
  <2> DEFINE right == ComputePartialSignature(p, Signers, BackendShare, sign.E,
                                              sign.messageHash, sign.r)
             answer == [right EXCEPT !.sigma = sigma, !.publicShare = piece]
             expected == PartyPublicShares(Commitments)
             holds == p \in DOMAIN expected =>
                         VerifyPartialSignature(answer, expected[p], sign.E, sign.r,
                                                sign.messageHash, Signers)
  <2>2. answer.partyId = p /\ answer.sigma = sigma /\ answer.publicShare = piece
        /\ answer.nonceCommitment = Times(1, sign.E)
    <3>1. right = [partyId |-> p, sigma |-> right.sigma, publicShare |-> right.publicShare,
                   nonceCommitment |-> Times(1, sign.E)]
      BY DEF ComputePartialSignature
    <3> HIDE DEF right
    <3>. QED
      BY <3>1
  <2>3. DOMAIN expected = DOMAIN Commitments
        /\ \A i \in DOMAIN Commitments : expected[i] = Commitments[i][0]
    BY DEF PartyPublicShares
  <2>4. honest' \in BOOLEAN
    BY <2>1
  <2>5. CASE holds
    <3>1. sign' = [sign EXCEPT !.phase = "accepted", !.theirParty = p, !.theirSigma = sigma]
      BY <2>1, <2>5
    <3>2. ASSUME p \in DOMAIN Commitments
          PROVE  sigma = ComputePartialSignature(p, Signers, Commitments[p][0], sign.E,
                                                 sign.messageHash, sign.r).sigma
      <4>1. PICK g, k, m, r : /\ g = Commitments[p][0] /\ k = sign.E /\ m = sign.messageHash
                              /\ r = sign.r
        OBVIOUS
      <4>3. g \in Int /\ k \in Scalars /\ m \in Int /\ r \in Int
        <5>2. Commitments[p][0] \in Int
          BY <2>0, <3>2, CommitmentsOf
        <5>3. k \in Scalars /\ m \in Nat /\ r \in Field
          BY <2>0, <4>1, PedersenAssumption
        <5>. QED
          BY <4>1, <5>2, <5>3, OrderIsPositive DEF Field
      <4>4. Times(k, sigma) = Plus(m, Times(g, Mod(r * Lagrange(p, Signers))))
        <5>1. Times(1, k) = k
          BY <4>3, TimesOfScalar
        <5>2. VerifyPartialSignature(answer, expected[p], sign.E, r, m, Signers)
          BY <2>3, <2>5, <3>2, <4>1
        <5>3. /\ answer.publicShare = expected[p]
              /\ Times(answer.nonceCommitment, answer.sigma)
                     = Plus(m, Times(answer.publicShare, Mod(r * Lagrange(answer.partyId, Signers))))
          BY <5>2 DEF VerifyPartialSignature
        <5> HIDE DEF answer, expected, right
        <5>. QED
          BY <2>2, <2>3, <3>2, <4>1, <5>1, <5>3
      <4>5. PICK l \in Int : l = Lagrange(p, Signers)
        BY <2>0, LagrangeIsInt DEF Signers
      <4>6. sigma = Mod(ModInverse(k) * (m + r * Times(g, l)))
        <5>1. Times(k, sigma) = Plus(m, Times(g, Times(r, l)))
          BY <4>4, <4>5 DEF Times
        <5>. QED
          BY <4>3, <5>1, OneSigma
      <4>. QED
        BY <4>1, <4>5, <4>6 DEF ComputePartialSignature, Times
    <3> HIDE DEF holds, answer, expected, right
    <3>3. sigma \in Maybe /\ p \in Party
      BY DEF Maybe, Party
    <3>4. /\ sign' \in SignStates /\ sign'.phase = "accepted" /\ sign'.theirSigma = sigma
          /\ sign'.messageHash = sign.messageHash /\ sign'.k = sign.k /\ sign'.E = sign.E
          /\ sign'.r = sign.r /\ sign'.party = sign.party /\ sign'.theirParty = p
      BY <1>t, <3>1, <3>3 DEF SignStates
    <3>s. Signers' = Signers
      BY <3>4 DEF Signers
    <3>5. AcceptedPartialIsRight'
      BY <1>k, <3>2, <3>4, <3>s DEF AcceptedPartialIsRight
    <3>. QED
      BY <1>u, <1>k, <2>0, <2>4, <3>4, <3>5 DEF PedSigningInv
  <2>6. CASE ~holds
    <3>1. sign' = [sign EXCEPT !.phase = "failed"]
      BY <2>1, <2>6
    <3> HIDE DEF holds, answer, expected, right
    <3>2. sign' \in SignStates /\ sign'.phase = "failed"
      BY <1>t, <3>1 DEF SignStates
    <3>. QED
      BY <1>u, <1>k, <2>0, <2>4, <3>2 DEF PedSigningInv, AcceptedPartialIsRight
  <2>. QED
    BY <2>5, <2>6
<1>3. CASE SubmitPartial
  <2>0. /\ sign.phase = "accepted" /\ dkg.phase = "complete" /\ KeyShare \in Field
        /\ sign.E \in Nonces /\ sign.messageHash \in Hashes /\ sign.r \in Field /\ sign.k \in Nonces
        /\ sign.party \in PartyIds
    BY <1>3 DEF SubmitPartial, PedSigningInv
  <2>1. PICK s \in Field : s = ComputePartialSignature(1, Signers, KeyShare, sign.k,
                                                       sign.messageHash, sign.r).sigma
    <3>1. PICK i \in Int, m \in Int, r \in Int, k \in Int, l \in Int :
            /\ i = ModInverse(sign.k) /\ m = sign.messageHash /\ r = sign.r /\ k = KeyShare
            /\ l = Lagrange(1, Signers)
      <4>1. sign.k \in Scalars /\ sign.messageHash \in Nat /\ 1 \in PartyIds
        BY <2>0, PedersenAssumption
      <4>2. ModInverse(sign.k) \in Scalars
        BY <4>1, InverseIsInverse
      <4>3. ModInverse(sign.k) \in Int /\ sign.r \in Int /\ KeyShare \in Int
        BY <2>0, <4>2, OrderIsPositive DEF Scalars, Field
      <4>4. Lagrange(1, Signers) \in Int
        BY <2>0, <4>1, LagrangeIsInt DEF Signers
      <4>. QED
        BY <4>1, <4>3, <4>4
    <3>2. PICK v \in Int : v = Mod(k * l)
      BY Ring, InField
    <3>3. r * v \in Int
      BY Ring
    <3>4. i * (m + r * v) \in Int
      BY <3>3, Ring
    <3>5. ComputePartialSignature(1, Signers, KeyShare, sign.k, sign.messageHash, sign.r).sigma
            = Mod(i * (m + r * v))
      BY <3>1, <3>2 DEF ComputePartialSignature
    <3>. QED
      BY <3>4, <3>5, InField
  <2>2. sign' = [sign EXCEPT !.phase = "done", !.sigma = s] /\ honest' = honest
    BY <1>3, <2>1 DEF SubmitPartial
  <2>3. s \in Maybe
    BY DEF Maybe
  <2>4. /\ sign' \in SignStates /\ sign'.phase = "done" /\ sign'.theirSigma = sign.theirSigma
        /\ sign'.messageHash = sign.messageHash /\ sign'.k = sign.k /\ sign'.E = sign.E
        /\ sign'.r = sign.r /\ sign'.party = sign.party /\ sign'.theirParty = sign.theirParty
    BY <1>t, <2>2, <2>3 DEF SignStates
  <2>5. Signers' = Signers
    BY <2>4 DEF Signers
  <2>6. AcceptedPartialIsRight'
    BY <1>k, <2>0, <2>4, <2>5 DEF AcceptedPartialIsRight, PedSigningInv
  <2>. QED
    BY <1>t, <1>u, <1>k, <2>0, <2>2, <2>4, <2>6 DEF PedSigningInv
<1>. QED
  BY <1>1, <1>2, <1>3, <1>u

LEMMA DkgStep == DkgInv /\ PedSigningInv /\ [PedNext]_pedVars => DkgInv'
<1> SUFFICES ASSUME DkgInv, PedSigningInv, [PedNext]_pedVars PROVE DkgInv'
  OBVIOUS
<1>t. PedTypeOK
  BY DEF DkgInv
<1> DEFINE Received == UNION {[known -> Field] : known \in SUBSET PartyIds}
           DkgStates == [phase : {"idle", "initiated", "shared", "complete", "failed"},
                         polynomial : Polynomials \cup {Null}, ephemeral : Scalars \cup {Null},
                         received : Received, privateShare : Maybe, publicKey : Maybe]
           TheirStates == [party : Party, polynomial : TheirPolynomials \cup {Null},
                           honest : BOOLEAN]
<1>s. dkg \in DkgStates /\ theirs \in TheirStates
  BY <1>t DEF PedTypeOK
<1>p. ASSUME dkg' \in DkgStates, theirs' \in TheirStates, UNCHANGED <<sign, honest>>
      PROVE  PedTypeOK'
  BY <1>t, <1>p DEF PedTypeOK
<1>1. CASE Initiate
  <2>1. PICK p \in PartyIds, f \in Polynomials, g \in TheirPolynomials, own \in Nonces,
             n \in Nonces, known \in Coefficients :
          LET proof == SchnorrProof(<<"vsss", p>>, known, n)
              holds == SchnorrHolds(<<"vsss", p>>, g[0], proof)
          IN  /\ theirs' = [party |-> p, polynomial |-> g,
                            honest |-> known = g[0] /\ holds]
              /\ dkg' = IF holds
                        THEN [dkg EXCEPT !.phase = "initiated", !.polynomial = f,
                                         !.ephemeral = own]
                        ELSE [dkg EXCEPT !.phase = "failed"]
    BY <1>1 DEF Initiate
  <2>2. UNCHANGED <<sign, honest>>
    BY <1>1 DEF Initiate
  <2>3. own \in Scalars /\ p \in Party
    BY PedersenAssumption DEF Party
  <2> DEFINE holds == SchnorrHolds(<<"vsss", p>>, g[0], SchnorrProof(<<"vsss", p>>, known, n))
  <2>4. /\ theirs' \in TheirStates /\ theirs'.polynomial = g /\ theirs'.party = p
        /\ ~holds => ~theirs'.honest
    <3>1. PICK h \in BOOLEAN : h = (known = g[0] /\ holds)
      OBVIOUS
    <3>2. theirs' = [party |-> p, polynomial |-> g, honest |-> h]
      BY <2>1, <3>1
    <3>. QED
      BY <2>3, <3>1, <3>2
  <2>5. CASE holds
    <3>1. dkg' = [dkg EXCEPT !.phase = "initiated", !.polynomial = f, !.ephemeral = own]
      BY <2>1, <2>5
    <3> HIDE DEF holds, Received, TheirStates
    <3>2. /\ dkg' \in DkgStates /\ dkg'.phase = "initiated" /\ dkg'.polynomial = f
          /\ dkg'.ephemeral = own
      BY <1>s, <2>3, <3>1
    <3> HIDE DEF DkgStates
    <3>. QED
      BY <1>p, <2>2, <2>3, <2>4, <3>2 DEF DkgInv
  <2>6. CASE ~holds
    <3>1. dkg' = [dkg EXCEPT !.phase = "failed"]
      BY <2>1, <2>6
    <3> HIDE DEF holds, Received, TheirStates
    <3>2. dkg' \in DkgStates /\ dkg'.phase = "failed"
      BY <1>s, <3>1
    <3> HIDE DEF DkgStates
    <3>. QED
      BY <1>p, <2>2, <2>3, <2>4, <2>6, <3>2 DEF DkgInv
  <2>. QED
    BY <2>5, <2>6
<1>2. CASE SubmitCommitment
  <2>1. PICK piece \in Field, key \in Nonces, to \in {Times(1, dkg.ephemeral), 1} :
          LET e == EncryptShare(piece, key, to)
              own == EvaluatePolynomial(dkg.polynomial, 1)
              right == piece = EvaluatePolynomial(theirs.polynomial, 1)
          IN  /\ dkg' =
                   IF /\ Decryptable(e, dkg.ephemeral)
                      /\ VerifyVSSSCommitment(Commitments[theirs.party], e.share, 1)
                   THEN [dkg EXCEPT !.phase = "shared",
                                    !.received = [i \in {1, theirs.party} |->
                                        IF i = 1 THEN own ELSE e.share]]
                   ELSE [dkg EXCEPT !.phase = "failed"]
              /\ theirs' = [theirs EXCEPT !.honest =
                              @ /\ right /\ piece # 0 /\ to = Times(1, dkg.ephemeral)]
    BY <1>2 DEF SubmitCommitment
  <2>2. UNCHANGED <<sign, honest>> /\ dkg.phase = "initiated"
    BY <1>2 DEF SubmitCommitment
  <2>3. /\ dkg.polynomial \in Polynomials /\ theirs.polynomial \in TheirPolynomials
        /\ dkg.ephemeral \in Nonces /\ theirs.party \in PartyIds
    BY <2>2 DEF DkgInv
  <2> DEFINE e == EncryptShare(piece, key, to)
             accepts == /\ Decryptable(e, dkg.ephemeral)
                        /\ VerifyVSSSCommitment(Commitments[theirs.party], e.share, 1)
             h == /\ theirs.honest /\ piece = EvaluatePolynomial(theirs.polynomial, 1)
                  /\ piece # 0 /\ to = Times(1, dkg.ephemeral)
             received == [i \in {1, theirs.party} |->
                            IF i = 1 THEN EvaluatePolynomial(dkg.polynomial, 1) ELSE piece]
  <2>4. e.share = piece
    BY DEF EncryptShare
  <2>5. theirs' \in TheirStates /\ theirs'.polynomial = theirs.polynomial
        /\ theirs'.party = theirs.party /\ theirs'.honest = h
    <3>1. theirs' = [theirs EXCEPT !.honest = h] /\ h \in BOOLEAN
      BY <2>1
    <3> HIDE DEF h
    <3>. QED
      BY <1>s, <3>1
  <2>6. CASE accepts
    <3>1. dkg' = [dkg EXCEPT !.phase = "shared", !.received = received]
      BY <2>1, <2>4, <2>6
    <3>2. piece = EvaluatePolynomial(Commitments[theirs.party], 1)
      BY <2>3, <2>4, <2>6, OneShare, CommitmentsOf
    <3>3. received \in Received
      <4>1. {1, theirs.party} \in SUBSET PartyIds
        BY <2>3, PedersenAssumption
      <4>2. EvaluatePolynomial(dkg.polynomial, 1) \in Field
        <5>1. 1 \in Int
          OBVIOUS
        <5>. QED
          BY <2>3, <5>1, OwnPolynomials, Evaluated
      <4>3. received \in [{1, theirs.party} -> Field]
        BY <4>2
      <4> HIDE DEF received
      <4>. QED
        BY <4>1, <4>3
    <3>4. received = [i \in {1, theirs.party} |-> EvaluatePolynomial(Commitments[i], 1)]
      BY <2>3, <3>2, CommitmentsOf
    <3> HIDE DEF received, h, e, accepts, Received, TheirStates
    <3>5. /\ dkg' \in DkgStates /\ dkg'.phase = "shared" /\ dkg'.received = received
          /\ dkg'.polynomial = dkg.polynomial /\ dkg'.ephemeral = dkg.ephemeral
      BY <1>s, <3>1, <3>3
    <3>6. Commitments' = Commitments
      BY <2>5, <3>5 DEF Commitments
    <3> HIDE DEF DkgStates
    <3>. QED
      BY <1>p, <2>2, <2>3, <2>5, <3>4, <3>5, <3>6 DEF DkgInv
  <2>7. CASE ~accepts
    <3>1. dkg' = [dkg EXCEPT !.phase = "failed"]
      BY <2>1, <2>7
    <3>2. theirs.party # 1 => ~h
      BY <2>3, <2>4, <2>7, OneShare, SealedOpens, CommitmentsOf
    <3> HIDE DEF h, e, accepts, Received, TheirStates
    <3>3. dkg' \in DkgStates /\ dkg'.phase = "failed"
      BY <1>s, <3>1
    <3> HIDE DEF DkgStates
    <3>. QED
      BY <1>p, <2>2, <2>3, <2>5, <3>2, <3>3 DEF DkgInv
  <2>. QED
    BY <2>6, <2>7
<1>3. CASE SubmitShare
  <2> DEFINE publicKey == CombineVSSSCommitments(Commitments)
  <2>1. /\ dkg' = IF Encodes(publicKey)
                  THEN [dkg EXCEPT !.phase = "complete", !.publicKey = publicKey,
                                   !.privateShare = AggregateShares(dkg.received)]
                  ELSE [dkg EXCEPT !.phase = "failed"]
        /\ UNCHANGED <<theirs, sign, honest>> /\ dkg.phase = "shared"
    BY <1>3 DEF SubmitShare
  <2>2. /\ dkg.polynomial \in Polynomials /\ theirs.polynomial \in TheirPolynomials
        /\ dkg.ephemeral \in Nonces /\ theirs.party \in PartyIds /\ theirs' \in TheirStates
        /\ dkg.received = [i \in {1, theirs.party} |-> EvaluatePolynomial(Commitments[i], 1)]
    BY <1>s, <2>1 DEF DkgInv
  <2>3. publicKey \in Maybe
    BY <2>2, CombinedKey DEF Maybe
  <2>4. AggregateShares(dkg.received) \in Maybe
    BY <2>2, AggregatedShare DEF Maybe
  <2>5. CASE Encodes(publicKey)
    <3> DEFINE p == publicKey
               s == AggregateShares(dkg.received)
    <3>1. dkg' = [dkg EXCEPT !.phase = "complete", !.publicKey = p, !.privateShare = s]
      BY <2>1, <2>5
    <3>2. p = CombineVSSSCommitments(Commitments) /\ p \in Maybe /\ s \in Maybe
          /\ s = AggregateShares(dkg.received)
      BY <2>3, <2>4
    <3> HIDE DEF p, s, publicKey, Received, TheirStates
    <3>3. /\ dkg' \in DkgStates /\ dkg'.phase = "complete" /\ dkg'.received = dkg.received
          /\ dkg'.polynomial = dkg.polynomial /\ dkg'.ephemeral = dkg.ephemeral
          /\ dkg'.publicKey = p /\ dkg'.privateShare = s
      BY <1>s, <3>1, <3>2
    <3>4. Commitments' = Commitments
      BY <2>1, <3>3 DEF Commitments
    <3> HIDE DEF DkgStates
    <3>. QED
      BY <1>p, <2>1, <2>2, <3>2, <3>3, <3>4 DEF DkgInv
  <2>6. CASE ~Encodes(publicKey)
    <3>1. dkg' = [dkg EXCEPT !.phase = "failed"]
      BY <2>1, <2>6
    <3> HIDE DEF Received, TheirStates
    <3>2. dkg' \in DkgStates /\ dkg'.phase = "failed" /\ dkg'.polynomial = dkg.polynomial
      BY <1>s, <3>1
    <3>3. Commitments' = Commitments
      BY <2>1, <3>2 DEF Commitments
    <3> HIDE DEF DkgStates
    <3>. QED
      BY <1>p, <2>1, <2>2, <2>6, <3>2, <3>3 DEF DkgInv
  <2>. QED
    BY <2>5, <2>6
<1>4. CASE SigningNonce \/ SubmitNonce \/ SubmitPartial
  <2>1. sign' \in SignStates /\ honest' \in BOOLEAN /\ UNCHANGED <<dkg, theirs>>
    BY <1>4, PedSigningStep
  <2>2. PedTypeOK' /\ Commitments' = Commitments
    BY <1>t, <2>1 DEF PedTypeOK, SignStates, Commitments
  <2>. QED
    BY <2>1, <2>2 DEF DkgInv
<1>5. CASE UNCHANGED pedVars
  <2>1. Commitments' = Commitments
    BY <1>5 DEF pedVars, Commitments
  <2>. QED
    BY <1>5, <2>1 DEF pedVars, DkgInv, PedTypeOK
<1>. QED
  BY <1>1, <1>2, <1>3, <1>4, <1>5 DEF PedNext

\* The key generation has ended before a signature begins.
LEMMA PedSigningKept ==
    ASSUME DkgInv, PedSigningInv, [PedNext]_pedVars
    PROVE  PedSigningInv'
<1>1. CASE Initiate \/ SubmitCommitment \/ SubmitShare
  <2>1. UNCHANGED sign /\ dkg.phase # "complete"
    BY <1>1 DEF Initiate, SubmitCommitment, SubmitShare
  <2>2. sign'.phase = "idle"
    BY <2>1 DEF PedSigningInv
  <2>. QED
    BY <2>2 DEF PedSigningInv, AcceptedPartialIsRight
<1>2. CASE SigningNonce \/ SubmitNonce \/ SubmitPartial
  BY <1>2, PedSigningStep
<1>3. CASE UNCHANGED pedVars
  <2>1. Commitments' = Commitments /\ Signers' = Signers
    BY <1>3 DEF pedVars, Commitments, Signers
  <2>. QED
    BY <1>3, <2>1 DEF pedVars, PedSigningInv, AcceptedPartialIsRight, KeyShare
<1>. QED
  BY <1>1, <1>2, <1>3 DEF PedNext

\* Every value of the key generation and of a signature keeps to its type.
THEOREM PedTypesKept == PedSpec => []PedTypeOK
<1>1. PedSpec => [](DkgInv /\ PedSigningInv)
  BY PedInitialInv, DkgStep, PedSigningKept, PTL DEF PedSpec
<1>2. DkgInv => PedTypeOK
  BY DEF DkgInv
<1>. QED
  BY <1>1, <1>2, PTL

\* A backend's partial signature that the client verifies and accepts is the one of
\* the public share and the nonce that it expected, whatever else the backend could
\* answer, whoever sent the nonce, for every order of the group and whatever the
\* hashes are (partial-signature.ts:147); one of a party without a commitment is
\* accepted unverified and nothing is said of it (signing-client.ts:85).
THEOREM AcceptedPartialsAreRight == PedSpec => []AcceptedPartialIsRight
<1>1. PedSpec => [](DkgInv /\ PedSigningInv)
  BY PedInitialInv, DkgStep, PedSigningKept, PTL DEF PedSpec
<1>2. PedSigningInv => AcceptedPartialIsRight
  BY DEF PedSigningInv
<1>. QED
  BY <1>1, <1>2, PTL

\* As long as nothing failed, the backend kept to its commitment.
Kept == dkg.phase \in {"initiated", "shared", "complete"} /\ theirs.party # 1 => theirs.honest

LEMMA KeptStep ==
    ASSUME CommitmentsBind, DkgInv, Kept, PedSigningInv, [PedNext]_pedVars
    PROVE  Kept'
<1>t. PedTypeOK
  BY DEF DkgInv
<1>1. CASE Initiate
  <2>1. PICK p \in PartyIds, f \in Polynomials, g \in TheirPolynomials, own \in Nonces,
             n \in Nonces, known \in Coefficients :
          LET proof == SchnorrProof(<<"vsss", p>>, known, n)
              holds == SchnorrHolds(<<"vsss", p>>, g[0], proof)
          IN  /\ theirs' = [party |-> p, polynomial |-> g,
                            honest |-> known = g[0] /\ holds]
              /\ dkg' = IF holds
                        THEN [dkg EXCEPT !.phase = "initiated", !.polynomial = f,
                                         !.ephemeral = own]
                        ELSE [dkg EXCEPT !.phase = "failed"]
    BY <1>1 DEF Initiate
  <2> DEFINE holds == SchnorrHolds(<<"vsss", p>>, g[0], SchnorrProof(<<"vsss", p>>, known, n))
  <2>2. g[0] \in Coefficients
    BY CoefficientsAreScalars
  <2>3. holds => known = g[0]
    BY <2>2 DEF CommitmentsBind
  <2>4. theirs'.honest = (known = g[0] /\ holds)
    BY <2>1
  <2>5. ~holds => dkg'.phase = "failed"
    <3>1. ~holds => dkg' = [dkg EXCEPT !.phase = "failed"]
      BY <2>1
    <3>. QED
      BY <1>t, <3>1 DEF PedTypeOK
  <2> HIDE DEF holds
  <2>. QED
    BY <2>3, <2>4, <2>5 DEF Kept
<1>2. CASE SubmitCommitment
  <2>1. PICK piece \in Field, key \in Nonces, to \in {Times(1, dkg.ephemeral), 1} :
          LET e == EncryptShare(piece, key, to)
              own == EvaluatePolynomial(dkg.polynomial, 1)
              right == piece = EvaluatePolynomial(theirs.polynomial, 1)
          IN  /\ dkg' =
                   IF /\ Decryptable(e, dkg.ephemeral)
                      /\ VerifyVSSSCommitment(Commitments[theirs.party], e.share, 1)
                   THEN [dkg EXCEPT !.phase = "shared",
                                    !.received = [i \in {1, theirs.party} |->
                                        IF i = 1 THEN own ELSE e.share]]
                   ELSE [dkg EXCEPT !.phase = "failed"]
              /\ theirs' = [theirs EXCEPT !.honest =
                              @ /\ right /\ piece # 0 /\ to = Times(1, dkg.ephemeral)]
    BY <1>2 DEF SubmitCommitment
  <2>2. /\ dkg.phase = "initiated" /\ theirs.party # 1 => theirs.honest = TRUE
        /\ theirs.polynomial \in TheirPolynomials /\ dkg.polynomial \in Polynomials
        /\ dkg.ephemeral \in Nonces
    <3>1. dkg.phase = "initiated"
      BY <1>2 DEF SubmitCommitment
    <3>. QED
      BY <1>t, <3>1 DEF DkgInv, Kept, PedTypeOK
  <2> DEFINE e == EncryptShare(piece, key, to)
             accepts == /\ Decryptable(e, dkg.ephemeral)
                        /\ VerifyVSSSCommitment(Commitments[theirs.party], e.share, 1)
             h == /\ theirs.honest /\ piece = EvaluatePolynomial(theirs.polynomial, 1)
                  /\ piece # 0 /\ to = Times(1, dkg.ephemeral)
  <2>3. e.share = piece
    BY DEF EncryptShare
  <2>4. theirs'.honest = h /\ theirs'.party = theirs.party
    <3>1. theirs' = [theirs EXCEPT !.honest = h]
      BY <2>1
    <3> HIDE DEF h
    <3>. QED
      BY <1>t, <3>1 DEF PedTypeOK
  <2>5. ~accepts => dkg'.phase = "failed"
    <3>1. ~accepts => dkg' = [dkg EXCEPT !.phase = "failed"]
      BY <2>1
    <3> HIDE DEF accepts
    <3>. QED
      BY <1>t, <3>1 DEF PedTypeOK
  <2>6. accepts => to = Times(1, dkg.ephemeral)
    <3>1. SUFFICES ASSUME accepts, to = 1 PROVE Times(1, dkg.ephemeral) = 1
      BY <2>1
    <3>2. Decryptable(EncryptShare(0, key, 1), dkg.ephemeral)
      BY <3>1 DEF Decryptable, EncryptShare
    <3>. QED
      BY <2>2, <3>2 DEF CommitmentsBind
  <2>7. accepts /\ theirs.party # 1 => h
    <3>1. dkg.phase = "initiated"
      BY <1>2 DEF SubmitCommitment
    <3>. QED
      BY <2>2, <2>3, <2>6, <3>1, OneShare, CommitmentsOf
  <2> HIDE DEF accepts, h
  <2>. QED
    BY <2>4, <2>5, <2>7 DEF Kept
<1>3. CASE SubmitShare
  <2>1. UNCHANGED theirs /\ dkg.phase = "shared"
    BY <1>3 DEF SubmitShare
  <2>. QED
    BY <2>1 DEF Kept
<1>4. CASE SigningNonce \/ SubmitNonce \/ SubmitPartial
  <2>1. UNCHANGED <<dkg, theirs>>
    BY <1>4 DEF SigningNonce, SubmitNonce, SubmitPartial
  <2>. QED
    BY <2>1 DEF Kept
<1>5. CASE UNCHANGED pedVars
  BY <1>5 DEF pedVars, Kept
<1>. QED
  BY <1>1, <1>2, <1>3, <1>4, <1>5 DEF PedNext

\* The share of the client is the sum of both polynomials at 1, and if both are lines
\* the shares of both parties interpolate to the secret key.
LEMMA CompleteInterpolates ==
    ASSUME DkgInv, dkg.phase = "complete", theirs.party # 1
    PROVE  /\ dkg.privateShare = Plus(EvaluatePolynomial(dkg.polynomial, 1),
                                      EvaluatePolynomial(theirs.polynomial, 1))
           /\ 2 \notin DOMAIN theirs.polynomial =>
                 Mod(Lagrange(1, <<1, theirs.party>>) * dkg.privateShare
                     + Lagrange(theirs.party, <<1, theirs.party>>) * BackendShare)
                    = dkg.publicKey
<1>1. PICK f \in TheirPolynomials, g \in TheirPolynomials, p \in Field :
        /\ f = dkg.polynomial /\ g = theirs.polynomial /\ p = theirs.party /\ p \in Int
        /\ 2 \notin DOMAIN f /\ f \in Polynomials
  <2>1. /\ dkg.polynomial \in Polynomials /\ theirs.polynomial \in TheirPolynomials
        /\ theirs.party \in Field
    BY PedersenAssumption DEF DkgInv
  <2>2. theirs.party \in Int
    BY <2>1, OrderIsPositive DEF Field
  <2>. QED
    BY <2>1, <2>2, OwnPolynomials
<1>2. dkg.privateShare = Plus(EvaluatePolynomial(f, 1), EvaluatePolynomial(g, 1))
  BY <1>1, AggregatedShare DEF DkgInv
<1>3. ASSUME 2 \notin DOMAIN g
      PROVE  Mod(Lagrange(1, <<1, p>>) * dkg.privateShare
                 + Lagrange(p, <<1, p>>) * BackendShare) = dkg.publicKey
  <2>1. PICK a \in Int, b \in Int, c \in Int, d \in Int :
          a = f[0] /\ b = Coefficient(f, 1) /\ c = g[0] /\ d = Coefficient(g, 1)
    BY CoefficientsAreScalars
  <2>2. ASSUME NEW x \in Int
        PROVE  /\ EvaluatePolynomial(f, x) = Mod(a + b * x)
               /\ EvaluatePolynomial(g, x) = Mod(c + d * x)
    <3>1. /\ EvaluatePolynomial(f, x) = Mod(f[0] + Coefficient(f, 1) * x)
          /\ EvaluatePolynomial(g, x) = Mod(g[0] + Coefficient(g, 1) * x)
      BY <1>1, <1>3, Evaluated
    <3>. QED
      BY ONLY <2>1, <3>1
  <2>3. PICK s \in Int, t \in Int, bp \in Int, dp \in Int :
          s = a + c /\ t = b + d /\ bp = b * p /\ dp = d * p
    BY <1>1, Ring
  <2>4. \A u, v \in Int : Plus(Mod(u), Mod(v)) = Mod(u + v)
    <3>1. ASSUME NEW u \in Int, NEW v \in Int PROVE Plus(Mod(u), Mod(v)) = Mod(u + v)
      <4>1. PICK m \in Int : m = Mod(v)
        BY InField
      <4>2. Mod(Mod(u) + m) = Mod(u + m)
        BY ReduceTerm
      <4>3. Mod(u + Mod(v)) = Mod(v + u) /\ v + u = u + v
        BY ReduceTerm
      <4>. QED
        BY <4>1, <4>2, <4>3 DEF Plus
    <3>. QED
      BY <3>1
  <2>5. dkg.privateShare = Mod(s + t)
    <3>1. EvaluatePolynomial(f, 1) = Mod(a + b) /\ EvaluatePolynomial(g, 1) = Mod(c + d)
      <4>1. b * 1 = b /\ d * 1 = d /\ 1 \in Int
        OBVIOUS
      <4>2. EvaluatePolynomial(f, 1) = Mod(a + b * 1) /\ EvaluatePolynomial(g, 1) = Mod(c + d * 1)
        BY <2>2, <4>1
      <4>. QED
        BY ONLY <4>1, <4>2
    <3>2. PICK u \in Int, v \in Int : u = a + b /\ v = c + d /\ u + v = s + t
      BY <2>3
    <3>. QED
      BY <1>2, <2>4, <3>1, <3>2
  <2>6. BackendShare = Mod(s + t * p)
    <3>1. PICK u \in Int, v \in Int : u = a + bp /\ v = c + dp
      OBVIOUS
    <3>2. EvaluatePolynomial(f, p) = Mod(u) /\ EvaluatePolynomial(g, p) = Mod(v)
      BY <1>1, <2>2, <2>3, <3>1
    <3>3. t * p = bp + dp
      <4>1. p * (b + d) = p * b + p * d /\ p * b = b * p /\ p * d = d * p
        BY <1>1, Ring
      <4>2. t * p = p * t
        BY <1>1, Ring
      <4>. QED
        BY <2>3, <4>1, <4>2
    <3>4. v + u = s + t * p
      BY <2>3, <3>1, <3>3
    <3>. QED
      BY <1>1, <2>4, <3>1, <3>2, <3>4 DEF BackendShare, ShareForBackend
  <2>7. dkg.publicKey = Mod(s)
    BY <1>1, <2>1, <2>3, CombinedKey DEF DkgInv
  <2>8. PICK x \in Int, y \in Int : x = dkg.privateShare /\ y = BackendShare
    <3>1. PICK tp \in Int : tp = t * p
      BY <1>1, Ring
    <3>. QED
      BY <2>5, <2>6, <3>1, InField
  <2>9. Mod(x) = Mod(s + t) /\ Mod(y) = Mod(s + t * p)
    <3>1. PICK tp \in Int : tp = t * p
      BY <1>1, Ring
    <3>. QED
      BY <2>5, <2>6, <2>8, <3>1, ModTwice
  <2>10. Mod(Lagrange(1, <<1, p>>) * x + Lagrange(p, <<1, p>>) * y) = Mod(s)
    BY <1>1, <2>9, Interpolation
  <2>. QED
    BY ONLY <2>7, <2>8, <2>10
<1>. QED
  BY <1>1, <1>2, <1>3

\* With a backend that is another party than the client, a completed key generation
\* leaves the client a share on the polynomial both committed to, if that is a line
\* both parties shares whose interpolation is the secret key of the public key, and no
\* share that the backend did not commit to is accepted, if proofs and sealed shares
\* bind (dkg-client.ts:125 and 158).
THEOREM AcceptedSharesInterpolate ==
    ASSUME CommitmentsBind
    PROVE  PedSpec => []SharesInterpolate
<1>1. PedInit => Kept
  BY DEF PedInit, Kept
<1>2. DkgInv /\ PedSigningInv /\ Kept /\ [PedNext]_pedVars => Kept'
  BY KeptStep
<1>3. DkgInv /\ Kept => SharesInterpolate
  BY CompleteInterpolates DEF SharesInterpolate, Kept, DkgInv
<1>. QED
  BY <1>1, <1>2, <1>3, PedInitialInv, DkgStep, PedSigningKept, PTL DEF PedSpec

-----------------------------------------------------------------------------
(* The types of what the sections above leave open.                         *)

\* What a recovery ends with.
Outcomes == recovered = Nothing \/ recovered.outcome \in {"share", "key", "refused"}

\* A recovery ends with a share, a key or a refusal, and a blob that came back damaged
\* is one that parses as a blob (self-custody-recovery.ts:421).
THEOREM CustodyTypesKept == CustodySpec => []CustodyTypeOK
<1>1. CustodyInit => Outcomes
  BY DEF CustodyInit, Outcomes
<1>2. Outcomes /\ [CustodyNext]_custodyVars => Outcomes'
  <2> SUFFICES ASSUME Outcomes, [CustodyNext]_custodyVars PROVE Outcomes'
    OBVIOUS
  <2>1. CASE Setup \/ BlobDamaged \/ UNCHANGED custodyVars
    BY <2>1 DEF Setup, BlobDamaged, custodyVars, Outcomes
  <2>2. CASE ExtractClientShare
    BY <2>2 DEF ExtractClientShare, Refused, Outcomes
  <2>3. CASE OfflineReconstructKey
    BY <2>3 DEF OfflineReconstructKey, Refused, Outcomes
  <2>4. CASE NewWallet
    BY <2>4 DEF NewWallet, Outcomes
  <2>. QED
    BY <2>1, <2>2, <2>3, <2>4 DEF CustodyNext
<1>3. CustodyInv /\ Outcomes => CustodyTypeOK
  BY DEF CustodyInv, Outcomes, CustodyTypeOK
<1>. QED
  BY <1>1, <1>2, <1>3, CustodyInitial, CustodyStep, PTL DEF CustodySpec

\* A partial signature is a scalar.
LEMMA PartialIsOptional ==
    ASSUME KeygenInv, SigningInv, partial \in Optional, [DklsNext]_dklsVars
    PROVE  partial' \in Optional
<1>1. CASE ComputeClientPartialSignature /\ signing.rValue # 0
  <2>1. PICK m \in Int, r \in Int, t1 \in Int, t2 \in Int :
          /\ m = signing.messageHash /\ r = signing.rValue
          /\ t1 = signing.mta1Share /\ t2 = signing.mta2Share
    <3>1. signing.phase = "multiplied"
      BY <1>1 DEF ComputeClientPartialSignature
    <3>2. /\ signing.messageHash \in Nat /\ signing.nonceShare \in Scalars
          /\ backend.nonce \in Scalars
          /\ signing.rValue = XCoord(Times(backend.nonce, signing.nonceShare))
          /\ signing.mta1Share \in Field /\ signing.mta2Share \in Field
      BY <3>1 DEF SigningInv
    <3>3. signing.rValue \in Field
      <4>1. backend.nonce * signing.nonceShare \in Int
        BY <3>2, TimesOfScalar, Ring
      <4>. QED
        BY <3>2, <4>1, InField, FieldAssumption DEF Times
    <3>. QED
      BY <3>2, <3>3 DEF Field
  <2>2. m * t1 + r * t2 \in Int
    BY Ring
  <2>3. partial' = PartialS(m, r, t1, t2)
    BY <1>1, <2>1 DEF ComputeClientPartialSignature
  <2>. QED
    BY <2>2, <2>3, InField DEF PartialS, Optional
<1>2. CASE ~(ComputeClientPartialSignature /\ signing.rValue # 0)
  <2>1. UNCHANGED partial
    BY <1>2 DEF DklsNext, dklsVars, KeygenInitClient, KeygenProcessBackendCommitment,
                KeygenGenerateReveal, KeygenComplete, SigningInit,
                SigningStoreBackendCommitment, SigningProcessBackendNonce,
                ProcessMtARound2Response, ComputeClientPartialSignature
  <2>. QED
    BY <2>1
<1>. QED
  BY <1>1, <1>2

\* Every value of the key generation and of a signature keeps to its type: hashes are
\* not reduced, everything computed from them is (crypto.ts:420).
THEOREM DklsTypesKept == DklsSpec => []DklsTypeOK
<1>1. DklsInit => partial \in Optional
  BY DEF DklsInit, Optional
<1>2. KeygenInv /\ SigningInv /\ partial \in Optional => DklsTypeOK
  BY DEF KeygenInv, SigningInv, DklsTypeOK
<1>3. KeygenInv /\ SigningInv /\ partial \in Optional /\ [DklsNext]_dklsVars => (partial \in Optional)'
  BY PartialIsOptional
<1>. QED
  BY <1>1, <1>2, <1>3, KeygenInitial, KeygenStep, SigningInitial, SigningStep, PTL DEF DklsSpec

\* A step of a multiplication keeps the types.
LEMMA MtaTypesStep ==
    ASSUME MtaTypeOK, MtaInv, ShareInv, [MtaNext]_mtaVars
    PROVE  MtaTypeOK'
<1> USE DEF MtaTypeOK
<1>1. CASE MtaAliceRound1
  <2>1. PICK s \in Sessions, st \in AliceStates :
          /\ began' = [began EXCEPT ![s] = st] /\ alice' = [phase |-> "waiting", session |-> s]
          /\ UNCHANGED <<bob, response, sent, share>>
    BY <1>1 DEF MtaAliceRound1
  <2>. QED
    BY <2>1
<1>2. CASE MtaBobRound2
  <2>1. PICK s \in Sessions, b \in FactorsB, key \in KeyDraws :
          /\ began[s] # None
          /\ response' = [response EXCEPT ![s] = Responses(began[s].key, b, key)]
          /\ bob' = [bob EXCEPT ![s] =
                       [input |-> b, key |-> key, publicKey |-> began[s].key,
                        share |-> None, failed |-> FALSE]]
          /\ UNCHANGED <<alice, sent, began, share>>
    BY <1>2 DEF MtaBobRound2
  <2>2. began[s] \in AliceStates /\ b \in Field /\ key \in [Bits -> Scalars]
    BY <2>1, BitsAssumption
  <2>3. began[s].key \in [Bits -> Scalars]
    BY <2>2, BitsAssumption DEF AliceStates
  <2>4. Responses(began[s].key, b, key) \in [Bits -> Field]
    BY <2>2, <2>3, MessageTypes
  <2>5. [input |-> b, key |-> key, publicKey |-> began[s].key, share |-> None,
         failed |-> FALSE] \in BobStates
    BY <2>3 DEF BobStates
  <2>. QED
    BY ONLY <2>1, <2>4, <2>5, MtaTypeOK DEF MtaTypeOK
<1>3. CASE MtaAliceRound3
  <2>1. PICK s \in Sessions :
          /\ alice.phase = "waiting" /\ response[s] # None
          /\ IF alice.session = s /\ Encryptable(began[s], response[s])
             THEN /\ alice' = [alice EXCEPT !.phase = "done"]
                  /\ share' = [share EXCEPT ![s] = SenderShare(began[s])]
                  /\ sent' = [sent EXCEPT ![s] = Encrypted(began[s], response[s])]
             ELSE /\ alice' = [alice EXCEPT !.phase = "failed"]
                  /\ UNCHANGED <<share, sent>>
          /\ UNCHANGED <<bob, response, began>>
    BY <1>3 DEF MtaAliceRound3, AnswersSession
  <2>2. /\ SenderShare(began[s]) \in Field
        /\ Encrypted(began[s], response[s]) \in [Bits -> Field \X Field]
    BY <2>1, RoundThreeTypes
  <2>3. /\ [alice EXCEPT !.phase = "done"]
              \in [phase : {"idle", "waiting", "done", "failed"}, session : Sessions \cup {None}]
        /\ [alice EXCEPT !.phase = "failed"]
              \in [phase : {"idle", "waiting", "done", "failed"}, session : Sessions \cup {None}]
    OBVIOUS
  <2>4. CASE alice.session = s /\ Encryptable(began[s], response[s])
    <3>1. alice' = [alice EXCEPT !.phase = "done"] /\ UNCHANGED <<bob, response, began>>
      BY <2>1, <2>4
    <3>2. share' \in [Sessions -> Field \cup {None}]
      BY <2>1, <2>2, <2>4
    <3>3. PICK e \in [Bits -> Field \X Field] : sent' = [sent EXCEPT ![s] = e]
      BY <2>1, <2>2, <2>4
    <3>4. sent' \in [Sessions -> [Bits -> Field \X Field] \cup {None}]
      BY ONLY <3>3, MtaTypeOK DEF MtaTypeOK
    <3>. QED
      BY ONLY <2>3, <3>1, <3>2, <3>4, MtaTypeOK DEF MtaTypeOK
  <2>5. CASE ~(alice.session = s /\ Encryptable(began[s], response[s]))
    BY ONLY <2>1, <2>3, <2>5, MtaTypeOK DEF MtaTypeOK
  <2>. QED
    BY <2>4, <2>5
<1>4. CASE MtaBobRound4
  <2>1. PICK s \in Sessions, m \in Sessions :
          /\ bob[s] # None /\ sent[m] # None
          /\ bob' = IF s = m
                    THEN [bob EXCEPT ![s].share = ReceiverShare(bob[s], sent[m])]
                    ELSE [bob EXCEPT ![s].failed = TRUE]
          /\ UNCHANGED <<alice, response, sent, began, share>>
    BY <1>4 DEF MtaBobRound4
  <2>2. bob[s] \in BobStates
    BY <2>1
  <2>3. CASE s = m
    <3>1. Sealed(s)
      BY <2>1, <2>3 DEF ShareInv
    <3>2. PICK r \in Field : r = ReceiverShare(bob[s], sent[s])
      BY <3>1, SealedShares
    <3>3. [bob[s] EXCEPT !.share = r] \in BobStates
      BY <2>2 DEF BobStates
    <3>4. bob' = [bob EXCEPT ![s] = [bob[s] EXCEPT !.share = r]]
      BY <2>1, <2>3, <3>2
    <3>. QED
      BY ONLY <2>1, <3>3, <3>4, MtaTypeOK DEF MtaTypeOK
  <2>4. CASE s # m
    <3>1. [bob[s] EXCEPT !.failed = TRUE] \in BobStates
      BY <2>2 DEF BobStates
    <3>2. bob' = [bob EXCEPT ![s] = [bob[s] EXCEPT !.failed = TRUE]]
      BY <2>1, <2>4
    <3>. QED
      BY ONLY <2>1, <3>1, <3>2, MtaTypeOK DEF MtaTypeOK
  <2>. QED
    BY <2>3, <2>4
<1>5. CASE UNCHANGED mtaVars
  BY <1>5 DEF mtaVars
<1>. QED
  BY <1>1, <1>2, <1>3, <1>4, <1>5 DEF MtaNext

\* The messages and shares of every multiplication are scalars, for every number of
\* sessions and bits (mta-protocol.ts).
THEOREM MtaTypesKept == MtaSpec => []MtaTypeOK
<1>1. MtaInit => MtaTypeOK
  BY DEF MtaInit, MtaTypeOK
<1>2. MtaTypeOK /\ MtaInv /\ ShareInv /\ [MtaNext]_mtaVars => MtaTypeOK'
  BY MtaTypesStep
<1>3. MtaInv /\ ShareInv /\ [MtaNext]_mtaVars => ShareInv'
  BY MtaStep, ShareStep
<1>. QED
  BY <1>1, <1>2, <1>3, MtaInitial, MtaStep, ShareInitial, PTL DEF MtaSpec

-----------------------------------------------------------------------------
\* In a client that runs any one of the four protocols every value keeps to its
\* type; what is proved of the protocol holds in it, for it runs as in its own
\* specification.
THEOREM ProtocolTypesKept == Spec => []TypesOK
<1>1. Init => MtaInit /\ DklsInit /\ PedInit /\ CustodyInit
  BY DEF Init
<1>2. [Next]_vars =>
        [MtaNext]_mtaVars /\ [DklsNext]_dklsVars /\ [PedNext]_pedVars /\ [CustodyNext]_custodyVars
  BY DEF Next, vars
<1>3. Spec => MtaSpec /\ DklsSpec /\ PedSpec /\ CustodySpec
  BY <1>1, <1>2, PTL DEF Spec, MtaSpec, DklsSpec, PedSpec, CustodySpec
<1>4. MtaTypeOK /\ DklsTypeOK /\ PedTypeOK /\ CustodyTypeOK => TypesOK
  BY DEF TypesOK
<1>. QED
  BY <1>3, <1>4, MtaTypesKept, DklsTypesKept, PedTypesKept, CustodyTypesKept, PTL

===============================================================================
