----------------------------- MODULE Induction -----------------------------
(***************************************************************************)
(* Induction on the natural numbers and definition by primitive recursion, *)
(* stated about sets and functions: nothing here takes an operator for a   *)
(* parameter.                                                              *)
(***************************************************************************)
EXTENDS Integers, WellFoundedInduction, TLAPS

(* A set of numbers that is not empty has a least one.                     *)
LEMMA LeastElement ==
  ASSUME NEW T, T \subseteq Nat, T # {}
  PROVE  \E x \in T : \A y \in T : x <= y
<1>. DEFINE R == OpToRel(<, Nat)
<1>1. IsWellFoundedOn(R, Nat)
  BY NatLessThanWellFounded
<1>2. \A x, y \in Nat : y < x => <<y, x>> \in R
  BY DEF OpToRel
<1>. HIDE DEF R
<1>3. PICK x \in T : \A y \in T : <<y, x>> \notin R
  BY <1>1, WFMin
<1>4. \A y \in T : x <= y
  <2>. TAKE y \in T
  <2>1. x \in Nat /\ y \in Nat /\ ~(y < x)
    BY <1>2, <1>3
  <2>. QED  BY <2>1
<1>. QED  BY <1>4

(* A set that holds 0 and, with a number, the next one, holds all numbers. *)
THEOREM Induction ==
  ASSUME NEW S, 0 \in S, \A n \in Nat : n \in S => n + 1 \in S
  PROVE  Nat \subseteq S
<1>. SUFFICES ASSUME Nat \ S # {} PROVE FALSE
  OBVIOUS
<1>1. PICK x \in Nat \ S : \A y \in Nat \ S : x <= y
  BY LeastElement
<1>2. x # 0 /\ x - 1 \in Nat
  OBVIOUS
<1>3. x - 1 \in S
  BY <1>1, <1>2
<1>4. (x - 1) + 1 \in S
  BY <1>2, <1>3
<1>. QED  BY <1>1, <1>4

(* F is defined up to n: the value at 0 is z, and at i + 1 what g makes of *)
(* the value at i.                                                         *)
Defines(g, z, F, n) ==
  F[0] = z /\ \A i \in 0..(n - 1) : F[i + 1] = g[<<i, F[i]>>]

(* Two functions so defined agree.                                         *)
LEMMA DefinesOnce ==
  ASSUME NEW g, NEW z, NEW F, NEW G, NEW n \in Nat, NEW m \in Nat, n <= m,
         Defines(g, z, F, n), Defines(g, z, G, m)
  PROVE  F[n] = G[n]
<1>. DEFINE S == {i \in Nat : i <= n => F[i] = G[i]}
<1>1. 0 \in S
  BY DEF Defines
<1>2. ASSUME NEW i \in Nat, i \in S PROVE i + 1 \in S
  <2>. SUFFICES ASSUME i + 1 <= n PROVE F[i + 1] = G[i + 1]
    OBVIOUS
  <2>1. F[i] = G[i] /\ i \in 0..(n - 1) /\ i \in 0..(m - 1)
    BY <1>2
  <2>. QED  BY <2>1 DEF Defines
<1>. HIDE DEF S
<1>3. Nat \subseteq S
  BY <1>1, <1>2, Induction
<1>. QED  BY <1>3 DEF S

Recursive(g, z, F) == \A n \in Nat : Defines(g, z, F, n)

(* A function can be defined by recursion.                                 *)
LEMMA PrimitiveRecursion ==
  ASSUME NEW T, NEW z \in T, NEW g, g \in [Nat \X T -> T]
  PROVE  \E F \in [Nat -> T] : Recursive(g, z, F)
<1>. DEFINE S == {n \in Nat : \E G \in [0..n -> T] : Defines(g, z, G, n)}
            G(n) == CHOOSE G \in [0..n -> T] : Defines(g, z, G, n)
            F == [n \in Nat |-> G(n)[n]]
<1>1. 0 \in S
  <2>1. [i \in 0..0 |-> z] \in [0..0 -> T] /\ Defines(g, z, [i \in 0..0 |-> z], 0)
    BY DEF Defines
  <2>. QED  BY <2>1
<1>2. ASSUME NEW n \in Nat, n \in S PROVE n + 1 \in S
  <2>1. PICK H \in [0..n -> T] : Defines(g, z, H, n)
    BY <1>2
  <2>. DEFINE K == [i \in 0..(n + 1) |-> IF i = n + 1 THEN g[<<n, H[n]>>] ELSE H[i]]
  <2>2. K \in [0..(n + 1) -> T]
    <3>. SUFFICES ASSUME NEW i \in 0..(n + 1) PROVE K[i] \in T
      OBVIOUS
    <3>1. H[n] \in T /\ <<n, H[n]>> \in Nat \X T
      BY <2>1
    <3>. QED  BY <2>1, <3>1
  <2>3. Defines(g, z, K, n + 1)
    <3>1. K[0] = z
      BY <2>1 DEF Defines
    <3>2. ASSUME NEW i \in 0..((n + 1) - 1) PROVE K[i + 1] = g[<<i, K[i]>>]
      <4>1. K[i] = H[i]
        OBVIOUS
      <4>2. CASE i = n
        <5>1. n + 1 \in 0..(n + 1) /\ i + 1 = n + 1
          BY <4>2
        <5>2. K[i + 1] = g[<<n, H[n]>>]
          BY <5>1
        <5>. QED  BY <4>1, <4>2, <5>2
      <4>3. CASE i # n
        <5>1. i \in 0..(n - 1) /\ i + 1 \in 0..(n + 1) /\ i + 1 # n + 1
          BY <4>3
        <5>2. K[i + 1] = H[i + 1]
          BY <5>1
        <5>. QED  BY <4>1, <5>1, <5>2, <2>1 DEF Defines
      <4>. QED  BY <4>2, <4>3
    <3>. QED  BY <3>1, <3>2 DEF Defines
  <2>. QED  BY <2>2, <2>3
<1>3. \A n \in Nat : \E H \in [0..n -> T] : Defines(g, z, H, n)
  <2>. HIDE DEF S
  <2>1. Nat \subseteq S
    BY <1>1, <1>2, Induction
  <2>. QED  BY <2>1 DEF S
<1>4. \A n \in Nat : G(n) \in [0..n -> T] /\ Defines(g, z, G(n), n)
  BY <1>3
<1>. HIDE DEF G
<1>5. F \in [Nat -> T]
  BY <1>4
<1>6. F[0] = z
  BY <1>4 DEF Defines
<1>7. ASSUME NEW i \in Nat PROVE F[i + 1] = g[<<i, F[i]>>]
  <2>1. F[i + 1] = G(i + 1)[i + 1] /\ F[i] = G(i)[i]
    OBVIOUS
  <2>2. G(i + 1)[i + 1] = g[<<i, G(i + 1)[i]>>]
    <3>1. Defines(g, z, G(i + 1), i + 1) /\ i \in 0..((i + 1) - 1)
      BY <1>4
    <3>. QED  BY <3>1 DEF Defines
  <2>3. G(i)[i] = G(i + 1)[i]
    BY <1>4, DefinesOnce
  <2>. QED  BY <2>1, <2>2, <2>3
<1>. HIDE DEF F
<1>8. Recursive(g, z, F)
  BY <1>6, <1>7 DEF Recursive, Defines
<1>. QED  BY <1>5, <1>8

(* The form in which a recursive function is written in a definition.      *)
IsRecursive(g, z, F) ==
  F = [i \in Nat |-> IF i = 0 THEN z ELSE g[<<i - 1, F[i - 1]>>]]

(* What a recursive definition describes exists.                           *)
THEOREM RecursiveFunction ==
  ASSUME NEW T, NEW z \in T, NEW g, g \in [Nat \X T -> T]
  PROVE  \E F \in [Nat -> T] : IsRecursive(g, z, F)
<1>1. PICK F \in [Nat -> T] : Recursive(g, z, F)
  BY PrimitiveRecursion
<1>2. ASSUME NEW i \in Nat, i # 0 PROVE F[i] = g[<<i - 1, F[i - 1]>>]
  <2>1. i - 1 \in 0..(i - 1) /\ (i - 1) + 1 = i
    BY <1>2
  <2>. QED  BY <1>1, <2>1 DEF Recursive, Defines
<1>3. F[0] = z
  BY <1>1 DEF Recursive, Defines
<1>. QED  BY <1>1, <1>2, <1>3 DEF IsRecursive

(* The same up to a bound.                                                 *)
IsRecursiveUpTo(g, z, F, n) ==
  F = [i \in 0..n |-> IF i = 0 THEN z ELSE g[<<i - 1, F[i - 1]>>]]

(* What a definition with a bound describes exists.                        *)
THEOREM RecursiveUpTo ==
  ASSUME NEW T, NEW z \in T, NEW g, g \in [Nat \X T -> T], NEW n \in Nat
  PROVE  \E F \in [0..n -> T] : IsRecursiveUpTo(g, z, F, n)
<1>1. PICK F \in [Nat -> T] : IsRecursive(g, z, F)
  BY RecursiveFunction
<1>. DEFINE G == [i \in 0..n |-> F[i]]
<1>2. G \in [0..n -> T]
  BY <1>1
<1>3. ASSUME NEW i \in 0..n
      PROVE  F[i] = IF i = 0 THEN z ELSE g[<<i - 1, G[i - 1]>>]
  <2>1. i # 0 => i - 1 \in 0..n
    OBVIOUS
  <2>2. i # 0 => G[i - 1] = F[i - 1]
    BY <2>1
  <2>3. F[i] = IF i = 0 THEN z ELSE g[<<i - 1, F[i - 1]>>]
    BY <1>1 DEF IsRecursive
  <2>. HIDE DEF G
  <2>. QED  BY <2>2, <2>3
<1>4. IsRecursiveUpTo(g, z, G, n)
  BY <1>3 DEF IsRecursiveUpTo
<1>. QED  BY <1>2, <1>4

(* A function on D that goes on from s to nx[s] until it gets to halt,     *)
(* where its value is v's.                                                 *)
IsTailRecursive(D, halt, v, nx, F) ==
  F = [s \in D |-> IF s \in halt THEN v[s] ELSE F[nx[s]]]

(* What such a definition describes exists, if it gets to halt from        *)
(* everywhere.                                                             *)
THEOREM TailRecursion ==
  ASSUME NEW D, NEW halt, halt \subseteq D, NEW V, NEW v \in [D -> V], NEW nx \in [D -> D],
         \A T \in SUBSET D : (halt \subseteq T /\ \A s \in D : nx[s] \in T => s \in T) => T = D
  PROVE  \E F \in [D -> V] : IsTailRecursive(D, halt, v, nx, F)
<1>. DEFINE go == [s \in D |-> IF s \in halt THEN s ELSE nx[s]]
            id == [s \in D |-> s]
            g  == [x \in Nat \X [D -> D] |-> [s \in D |-> x[2][go[s]]]]
<1>1. go \in [D -> D] /\ id \in [D -> D]
  OBVIOUS
<1>2. /\ \A s \in halt : go[s] = s
      /\ \A s \in D \ halt : go[s] = nx[s]
      /\ \A s \in D : id[s] = s
  OBVIOUS
<1>. HIDE DEF go, id
<1>3. g \in [Nat \X [D -> D] -> [D -> D]]
  BY <1>1
<1>4. PICK It \in [Nat -> [D -> D]] : Recursive(g, id, It)
  <2>. HIDE DEF g
  <2>. QED  BY <1>1, <1>3, PrimitiveRecursion
<1>5. \A s \in D : It[0][s] = s
  BY <1>2, <1>4 DEF Recursive, Defines
<1>6. ASSUME NEW k \in Nat, NEW s \in D PROVE It[k + 1][s] = It[k][go[s]]
  <2>1. k \in 0..((k + 1) - 1)
    OBVIOUS
  <2>2. It[k + 1] = g[<<k, It[k]>>]
    <3>. HIDE DEF g
    <3>. QED  BY <1>4, <2>1 DEF Recursive, Defines
  <2>. QED  BY <1>4, <2>2
<1>7. \A k \in Nat : \A s \in D : It[k][s] \in D
  BY <1>4
<1>. HIDE DEF g
(* Once there, it stays there. *)
<1>8. \A k \in Nat : \A s \in D : It[k][s] \in halt => It[k + 1][s] = It[k][s]
  <2>. DEFINE S == {k \in Nat : \A s \in D : It[k][s] \in halt => It[k + 1][s] = It[k][s]}
  <2>1. 0 \in S
    <3>1. ASSUME NEW s \in D, It[0][s] \in halt PROVE It[0 + 1][s] = It[0][s]
      BY <1>2, <1>5, <1>6, <3>1
    <3>. QED  BY <3>1
  <2>2. ASSUME NEW k \in Nat, k \in S PROVE k + 1 \in S
    <3>1. ASSUME NEW s \in D, It[k + 1][s] \in halt PROVE It[(k + 1) + 1][s] = It[k + 1][s]
      <4>1. go[s] \in D /\ k + 1 \in Nat
        BY <1>1
      <4>2. It[k + 1][s] = It[k][go[s]] /\ It[(k + 1) + 1][s] = It[k + 1][go[s]]
        BY <1>6, <4>1
      <4>3. It[k + 1][go[s]] = It[k][go[s]]
        BY <2>2, <3>1, <4>1, <4>2
      <4>. QED  BY <4>2, <4>3
    <3>. QED  BY <3>1
  <2>. HIDE DEF S
  <2>3. Nat \subseteq S
    BY <2>1, <2>2, Induction
  <2>. QED  BY <2>3 DEF S
<1>9. ASSUME NEW j \in Nat, NEW k \in Nat, NEW s \in D, j <= k, It[j][s] \in halt
      PROVE  It[k][s] = It[j][s]
  <2>. DEFINE S == {i \in Nat : It[j + i][s] = It[j][s]}
  <2>1. 0 \in S
    OBVIOUS
  <2>2. ASSUME NEW i \in Nat, i \in S PROVE i + 1 \in S
    <3>1. j + i \in Nat /\ j + (i + 1) = (j + i) + 1
      OBVIOUS
    <3>2. It[j + i][s] = It[j][s]
      BY <2>2
    <3>3. It[(j + i) + 1][s] = It[j + i][s]
      BY <1>8, <1>9, <3>1, <3>2
    <3>. QED  BY <3>1, <3>2, <3>3
  <2>. HIDE DEF S
  <2>3. k - j \in S
    <3>1. Nat \subseteq S
      BY <2>1, <2>2, Induction
    <3>2. k - j \in Nat
      BY <1>9
    <3>. QED  BY <3>1, <3>2
  <2>4. j + (k - j) = k
    OBVIOUS
  <2>. QED  BY <2>3, <2>4 DEF S
<1>10. ASSUME NEW j \in Nat, NEW k \in Nat, NEW s \in D, It[j][s] \in halt, It[k][s] \in halt
       PROVE  It[k][s] = It[j][s]
  <2>1. CASE j <= k
    BY <1>9, <1>10, <2>1
  <2>2. CASE k <= j
    BY <1>9, <1>10, <2>2
  <2>. QED  BY <2>1, <2>2
<1>11. \A s \in D : \E k \in Nat : It[k][s] \in halt
  <2>. DEFINE T == {s \in D : \E k \in Nat : It[k][s] \in halt}
  <2>1. halt \subseteq T
    <3>1. 0 \in Nat
      OBVIOUS
    <3>. QED  BY <1>5, <3>1
  <2>2. ASSUME NEW s \in D, nx[s] \in T PROVE s \in T
    <3>1. CASE s \in halt
      BY <2>1, <3>1
    <3>2. CASE s \notin halt
      <4>1. PICK k \in Nat : It[k][nx[s]] \in halt
        BY <2>2
      <4>2. It[k + 1][s] \in halt /\ k + 1 \in Nat
        BY <1>2, <1>6, <3>2, <4>1
      <4>. QED  BY <4>2
    <3>. QED  BY <3>1, <3>2
  <2>3. T \in SUBSET D
    OBVIOUS
  <2>. HIDE DEF T
  <2>4. T = D
    BY <2>1, <2>2, <2>3
  <2>. QED  BY <2>4 DEF T
<1>. DEFINE K(s) == CHOOSE k \in Nat : It[k][s] \in halt
            F == [s \in D |-> v[It[K(s)][s]]]
<1>12. \A s \in D : K(s) \in Nat /\ It[K(s)][s] \in halt
  BY <1>11
<1>. HIDE DEF K
<1>13. F \in [D -> V]
  BY <1>7, <1>12
<1>14. ASSUME NEW s \in D PROVE F[s] = IF s \in halt THEN v[s] ELSE F[nx[s]]
  <2>1. CASE s \in halt
    <3>1. It[0][s] \in halt /\ 0 \in Nat /\ It[0][s] = s
      BY <1>5, <2>1
    <3>2. It[K(s)][s] = s
      BY <1>10, <1>12, <3>1
    <3>. QED  BY <2>1, <3>2
  <2>2. CASE s \notin halt
    <3>. DEFINE u == nx[s]
    <3>1. u \in D /\ go[s] = u
      BY <1>2, <2>2
    <3>. HIDE DEF u
    <3>2. It[K(u) + 1][s] = It[K(u)][u] /\ K(u) + 1 \in Nat
      <4>1. PICK k \in Nat : k = K(u)
        BY <1>12, <3>1
      <4>2. It[k + 1][s] = It[k][u] /\ k + 1 \in Nat
        BY <1>6, <3>1
      <4>. QED  BY <4>1, <4>2
    <3>3. It[K(s)][s] = It[K(u)][u]
      BY <1>10, <1>12, <3>1, <3>2
    <3>. QED  BY <2>2, <3>1, <3>3 DEF u
  <2>. QED  BY <2>1, <2>2
<1>15. IsTailRecursive(D, halt, v, nx, F)
  <2>1. F = [s \in D |-> F[s]]
    OBVIOUS
  <2>. HIDE DEF F
  <2>. QED  BY <1>14, <2>1 DEF IsTailRecursive
<1>. QED  BY <1>13, <1>15

(* Adding to a remainder: a counter that wraps counts modulo its range.    *)
LEMMA RemainderAdd ==
  ASSUME NEW m \in Nat \ {0}, NEW a \in Nat, NEW b \in Nat
  PROVE  ((a % m) + b) % m = (a + b) % m
<1>. DEFINE q == a \div m
            r == a % m
<1>1. a = (m * q) + r /\ q \in Int /\ r \in Int
  OBVIOUS
<1>2. a + b = (m * q) + (r + b)
  BY <1>1
<1>. HIDE DEF q, r
<1>3. ASSUME NEW c \in Int PROVE ((m * q) + c) % m = c % m
  <2>. DEFINE u == c \div m
              v == c % m
  <2>1. c = (m * u) + v /\ u \in Int /\ v \in 0..(m - 1)
    OBVIOUS
  <2>. HIDE DEF u, v
  <2>2. (m * q) + c = ((q + u) * m) + v
    BY <1>1, <2>1
  <2>3. \A x \in Int : \A y \in 0..(m - 1) : ((x * m) + y) % m = y
    OBVIOUS
  <2>4. (((q + u) * m) + v) % m = v
    BY <2>1, <2>3, <1>1
  <2>. QED  BY <2>2, <2>4 DEF v
<1>4. (a + b) % m = (r + b) % m
  <2>1. r + b \in Int
    BY <1>1
  <2>. QED  BY <1>2, <1>3, <2>1
<1>. QED  BY <1>4 DEF r
=============================================================================
