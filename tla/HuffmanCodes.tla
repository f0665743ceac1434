--------------------------- MODULE HuffmanCodes ----------------------------
(***************************************************************************)
(* The canonical codes of Huffman, for codes of every width: they are       *)
(* prefixes of one another never, and of every string if they are complete.*)
(***************************************************************************)
EXTENDS Huffman, Induction, FiniteSetTheorems

---------------------------------------------------------------------------
(* Powers of two and the numbers that bits stand for *)

(* The equations of Power.                                                 *)
LEMMA PowerEquations ==
  /\ Power[0] = 1
  /\ \A n \in Nat : Power[n] \in Nat \ {0} /\ Power[n + 1] = 2 * Power[n]
<1>. DEFINE g == [x \in Nat \X Nat |-> 2 * x[2]]
            Is(F) == F = [n \in Nat |-> IF n = 0 THEN 1 ELSE 2 * F[n - 1]]
            P == CHOOSE F : Is(F)
<1>1. g \in [Nat \X Nat -> Nat]
  OBVIOUS
<1>2. PICK F \in [Nat -> Nat] : IsRecursive(g, 1, F)
  <2>. HIDE DEF g
  <2>. QED  BY <1>1, RecursiveFunction
<1>3. Is(F)
  <2>1. ASSUME NEW n \in Nat, n # 0
        PROVE  g[<<n - 1, F[n - 1]>>] = 2 * F[n - 1]
    BY <2>1
  <2>. QED  BY <1>2, <2>1 DEF IsRecursive
<1>4. Is(P)
  BY <1>3
<1>. HIDE DEF P
<1>5. Power = P
  BY DEF Power, P
<1>6. P[0] = 1
  BY <1>4
<1>7. ASSUME NEW n \in Nat PROVE P[n + 1] = 2 * P[n]
  <2>1. n + 1 \in Nat /\ n + 1 # 0 /\ (n + 1) - 1 = n
    OBVIOUS
  <2>. QED  BY <1>4, <2>1
<1>8. \A n \in Nat : P[n] \in Nat \ {0}
  <2>. DEFINE S == {n \in Nat : P[n] \in Nat \ {0}}
  <2>1. 0 \in S
    BY <1>6
  <2>2. ASSUME NEW n \in Nat, n \in S PROVE n + 1 \in S
    BY <1>7, <2>2
  <2>. HIDE DEF S
  <2>3. Nat \subseteq S
    BY <2>1, <2>2, Induction
  <2>. QED  BY <2>3 DEF S
<1>. QED  BY <1>5, <1>6, <1>7, <1>8

(* The sums that Number is computed by.                                    *)
LEMMA NumberSums ==
  ASSUME NEW s \in Seq(Bit)
  PROVE  \E N \in [0..Len(s) -> Nat] :
           /\ N[0] = 0 /\ Number(s) = N[Len(s)]
           /\ \A k \in 1..Len(s) : N[k] = N[k - 1] + (IF s[k] = 1 THEN Power[k - 1] ELSE 0)
<1>. DEFINE L == Len(s)
            Digit(k) == IF s[k] = 1 THEN Power[k - 1] ELSE 0
            g == [x \in Nat \X Nat |-> x[2] + IF x[1] + 1 \in 1..L THEN Digit(x[1] + 1) ELSE 0]
            Is(F) == F = [k \in 0..L |-> IF k = 0 THEN 0 ELSE F[k - 1] + Digit(k)]
            N == CHOOSE F : Is(F)
<1>0. L \in Nat
  OBVIOUS
<1>. HIDE DEF L
<1>1. \A k \in 1..L : Digit(k) \in Nat
  <2>. TAKE k \in 1..L
  <2>1. k - 1 \in Nat
    BY <1>0
  <2>2. Power[k - 1] \in Nat
    BY <2>1, PowerEquations
  <2>. QED  BY <2>2
<1>. HIDE DEF Digit
<1>2. g \in [Nat \X Nat -> Nat]
  BY <1>1
<1>3. PICK F \in [0..L -> Nat] : IsRecursiveUpTo(g, 0, F, L)
  <2>. HIDE DEF g
  <2>1. 0 \in Nat
    OBVIOUS
  <2>. QED  BY <1>0, <1>2, <2>1, RecursiveUpTo
<1>4. Is(F)
  <2>1. ASSUME NEW k \in 0..L, k # 0
        PROVE  g[<<k - 1, F[k - 1]>>] = F[k - 1] + Digit(k)
    <3>1. k - 1 \in Nat /\ k - 1 \in 0..L /\ (k - 1) + 1 = k /\ k \in 1..L
      BY <1>0, <2>1
    <3>2. F[k - 1] \in Nat
      BY <1>3, <3>1
    <3>. QED  BY <3>1, <3>2
  <2>. HIDE DEF g
  <2>. QED  BY <1>3, <2>1 DEF IsRecursiveUpTo
<1>5. Is(N)
  BY <1>4
<1>. HIDE DEF N
<1>6. Number(s) = N[L]
  BY DEF Number, N, L, Digit
<1>7. N[0] = 0
  BY <1>0, <1>5
<1>8. \A k \in 1..L : N[k] = N[k - 1] + Digit(k)
  BY <1>0, <1>5
<1>9. N \in [0..L -> Nat]
  <2>. DEFINE S == {k \in Nat : k <= L => N[k] \in Nat}
  <2>1. 0 \in S
    BY <1>7
  <2>2. ASSUME NEW k \in Nat, k \in S PROVE k + 1 \in S
    <3>. SUFFICES ASSUME k + 1 <= L PROVE N[k + 1] \in Nat
      OBVIOUS
    <3>1. k + 1 \in 1..L /\ (k + 1) - 1 = k /\ k <= L
      BY <1>0
    <3>2. N[k] \in Nat
      BY <2>2, <3>1
    <3>. QED  BY <1>1, <1>8, <3>1, <3>2
  <2>. HIDE DEF S
  <2>3. Nat \subseteq S
    BY <2>1, <2>2, Induction
  <2>4. \A k \in 0..L : N[k] \in Nat
    BY <1>0, <2>3 DEF S
  <2>5. N = [k \in 0..L |-> N[k]]
    BY <1>5
  <2>. QED  BY <2>4, <2>5
<1>. QED  BY <1>6, <1>7, <1>8, <1>9 DEF L, Digit

(* A field of bits is a number less than its power of two.                 *)
LEMMA NumberBound ==
  ASSUME NEW s \in Seq(Bit)
  PROVE  Number(s) \in Nat /\ Number(s) < Power[Len(s)]
<1>. DEFINE L == Len(s)
<1>0. L \in Nat
  OBVIOUS
<1>1. PICK N \in [0..L -> Nat] :
        /\ N[0] = 0 /\ Number(s) = N[L]
        /\ \A k \in 1..L : N[k] = N[k - 1] + (IF s[k] = 1 THEN Power[k - 1] ELSE 0)
  BY NumberSums
<1>. HIDE DEF L
<1>. DEFINE S == {k \in Nat : k <= L => N[k] < Power[k]}
<1>9. 0 \in S
  BY <1>1, PowerEquations
<1>10. ASSUME NEW k \in Nat, k \in S PROVE k + 1 \in S
  <2>. SUFFICES ASSUME k + 1 <= L PROVE N[k + 1] < Power[k + 1]
    OBVIOUS
  <2>1. k + 1 \in 1..L /\ (k + 1) - 1 = k /\ k \in 0..L
    BY <1>0
  <2>2. N[k] \in Nat /\ N[k] < Power[k]
    BY <1>1, <1>10, <2>1
  <2>4. Power[k] \in Nat /\ Power[k + 1] = 2 * Power[k]
    BY PowerEquations
  <2>6. N[k + 1] = N[k] + (IF s[k + 1] = 1 THEN Power[k] ELSE 0)
    BY <1>1, <2>1
  <2>3. N[k + 1] <= N[k] + Power[k]
    BY <2>2, <2>4, <2>6
  <2>5. N[k + 1] \in Nat
    BY <1>0, <1>1, <2>1
  <2>. QED  BY <2>2, <2>3, <2>4, <2>5
<1>. HIDE DEF S
<1>11. Nat \subseteq S
  BY <1>9, <1>10, Induction
<1>12. N[L] \in Nat /\ N[L] < Power[L]
  BY <1>0, <1>1, <1>11 DEF S
<1>. QED  BY <1>1, <1>12 DEF L

(* The number that the first n bits of x are with the highest first.       *)
IsValue(x, v) ==
  /\ v \in [0..Len(x) -> Nat] /\ v[0] = 0
  /\ \A k \in 1..Len(x) : v[k] = 2 * v[k - 1] + x[k]

Value(x) == CHOOSE v : IsValue(x, v)

(* There is such a number.                                                 *)
LEMMA ValueIs ==
  ASSUME NEW x \in Seq(Bit)
  PROVE  IsValue(x, Value(x))
<1>. DEFINE L == Len(x)
            g == [y \in Nat \X Nat |-> IF y[1] + 1 \in 1..L THEN 2 * y[2] + x[y[1] + 1] ELSE 0]
<1>0. L \in Nat /\ \A k \in 1..L : x[k] \in Nat
  BY DEF Bit
<1>. HIDE DEF L
<1>1. g \in [Nat \X Nat -> Nat]
  BY <1>0
<1>2. PICK v \in [0..L -> Nat] : IsRecursiveUpTo(g, 0, v, L)
  <2>. HIDE DEF g
  <2>1. 0 \in Nat
    OBVIOUS
  <2>. QED  BY <1>0, <1>1, <2>1, RecursiveUpTo
<1>3. v[0] = 0
  BY <1>0, <1>2 DEF IsRecursiveUpTo
<1>4. ASSUME NEW k \in 1..L PROVE v[k] = 2 * v[k - 1] + x[k]
  <2>1. k \in 0..L /\ k # 0 /\ k - 1 \in 0..L /\ (k - 1) + 1 = k /\ k - 1 \in Nat
    BY <1>0
  <2>2. v[k - 1] \in Nat
    BY <1>2, <2>1
  <2>3. v[k] = g[<<k - 1, v[k - 1]>>]
    <3>. HIDE DEF g
    <3>. QED  BY <1>2, <2>1 DEF IsRecursiveUpTo
  <2>. QED  BY <2>1, <2>2, <2>3
<1>5. IsValue(x, v)
  BY <1>2, <1>3, <1>4 DEF IsValue, L
<1>. QED  BY <1>5 DEF Value

(* The values of x follow from its bits.                                   *)
LEMMA ValueStep ==
  ASSUME NEW x \in Seq(Bit)
  PROVE  /\ Value(x)[0] = 0 /\ \A k \in 0..Len(x) : Value(x)[k] \in Nat
         /\ \A k \in 0..(Len(x) - 1) :
              Value(x)[k + 1] = 2 * Value(x)[k] + x[k + 1] /\ x[k + 1] \in Bit
<1>1. IsValue(x, Value(x))
  BY ValueIs
<1>2. ASSUME NEW k \in 0..(Len(x) - 1)
      PROVE  Value(x)[k + 1] = 2 * Value(x)[k] + x[k + 1] /\ x[k + 1] \in Bit
  <2>1. k + 1 \in 1..Len(x) /\ (k + 1) - 1 = k
    OBVIOUS
  <2>. QED  BY <1>1, <2>1 DEF IsValue
<1>. QED  BY <1>1, <1>2 DEF IsValue

(* The first n bits are a number less than the power of n.                 *)
LEMMA ValueBound ==
  ASSUME NEW x \in Seq(Bit), NEW n \in Nat, n <= Len(x)
  PROVE  Value(x)[n] \in 0..(Power[n] - 1)
<1>. DEFINE L == Len(x)
            V == Value(x)
            S == {k \in Nat : k <= L => V[k] < Power[k]}
<1>0. L \in Nat
  OBVIOUS
<1>1. /\ V[0] = 0 /\ \A k \in 0..L : V[k] \in Nat
      /\ \A k \in 0..(L - 1) : V[k + 1] = 2 * V[k] + x[k + 1] /\ x[k + 1] \in {0, 1}
  BY ValueStep DEF Bit
<1>. HIDE DEF L, V
<1>2. 0 \in S
  <2>1. V[0] = 0 /\ Power[0] = 1
    BY <1>1, PowerEquations
  <2>. QED  BY <2>1
<1>3. ASSUME NEW k \in Nat, k \in S PROVE k + 1 \in S
  <2>. SUFFICES ASSUME k + 1 <= L PROVE V[k + 1] < Power[k + 1]
    OBVIOUS
  <2>1. k \in 0..(L - 1) /\ k \in 0..L /\ k <= L
    BY <1>0
  <2>2. PICK v \in Nat, e \in {0, 1} : v = V[k] /\ V[k + 1] = 2 * v + e
    BY <1>1, <2>1
  <2>3. PICK p \in Nat : p = Power[k] /\ Power[k + 1] = 2 * p
    BY PowerEquations
  <2>4. v < p
    BY <1>3, <2>1, <2>2, <2>3
  <2>5. 2 * v + e < 2 * p
    BY <2>4
  <2>. QED  BY <2>2, <2>3, <2>5
<1>. HIDE DEF S
<1>4. Nat \subseteq S
  BY <1>2, <1>3, Induction
<1>5. n <= L /\ n \in 0..L
  BY <1>0 DEF L
<1>6. V[n] \in Nat /\ V[n] < Power[n]
  BY <1>1, <1>4, <1>5 DEF S
<1>7. Power[n] \in Nat
  BY PowerEquations
<1>. QED  BY <1>6, <1>7 DEF V

(* More bits set make a greater value.                                     *)
LEMMA ValueMonotone ==
  ASSUME NEW x \in Seq(Bit), NEW y \in Seq(Bit), NEW n \in Nat, n <= Len(x), n <= Len(y),
         \A k \in 1..n : x[k] = y[k] \/ x[k] = 0
  PROVE  Value(x)[n] <= Value(y)[n]
<1>. DEFINE S == {k \in Nat : k <= n => Value(x)[k] <= Value(y)[k]}
<1>1. 0 \in S
  <2>1. Value(x)[0] = 0 /\ Value(y)[0] = 0
    BY ValueStep
  <2>. QED  BY <2>1
<1>2. ASSUME NEW k \in Nat, k \in S PROVE k + 1 \in S
  <2>. SUFFICES ASSUME k + 1 <= n PROVE Value(x)[k + 1] <= Value(y)[k + 1]
    OBVIOUS
  <2>1. Len(x) \in Nat /\ Len(y) \in Nat
    OBVIOUS
  <2>2. k \in 0..(Len(x) - 1) /\ k \in 0..(Len(y) - 1) /\ k + 1 \in 1..n /\ k \in 0..Len(x) /\ k \in 0..Len(y)
    BY <2>1
  <2>3. PICK v \in Nat, d \in {0, 1} : v = Value(x)[k] /\ d = x[k + 1] /\ Value(x)[k + 1] = 2 * v + d
    BY <2>2, ValueStep DEF Bit
  <2>4. PICK w \in Nat, e \in {0, 1} : w = Value(y)[k] /\ e = y[k + 1] /\ Value(y)[k + 1] = 2 * w + e
    BY <2>2, ValueStep DEF Bit
  <2>5. v <= w
    BY <1>2, <2>3, <2>4
  <2>6. d <= e
    BY <2>2, <2>3, <2>4
  <2>7. 2 * v + d <= 2 * w + e
    BY <2>5, <2>6
  <2>. QED  BY <2>3, <2>4, <2>7
<1>. HIDE DEF S
<1>3. Nat \subseteq S
  BY <1>1, <1>2, Induction
<1>. QED  BY <1>3 DEF S

(* Two strings that begin alike have the same values there.                *)
LEMMA ValueSame ==
  ASSUME NEW x \in Seq(Bit), NEW y \in Seq(Bit), NEW n \in Nat, n <= Len(x), n <= Len(y),
         \A k \in 1..n : x[k] = y[k]
  PROVE  \A k \in 0..n : Value(x)[k] = Value(y)[k]
<1>. DEFINE S == {k \in Nat : k <= n => Value(x)[k] = Value(y)[k]}
<1>1. 0 \in S
  BY ValueStep
<1>2. ASSUME NEW k \in Nat, k \in S PROVE k + 1 \in S
  <2>. SUFFICES ASSUME k + 1 <= n PROVE Value(x)[k + 1] = Value(y)[k + 1]
    OBVIOUS
  <2>1. Len(x) \in Nat /\ Len(y) \in Nat
    OBVIOUS
  <2>2. k \in 0..(Len(x) - 1) /\ k \in 0..(Len(y) - 1) /\ k + 1 \in 1..n
    BY <2>1
  <2>3. Value(x)[k + 1] = 2 * Value(x)[k] + x[k + 1] /\ Value(y)[k + 1] = 2 * Value(y)[k] + y[k + 1]
    BY <2>2, ValueStep
  <2>4. Value(x)[k] = Value(y)[k] /\ x[k + 1] = y[k + 1]
    BY <1>2, <2>2
  <2>. QED  BY <2>3, <2>4
<1>. HIDE DEF S
<1>3. Nat \subseteq S
  BY <1>1, <1>2, Induction
<1>. QED  BY <1>3 DEF S

(* Dividing by a power of two takes the lowest bits away one by one.       *)
LEMMA DivPower ==
  ASSUME NEW c \in Nat, NEW n \in Nat
  PROVE  /\ c \div Power[n] \in Nat
         /\ c \div Power[n + 1] = (c \div Power[n]) \div 2
<1>1. PICK p \in Nat \ {0} : p = Power[n] /\ Power[n + 1] = 2 * p
  BY PowerEquations
<1>. DEFINE q == c \div p
            r == c % p
<1>2. c = (p * q) + r /\ q \in Nat /\ r \in 0..(p - 1)
  OBVIOUS
<1>. HIDE DEF q, r
<1>3. PICK u \in Nat, v \in {0, 1} : q = 2 * u + v
  <2>1. q = 2 * (q \div 2) + (q % 2) /\ q \div 2 \in Nat /\ q % 2 \in {0, 1}
    BY <1>2
  <2>. QED  BY <2>1
<1>4. q \div 2 = u
  BY <1>3
<1>5. c = ((2 * p) * u) + ((p * v) + r)
  BY <1>2, <1>3
<1>6. (p * v) + r \in 0..((2 * p) - 1)
  <2>1. CASE v = 0
    BY <1>2, <2>1
  <2>2. CASE v = 1
    BY <1>2, <2>2
  <2>. QED  BY <2>1, <2>2
<1>7. c \div (2 * p) = u
  <2>1. \A m \in Nat \ {0} : \A w \in 0..(m - 1) : ((m * u) + w) \div m = u
    OBVIOUS
  <2>2. 2 * p \in Nat \ {0}
    OBVIOUS
  <2>. QED  BY <1>5, <1>6, <2>1, <2>2
<1>. QED  BY <1>1, <1>2, <1>4, <1>7 DEF q

(* A code word is its number's bits.                                       *)
LEMMA WordType ==
  ASSUME NEW c \in Nat, NEW n \in Nat
  PROVE  /\ Word(c, n) \in Seq(Bit) /\ Len(Word(c, n)) = n
         /\ \A k \in 1..n : Word(c, n)[k] = (c \div Power[n - k]) % 2
<1>1. ASSUME NEW k \in 1..n PROVE (c \div Power[n - k]) % 2 \in Bit
  <2>1. n - k \in Nat
    OBVIOUS
  <2>2. c \div Power[n - k] \in Nat
    BY <2>1, DivPower
  <2>3. \A q \in Nat : q % 2 \in {0, 1}
    OBVIOUS
  <2>. QED  BY <2>2, <2>3 DEF Bit
<1>. DEFINE w == [k \in 1..n |-> (c \div Power[n - k]) % 2]
<1>2. w \in [1..n -> Bit]
  BY <1>1
<1>3. w \in Seq(Bit) /\ Len(w) = n
  <2>. HIDE DEF w
  <2>. QED  BY <1>2
<1>. QED  BY <1>3 DEF Word

(* The value of the word for c is c.                                       *)
LEMMA WordValue ==
  ASSUME NEW n \in Nat, NEW c \in 0..(Power[n] - 1)
  PROVE  Value(Word(c, n))[n] = c
<1>. DEFINE w == Word(c, n)
            S == {k \in Nat : k <= n => Value(w)[k] = c \div Power[n - k]}
<1>0. c \in Nat /\ Power[n] \in Nat /\ c < Power[n]
  BY PowerEquations
<1>1. w \in Seq(Bit) /\ Len(w) = n /\ \A k \in 1..n : w[k] = (c \div Power[n - k]) % 2
  BY <1>0, WordType
<1>. HIDE DEF w
<1>2. 0 \in S
  <2>1. \A p \in Nat : c < p => c \div p = 0
    BY <1>0
  <2>2. c \div Power[n] = 0
    BY <1>0, <2>1
  <2>. QED  BY <1>1, <2>2, ValueStep
<1>3. ASSUME NEW k \in Nat, k \in S PROVE k + 1 \in S
  <2>. SUFFICES ASSUME k + 1 <= n PROVE Value(w)[k + 1] = c \div Power[n - (k + 1)]
    OBVIOUS
  <2>1. PICK m \in Nat : m = n - (k + 1) /\ m + 1 = n - k
    OBVIOUS
  <2>2. PICK q \in Nat : q = c \div Power[m] /\ c \div Power[m + 1] = q \div 2
    BY <1>0, DivPower
  <2>3. Value(w)[k] = q \div 2
    BY <1>3, <2>1, <2>2
  <2>4. w[k + 1] = q % 2
    <3>1. k + 1 \in 1..n
      OBVIOUS
    <3>. QED  BY <1>1, <2>1, <2>2, <3>1
  <2>5. k \in 0..(Len(w) - 1)
    BY <1>1
  <2>6. Value(w)[k + 1] = 2 * (q \div 2) + (q % 2)
    BY <1>1, <2>3, <2>4, <2>5, ValueStep
  <2>7. q = 2 * (q \div 2) + (q % 2)
    OBVIOUS
  <2>. QED  BY <2>1, <2>2, <2>6, <2>7
<1>. HIDE DEF S
<1>4. Nat \subseteq S
  BY <1>2, <1>3, Induction
<1>5. Value(w)[n] = c \div Power[n - n]
  BY <1>4 DEF S
<1>6. n - n = 0 /\ Power[0] = 1 /\ c \div 1 = c
  BY <1>0, PowerEquations
<1>. QED  BY <1>5, <1>6 DEF w

(* The bits of x are those of its values.                                  *)
LEMMA ValueBits ==
  ASSUME NEW x \in Seq(Bit), NEW n \in Nat, n <= Len(x)
  PROVE  \A k \in 1..n : Word(Value(x)[n], n)[k] = x[k]
<1>. DEFINE S == {d \in Nat : d <= n => Value(x)[n - d] = Value(x)[n] \div Power[d]}
<1>0. Value(x)[n] \in Nat /\ Len(x) \in Nat
  BY ValueStep
<1>1. 0 \in S
  <2>1. n - 0 = n /\ Power[0] = 1
    BY PowerEquations
  <2>2. \A q \in Nat : q \div 1 = q
    OBVIOUS
  <2>. QED  BY <1>0, <2>1, <2>2
<1>2. ASSUME NEW d \in Nat, d \in S PROVE d + 1 \in S
  <2>. SUFFICES ASSUME d + 1 <= n PROVE Value(x)[n - (d + 1)] = Value(x)[n] \div Power[d + 1]
    OBVIOUS
  <2>1. PICK k \in Nat : k = n - (d + 1) /\ k + 1 = n - d /\ k \in 0..(Len(x) - 1)
    BY <1>0
  <2>2. Value(x)[k + 1] = 2 * Value(x)[k] + x[k + 1] /\ x[k + 1] \in {0, 1} /\ Value(x)[k] \in Nat
    <3>1. k \in 0..Len(x)
      BY <1>0, <2>1
    <3>. QED  BY <2>1, <3>1, ValueStep DEF Bit
  <2>3. Value(x)[k] = Value(x)[k + 1] \div 2
    <3>1. \A q \in Nat : \A d1 \in {0, 1} : (2 * q + d1) \div 2 = q
      OBVIOUS
    <3>. QED  BY <2>2, <3>1
  <2>4. Value(x)[k + 1] = Value(x)[n] \div Power[d]
    BY <1>2, <2>1
  <2>5. Value(x)[n] \div Power[d + 1] = (Value(x)[n] \div Power[d]) \div 2
    BY <1>0, DivPower
  <2>. QED  BY <2>1, <2>3, <2>4, <2>5
<1>. HIDE DEF S
<1>3. Nat \subseteq S
  BY <1>1, <1>2, Induction
<1>. TAKE k \in 1..n
<1>4. PICK d \in Nat : d = n - k /\ d <= n
  OBVIOUS
<1>5. Value(x)[k] = Value(x)[n] \div Power[d]
  <2>1. n - d = k
    BY <1>4
  <2>. QED  BY <1>3, <1>4, <2>1 DEF S
<1>6. Word(Value(x)[n], n)[k] = Value(x)[k] % 2
  <2>1. Word(Value(x)[n], n)[k] = (Value(x)[n] \div Power[n - k]) % 2
    BY <1>0, WordType
  <2>. QED  BY <1>4, <1>5, <2>1
<1>7. PICK j \in Nat : j = k - 1 /\ j + 1 = k /\ j \in 0..(Len(x) - 1) /\ j \in 0..Len(x)
  BY <1>0
<1>8. Value(x)[k] = 2 * Value(x)[j] + x[k] /\ x[k] \in {0, 1} /\ Value(x)[j] \in Nat
  BY <1>7, ValueStep DEF Bit
<1>9. Value(x)[k] % 2 = x[k]
  BY <1>8
<1>. QED  BY <1>6, <1>9

(* A prefix, by its bits.                                                  *)
LEMMA PrefixBits ==
  ASSUME NEW s \in Seq(Bit), NEW x \in Seq(Bit)
  PROVE  IsPrefix(s, x) <=> Len(s) <= Len(x) /\ \A k \in 1..Len(s) : s[k] = x[k]
<1>1. CASE Len(s) <= Len(x)
  <2>1. SubSeq(s, 1, Len(s)) = s
    OBVIOUS
  <2>2. /\ SubSeq(x, 1, Len(s)) \in Seq(Bit) /\ Len(SubSeq(x, 1, Len(s))) = Len(s)
        /\ \A k \in 1..Len(s) : SubSeq(x, 1, Len(s))[k] = x[k]
    BY <1>1
  <2>3. ASSUME \A k \in 1..Len(s) : s[k] = x[k] PROVE s = SubSeq(x, 1, Len(s))
    <3>. DEFINE y == SubSeq(x, 1, Len(s))
    <3>1. y \in Seq(Bit) /\ Len(y) = Len(s) /\ \A k \in 1..Len(s) : s[k] = y[k]
      BY <2>2, <2>3
    <3>. HIDE DEF y
    <3>2. s = y
      BY <3>1
    <3>. QED  BY <3>2 DEF y
  <2>. QED  BY <1>1, <2>1, <2>2, <2>3 DEF IsPrefix
<1>2. CASE ~(Len(s) <= Len(x))
  BY <1>2 DEF IsPrefix
<1>. QED  BY <1>1, <1>2

(* x begins with the word for c if and only if that is its value there.    *)
LEMMA PrefixValue ==
  ASSUME NEW x \in Seq(Bit), NEW n \in Nat, n <= Len(x), NEW c \in 0..(Power[n] - 1)
  PROVE  IsPrefix(Word(c, n), x) <=> Value(x)[n] = c
<1>. DEFINE w == Word(c, n)
<1>0. c \in Nat
  BY PowerEquations
<1>1. w \in Seq(Bit) /\ Len(w) = n
  BY <1>0, WordType
<1>2. Value(w)[n] = c
  BY WordValue
<1>. HIDE DEF w
<1>3. IsPrefix(w, x) <=> \A k \in 1..n : w[k] = x[k]
  BY <1>1, PrefixBits
<1>4. ASSUME \A k \in 1..n : w[k] = x[k] PROVE Value(x)[n] = c
  <2>1. \A k \in 0..n : Value(w)[k] = Value(x)[k]
    BY <1>1, <1>4, ValueSame
  <2>. QED  BY <1>2, <2>1
<1>5. ASSUME Value(x)[n] = c PROVE \A k \in 1..n : w[k] = x[k]
  BY <1>5, ValueBits DEF w
<1>. QED  BY <1>3, <1>4, <1>5 DEF w

(* The number of a field read backwards is its value.                      *)
LEMMA NumberReverse ==
  ASSUME NEW x \in Seq(Bit)
  PROVE  Number(Reverse(x)) = Value(x)[Len(x)]
<1>. DEFINE L == Len(x)
            s == Reverse(x)
<1>0. L \in Nat
  OBVIOUS
<1>1. s \in Seq(Bit) /\ Len(s) = L /\ \A k \in 1..L : s[k] = x[(L - k) + 1]
  <2>1. ASSUME NEW k \in 1..L PROVE x[(L - k) + 1] \in Bit
    <3>1. (L - k) + 1 \in 1..L
      OBVIOUS
    <3>. QED  BY <3>1
  <2>2. [k \in 1..L |-> x[(L - k) + 1]] \in [1..L -> Bit]
    BY <2>1
  <2>3. s \in [1..L -> Bit] /\ \A k \in 1..L : s[k] = x[(L - k) + 1]
    BY <2>2 DEF Reverse
  <2>. HIDE DEF s
  <2>. QED  BY <2>3
<1>. HIDE DEF s
<1>2. PICK N \in [0..Len(s) -> Nat] :
        /\ N[0] = 0 /\ Number(s) = N[Len(s)]
        /\ \A k \in 1..Len(s) : N[k] = N[k - 1] + (IF s[k] = 1 THEN Power[k - 1] ELSE 0)
  BY <1>1, NumberSums
<1>. DEFINE V == Value(x)
            S == {k \in Nat : k <= L => V[L] = (Power[k] * V[L - k]) + N[k]}
<1>3. V[0] = 0 /\ \A k \in 0..L : V[k] \in Nat
  BY ValueStep
<1>4. \A k \in 0..(L - 1) : V[k + 1] = 2 * V[k] + x[k + 1] /\ x[k + 1] \in {0, 1}
  BY ValueStep DEF Bit
<1>. HIDE DEF L, V
<1>5. 0 \in S
  <2>1. L - 0 = L /\ V[L] \in Nat
    BY <1>0, <1>3
  <2>2. Power[0] = 1
    BY PowerEquations
  <2>. QED  BY <1>2, <2>1, <2>2
<1>6. ASSUME NEW k \in Nat, k \in S PROVE k + 1 \in S
  <2>. SUFFICES ASSUME k + 1 <= L PROVE V[L] = (Power[k + 1] * V[L - (k + 1)]) + N[k + 1]
    OBVIOUS
  <2>1. PICK m \in 0..(L - 1) : m = L - (k + 1) /\ m + 1 = L - k
    BY <1>0
  <2>2. PICK p \in Nat : p = Power[k] /\ Power[k + 1] = 2 * p
    BY PowerEquations
  <2>3. PICK v \in Nat, d \in {0, 1} : v = V[m] /\ d = x[m + 1] /\ V[m + 1] = 2 * v + d
    <3>1. m \in 0..L
      BY <1>0, <2>1
    <3>. QED  BY <1>3, <1>4, <3>1
  <2>4. s[k + 1] = d
    <3>1. k + 1 \in 1..L /\ (L - (k + 1)) + 1 = m + 1
      BY <1>0, <2>1
    <3>. QED  BY <1>1, <2>3, <3>1
  <2>5. N[k + 1] = N[k] + (p * d)
    <3>0. k + 1 \in 1..L /\ (k + 1) - 1 = k /\ k \in 0..L
      BY <1>0
    <3>1. k + 1 \in 1..Len(s) /\ (k + 1) - 1 = k /\ k \in 0..Len(s)
      BY <1>1, <3>0
    <3>2. N[k + 1] = N[k] + (IF s[k + 1] = 1 THEN p ELSE 0) /\ N[k] \in Nat
      BY <1>2, <2>2, <3>1
    <3>3. p * d = IF d = 1 THEN p ELSE 0
      <4>1. CASE d = 0
        BY <4>1
      <4>2. CASE d = 1
        BY <4>2
      <4>. QED  BY <4>1, <4>2
    <3>. QED  BY <2>4, <3>2, <3>3
  <2>6. V[L] = (p * (2 * v + d)) + N[k] /\ N[k] \in Nat
    <3>0. k <= L /\ k \in 0..L
      BY <1>0
    <3>1. k <= L /\ k \in 0..Len(s)
      BY <1>1, <3>0
    <3>. QED  BY <1>2, <1>6, <2>1, <2>2, <2>3, <3>1
  <2>7. p * (2 * v + d) = ((2 * p) * v) + (p * d)
    OBVIOUS
  <2>8. p * d \in Nat /\ (2 * p) * v \in Nat
    OBVIOUS
  <2>9. V[L] = ((2 * p) * v) + (N[k] + (p * d))
    BY <2>6, <2>7, <2>8
  <2>. QED  BY <2>1, <2>2, <2>3, <2>5, <2>9
<1>. HIDE DEF S
<1>7. Nat \subseteq S
  BY <1>5, <1>6, Induction
<1>8. V[L] = (Power[L] * V[L - L]) + N[L]
  BY <1>0, <1>7 DEF S
<1>9. Power[L] * V[L - L] = 0
  <2>1. L - L = 0
    BY <1>0
  <2>2. Power[L] \in Nat
    BY <1>0, PowerEquations
  <2>. QED  BY <1>3, <2>1, <2>2
<1>10. V[L] = N[L]
  <2>1. N[L] \in Nat
    BY <1>0, <1>1, <1>2
  <2>. QED  BY <1>8, <1>9, <2>1
<1>. QED  BY <1>1, <1>2, <1>10 DEF s, V, L

---------------------------------------------------------------------------
(* The lengths of a code *)

CodeLens == UNION {[0..(n - 1) -> 0..MaxLen] : n \in Nat}

(* The symbols in use are finitely many, and have lengths.                 *)
LEMMA UsedIs ==
  ASSUME NEW lens \in CodeLens
  PROVE  /\ Used(lens) \in SUBSET Nat /\ IsFiniteSet(Used(lens)) /\ Used(lens) \subseteq DOMAIN lens
         /\ \A s \in Used(lens) : lens[s] \in 1..MaxLen
<1>0. MaxLen \in Nat
  BY WidthAssumption
<1>1. PICK n \in Nat : lens \in [0..(n - 1) -> 0..MaxLen]
  BY DEF CodeLens
<1>2. Used(lens) \in SUBSET (0..(n - 1)) /\ \A s \in Used(lens) : lens[s] \in 1..MaxLen
  BY <1>0, <1>1 DEF Used
<1>3. IsFiniteSet(0..(n - 1))
  <2>1. 0 \in Int /\ n - 1 \in Int
    OBVIOUS
  <2>. QED  BY <2>1, FS_Interval
<1>4. IsFiniteSet(Used(lens))
  BY <1>2, <1>3, FS_Subset
<1>. QED  BY <1>1, <1>2, <1>4

(* Least is the length of a shortest code.                                 *)
LEMMA LeastIs ==
  ASSUME NEW lens \in CodeLens
  PROVE  /\ Used(lens) = {} => Least(lens) = 0
         /\ Used(lens) # {} => Least(lens) \in 1..MaxLen
         /\ \A s \in Used(lens) : Least(lens) <= lens[s]
<1>. DEFINE T == {lens[s] : s \in Used(lens)}
<1>0. MaxLen \in Nat
  BY WidthAssumption
<1>1. CASE Used(lens) = {}
  BY <1>1 DEF Least
<1>2. CASE Used(lens) # {}
  <2>1. T \subseteq 1..MaxLen /\ T # {} /\ T \subseteq Nat
    BY <1>0, <1>2, UsedIs
  <2>2. Least(lens) = CHOOSE x \in T : \A y \in T : x <= y
    BY <1>2 DEF Least, Min
  <2>. HIDE DEF T
  <2>3. \E x \in T : \A y \in T : x <= y
    BY <2>1, LeastElement
  <2>4. Least(lens) \in T /\ \A y \in T : Least(lens) <= y
    BY <2>2, <2>3
  <2>. QED  BY <1>2, <2>1, <2>4 DEF T
<1>. QED  BY <1>1, <1>2

(* Greatest is the length of a longest code.                               *)
LEMMA GreatestIs ==
  ASSUME NEW lens \in CodeLens
  PROVE  /\ Used(lens) = {} => Greatest(lens) = 0
         /\ Used(lens) # {} => Greatest(lens) \in 1..MaxLen
         /\ \A s \in Used(lens) : lens[s] <= Greatest(lens)
<1>. DEFINE T == {lens[s] : s \in Used(lens)}
            D == {MaxLen - x : x \in T}
<1>0. MaxLen \in Nat
  BY WidthAssumption
<1>1. CASE Used(lens) = {}
  BY <1>1 DEF Greatest
<1>2. CASE Used(lens) # {}
  <2>1. T \subseteq 1..MaxLen /\ T # {}
    BY <1>0, <1>2, UsedIs
  <2>2. Greatest(lens) = CHOOSE x \in T : \A y \in T : x >= y
    BY <1>2 DEF Greatest, Max
  <2>. HIDE DEF T
  <2>3. D \subseteq Nat /\ D # {}
    <3>1. \A x \in T : MaxLen - x \in Nat
      BY <1>0, <2>1
    <3>. QED  BY <2>1, <3>1
  <2>4. \E x \in T : \A y \in T : x >= y
    <3>1. PICK d \in D : \A e \in D : d <= e
      <4>. HIDE DEF D
      <4>. QED  BY <2>3, LeastElement
    <3>2. PICK x \in T : d = MaxLen - x
      OBVIOUS
    <3>3. ASSUME NEW y \in T PROVE x >= y
      <4>1. MaxLen - x <= MaxLen - y
        BY <3>1, <3>2
      <4>. QED  BY <1>0, <2>1, <4>1
    <3>. QED  BY <3>3
  <2>5. Greatest(lens) \in T /\ \A y \in T : Greatest(lens) >= y
    BY <2>2, <2>4
  <2>6. \A s \in Used(lens) : lens[s] \in T
    BY DEF T
  <2>7. Greatest(lens) \in 1..MaxLen /\ \A s \in Used(lens) : lens[s] \in 1..MaxLen
    BY <2>1, <2>5, <2>6
  <2>. QED  BY <1>0, <1>2, <2>5, <2>6, <2>7
<1>. QED  BY <1>1, <1>2

(* There are finitely many symbols of a length.                            *)
LEMMA OfLengthIs ==
  ASSUME NEW lens \in CodeLens, NEW n \in Nat
  PROVE  /\ OfLength(lens, n) \in SUBSET Used(lens) /\ IsFiniteSet(OfLength(lens, n))
         /\ Cardinality(OfLength(lens, n)) \in Nat
<1>1. OfLength(lens, n) \in SUBSET Used(lens)
  BY DEF OfLength
<1>2. IsFiniteSet(Used(lens))
  BY UsedIs
<1>3. IsFiniteSet(OfLength(lens, n))
  BY <1>1, <1>2, FS_Subset
<1>. QED  BY <1>1, <1>3, FS_CardinalityType

(* The codes behind a length are twice those behind the length before, and *)
(* as many more as there are codes of it.                                  *)
LEMMA Behind ==
  ASSUME NEW lens \in CodeLens
  PROVE  /\ CodeBehind(lens)[0] = 0
         /\ \A n \in 0..MaxLen : CodeBehind(lens)[n] \in Nat
         /\ \A n \in 0..(MaxLen - 1) :
              CodeBehind(lens)[n + 1] = 2 * CodeBehind(lens)[n] + Cardinality(OfLength(lens, n + 1))
<1>. DEFINE M == Least(lens)
            Count(n) == Cardinality(OfLength(lens, n))
            g == [x \in Nat \X Nat |-> IF x[1] + 1 < M THEN 0 ELSE 2 * x[2] + Count(x[1] + 1)]
            Is(F) == F = [n \in 0..MaxLen |-> IF n < M \/ n = 0 THEN 0 ELSE 2 * F[n - 1] + Count(n)]
            C == CHOOSE F : Is(F)
<1>0. MaxLen \in Nat
  BY WidthAssumption
<1>1. M \in Nat /\ \A n \in Nat : Count(n) \in Nat
  BY <1>0, LeastIs, OfLengthIs
<1>2. \A n \in Nat : n < M => Count(n) = 0
  <2>. TAKE n \in Nat
  <2>. SUFFICES ASSUME n < M PROVE Count(n) = 0
    OBVIOUS
  <2>1. \A s \in Used(lens) : M <= lens[s] /\ lens[s] \in Nat
    BY <1>0, LeastIs, UsedIs
  <2>2. OfLength(lens, n) = {}
    BY <1>1, <2>1 DEF OfLength
  <2>. QED  BY <2>2, FS_EmptySet
<1>. HIDE DEF Count, M
<1>3. g \in [Nat \X Nat -> Nat]
  BY <1>1
<1>4. PICK F \in [0..MaxLen -> Nat] : IsRecursiveUpTo(g, 0, F, MaxLen)
  <2>. HIDE DEF g
  <2>1. 0 \in Nat
    OBVIOUS
  <2>. QED  BY <1>0, <1>3, <2>1, RecursiveUpTo
<1>5. Is(F)
  <2>1. ASSUME NEW n \in 0..MaxLen, n # 0
        PROVE  g[<<n - 1, F[n - 1]>>] = IF n < M THEN 0 ELSE 2 * F[n - 1] + Count(n)
    <3>1. n - 1 \in Nat /\ n - 1 \in 0..MaxLen /\ (n - 1) + 1 = n
      BY <1>0, <2>1
    <3>2. F[n - 1] \in Nat
      BY <1>4, <3>1
    <3>. QED  BY <3>1, <3>2
  <2>. HIDE DEF g
  <2>2. \A n \in 0..MaxLen : F[n] = IF n < M \/ n = 0 THEN 0 ELSE 2 * F[n - 1] + Count(n)
    BY <1>4, <2>1 DEF IsRecursiveUpTo
  <2>3. F = [n \in 0..MaxLen |-> F[n]]
    BY <1>4
  <2>. QED  BY <2>2, <2>3
<1>6. Is(C)
  BY <1>5
<1>. HIDE DEF C
<1>7. CodeBehind(lens) = C
  BY DEF CodeBehind, C, M, Count
<1>8. C[0] = 0
  BY <1>0, <1>6
<1>9. ASSUME NEW n \in 0..(MaxLen - 1)
      PROVE  C[n + 1] = IF n + 1 < M THEN 0 ELSE 2 * C[n] + Count(n + 1)
  <2>1. n + 1 \in 0..MaxLen /\ n + 1 # 0 /\ (n + 1) - 1 = n
    BY <1>0
  <2>. QED  BY <1>6, <2>1
<1>. DEFINE S == {n \in Nat : n <= MaxLen => C[n] \in Nat /\ (n < M => C[n] = 0)}
<1>10. 0 \in S
  BY <1>8
<1>11. ASSUME NEW n \in Nat, n \in S PROVE n + 1 \in S
  <2>. SUFFICES ASSUME n + 1 <= MaxLen PROVE C[n + 1] \in Nat /\ (n + 1 < M => C[n + 1] = 0)
    OBVIOUS
  <2>1. n \in 0..(MaxLen - 1) /\ C[n] \in Nat
    BY <1>0, <1>11
  <2>4. n + 1 \in Nat
    OBVIOUS
  <2>5. Count(n + 1) \in Nat
    BY <1>1, <2>4
  <2>2. PICK c \in Nat, m \in Nat : c = C[n] /\ m = Count(n + 1)
    BY <2>1, <2>5
  <2>3. C[n + 1] = IF n + 1 < M THEN 0 ELSE 2 * c + m
    BY <1>9, <2>1, <2>2
  <2>. QED  BY <1>1, <2>3
<1>. HIDE DEF S
<1>12. Nat \subseteq S
  BY <1>10, <1>11, Induction
<1>13. \A n \in 0..MaxLen : C[n] \in Nat /\ (n < M => C[n] = 0)
  BY <1>0, <1>12 DEF S
<1>14. ASSUME NEW n \in 0..(MaxLen - 1) PROVE C[n + 1] = 2 * C[n] + Count(n + 1)
  <2>1. n + 1 \in 0..MaxLen /\ n \in 0..MaxLen /\ n + 1 \in Nat
    BY <1>0
  <2>2. CASE n + 1 < M
    <3>1. n < M
      BY <1>1, <2>1, <2>2
    <3>2. Count(n + 1) = 0
      BY <1>2, <2>1, <2>2
    <3>3. C[n] = 0 /\ C[n + 1] = 0
      BY <1>13, <2>1, <2>2, <3>1
    <3>. QED  BY <3>2, <3>3
  <2>3. CASE ~(n + 1 < M)
    BY <1>9, <2>3
  <2>. QED  BY <2>2, <2>3
<1>. QED  BY <1>7, <1>8, <1>13, <1>14 DEF Count

(* How many symbols of a length come before a symbol.                      *)
Rank(lens, s) == Cardinality({t \in OfLength(lens, lens[s]) : t < s})

(* The symbols of a length are numbered from 0 on, in their order.         *)
LEMMA Ranks ==
  ASSUME NEW lens \in CodeLens, NEW n \in Nat
  PROVE  /\ \A s \in OfLength(lens, n) :
              Rank(lens, s) \in 0..(Cardinality(OfLength(lens, n)) - 1)
         /\ \A s, t \in OfLength(lens, n) : Rank(lens, s) = Rank(lens, t) => s = t
         /\ \A r \in 0..(Cardinality(OfLength(lens, n)) - 1) :
              \E s \in OfLength(lens, n) : Rank(lens, s) = r
<1>. DEFINE S == OfLength(lens, n)
            Below(s) == {t \in S : t < s}
            R(s) == Cardinality(Below(s))
            m == Cardinality(S)
<1>1. S \subseteq Nat /\ IsFiniteSet(S) /\ m \in Nat
  BY OfLengthIs, UsedIs
<1>2. \A s \in S : lens[s] = n
  BY DEF OfLength
<1>3. \A s \in S : Rank(lens, s) = R(s)
  BY <1>2 DEF Rank
<1>. HIDE DEF S
<1>4. ASSUME NEW s \in S
      PROVE  IsFiniteSet(Below(s)) /\ R(s) \in Nat /\ R(s) < m
  <2>1. Below(s) \in SUBSET S
    OBVIOUS
  <2>2. IsFiniteSet(Below(s)) /\ R(s) <= m /\ (R(s) = m => S = Below(s))
    BY <1>1, <2>1, FS_Subset
  <2>3. R(s) \in Nat
    BY <2>2, FS_CardinalityType
  <2>4. s \in S /\ ~(s < s)
    BY <1>1
  <2>5. S # Below(s)
    BY <2>4
  <2>. QED  BY <1>1, <2>2, <2>3, <2>5
<1>5. ASSUME NEW s \in S, NEW t \in S, s < t
      PROVE  R(s) < R(t)
  <2>1. Below(s) \in SUBSET Below(t)
    <3>1. \A r \in S : r < s => r < t
      BY <1>1, <1>5
    <3>. QED  BY <3>1
  <2>2. IsFiniteSet(Below(t))
    BY <1>4
  <2>3. R(s) <= R(t) /\ (R(s) = R(t) => Below(t) = Below(s))
    BY <2>1, <2>2, FS_Subset
  <2>4. s \in Below(t) /\ s \notin Below(s)
    BY <1>1, <1>5
  <2>5. Below(t) # Below(s)
    BY <2>4
  <2>6. R(s) \in Nat /\ R(t) \in Nat
    BY <1>4
  <2>. QED  BY <2>3, <2>5, <2>6
<1>. HIDE DEF R, m
<1>6. \A s \in S : R(s) \in 0..(m - 1)
  <2>. TAKE s \in S
  <2>1. R(s) \in Nat /\ R(s) < m
    BY <1>4
  <2>. QED  BY <1>1, <2>1
<1>7. \A s, t \in S : R(s) = R(t) => s = t
  <2>. TAKE s, t \in S
  <2>1. s = t \/ s < t \/ t < s
    BY <1>1
  <2>2. R(s) \in Nat /\ R(t) \in Nat
    BY <1>4
  <2>3. s < t => R(s) < R(t)
    BY <1>5
  <2>4. t < s => R(t) < R(s)
    BY <1>5
  <2>. QED  BY <2>1, <2>2, <2>3, <2>4
<1>. DEFINE f == [s \in S |-> R(s)]
            T == 0..(m - 1)
<1>8. f \in Injection(S, T)
  BY <1>6, <1>7 DEF Injection, IsInjective
<1>9. IsFiniteSet(T) /\ Cardinality(T) = m
  <2>1. 0 \in Int /\ m - 1 \in Int
    BY <1>1
  <2>2. IsFiniteSet(0..(m - 1)) /\ Cardinality(0..(m - 1)) = IF 0 > m - 1 THEN 0 ELSE (m - 1) - 0 + 1
    BY <2>1, FS_Interval
  <2>3. (IF 0 > m - 1 THEN 0 ELSE (m - 1) - 0 + 1) = m
    BY <1>1
  <2>. QED  BY <2>2, <2>3
<1>10. Cardinality(S) = m
  BY DEF m
<1>11. f \in Surjection(S, T)
  <2>. HIDE DEF f, T
  <2>. QED  BY <1>8, <1>9, <1>10, FS_Injection
<1>12. \A r \in T : \E s \in S : R(s) = r
  BY <1>11 DEF Surjection
<1>. QED  BY <1>3, <1>6, <1>7, <1>12 DEF S, m

---------------------------------------------------------------------------
(* The codes *)

(* The number that a symbol's code is the word of.                         *)
CodeNumber(lens, s) == NextCode(lens, lens[s]) + Rank(lens, s)

(* The codes of a length n have the numbers from NextCode up to those      *)
(* behind, each symbol its own.                                            *)
LEMMA CodeNumbers ==
  ASSUME NEW lens \in CodeLens, NEW n \in 0..(MaxLen - 1)
  PROVE  /\ \A s \in OfLength(lens, n + 1) :
              /\ CodeNumber(lens, s) \in Nat
              /\ 2 * CodeBehind(lens)[n] <= CodeNumber(lens, s)
              /\ CodeNumber(lens, s) < CodeBehind(lens)[n + 1]
         /\ \A s, t \in OfLength(lens, n + 1) :
              CodeNumber(lens, s) = CodeNumber(lens, t) => s = t
         /\ \A c \in Nat : 2 * CodeBehind(lens)[n] <= c /\ c < CodeBehind(lens)[n + 1]
              => \E s \in OfLength(lens, n + 1) : CodeNumber(lens, s) = c
<1>. DEFINE S == OfLength(lens, n + 1)
            m == Cardinality(S)
            B == 2 * CodeBehind(lens)[n]
<1>0. MaxLen \in Nat /\ n + 1 \in Nat /\ n \in 0..MaxLen /\ (n + 1) - 1 = n
  BY WidthAssumption
<1>1. m \in Nat
  BY <1>0, OfLengthIs
<1>2. B \in Nat /\ CodeBehind(lens)[n + 1] = B + m
  <2>1. CodeBehind(lens)[n] \in Nat
    BY <1>0, Behind
  <2>2. CodeBehind(lens)[n + 1] = 2 * CodeBehind(lens)[n] + m
    BY Behind
  <2>. QED  BY <2>1, <2>2
<1>3. \A s \in S : CodeNumber(lens, s) = B + Rank(lens, s)
  BY <1>0 DEF CodeNumber, NextCode, OfLength
<1>4. /\ \A s \in S : Rank(lens, s) \in 0..(m - 1)
      /\ \A s, t \in S : Rank(lens, s) = Rank(lens, t) => s = t
      /\ \A r \in 0..(m - 1) : \E s \in S : Rank(lens, s) = r
  BY <1>0, Ranks
<1>. HIDE DEF S, m, B
<1>5. ASSUME NEW s \in S
      PROVE  CodeNumber(lens, s) \in Nat /\ B <= CodeNumber(lens, s) /\ CodeNumber(lens, s) < B + m
  <2>1. PICK r \in 0..(m - 1) : r = Rank(lens, s)
    BY <1>4
  <2>. QED  BY <1>1, <1>2, <1>3, <2>1
<1>6. ASSUME NEW s \in S, NEW t \in S, CodeNumber(lens, s) = CodeNumber(lens, t) PROVE s = t
  <2>1. PICK r \in 0..(m - 1), q \in 0..(m - 1) : r = Rank(lens, s) /\ q = Rank(lens, t)
    BY <1>4
  <2>2. r = q
    BY <1>2, <1>3, <1>6, <2>1
  <2>. QED  BY <1>4, <2>1, <2>2
<1>7. ASSUME NEW c \in Nat, B <= c, c < B + m PROVE \E s \in S : CodeNumber(lens, s) = c
  <2>1. c - B \in 0..(m - 1)
    BY <1>1, <1>2, <1>7
  <2>2. PICK s \in S : Rank(lens, s) = c - B
    BY <1>4, <2>1
  <2>3. B + (c - B) = c
    BY <1>2
  <2>. QED  BY <1>3, <2>2, <2>3
<1>. QED  BY <1>2, <1>5, <1>6, <1>7 DEF S, B

(* A string that is taken by the codes up to a length is taken behind it.  *)
LEMMA Growth ==
  ASSUME NEW lens \in CodeLens, NEW x \in Seq(Bit), NEW n \in 0..MaxLen, NEW m \in 0..MaxLen,
         n <= m, m <= Len(x), Value(x)[n] < CodeBehind(lens)[n]
  PROVE  Value(x)[m] < CodeBehind(lens)[m]
<1>. DEFINE V == Value(x)
            C == CodeBehind(lens)
            L == Len(x)
            S == {d \in Nat : n + d <= m => V[n + d] < C[n + d]}
<1>0. MaxLen \in Nat /\ L \in Nat /\ n \in Nat /\ m \in Nat
  BY WidthAssumption
<1>1. /\ \A k \in 0..L : V[k] \in Nat
      /\ \A k \in 0..(L - 1) : V[k + 1] = 2 * V[k] + x[k + 1] /\ x[k + 1] \in {0, 1}
  BY ValueStep DEF Bit
<1>2. \A k \in 0..MaxLen : C[k] \in Nat
  BY Behind
<1>3. ASSUME NEW k \in 0..(MaxLen - 1) PROVE C[k + 1] >= 2 * C[k]
  <2>1. C[k + 1] = 2 * C[k] + Cardinality(OfLength(lens, k + 1))
    BY Behind
  <2>2. k + 1 \in Nat /\ k \in 0..MaxLen
    BY <1>0
  <2>3. Cardinality(OfLength(lens, k + 1)) \in Nat
    BY <2>2, OfLengthIs
  <2>. QED  BY <1>2, <2>1, <2>2, <2>3
<1>. HIDE DEF V, C, L
<1>4. 0 \in S
  <2>1. n + 0 = n
    BY <1>0
  <2>. QED  BY <2>1 DEF V, C
<1>5. ASSUME NEW d \in Nat, d \in S PROVE d + 1 \in S
  <2>. SUFFICES ASSUME n + (d + 1) <= m PROVE V[n + (d + 1)] < C[n + (d + 1)]
    OBVIOUS
  <2>1. PICK k \in Nat : k = n + d /\ k + 1 = n + (d + 1) /\ k + 1 <= m
    BY <1>0
  <2>2. m <= L
    BY DEF L
  <2>3. k \in 0..(L - 1) /\ k \in 0..(MaxLen - 1) /\ k \in 0..MaxLen /\ k \in 0..L /\ k + 1 \in 0..MaxLen
    BY <1>0, <2>1, <2>2
  <2>4. V[k] < C[k]
    BY <1>0, <1>5, <2>1
  <2>5. PICK v \in Nat, c \in Nat, e \in {0, 1} : v = V[k] /\ c = C[k] /\ e = x[k + 1]
    BY <1>1, <1>2, <2>3
  <2>6. V[k + 1] = 2 * v + e /\ C[k + 1] >= 2 * c /\ C[k + 1] \in Nat
    BY <1>1, <1>2, <1>3, <2>3, <2>5
  <2>8. v < c
    BY <2>4, <2>5
  <2>9. 2 * v + e < 2 * c
    BY <2>8
  <2>10. \A u \in Nat : u >= 2 * c => 2 * v + e < u
    BY <2>9
  <2>7. V[k + 1] < C[k + 1]
    BY <2>6, <2>10
  <2>. QED  BY <2>1, <2>7
<1>. HIDE DEF S
<1>6. Nat \subseteq S
  BY <1>4, <1>5, Induction
<1>7. m - n \in Nat /\ n + (m - n) = m
  BY <1>0
<1>8. m - n \in S
  BY <1>6, <1>7
<1>. QED  BY <1>0, <1>7, <1>8 DEF S, V, C

(* The codes of no length are more than there are strings.                 *)
Fits(lens) == \A n \in 0..Greatest(lens) : CodeBehind(lens)[n] <= Power[n]

(* A complete set of lengths has no more codes than there are strings.     *)
LEMMA CompleteFits ==
  ASSUME NEW lens \in CodeLens, Used(lens) # {}, Complete(lens)
  PROVE  Fits(lens)
<1>. DEFINE G == Greatest(lens)
            C == CodeBehind(lens)
            S == {d \in Nat : d <= G => C[G - d] <= Power[G - d]}
<1>0. MaxLen \in Nat /\ G \in 1..MaxLen
  BY WidthAssumption, GreatestIs
<1>1. /\ \A k \in 0..MaxLen : C[k] \in Nat
      /\ C[0] = 0
      /\ \A k \in 0..(MaxLen - 1) : C[k + 1] = 2 * C[k] + Cardinality(OfLength(lens, k + 1))
  BY Behind
<1>2. ASSUME NEW k \in 0..(MaxLen - 1) PROVE C[k + 1] >= 2 * C[k]
  <2>1. k + 1 \in Nat /\ k \in 0..MaxLen
    BY <1>0
  <2>2. Cardinality(OfLength(lens, k + 1)) \in Nat
    BY <2>1, OfLengthIs
  <2>. QED  BY <1>1, <2>1, <2>2
<1>3. C[G] <= Power[G]
  <2>1. CASE C[G] = Power[G]
    BY <1>0, <1>1, <2>1
  <2>2. CASE G = 1 /\ C[1] = 1
    <3>1. Power[1] = 2
      <4>1. Power[0] = 1 /\ Power[0 + 1] = 2 * Power[0]
        BY PowerEquations
      <4>. QED  BY <4>1
    <3>. QED  BY <2>2, <3>1
  <2>. QED  BY <2>1, <2>2 DEF Complete, Degenerate
<1>. HIDE DEF G, C
<1>4. 0 \in S
  <2>1. G - 0 = G
    BY <1>0
  <2>. QED  BY <1>3, <2>1
<1>5. ASSUME NEW d \in Nat, d \in S PROVE d + 1 \in S
  <2>. SUFFICES ASSUME d + 1 <= G PROVE C[G - (d + 1)] <= Power[G - (d + 1)]
    OBVIOUS
  <2>1. PICK k \in Nat : k = G - (d + 1) /\ k + 1 = G - d /\ d <= G /\ k \in 0..(MaxLen - 1)
                         /\ k \in 0..MaxLen /\ k + 1 \in 0..MaxLen
    BY <1>0
  <2>2. PICK c \in Nat, e \in Nat, p \in Nat : c = C[k] /\ e = C[k + 1] /\ p = Power[k]
    BY <1>1, <2>1, PowerEquations
  <2>3. e >= 2 * c /\ Power[k + 1] = 2 * p
    BY <1>2, <2>1, <2>2, PowerEquations
  <2>4. e <= 2 * p
    BY <1>5, <2>1, <2>2, <2>3
  <2>5. c <= p
    BY <2>3, <2>4
  <2>. QED  BY <2>1, <2>2, <2>5
<1>. HIDE DEF S
<1>6. Nat \subseteq S
  BY <1>4, <1>5, Induction
<1>7. ASSUME NEW n \in 0..G PROVE C[n] <= Power[n]
  <2>1. G - n \in Nat /\ G - n <= G /\ G - (G - n) = n
    BY <1>0
  <2>2. G - n \in S
    BY <1>6, <2>1
  <2>. QED  BY <2>1, <2>2 DEF S
<1>. QED  BY <1>7 DEF Fits, G, C

(* What a symbol's code is, and when a string begins with it.              *)
LEMMA CodeIs ==
  ASSUME NEW lens \in CodeLens, Fits(lens), NEW s \in Used(lens)
  PROVE  /\ CodeOf(lens, s) \in Seq(Bit) /\ Len(CodeOf(lens, s)) = lens[s]
         /\ Value(CodeOf(lens, s))[lens[s]] = CodeNumber(lens, s)
         /\ \A x \in Seq(Bit) : lens[s] <= Len(x) =>
              (IsPrefix(CodeOf(lens, s), x) <=> Value(x)[lens[s]] = CodeNumber(lens, s))
<1>0. MaxLen \in Nat /\ lens[s] \in 1..MaxLen /\ lens[s] <= Greatest(lens) /\ Greatest(lens) \in Nat
  BY WidthAssumption, UsedIs, GreatestIs
<1>1. PICK n \in 0..(MaxLen - 1) : lens[s] = n + 1
  <2>1. lens[s] - 1 \in 0..(MaxLen - 1) /\ lens[s] = (lens[s] - 1) + 1
    BY <1>0
  <2>. QED  BY <2>1
<1>2. s \in OfLength(lens, n + 1)
  BY <1>1 DEF OfLength
<1>3. CodeNumber(lens, s) \in Nat /\ CodeNumber(lens, s) < CodeBehind(lens)[n + 1]
  BY <1>2, CodeNumbers
<1>4. CodeBehind(lens)[n + 1] \in Nat /\ CodeBehind(lens)[n + 1] <= Power[n + 1] /\ Power[n + 1] \in Nat
  <2>1. n + 1 \in 0..MaxLen /\ n + 1 \in 0..Greatest(lens) /\ n + 1 \in Nat
    BY <1>0, <1>1
  <2>. QED  BY <2>1, Behind, PowerEquations DEF Fits
<1>5. CodeNumber(lens, s) \in 0..(Power[lens[s]] - 1) /\ lens[s] \in Nat
  BY <1>0, <1>1, <1>3, <1>4
<1>6. CodeOf(lens, s) = Word(CodeNumber(lens, s), lens[s])
  BY DEF CodeOf, CodeNumber, Rank
<1>7. CodeOf(lens, s) \in Seq(Bit) /\ Len(CodeOf(lens, s)) = lens[s]
  BY <1>3, <1>5, <1>6, WordType
<1>8. Value(CodeOf(lens, s))[lens[s]] = CodeNumber(lens, s)
  BY <1>5, <1>6, WordValue
<1>9. ASSUME NEW x \in Seq(Bit), lens[s] <= Len(x)
      PROVE  IsPrefix(CodeOf(lens, s), x) <=> Value(x)[lens[s]] = CodeNumber(lens, s)
  BY <1>5, <1>6, <1>9, PrefixValue
<1>. QED  BY <1>7, <1>8, <1>9

(* A string is taken from the length of the code on that it begins with,   *)
(* and not before.                                                         *)
LEMMA Ahead ==
  ASSUME NEW lens \in CodeLens, NEW x \in Seq(Bit), NEW s \in Used(lens),
         lens[s] <= Len(x), Value(x)[lens[s]] = CodeNumber(lens, s),
         NEW k \in 0..MaxLen, k <= Len(x)
  PROVE  Value(x)[k] < CodeBehind(lens)[k] <=> lens[s] <= k
<1>. DEFINE V == Value(x)
            C == CodeBehind(lens)
<1>0. MaxLen \in Nat /\ lens[s] \in 1..MaxLen /\ Len(x) \in Nat
  BY WidthAssumption, UsedIs
<1>1. PICK n \in 0..(MaxLen - 1) : lens[s] = n + 1
  <2>1. lens[s] - 1 \in 0..(MaxLen - 1) /\ lens[s] = (lens[s] - 1) + 1
    BY <1>0
  <2>. QED  BY <2>1
<1>2. s \in OfLength(lens, n + 1)
  BY <1>1 DEF OfLength
<1>3. 2 * C[n] <= V[n + 1] /\ V[n + 1] < C[n + 1]
  BY <1>1, <1>2, CodeNumbers
<1>4. n \in 0..MaxLen /\ n + 1 \in 0..MaxLen /\ n \in 0..(Len(x) - 1) /\ n \in 0..Len(x) /\ n + 1 <= Len(x)
  BY <1>0, <1>1
<1>5. CASE n + 1 <= k
  <2>1. V[k] < C[k]
    BY <1>3, <1>4, <1>5, Growth
  <2>. QED  BY <1>1, <1>5, <2>1
<1>6. CASE ~(n + 1 <= k)
  <2>1. k <= n
    BY <1>0, <1>4, <1>6
  <2>2. V[n + 1] = 2 * V[n] + x[n + 1] /\ x[n + 1] \in {0, 1} /\ V[n] \in Nat
    BY <1>4, ValueStep DEF Bit
  <2>3. C[n] \in Nat
    BY <1>4, Behind
  <2>4. ~(V[n] < C[n])
    <3>. HIDE DEF V, C
    <3>1. PICK v \in Nat, c \in Nat, e \in {0, 1} : v = V[n] /\ c = C[n] /\ e = x[n + 1]
      BY <2>2, <2>3
    <3>2. 2 * c <= 2 * v + e
      BY <1>3, <2>2, <3>1
    <3>3. ~(v < c)
      BY <3>2
    <3>. QED  BY <3>1, <3>3
  <2>5. ~(V[k] < C[k])
    <3>1. n <= Len(x)
      BY <1>0, <1>4
    <3>. QED  BY <1>4, <2>1, <2>4, <3>1, Growth
  <2>. QED  BY <1>1, <1>6, <2>5
<1>. QED  BY <1>5, <1>6

(* A string that is taken begins with a code.                              *)
LEMMA Taken ==
  ASSUME NEW lens \in CodeLens, NEW x \in Seq(Bit), NEW k \in 0..MaxLen, k <= Len(x),
         Value(x)[k] < CodeBehind(lens)[k]
  PROVE  \E s \in Used(lens) : lens[s] <= k /\ Value(x)[lens[s]] = CodeNumber(lens, s)
<1>. DEFINE V == Value(x)
            C == CodeBehind(lens)
            T == {j \in 0..k : V[j] < C[j]}
<1>0. MaxLen \in Nat /\ Len(x) \in Nat
  BY WidthAssumption
<1>1. PICK m \in T : \A j \in T : m <= j
  <2>1. T \subseteq Nat /\ T # {}
    OBVIOUS
  <2>. HIDE DEF T
  <2>. QED  BY <2>1, LeastElement
<1>2. m # 0
  <2>1. V[0] = 0 /\ C[0] = 0
    BY Behind, ValueStep
  <2>. QED  BY <2>1
<1>3. PICK n \in 0..(MaxLen - 1) : m = n + 1
  <2>1. m - 1 \in 0..(MaxLen - 1) /\ m = (m - 1) + 1
    BY <1>0, <1>2
  <2>. QED  BY <2>1
<1>4. n \in 0..k /\ n \notin T
  <2>1. n \in 0..k /\ ~(m <= n)
    BY <1>0, <1>3
  <2>. QED  BY <1>1, <2>1
<1>5. n \in 0..(Len(x) - 1) /\ n \in 0..Len(x) /\ n \in 0..MaxLen /\ n + 1 \in 0..Len(x)
  BY <1>0, <1>3
<1>6. PICK v \in Nat, e \in {0, 1} : v = V[n] /\ e = x[n + 1] /\ V[n + 1] = 2 * v + e
  BY <1>5, ValueStep DEF Bit
<1>7. PICK c \in Nat : c = C[n]
  BY <1>5, Behind
<1>8. c <= v
  BY <1>4, <1>6, <1>7
<1>9. V[n + 1] \in Nat /\ 2 * C[n] <= V[n + 1] /\ V[n + 1] < C[n + 1]
  <2>1. V[n + 1] < C[n + 1]
    BY <1>1, <1>3
  <2>2. 2 * c <= 2 * v + e /\ 2 * v + e \in Nat
    BY <1>8
  <2>. HIDE DEF V, C
  <2>. QED  BY <1>6, <1>7, <2>1, <2>2
<1>10. PICK s \in OfLength(lens, n + 1) : CodeNumber(lens, s) = V[n + 1]
  BY <1>9, CodeNumbers
<1>11. s \in Used(lens) /\ lens[s] = n + 1 /\ n + 1 <= k
  BY <1>3 DEF OfLength
<1>. QED  BY <1>10, <1>11

(* No string begins with two codes.                                        *)
LEMMA Unambiguous ==
  ASSUME NEW lens \in CodeLens, NEW x \in Seq(Bit), NEW s \in Used(lens), NEW t \in Used(lens),
         lens[s] <= Len(x), Value(x)[lens[s]] = CodeNumber(lens, s),
         lens[t] <= Len(x), Value(x)[lens[t]] = CodeNumber(lens, t)
  PROVE  s = t
<1>0. MaxLen \in Nat /\ lens[s] \in 1..MaxLen /\ lens[t] \in 1..MaxLen
  BY WidthAssumption, UsedIs
<1>1. lens[s] \in 0..MaxLen /\ lens[t] \in 0..MaxLen
  BY <1>0
<1>2. lens[s] <= lens[s] /\ lens[t] <= lens[t]
  BY <1>0
<1>3. lens[s] <= lens[t] /\ lens[t] <= lens[s]
  <2>1. Value(x)[lens[s]] < CodeBehind(lens)[lens[s]]
    BY <1>1, <1>2, Ahead
  <2>2. Value(x)[lens[t]] < CodeBehind(lens)[lens[t]]
    BY <1>1, <1>2, Ahead
  <2>3. lens[s] <= lens[t]
    BY <1>1, <2>2, Ahead
  <2>4. lens[t] <= lens[s]
    BY <1>1, <2>1, Ahead
  <2>. QED  BY <2>3, <2>4
<1>4. lens[s] = lens[t]
  BY <1>0, <1>3
<1>5. PICK n \in 0..(MaxLen - 1) : lens[s] = n + 1
  <2>1. lens[s] - 1 \in 0..(MaxLen - 1) /\ lens[s] = (lens[s] - 1) + 1
    BY <1>0
  <2>. QED  BY <2>1
<1>6. s \in OfLength(lens, n + 1) /\ t \in OfLength(lens, n + 1)
  BY <1>4, <1>5 DEF OfLength
<1>. QED  BY <1>4, <1>6, CodeNumbers

---------------------------------------------------------------------------
(* The tables of a complete code *)

(* A string of n bits is a sequence.                                       *)
LEMMA StringIs ==
  ASSUME NEW n \in Nat, NEW x \in Strings(n)
  PROVE  x \in Seq(Bit) /\ Len(x) = n /\ DOMAIN x = 1..n
BY DEF Strings

(* The chunks that lead to an overflow table are those that the codes up   *)
(* to a chunk's length leave.                                              *)
LEMMA LinkedIs ==
  ASSUME NEW lens \in CodeLens, NEW x \in Strings(ChunkBits)
  PROVE  Linked(lens, x) <=> /\ Greatest(lens) > ChunkBits
                             /\ ~(Value(x)[ChunkBits] < CodeBehind(lens)[ChunkBits])
<1>0. ChunkBits \in Nat /\ MaxLen \in Nat
  BY WidthAssumption
<1>1. x \in Seq(Bit) /\ Len(x) = ChunkBits
  BY <1>0, StringIs
<1>2. Number(Reverse(x)) = Value(x)[ChunkBits]
  BY <1>1, NumberReverse
<1>3. CASE ~(Greatest(lens) > ChunkBits)
  BY <1>3 DEF Linked
<1>4. CASE Greatest(lens) > ChunkBits
  <2>1. Greatest(lens) \in 0..MaxLen
    BY <1>0, GreatestIs
  <2>2. ChunkBits \in 0..MaxLen /\ ChunkBits \in 0..Len(x) /\ (ChunkBits + 1) - 1 = ChunkBits
    BY <1>0, <1>1, <1>4, <2>1
  <2>3. PICK c \in Nat, v \in Nat : c = CodeBehind(lens)[ChunkBits] /\ v = Value(x)[ChunkBits]
    BY <1>1, <2>2, Behind, ValueStep
  <2>4. NextCode(lens, ChunkBits + 1) = 2 * c
    BY <2>2, <2>3 DEF NextCode
  <2>5. (2 * c) \div 2 = c
    OBVIOUS
  <2>6. v >= c <=> ~(v < c)
    OBVIOUS
  <2>. QED  BY <1>2, <1>4, <2>3, <2>4, <2>5, <2>6 DEF Linked
<1>. QED  BY <1>3, <1>4

(* What a chunk says of a symbol.                                          *)
Entry(lens, s) == [n |-> lens[s], sym |-> s]

(* What is written to a chunk: the symbol whose code it begins with, or    *)
(* that there is an overflow table.                                        *)
LEMMA WrittenIs ==
  ASSUME NEW lens \in CodeLens, Fits(lens), NEW x \in Strings(ChunkBits)
  PROVE  /\ \A c \in Written(lens, x) :
              \/ c = Link /\ Linked(lens, x)
              \/ \E s \in Used(lens) : /\ c = Entry(lens, s) /\ lens[s] <= ChunkBits
                                      /\ IsPrefix(CodeOf(lens, s), x)
                                      /\ Value(x)[lens[s]] = CodeNumber(lens, s)
         /\ Linked(lens, x) => Link \in Written(lens, x)
         /\ \A s \in Used(lens) :
              lens[s] <= ChunkBits /\ Value(x)[lens[s]] = CodeNumber(lens, s)
              => Entry(lens, s) \in Written(lens, x)
<1>0. ChunkBits \in Nat
  BY WidthAssumption
<1>1. x \in Seq(Bit) /\ Len(x) = ChunkBits
  BY <1>0, StringIs
<1>2. ASSUME NEW s \in Used(lens), lens[s] <= ChunkBits
      PROVE  IsPrefix(CodeOf(lens, s), x) <=> Value(x)[lens[s]] = CodeNumber(lens, s)
  BY <1>1, <1>2, CodeIs
<1>. QED  BY <1>2 DEF Written, Entry

(* Nothing is written twice to a chunk.                                    *)
LEMMA WrittenOnce ==
  ASSUME NEW lens \in CodeLens, Fits(lens), NEW x \in Strings(ChunkBits),
         NEW c \in Written(lens, x), NEW d \in Written(lens, x)
  PROVE  c = d
<1>0. ChunkBits \in Nat /\ MaxLen \in Nat
  BY WidthAssumption
<1>1. x \in Seq(Bit) /\ Len(x) = ChunkBits
  BY <1>0, StringIs
<1>2. ASSUME NEW s \in Used(lens), lens[s] <= ChunkBits, Value(x)[lens[s]] = CodeNumber(lens, s)
      PROVE  ~Linked(lens, x)
  <2>1. SUFFICES ASSUME Greatest(lens) > ChunkBits
                 PROVE  Value(x)[ChunkBits] < CodeBehind(lens)[ChunkBits]
    BY LinkedIs
  <2>2. Greatest(lens) \in 0..MaxLen
    BY <1>0, GreatestIs
  <2>3. ChunkBits \in 0..MaxLen /\ ChunkBits <= Len(x)
    BY <1>0, <1>1, <2>1, <2>2
  <2>. QED  BY <1>1, <1>2, <2>3, Ahead
<1>3. ASSUME NEW s \in Used(lens), lens[s] <= ChunkBits, Value(x)[lens[s]] = CodeNumber(lens, s),
             NEW t \in Used(lens), lens[t] <= ChunkBits, Value(x)[lens[t]] = CodeNumber(lens, t)
      PROVE  s = t
  BY <1>1, <1>3, Unambiguous
<1>. QED  BY <1>2, <1>3, WrittenIs

(* What is written behind a chunk, and not twice either.                   *)
LEMMA WrittenBehindIs ==
  ASSUME NEW lens \in CodeLens, Fits(lens), Greatest(lens) > ChunkBits,
         NEW x \in Strings(ChunkBits), NEW y \in Strings(Greatest(lens) - ChunkBits)
  PROVE  /\ x \o y \in Seq(Bit) /\ Len(x \o y) = Greatest(lens)
         /\ \A c \in WrittenBehind(lens, x, y) :
              \E s \in Used(lens) : /\ c = Entry(lens, s) /\ lens[s] > ChunkBits
                                  /\ IsPrefix(CodeOf(lens, s), x \o y)
                                  /\ Value(x \o y)[lens[s]] = CodeNumber(lens, s)
         /\ \A s \in Used(lens) :
              lens[s] > ChunkBits /\ Value(x \o y)[lens[s]] = CodeNumber(lens, s)
              => Entry(lens, s) \in WrittenBehind(lens, x, y)
         /\ \A c, d \in WrittenBehind(lens, x, y) : c = d
<1>0. ChunkBits \in Nat /\ MaxLen \in Nat /\ Greatest(lens) \in Nat /\ Greatest(lens) - ChunkBits \in Nat
  <2>1. ChunkBits \in Nat /\ MaxLen \in Nat
    BY WidthAssumption
  <2>2. Greatest(lens) \in Nat
    BY <2>1, GreatestIs
  <2>. QED  BY <2>1, <2>2
<1>1. x \in Seq(Bit) /\ Len(x) = ChunkBits /\ y \in Seq(Bit) /\ Len(y) = Greatest(lens) - ChunkBits
  BY <1>0, StringIs
<1>. DEFINE z == x \o y
<1>2. z \in Seq(Bit) /\ Len(z) = Greatest(lens)
  <2>1. z \in Seq(Bit) /\ Len(z) = Len(x) + Len(y)
    BY <1>1
  <2>. QED  BY <1>0, <1>1, <2>1
<1>. HIDE DEF z
<1>3. ASSUME NEW s \in Used(lens)
      PROVE  /\ lens[s] <= Len(z)
             /\ IsPrefix(CodeOf(lens, s), z) <=> Value(z)[lens[s]] = CodeNumber(lens, s)
  <2>1. lens[s] <= Len(z)
    BY <1>2, GreatestIs
  <2>. QED  BY <1>2, <2>1, CodeIs
<1>4. WrittenBehind(lens, x, y) =
        {Entry(lens, s) : s \in {t \in Used(lens) : lens[t] > ChunkBits /\ IsPrefix(CodeOf(lens, t), z)}}
  BY DEF WrittenBehind, Entry, z
<1>5. ASSUME NEW s \in Used(lens), Value(z)[lens[s]] = CodeNumber(lens, s),
             NEW t \in Used(lens), Value(z)[lens[t]] = CodeNumber(lens, t)
      PROVE  s = t
  BY <1>2, <1>3, <1>5, Unambiguous
<1>. QED  BY <1>2, <1>3, <1>4, <1>5 DEF z

(* A set all whose elements are the same has at most one.                  *)
LEMMA AtMostOne ==
  ASSUME NEW S, \A c, d \in S : c = d
  PROVE  ~(Cardinality(S) > 1) /\ (S # {} => Cardinality(S) = 1)
<1>1. CASE S = {}
  <2>1. Cardinality(S) = 0
    BY <1>1, FS_EmptySet
  <2>. QED  BY <1>1, <2>1
<1>2. CASE S # {}
  <2>1. PICK c \in S : TRUE
    BY <1>2
  <2>2. S = {c}
    BY <2>1
  <2>3. Cardinality(S) = 1
    BY <2>2, FS_Singleton
  <2>. QED  BY <2>3
<1>. QED  BY <1>1, <1>2

(* Every chunk of a complete code is written, but for half of them where   *)
(* the only code is one bit.                                               *)
LEMMA WrittenSome ==
  ASSUME NEW lens \in CodeLens, Used(lens) # {}, Complete(lens), NEW x \in Strings(ChunkBits),
         ~(Degenerate(lens) /\ x[1] = 1)
  PROVE  Written(lens, x) # {}
<1>. DEFINE G == Greatest(lens)
            C == CodeBehind(lens)
<1>0. ChunkBits \in Nat \ {0} /\ MaxLen \in Nat /\ G \in 1..MaxLen
  BY WidthAssumption, GreatestIs
<1>1. x \in Seq(Bit) /\ Len(x) = ChunkBits /\ DOMAIN x = 1..ChunkBits
  BY <1>0, StringIs
<1>2. Fits(lens)
  BY CompleteFits
<1>3. ASSUME NEW k \in 0..MaxLen, k <= ChunkBits, Value(x)[k] < C[k]
      PROVE  Written(lens, x) # {}
  <2>1. PICK s \in Used(lens) : lens[s] <= k /\ Value(x)[lens[s]] = CodeNumber(lens, s)
    BY <1>1, <1>3, Taken
  <2>2. lens[s] <= ChunkBits
    <3>1. lens[s] \in 1..MaxLen
      BY UsedIs
    <3>. QED  BY <1>0, <1>3, <2>1, <3>1
  <2>. QED  BY <1>2, <2>1, <2>2, WrittenIs
<1>4. CASE G > ChunkBits
  <2>1. ChunkBits \in 0..MaxLen /\ ChunkBits <= ChunkBits
    BY <1>0, <1>4
  <2>2. CASE Linked(lens, x)
    BY <1>2, <2>2, WrittenIs
  <2>3. CASE ~Linked(lens, x)
    <3>1. Value(x)[ChunkBits] < C[ChunkBits]
      BY <1>4, <2>3, LinkedIs
    <3>. QED  BY <1>3, <2>1, <3>1
  <2>. QED  BY <2>2, <2>3
<1>5. CASE ~(G > ChunkBits)
  <2>1. G \in 0..MaxLen /\ G <= ChunkBits /\ G \in Nat
    BY <1>0, <1>5
  <2>2. CASE C[G] = Power[G]
    <3>1. Value(x)[G] < Power[G]
      <4>1. Value(x)[G] \in 0..(Power[G] - 1)
        BY <1>1, <2>1, ValueBound
      <4>. QED  BY <4>1, <2>1, PowerEquations
    <3>. QED  BY <1>3, <2>1, <2>2, <3>1
  <2>3. CASE Degenerate(lens)
    <3>1. G = 1 /\ C[1] = 1
      BY <2>3 DEF Degenerate
    <3>2. x[1] = 0
      <4>1. 1 \in 1..ChunkBits
        BY <1>0
      <4>2. x[1] \in {0, 1}
        BY <1>1, <4>1 DEF Bit
      <4>. QED  BY <2>3, <4>2
    <3>3. Value(x)[0 + 1] = 2 * Value(x)[0] + x[0 + 1] /\ Value(x)[0] = 0
      <4>1. 0 \in 0..(Len(x) - 1)
        BY <1>0, <1>1
      <4>. QED  BY <1>1, <4>1, ValueStep
    <3>4. Value(x)[1] < C[1]
      BY <3>1, <3>2, <3>3
    <3>. QED  BY <1>3, <2>1, <3>1, <3>4
  <2>. QED  BY <2>2, <2>3 DEF Complete
<1>. QED  BY <1>4, <1>5

(* Every place of an overflow table is written.                            *)
LEMMA WrittenBehindSome ==
  ASSUME NEW lens \in CodeLens, Used(lens) # {}, Complete(lens),
         NEW x \in Strings(ChunkBits), Linked(lens, x),
         NEW y \in Strings(Greatest(lens) - ChunkBits)
  PROVE  WrittenBehind(lens, x, y) # {}
<1>. DEFINE G == Greatest(lens)
            C == CodeBehind(lens)
            z == x \o y
<1>0. ChunkBits \in Nat \ {0} /\ MaxLen \in Nat /\ G \in 1..MaxLen /\ G > ChunkBits
  BY WidthAssumption, GreatestIs DEF Linked
<1>1. x \in Seq(Bit) /\ Len(x) = ChunkBits
  BY <1>0, StringIs
<1>2. Fits(lens)
  BY CompleteFits
<1>3. z \in Seq(Bit) /\ Len(z) = G
  BY <1>0, <1>2, WrittenBehindIs
<1>4. ~(Value(x)[ChunkBits] < C[ChunkBits])
  BY LinkedIs
<1>5. C[G] = Power[G]
  BY <1>0 DEF Complete, Degenerate
<1>6. G \in 0..MaxLen /\ G <= G /\ G \in Nat
  BY <1>0
<1>7. Value(z)[G] < Power[G]
  <2>1. Value(z)[G] \in 0..(Power[G] - 1)
    BY <1>3, <1>6, ValueBound
  <2>. QED  BY <1>6, <2>1, PowerEquations
<1>. HIDE DEF z
<1>8. PICK s \in Used(lens) : lens[s] <= G /\ Value(z)[lens[s]] = CodeNumber(lens, s)
  BY <1>3, <1>5, <1>6, <1>7, Taken
<1>9. Value(z)[ChunkBits] = Value(x)[ChunkBits]
  <2>1. \A k \in 1..ChunkBits : z[k] = x[k]
    <3>1. y \in Seq(Bit)
      <4>1. G - ChunkBits \in Nat
        BY <1>0
      <4>. QED  BY <4>1, StringIs
    <3>. QED  BY <1>1, <3>1 DEF z
  <2>2. ChunkBits <= Len(z) /\ ChunkBits <= Len(x) /\ ChunkBits \in 0..ChunkBits
    BY <1>0, <1>1, <1>3
  <2>. QED  BY <1>0, <1>1, <1>3, <2>1, <2>2, ValueSame
<1>10. lens[s] > ChunkBits
  <2>1. ChunkBits \in 0..MaxLen /\ ChunkBits <= Len(z) /\ lens[s] <= Len(z)
    BY <1>0, <1>3, <1>8
  <2>2. ~(lens[s] <= ChunkBits)
    BY <1>3, <1>4, <1>8, <1>9, <2>1, Ahead
  <2>3. lens[s] \in 1..MaxLen
    BY UsedIs
  <2>. QED  BY <1>0, <2>2, <2>3
<1>. QED  BY <1>0, <1>2, <1>8, <1>10, WrittenBehindIs DEF z

(* A chunk that a longer code begins with leads to an overflow table.      *)
LEMMA LongLinked ==
  ASSUME NEW lens \in CodeLens, Fits(lens), NEW x \in Strings(ChunkBits),
         NEW s \in Used(lens), lens[s] > ChunkBits, IsPrefix(x, CodeOf(lens, s))
  PROVE  Linked(lens, x)
<1>. DEFINE w == CodeOf(lens, s)
<1>0. ChunkBits \in Nat /\ MaxLen \in Nat /\ lens[s] \in 1..MaxLen
  BY WidthAssumption, UsedIs
<1>1. x \in Seq(Bit) /\ Len(x) = ChunkBits
  BY <1>0, StringIs
<1>2. w \in Seq(Bit) /\ Len(w) = lens[s] /\ Value(w)[lens[s]] = CodeNumber(lens, s)
  BY CodeIs
<1>. HIDE DEF w
<1>3. \A k \in 1..ChunkBits : x[k] = w[k]
  BY <1>1, <1>2, PrefixBits DEF w
<1>4. ChunkBits \in 0..MaxLen /\ ChunkBits <= Len(w) /\ ChunkBits <= Len(x) /\ ChunkBits \in 0..ChunkBits
      /\ lens[s] <= Len(w)
  BY <1>0, <1>1, <1>2
<1>5. Value(x)[ChunkBits] = Value(w)[ChunkBits]
  BY <1>0, <1>1, <1>2, <1>3, <1>4, ValueSame
<1>6. ~(lens[s] <= ChunkBits)
  BY <1>0
<1>7. ~(Value(w)[ChunkBits] < CodeBehind(lens)[ChunkBits])
  BY <1>2, <1>4, <1>6, Ahead
<1>8. Greatest(lens) > ChunkBits
  <2>1. lens[s] <= Greatest(lens) /\ Greatest(lens) \in Nat
    BY <1>0, GreatestIs
  <2>. QED  BY <1>0, <2>1
<1>. QED  BY <1>5, <1>7, <1>8, LinkedIs

(* Tables that are cleared are filled by every complete code, once and     *)
(* completely: init's checks do not fail.                                  *)
LEMMA Filled ==
  ASSUME NEW lens \in CodeLens, Used(lens) # {}, Complete(lens)
  PROVE  ~Impossible(EmptyTable, lens)
<1>1. Fits(lens)
  BY CompleteFits
<1>2. ASSUME NEW x \in Strings(ChunkBits)
      PROVE  /\ ~(Cardinality(Written(lens, x)) > 1)
             /\ EmptyTable.chunks[x] = NoChunk
             /\ Written(lens, x) = {} => Degenerate(lens) /\ x[1] = 1
  <2>1. ~(Cardinality(Written(lens, x)) > 1)
    BY <1>1, WrittenOnce, AtMostOne
  <2>2. EmptyTable.chunks[x] = NoChunk
    BY DEF EmptyTable
  <2>. QED  BY <2>1, <2>2, WrittenSome
<1>3. ASSUME NEW x \in Strings(ChunkBits), Linked(lens, x),
             NEW y \in Strings(Greatest(lens) - ChunkBits)
      PROVE  Cardinality(WrittenBehind(lens, x, y)) = 1
  <2>1. Greatest(lens) > ChunkBits
    BY <1>3 DEF Linked
  <2>2. WrittenBehind(lens, x, y) # {}
    BY <1>3, WrittenBehindSome
  <2>3. \A c, d \in WrittenBehind(lens, x, y) : c = d
    BY <1>1, <2>1, WrittenBehindIs
  <2>. QED  BY <2>2, <2>3, AtMostOne
<1>4. ASSUME NEW x \in Strings(ChunkBits), ~Linked(lens, x), NEW s \in Used(lens)
      PROVE  ~(lens[s] > ChunkBits /\ IsPrefix(x, CodeOf(lens, s)))
  BY <1>1, <1>4, LongLinked
<1>. QED  BY <1>2, <1>3, <1>4 DEF Impossible

---------------------------------------------------------------------------
(* Looking a symbol up *)

(* h is a decoder for a code, but for its min.                             *)
Decodes(h, lens) ==
  IF Used(lens) = {} THEN h.chunks = EmptyTable.chunks
  ELSE /\ Complete(lens)
       /\ h.chunks = Table(lens).chunks /\ h.links = Table(lens).links /\ h.max = Table(lens).max

(* What is looked up is a symbol whose code the bits, with zeros behind    *)
(* them, begin with; or there is none.                                     *)
LEMMA FindIs ==
  ASSUME NEW lens \in CodeLens, NEW h, Decodes(h, lens), b \in Seq(Bit)
  PROVE  \/ Find(h) = NoChunk
         \/ /\ Used(lens) # {} /\ Complete(lens)
            /\ \E s \in Used(lens), z \in Seq(Bit) :
                 /\ Find(h) = Entry(lens, s)
                 /\ lens[s] <= Len(z) /\ Value(z)[lens[s]] = CodeNumber(lens, s)
                 /\ \A k \in 1..Len(z) : z[k] = BitAt(k)
<1>. DEFINE x == [j \in 1..ChunkBits |-> BitAt(j)]
            c == h.chunks[x]
            G == Greatest(lens)
<1>0. ChunkBits \in Nat /\ MaxLen \in Nat
  BY WidthAssumption
<1>1. \A k \in Nat \ {0} : BitAt(k) \in Bit
  <2>. TAKE k \in Nat \ {0}
  <2>1. Len(b) \in Nat
    OBVIOUS
  <2>2. k <= Len(b) => b[k] \in Bit
    <3>. SUFFICES ASSUME k <= Len(b) PROVE b[k] \in Bit
      OBVIOUS
    <3>1. k \in 1..Len(b)
      BY <2>1
    <3>. QED  BY <3>1
  <2>. QED  BY <2>2 DEF BitAt, Bit
<1>2. x \in Strings(ChunkBits)
  BY <1>0, <1>1 DEF Strings
<1>3. Find(h) = IF c.n <= ChunkBits THEN c ELSE h.links[x][LinkIndex(h.max - ChunkBits)]
  BY DEF Find
<1>4. NoChunk.n <= ChunkBits
  BY <1>0 DEF NoChunk
<1>5. CASE Used(lens) = {}
  <2>1. c = NoChunk
    BY <1>2, <1>5 DEF Decodes, EmptyTable
  <2>. QED  BY <1>3, <1>4, <2>1
<1>6. CASE Used(lens) # {}
  <2>0. Complete(lens) /\ Fits(lens) /\ h.max = G
    BY <1>6, CompleteFits DEF Decodes, Table
  <2>1. c = IF Written(lens, x) = {} THEN NoChunk ELSE CHOOSE d \in Written(lens, x) : TRUE
    <3>. HIDE DEF x
    <3>. QED  BY <1>2, <1>6 DEF Decodes, Table
  <2>2. CASE Written(lens, x) = {}
    BY <1>3, <1>4, <2>1, <2>2
  <2>3. CASE Written(lens, x) # {}
    <3>1. c \in Written(lens, x)
      BY <2>1, <2>3
    <3>2. CASE c = Link /\ Linked(lens, x)
      <4>. DEFINE y == LinkIndex(G - ChunkBits)
      <4>1. G > ChunkBits /\ G \in Nat /\ G - ChunkBits \in Nat
        <5>1. G \in Nat
          BY <1>0, GreatestIs
        <5>. QED  BY <1>0, <3>2, <5>1 DEF Linked
      <4>2. y \in Strings(G - ChunkBits) /\ \A k \in 1..(G - ChunkBits) : y[k] = BitAt(ChunkBits + k)
        <5>1. \A k \in 1..(G - ChunkBits) : ChunkBits + k \in Nat \ {0}
          BY <1>0, <4>1
        <5>. QED  BY <1>1, <5>1 DEF LinkIndex, Strings
      <4>3. ~(c.n <= ChunkBits)
        BY <1>0, <3>2 DEF Link
      <4>. HIDE DEF x, y
      <4>4. Find(h) = h.links[x][y]
        BY <1>3, <2>0, <4>3 DEF y
      <4>5. h.links[x][y] = IF WrittenBehind(lens, x, y) = {} THEN NoChunk
                            ELSE CHOOSE d \in WrittenBehind(lens, x, y) : TRUE
        <5>. DEFINE row(k) == [j \in Strings(G - ChunkBits) |->
                                IF WrittenBehind(lens, k, j) = {} THEN NoChunk
                                ELSE CHOOSE d \in WrittenBehind(lens, k, j) : TRUE]
                    K == {k \in Strings(ChunkBits) : Linked(lens, k)}
        <5>1. h.links = [k \in K |-> row(k)]
          BY <1>6 DEF Decodes, Table
        <5>2. x \in K
          BY <1>2, <3>2
        <5>3. row(x)[y] = IF WrittenBehind(lens, x, y) = {} THEN NoChunk
                          ELSE CHOOSE d \in WrittenBehind(lens, x, y) : TRUE
          BY <4>2
        <5>. HIDE DEF row, K
        <5>4. h.links[x] = row(x)
          BY <5>1, <5>2
        <5>. QED  BY <5>3, <5>4
      <4>6. CASE WrittenBehind(lens, x, y) = {}
        BY <4>4, <4>5, <4>6
      <4>7. CASE WrittenBehind(lens, x, y) # {}
        <5>1. Find(h) \in WrittenBehind(lens, x, y)
          BY <4>4, <4>5, <4>7
        <5>2. PICK s \in Used(lens) : /\ Find(h) = Entry(lens, s)
                                      /\ Value(x \o y)[lens[s]] = CodeNumber(lens, s)
          BY <1>2, <2>0, <4>1, <4>2, <5>1, WrittenBehindIs
        <5>3. x \o y \in Seq(Bit) /\ Len(x \o y) = G
          BY <1>2, <2>0, <4>1, <4>2, WrittenBehindIs
        <5>4. lens[s] <= Len(x \o y)
          BY <5>3, GreatestIs
        <5>5. ASSUME NEW k \in 1..Len(x \o y) PROVE (x \o y)[k] = BitAt(k)
          <6>1. x \in Seq(Bit) /\ Len(x) = ChunkBits /\ y \in Seq(Bit) /\ Len(y) = G - ChunkBits
            BY <1>0, <1>2, <4>1, <4>2, StringIs
          <6>2. k \in Nat /\ 1 <= k /\ k <= G
            BY <4>1, <5>3
          <6>3. CASE k <= ChunkBits
            <7>1. k \in 1..ChunkBits
              BY <1>0, <6>2, <6>3
            <7>2. (x \o y)[k] = x[k]
              BY <6>1, <7>1
            <7>. QED  BY <7>1, <7>2 DEF x
          <6>4. CASE ~(k <= ChunkBits)
            <7>1. PICK j \in 1..(G - ChunkBits) : k = ChunkBits + j
              <8>1. k - ChunkBits \in 1..(G - ChunkBits) /\ k = ChunkBits + (k - ChunkBits)
                BY <1>0, <4>1, <6>2, <6>4
              <8>. QED  BY <8>1
            <7>2. (x \o y)[ChunkBits + j] = y[j]
              BY <6>1
            <7>. QED  BY <4>2, <7>1, <7>2
          <6>. QED  BY <6>3, <6>4
        <5>. QED  BY <1>6, <2>0, <5>2, <5>3, <5>4, <5>5
      <4>. QED  BY <4>6, <4>7
    <3>3. ASSUME NEW s \in Used(lens), c = Entry(lens, s), lens[s] <= ChunkBits,
                 Value(x)[lens[s]] = CodeNumber(lens, s)
          PROVE  /\ Find(h) = Entry(lens, s) /\ x \in Seq(Bit) /\ lens[s] <= Len(x)
                 /\ \A k \in 1..Len(x) : x[k] = BitAt(k)
      <4>1. c.n = lens[s]
        BY <3>3 DEF Entry
      <4>2. Find(h) = Entry(lens, s)
        BY <1>3, <3>3, <4>1
      <4>3. \A k \in 1..ChunkBits : x[k] = BitAt(k)
        OBVIOUS
      <4>. HIDE DEF x
      <4>4. x \in Seq(Bit) /\ Len(x) = ChunkBits
        BY <1>0, <1>2, StringIs
      <4>. QED  BY <3>3, <4>2, <4>3, <4>4
    <3>4. \/ c = Link /\ Linked(lens, x)
          \/ \E s \in Used(lens) : /\ c = Entry(lens, s) /\ lens[s] <= ChunkBits
                                  /\ Value(x)[lens[s]] = CodeNumber(lens, s)
      <4>. HIDE DEF x, c
      <4>. QED  BY <1>2, <2>0, <3>1, WrittenIs
    <3>. QED
      <4>. HIDE DEF x, c
      <4>. QED  BY <1>6, <2>0, <3>2, <3>3, <3>4
  <2>. QED  BY <2>2, <2>3
<1>. QED  BY <1>5, <1>6

(* A code that may come next, as far as the bits go.                       *)
Compatible(c, s) == \A k \in 1..Len(c) : k <= Len(s) => c[k] = s[k]

(* A symbol whose bits are all there is the one that they begin with.      *)
LEMMA FoundRead ==
  ASSUME NEW lens \in CodeLens, NEW h, Decodes(h, lens), b \in Seq(Bit),
         Find(h) # NoChunk, ~NeedMore(h)
  PROVE  /\ Used(lens) # {} /\ Complete(lens)
         /\ \E s \in Used(lens) : /\ Find(h) = Entry(lens, s) /\ lens[s] <= Len(b)
                                /\ IsPrefix(CodeOf(lens, s), b)
<1>1. Used(lens) # {} /\ Complete(lens) /\ Fits(lens)
  BY FindIs, CompleteFits
<1>2. PICK s \in Used(lens), z \in Seq(Bit) :
        /\ Find(h) = Entry(lens, s)
        /\ lens[s] <= Len(z) /\ Value(z)[lens[s]] = CodeNumber(lens, s)
        /\ \A k \in 1..Len(z) : z[k] = BitAt(k)
  BY FindIs
<1>3. MaxLen \in Nat /\ lens[s] \in 1..MaxLen /\ Len(b) \in Nat /\ Len(z) \in Nat
  BY WidthAssumption, UsedIs
<1>4. lens[s] <= Len(b)
  <2>1. Find(h).n = lens[s]
    BY <1>2 DEF Entry
  <2>. QED  BY <1>3, <2>1 DEF NeedMore
<1>5. \A k \in 1..lens[s] : z[k] = b[k]
  <2>. TAKE k \in 1..lens[s]
  <2>1. k \in 1..Len(z) /\ k <= Len(b)
    BY <1>2, <1>3, <1>4
  <2>. QED  BY <1>2, <2>1 DEF BitAt
<1>6. Value(z)[lens[s]] = Value(b)[lens[s]]
  <2>1. lens[s] \in Nat /\ lens[s] \in 0..lens[s]
    BY <1>3
  <2>. QED  BY <1>2, <1>4, <1>5, <2>1, ValueSame
<1>7. IsPrefix(CodeOf(lens, s), b)
  BY <1>1, <1>2, <1>4, <1>6, CodeIs
<1>. QED  BY <1>1, <1>2, <1>4, <1>7

(* If it asks for more bits, then no shorter code can come next.           *)
LEMMA FoundShort ==
  ASSUME NEW lens \in CodeLens, NEW h, Decodes(h, lens), b \in Seq(Bit), NeedMore(h)
  PROVE  /\ Find(h).n \in 1..MaxLen
         /\ \A t \in Used(lens) : lens[t] < Find(h).n => ~Compatible(CodeOf(lens, t), b)
<1>0. Find(h) # NoChunk
  <2>1. Len(b) \in Nat
    OBVIOUS
  <2>. QED  BY <2>1 DEF NeedMore, NoChunk
<1>1. Used(lens) # {} /\ Complete(lens) /\ Fits(lens)
  BY <1>0, FindIs, CompleteFits
<1>2. PICK s \in Used(lens), z \in Seq(Bit) :
        /\ Find(h) = Entry(lens, s)
        /\ lens[s] <= Len(z) /\ Value(z)[lens[s]] = CodeNumber(lens, s)
        /\ \A k \in 1..Len(z) : z[k] = BitAt(k)
  BY <1>0, FindIs
<1>3. MaxLen \in Nat /\ lens[s] \in 1..MaxLen /\ Len(b) \in Nat /\ Len(z) \in Nat
  BY WidthAssumption, UsedIs
<1>4. Find(h).n = lens[s]
  BY <1>2 DEF Entry
<1>5. ASSUME NEW t \in Used(lens), lens[t] < lens[s], Compatible(CodeOf(lens, t), b)
      PROVE  FALSE
  <2>. DEFINE m == lens[t]
              w == CodeOf(lens, t)
  <2>1. m \in 1..MaxLen /\ m \in 0..MaxLen /\ m \in Nat /\ m <= Len(z) /\ ~(lens[s] <= m)
    <3>1. m \in 1..MaxLen
      BY UsedIs
    <3>. QED  BY <1>2, <1>3, <1>5, <3>1
  <2>2. w \in Seq(Bit) /\ Len(w) = m /\ Value(w)[m] = CodeNumber(lens, t)
    BY <1>1, CodeIs
  <2>3. \A k \in 1..m : z[k] = w[k] \/ z[k] = 0
    <3>. TAKE k \in 1..m
    <3>1. k \in 1..Len(z)
      BY <1>3, <2>1
    <3>2. CASE k <= Len(b)
      BY <1>2, <1>5, <2>2, <3>1, <3>2 DEF BitAt, Compatible
    <3>3. CASE ~(k <= Len(b))
      BY <1>2, <3>1, <3>3 DEF BitAt
    <3>. QED  BY <3>2, <3>3
  <2>. HIDE DEF m, w
  <2>4. m <= Len(w) /\ m <= m
    BY <2>1, <2>2
  <2>5. Value(z)[m] <= Value(w)[m]
    BY <2>1, <2>2, <2>3, <2>4, ValueMonotone
  <2>6. Value(w)[m] < CodeBehind(lens)[m]
    BY <2>1, <2>2, <2>4, Ahead DEF m
  <2>7. ~(Value(z)[m] < CodeBehind(lens)[m])
    BY <1>2, <2>1, Ahead
  <2>8. Value(z)[m] \in Nat /\ Value(w)[m] \in Nat /\ CodeBehind(lens)[m] \in Nat
    <3>1. m \in 0..Len(z) /\ m \in 0..Len(w)
      BY <1>3, <2>1, <2>2
    <3>. QED  BY <2>1, <2>2, <3>1, ValueStep, Behind
  <2>. QED  BY <2>5, <2>6, <2>7, <2>8
<1>. QED  BY <1>3, <1>4, <1>5

---------------------------------------------------------------------------
(* The canonical code as it is defined *)

(* F adds w up from z.                                                     *)
IsSum(F, z, w, n) == F = [k \in 0..n |-> IF k = 0 THEN z ELSE F[k - 1] + w[k]]

(* There is such a function.                                               *)
LEMMA Sums ==
  ASSUME NEW n \in Nat, NEW z \in Nat, NEW w, w \in [1..n -> Nat]
  PROVE  \E F \in [0..n -> Nat] : IsSum(F, z, w, n)
<1>. DEFINE g == [x \in Nat \X Nat |-> x[2] + (IF x[1] + 1 \in 1..n THEN w[x[1] + 1] ELSE 0)]
<1>1. g \in [Nat \X Nat -> Nat]
  OBVIOUS
<1>2. PICK F \in [0..n -> Nat] : IsRecursiveUpTo(g, z, F, n)
  <2>. HIDE DEF g
  <2>. QED  BY <1>1, RecursiveUpTo
<1>3. ASSUME NEW k \in 0..n, k # 0
      PROVE  g[<<k - 1, F[k - 1]>>] = F[k - 1] + w[k]
  <2>1. k - 1 \in Nat /\ k - 1 \in 0..n /\ (k - 1) + 1 = k /\ k \in 1..n
    BY <1>3
  <2>2. F[k - 1] \in Nat
    BY <1>2, <2>1
  <2>. QED  BY <2>1, <2>2
<1>. HIDE DEF g
<1>4. \A k \in 0..n : F[k] = IF k = 0 THEN z ELSE F[k - 1] + w[k]
  BY <1>2, <1>3 DEF IsRecursiveUpTo
<1>5. F = [k \in 0..n |-> F[k]]
  BY <1>2
<1>. QED  BY <1>4, <1>5 DEF IsSum

(* F sums up the share of the strings of n bits that the shorter codes     *)
(* take.                                                                   *)
IsShare(lens, n, F) ==
  /\ F[0] = 0
  /\ \A k \in 0..(n - 1) :
       F[k + 1] = F[k] + Cardinality(OfLength(lens, k + 1)) * Power[n - (k + 1)]

(* The canonical code follows on that share.                               *)
LEMMA Shares ==
  ASSUME NEW lens, NEW s, NEW n \in Nat \ {0}, n = lens[s],
         \A k \in 1..n : Cardinality(OfLength(lens, k)) \in Nat
  PROVE  \E F : /\ IsShare(lens, n, F)
                /\ Canonical(lens, s)
                   = Word(F[n - 1] + Cardinality({t \in OfLength(lens, n) : t < s}), n)
<1>. DEFINE e(k) == Cardinality(OfLength(lens, k)) * Power[n - k]
            w == [k \in 1..n |-> e(k)]
            Is(G) == G = [k \in 0..n |-> IF k = 0 THEN 0 ELSE G[k - 1] + e(k)]
            F == CHOOSE G : Is(G)
<1>1. \A k \in 1..n : e(k) \in Nat
  <2>. TAKE k \in 1..n
  <2>1. n - k \in Nat
    OBVIOUS
  <2>2. PICK c \in Nat, p \in Nat : c = Cardinality(OfLength(lens, k)) /\ p = Power[n - k]
    BY <2>1, PowerEquations
  <2>3. c * p \in Nat
    OBVIOUS
  <2>. QED  BY <2>2, <2>3
<1>2. Canonical(lens, s) = Word(F[n - 1] + Cardinality({t \in OfLength(lens, n) : t < s}), n)
  BY DEF Canonical
<1>. HIDE DEF e
<1>3. w \in [1..n -> Nat]
  BY <1>1
<1>4. PICK G \in [0..n -> Nat] : IsSum(G, 0, w, n)
  <2>. HIDE DEF w
  <2>1. 0 \in Nat /\ n \in Nat
    OBVIOUS
  <2>. QED  BY <1>3, <2>1, Sums
<1>5. \A H : IsSum(H, 0, w, n) <=> Is(H)
  <2>. TAKE H
  <2>1. \A k \in 0..n : (IF k = 0 THEN 0 ELSE H[k - 1] + w[k]) = IF k = 0 THEN 0 ELSE H[k - 1] + e(k)
    OBVIOUS
  <2>2. [k \in 0..n |-> IF k = 0 THEN 0 ELSE H[k - 1] + w[k]]
        = [k \in 0..n |-> IF k = 0 THEN 0 ELSE H[k - 1] + e(k)]
    BY <2>1
  <2>. QED  BY <2>2 DEF IsSum
<1>6. Is(F)
  BY <1>4, <1>5
<1>. HIDE DEF F
<1>7. IsSum(F, 0, w, n)
  BY <1>5, <1>6
<1>8. F[0] = 0 /\ \A k \in 0..(n - 1) : F[k + 1] = F[k] + w[k + 1]
  <2>1. ASSUME NEW k \in 0..(n - 1) PROVE k + 1 \in 0..n /\ k + 1 # 0 /\ (k + 1) - 1 = k
    OBVIOUS
  <2>. HIDE DEF w
  <2>2. 0 \in 0..n
    OBVIOUS
  <2>. QED  BY <1>7, <2>1, <2>2 DEF IsSum
<1>9. \A k \in 0..(n - 1) : w[k + 1] = e(k + 1)
  <2>1. \A k \in 0..(n - 1) : k + 1 \in 1..n
    OBVIOUS
  <2>. QED  BY <2>1
<1>10. \A k \in 0..(n - 1) : F[k + 1] = F[k] + e(k + 1)
  <2>. HIDE DEF w
  <2>. QED  BY <1>8, <1>9
<1>11. IsShare(lens, n, F)
  BY <1>8, <1>10 DEF IsShare, e
<1>. QED  BY <1>2, <1>11

(* The codes that init gives out are the canonical ones.                   *)
LEMMA CodeIsCanonical ==
  ASSUME NEW lens \in CodeLens, NEW s \in Used(lens)
  PROVE  Canonical(lens, s) = CodeOf(lens, s)
<1>0. MaxLen \in Nat
  BY WidthAssumption
<1>1. PICK n \in Nat \ {0} : n = lens[s] /\ n <= MaxLen
  BY <1>0, UsedIs
<1>2. \A k \in Nat : Cardinality(OfLength(lens, k)) \in Nat
  BY OfLengthIs
<1>3. PICK F :
        /\ IsShare(lens, n, F)
        /\ Canonical(lens, s)
           = Word(F[n - 1] + Cardinality({t \in OfLength(lens, n) : t < s}), n)
  <2>1. \A k \in 1..n : Cardinality(OfLength(lens, k)) \in Nat
    BY <1>2
  <2>. QED  BY <1>1, <2>1, Shares
<1>. DEFINE C == CodeBehind(lens)
            S == {k \in Nat : k <= n => F[k] = C[k] * Power[n - k]}
<1>4. /\ C[0] = 0
      /\ \A k \in 0..MaxLen : C[k] \in Nat
      /\ \A k \in 0..(MaxLen - 1) : C[k + 1] = 2 * C[k] + Cardinality(OfLength(lens, k + 1))
  BY Behind
<1>. HIDE DEF C
<1>5. 0 \in S
  <2>1. Power[n - 0] \in Nat
    BY PowerEquations
  <2>2. \A p \in Nat : 0 * p = 0
    OBVIOUS
  <2>. QED  BY <1>3, <1>4, <2>1, <2>2 DEF IsShare
<1>6. ASSUME NEW k \in Nat, k \in S PROVE k + 1 \in S
  <2>. SUFFICES ASSUME k + 1 <= n PROVE F[k + 1] = C[k + 1] * Power[n - (k + 1)]
    OBVIOUS
  <2>1. PICK m \in Nat : m = n - (k + 1) /\ m + 1 = n - k
    OBVIOUS
  <2>2. PICK p \in Nat : p = Power[m] /\ Power[m + 1] = 2 * p
    BY PowerEquations
  <2>3. k \in 0..(n - 1) /\ k \in 0..(MaxLen - 1) /\ k \in 0..MaxLen /\ k <= n /\ k + 1 \in Nat
    BY <1>0, <1>1
  <2>4. PICK c \in Nat, q \in Nat : c = C[k] /\ q = Cardinality(OfLength(lens, k + 1))
    BY <1>2, <1>4, <2>3
  <2>5. F[k] = c * (2 * p)
    BY <1>6, <2>1, <2>2, <2>3, <2>4
  <2>6. F[k + 1] = F[k] + q * p
    BY <1>3, <2>1, <2>2, <2>3, <2>4 DEF IsShare
  <2>7. C[k + 1] = 2 * c + q
    BY <1>4, <2>3, <2>4
  <2>8. c * (2 * p) + q * p = (2 * c + q) * p
    OBVIOUS
  <2>. QED  BY <2>1, <2>2, <2>5, <2>6, <2>7, <2>8
<1>. HIDE DEF S
<1>7. Nat \subseteq S
  BY <1>5, <1>6, Induction
<1>8. F[n - 1] = 2 * C[n - 1]
  <2>1. PICK k \in Nat : k = n - 1 /\ k <= n /\ n - k = 0 + 1 /\ k \in 0..MaxLen
    BY <1>0, <1>1
  <2>2. F[k] = C[k] * Power[n - k]
    BY <1>7, <2>1 DEF S
  <2>3. Power[0 + 1] = 2
    <3>1. 0 \in Nat /\ Power[0] = 1
      BY PowerEquations
    <3>2. Power[0 + 1] = 2 * Power[0]
      BY <3>1, PowerEquations
    <3>. QED  BY <3>1, <3>2
  <2>4. PICK c \in Nat : c = C[k]
    BY <1>4, <2>1
  <2>5. c * 2 = 2 * c
    OBVIOUS
  <2>. QED  BY <2>1, <2>2, <2>3, <2>4, <2>5
<1>. QED  BY <1>1, <1>3, <1>8 DEF CodeOf, NextCode, C

---------------------------------------------------------------------------
(* Lengths and distances *)

(* The first powers of two.                                                *)
LEMMA FirstPowers ==
  /\ Power[0] = 1 /\ Power[1] = 2 /\ Power[2] = 4 /\ Power[3] = 8 /\ Power[4] = 16 /\ Power[5] = 32
  /\ Power[15] = 32768
<1>1. \A n \in Nat : Power[n + 1] = 2 * Power[n]
  BY PowerEquations
<1>2. Power[0] = 1
  BY PowerEquations
<1>3. Power[1] = 2
  <2>1. Power[0 + 1] = 2 * Power[0]
    BY <1>1
  <2>. QED  BY <1>2, <2>1
<1>4. Power[2] = 4 /\ Power[3] = 8
  <2>1. Power[1 + 1] = 2 * Power[1] /\ Power[2 + 1] = 2 * Power[2]
    BY <1>1
  <2>. QED  BY <1>3, <2>1
<1>5. Power[4] = 16 /\ Power[5] = 32
  <2>1. Power[3 + 1] = 2 * Power[3] /\ Power[4 + 1] = 2 * Power[4]
    BY <1>1
  <2>. QED  BY <1>4, <2>1
<1>6. Power[8] = 256
  <2>1. Power[5 + 1] = 2 * Power[5] /\ Power[6 + 1] = 2 * Power[6] /\ Power[7 + 1] = 2 * Power[7]
    BY <1>1
  <2>. QED  BY <1>5, <2>1
<1>7. Power[11] = 2048
  <2>1. Power[8 + 1] = 2 * Power[8] /\ Power[9 + 1] = 2 * Power[9] /\ Power[10 + 1] = 2 * Power[10]
    BY <1>1
  <2>. QED  BY <1>6, <2>1
<1>8. Power[15] = 32768
  <2>1. Power[11 + 1] = 2 * Power[11] /\ Power[12 + 1] = 2 * Power[12]
        /\ Power[13 + 1] = 2 * Power[13] /\ Power[14 + 1] = 2 * Power[14]
    BY <1>1
  <2>. QED  BY <1>7, <2>1
<1>. QED  BY <1>2, <1>3, <1>4, <1>5, <1>8

(* Extra bits count on from where their symbol begins.                     *)
LEMMA LengthExtra ==
  ASSUME NEW v \in 257..285
  PROVE  /\ LengthOf(v, 0) \in Nat /\ \A x \in Nat : LengthOf(v, x) = LengthOf(v, 0) + x
         /\ ExtraBits(v) \in Nat
<1>1. CASE v \in 257..264
  BY <1>1 DEF LengthOf, ExtraBits
<1>2. CASE v \in 265..268
  BY <1>2 DEF LengthOf, ExtraBits
<1>3. CASE v \in 269..272
  BY <1>3 DEF LengthOf, ExtraBits
<1>4. CASE v \in 273..276
  BY <1>4 DEF LengthOf, ExtraBits
<1>5. CASE v \in 277..280
  BY <1>5 DEF LengthOf, ExtraBits
<1>6. CASE v \in 281..284
  BY <1>6 DEF LengthOf, ExtraBits
<1>7. CASE v = 285
  BY <1>7 DEF LengthOf, ExtraBits
<1>. QED  BY <1>1, <1>2, <1>3, <1>4, <1>5, <1>6, <1>7

(* A symbol ends where the next one begins, up to the last but one.        *)
LEMMA LengthStep ==
  ASSUME NEW v \in 257..283
  PROVE  LengthOf(v + 1, 0) = LengthOf(v, 0) + Power[ExtraBits(v)]
<1>0. /\ Power[0] = 1 /\ Power[1] = 2 /\ Power[2] = 4 /\ Power[3] = 8 /\ Power[4] = 16 /\ Power[5] = 32
  BY FirstPowers
<1>1. CASE v \in 257..264
  BY <1>0, <1>1 DEF LengthOf, ExtraBits
<1>2. CASE v \in 265..268
  BY <1>0, <1>2 DEF LengthOf, ExtraBits
<1>3. CASE v \in 269..272
  BY <1>0, <1>3 DEF LengthOf, ExtraBits
<1>4. CASE v \in 273..276
  BY <1>0, <1>4 DEF LengthOf, ExtraBits
<1>5. CASE v \in 277..280
  BY <1>0, <1>5 DEF LengthOf, ExtraBits
<1>6. CASE v \in 281..283
  BY <1>0, <1>6 DEF LengthOf, ExtraBits
<1>. QED  BY <1>1, <1>2, <1>3, <1>4, <1>5, <1>6

(* The lengths tile 3..258.                                                *)
LEMMA LengthTiles ==
  ASSUME NEW v \in 257..285
  PROVE  LengthOf(v, 0) = LengthBase(v)
<1>1. CASE v = 285
  BY <1>1 DEF LengthOf, LengthBase
<1>2. CASE v # 285
  <2>. DEFINE e(k) == Power[ExtraBits(256 + k)]
  <2>1. PICK n \in Nat : n = v - 257 /\ n <= 27
    BY <1>2
  <2>. DEFINE w == [k \in 1..n |-> e(k)]
              Is(G) == G = [k \in 0..n |-> IF k = 0 THEN 3 ELSE G[k - 1] + e(k)]
              F == CHOOSE G : Is(G)
  <2>2. LengthBase(v) = F[n]
    BY <1>2, <2>1 DEF LengthBase
  <2>3. \A k \in 1..n : e(k) \in Nat
    <3>. TAKE k \in 1..n
    <3>1. PICK u \in 257..285 : u = 256 + k
      BY <2>1
    <3>2. ExtraBits(u) \in Nat
      BY <3>1, LengthExtra
    <3>. QED  BY <3>1, <3>2, PowerEquations
  <2>. HIDE DEF e
  <2>4. w \in [1..n -> Nat]
    BY <2>3
  <2>5. PICK G \in [0..n -> Nat] : IsSum(G, 3, w, n)
    <3>. HIDE DEF w
    <3>1. 3 \in Nat
      OBVIOUS
    <3>. QED  BY <2>4, <3>1, Sums
  <2>6. Is(G)
    <3>1. \A k \in 0..n : (IF k = 0 THEN 3 ELSE G[k - 1] + w[k]) = IF k = 0 THEN 3 ELSE G[k - 1] + e(k)
      OBVIOUS
    <3>. QED  BY <2>5, <3>1 DEF IsSum
  <2>7. Is(F)
    BY <2>6
  <2>. HIDE DEF F
  <2>. DEFINE S == {k \in Nat : k <= n => F[k] = LengthOf(257 + k, 0)}
  <2>8. 0 \in S
    <3>1. F[0] = 3
      BY <2>7
    <3>2. LengthOf(257 + 0, 0) = 3
      BY DEF LengthOf
    <3>. QED  BY <3>1, <3>2
  <2>9. ASSUME NEW k \in Nat, k \in S PROVE k + 1 \in S
    <3>. SUFFICES ASSUME k + 1 <= n PROVE F[k + 1] = LengthOf(257 + (k + 1), 0)
      OBVIOUS
    <3>1. k + 1 \in 0..n /\ k + 1 # 0 /\ (k + 1) - 1 = k /\ k <= n
      OBVIOUS
    <3>2. F[k + 1] = F[k] + e(k + 1)
      BY <2>7, <3>1
    <3>3. PICK u \in 257..283 : u = 257 + k /\ u = 256 + (k + 1) /\ u + 1 = 257 + (k + 1)
      BY <2>1
    <3>4. F[k] = LengthOf(u, 0)
      BY <2>9, <3>1, <3>3
    <3>5. e(k + 1) = Power[ExtraBits(u)]
      BY <3>3 DEF e
    <3>6. LengthOf(u + 1, 0) = LengthOf(u, 0) + Power[ExtraBits(u)]
      BY LengthStep
    <3>. QED  BY <3>2, <3>3, <3>4, <3>5, <3>6
  <2>. HIDE DEF S
  <2>10. Nat \subseteq S
    BY <2>8, <2>9, Induction
  <2>11. F[n] = LengthOf(257 + n, 0) /\ 257 + n = v
    BY <2>1, <2>10 DEF S
  <2>. QED  BY <2>2, <2>11
<1>. QED  BY <1>1, <1>2

(* The extra bits of a distance count on from where its symbol begins.     *)
LEMMA DistanceExtra ==
  ASSUME NEW d \in 0..30
  PROVE  /\ DistExtraBits(d) \in Nat /\ DistanceOf(d, 0) \in Nat
         /\ d < 4 => DistExtraBits(d) = 0
         /\ \A x \in Nat : d >= 4 => DistanceOf(d, x) = DistanceOf(d, 0) + x
<1>1. DistExtraBits(d) \in Nat
  BY DEF DistExtraBits
<1>2. PICK p \in Nat, q \in Nat : p = Power[DistExtraBits(d)] /\ q = Power[DistExtraBits(d) + 1]
  BY <1>1, PowerEquations
<1>3. CASE d < 4
  BY <1>1, <1>3 DEF DistExtraBits, DistanceOf
<1>4. CASE ~(d < 4)
  <2>1. d % 2 \in {0, 1}
    OBVIOUS
  <2>2. \A x \in Nat : DistanceOf(d, x) = q + 1 + (d % 2) * p + x
    BY <1>2, <1>4 DEF DistanceOf
  <2>3. (d % 2) * p \in Nat
    BY <2>1
  <2>. QED  BY <1>1, <1>4, <2>2, <2>3
<1>. QED  BY <1>3, <1>4

(* A distance symbol ends where the next one begins.                       *)
LEMMA DistanceStarts ==
  ASSUME NEW d \in 0..29
  PROVE  DistanceOf(d + 1, 0) = DistanceOf(d, 0) + Power[DistExtraBits(d)]
<1>0. Power[0] = 1 /\ Power[2] = 4
  BY FirstPowers
<1>1. CASE d < 3
  BY <1>0, <1>1 DEF DistExtraBits, DistanceOf
<1>2. CASE d = 3
  <2>1. DistExtraBits(3) = 0 /\ DistExtraBits(4) = 1 /\ 4 % 2 = 0
    BY DEF DistExtraBits
  <2>2. PICK p \in Nat : p = Power[1]
    BY PowerEquations
  <2>3. DistanceOf(4, 0) = Power[1 + 1] + 1 + 0 * p + 0 /\ DistanceOf(3, 0) = 4
    BY <2>1, <2>2 DEF DistanceOf
  <2>. QED  BY <1>0, <1>2, <2>1, <2>3
<1>3. CASE d >= 4
  <2>1. PICK h \in Nat, r \in {0, 1} : d = 2 * h + r
    <3>1. d = 2 * (d \div 2) + (d % 2) /\ d \div 2 \in Nat /\ d % 2 \in {0, 1}
      OBVIOUS
    <3>. QED  BY <3>1
  <2>2. h >= 2
    BY <1>3, <2>1
  <2>3. PICK e \in Nat : e = h - 1
    BY <2>2
  <2>4. DistExtraBits(d) = e /\ d % 2 = r
    BY <1>3, <2>1, <2>2, <2>3 DEF DistExtraBits
  <2>5. PICK p \in Nat : p = Power[e] /\ Power[e + 1] = 2 * p /\ Power[(e + 1) + 1] = 2 * (2 * p)
    BY <2>3, PowerEquations
  <2>6. DistanceOf(d, 0) = 2 * p + 1 + r * p + 0
    BY <1>3, <2>4, <2>5 DEF DistanceOf
  <2>7. CASE r = 0
    <3>1. DistExtraBits(d + 1) = e /\ (d + 1) % 2 = 1
      BY <1>3, <2>1, <2>2, <2>3, <2>7 DEF DistExtraBits
    <3>2. DistanceOf(d + 1, 0) = 2 * p + 1 + 1 * p + 0
      BY <1>3, <2>5, <3>1 DEF DistanceOf
    <3>. QED  BY <2>4, <2>5, <2>6, <2>7, <3>2
  <2>8. CASE r = 1
    <3>1. DistExtraBits(d + 1) = e + 1 /\ (d + 1) % 2 = 0
      BY <1>3, <2>1, <2>2, <2>3, <2>8 DEF DistExtraBits
    <3>2. DistanceOf(d + 1, 0) = 2 * (2 * p) + 1 + 0 * (2 * p) + 0
      BY <1>3, <2>5, <3>1 DEF DistanceOf
    <3>. QED  BY <2>4, <2>5, <2>6, <2>8, <3>2
  <2>. QED  BY <2>7, <2>8
<1>. QED  BY <1>1, <1>2, <1>3

(* The distances tile 1..32768.                                            *)
LEMMA DistanceTiles ==
  ASSUME NEW d \in 0..30
  PROVE  DistanceOf(d, 0) = DistanceBase(d)
<1>. DEFINE e(k) == Power[DistExtraBits(k - 1)]
            w == [k \in 1..d |-> e(k)]
            Is(G) == G = [k \in 0..d |-> IF k = 0 THEN 1 ELSE G[k - 1] + e(k)]
            F == CHOOSE G : Is(G)
<1>1. DistanceBase(d) = F[d]
  BY DEF DistanceBase
<1>2. \A k \in 1..d : e(k) \in Nat
  <2>. TAKE k \in 1..d
  <2>1. k - 1 \in 0..30
    OBVIOUS
  <2>. QED  BY <2>1, DistanceExtra, PowerEquations
<1>. HIDE DEF e
<1>3. w \in [1..d -> Nat]
  BY <1>2
<1>4. PICK G \in [0..d -> Nat] : IsSum(G, 1, w, d)
  <2>. HIDE DEF w
  <2>1. 1 \in Nat /\ d \in Nat
    OBVIOUS
  <2>. QED  BY <1>3, <2>1, Sums
<1>5. Is(G)
  <2>1. \A k \in 0..d : (IF k = 0 THEN 1 ELSE G[k - 1] + w[k]) = IF k = 0 THEN 1 ELSE G[k - 1] + e(k)
    OBVIOUS
  <2>. QED  BY <1>4, <2>1 DEF IsSum
<1>6. Is(F)
  BY <1>5
<1>. HIDE DEF F
<1>. DEFINE S == {k \in Nat : k <= d => F[k] = DistanceOf(k, 0)}
<1>7. 0 \in S
  <2>1. F[0] = 1
    BY <1>6
  <2>2. DistanceOf(0, 0) = 1
    BY DEF DistanceOf
  <2>. QED  BY <2>1, <2>2
<1>8. ASSUME NEW k \in Nat, k \in S PROVE k + 1 \in S
  <2>. SUFFICES ASSUME k + 1 <= d PROVE F[k + 1] = DistanceOf(k + 1, 0)
    OBVIOUS
  <2>1. k + 1 \in 0..d /\ k + 1 # 0 /\ (k + 1) - 1 = k /\ k <= d /\ k \in 0..29
    OBVIOUS
  <2>2. F[k + 1] = F[k] + e(k + 1)
    BY <1>6, <2>1
  <2>3. F[k] = DistanceOf(k, 0)
    BY <1>8, <2>1
  <2>. QED  BY <2>1, <2>2, <2>3, DistanceStarts DEF e
<1>. HIDE DEF S
<1>9. Nat \subseteq S
  BY <1>7, <1>8, Induction
<1>10. F[d] = DistanceOf(d, 0)
  BY <1>9 DEF S
<1>. QED  BY <1>1, <1>10

(* The code's formulas tile as RFC 1951 says.                              *)
LEMMA Tiles == Tiled
<1>1. \A v \in 257..285 : LengthOf(v, 0) = LengthBase(v)
  BY LengthTiles
<1>2. \A d \in 0..29 : DistanceOf(d, 0) = DistanceBase(d)
  BY DistanceTiles
<1>3. LengthBase(284) + 31 = 258
  <2>1. LengthOf(284, 0) = LengthBase(284)
    BY <1>1
  <2>2. LengthOf(284, 0) = 227
    BY DEF LengthOf
  <2>. QED  BY <2>1, <2>2
<1>4. DistanceBase(30) = 32769
  <2>1. DistanceOf(30, 0) = DistanceBase(30)
    BY DistanceTiles
  <2>2. DistExtraBits(30) = 14 /\ 30 % 2 = 0 /\ 14 + 1 = 15
    BY DEF DistExtraBits
  <2>3. PICK p \in Nat : p = Power[14]
    BY PowerEquations
  <2>4. DistanceOf(30, 0) = Power[15] + 1 + 0 * p + 0
    BY <2>2, <2>3 DEF DistanceOf
  <2>. QED  BY <2>1, <2>4, FirstPowers
<1>. QED  BY <1>1, <1>2, <1>3, <1>4 DEF Tiled
=============================================================================
