---------------------------- MODULE GunzipProofs ----------------------------
(***************************************************************************)
(* The invariants of Gunzip hold for every set of files, of whatever       *)
(* members, cut off or damaged anywhere, and for all sizes of buffers.     *)
(***************************************************************************)
EXTENDS Gunzip, SequenceTheorems, Induction

---------------------------------------------------------------------------
(* The bytes of a file *)

(* The equations of BytesUpTo.                                             *)
LEMMA BytesEquations ==
  ASSUME NEW f
  PROVE  /\ BytesUpTo(f, 0) = <<>>
         /\ \A p \in Nat : BytesUpTo(f, p) \in Seq(Nat)
         /\ \A p \in Nat : BytesUpTo(f, p + 1) =
              IF f[p + 1].kind = "byte" THEN Append(BytesUpTo(f, p), p + 1) ELSE BytesUpTo(f, p)
<1>. DEFINE g == [x \in Nat \X Seq(Nat) |->
                    IF f[x[1] + 1].kind = "byte" THEN Append(x[2], x[1] + 1) ELSE x[2]]
            Is(F) == F = [i \in Nat |->
                            IF i = 0 THEN <<>>
                            ELSE IF f[i].kind = "byte" THEN Append(F[i - 1], i) ELSE F[i - 1]]
            B == CHOOSE F : Is(F)
<1>0. <<>> \in Seq(Nat)
  OBVIOUS
<1>1. g \in [Nat \X Seq(Nat) -> Seq(Nat)]
  OBVIOUS
<1>2. PICK F \in [Nat -> Seq(Nat)] : IsRecursive(g, <<>>, F)
  <2>. HIDE DEF g
  <2>. QED  BY <1>0, <1>1, RecursiveFunction
<1>3. Is(F)
  <2>1. ASSUME NEW i \in Nat, i # 0
        PROVE  g[<<i - 1, F[i - 1]>>] = IF f[i].kind = "byte" THEN Append(F[i - 1], i) ELSE F[i - 1]
    <3>1. <<i - 1, F[i - 1]>> \in Nat \X Seq(Nat) /\ (i - 1) + 1 = i
      BY <2>1
    <3>. QED  BY <3>1
  <2>. QED  BY <1>2, <2>1 DEF IsRecursive
<1>4. Is(B)
  BY <1>3
<1>. HIDE DEF B
<1>5. \A p : BytesUpTo(f, p) = B[p]
  BY DEF B, BytesUpTo
<1>6. B[0] = <<>>
  BY <1>4
<1>7. ASSUME NEW p \in Nat
      PROVE  B[p + 1] = IF f[p + 1].kind = "byte" THEN Append(B[p], p + 1) ELSE B[p]
  <2>1. p + 1 \in Nat /\ p + 1 # 0 /\ (p + 1) - 1 = p
    OBVIOUS
  <2>. QED  BY <1>4, <2>1
<1>8. \A p \in Nat : B[p] \in Seq(Nat)
  <2>. DEFINE S == {p \in Nat : B[p] \in Seq(Nat)}
  <2>1. 0 \in S
    BY <1>0, <1>6
  <2>2. ASSUME NEW p \in Nat, p \in S PROVE p + 1 \in S
    <3>1. B[p] \in Seq(Nat) /\ p + 1 \in Nat
      BY <2>2
    <3>2. Append(B[p], p + 1) \in Seq(Nat)
      BY <3>1
    <3>. QED  BY <1>7, <3>1, <3>2
  <2>. HIDE DEF S
  <2>3. Nat \subseteq S
    BY <2>1, <2>2, Induction
  <2>. QED  BY <2>3 DEF S
<1>. QED  BY <1>5, <1>6, <1>7, <1>8

(* They are the indices of byte tokens.                                    *)
LEMMA BytesAre ==
  ASSUME NEW f, NEW p \in Nat, NEW i \in DOMAIN BytesUpTo(f, p)
  PROVE  BytesUpTo(f, p)[i] \in 1..p /\ f[BytesUpTo(f, p)[i]].kind = "byte"
<1>. DEFINE Bytes(q) == \A j \in DOMAIN BytesUpTo(f, q) :
                          BytesUpTo(f, q)[j] \in 1..q /\ f[BytesUpTo(f, q)[j]].kind = "byte"
            S == {q \in Nat : Bytes(q)}
<1>1. 0 \in S
  BY BytesEquations
<1>2. ASSUME NEW q \in Nat, q \in S PROVE q + 1 \in S
  <2>1. BytesUpTo(f, q) \in Seq(Nat)
    BY BytesEquations
  <2>2. Bytes(q)
    BY <1>2
  <2>3. CASE f[q + 1].kind = "byte"
    <3>1. BytesUpTo(f, q + 1) = Append(BytesUpTo(f, q), q + 1)
      BY <2>3, BytesEquations
    <3>2. ASSUME NEW j \in DOMAIN BytesUpTo(f, q + 1)
          PROVE  /\ BytesUpTo(f, q + 1)[j] \in 1..(q + 1)
                 /\ f[BytesUpTo(f, q + 1)[j]].kind = "byte"
      <4>1. CASE j \in DOMAIN BytesUpTo(f, q)
        <5>1. \A s \in Seq(Nat), n \in Nat : \A k \in DOMAIN s : Append(s, n)[k] = s[k]
          OBVIOUS
        <5>2. BytesUpTo(f, q + 1)[j] = BytesUpTo(f, q)[j]
          BY <2>1, <3>1, <4>1, <5>1
        <5>. QED  BY <2>2, <4>1, <5>2
      <4>2. CASE j \notin DOMAIN BytesUpTo(f, q)
        <5>1. BytesUpTo(f, q + 1)[j] = q + 1
          BY <2>1, <3>1, <4>2
        <5>. QED  BY <2>3, <5>1
      <4>. QED  BY <4>1, <4>2
    <3>. QED  BY <3>2
  <2>4. CASE f[q + 1].kind # "byte"
    <3>1. BytesUpTo(f, q + 1) = BytesUpTo(f, q)
      BY <2>4, BytesEquations
    <3>. QED  BY <2>2, <3>1
  <2>. QED  BY <2>3, <2>4
<1>. HIDE DEF S
<1>3. Nat \subseteq S
  BY <1>1, <1>2, Induction
<1>. QED  BY <1>3 DEF S

(* Those of the first tokens come first.                                   *)
LEMMA BytesPrefix ==
  ASSUME NEW f, NEW p \in Nat, NEW q \in Nat, p <= q
  PROVE  /\ Len(BytesUpTo(f, p)) <= Len(BytesUpTo(f, q))
         /\ SubSeq(BytesUpTo(f, q), 1, Len(BytesUpTo(f, p))) = BytesUpTo(f, p)
<1>. DEFINE Prefix(r) == /\ Len(BytesUpTo(f, p)) <= Len(BytesUpTo(f, r))
                         /\ \A i \in 1..Len(BytesUpTo(f, p)) : BytesUpTo(f, r)[i] = BytesUpTo(f, p)[i]
            S == {n \in Nat : Prefix(p + n)}
<1>0. \A r \in Nat : BytesUpTo(f, r) \in Seq(Nat)
  BY BytesEquations
<1>1. 0 \in S
  BY <1>0
<1>2. ASSUME NEW n \in Nat, n \in S PROVE n + 1 \in S
  <2>1. Prefix(p + n)
    BY <1>2
  <2>2. p + n \in Nat /\ p + (n + 1) = (p + n) + 1
    OBVIOUS
  <2>3. BytesUpTo(f, (p + n) + 1) = Append(BytesUpTo(f, p + n), (p + n) + 1)
          \/ BytesUpTo(f, (p + n) + 1) = BytesUpTo(f, p + n)
    BY <2>2, BytesEquations
  <2>4. BytesUpTo(f, p) \in Seq(Nat) /\ BytesUpTo(f, p + n) \in Seq(Nat)
    BY <1>0, <2>2
  <2>. DEFINE s == BytesUpTo(f, p + n)
              t == BytesUpTo(f, p)
  <2>5. Prefix((p + n) + 1)
    <3>1. Len(t) <= Len(s) /\ \A i \in 1..Len(t) : s[i] = t[i]
      BY <2>1
    <3>2. s \in Seq(Nat) /\ t \in Seq(Nat)
      BY <2>4
    <3>3. CASE BytesUpTo(f, (p + n) + 1) = Append(s, (p + n) + 1)
      <4>. HIDE DEF s, t
      <4>1. Len(Append(s, (p + n) + 1)) = Len(s) + 1
        BY <3>2
      <4>2. \A i \in 1..Len(t) : Append(s, (p + n) + 1)[i] = s[i]
        BY <3>1, <3>2
      <4>3. /\ Len(t) <= Len(Append(s, (p + n) + 1))
            /\ \A i \in 1..Len(t) : Append(s, (p + n) + 1)[i] = t[i]
        BY <3>1, <3>2, <4>1, <4>2
      <4>. QED  BY <3>3, <4>3 DEF t
    <3>4. CASE BytesUpTo(f, (p + n) + 1) = s
      BY <3>1, <3>4
    <3>. QED  BY <2>3, <3>3, <3>4
  <2>. QED  BY <2>2, <2>5
<1>. HIDE DEF S
<1>3. Nat \subseteq S
  BY <1>1, <1>2, Induction
<1>4. Prefix(q)
  <2>1. q - p \in S /\ p + (q - p) = q
    BY <1>3
  <2>. QED  BY <2>1 DEF S
<1>5. BytesUpTo(f, p) \in Seq(Nat) /\ BytesUpTo(f, q) \in Seq(Nat)
  BY <1>0
<1>6. SubSeq(BytesUpTo(f, q), 1, Len(BytesUpTo(f, p))) = BytesUpTo(f, p)
  BY <1>4, <1>5, SubSeqProperties, SeqEqual
<1>. QED  BY <1>4, <1>6

(* The indices i, ..., j - 1.                                              *)
LEMMA BetweenIs ==
  ASSUME NEW i \in Nat, NEW j \in Nat, i <= j
  PROVE  /\ Between(i, j) \in Seq(Nat) /\ Len(Between(i, j)) = j - i
         /\ \A k \in 1..(j - i) : Between(i, j)[k] = i + k - 1
         /\ Append(Between(i, j), j) = Between(i, j + 1)
<1>1. Between(i, j) \in Seq(Nat) /\ Len(Between(i, j)) = j - i
  BY DEF Between
<1>2. \A k \in 1..(j - i) : Between(i, j)[k] = i + k - 1
  BY DEF Between
<1>3. Between(i, j + 1) \in Seq(Nat) /\ Len(Between(i, j + 1)) = j + 1 - i
  BY DEF Between
<1>4. \A k \in 1..(j + 1 - i) : Between(i, j + 1)[k] = i + k - 1
  BY DEF Between
<1>5. Append(Between(i, j), j) = Between(i, j + 1)
  <2>. DEFINE s == Between(i, j)
              t == Between(i, j + 1)
  <2>1. s \in Seq(Nat) /\ Len(s) = j - i /\ \A k \in 1..(j - i) : s[k] = i + k - 1
    BY <1>1, <1>2
  <2>2. t \in Seq(Nat) /\ Len(t) = j + 1 - i /\ \A k \in 1..(j + 1 - i) : t[k] = i + k - 1
    BY <1>3, <1>4
  <2>. HIDE DEF s, t
  <2>3. Append(s, j) \in Seq(Nat) /\ Len(Append(s, j)) = Len(t)
    <3>1. Append(s, j) \in Seq(Nat) /\ Len(Append(s, j)) = Len(s) + 1
      BY <2>1, AppendProperties
    <3>. QED  BY <2>1, <2>2, <3>1
  <2>4. \A k \in 1..Len(t) : Append(s, j)[k] = t[k]
    BY <2>1, <2>2
  <2>5. Append(s, j) = t
    BY <2>2, <2>3, <2>4, SeqEqual
  <2>. QED  BY <2>5 DEF s, t
<1>. QED  BY <1>1, <1>2, <1>5

(* A run of byte tokens adds their indices.                                *)
LEMMA BytesRun ==
  ASSUME NEW f, NEW p \in Nat, NEW n \in Nat,
         \A i \in (p + 1)..(p + n) : f[i].kind = "byte"
  PROVE  BytesUpTo(f, p + n) = BytesUpTo(f, p) \o Between(p + 1, p + n + 1)
<1>. DEFINE S == {m \in Nat : m <= n =>
                    BytesUpTo(f, p + m) = BytesUpTo(f, p) \o Between(p + 1, p + m + 1)}
<1>0. BytesUpTo(f, p) \in Seq(Nat)
  BY BytesEquations
<1>1. 0 \in S
  <2>1. Between(p + 1, p + 0 + 1) = <<>>
    BY DEF Between
  <2>2. BytesUpTo(f, p) \o <<>> = BytesUpTo(f, p)
    BY <1>0, ConcatEmptySeq
  <2>3. p + 0 = p
    OBVIOUS
  <2>. QED  BY <2>1, <2>2, <2>3
<1>2. ASSUME NEW m \in Nat, m \in S PROVE m + 1 \in S
  <2>. SUFFICES ASSUME m + 1 <= n
                PROVE  BytesUpTo(f, p + (m + 1)) = BytesUpTo(f, p) \o Between(p + 1, p + (m + 1) + 1)
    OBVIOUS
  <2>. DEFINE c == p + 1
              b == p + m + 1
  <2>1. BytesUpTo(f, p + m) = BytesUpTo(f, p) \o Between(c, b)
    BY <1>2
  <2>2. b \in Nat /\ c \in Nat /\ c <= b /\ b \in (p + 1)..(p + n)
    OBVIOUS
  <2>3. p + m \in Nat /\ b = (p + m) + 1 /\ b = p + (m + 1) /\ p + (m + 1) + 1 = b + 1
    OBVIOUS
  <2>. HIDE DEF c, b
  <2>4. f[b].kind = "byte"
    BY <2>2
  <2>5. BytesUpTo(f, b) = Append(BytesUpTo(f, p + m), b)
    BY <2>3, <2>4, BytesEquations
  <2>6. Between(c, b) \in Seq(Nat) /\ Append(Between(c, b), b) = Between(c, b + 1)
    BY <2>2, BetweenIs
  <2>7. ASSUME NEW s \in Seq(Nat), NEW t \in Seq(Nat), NEW x \in Nat
        PROVE  Append(s \o t, x) = s \o Append(t, x)
    <3>1. <<x>> \in Seq(Nat) /\ s \o t \in Seq(Nat)
      OBVIOUS
    <3>2. Append(s \o t, x) = (s \o t) \o <<x>>
      BY <3>1, AppendIsConcat
    <3>3. Append(t, x) = t \o <<x>>
      BY AppendIsConcat
    <3>4. \A u \in Seq(Nat) : (s \o t) \o u = s \o (t \o u)
      BY ConcatAssociative
    <3>. QED  BY <3>1, <3>2, <3>3, <3>4
  <2>8. BytesUpTo(f, b) = BytesUpTo(f, p) \o Between(c, b + 1)
    <3>1. Append(BytesUpTo(f, p) \o Between(c, b), b) = BytesUpTo(f, p) \o Append(Between(c, b), b)
      BY <1>0, <2>2, <2>6, <2>7
    <3>. QED  BY <2>1, <2>5, <2>6, <3>1
  <2>. QED  BY <2>3, <2>8 DEF c
<1>. HIDE DEF S
<1>3. Nat \subseteq S
  BY <1>1, <1>2, Induction
<1>4. n \in S
  BY <1>3
<1>. QED  BY <1>4 DEF S

(* The last token of a kind is the only one with no other behind it.       *)
LEMMA LastOfIs ==
  ASSUME NEW f, NEW k, NEW p \in Nat, NEW h \in 1..p,
         f[h].kind = k, \A j \in (h + 1)..p : f[j].kind # k
  PROVE  LastOf(f, k, p) = h
<1>. DEFINE Newest(i) == f[i].kind = k /\ \A j \in (i + 1)..p : f[j].kind # k
<1>1. Newest(h)
  OBVIOUS
<1>2. \A i \in 1..p : Newest(i) => i = h
  OBVIOUS
<1>3. (CHOOSE i \in 1..p : Newest(i)) = h
  BY <1>1, <1>2
<1>. QED  BY <1>3 DEF LastOf

(* A run of other tokens adds nothing.                                     *)
LEMMA BytesNone ==
  ASSUME NEW f, NEW p \in Nat, NEW q \in Nat, p <= q,
         \A i \in (p + 1)..q : f[i].kind # "byte"
  PROVE  BytesUpTo(f, q) = BytesUpTo(f, p)
<1>. DEFINE S == {m \in Nat : p + m <= q => BytesUpTo(f, p + m) = BytesUpTo(f, p)}
<1>1. 0 \in S
  <2>1. p + 0 = p
    OBVIOUS
  <2>. QED  BY <2>1
<1>2. ASSUME NEW m \in Nat, m \in S PROVE m + 1 \in S
  <2>. SUFFICES ASSUME p + (m + 1) <= q PROVE BytesUpTo(f, p + (m + 1)) = BytesUpTo(f, p)
    OBVIOUS
  <2>1. p + m \in Nat /\ p + (m + 1) = (p + m) + 1 /\ (p + m) + 1 \in (p + 1)..q
    OBVIOUS
  <2>2. BytesUpTo(f, (p + m) + 1) = BytesUpTo(f, p + m)
    BY <2>1, BytesEquations
  <2>. QED  BY <1>2, <2>1, <2>2
<1>. HIDE DEF S
<1>3. Nat \subseteq S
  BY <1>1, <1>2, Induction
<1>4. q - p \in S /\ p + (q - p) = q
  BY <1>3
<1>. QED  BY <1>4 DEF S

(* What is taken from an index on of a sequence that grows, grows with it. *)
LEMMA SubSeqGrows ==
  ASSUME NEW s \in Seq(Nat), NEW t \in Seq(Nat), NEW k \in 0..Len(s)
  PROVE  /\ SubSeq(s, k + 1, Len(s)) \in Seq(Nat)
         /\ Len(SubSeq(s, k + 1, Len(s))) = Len(s) - k
         /\ SubSeq(s \o t, k + 1, Len(s \o t)) = SubSeq(s, k + 1, Len(s)) \o t
<1>. DEFINE a == SubSeq(s, k + 1, Len(s))
            c == s \o t
            b == SubSeq(c, k + 1, Len(c))
<1>1. /\ c \in Seq(Nat) /\ Len(c) = Len(s) + Len(t)
      /\ \A i \in 1..(Len(s) + Len(t)) : c[i] = IF i <= Len(s) THEN s[i] ELSE t[i - Len(s)]
  BY ConcatProperties
<1>2. \A i \in (k + 1)..Len(s) : s[i] \in Nat
  BY ElementOfSeq
<1>3. /\ a \in Seq(Nat) /\ Len(a) = Len(s) - k
      /\ \A i \in 1..(Len(s) - k) : a[i] = s[k + i]
  <2>1. k + 1 \in Int /\ Len(s) \in Int /\ Len(s) - (k + 1) + 1 = Len(s) - k
    OBVIOUS
  <2>2. /\ a \in Seq(Nat) /\ Len(a) = IF k + 1 <= Len(s) THEN Len(s) - (k + 1) + 1 ELSE 0
        /\ \A i \in 1..(Len(s) - (k + 1) + 1) : a[i] = s[k + 1 + i - 1]
    BY <1>2, <2>1, SubSeqProperties
  <2>. HIDE DEF a
  <2>4. Len(a) = Len(s) - k
    <3>1. CASE k + 1 <= Len(s)
      <4>1. Len(a) = Len(s) - (k + 1) + 1
        BY <2>2, <3>1
      <4>. QED  BY <2>1, <4>1
    <3>2. CASE ~(k + 1 <= Len(s))
      <4>1. Len(a) = 0
        BY <2>2, <3>2
      <4>2. Len(s) - k = 0
        <5>1. k \in Int /\ Len(s) \in Int /\ k <= Len(s)
          BY <1>1
        <5>. HIDE DEF c
        <5>. QED  BY <3>2, <5>1
      <4>. QED  BY <4>1, <4>2
    <3>. QED  BY <3>1, <3>2
  <2>5. ASSUME NEW i \in 1..(Len(s) - k) PROVE a[i] = s[k + i]
    <3>1. k + 1 + i - 1 = k + i /\ i \in 1..(Len(s) - (k + 1) + 1)
      BY <2>1
    <3>2. a[i] = s[k + 1 + i - 1]
      BY <2>2, <3>1
    <3>. QED  BY <3>1, <3>2
  <2>. QED  BY <2>2, <2>4, <2>5
<1>. HIDE DEF c
<1>4. /\ b \in Seq(Nat) /\ Len(b) = Len(c) - k
      /\ \A i \in 1..(Len(c) - k) : b[i] = c[k + i]
  <2>1. k + 1 \in Int /\ Len(c) \in Int /\ Len(c) - (k + 1) + 1 = Len(c) - k /\ k <= Len(c)
    BY <1>1
  <2>2. \A i \in (k + 1)..Len(c) : c[i] \in Nat
    BY <1>1, ElementOfSeq
  <2>3. /\ b \in Seq(Nat) /\ Len(b) = IF k + 1 <= Len(c) THEN Len(c) - (k + 1) + 1 ELSE 0
        /\ \A i \in 1..(Len(c) - (k + 1) + 1) : b[i] = c[k + 1 + i - 1]
    BY <2>1, <2>2, SubSeqProperties
  <2>. HIDE DEF b
  <2>6. Len(b) = Len(c) - k
    <3>1. CASE k + 1 <= Len(c)
      <4>1. Len(b) = Len(c) - (k + 1) + 1
        BY <2>3, <3>1
      <4>. QED  BY <2>1, <4>1
    <3>2. CASE ~(k + 1 <= Len(c))
      <4>1. Len(b) = 0
        BY <2>3, <3>2
      <4>2. Len(c) - k = 0
        <5>1. k \in Int /\ Len(c) \in Int /\ k <= Len(c)
          BY <1>1
        <5>. HIDE DEF c
        <5>. QED  BY <3>2, <5>1
      <4>. QED  BY <4>1, <4>2
    <3>. QED  BY <3>1, <3>2
  <2>5. ASSUME NEW i \in 1..(Len(c) - k) PROVE b[i] = c[k + i]
    <3>1. k + 1 + i - 1 = k + i /\ i \in 1..(Len(c) - (k + 1) + 1)
      BY <2>1
    <3>2. b[i] = c[k + 1 + i - 1]
      BY <2>3, <3>1
    <3>. QED  BY <3>1, <3>2
  <2>. QED  BY <2>3, <2>6, <2>5
<1>. HIDE DEF a, b
<1>5. b = a \o t
  <2>1. /\ a \o t \in Seq(Nat) /\ Len(a \o t) = Len(a) + Len(t)
        /\ \A i \in 1..(Len(a) + Len(t)) : (a \o t)[i] = IF i <= Len(a) THEN a[i] ELSE t[i - Len(a)]
    BY <1>3, ConcatProperties
  <2>2. Len(b) = Len(a \o t)
    BY <1>1, <1>3, <1>4, <2>1
  <2>3. ASSUME NEW i \in 1..Len(b) PROVE b[i] = (a \o t)[i]
    <3>1. b[i] = c[k + i] /\ k + i \in 1..(Len(s) + Len(t)) /\ i \in 1..(Len(a) + Len(t))
      BY <1>1, <1>3, <1>4
    <3>2. CASE i <= Len(a)
      <4>1. k + i <= Len(s) /\ i \in 1..(Len(s) - k)
        BY <1>3, <3>2
      <4>2. c[k + i] = s[k + i] /\ (a \o t)[i] = a[i] /\ a[i] = s[k + i]
        BY <1>1, <1>3, <2>1, <3>1, <3>2, <4>1
      <4>. QED  BY <3>1, <4>2
    <3>3. CASE ~(i <= Len(a))
      <4>1. (k + i) - Len(s) = i - Len(a) /\ ~(k + i <= Len(s)) /\ ~(i <= Len(a))
        BY <1>3, <3>3
      <4>2. c[k + i] = t[(k + i) - Len(s)] /\ (a \o t)[i] = t[i - Len(a)]
        BY <1>1, <2>1, <3>1, <4>1
      <4>. QED  BY <3>1, <4>1, <4>2
    <3>. QED  BY <3>2, <3>3
  <2>. QED  BY <1>4, <2>1, <2>2, <2>3, SeqEqual
<1>. QED  BY <1>3, <1>5 DEF a, b, c

(* h is the last header among the first p tokens.                          *)
LastFixed(f, h, p) ==
  h \in 1..p /\ f[h].kind = "fixed" /\ \A j \in (h + 1)..p : f[j].kind # "fixed"

(* A member has no bytes before its first block.                           *)
LEMMA MemberBytesStart ==
  ASSUME NEW f, NEW p \in Nat, NEW h, LastFixed(f, h, p),
         \A j \in (h + 1)..p : f[j].kind # "byte"
  PROVE  MemberBytes(f, p) = <<>>
<1>1. LastOf(f, "fixed", p) = h
  BY LastOfIs DEF LastFixed
<1>2. h \in Nat /\ h <= p
  BY DEF LastFixed
<1>3. BytesUpTo(f, p) = BytesUpTo(f, h)
  BY <1>2, BytesNone
<1>4. BytesUpTo(f, h) \in Seq(Nat)
  BY <1>2, BytesEquations
<1>5. MemberBytes(f, p) = SubSeq(BytesUpTo(f, h), Len(BytesUpTo(f, h)) + 1, Len(BytesUpTo(f, h)))
  BY <1>1, <1>3 DEF MemberBytes
<1>. QED  BY <1>4, <1>5, SubSeqEmpty

(* A run of byte tokens adds their indices to the member's bytes.          *)
LEMMA MemberBytesRun ==
  ASSUME NEW f, NEW p \in Nat, NEW h, LastFixed(f, h, p), NEW n \in Nat,
         \A i \in (p + 1)..(p + n) : f[i].kind = "byte"
  PROVE  /\ MemberBytes(f, p) \in Seq(Nat)
         /\ MemberBytes(f, p + n) = MemberBytes(f, p) \o Between(p + 1, p + n + 1)
         /\ LastFixed(f, h, p + n)
<1>. DEFINE B(q) == BytesUpTo(f, q)
            t == Between(p + 1, p + n + 1)
<1>1. LastFixed(f, h, p + n)
  BY DEF LastFixed
<1>2. LastOf(f, "fixed", p) = h /\ LastOf(f, "fixed", p + n) = h
  <2>1. p + n \in Nat
    OBVIOUS
  <2>. QED  BY <1>1, <2>1, LastOfIs DEF LastFixed
<1>3. h \in Nat /\ h <= p
  BY DEF LastFixed
<1>4. B(h) \in Seq(Nat) /\ B(p) \in Seq(Nat) /\ Len(B(h)) \in 0..Len(B(p))
  <2>1. B(h) \in Seq(Nat) /\ B(p) \in Seq(Nat)
    BY <1>3, BytesEquations
  <2>2. Len(B(h)) <= Len(B(p))
    BY <1>3, BytesPrefix
  <2>. QED  BY <2>1, <2>2
<1>5. t \in Seq(Nat)
  <2>1. p + 1 \in Nat /\ p + n + 1 \in Nat /\ p + 1 <= p + n + 1
    OBVIOUS
  <2>. QED  BY <2>1, BetweenIs
<1>6. B(p + n) = B(p) \o t
  BY BytesRun
<1>7. MemberBytes(f, p) = SubSeq(B(p), Len(B(h)) + 1, Len(B(p)))
  BY <1>2 DEF MemberBytes
<1>8. MemberBytes(f, p + n) = SubSeq(B(p) \o t, Len(B(h)) + 1, Len(B(p) \o t))
  BY <1>2, <1>6 DEF MemberBytes
<1>. HIDE DEF B, t
<1>9. /\ SubSeq(B(p), Len(B(h)) + 1, Len(B(p))) \in Seq(Nat)
      /\ SubSeq(B(p) \o t, Len(B(h)) + 1, Len(B(p) \o t)) = SubSeq(B(p), Len(B(h)) + 1, Len(B(p))) \o t
  BY <1>4, <1>5, SubSeqGrows
<1>. QED  BY <1>1, <1>7, <1>8, <1>9 DEF t

(* The tokens at a member's end leave its bytes as they are.               *)
LEMMA MemberBytesEnd ==
  ASSUME NEW f, NEW p \in Nat, NEW h, LastFixed(f, h, p),
         f[p + 1].kind \notin {"byte", "fixed"}
  PROVE  MemberBytes(f, p + 1) = MemberBytes(f, p) /\ LastFixed(f, h, p + 1)
<1>1. LastFixed(f, h, p + 1)
  BY DEF LastFixed
<1>2. LastOf(f, "fixed", p) = h /\ LastOf(f, "fixed", p + 1) = h
  BY <1>1, LastOfIs DEF LastFixed
<1>3. BytesUpTo(f, p + 1) = BytesUpTo(f, p)
  BY BytesEquations
<1>. QED  BY <1>1, <1>2, <1>3 DEF MemberBytes

---------------------------------------------------------------------------
(* Types *)

(* The optional fields.                                                    *)
LEMMA OptionalIs ==
  /\ ToSet(Optional) = {"extra", "name", "comment", "hcrc"}
  /\ DOMAIN Optional = 1..4
  /\ Optional[1] = "extra" /\ Optional[2] = "name" /\ Optional[3] = "comment" /\ Optional[4] = "hcrc"
<1>1. DOMAIN Optional = 1..4 /\ 1..4 = {1, 2, 3, 4}
  BY DEF Optional
<1>2. Optional[1] = "extra" /\ Optional[2] = "name" /\ Optional[3] = "comment" /\ Optional[4] = "hcrc"
  BY DEF Optional
<1>3. ToSet(Optional) = {Optional[i] : i \in {1, 2, 3, 4}}
  BY <1>1 DEF ToSet
<1>. QED  BY <1>1, <1>2, <1>3

(* The tokens of the file that is read.                                    *)
LEMMA FileTyped ==
  ASSUME file \in Files
  PROVE  /\ file \in Seq(Token) /\ Len(file) \in Nat /\ DOMAIN file = 1..Len(file)
         /\ \A p \in DOMAIN file : file[p].flags \subseteq ToSet(Optional)
         /\ \A p \in DOMAIN file : file[p].kind \in ToSet(Optional) => Announced(file, p)
         /\ \A p \in Int : KindAt(p) # "end" => p \in 1..Len(file) /\ KindAt(p) = file[p].kind
<1>1. file \in Seq(Token)
  BY FileAssumption
<1>2. Len(file) \in Nat /\ DOMAIN file = 1..Len(file)
  BY <1>1
<1>3. \A p \in DOMAIN file : file[p] \in Token
  BY <1>1, <1>2, ElementOfSeq
<1>4. \A p \in DOMAIN file : file[p].flags \subseteq ToSet(Optional)
  BY <1>3 DEF Token
<1>. QED  BY <1>1, <1>2, <1>4, FileAssumption DEF KindAt

(* What Body does: it reads a run of byte tokens, and the end of the       *)
(* member's stream with them if the decompressor says so.                  *)
LEMMA BodyReads ==
  ASSUME TypeOK, file \in Files, Body
  PROVE  \E n \in Nat, e \in ReadErrors \cup {"nil", "corrupt"} :
           /\ n <= want /\ Decompressed(Between(at, at + n), e)
           /\ buf' = Between(at, at + n) /\ buf' \in Seq(Nat) /\ Len(buf') = n
           /\ \A i \in 1..n : buf'[i] = at + i - 1
           /\ \A i \in at..(at + n - 1) : i \in 1..Len(file) /\ file[i].kind = "byte"
           /\ e = "EOF" => at + n \in 1..Len(file) /\ file[at + n].kind = "last"
           /\ e = "nil" => n > 0
           /\ at + n <= Len(file) + 1
           /\ digest' = digest \o buf' /\ size' = (size + n) % SizeMod
           /\ out' = out + n /\ woffset' = woffset + n
           /\ at' = (IF e = "EOF" THEN at + n + 1 ELSE at + n)
           /\ count' = (IF e = "EOF" THEN count + n + 1 ELSE count + n)
           /\ err' = e
           /\ e = "EOF" => pc' = "trailer" /\ got' = got
           /\ e # "EOF" => Return(buf', e)
<1>1. PICK n \in 0..want, e \in ReadErrors \cup {"nil", "corrupt"} :
        LET b == Between(at, at + n)
        IN  /\ Decompressed(b, e)
            /\ buf' = b
            /\ digest' = digest \o b /\ size' = Add(n)
            /\ out' = out + n /\ woffset' = woffset + n
            /\ Take(IF e = "EOF" THEN n + 1 ELSE n)
            /\ IF e = "EOF"
                 THEN pc' = "trailer" /\ err' = e /\ UNCHANGED got
                 ELSE Return(b, e)
  BY DEF Body
<1>2. n \in Nat /\ n <= want /\ at \in Nat /\ at >= 1 /\ at <= Len(file) + 1 /\ Len(file) \in Nat
  BY FileTyped DEF TypeOK
<1>3. /\ buf' = Between(at, at + n) /\ buf' \in Seq(Nat) /\ Len(buf') = n
      /\ \A i \in 1..n : buf'[i] = at + i - 1
  <2>1. at + n \in Nat /\ at <= at + n /\ (at + n) - at = n
    BY <1>2
  <2>. QED  BY <1>1, <1>2, <2>1, BetweenIs
<1>4. \A i \in at..(at + n - 1) : i \in 1..Len(file) /\ file[i].kind = "byte"
  <2>. SUFFICES ASSUME NEW i \in at..(at + n - 1)
                PROVE  i \in 1..Len(file) /\ file[i].kind = "byte"
    OBVIOUS
  <2>1. i \in Int /\ (i - at) + 1 \in 1..n /\ at + ((i - at) + 1) - 1 = i
    BY <1>2
  <2>2. buf'[(i - at) + 1] = i
    BY <1>3, <2>1
  <2>3. KindAt(i) = "byte"
    BY <1>1, <1>3, <2>1, <2>2 DEF Decompressed
  <2>. QED  BY <2>1, <2>3, FileTyped
<1>5. at + n <= Len(file) + 1
  <2>1. CASE n = 0
    BY <1>2, <2>1
  <2>2. CASE n # 0
    <3>1. at + n - 1 \in at..(at + n - 1)
      BY <1>2, <2>2
    <3>2. at + n - 1 \in 1..Len(file)
      BY <1>4, <3>1
    <3>. QED  BY <1>2, <3>2
  <2>. QED  BY <2>1, <2>2
<1>6. e = "EOF" => at + n \in 1..Len(file) /\ file[at + n].kind = "last"
  <2>. SUFFICES ASSUME e = "EOF" PROVE at + n \in 1..Len(file) /\ file[at + n].kind = "last"
    OBVIOUS
  <2>1. e \in Ending(at + n)
    BY <1>1, <1>3 DEF Decompressed
  <2>2. KindAt(at + n) = "last"
    BY <2>1 DEF Ending
  <2>3. at + n \in Int
    BY <1>2
  <2>. QED  BY <2>2, <2>3, FileTyped
<1>7. e = "nil" => n > 0
  <2>1. e = "nil" => buf' # <<>>
    BY <1>1 DEF Decompressed, Ending
  <2>. QED  BY <1>2, <1>3, <2>1
<1>8. size' = (size + n) % SizeMod
  BY <1>1 DEF Add
<1>9. /\ at' = (IF e = "EOF" THEN at + n + 1 ELSE at + n)
      /\ count' = (IF e = "EOF" THEN count + n + 1 ELSE count + n)
  <2>1. count \in Nat
    BY DEF TypeOK
  <2>. QED  BY <1>1, <1>2, <2>1 DEF Take
<1>10. err' = e
  BY <1>1 DEF Return
<1>. QED  BY <1>1, <1>2, <1>3, <1>4, <1>5, <1>6, <1>7, <1>8, <1>9, <1>10

(* The file stays the same, and types are kept.                            *)
LEMMA StepTyped ==
  ASSUME TypeOK, file \in Files, [Next]_vars
  PROVE  TypeOK'
<1>. USE DEF Error, ReadErrors
<1>1. CASE Read
  BY <1>1, FileAssumption DEF TypeOK, Read, kindVars, sumVars, outVars
<1>2. CASE ReadFailed
  BY <1>2, FileAssumption DEF TypeOK, ReadFailed, kindVars, sumVars, outVars
<1>3. CASE Body
  <2>1. PICK n \in Nat, e \in ReadErrors \cup {"nil", "corrupt"} :
           /\ buf' \in Seq(Nat)
           /\ e = "EOF" => at + n \in 1..Len(file)
           /\ at + n <= Len(file) + 1
           /\ digest' = digest \o buf' /\ size' = (size + n) % SizeMod
           /\ out' = out + n /\ woffset' = woffset + n
           /\ at' = (IF e = "EOF" THEN at + n + 1 ELSE at + n)
           /\ count' = (IF e = "EOF" THEN count + n + 1 ELSE count + n)
           /\ err' = e
           /\ e = "EOF" => pc' = "trailer" /\ got' = got
           /\ e # "EOF" => Return(buf', e)
    BY <1>3, BodyReads
  <2>2. UNCHANGED <<kindVars, want, open, fields, sent>>
    BY <1>3 DEF Body
  <2>3. at' \in 1..(Len(file) + 1)
    BY <2>1, FileTyped DEF TypeOK
  <2>4. size' \in 0..(SizeMod - 1)
    BY <2>1, FileAssumption DEF TypeOK
  <2>5. digest' \in Seq(Nat) /\ buf' \in Seq(Nat)
    BY <2>1, ConcatProperties DEF TypeOK
  <2>6. got' \in Seq(Nat)
    <3>1. got' = got \/ got' = got \o buf'
      BY <2>1 DEF Return
    <3>2. got \in Seq(Nat)
      BY DEF TypeOK
    <3>3. got \o buf' \in Seq(Nat)
      BY <2>1, <3>2, ConcatProperties
    <3>. QED  BY <3>1, <3>2, <3>3
  <2>7. pc' \in {"trailer", "idle", "failed"}
    BY <2>1 DEF Return
  <2>8. count' \in Nat /\ out' \in Nat /\ woffset' \in Nat /\ err' \in Error
    BY <2>1 DEF TypeOK
  <2>. QED  BY <2>2, <2>3, <2>4, <2>5, <2>6, <2>7, <2>8 DEF TypeOK, kindVars
<1>4. CASE TrailerMissing \/ NoHeader \/ FieldMissing
  <2>1. got' = got \o buf /\ pc' \in {"idle", "failed"} /\ err' \in Error
    BY <1>4 DEF TrailerMissing, NoHeader, FieldMissing, Return, noEOF
  <2>2. UNCHANGED <<kindVars, sumVars, outVars, want, buf, at, count, open, fields, sent>>
    BY <1>4 DEF TrailerMissing, NoHeader, FieldMissing
  <2>. QED  BY <2>1, <2>2, ConcatProperties DEF TypeOK, kindVars, sumVars, outVars
<1>5. ASSUME at' = at + 1, count' = count + 1, KindAt(at) # "end"
      PROVE  at' \in 1..(Len(file) + 1) /\ count' \in Nat
  BY <1>5, FileTyped DEF TypeOK
<1>6. CASE TrailerWrong
  <2>1. got' = got \o buf /\ pc' \in {"idle", "failed"} /\ err' = "ErrChecksum"
    BY <1>6 DEF TrailerWrong, Return
  <2>2. UNCHANGED <<kindVars, sumVars, outVars, want, buf, open, fields, sent>>
    BY <1>6 DEF TrailerWrong
  <2>3. at' \in 1..(Len(file) + 1) /\ count' \in Nat
    BY <1>5, <1>6 DEF TrailerWrong, Take
  <2>. QED  BY <2>1, <2>2, <2>3, ConcatProperties DEF TypeOK, kindVars, sumVars, outVars
<1>7. CASE TrailerRight
  <2>1. digest' = <<>> /\ size' = 0 /\ err' = "nil" /\ pc' = "fixed"
        /\ UNCHANGED <<kindVars, outVars, callVars, open, fields, sent>>
    BY <1>7 DEF TrailerRight
  <2>2. at' \in 1..(Len(file) + 1) /\ count' \in Nat
    BY <1>5, <1>7 DEF TrailerRight, Take
  <2>. QED  BY <2>1, <2>2, FileAssumption DEF TypeOK, kindVars, outVars, callVars
<1>8. CASE Fixed
  <2>1. at' \in 1..(Len(file) + 1) /\ count' \in Nat
    BY <1>5, <1>8 DEF Fixed, Take
  <2>2. UNCHANGED <<kindVars, outVars, want, buf, size, open, sent>>
    BY <1>8 DEF Fixed
  <2>3. file[at].flags \subseteq ToSet(Optional) /\ at \in Nat
    <3>1. KindAt(at) # "end" /\ at \in Nat
      BY <1>8 DEF Fixed, TypeOK
    <3>2. at \in DOMAIN file
      BY <3>1, FileTyped
    <3>. QED  BY <3>1, <3>2, FileTyped
  <2>4. CASE file[at].ok
    <3>1. digest' = <<at>> /\ fields' = file[at].flags /\ pc' = "field" /\ UNCHANGED <<err, got>>
      BY <1>8, <2>4 DEF Fixed
    <3>. QED  BY <2>1, <2>2, <2>3, <3>1 DEF TypeOK, kindVars, outVars
  <2>5. CASE ~file[at].ok
    <3>1. /\ got' = got \o buf /\ pc' \in {"idle", "failed"} /\ err' = "ErrHeader"
          /\ UNCHANGED <<digest, fields>>
      BY <1>8, <2>5 DEF Fixed, Return
    <3>. QED  BY <2>1, <2>2, <3>1, ConcatProperties DEF TypeOK, kindVars, outVars
  <2>. QED  BY <2>4, <2>5
<1>9. CASE Field
  <2>0. KindAt(at) # "end"
    BY <1>9, OptionalIs DEF Field, Due, TypeOK
  <2>1. at' \in 1..(Len(file) + 1) /\ count' \in Nat /\ at \in Nat
    BY <1>5, <1>9, <2>0 DEF Field, Take, TypeOK
  <2>2. UNCHANGED <<kindVars, outVars, want, buf, size, open, sent>>
    BY <1>9 DEF Field
  <2>4. CASE Accepts(file[at])
    <3>1. /\ digest' = digest \/ digest' = Append(digest, at)
          /\ fields' \subseteq fields /\ UNCHANGED <<err, got, pc>>
      BY <1>9, <2>4 DEF Field
    <3>2. digest' \in Seq(Nat)
      <4>1. digest \in Seq(Nat)
        BY DEF TypeOK
      <4>2. Append(digest, at) \in Seq(Nat)
        BY <2>1, <4>1, AppendProperties
      <4>. QED  BY <3>1, <4>1, <4>2
    <3>. QED  BY <2>1, <2>2, <3>1, <3>2 DEF TypeOK, kindVars, outVars
  <2>5. CASE ~Accepts(file[at])
    <3>1. /\ got' = got \o buf /\ pc' \in {"idle", "failed"} /\ err' = "ErrHeader"
          /\ UNCHANGED <<digest, fields>>
      BY <1>9, <2>5 DEF Field, Return
    <3>. QED  BY <2>1, <2>2, <3>1, ConcatProperties DEF TypeOK, kindVars, outVars
  <2>. QED  BY <2>4, <2>5
<1>10. CASE HeaderDone
  <2>1. HeaderCheckpoint \in [in : Nat, out : Nat]
    BY DEF HeaderCheckpoint, TypeOK
  <2>2. /\ digest' = <<>> /\ open' = TRUE
        /\ UNCHANGED <<kindVars, outVars, want, buf, size, at, count, fields, err>>
        /\ sent' = sent \/ sent' = Append(sent, HeaderCheckpoint)
        /\ got' = got \/ got' = got \o buf
        /\ pc' \in {"body", "idle"}
    BY <1>10 DEF HeaderDone
  <2>3. sent' \in Seq([in : Nat, out : Nat])
    <3>1. sent \in Seq([in : Nat, out : Nat])
      BY DEF TypeOK
    <3>2. Append(sent, HeaderCheckpoint) \in Seq([in : Nat, out : Nat])
      BY <2>1, <3>1, AppendProperties
    <3>. QED  BY <2>2, <3>1, <3>2
  <2>4. got' \in Seq(Nat)
    <3>1. got \in Seq(Nat) /\ buf \in Seq(Nat)
      BY DEF TypeOK
    <3>2. got \o buf \in Seq(Nat)
      BY <3>1, ConcatProperties
    <3>. QED  BY <2>2, <3>1, <3>2
  <2>. QED  BY <2>2, <2>3, <2>4 DEF TypeOK, kindVars, outVars
<1>11. CASE UNCHANGED vars
  BY <1>11 DEF TypeOK, vars, kindVars, callVars, sumVars, outVars
<1>. QED  BY <1>1, <1>2, <1>3, <1>4, <1>6, <1>7, <1>8, <1>9, <1>10, <1>11 DEF Next, Work

---------------------------------------------------------------------------
(* The inductive invariant *)

(* What is known of the program counter's values.  There is no reader      *)
(* before the first header has been read.                                  *)
Control ==
  /\ pc \in {"fixed", "field", "body"} => err = "nil"
  /\ pc = "trailer" => err = "EOF"
  /\ pc \in {"idle", "body", "trailer"} => open
  /\ ~open => want = 0 /\ buf = <<>> /\ got = <<>> /\ woffset = 0
  /\ pc = "body" => buf = <<>>
  /\ pc = "fixed" /\ open => at > 1 /\ file[at - 1].kind = "trailer"
  /\ err \in {"ErrChecksum", "ErrHeader"} => pc \in {"idle", "failed"}
  /\ pc \in {"fixed", "field"} => size = 0

Passed == BytesUpTo(file, at - 1)   \* the bytes that have been read
Pending == IF pc \in {"trailer", "fixed", "field"} THEN buf ELSE <<>>

(* All bytes read have been returned, or will be by this Read.             *)
Delivered ==
  /\ start <= Len(Passed)
  /\ got \o Pending = SubSeq(Passed, start + 1, Len(Passed))
  /\ woffset = Len(Passed) /\ out = Len(got \o Pending)

(* h begins the header that is being read.                                 *)
Header(h) ==
  /\ h \in 1..(at - 1) /\ file[h].kind = "fixed"
  /\ \A j \in (h + 1)..(at - 1) : file[j].kind \in ToSet(Optional)

(* The fields that have not been read are those still to be read, and the  *)
(* digest is the header's while an hcrc may be compared with it.           *)
InHeader ==
  pc = "field" => \E h \in 1..(at - 1) :
    /\ Header(h)
    /\ fields = file[h].flags \ {file[j].kind : j \in (h + 1)..(at - 1)}
    /\ "hcrc" \in fields => digest = Between(h, at)

InMember == pc \in {"body", "trailer"} \/ (pc = "idle" /\ err = "nil")

(* A reader that began at the start has checked every token but, if it has *)
(* reported it, the last; within a member, digest and size are those of    *)
(* the member's bytes.                                                     *)
Checked ==
  ~from =>
    /\ count = at - 1
    /\ \A p \in 1..(at - 2) : Right(file, p)
    /\ at > 1 => \/ Right(file, at - 1)
                 \/ file[at - 1].kind # "byte" /\ err \in {"ErrChecksum", "ErrHeader"}
    /\ InMember => /\ \E h \in 1..(at - 1) : LastFixed(file, h, at - 1)
                   /\ digest = MemberBytes(file, at - 1)
                   /\ size = Len(digest) % SizeMod

Blamed == err \in {"ErrChecksum", "ErrHeader"} => at > 1 /\ ~Right(file, at - 1)

(* A checkpoint of the member that token p is in, before token q.          *)
SentFor(p, q) == \E k \in DOMAIN sent : LastOf(file, "fixed", p) <= sent[k].in /\ sent[k].in < q

Pointed ==
  /\ updates = ~from
  /\ \A k \in DOMAIN sent :
       HeaderEnd(file, sent[k].in) /\ sent[k].out = Len(BytesUpTo(file, sent[k].in))
  /\ updates => \A i \in DOMAIN (got \o Pending) : SentFor((got \o Pending)[i], (got \o Pending)[i])
  /\ updates /\ InMember => SentFor(at - 1, at)

Ends ==
  /\ pc = "idle" /\ want > 0 => buf # <<>> \/ err # "nil"
  /\ pc = "idle" /\ err = "EOF" => at = Len(file) + 1 /\ at > 1 /\ file[at - 1].kind = "trailer"

IInv ==
  /\ TypeOK /\ file \in Files
  /\ Control /\ Delivered /\ InHeader /\ Checked /\ Blamed /\ Pointed /\ Ends

(* No step changes what is read, or from where.                            *)
LEMMA StepKeeps ==
  ASSUME [Next]_vars
  PROVE  UNCHANGED kindVars
BY DEF Next, Work, vars, kindVars, Read, ReadFailed, Body, TrailerMissing, TrailerWrong,
       TrailerRight, NoHeader, Fixed, FieldMissing, Field, HeaderDone

(* Every step but Body and HeaderDone leaves the returned and the pending  *)
(* bytes together as they are, and reads at most one token, not a byte.    *)
LEMMA OtherSteps ==
  ASSUME TypeOK, file \in Files, Control, [Next]_vars, ~Body
  PROVE  /\ got' \o Pending' = got \o Pending
         /\ UNCHANGED outVars
         /\ \/ at' = at /\ count' = count
            \/ /\ at' = at + 1 /\ count' = count + 1
               /\ at \in 1..Len(file) /\ KindAt(at) = file[at].kind
               /\ file[at].kind \notin {"byte", "last", "corrupt", "cut"}
<1>0. got \in Seq(Nat) /\ buf \in Seq(Nat) /\ got \o buf \in Seq(Nat) /\ at \in Nat
  BY ConcatProperties DEF TypeOK
<1>1. got \o <<>> = got /\ (got \o buf) \o <<>> = got \o buf
  BY <1>0, ConcatEmptySeq
<1>2. CASE Read \/ ReadFailed
  BY <1>2 DEF Read, ReadFailed, outVars, Pending
<1>3. CASE TrailerMissing \/ NoHeader \/ FieldMissing
  BY <1>1, <1>3 DEF TrailerMissing, NoHeader, FieldMissing, outVars, Pending, Return
<1>4. ASSUME KindAt(at) # "end" PROVE at \in 1..Len(file) /\ KindAt(at) = file[at].kind
  BY <1>0, <1>4, FileTyped
<1>5. CASE TrailerWrong
  BY <1>1, <1>4, <1>5 DEF TrailerWrong, Take, outVars, Pending, Return
<1>6. CASE TrailerRight
  BY <1>1, <1>4, <1>6 DEF TrailerRight, Take, outVars, callVars, Pending
<1>7. CASE Fixed
  BY <1>1, <1>4, <1>7 DEF Fixed, Take, outVars, Pending, Return
<1>8. CASE Field
  <2>1. KindAt(at) \in {"extra", "name", "comment", "hcrc"}
    BY <1>8, OptionalIs DEF Field, Due, TypeOK
  <2>. QED  BY <1>1, <1>4, <1>8, <2>1 DEF Field, Take, outVars, Pending, Return, Due
<1>9. CASE HeaderDone
  <2>1. CASE open /\ Again
    <3>1. pc' = "body" /\ got' = got /\ buf = <<>> /\ pc = "field"
      BY <1>9, <2>1 DEF HeaderDone, Again
    <3>. QED  BY <1>9, <3>1 DEF HeaderDone, outVars, Pending
  <2>2. CASE ~(open /\ Again)
    BY <1>1, <1>9, <2>2 DEF HeaderDone, outVars, Pending
  <2>. QED  BY <2>1, <2>2
<1>10. CASE UNCHANGED vars
  BY <1>10 DEF vars, callVars, outVars, Pending
<1>. QED  BY <1>2, <1>3, <1>5, <1>6, <1>7, <1>8, <1>9, <1>10 DEF Next, Work

(* Control is kept.                                                        *)
LEMMA ControlKept ==
  ASSUME TypeOK, file \in Files, Control, [Next]_vars
  PROVE  Control'
<1>0. <<>> \o <<>> = <<>>
  OBVIOUS
<1>a. file' = file /\ at \in Nat /\ at >= 1
  BY StepKeeps DEF kindVars, TypeOK
<1>2. CASE Read \/ ReadFailed
  BY <1>a, <1>2 DEF Read, ReadFailed, outVars, sumVars, Control
<1>3. CASE TrailerMissing \/ NoHeader \/ FieldMissing
  BY <1>a, <1>0, <1>3 DEF TrailerMissing, NoHeader, FieldMissing, outVars, sumVars, Return, Control, ReadErrors, noEOF
<1>4. CASE Body
  <2>1. err' # "EOF" => pc' = "idle"
    BY <1>4 DEF Body, Return, Control
  <2>2. err' = "EOF" => pc' = "trailer"
    BY <1>4 DEF Body, Return
  <2>3. err' \in ReadErrors \cup {"nil", "corrupt"}
    BY <1>4 DEF Body, Return
  <2>. QED  BY <1>4, <2>1, <2>2, <2>3 DEF Body, Control, ReadErrors
<1>5. CASE TrailerWrong
  BY <1>a, <1>5 DEF TrailerWrong, outVars, sumVars, Return, Control
<1>6. CASE TrailerRight
  <2>1. at' - 1 = at /\ at' > 1
    BY <1>a, <1>6 DEF TrailerRight, Take
  <2>2. file[at].kind = "trailer"
    BY <1>a, <1>6, FileTyped DEF TrailerRight
  <2>. QED  BY <1>a, <1>6, <2>1, <2>2 DEF TrailerRight, outVars, callVars, Control
<1>7. CASE Fixed
  BY <1>a, <1>0, <1>7 DEF Fixed, outVars, Return, Control
<1>8. CASE Field
  BY <1>a, <1>0, <1>8 DEF Field, Due, outVars, Return, Control
<1>9. CASE HeaderDone
  BY <1>9 DEF HeaderDone, outVars, Again, Control
<1>10. CASE UNCHANGED vars
  BY <1>10 DEF vars, kindVars, callVars, sumVars, outVars, Control
<1>. QED  BY <1>2, <1>3, <1>4, <1>5, <1>6, <1>7, <1>8, <1>9, <1>10 DEF Next, Work

(* The bytes that have been read, after Body and after any other step.     *)
LEMMA PassedIs ==
  ASSUME TypeOK, file \in Files, Control, [Next]_vars
  PROVE  /\ Passed \in Seq(Nat)
         /\ Body => Passed' = Passed \o buf'
         /\ ~Body => Passed' = Passed
<1>0. at \in Nat /\ at - 1 \in Nat /\ file' = file
  BY StepKeeps DEF TypeOK, kindVars
<1>1. Passed \in Seq(Nat)
  BY <1>0, BytesEquations DEF Passed
<1>2. CASE Body
  <2>1. PICK n \in Nat, e \in ReadErrors \cup {"nil", "corrupt"} :
           /\ buf' = Between(at, at + n)
           /\ \A i \in at..(at + n - 1) : i \in 1..Len(file) /\ file[i].kind = "byte"
           /\ e = "EOF" => at + n \in 1..Len(file) /\ file[at + n].kind = "last"
           /\ at' = (IF e = "EOF" THEN at + n + 1 ELSE at + n)
    BY <1>2, BodyReads
  <2>. DEFINE p == at - 1
  <2>2. /\ p \in Nat /\ p + 1 = at /\ p + n + 1 = at + n
        /\ \A i \in (p + 1)..(p + n) : i \in at..(at + n - 1)
    BY <1>0
  <2>. HIDE DEF p
  <2>3. BytesUpTo(file, p + n) = BytesUpTo(file, p) \o Between(p + 1, p + n + 1)
    BY <2>1, <2>2, BytesRun
  <2>4. BytesUpTo(file, at' - 1) = BytesUpTo(file, p + n)
    <3>1. CASE e = "EOF"
      <4>1. at' - 1 = (p + n) + 1 /\ p + n \in Nat /\ (p + n) + 1 = at + n
        BY <2>1, <2>2, <3>1
      <4>2. file[(p + n) + 1].kind # "byte"
        BY <2>1, <3>1, <4>1
      <4>. QED  BY <4>1, <4>2, BytesEquations
    <3>2. CASE e # "EOF"
      <4>1. at' - 1 = p + n
        BY <2>1, <2>2, <3>2, <1>0
      <4>. QED  BY <4>1
    <3>. QED  BY <3>1, <3>2
  <2>. QED  BY <1>0, <1>1, <1>2, <2>1, <2>2, <2>3, <2>4 DEF Passed, p
<1>3. CASE ~Body
  <2>1. CASE at' = at
    BY <1>0, <1>1, <1>3, <2>1 DEF Passed
  <2>2. CASE at' = at + 1 /\ file[at].kind # "byte"
    <3>1. at' - 1 = (at - 1) + 1 /\ (at - 1) + 1 = at
      BY <1>0, <2>2
    <3>2. BytesUpTo(file, (at - 1) + 1) = BytesUpTo(file, at - 1)
      BY <1>0, <2>2, <3>1, BytesEquations
    <3>. QED  BY <1>0, <1>1, <1>3, <3>1, <3>2 DEF Passed
  <2>. QED  BY <1>3, <2>1, <2>2, OtherSteps
<1>. QED  BY <1>1, <1>2, <1>3

(* Delivered is kept.                                                      *)
LEMMA DeliveredKept ==
  ASSUME TypeOK, file \in Files, Control, Delivered, [Next]_vars
  PROVE  Delivered'
<1>0. start' = start /\ start \in 0..Len(Passed) /\ Passed \in Seq(Nat)
  BY StepKeeps, PassedIs DEF kindVars, TypeOK, Delivered
<1>1. CASE Body
  <2>1. PICK n \in Nat, e \in ReadErrors \cup {"nil", "corrupt"} :
           /\ buf' \in Seq(Nat) /\ Len(buf') = n
           /\ out' = out + n /\ woffset' = woffset + n
           /\ e = "EOF" => pc' = "trailer" /\ got' = got
           /\ e # "EOF" => Return(buf', e)
    BY <1>1, BodyReads
  <2>2. Passed' = Passed \o buf' /\ Len(Passed') = Len(Passed) + n
    BY <1>0, <1>1, <2>1, PassedIs, ConcatProperties
  <2>3. got \in Seq(Nat) /\ got \o <<>> = got /\ Pending = <<>>
    BY <1>1, ConcatEmptySeq DEF TypeOK, Body, Pending
  <2>4. got \o buf' \in Seq(Nat) /\ Len(got \o buf') = Len(got) + n /\ (got \o buf') \o <<>> = got \o buf'
    <3>1. got \o buf' \in Seq(Nat) /\ Len(got \o buf') = Len(got) + n
      BY <2>1, <2>3, ConcatProperties
    <3>. QED  BY <3>1, ConcatEmptySeq
  <2>5. got' \o Pending' = got \o buf'
    <3>1. CASE e = "EOF"
      BY <2>1, <3>1 DEF Pending
    <3>2. CASE e # "EOF"
      <4>1. got' = got \o buf' /\ pc' \in {"idle", "failed"}
        BY <2>1, <3>2 DEF Return
      <4>. QED  BY <2>4, <4>1 DEF Pending
    <3>. QED  BY <3>1, <3>2
  <2>6. SubSeq(Passed \o buf', start + 1, Len(Passed \o buf')) = SubSeq(Passed, start + 1, Len(Passed)) \o buf'
    BY <1>0, <2>1, SubSeqGrows
  <2>7. got = SubSeq(Passed, start + 1, Len(Passed)) /\ woffset = Len(Passed) /\ out = Len(got)
    BY <2>3 DEF Delivered
  <2>8. got' \o Pending' = SubSeq(Passed', start' + 1, Len(Passed'))
    BY <1>0, <2>2, <2>5, <2>6, <2>7
  <2>9. start' <= Len(Passed') /\ woffset' = Len(Passed') /\ out' = Len(got' \o Pending')
    BY <1>0, <2>1, <2>2, <2>4, <2>5, <2>7
  <2>. QED  BY <2>8, <2>9 DEF Delivered
<1>2. CASE ~Body
  <2>1. got' \o Pending' = got \o Pending /\ UNCHANGED outVars /\ Passed' = Passed
    BY <1>2, OtherSteps, PassedIs
  <2>. QED  BY <1>0, <2>1 DEF Delivered, outVars
<1>. QED  BY <1>1, <1>2

(* InHeader is kept.                                                       *)
LEMMA InHeaderKept ==
  ASSUME TypeOK, file \in Files, Control, InHeader, [Next]_vars
  PROVE  InHeader'
<1>0. file' = file /\ at \in Nat /\ at >= 1
  BY StepKeeps DEF kindVars, TypeOK
<1>1. CASE Fixed /\ pc' = "field"
  <2>0. PICK h \in Nat : h = at
    BY <1>0
  <2>1. at' = h + 1 /\ digest' = <<h>> /\ fields' = file[h].flags
    BY <1>0, <1>1, <2>0 DEF Fixed, Take, Return
  <2>2. file[h].kind = "fixed" /\ at' - 1 = h /\ h \in 1..(at' - 1)
    BY <1>0, <1>1, <2>0, <2>1, FileTyped DEF Fixed
  <2>3. Header(h)'
    BY <1>0, <2>2 DEF Header
  <2>4. digest' = Between(h, at')
    <3>1. Between(h, h) = <<>> /\ Append(Between(h, h), h) = Between(h, h + 1)
      BY BetweenIs DEF Between
    <3>2. Append(<<>>, h) = <<h>>
      OBVIOUS
    <3>. QED  BY <2>1, <3>1, <3>2
  <2>5. fields' = file'[h].flags \ {file'[j].kind : j \in (h + 1)..(at' - 1)}
    BY <1>0, <2>1, <2>2
  <2>. QED  BY <2>2, <2>3, <2>4, <2>5 DEF InHeader
<1>2. CASE Field /\ pc' = "field"
  <2>. DEFINE k == KindAt(at)
  <2>1. pc = "field" /\ k \in fields /\ at' = at + 1
    BY <1>2 DEF Field, Due, Take
  <2>2. /\ digest' = IF k = "hcrc" THEN digest ELSE Append(digest, at)
        /\ fields' = fields \ {k}
    BY <1>2 DEF Field, Return
  <2>3. k \in ToSet(Optional) /\ k = file[at].kind
    <3>1. k \in ToSet(Optional)
      BY <2>1 DEF TypeOK
    <3>2. k # "end"
      BY <3>1, OptionalIs
    <3>. QED  BY <1>0, <3>1, <3>2, FileTyped
  <2>4. PICK h \in 1..(at - 1) :
          /\ Header(h)
          /\ fields = file[h].flags \ {file[j].kind : j \in (h + 1)..(at - 1)}
          /\ "hcrc" \in fields => digest = Between(h, at)
    BY <2>1 DEF InHeader
  <2>. HIDE DEF k
  <2>5. at' - 1 = at /\ h \in 1..at /\ h \in Nat /\ h <= at
        /\ (h + 1)..at = ((h + 1)..(at - 1)) \cup {at}
    BY <1>0, <2>1, <2>4
  <2>6. Header(h)'
    <3>1. \A j \in (h + 1)..(at' - 1) : file'[j].kind \in ToSet(Optional)
      BY <1>0, <2>3, <2>4, <2>5 DEF Header
    <3>. QED  BY <1>0, <2>4, <2>5, <3>1 DEF Header
  <2>7. fields' = file'[h].flags \ {file'[j].kind : j \in (h + 1)..(at' - 1)}
    <3>1. {file[j].kind : j \in (h + 1)..at} = {file[j].kind : j \in (h + 1)..(at - 1)} \cup {k}
      BY <2>3, <2>5
    <3>. QED  BY <1>0, <2>2, <2>4, <2>5, <3>1
  <2>8. "hcrc" \in fields' => digest' = Between(h, at')
    <3>. SUFFICES ASSUME "hcrc" \in fields' PROVE digest' = Between(h, at')
      OBVIOUS
    <3>1. k # "hcrc" /\ "hcrc" \in fields
      BY <2>2
    <3>2. digest' = Append(Between(h, at), at)
      BY <2>2, <2>4, <3>1
    <3>. QED  BY <1>0, <2>1, <2>5, <3>2, BetweenIs
  <2>. QED  BY <2>5, <2>6, <2>7, <2>8 DEF InHeader
<1>3. CASE UNCHANGED vars
  BY <1>0, <1>3 DEF vars, sumVars, InHeader, Header
<1>4. CASE pc' # "field"
  BY <1>4 DEF InHeader
<1>5. pc' = "field" => Fixed \/ Field \/ UNCHANGED vars
  BY DEF Next, Work, Read, ReadFailed, Body, TrailerMissing, TrailerWrong, TrailerRight,
         NoHeader, FieldMissing, HeaderDone, Return
<1>. QED  BY <1>1, <1>2, <1>3, <1>4, <1>5

(* The fixed part of a header is right if it is accepted.                  *)
LEMMA FixedIsRight ==
  ASSUME NEW p, file[p].kind = "fixed"
  PROVE  Right(file, p) <=> file[p].ok
BY DEF Right

(* So is an optional field: the digest is that of the header before it.    *)
LEMMA FieldIsRight ==
  ASSUME TypeOK, file \in Files, InHeader, Due(KindAt(at))
  PROVE  Right(file, at) <=> Accepts(file[at])
<1>0. at \in Nat /\ at >= 1
  BY DEF TypeOK
<1>1. KindAt(at) \in {"extra", "name", "comment", "hcrc"}
  BY OptionalIs DEF Due, TypeOK
<1>2. KindAt(at) = file[at].kind
  BY <1>0, <1>1, FileTyped
<1>3. CASE KindAt(at) = "hcrc"
  <2>1. PICK h \in 1..(at - 1) : Header(h) /\ digest = Between(h, at)
    BY <1>3 DEF InHeader, Due
  <2>2. h \in 1..at /\ file[h].kind = "fixed" /\ \A j \in (h + 1)..at : file[j].kind # "fixed"
    <3>1. \A j \in (h + 1)..at : j = at \/ j \in (h + 1)..(at - 1)
      BY <1>0
    <3>2. h \in 1..at /\ file[h].kind = "fixed"
      BY <1>0, <2>1 DEF Header
    <3>3. \A j \in (h + 1)..(at - 1) : file[j].kind \in {"extra", "name", "comment", "hcrc"}
      BY <2>1, OptionalIs DEF Header
    <3>4. file[at].kind = "hcrc"
      BY <1>2, <1>3
    <3>. QED  BY <3>1, <3>2, <3>3, <3>4
  <2>3. LastOf(file, "fixed", at) = h
    BY <1>0, <2>2, LastOfIs
  <2>4. Right(file, at) <=> file[at].sum = Between(LastOf(file, "fixed", at), at)
    BY <1>2, <1>3 DEF Right
  <2>5. Accepts(file[at]) <=> file[at].sum = digest
    BY <1>2, <1>3 DEF Accepts
  <2>. QED  BY <2>1, <2>3, <2>4, <2>5
<1>4. CASE KindAt(at) # "hcrc"
  BY <1>1, <1>2, <1>4 DEF Right, Accepts
<1>. QED  BY <1>3, <1>4

(* So is a trailer: digest and size are those of the member before it.     *)
LEMMA TrailerIsRight ==
  ASSUME TypeOK, file \in Files, Checked, ~from, pc = "trailer", KindAt(at) = "trailer"
  PROVE  Right(file, at) <=> Matches(file[at])
<1>0. at \in Nat /\ at >= 1 /\ at - 1 \in Nat /\ (at - 1) + 1 = at
  BY DEF TypeOK
<1>1. file[at].kind = "trailer"
  BY <1>0, FileTyped
<1>2. PICK h \in 1..(at - 1) : LastFixed(file, h, at - 1)
  BY DEF Checked, InMember
<1>3. digest = MemberBytes(file, at - 1) /\ size = Len(digest) % SizeMod
  BY DEF Checked, InMember
<1>4. MemberBytes(file, (at - 1) + 1) = MemberBytes(file, at - 1)
  BY <1>0, <1>1, <1>2, MemberBytesEnd
<1>5. Right(file, at) <=> /\ file[at].sum = MemberBytes(file, at)
                          /\ file[at].size = Len(MemberBytes(file, at)) % SizeMod
  BY <1>1 DEF Right
<1>. QED  BY <1>0, <1>3, <1>4, <1>5 DEF Matches

(* Until an error is blamed on a token, all that were read are right.      *)
LEMMA AllRight ==
  ASSUME TypeOK, Checked, ~from, err \notin {"ErrChecksum", "ErrHeader"}
  PROVE  \A p \in 1..(at - 1) : Right(file, p)
<1>. SUFFICES ASSUME NEW p \in 1..(at - 1) PROVE Right(file, p)
  OBVIOUS
<1>1. at \in Nat /\ at > 1 /\ (p \in 1..(at - 2) \/ p = at - 1)
  BY DEF TypeOK
<1>. QED  BY <1>1 DEF Checked

(* An error is blamed on the token before it.                              *)
LEMMA BlamedKept ==
  ASSUME TypeOK, file \in Files, Control, InHeader, Checked, Blamed, [Next]_vars
  PROVE  Blamed'
<1>0. file' = file /\ at \in Nat /\ at >= 1
  BY StepKeeps DEF kindVars, TypeOK
<1>. SUFFICES ASSUME err' \in {"ErrChecksum", "ErrHeader"}
              PROVE  at' > 1 /\ ~Right(file, at' - 1)
  BY <1>0 DEF Blamed
<1>1. CASE TrailerWrong
  <2>1. at' = at + 1 /\ ~Matches(file[at]) /\ ~from /\ pc = "trailer" /\ KindAt(at) = "trailer"
    BY <1>1 DEF TrailerWrong, Take
  <2>2. ~Right(file, at)
    BY <2>1, TrailerIsRight
  <2>. QED  BY <1>0, <2>1, <2>2
<1>2. CASE Fixed
  <2>1. at' = at + 1 /\ ~file[at].ok
    BY <1>2 DEF Fixed, Take, Control
  <2>2. file[at].kind = "fixed"
    BY <1>0, <1>2, FileTyped DEF Fixed
  <2>3. ~Right(file, at)
    BY <2>1, <2>2, FixedIsRight
  <2>. QED  BY <1>0, <2>1, <2>3
<1>3. CASE Field
  <2>1. at' = at + 1 /\ ~Accepts(file[at]) /\ Due(KindAt(at))
    BY <1>3 DEF Field, Take, Control, Due
  <2>2. ~Right(file, at)
    BY <2>1, FieldIsRight
  <2>. QED  BY <1>0, <2>1, <2>2
<1>4. CASE ReadFailed
  BY <1>4 DEF ReadFailed, Blamed
<1>5. CASE UNCHANGED vars
  BY <1>5 DEF vars, Blamed
<1>6. TrailerWrong \/ Fixed \/ Field \/ ReadFailed \/ UNCHANGED vars
  BY DEF Next, Work, Read, Body, TrailerMissing, TrailerRight, NoHeader, FieldMissing, HeaderDone,
         Return, ReadErrors, noEOF, Control
<1>. QED  BY <1>1, <1>2, <1>3, <1>4, <1>5, <1>6

(* Checked is kept by Body: byte tokens add to the digest and the size.    *)
LEMMA CheckedByBody ==
  ASSUME TypeOK, file \in Files, Control, Checked, Body, ~from
  PROVE  /\ count' = at' - 1
         /\ \A p \in 1..(at' - 1) : Right(file, p)
         /\ \E h \in 1..(at' - 1) : LastFixed(file, h, at' - 1)
         /\ digest' = MemberBytes(file, at' - 1)
         /\ size' = Len(digest') % SizeMod
<1>1. PICK n \in Nat, e \in ReadErrors \cup {"nil", "corrupt"} :
         /\ buf' = Between(at, at + n) /\ buf' \in Seq(Nat) /\ Len(buf') = n
         /\ \A i \in at..(at + n - 1) : i \in 1..Len(file) /\ file[i].kind = "byte"
         /\ e = "EOF" => at + n \in 1..Len(file) /\ file[at + n].kind = "last"
         /\ digest' = digest \o buf' /\ size' = (size + n) % SizeMod
         /\ at' = (IF e = "EOF" THEN at + n + 1 ELSE at + n)
         /\ count' = (IF e = "EOF" THEN count + n + 1 ELSE count + n)
  BY BodyReads
<1>2. InMember /\ err = "nil"
  BY DEF Body, InMember, Control
<1>. DEFINE q == at - 1
<1>3. /\ at \in Nat /\ q \in Nat /\ q + 1 = at /\ q + n + 1 = at + n /\ q + n \in Nat
      /\ \A i \in (q + 1)..(q + n) : i \in at..(at + n - 1)
  BY DEF TypeOK
<1>4. /\ count = q /\ digest = MemberBytes(file, q) /\ size = Len(digest) % SizeMod
      /\ digest \in Seq(Nat)
  BY <1>2 DEF Checked, TypeOK
<1>5. PICK h \in 1..q : LastFixed(file, h, q)
  BY <1>2 DEF Checked
<1>6. \A p \in 1..q : Right(file, p)
  BY <1>2, AllRight
<1>. HIDE DEF q
<1>7. /\ MemberBytes(file, q + n) = MemberBytes(file, q) \o Between(q + 1, q + n + 1)
      /\ LastFixed(file, h, q + n)
  <2>1. \A i \in (q + 1)..(q + n) : file[i].kind = "byte"
    BY <1>1, <1>3
  <2>. QED  BY <1>3, <1>5, <2>1, MemberBytesRun
<1>8. digest' = MemberBytes(file, q + n)
  BY <1>1, <1>3, <1>4, <1>7
<1>9. size' = Len(digest') % SizeMod
  <2>1. Len(digest') = Len(digest) + n /\ Len(digest) \in Nat
    <3>1. Len(digest \o buf') = Len(digest) + Len(buf')
      BY <1>1, <1>4, ConcatProperties
    <3>2. digest' = digest \o buf' /\ Len(buf') = n
      BY <1>1
    <3>3. Len(digest) \in Nat
      BY <1>4
    <3>. QED  BY ONLY <3>1, <3>2, <3>3
  <2>2. ((Len(digest) % SizeMod) + n) % SizeMod = (Len(digest) + n) % SizeMod
    BY <2>1, FileAssumption, RemainderAdd
  <2>. QED  BY <1>1, <1>4, <2>1, <2>2
<1>10. \A p \in 1..(q + n) : Right(file, p)
  <2>. SUFFICES ASSUME NEW p \in 1..(q + n), p \notin 1..q PROVE Right(file, p)
    BY <1>6
  <2>1. p \in (q + 1)..(q + n)
    BY <1>3
  <2>2. file[p].kind = "byte"
    BY <1>1, <1>3, <2>1
  <2>. QED  BY <2>2 DEF Right
<1>11. CASE e # "EOF"
  <2>1. at' - 1 = q + n /\ count' = at' - 1 /\ h \in 1..(q + n)
    BY <1>1, <1>3, <1>4, <1>11
  <2>. QED  BY <1>7, <1>8, <1>9, <1>10, <2>1
<1>12. CASE e = "EOF"
  <2>1. at' - 1 = (q + n) + 1 /\ count' = at' - 1 /\ h \in 1..((q + n) + 1)
    BY <1>1, <1>3, <1>4, <1>12
  <2>2. file[(q + n) + 1].kind = "last"
    BY <1>1, <1>3, <1>12
  <2>3. MemberBytes(file, (q + n) + 1) = MemberBytes(file, q + n) /\ LastFixed(file, h, (q + n) + 1)
    BY <1>3, <1>7, <2>2, MemberBytesEnd
  <2>4. Right(file, (q + n) + 1)
    BY <2>2 DEF Right
  <2>5. \A p \in 1..((q + n) + 1) : Right(file, p)
    <3>1. \A p \in 1..((q + n) + 1) : p \in 1..(q + n) \/ p = (q + n) + 1
      BY <1>3
    <3>. QED  BY <1>10, <2>4, <3>1
  <2>. QED  BY <1>8, <1>9, <2>1, <2>3, <2>5
<1>. QED  BY <1>11, <1>12

(* Behind a header the member has no bytes yet.                            *)
LEMMA MemberBegins ==
  ASSUME TypeOK, pc = "field", InHeader
  PROVE  /\ \E h \in 1..(at - 1) : LastFixed(file, h, at - 1)
         /\ MemberBytes(file, at - 1) = <<>>
<1>1. PICK h \in 1..(at - 1) : Header(h)
  BY DEF InHeader
<1>2. \A j \in (h + 1)..(at - 1) : file[j].kind \notin {"fixed", "byte"}
  BY <1>1, OptionalIs DEF Header
<1>3. LastFixed(file, h, at - 1)
  BY <1>1, <1>2 DEF Header, LastFixed
<1>4. at - 1 \in Nat
  BY DEF TypeOK
<1>. QED  BY <1>2, <1>3, <1>4, MemberBytesStart

(* Checked is kept.                                                        *)
LEMMA CheckedKept ==
  ASSUME TypeOK, file \in Files, Control, InHeader, Checked, [Next]_vars
  PROVE  Checked'
<1>0. file' = file /\ from' = from /\ at \in Nat /\ at >= 1
  BY StepKeeps DEF kindVars, TypeOK
<1>. SUFFICES ASSUME ~from
              PROVE  /\ count' = at' - 1
                     /\ \A p \in 1..(at' - 2) : Right(file, p)
                     /\ at' > 1 => \/ Right(file, at' - 1)
                                   \/ file[at' - 1].kind # "byte" /\ err' \in {"ErrChecksum", "ErrHeader"}
                     /\ InMember' => /\ \E h \in 1..(at' - 1) : LastFixed(file, h, at' - 1)
                                     /\ digest' = MemberBytes(file, at' - 1)
                                     /\ size' = Len(digest') % SizeMod
  BY <1>0 DEF Checked
<1>1. CASE Body
  <2>1. /\ count' = at' - 1
        /\ \A p \in 1..(at' - 1) : Right(file, p)
        /\ \E h \in 1..(at' - 1) : LastFixed(file, h, at' - 1)
        /\ digest' = MemberBytes(file, at' - 1)
        /\ size' = Len(digest') % SizeMod
    BY <1>1, CheckedByBody
  <2>2. PICK r \in Nat : r = at'
    <3>1. TypeOK'
      BY StepTyped
    <3>2. at' \in 1..(Len(file') + 1)
      BY <3>1 DEF TypeOK
    <3>3. Len(file') \in Nat
      BY <1>0, FileTyped
    <3>. QED  BY <3>2, <3>3
  <2>3. r > 1 => r - 1 \in 1..(r - 1)
    OBVIOUS
  <2>4. \A p \in 1..(r - 2) : p \in 1..(r - 1)
    OBVIOUS
  <2>. QED  BY <2>1, <2>2, <2>3, <2>4
<1>2. count = at - 1
  BY DEF Checked
(* A token is read that is right, or is blamed.                            *)
<1>3. ASSUME at' = at + 1, count' = count + 1, err \notin {"ErrChecksum", "ErrHeader"}, ~InMember',
             Right(file, at) \/ (file[at].kind # "byte" /\ err' \in {"ErrChecksum", "ErrHeader"})
      PROVE  /\ count' = at' - 1
             /\ \A p \in 1..(at' - 2) : Right(file, p)
             /\ at' > 1 => \/ Right(file, at' - 1)
                           \/ file[at' - 1].kind # "byte" /\ err' \in {"ErrChecksum", "ErrHeader"}
             /\ ~InMember'
  <2>1. at' - 1 = at /\ at' - 2 = at - 1
    BY <1>0, <1>3
  <2>2. \A p \in 1..(at - 1) : Right(file, p)
    BY <1>3, AllRight
  <2>. QED  BY <1>0, <1>2, <1>3, <2>1, <2>2
<1>4. CASE TrailerWrong
  <2>1. file[at].kind = "trailer"
    BY <1>0, <1>4, FileTyped DEF TrailerWrong
  <2>2. ~InMember'
    BY <1>4 DEF TrailerWrong, Return, InMember
  <2>. QED  BY <1>3, <1>4, <2>1, <2>2 DEF TrailerWrong, Take, Return, Control
<1>5. CASE TrailerRight
  <2>1. Right(file, at)
    BY <1>5, TrailerIsRight DEF TrailerRight
  <2>2. ~InMember'
    BY <1>5 DEF TrailerRight, InMember
  <2>3. at' = at + 1 /\ count' = count + 1 /\ err \notin {"ErrChecksum", "ErrHeader"}
    BY <1>5 DEF TrailerRight, Take, Control
  <2>4. Right(file, at) \/ (file[at].kind # "byte" /\ err' \in {"ErrChecksum", "ErrHeader"})
    BY <2>1
  <2>. QED  BY <1>3, <2>2, <2>3, <2>4, Zenon
<1>6. CASE Fixed
  <2>1. file[at].kind = "fixed"
    BY <1>0, <1>6, FileTyped DEF Fixed
  <2>2. Right(file, at) \/ (file[at].kind # "byte" /\ err' \in {"ErrChecksum", "ErrHeader"})
    BY <1>6, <2>1, FixedIsRight DEF Fixed, Return
  <2>3. ~InMember'
    BY <1>6 DEF Fixed, Return, InMember
  <2>4. at' = at + 1 /\ count' = count + 1 /\ err \notin {"ErrChecksum", "ErrHeader"}
    BY <1>6 DEF Fixed, Take, Control
  <2>. QED  BY <1>3, <2>2, <2>3, <2>4, Zenon
<1>7. CASE Field
  <2>1. KindAt(at) \in {"extra", "name", "comment", "hcrc"} /\ Due(KindAt(at)) /\ pc = "field"
    BY <1>7, OptionalIs DEF Field, Due, TypeOK
  <2>2. file[at].kind # "byte"
    BY <1>0, <2>1, FileTyped
  <2>3. Right(file, at) \/ (file[at].kind # "byte" /\ err' \in {"ErrChecksum", "ErrHeader"})
    BY <1>7, <2>1, <2>2, FieldIsRight DEF Field, Return
  <2>4. ~InMember'
    BY <1>7, <2>1 DEF Field, Return, InMember
  <2>5. at' = at + 1 /\ count' = count + 1 /\ err \notin {"ErrChecksum", "ErrHeader"}
    BY <1>7, <2>1 DEF Field, Take, Control
  <2>. QED  BY <1>3, <2>3, <2>4, <2>5, Zenon
<1>8. CASE HeaderDone
  <2>1. at' = at /\ count' = count /\ err' = err /\ digest' = <<>> /\ size' = size /\ pc = "field"
    BY <1>8 DEF HeaderDone
  <2>2. size = 0 /\ Len(<<>>) % SizeMod = 0
    <3>1. size = 0
      BY <2>1 DEF Control
    <3>2. 0 % SizeMod = 0
      BY FileAssumption
    <3>. QED  BY <3>1, <3>2
  <2>3. /\ \E h \in 1..(at - 1) : LastFixed(file, h, at - 1)
        /\ MemberBytes(file, at - 1) = <<>>
    BY <2>1, MemberBegins
  <2>. QED  BY <2>1, <2>2, <2>3 DEF Checked
<1>9. CASE Read \/ ReadFailed
  BY <1>9 DEF Read, ReadFailed, sumVars, Checked, InMember
<1>10. CASE TrailerMissing \/ NoHeader \/ FieldMissing
  <2>1. at' = at /\ count' = count /\ ~InMember' /\ err \notin {"ErrChecksum", "ErrHeader"}
    BY <1>10 DEF TrailerMissing, NoHeader, FieldMissing, Return, InMember, ReadErrors, noEOF, Control
  <2>2. \A p \in 1..(at - 1) : Right(file, p)
    BY <2>1, AllRight
  <2>3. at > 1 => at - 1 \in 1..(at - 1)
    BY <1>0
  <2>. QED  BY <1>0, <1>2, <2>1, <2>2, <2>3
<1>11. CASE UNCHANGED vars
  BY <1>11 DEF vars, sumVars, Checked, InMember
<1>. QED  BY <1>1, <1>4, <1>5, <1>6, <1>7, <1>8, <1>9, <1>10, <1>11 DEF Next, Work

(* Ends is kept.                                                           *)
LEMMA EndsKept ==
  ASSUME TypeOK, file \in Files, Control, Ends, [Next]_vars
  PROVE  Ends'
<1>0. file' = file /\ at \in Nat /\ at >= 1 /\ Len(file) \in Nat
  BY StepKeeps, FileTyped DEF kindVars, TypeOK
<1>1. CASE Body
  <2>1. PICK n \in Nat, e \in ReadErrors \cup {"nil", "corrupt"} :
           /\ Len(buf') = n /\ err' = e
           /\ e = "nil" => n > 0
           /\ e = "EOF" => pc' = "trailer" /\ got' = got
    BY <1>1, BodyReads
  <2>2. Len(<<>>) = 0
    OBVIOUS
  <2>3. err' = "nil" => buf' # <<>>
    BY <2>1, <2>2
  <2>. QED  BY <2>1, <2>3 DEF Ends
<1>2. CASE NoHeader
  <2>1. PICK e \in ReadErrors : Fails(e) /\ Return(buf, e)
    BY <1>2 DEF NoHeader
  <2>2. err' = e /\ e # "nil" /\ at' = at
    BY <1>2, <2>1 DEF NoHeader, Return, ReadErrors
  <2>3. pc' = "idle" /\ e = "EOF" => at = Len(file) + 1 /\ at > 1 /\ file[at - 1].kind = "trailer"
    <3>. SUFFICES ASSUME pc' = "idle", e = "EOF"
                  PROVE  at = Len(file) + 1 /\ at > 1 /\ file[at - 1].kind = "trailer"
      OBVIOUS
    <3>1. at > 1 /\ file[at - 1].kind = "trailer"
      BY <1>2, <2>1 DEF NoHeader, Return, Control
    <3>2. KindAt(at) = "end"
      BY <2>1 DEF Fails
    <3>3. at \notin DOMAIN file
      <4>. SUFFICES ASSUME at \in DOMAIN file PROVE FALSE
        OBVIOUS
      <4>1. file[at] \in Token
        BY FileTyped, ElementOfSeq
      <4>2. file[at].kind # "end"
        BY <4>1, OptionalIs DEF Token, Kind
      <4>. QED  BY <3>2, <4>2 DEF KindAt
    <3>4. at \in 1..(Len(file) + 1)
      BY DEF TypeOK
    <3>. QED  BY <1>0, <3>1, <3>3, <3>4, FileTyped
  <2>. QED  BY <1>0, <2>2, <2>3 DEF Ends
<1>3. CASE TrailerMissing \/ FieldMissing \/ TrailerWrong
  BY <1>3 DEF TrailerMissing, FieldMissing, TrailerWrong, Return, ReadErrors, noEOF, Ends
<1>4. CASE TrailerRight \/ Fixed \/ Field
  BY <1>4 DEF TrailerRight, Fixed, Field, Due, Return, Ends
<1>5. CASE HeaderDone
  BY <1>5 DEF HeaderDone, Again, Control, Ends
<1>6. CASE Read \/ ReadFailed
  BY <1>0, <1>6 DEF Read, ReadFailed, Ends
<1>7. CASE UNCHANGED vars
  BY <1>7 DEF vars, callVars, kindVars, Ends
<1>. QED  BY <1>1, <1>2, <1>3, <1>4, <1>5, <1>6, <1>7 DEF Next, Work

(* A complete header is followed by no optional field.                     *)
LEMMA HeaderEnds ==
  ASSUME TypeOK, file \in Files, InHeader, pc = "field", fields = {}
  PROVE  /\ HeaderEnd(file, at - 1)
         /\ LastOf(file, "fixed", at - 1) \in 1..(at - 1)
<1>0. at \in Nat /\ at >= 1 /\ Len(file) \in Nat /\ DOMAIN file = 1..Len(file) /\ at <= Len(file) + 1
  BY FileTyped DEF TypeOK
<1>1. PICK h \in 1..(at - 1) :
        Header(h) /\ fields = file[h].flags \ {file[j].kind : j \in (h + 1)..(at - 1)}
  BY DEF InHeader
<1>2. /\ file[h].kind = "fixed" /\ h \in Nat
      /\ \A j \in (h + 1)..(at - 1) : file[j].kind \in ToSet(Optional) /\ file[j].kind # "fixed"
  BY <1>1, OptionalIs DEF Header
<1>3. LastOf(file, "fixed", at - 1) = h
  BY <1>0, <1>2, LastOfIs
<1>4. file[at - 1].kind \in ToSet(Optional) \cup {"fixed"} /\ at - 1 \in DOMAIN file
  BY <1>0, <1>1, <1>2
<1>5. ASSUME at \in DOMAIN file, file[at].kind \in ToSet(Optional) PROVE FALSE
  <2>1. Announced(file, at)
    BY <1>5, FileTyped
  <2>2. PICK g \in 1..(at - 1) :
          /\ file[g].kind = "fixed" /\ file[at].kind \in file[g].flags
          /\ \A j \in (g + 1)..(at - 1) : file[j].kind \in ToSet(Optional) \ {file[at].kind}
    BY <2>1 DEF Announced
  <2>3. \A j \in (g + 1)..(at - 1) : file[j].kind # "fixed"
    BY <2>2, OptionalIs
  <2>4. g = h
    BY <1>1, <1>2, <2>2, <2>3
  <2>. QED  BY <1>1, <2>2, <2>4
<1>6. at - 1 < Len(file) => file[(at - 1) + 1].kind \notin ToSet(Optional)
  <2>1. (at - 1) + 1 = at /\ (at - 1 < Len(file) => at \in DOMAIN file)
    BY <1>0
  <2>. QED  BY <1>5, <2>1
<1>. QED  BY <1>1, <1>3, <1>4, <1>6 DEF HeaderEnd

(* Pointed is kept.                                                        *)
LEMMA PointedKept ==
  ASSUME IInv, [Next]_vars
  PROVE  Pointed'
<1>. USE DEF IInv
<1>0. file' = file /\ from' = from /\ updates' = updates /\ at \in Nat /\ at >= 1
  BY StepKeeps DEF kindVars, TypeOK
<1>s. sent \in Seq([in : Nat, out : Nat]) /\ DOMAIN sent = 1..Len(sent) /\ Len(sent) \in Nat
  BY DEF TypeOK
<1>1. CASE Body
  <2>1. PICK n \in Nat, e \in ReadErrors \cup {"nil", "corrupt"} :
           /\ buf' \in Seq(Nat) /\ Len(buf') = n
           /\ \A i \in 1..n : buf'[i] = at + i - 1
           /\ \A i \in at..(at + n - 1) : i \in 1..Len(file) /\ file[i].kind = "byte"
           /\ e = "EOF" => at + n \in 1..Len(file) /\ file[at + n].kind = "last"
           /\ at' = (IF e = "EOF" THEN at + n + 1 ELSE at + n)
           /\ e = "EOF" => pc' = "trailer" /\ got' = got
           /\ e # "EOF" => Return(buf', e)
    BY <1>1, BodyReads
  <2>2. sent' = sent /\ InMember /\ Pending = <<>>
    BY <1>1 DEF Body, InMember, Pending
  <2>3. got \in Seq(Nat) /\ got \o <<>> = got
    BY ConcatEmptySeq DEF TypeOK
  <2>4. /\ got \o buf' \in Seq(Nat) /\ (got \o buf') \o <<>> = got \o buf'
        /\ DOMAIN (got \o buf') = 1..(Len(got) + n) /\ DOMAIN got = 1..Len(got) /\ Len(got) \in Nat
        /\ \A i \in 1..(Len(got) + n) :
             (got \o buf')[i] = IF i <= Len(got) THEN got[i] ELSE buf'[i - Len(got)]
    <3>1. /\ got \o buf' \in Seq(Nat) /\ Len(got \o buf') = Len(got) + Len(buf')
          /\ \A i \in 1..(Len(got) + Len(buf')) :
               (got \o buf')[i] = IF i <= Len(got) THEN got[i] ELSE buf'[i - Len(got)]
      BY <2>1, <2>3, ConcatProperties
    <3>2. (got \o buf') \o <<>> = got \o buf'
      BY <3>1, ConcatEmptySeq
    <3>3. DOMAIN (got \o buf') = 1..Len(got \o buf') /\ DOMAIN got = 1..Len(got) /\ Len(got) \in Nat
      BY <2>3, <3>1, LenProperties
    <3>. QED  BY <2>1, <3>1, <3>2, <3>3
  <2>5. got' \o Pending' = got \o buf'
    <3>1. CASE e = "EOF"
      BY <2>1, <3>1 DEF Pending
    <3>2. CASE e # "EOF"
      <4>1. got' = got \o buf' /\ pc' \in {"idle", "failed"}
        BY <2>1, <3>2 DEF Return
      <4>. QED  BY <2>4, <4>1 DEF Pending
    <3>. QED  BY <3>1, <3>2
  <2>6. CASE ~updates
    BY <1>0, <2>2, <2>6 DEF Pointed
  <2>7. CASE updates
    <3>. DEFINE q == at - 1
    <3>1. /\ q \in Nat /\ q + 1 = at /\ q + n \in Nat /\ (q + n) + 1 = at + n
          /\ \A m \in Nat : m <= n => \A i \in (q + 1)..(q + m) : i \in at..(at + n - 1)
      BY <1>0
    <3>2. PICK h \in 1..q : LastFixed(file, h, q)
      BY <2>2, <2>7 DEF Checked, Pointed
    <3>3. PICK k \in DOMAIN sent : LastOf(file, "fixed", q) <= sent[k].in /\ sent[k].in < at
      BY <2>2, <2>7 DEF Pointed, SentFor
    <3>4. sent[k].in \in Nat
      <4>1. sent[k] \in [in : Nat, out : Nat]
        BY <1>s, <3>3, ElementOfSeq
      <4>. QED  BY <4>1
    <3>. HIDE DEF q
    <3>5. ASSUME NEW p \in Nat, LastFixed(file, h, p) PROVE LastOf(file, "fixed", p) = h
      BY <3>5, LastOfIs DEF LastFixed
    <3>6. h <= sent[k].in
      BY <3>1, <3>2, <3>3, <3>5
    <3>7. \A m \in Nat : m <= n => LastFixed(file, h, q + m)
      <4>. SUFFICES ASSUME NEW m \in Nat, m <= n PROVE LastFixed(file, h, q + m)
        OBVIOUS
      <4>1. \A i \in (q + 1)..(q + m) : file[i].kind = "byte"
        BY <2>1, <3>1
      <4>. QED  BY <3>1, <3>2, <4>1, MemberBytesRun
    <3>8. ASSUME NEW i \in DOMAIN (got \o buf')
          PROVE  SentFor((got \o buf')[i], (got \o buf')[i])
      <4>1. CASE i <= Len(got)
        <5>1. (got \o buf')[i] = got[i] /\ i \in DOMAIN got
          BY <2>4, <3>8, <4>1
        <5>2. SentFor(got[i], got[i])
          BY <2>2, <2>3, <2>7, <5>1 DEF Pointed
        <5>. QED  BY <5>1, <5>2
      <4>2. CASE ~(i <= Len(got))
        <5>. DEFINE m == i - Len(got)
        <5>1. m \in 1..n /\ m \in Nat /\ m <= n
          BY <2>4, <3>8, <4>2
        <5>2. (got \o buf')[i] = buf'[m]
          BY <2>4, <3>8, <4>2
        <5>. HIDE DEF m
        <5>3. (got \o buf')[i] = q + m /\ q + m \in Nat
          BY <2>1, <3>1, <5>1, <5>2
        <5>4. LastOf(file, "fixed", q + m) = h
          BY <3>5, <3>7, <5>1, <5>3
        <5>5. sent[k].in < q + m
          BY <1>0, <3>1, <3>3, <3>4, <5>1
        <5>. QED  BY <3>3, <3>6, <5>3, <5>4, <5>5 DEF SentFor
      <4>. QED  BY <4>1, <4>2
    <3>9. SentFor(at - 1, at)'
      <4>1. CASE e = "EOF"
        <5>1. at' - 1 = (q + n) + 1 /\ at' = at + n + 1
          BY <1>0, <2>1, <3>1, <4>1
        <5>2. file[(q + n) + 1].kind = "last"
          BY <2>1, <3>1, <4>1
        <5>3. LastFixed(file, h, q + n)
          BY <3>7
        <5>4. LastFixed(file, h, (q + n) + 1) /\ (q + n) + 1 \in Nat
          <6>1. q + n \in Nat /\ (q + n) + 1 \in Nat
            BY <3>1
          <6>2. file[(q + n) + 1].kind \notin {"byte", "fixed"}
            BY <5>2
          <6>. QED  BY <5>3, <6>1, <6>2, MemberBytesEnd
        <5>5. LastOf(file, "fixed", at' - 1) = h
          BY <3>5, <5>1, <5>4
        <5>6. sent[k].in < at'
          BY <1>0, <3>3, <3>4, <5>1
        <5>. QED  BY <1>0, <2>2, <3>3, <3>6, <5>5, <5>6 DEF SentFor
      <4>2. CASE e # "EOF"
        <5>1. at' - 1 = q + n /\ at' = at + n
          BY <1>0, <2>1, <3>1, <4>2
        <5>2. LastOf(file, "fixed", at' - 1) = h
          BY <3>1, <3>5, <3>7, <5>1
        <5>3. sent[k].in < at'
          BY <1>0, <3>3, <3>4, <5>1
        <5>. QED  BY <1>0, <2>2, <3>3, <3>6, <5>2, <5>3 DEF SentFor
      <4>. QED  BY <4>1, <4>2
    <3>10. \A p, r : SentFor(p, r)' <=> SentFor(p, r)
      BY <1>0, <2>2 DEF SentFor
    <3>. QED  BY <1>0, <2>2, <2>5, <3>8, <3>9, <3>10 DEF Pointed
  <2>. QED  BY <2>6, <2>7
<1>2. CASE HeaderDone
  <2>1. /\ pc = "field" /\ fields = {} /\ at' = at
        /\ sent' = IF updates THEN Append(sent, HeaderCheckpoint) ELSE sent
    BY <1>2 DEF HeaderDone
  <2>2. got' \o Pending' = got \o Pending
    BY <1>2, <2>1, OtherSteps DEF HeaderDone, Body
  <2>3. CASE ~updates
    BY <1>0, <2>1, <2>3 DEF Pointed
  <2>4. CASE updates
    <3>1. sent' = Append(sent, HeaderCheckpoint) /\ count = at - 1
      BY <2>1, <2>4 DEF Pointed, Checked
    <3>2. HeaderCheckpoint \in [in : Nat, out : Nat]
      BY DEF HeaderCheckpoint, TypeOK
    <3>3. /\ DOMAIN sent' = 1..(Len(sent) + 1)
          /\ \A k \in DOMAIN sent : sent'[k] = sent[k]
          /\ sent'[Len(sent) + 1] = HeaderCheckpoint
      BY <1>s, <3>1, <3>2, AppendProperties
    <3>4. HeaderCheckpoint.in = at - 1 /\ HeaderCheckpoint.out = Len(Passed)
      BY <3>1 DEF HeaderCheckpoint, Control, Delivered
    <3>5. HeaderEnd(file, at - 1) /\ LastOf(file, "fixed", at - 1) \in 1..(at - 1)
      BY <2>1, HeaderEnds
    <3>6. ASSUME NEW k \in DOMAIN sent'
          PROVE  HeaderEnd(file, sent'[k].in) /\ sent'[k].out = Len(BytesUpTo(file, sent'[k].in))
      <4>1. k \in DOMAIN sent \/ k = Len(sent) + 1
        BY <1>s, <3>3
      <4>. QED  BY <3>3, <3>4, <3>5, <4>1 DEF Pointed, Passed
    <3>7. ASSUME NEW p, NEW r, SentFor(p, r) PROVE SentFor(p, r)'
      <4>1. PICK k \in DOMAIN sent : LastOf(file, "fixed", p) <= sent[k].in /\ sent[k].in < r
        BY <3>7 DEF SentFor
      <4>2. k \in DOMAIN sent' /\ sent'[k] = sent[k]
        BY <1>s, <3>3
      <4>. QED  BY <1>0, <4>1, <4>2 DEF SentFor
    <3>8. SentFor(at - 1, at)'
      <4>1. Len(sent) + 1 \in DOMAIN sent'
        BY <1>s, <3>3
      <4>2. LastOf(file, "fixed", at - 1) <= at - 1 /\ at - 1 < at
        BY <1>0, <3>5
      <4>. QED  BY <1>0, <2>1, <3>3, <3>4, <4>1, <4>2 DEF SentFor
    <3>. QED  BY <1>0, <2>2, <3>6, <3>7, <3>8 DEF Pointed
  <2>. QED  BY <2>3, <2>4
<1>3. CASE ~Body /\ ~HeaderDone
  <2>1. got' \o Pending' = got \o Pending
    BY <1>3, OtherSteps
  <2>2. sent' = sent
    BY <1>3 DEF Next, Work, Read, ReadFailed, TrailerMissing, TrailerWrong, TrailerRight, NoHeader,
                Fixed, FieldMissing, Field, vars
  <2>3. \A p, r : SentFor(p, r)' <=> SentFor(p, r)
    BY <1>0, <2>2 DEF SentFor
  <2>4. InMember' => InMember /\ at' = at
    BY <1>3 DEF Next, Work, Read, ReadFailed, TrailerMissing, TrailerWrong, TrailerRight, NoHeader,
                Fixed, FieldMissing, Field, Due, vars, InMember, Return, ReadErrors, noEOF
  <2>5. updates' /\ InMember' => SentFor(at - 1, at)'
    BY <1>0, <2>3, <2>4 DEF Pointed, SentFor
  <2>. QED  BY <1>0, <2>1, <2>2, <2>3, <2>5 DEF Pointed
<1>. QED  BY <1>1, <1>2, <1>3

---------------------------------------------------------------------------
(* The theorems *)

(* Where a reader begins, it has read what lies before.                    *)
LEMMA InitIInv == Init => IInv
<1>. SUFFICES ASSUME Init PROVE IInv
  OBVIOUS
<1>0. file \in Files /\ Len(file) \in Nat /\ got = <<>> /\ buf = <<>> /\ sent = <<>> /\ err = "nil"
  BY FileTyped DEF Init
<1>1. at \in 1..(Len(file) + 1) /\ at \in Nat /\ at - 1 \in Nat
  BY <1>0 DEF Init, InitNew, InitContinue, Block
<1>2. BytesUpTo(file, at - 1) \in Seq(Nat) /\ BytesUpTo(file, 0) = <<>>
  BY <1>1, BytesEquations
<1>3. start = Len(BytesUpTo(file, at - 1)) /\ start \in Nat
  <2>1. CASE InitNew
    <3>1. at - 1 = 0 /\ start = 0 /\ Len(<<>>) = 0
      BY <2>1 DEF InitNew
    <3>. QED  BY <1>2, <3>1
  <2>2. CASE InitContinue
    <3>1. start = Len(BytesUpTo(file, at - 1))
      BY <2>2 DEF InitContinue
    <3>. QED  BY <1>2, <3>1
  <2>. QED  BY <2>1, <2>2 DEF Init
<1>4. TypeOK
  <2>1. <<>> \in Seq(Nat) /\ <<>> \in Seq([in : Nat, out : Nat])
    OBVIOUS
  <2>2. size \in 0..(SizeMod - 1)
    BY FileAssumption DEF Init
  <2>3. count \in Nat /\ out \in Nat /\ woffset \in Nat /\ want \in Nat
    BY <1>3 DEF Init
  <2>4. /\ open \in BOOLEAN /\ from \in BOOLEAN /\ updates \in BOOLEAN
        /\ pc \in {"idle", "body", "trailer", "fixed", "field", "failed"}
    BY DEF Init, InitNew, InitContinue
  <2>5. fields \subseteq ToSet(Optional) /\ digest = <<>> /\ err \in Error
    BY DEF Init, Error
  <2>. QED  BY <1>0, <1>1, <1>3, <2>1, <2>2, <2>3, <2>4, <2>5 DEF TypeOK
<1>5. Control
  BY DEF Init, InitNew, InitContinue, Control
<1>6. Delivered
  <2>1. got \o Pending = <<>> /\ Len(<<>>) = 0
    BY <1>0 DEF Pending
  <2>2. SubSeq(Passed, start + 1, Len(Passed)) = <<>>
    BY <1>3, SubSeqEmpty DEF Passed
  <2>. QED  BY <1>3, <2>1, <2>2 DEF Init, Delivered, Passed
<1>7. InHeader
  BY DEF Init, InitNew, InitContinue, InHeader
<1>8. Checked
  BY <1>1 DEF Init, InitNew, InitContinue, Checked, InMember
<1>9. Blamed /\ Ends
  BY DEF Init, InitNew, InitContinue, Blamed, Ends
<1>10. Pointed
  <2>1. DOMAIN <<>> = {} /\ got \o Pending = <<>>
    BY <1>0 DEF Pending
  <2>. QED  BY <1>0, <2>1 DEF Init, InitNew, InitContinue, Pointed, InMember
<1>. QED  BY <1>0, <1>4, <1>5, <1>6, <1>7, <1>8, <1>9, <1>10 DEF IInv

(* The invariant is inductive.                                             *)
LEMMA StepIInv == IInv /\ [Next]_vars => IInv'
<1>. SUFFICES ASSUME IInv, [Next]_vars PROVE IInv'
  OBVIOUS
<1>1. (file \in Files)'
  BY StepKeeps DEF IInv, kindVars
<1>2. TypeOK' /\ Control' /\ Delivered' /\ InHeader' /\ Checked' /\ Blamed' /\ Pointed' /\ Ends'
  BY StepTyped, ControlKept, DeliveredKept, InHeaderKept, CheckedKept, BlamedKept, PointedKept, EndsKept
     DEF IInv
<1>. QED  BY <1>1, <1>2 DEF IInv

(* It holds in every reachable state.                                      *)
THEOREM Invariance == Spec => []IInv
<1>. QED  BY InitIInv, StepIInv, PTL DEF Spec

(* Type correctness: with every step, at the end of every file, the        *)
(* variables stay in their ranges, the size within uint32.                 *)
THEOREM Typing == Spec => []TypeOK
<1>1. IInv => TypeOK
  BY DEF IInv
<1>. QED  BY <1>1, Invariance, PTL

(* The end of a prefix is part of the whole.                               *)
LEMMA PrefixEnd ==
  ASSUME NEW s \in Seq(Nat), NEW k \in 1..Len(s), NEW a \in 1..k
  PROVE  SubSeq(SubSeq(s, 1, k), a, k) = SubSeq(s, a, k)
<1>1. 1 \in 1..Len(s) /\ k - 1 + 1 = k /\ 1 + a - 1 = a /\ 1 + k - 1 = k
  BY LenProperties
<1>2. a \in 1..(k - 1 + 1) /\ k \in 1..(k - 1 + 1)
  BY <1>1
<1>3. SubSeq(SubSeq(s, 1, k), a, k) = SubSeq(s, 1 + a - 1, 1 + k - 1)
  BY ONLY <1>1, <1>2, SubSeqOfSubSeq, s \in Seq(Nat), k \in 1..Len(s)
<1>. QED  BY <1>1, <1>3

(* Reads return the bytes of all members, in order and none twice.         *)
THEOREM MembersRead == Spec => []ReadsMembers
<1>1. IInv => ReadsMembers
  <2>. SUFFICES ASSUME IInv, pc = "idle"
                PROVE  /\ got = SubSeq(BytesUpTo(file, Len(file)), start + 1, start + Len(got))
                       /\ woffset = start + Len(got)
                       /\ out = Len(got)
    BY DEF ReadsMembers
  <2>. DEFINE all == BytesUpTo(file, Len(file))
  <2>1. at \in Nat /\ at - 1 \in Nat /\ at - 1 <= Len(file) /\ Len(file) \in Nat /\ start \in Nat
        /\ got \in Seq(Nat) /\ Len(got) \in Nat
    BY FileTyped, LenProperties DEF IInv, TypeOK
  <2>2. got \o <<>> = got /\ Pending = <<>>
    BY <2>1, ConcatEmptySeq DEF Pending
  <2>3. Passed \in Seq(Nat) /\ all \in Seq(Nat) /\ Len(Passed) \in Nat /\ Len(all) \in Nat
    BY <2>1, BytesEquations, LenProperties DEF Passed
  <2>4. Len(Passed) <= Len(all) /\ SubSeq(all, 1, Len(Passed)) = Passed
    BY <2>1, BytesPrefix DEF Passed
  <2>5. /\ got = SubSeq(Passed, start + 1, Len(Passed)) /\ start \in 0..Len(Passed)
        /\ woffset = Len(Passed) /\ out = Len(got)
    BY <2>1, <2>2, <2>3 DEF IInv, Delivered
  <2>. HIDE DEF all
  <2>6. Len(got) = Len(Passed) - start
    BY <2>3, <2>5, SubSeqGrows
  <2>7. SubSeq(all, start + 1, start + Len(got)) = got
    <3>1. CASE start = Len(Passed)
      <4>1. start + Len(got) < start + 1
        BY <2>1, <2>6, <3>1
      <4>2. SubSeq(all, start + 1, start + Len(got)) = <<>>
        BY <2>1, <4>1, SubSeqEmpty
      <4>. QED  BY <2>1, <2>6, <3>1, <4>2, EmptySeq
    <3>2. CASE start # Len(Passed)
      <4>0. start < Len(Passed)
        BY <2>1, <2>3, <2>5, <3>2
      <4>1. Len(Passed) \in 1..Len(all) /\ start + 1 \in 1..Len(Passed) /\ Len(Passed) = start + Len(got)
        <5>1. PICK n \in Nat : n = Len(Passed)
          BY <2>3
        <5>2. n <= Len(all) /\ Len(got) = n - start /\ start < n
          BY <2>4, <2>6, <4>0, <5>1
        <5>3. n \in 1..Len(all) /\ start + 1 \in 1..n /\ n = start + Len(got)
          BY <2>1, <2>3, <5>2
        <5>. QED  BY <5>1, <5>3
      <4>2. SubSeq(SubSeq(all, 1, Len(Passed)), start + 1, Len(Passed)) = SubSeq(all, start + 1, Len(Passed))
        BY <2>3, <4>1, PrefixEnd
      <4>. QED  BY <2>4, <2>5, <4>1, <4>2
    <3>. QED  BY <3>1, <3>2
  <2>8. woffset = start + Len(got)
    BY <2>1, <2>3, <2>5, <2>6
  <2>. QED  BY <2>5, <2>7, <2>8 DEF all
<1>. QED  BY <1>1, Invariance, PTL

(* A Read returns something, and io.EOF only at the end of the last        *)
(* member's trailer, when all has been returned.                           *)
THEOREM EndOfFile == Spec => []EOFIsEnd
<1>1. IInv => EOFIsEnd
  <2>. SUFFICES ASSUME IInv, pc = "idle"
                PROVE  /\ want > 0 => buf # <<>> \/ err # "nil"
                       /\ err = "EOF" =>
                            /\ at = Len(file) + 1 /\ KindAt(Len(file)) = "trailer"
                            /\ start + Len(got) = Len(BytesUpTo(file, Len(file)))
    BY DEF EOFIsEnd
  <2>1. want > 0 => buf # <<>> \/ err # "nil"
    BY DEF IInv, Ends
  <2>2. ASSUME err = "EOF"
        PROVE  /\ at = Len(file) + 1 /\ KindAt(Len(file)) = "trailer"
               /\ start + Len(got) = Len(BytesUpTo(file, Len(file)))
    <3>1. at = Len(file) + 1 /\ at > 1 /\ file[at - 1].kind = "trailer"
      BY <2>2 DEF IInv, Ends
    <3>2. Len(file) \in Nat /\ DOMAIN file = 1..Len(file) /\ start \in Nat /\ got \in Seq(Nat)
      BY FileTyped DEF IInv, TypeOK
    <3>3. at - 1 = Len(file) /\ Len(file) \in DOMAIN file
      BY <3>1, <3>2
    <3>4. KindAt(Len(file)) = "trailer"
      BY <3>1, <3>3 DEF KindAt
    <3>5. Passed = BytesUpTo(file, Len(file)) /\ Passed \in Seq(Nat) /\ Len(Passed) \in Nat
      BY <3>2, <3>3, BytesEquations, LenProperties DEF Passed
    <3>6. got = SubSeq(Passed, start + 1, Len(Passed)) /\ start \in 0..Len(Passed)
      <4>1. got \o <<>> = got /\ Pending = <<>>
        BY <3>2, ConcatEmptySeq DEF Pending
      <4>. QED  BY <3>2, <3>5, <4>1 DEF IInv, Delivered
    <3>7. Len(got) = Len(Passed) - start
      <4>1. <<>> \in Seq(Nat)
        OBVIOUS
      <4>. QED  BY <3>5, <3>6, <4>1, SubSeqGrows
    <3>. QED  BY <3>1, <3>2, <3>4, <3>5, <3>7
  <2>. QED  BY <2>1, <2>2
<1>. QED  BY <1>1, Invariance, PTL

(* What Reads have returned are bytes among the tokens read.               *)
LEMMA GotPassed ==
  ASSUME IInv, NEW i \in DOMAIN got
  PROVE  /\ i \in DOMAIN (got \o Pending) /\ (got \o Pending)[i] = got[i]
         /\ got[i] \in 1..(at - 1) /\ file[got[i]].kind = "byte"
<1>1. got \in Seq(Nat) /\ Pending \in Seq(Nat) /\ at - 1 \in Nat /\ start \in Nat
  BY DEF IInv, TypeOK, Pending
<1>2. Passed \in Seq(Nat) /\ Len(Passed) \in Nat
  BY <1>1, BytesEquations, LenProperties DEF Passed
<1>3. i \in DOMAIN (got \o Pending) /\ (got \o Pending)[i] = got[i]
  BY <1>1, ConcatProperties, LenProperties
<1>4. got \o Pending = SubSeq(Passed, start + 1, Len(Passed)) /\ start <= Len(Passed)
  BY DEF IInv, Delivered
<1>5. start + i \in DOMAIN Passed /\ (got \o Pending)[i] = Passed[start + i]
  <2>1. \A j \in (start + 1)..Len(Passed) : Passed[j] \in Nat
    BY <1>1, <1>2, ElementOfSeq
  <2>2. start + 1 \in Int /\ Len(Passed) \in Int
    BY <1>1, <1>2
  <2>3. /\ got \o Pending \in Seq(Nat)
        /\ Len(got \o Pending) = IF start + 1 <= Len(Passed) THEN Len(Passed) - (start + 1) + 1 ELSE 0
        /\ \A j \in 1..(Len(Passed) - (start + 1) + 1) : (got \o Pending)[j] = Passed[(start + 1) + j - 1]
    BY <1>4, <2>1, <2>2, SubSeqProperties
  <2>4. i \in 1..Len(got \o Pending) /\ i \in Nat
    BY <1>3, <2>3, LenProperties
  <2>5. i \in 1..(Len(Passed) - (start + 1) + 1) /\ (start + 1) + i - 1 = start + i /\ start + i \in 1..Len(Passed)
    <3>1. CASE start + 1 <= Len(Passed)
      <4>1. Len(got \o Pending) = Len(Passed) - (start + 1) + 1
        BY <2>3, <3>1
      <4>2. i \in 1..(Len(Passed) - (start + 1) + 1)
        BY <2>4, <4>1
      <4>3. /\ i \in Nat /\ start \in Nat /\ Len(Passed) \in Nat
            /\ i <= Len(Passed) - (start + 1) + 1 /\ 1 <= i
        BY <1>1, <1>2, <2>4, <4>2
      <4>4. start + i <= Len(Passed) /\ 1 <= start + i
        BY <4>3
      <4>5. (start + 1) + i - 1 = start + i
        BY <4>3
      <4>. QED  BY ONLY <4>2, <4>3, <4>4, <4>5
    <3>2. CASE ~(start + 1 <= Len(Passed))
      <4>1. Len(got \o Pending) = 0
        BY <2>3, <3>2
      <4>. QED  BY <2>4, <4>1
    <3>. QED  BY <3>1, <3>2
  <2>. QED  BY <1>2, <2>3, <2>5, LenProperties
<1>. QED  BY <1>1, <1>3, <1>5, BytesAre DEF Passed

(* No byte behind a wrong header, trailer or stream is returned, and an    *)
(* error is only reported of a token that is wrong.                        *)
THEOREM Verification == Spec => []Verified
<1>1. IInv => Verified
  <2>. SUFFICES ASSUME IInv PROVE Verified
    OBVIOUS
  <2>0. at \in Nat
    BY DEF IInv, TypeOK
  <2>1. ASSUME ~from, NEW p \in 1..(at - 1), ~Right(file, p)
        PROVE  err # "EOF" /\ \A i \in DOMAIN got : got[i] < p
    <3>1. p \in 1..(at - 2) \/ p = at - 1
      BY <2>0
    <3>2. at > 1 /\ p = at - 1 /\ file[p].kind # "byte" /\ err \in {"ErrChecksum", "ErrHeader"}
      BY <2>0, <2>1, <3>1 DEF IInv, Checked
    <3>3. ASSUME NEW i \in DOMAIN got PROVE got[i] < p
      <4>1. got[i] \in 1..(at - 1) /\ got[i] # p
        BY <3>2, GotPassed
      <4>. QED  BY <2>0, <3>2, <4>1
    <3>. QED  BY <3>2, <3>3
  <2>2. err \in {"ErrChecksum", "ErrHeader"} => ~Right(file, at - 1)
    BY DEF IInv, Blamed
  <2>. QED  BY <2>1, <2>2 DEF Verified
<1>. QED  BY <1>1, Invariance, PTL

(* Every header's checkpoint points at its member's first byte, and is     *)
(* sent before any byte of the member is returned.                         *)
THEOREM HeadersPointed == Spec => []HeaderCheckpoints
<1>1. IInv => HeaderCheckpoints
  <2>. SUFFICES ASSUME IInv PROVE HeaderCheckpoints
    OBVIOUS
  <2>1. ASSUME updates, NEW i \in DOMAIN got
        PROVE  \E k \in DOMAIN sent : LastOf(file, "fixed", got[i]) <= sent[k].in /\ sent[k].in < got[i]
    <3>1. i \in DOMAIN (got \o Pending) /\ (got \o Pending)[i] = got[i]
      BY GotPassed
    <3>2. SentFor((got \o Pending)[i], (got \o Pending)[i])
      BY <2>1, <3>1 DEF IInv, Pointed
    <3>. QED  BY <3>1, <3>2 DEF SentFor
  <2>. QED  BY <2>1 DEF IInv, Pointed, HeaderCheckpoints
<1>. QED  BY <1>1, Invariance, PTL
=============================================================================
