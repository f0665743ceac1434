--------------------------- MODULE HuffmanProofs ---------------------------
(***************************************************************************)
(* Huffman's invariants, for codes of every width and every input.         *)
(***************************************************************************)
EXTENDS HuffmanCodes

---------------------------------------------------------------------------
(* The lengths that a sequence of symbols stands for *)

(* What can be in Expanded: a length, or what has nothing before it to     *)
(* repeat.                                                                 *)
Entries == Nat \cup {Last(<<>>)}

(* What a symbol adds.                                                     *)
LEMMA LastingType ==
  ASSUME NEW l \in Seq(Entries), NEW t \in Nat \X Nat
  PROVE  Lasting(l, t) \in Seq(Entries)
<1>1. Last(l) \in Entries
  <2>1. CASE l = <<>>
    BY <2>1 DEF Entries
  <2>2. CASE l # <<>>
    <3>1. Len(l) \in 1..Len(l)
      BY <2>2
    <3>2. l[Len(l)] \in Entries
      BY <3>1
    <3>. QED  BY <3>2 DEF Last
  <2>. QED  BY <2>1, <2>2
<1>2. t[1] \in Nat /\ t[2] \in Nat
  OBVIOUS
<1>3. CASE t[1] \notin DOMAIN Repeats
  <2>1. t[1] \in Entries
    BY <1>2 DEF Entries
  <2>2. <<t[1]>> \in Seq(Entries)
    BY <2>1
  <2>. QED  BY <1>3, <2>2 DEF Lasting
<1>4. CASE t[1] \in DOMAIN Repeats
  <2>. DEFINE f == [k \in 1..t[2] |-> IF Repeats[t[1]].copy THEN Last(l) ELSE 0]
  <2>1. 0 \in Entries
    BY DEF Entries
  <2>2. f \in [1..t[2] -> Entries]
    BY <1>1, <2>1
  <2>. HIDE DEF f
  <2>3. f \in Seq(Entries)
    BY <1>2, <2>2
  <2>. QED  BY <1>4, <2>3 DEF Lasting, f
<1>. QED  BY <1>3, <1>4

(* The lists that Expanded is computed by.                                 *)
IsExpansion(ts, e) ==
  /\ e \in [0..Len(ts) -> Seq(Entries)] /\ e[0] = <<>>
  /\ \A k \in 1..Len(ts) : e[k] = e[k - 1] \o Lasting(e[k - 1], ts[k])

(* There are such lists.                                                   *)
LEMMA Expansion ==
  ASSUME NEW ts \in Seq(Nat \X Nat)
  PROVE  \E e : IsExpansion(ts, e) /\ Expanded(ts) = e[Len(ts)]
<1>. DEFINE L == Len(ts)
            U == Seq(Entries)
            g == [x \in Nat \X U |->
                    IF x[1] + 1 \in 1..L THEN x[2] \o Lasting(x[2], ts[x[1] + 1]) ELSE <<>>]
            Is(F) == F = [k \in 0..L |-> IF k = 0 THEN <<>> ELSE F[k - 1] \o Lasting(F[k - 1], ts[k])]
            E == CHOOSE F : Is(F)
<1>0. L \in Nat /\ <<>> \in U
  OBVIOUS
<1>1. \A k \in 1..L : \A l \in U : l \o Lasting(l, ts[k]) \in U
  <2>. TAKE k \in 1..L
  <2>. TAKE l \in U
  <2>1. Lasting(l, ts[k]) \in Seq(Entries)
    BY LastingType
  <2>. QED  BY <2>1
<1>. HIDE DEF L, U
<1>2. g \in [Nat \X U -> U]
  BY <1>0, <1>1
<1>3. PICK F \in [0..L -> U] : IsRecursiveUpTo(g, <<>>, F, L)
  <2>. HIDE DEF g
  <2>. QED  BY <1>0, <1>2, RecursiveUpTo
<1>4. \A k \in 1..L : F[k] = F[k - 1] \o Lasting(F[k - 1], ts[k])
  <2>. TAKE k \in 1..L
  <2>1. k - 1 \in Nat /\ k - 1 \in 0..L /\ (k - 1) + 1 = k /\ k \in 0..L /\ k # 0
    BY <1>0
  <2>2. F[k] = g[<<k - 1, F[k - 1]>>]
    <3>. HIDE DEF g
    <3>. QED  BY <1>3, <2>1 DEF IsRecursiveUpTo
  <2>3. F[k - 1] \in U
    BY <1>3, <2>1
  <2>. QED  BY <2>1, <2>2, <2>3
<1>5. F[0] = <<>>
  BY <1>0, <1>3 DEF IsRecursiveUpTo
<1>6. Is(F)
  <2>1. \A k \in 0..L : F[k] = IF k = 0 THEN <<>> ELSE F[k - 1] \o Lasting(F[k - 1], ts[k])
    <3>. TAKE k \in 0..L
    <3>1. k = 0 \/ k \in 1..L
      BY <1>0
    <3>2. \A n \in 1..L : n # 0
      OBVIOUS
    <3>. QED  BY <1>4, <1>5, <3>1, <3>2
  <2>2. F = [k \in 0..L |-> F[k]]
    BY <1>3
  <2>. QED  BY <2>1, <2>2
<1>7. Is(E)
  BY <1>6
<1>. HIDE DEF E
<1>8. Expanded(ts) = E[L]
  BY DEF Expanded, E, L
<1>9. E[0] = <<>> /\ \A k \in 1..L : E[k] = E[k - 1] \o Lasting(E[k - 1], ts[k])
  <2>1. 0 \in 0..L /\ \A k \in 1..L : k \in 0..L /\ k # 0
    BY <1>0
  <2>. QED  BY <1>7, <2>1
<1>10. E \in [0..L -> U]
  <2>. DEFINE S == {k \in Nat : k <= L => E[k] \in U}
  <2>1. 0 \in S
    BY <1>0, <1>9
  <2>2. ASSUME NEW k \in Nat, k \in S PROVE k + 1 \in S
    <3>. SUFFICES ASSUME k + 1 <= L PROVE E[k + 1] \in U
      OBVIOUS
    <3>1. k + 1 \in 1..L /\ (k + 1) - 1 = k /\ k <= L
      BY <1>0
    <3>2. E[k] \in U
      BY <2>2, <3>1
    <3>. QED  BY <1>1, <1>9, <3>1, <3>2
  <2>. HIDE DEF S
  <2>3. Nat \subseteq S
    BY <2>1, <2>2, Induction
  <2>4. \A k \in 0..L : E[k] \in U
    BY <1>0, <2>3 DEF S
  <2>5. E = [k \in 0..L |-> E[k]]
    BY <1>7
  <2>. QED  BY <2>4, <2>5
<1>11. IsExpansion(ts, E)
  BY <1>9, <1>10 DEF IsExpansion, L, U
<1>. QED  BY <1>8, <1>11 DEF L

(* A symbol more adds what it stands for.                                  *)
LEMMA ExpandedStep ==
  ASSUME NEW ts \in Seq(Nat \X Nat), NEW t \in Nat \X Nat
  PROVE  /\ Expanded(ts) \in Seq(Entries)
         /\ Expanded(Append(ts, t)) = Expanded(ts) \o Lasting(Expanded(ts), t)
<1>. DEFINE L == Len(ts)
            us == Append(ts, t)
<1>0. L \in Nat
  OBVIOUS
<1>1. us \in Seq(Nat \X Nat) /\ Len(us) = L + 1 /\ us[L + 1] = t /\ \A k \in 1..L : us[k] = ts[k]
  OBVIOUS
<1>. HIDE DEF us
<1>2. PICK e : IsExpansion(ts, e) /\ Expanded(ts) = e[L]
  BY Expansion
<1>3. PICK f : IsExpansion(us, f) /\ Expanded(us) = f[L + 1]
  BY <1>1, Expansion
<1>. DEFINE S == {k \in Nat : k <= L => f[k] = e[k]}
<1>4. 0 \in S
  BY <1>2, <1>3 DEF IsExpansion
<1>5. ASSUME NEW k \in Nat, k \in S PROVE k + 1 \in S
  <2>. SUFFICES ASSUME k + 1 <= L PROVE f[k + 1] = e[k + 1]
    OBVIOUS
  <2>1. k + 1 \in 1..L /\ k + 1 \in 1..(L + 1) /\ (k + 1) - 1 = k /\ k <= L
    BY <1>0
  <2>2. f[k + 1] = f[k] \o Lasting(f[k], us[k + 1])
    BY <1>1, <1>3, <2>1 DEF IsExpansion
  <2>3. e[k + 1] = e[k] \o Lasting(e[k], ts[k + 1])
    BY <1>2, <2>1 DEF IsExpansion
  <2>4. f[k] = e[k] /\ us[k + 1] = ts[k + 1]
    BY <1>1, <1>5, <2>1
  <2>. QED  BY <2>2, <2>3, <2>4
<1>. HIDE DEF S
<1>6. Nat \subseteq S
  BY <1>4, <1>5, Induction
<1>7. f[L] = e[L]
  <2>1. L <= L
    BY <1>0
  <2>. QED  BY <1>0, <1>6, <2>1 DEF S
<1>8. f[L + 1] = f[L] \o Lasting(f[L], us[L + 1])
  <2>1. L + 1 \in 1..(L + 1) /\ (L + 1) - 1 = L
    BY <1>0
  <2>. QED  BY <1>1, <1>3, <2>1 DEF IsExpansion
<1>9. e[L] \in Seq(Entries)
  <2>1. L \in 0..Len(ts)
    BY <1>0
  <2>. QED  BY <1>2, <2>1 DEF IsExpansion
<1>. QED  BY <1>1, <1>2, <1>3, <1>7, <1>8, <1>9 DEF us

(* No symbols stand for no lengths.                                        *)
LEMMA ExpandedNone == Expanded(<<>>) = <<>>
<1>1. <<>> \in Seq(Nat \X Nat) /\ Len(<<>>) = 0
  OBVIOUS
<1>2. PICK e : IsExpansion(<<>>, e) /\ Expanded(<<>>) = e[0]
  BY <1>1, Expansion
<1>. QED  BY <1>2 DEF IsExpansion

---------------------------------------------------------------------------
(* The inductive invariant *)

InHeaderCode == pc \in {"code", "repeat"}
InBlock == pc \in {"literal", "extra", "distance", "distExtra"}

(* The counts of a header are in range once they are read, and a fixed     *)
(* block has no header.                                                    *)
Counted ==
  /\ fixed \in BOOLEAN
  /\ fixed => InBlock \/ pc \in Ended
  /\ (~fixed /\ (pc = "clens" \/ InHeaderCode \/ InBlock)) =>
       /\ nlit \in (EndBlock + 1)..MaxNumLit /\ ndist \in 0..MaxNumDist
       /\ nclen \in 0..Len(CodeOrder)

(* A decoder whose min is zero is empty, so that init need not clear it.   *)
Clear(h) == h.min \in 0..MaxLen /\ (h.min = 0 => h = EmptyTable)
Cleared == Clear(h1) /\ Clear(h2)

(* What has been read of a header is what its tokens stand for, also while *)
(* a repeat is read.                                                       *)
Gathered ==
  /\ pc = "counts" => i = 0 /\ tokens = <<>>
  /\ pc = "clens" =>
       /\ i \in 0..nclen /\ tokens \in Seq(Nat) /\ Len(tokens) = i
       /\ \A k \in 1..i : codebits[CodeOrder[k]] = tokens[k]
  /\ InHeaderCode =>
       /\ i \in 0..(nlit + ndist) /\ tokens \in Seq(Nat \X Nat)
       /\ \A k \in (nclen + 1)..Len(CodeOrder) : codebits[CodeOrder[k]] = 0
       /\ [k \in 1..i |-> bits[k - 1]] = Expanded(tokens)

(* The decoders are those of the code that is read, and min is the length  *)
(* of a shortest one or, for the literals, of the end marker.              *)
Decoders ==
  /\ InHeaderCode => Decodes(h1, codebits) /\ h1.min = Least(codebits)
  /\ InBlock =>
       /\ Decodes(Hl, LitLens) /\ Hl.min \in 0..MaxLen
       /\ EndBlock \in Used(LitLens) => Hl.min = LitLens[EndBlock]
       /\ ~fixed => Decodes(h2, DistLens) /\ h2.min = Least(DistLens)

(* The symbol read last is one that what follows it goes with.             *)
Follows ==
  /\ pc = "repeat" => sym \in Nat /\ sym \in DOMAIN Repeats /\ (Repeats[sym].copy => i > 0)
  /\ pc = "extra" => sym \in DOMAIN RealSymbol /\ RealSymbol[sym] < 286
  /\ pc = "distExtra" => sym \in DOMAIN RealDist /\ RealDist[sym] < 30

(* No code of fewer bits than those that are waited for can come next.     *)
NotShorter(lens, n) == \A t \in Used(lens) : lens[t] < n => ~Compatible(CodeOf(lens, t), b)

Awaited ==
  /\ pc = "code" => NotShorter(codebits, need)
  /\ pc = "literal" => need = Hl.min \/ NotShorter(LitLens, need)
  /\ pc = "distance" /\ ~fixed => NotShorter(DistLens, need)

(* Less than a byte more has been read than what is wanted, or, in a       *)
(* block, than the end marker.                                             *)
Frugal ==
  /\ pc \in {"counts", "clens"} \/ InHeaderCode \/ InBlock =>
       Len(b) < ByteBits \/ Len(b) < Wanted + ByteBits \/ (InBlock /\ Len(b) < Hl.min + ByteBits)
  /\ pc = "done" => Len(b) < ByteBits

HInv ==
  /\ TypeOK /\ Counted /\ Cleared /\ Gathered /\ Decoders /\ Follows /\ Awaited /\ Frugal
  /\ NeverImpossible

(* A string of at most n bits.                                             *)
LEMMA UpTo ==
  ASSUME NEW x, NEW n \in Nat
  PROVE  x \in UNION {Strings(k) : k \in 0..n} <=> x \in Seq(Bit) /\ Len(x) <= n
<1>1. ASSUME x \in UNION {Strings(k) : k \in 0..n} PROVE x \in Seq(Bit) /\ Len(x) <= n
  <2>1. PICK k \in 0..n : x \in Strings(k)
    BY <1>1
  <2>2. x \in Seq(Bit) /\ Len(x) = k
    BY <2>1, StringIs
  <2>. QED  BY <2>2
<1>2. ASSUME x \in Seq(Bit), Len(x) <= n PROVE x \in UNION {Strings(k) : k \in 0..n}
  <2>1. Len(x) \in 0..n
    BY <1>2
  <2>2. x \in Strings(Len(x))
    BY <1>2 DEF Strings
  <2>. QED  BY <2>1, <2>2
<1>. QED  BY <1>1, <1>2

(* The widths are numbers.                                                 *)
LEMMA Widths ==
  /\ ByteBits \in Nat \ {0} /\ LengthBits \in Nat \ {0} /\ CLenBase \in Nat \ {0}
  /\ MaxLen \in Nat /\ LitBits \in Nat /\ DistBits \in Nat /\ CLenBits \in Nat
  /\ FixedDistBits \in Nat /\ MaxNumLit \in Nat /\ MaxNumDist \in Nat
  /\ EndBlock \in Nat /\ EndBlock < MaxNumLit
  /\ Widest \in Nat /\ LengthBits <= Widest /\ FixedDistBits <= Widest
  /\ MaxLen <= Widest /\ LitBits + DistBits + CLenBits <= Widest
  /\ Len(CodeOrder) \in Nat /\ Len(CodeOrder) <= MaxNumLit + MaxNumDist
<1>1. Len(CodeOrder) \in Nat /\ Len(CodeOrder) <= MaxNumLit + MaxNumDist
  BY CodeOrderAssumption
<1>2. /\ ByteBits \in Nat \ {0} /\ LengthBits \in Nat \ {0} /\ CLenBase \in Nat \ {0}
      /\ MaxLen \in Nat /\ LitBits \in Nat /\ DistBits \in Nat /\ CLenBits \in Nat
      /\ FixedDistBits \in Nat /\ MaxNumLit \in Nat /\ MaxNumDist \in Nat
  BY WidthAssumption
<1>3. EndBlock \in Nat /\ EndBlock < MaxNumLit
  BY <1>2, WidthAssumption
<1>4. LengthBits <= Widest /\ FixedDistBits <= Widest
  <2>1. Widest \in Nat
    BY <1>2 DEF Widest
  <2>. HIDE DEF Widest
  <2>2. LengthBits \in 0..Widest /\ FixedDistBits \in 0..Widest
    BY WidthAssumption
  <2>. QED  BY <2>1, <2>2
<1>5. Widest \in Nat /\ MaxLen <= Widest /\ LitBits + DistBits + CLenBits <= Widest
  BY <1>2 DEF Widest
<1>. QED  BY <1>1, <1>2, <1>3, <1>4, <1>5

(* b is a string of bits, and not too long.                                *)
LEMMA BitsType ==
  b \in UNION {Strings(n) : n \in 0..(MaxLen + LitBits + DistBits + CLenBits + ByteBits)}
  <=> b \in Seq(Bit) /\ Len(b) <= Widest + ByteBits
<1>1. MaxLen + LitBits + DistBits + CLenBits + ByteBits \in Nat
  BY Widths
<1>2. Widest + ByteBits = MaxLen + LitBits + DistBits + CLenBits + ByteBits
  BY DEF Widest
<1>. HIDE DEF Widest
<1>. QED  BY <1>1, <1>2, UpTo

(* The lengths of the fixed code are a code's.                             *)
LEMMA FixedIs ==
  /\ Lengths0(FixedLens) \in CodeLens
  /\ EndBlock \in Used(Lengths0(FixedLens)) /\ Complete(Lengths0(FixedLens))
  /\ Lengths0(FixedLens)[EndBlock] = Least(Lengths0(FixedLens))
<1>0. FixedLens \in Seq(0..MaxLen)
  BY SymbolAssumption
<1>1. Len(FixedLens) \in Nat /\ EndBlock < Len(FixedLens)
  BY <1>0, SymbolAssumption
<1>2. \A s \in 0..(Len(FixedLens) - 1) : FixedLens[s + 1] \in 0..MaxLen
  <2>. TAKE s \in 0..(Len(FixedLens) - 1)
  <2>1. s + 1 \in 1..Len(FixedLens)
    BY <1>1
  <2>2. \A S : \A q \in Seq(S) : \A k \in 1..Len(q) : q[k] \in S
    OBVIOUS
  <2>. QED  BY <1>0, <2>1, <2>2
<1>3. Lengths0(FixedLens) \in [0..(Len(FixedLens) - 1) -> 0..MaxLen]
  BY <1>2 DEF Lengths0
<1>4. EndBlock \in 0..(Len(FixedLens) - 1)
  BY <1>1, Widths
<1>5. Lengths0(FixedLens)[EndBlock] = FixedLens[EndBlock + 1]
  BY <1>4 DEF Lengths0
<1>6. Lengths0(FixedLens) \in CodeLens
  BY <1>1, <1>3 DEF CodeLens
<1>7. EndBlock \in Used(Lengths0(FixedLens))
  BY <1>3, <1>4, <1>5, FixedAssumption DEF Used
<1>8. Complete(Lengths0(FixedLens))
  BY FixedAssumption
<1>. QED  BY <1>5, <1>6, <1>7, <1>8, FixedAssumption

(* So are those that a header gives, and the end marker is among them.     *)
LEMMA ReadLensAre ==
  ASSUME bits \in [0..(MaxNumLit + MaxNumDist - 1) -> 0..MaxLen], ~fixed,
         nlit \in (EndBlock + 1)..MaxNumLit, ndist \in 0..MaxNumDist
  PROVE  /\ LitLens \in CodeLens /\ DistLens \in CodeLens
         /\ LitLens \in [0..(nlit - 1) -> 0..MaxLen] /\ DOMAIN DistLens = 0..(ndist - 1)
         /\ EndBlock \in 0..(nlit - 1) /\ LitLens[EndBlock] = bits[EndBlock]
<1>1. nlit \in Nat /\ ndist \in Nat
  BY Widths
<1>2. \A s \in 0..(nlit - 1) : s \in 0..(MaxNumLit + MaxNumDist - 1)
  BY Widths
<1>3. \A s \in 0..(ndist - 1) : nlit + s \in 0..(MaxNumLit + MaxNumDist - 1)
  BY Widths
<1>4. LitLens \in [0..(nlit - 1) -> 0..MaxLen]
  BY <1>2 DEF LitLens
<1>5. DistLens \in [0..(ndist - 1) -> 0..MaxLen]
  BY <1>3 DEF DistLens
<1>6. EndBlock \in 0..(nlit - 1)
  BY Widths
<1>7. LitLens[EndBlock] = bits[EndBlock]
  BY <1>6 DEF LitLens
<1>. QED  BY <1>1, <1>4, <1>5, <1>6, <1>7 DEF CodeLens

(* The code lengths that are in use are such.                              *)
LEMMA CodeLensAre ==
  ASSUME TypeOK, Counted
  PROVE  /\ codebits \in CodeLens
         /\ InBlock => LitLens \in CodeLens /\ (~fixed => DistLens \in CodeLens)
<1>1. codebits \in CodeLens
  BY Widths DEF TypeOK, CodeLens
<1>2. ASSUME InBlock, fixed PROVE LitLens \in CodeLens
  BY <1>2, FixedIs DEF LitLens
<1>3. ASSUME InBlock, ~fixed PROVE LitLens \in CodeLens /\ DistLens \in CodeLens
  <2>1. nlit \in (EndBlock + 1)..MaxNumLit /\ ndist \in 0..MaxNumDist
    BY <1>3 DEF Counted
  <2>. QED  BY <1>3, <2>1, ReadLensAre DEF TypeOK
<1>. QED  BY <1>1, <1>2, <1>3

---------------------------------------------------------------------------
(* What init leaves *)

(* A decoder with another min.                                             *)
WithMin(h, m) == [h EXCEPT !.min = m]

(* The other fields stay.                                                  *)
LEMMA WithMinIs ==
  ASSUME NEW lens, NEW m, NEW h, h = EmptyTable \/ h = Table(lens)
  PROVE  /\ WithMin(h, m).min = m /\ WithMin(h, m).max = h.max
         /\ WithMin(h, m).chunks = h.chunks /\ WithMin(h, m).links = h.links
         /\ h.min = m => WithMin(h, m) = h
<1>1. CASE h = EmptyTable
  BY <1>1 DEF WithMin, EmptyTable
<1>2. CASE h = Table(lens)
  BY <1>2 DEF WithMin, Table
<1>. QED  BY <1>1, <1>2

(* On a decoder that is clear init does not panic at a table, and leaves   *)
(* one for the code.                                                       *)
LEMMA Initializes ==
  ASSUME NEW lens \in CodeLens, NEW h, Clear(h)
  PROVE  /\ InitResult(h, lens) \in {"ok", "incomplete"}
         /\ Initialized(h, lens) = EmptyTable \/ Initialized(h, lens) = Table(lens)
         /\ Initialized(h, lens).min = Least(lens) /\ Clear(Initialized(h, lens))
         /\ InitResult(h, lens) = "ok" => Decodes(Initialized(h, lens), lens)
<1>0. MaxLen \in Nat
  BY Widths
<1>1. Reinit(h) = EmptyTable
  BY DEF Reinit, Clear
<1>2. EmptyTable.min = 0
  BY DEF EmptyTable
<1>3. CASE Used(lens) = {}
  <2>1. Initialized(h, lens) = EmptyTable /\ InitResult(h, lens) = "ok" /\ Least(lens) = 0
    BY <1>1, <1>3, LeastIs DEF Initialized, InitResult
  <2>2. Clear(EmptyTable)
    BY <1>0, <1>2 DEF Clear
  <2>3. Decodes(EmptyTable, lens)
    BY <1>3 DEF Decodes
  <2>. QED  BY <1>2, <2>1, <2>2, <2>3
<1>4. CASE Used(lens) # {}
  <2>1. Initialized(h, lens) = Table(lens) /\ Table(lens).min = Least(lens)
    BY <1>4 DEF Initialized, Table
  <2>2. Least(lens) \in 1..MaxLen
    BY <1>4, LeastIs
  <2>3. Clear(Table(lens))
    BY <1>0, <2>1, <2>2 DEF Clear
  <2>4. InitResult(h, lens) = IF Complete(lens) THEN "ok" ELSE "incomplete"
    BY <1>1, <1>4, Filled DEF InitResult
  <2>5. Complete(lens) => Decodes(Table(lens), lens)
    BY <1>4 DEF Decodes
  <2>. QED  BY <2>1, <2>3, <2>4, <2>5
<1>. QED  BY <1>3, <1>4

(* With the length of the end marker for a min, it is that of a code.      *)
LEMMA Bumps ==
  ASSUME NEW lens \in CodeLens, NEW h, h = EmptyTable \/ h = Table(lens), Clear(h),
         h.min = Least(lens), bits[EndBlock] \in 0..MaxLen
  PROVE  /\ Clear(WithMin(h, Bump(h))) /\ WithMin(h, Bump(h)).min = Bump(h)
         /\ Decodes(h, lens) => Decodes(WithMin(h, Bump(h)), lens)
         /\ EndBlock \in Used(lens) /\ lens[EndBlock] = bits[EndBlock] => Bump(h) = lens[EndBlock]
<1>. DEFINE m == Bump(h)
            w == WithMin(h, m)
<1>0. MaxLen \in Nat /\ h.min \in 0..MaxLen
  BY Widths DEF Clear
<1>1. m \in 0..MaxLen /\ (m = 0 => h.min = 0)
  BY <1>0 DEF Bump
<1>2. /\ w.min = m /\ w.max = h.max /\ w.chunks = h.chunks /\ w.links = h.links
      /\ h.min = m => w = h
  BY WithMinIs
<1>3. EndBlock \in Used(lens) /\ lens[EndBlock] = bits[EndBlock] => m = lens[EndBlock]
  <2>. SUFFICES ASSUME EndBlock \in Used(lens), lens[EndBlock] = bits[EndBlock]
                PROVE  m = lens[EndBlock]
    OBVIOUS
  <2>1. Least(lens) <= lens[EndBlock]
    BY LeastIs
  <2>. QED  BY <1>0, <2>1 DEF Bump
<1>. HIDE DEF w, m
<1>4. Clear(w)
  BY <1>1, <1>2 DEF Clear
<1>5. Decodes(h, lens) => Decodes(w, lens)
  BY <1>2 DEF Decodes
<1>. QED  BY <1>2, <1>3, <1>4, <1>5 DEF w, m

---------------------------------------------------------------------------
(* What the states hold *)

(* What is in a field of n bits.                                           *)
LEMMA FieldIs ==
  ASSUME b \in Seq(Bit), NEW m \in Nat, NEW n \in Nat, m + n <= Len(b)
  PROVE  Field(m, n) \in Nat /\ Field(m, n) < Power[n]
<1>1. m + 1 \in Nat /\ m + n \in Nat /\ m + 1 >= 1 /\ Len(b) \in Nat
  OBVIOUS
<1>. DEFINE s == SubSeq(b, m + 1, m + n)
<1>2. s \in Seq(Bit) /\ Len(s) = n
  <2>1. s \in Seq(Bit)
    BY <1>1
  <2>2. Len(s) = IF m + 1 <= m + n THEN (m + n) - (m + 1) + 1 ELSE 0
    BY <1>1
  <2>3. (IF m + 1 <= m + n THEN (m + n) - (m + 1) + 1 ELSE 0) = n
    OBVIOUS
  <2>. QED  BY <2>1, <2>2, <2>3
<1>. HIDE DEF s
<1>3. Number(s) \in Nat /\ Number(s) < Power[n]
  BY <1>2, NumberBound
<1>. QED  BY <1>3 DEF Field, s

(* What is left of b when bits are used up.                                *)
LEMMA Dropped ==
  ASSUME b \in Seq(Bit), NEW n \in Nat, n <= Len(b)
  PROVE  /\ SubSeq(b, n + 1, Len(b)) \in Seq(Bit)
         /\ Len(SubSeq(b, n + 1, Len(b))) = Len(b) - n
<1>1. n + 1 \in Nat /\ n + 1 >= 1 /\ Len(b) \in Nat
  OBVIOUS
<1>2. SubSeq(b, n + 1, Len(b)) \in Seq(Bit)
  BY <1>1
<1>3. Len(SubSeq(b, n + 1, Len(b))) = IF n + 1 <= Len(b) THEN Len(b) - (n + 1) + 1 ELSE 0
  BY <1>1
<1>4. (IF n + 1 <= Len(b) THEN Len(b) - (n + 1) + 1 ELSE 0) = Len(b) - n
  BY <1>1
<1>. QED  BY <1>2, <1>3, <1>4

(* The bits that are wanted are not too many.                              *)
LEMMA WantedIs ==
  ASSUME TypeOK, Follows
  PROVE  Wanted \in 0..Widest
<1>. USE Widths
<1>1. CASE SymbolWanted
  <2>1. need \in 0..Widest
    BY DEF TypeOK
  <2>2. Wanted = need
    BY <1>1 DEF Wanted, SymbolWanted
  <2>. QED  BY <2>1, <2>2
<1>2. CASE ~SymbolWanted /\ pc = "counts"
  BY <1>2 DEF Wanted
<1>3. CASE ~SymbolWanted /\ pc = "clens"
  BY <1>3 DEF Wanted
<1>4. CASE ~SymbolWanted /\ pc = "repeat"
  <2>1. Repeats[sym].bits \in 0..Widest
    BY <1>4, CodeOrderAssumption DEF Follows
  <2>. QED  BY <1>4, <2>1 DEF Wanted
<1>5. CASE ~SymbolWanted /\ pc = "extra"
  <2>1. RealSymbol[sym] \in Nat /\ ExtraBits(RealSymbol[sym]) <= Widest
    BY <1>5, SymbolAssumption DEF Follows
  <2>2. ExtraBits(RealSymbol[sym]) \in Nat
    BY <2>1 DEF ExtraBits
  <2>. QED  BY <1>5, <2>1, <2>2 DEF Wanted
<1>6. CASE ~SymbolWanted /\ pc = "distance"
  BY <1>6 DEF Wanted
<1>7. CASE ~SymbolWanted /\ pc = "distExtra"
  <2>1. RealDist[sym] \in Nat /\ DistExtraBits(RealDist[sym]) <= Widest
    BY <1>7, SymbolAssumption DEF Follows
  <2>2. DistExtraBits(RealDist[sym]) \in Nat
    BY <2>1 DEF DistExtraBits
  <2>. QED  BY <1>7, <2>1, <2>2 DEF Wanted
<1>8. CASE ~SymbolWanted /\ pc \notin {"counts", "clens", "repeat", "extra", "distance", "distExtra"}
  BY <1>8 DEF Wanted
<1>. QED  BY <1>1, <1>2, <1>3, <1>4, <1>5, <1>6, <1>7, <1>8

(* A symbol that is read has a code that the bits begin with, and those    *)
(* that are left are fewer than if no more than needed had been there.     *)
LEMMA SymbolRead ==
  ASSUME NEW at, NEW h, NEW lens \in CodeLens, Decodes(h, lens), b \in Seq(Bit),
         NEW n \in Nat, Symbol(at, h)
  PROVE  /\ sym' \in Used(lens) /\ sym' \in Nat /\ lens[sym'] \in 1..MaxLen
         /\ b' \in Seq(Bit) /\ Len(b') = Len(b) - lens[sym'] /\ lens[sym'] <= Len(b)
         /\ NotShorter(lens, n) => n <= lens[sym']
<1>1. Find(h) # NoChunk
  BY DEF Symbol, NoChunk
<1>2. Used(lens) # {} /\ Complete(lens)
  BY <1>1, FoundRead DEF Symbol
<1>3. PICK s \in Used(lens) : /\ Find(h) = Entry(lens, s) /\ lens[s] <= Len(b)
                             /\ IsPrefix(CodeOf(lens, s), b)
  BY <1>1, FoundRead DEF Symbol
<1>4. sym' = s /\ Find(h).n = lens[s] /\ s \in Nat /\ lens[s] \in 1..MaxLen /\ lens[s] \in Nat
  BY <1>3, UsedIs, Widths DEF Symbol, Entry
<1>5. b' = SubSeq(b, lens[s] + 1, Len(b))
  BY <1>4 DEF Symbol, Drop
<1>6. b' \in Seq(Bit) /\ Len(b') = Len(b) - lens[s]
  BY <1>3, <1>4, <1>5, Dropped
<1>7. Compatible(CodeOf(lens, s), b)
  <2>1. CodeOf(lens, s) \in Seq(Bit)
    BY <1>2, CompleteFits, CodeIs
  <2>. QED  BY <1>3, <2>1, PrefixBits DEF Compatible
<1>8. NotShorter(lens, n) => n <= lens[s]
  BY <1>4, <1>7 DEF NotShorter
<1>. QED  BY <1>3, <1>4, <1>6, <1>8

---------------------------------------------------------------------------
(* The steps *)

(* TypeOK says that b is such a string.                                    *)
LEMMA Held ==
  ASSUME TypeOK
  PROVE  b \in Seq(Bit) /\ Len(b) \in Nat /\ Len(b) <= Widest + ByteBits
<1>1. b \in Seq(Bit) /\ Len(b) <= Widest + ByteBits
  BY BitsType DEF TypeOK
<1>. QED  BY <1>1

(* And so it does of the next one.                                         *)
LEMMA HeldNext ==
  ASSUME b' \in Seq(Bit), Len(b') <= Widest + ByteBits
  PROVE  b' \in UNION {Strings(n) : n \in 0..(MaxLen + LitBits + DistBits + CLenBits + ByteBits)}
<1>1. MaxLen + LitBits + DistBits + CLenBits + ByteBits \in Nat
  BY Widths
<1>2. Widest + ByteBits = MaxLen + LitBits + DistBits + CLenBits + ByteBits
  BY DEF Widest
<1>. HIDE DEF Widest
<1>. QED  BY <1>1, <1>2, UpTo

(* The decoders and their codes are functions of these variables.          *)
LEMMA SameCodes ==
  ASSUME UNCHANGED <<fixed, nlit, ndist, bits, h1>>
  PROVE  LitLens' = LitLens /\ DistLens' = DistLens /\ Hl' = Hl
<1>1. LitLens' = LitLens
  BY DEF LitLens
<1>2. DistLens' = DistLens
  BY DEF DistLens
<1>. QED  BY <1>1, <1>2 DEF Hl

(* A byte more.                                                            *)
LEMMA MoreBitsStep ==
  ASSUME HInv, MoreBits
  PROVE  HInv'
<1>1. /\ pc' = pc /\ need' = need /\ nlit' = nlit /\ ndist' = ndist /\ nclen' = nclen /\ i' = i
      /\ codebits' = codebits /\ bits' = bits /\ tokens' = tokens /\ h1' = h1 /\ h2' = h2
      /\ fixed' = fixed /\ sym' = sym /\ err' = err
  BY DEF MoreBits, countVars, lengthVars, tableVars, matchVars
<1>2. LitLens' = LitLens /\ DistLens' = DistLens /\ Hl' = Hl
  BY <1>1, SameCodes
<1>3. Wanted' = Wanted
  BY <1>1 DEF Wanted, SymbolWanted
<1>4. b \in Seq(Bit) /\ Len(b) \in Nat
  BY Held DEF HInv
<1>5. b' \in Seq(Bit) /\ Len(b') = Len(b) + ByteBits /\ \A k \in 1..Len(b) : b'[k] = b[k]
  <2>1. PICK byte \in Strings(ByteBits) : b' = b \o byte
    BY DEF MoreBits
  <2>2. byte \in Seq(Bit) /\ Len(byte) = ByteBits
    BY Widths, StringIs
  <2>3. \A x, y \in Seq(Bit) : /\ x \o y \in Seq(Bit) /\ Len(x \o y) = Len(x) + Len(y)
                              /\ \A k \in 1..Len(x) : (x \o y)[k] = x[k]
    OBVIOUS
  <2>. QED  BY <1>4, <2>1, <2>2, <2>3
<1>6. Len(b) < Wanted /\ Wanted \in 0..Widest
  BY WantedIs DEF HInv, MoreBits
<1>7. TypeOK'
  <2>1. Len(b') <= Widest + ByteBits
    BY <1>4, <1>5, <1>6, Widths
  <2>. QED  BY <1>1, <1>5, <2>1, HeldNext DEF HInv, TypeOK
<1>8. Counted' /\ Cleared' /\ Gathered' /\ Decoders' /\ Follows' /\ NeverImpossible'
  BY <1>1, <1>2
  DEF HInv, Counted, Cleared, Gathered, Decoders, Follows, InHeaderCode, InBlock, NeverImpossible
<1>9. Awaited'
  <2>1. ASSUME NEW lens, NEW n, NotShorter(lens, n)
        PROVE  \A t \in Used(lens) : lens[t] < n => ~Compatible(CodeOf(lens, t), b')
    <3>1. ASSUME NEW c, Compatible(c, b') PROVE Compatible(c, b)
      <4>1. ASSUME NEW k \in 1..Len(c), k <= Len(b) PROVE c[k] = b[k]
        <5>1. k \in 1..Len(b) /\ k <= Len(b')
          BY <1>4, <1>5, <4>1, Widths
        <5>. QED  BY <1>5, <3>1, <5>1 DEF Compatible
      <4>. QED  BY <4>1 DEF Compatible
    <3>. QED  BY <2>1, <3>1 DEF NotShorter
  <2>. QED  BY <1>1, <1>2, <2>1 DEF HInv, Awaited, NotShorter
<1>10. Frugal'
  <2>1. Len(b') < Wanted' + ByteBits
    BY <1>3, <1>4, <1>5, <1>6, Widths
  <2>2. pc # "done"
    BY <1>4, <1>6 DEF Wanted, SymbolWanted
  <2>. QED  BY <1>1, <2>1, <2>2 DEF Frugal
<1>. QED  BY <1>7, <1>8, <1>9, <1>10 DEF HInv

(* The decoder stops, with an error or at the end of the block.            *)
LEMMA Stops ==
  ASSUME HInv, UNCHANGED <<codebits, bits, i, need, h1, h2, fixed>>,
         pc' \in Ended, pc' = "done" => Len(b') < ByteBits, pc' # "impossible",
         err' \in {"nil", "ErrUnexpectedEOF", "corrupt"}, (err' = "nil") = (pc' # "failed"),
         b' \in Seq(Bit), Len(b') <= Widest + ByteBits
  PROVE  HInv'
<1>1. TypeOK'
  BY HeldNext DEF HInv, TypeOK
<1>2. pc' \notin {"counts", "clens", "code", "repeat", "literal", "extra", "distance", "distExtra"}
  BY DEF Ended
<1>3. Counted' /\ Cleared' /\ Gathered' /\ Decoders' /\ Follows' /\ Awaited' /\ NeverImpossible'
  BY <1>2 DEF HInv, Counted, Cleared, Gathered, Decoders, Follows, Awaited, InHeaderCode, InBlock,
              NeverImpossible
<1>4. Frugal'
  BY <1>2 DEF Frugal, InHeaderCode, InBlock
<1>. QED  BY <1>1, <1>3, <1>4 DEF HInv

(* The input ends.                                                         *)
LEMMA InputEndsStep ==
  ASSUME HInv, InputEnds
  PROVE  HInv'
<1>1. UNCHANGED <<codebits, bits, i, need, h1, h2, fixed, b>>
  BY DEF InputEnds, Fails, lengthVars, tableVars
<1>2. pc' = "failed" /\ err' = "ErrUnexpectedEOF"
  BY DEF InputEnds, Fails
<1>3. b' \in Seq(Bit) /\ Len(b') <= Widest + ByteBits
  BY <1>1, Held DEF HInv
<1>4. pc' \in Ended /\ pc' # "done" /\ pc' # "impossible"
  BY <1>2 DEF Ended
<1>. QED  BY <1>1, <1>2, <1>3, <1>4, Stops

(* No symbol has the code that comes next.                                 *)
LEMMA NoSymbolStep ==
  ASSUME HInv, NEW at, NEW h, NoSymbol(at, h)
  PROVE  HInv'
<1>1. UNCHANGED <<codebits, bits, i, need, h1, h2, fixed, b>>
  BY DEF NoSymbol, Fails, lengthVars, tableVars
<1>2. pc' = "failed" /\ err' = "corrupt"
  BY DEF NoSymbol, Fails
<1>3. b' \in Seq(Bit) /\ Len(b') <= Widest + ByteBits
  BY <1>1, Held DEF HInv
<1>4. pc' \in Ended /\ pc' # "done" /\ pc' # "impossible"
  BY <1>2 DEF Ended
<1>. QED  BY <1>1, <1>2, <1>3, <1>4, Stops

(* The chunk says that there are more bits to the symbol.                  *)
LEMMA LookAgainStep ==
  ASSUME HInv, NEW at, NEW h, LookAgain(at, h),
         \/ at = "code" /\ h = h1 /\ i < nlit + ndist
         \/ at = "literal" /\ h = Hl
         \/ at = "distance" /\ h = h2 /\ ~fixed
  PROVE  HInv'
<1>1. /\ pc' = pc /\ nlit' = nlit /\ ndist' = ndist /\ nclen' = nclen /\ i' = i /\ b' = b
      /\ codebits' = codebits /\ bits' = bits /\ tokens' = tokens /\ h1' = h1 /\ h2' = h2
      /\ fixed' = fixed /\ sym' = sym /\ err' = err
  BY DEF LookAgain, countVars, lengthVars, tableVars, matchVars
<1>2. pc = at /\ need' = Find(h).n /\ NeedMore(h)
  BY DEF LookAgain, Ready, Need
<1>3. LitLens' = LitLens /\ DistLens' = DistLens /\ Hl' = Hl
  BY <1>1, SameCodes
<1>. DEFINE lens == IF at = "code" THEN codebits ELSE IF at = "literal" THEN LitLens ELSE DistLens
<1>4. b \in Seq(Bit) /\ Len(b) \in Nat
  BY Held DEF HInv
<1>5. lens \in CodeLens /\ Decodes(h, lens)
  BY <1>2, CodeLensAre DEF HInv, Decoders, InHeaderCode, InBlock
<1>. HIDE DEF lens
<1>6. need' \in 1..MaxLen /\ NotShorter(lens, need')
  <2>1. Find(h).n \in 1..MaxLen
    BY <1>2, <1>4, <1>5, FoundShort
  <2>2. NotShorter(lens, Find(h).n)
    BY <1>2, <1>4, <1>5, FoundShort DEF NotShorter
  <2>. QED  BY <1>2, <2>1, <2>2
<1>7. TypeOK'
  <2>1. need' \in 0..MaxLen
    BY <1>6, Widths
  <2>. QED  BY <1>1, <2>1 DEF HInv, TypeOK
<1>8. Counted' /\ Cleared' /\ Gathered' /\ Decoders' /\ Follows' /\ NeverImpossible'
  BY <1>1, <1>3
  DEF HInv, Counted, Cleared, Gathered, Decoders, Follows, InHeaderCode, InBlock, NeverImpossible
<1>9. Awaited'
  <2>1. \A t \in Used(lens) : lens[t] < need' => ~Compatible(CodeOf(lens, t), b')
    BY <1>1, <1>6 DEF NotShorter
  <2>. QED  BY <1>1, <1>2, <1>3, <2>1 DEF Awaited, NotShorter, lens
<1>10. Frugal'
  <2>1. SymbolWanted'
    BY <1>1, <1>2 DEF SymbolWanted
  <2>2. Wanted' = need'
    BY <2>1 DEF Wanted, SymbolWanted
  <2>3. Len(b) < need'
    BY <1>2 DEF NeedMore
  <2>4. Len(b') < Wanted' + ByteBits
    BY <1>1, <1>4, <1>6, <2>2, <2>3, Widths
  <2>. QED  BY <1>1, <1>2, <2>4 DEF Frugal
<1>. QED  BY <1>7, <1>8, <1>9, <1>10 DEF HInv

---------------------------------------------------------------------------
(* The steps of the header *)

(* After the bits that are wanted are used, fewer than a byte are left.    *)
LEMMA LittleLeft ==
  ASSUME HInv, ~InBlock, pc \in {"counts", "clens"} \/ InHeaderCode, Len(b) >= Wanted,
         b' = SubSeq(b, Wanted + 1, Len(b))
  PROVE  b' \in Seq(Bit) /\ Len(b') \in Nat /\ Len(b') < ByteBits /\ Len(b') <= Widest + ByteBits
<1>1. b \in Seq(Bit) /\ Len(b) \in Nat
  BY Held DEF HInv
<1>2. Wanted \in Nat
  BY WantedIs, Widths DEF HInv
<1>3. b' \in Seq(Bit) /\ Len(b') = Len(b) - Wanted
  BY <1>1, <1>2, Dropped
<1>4. Len(b) < Wanted + ByteBits
  BY <1>1, <1>2, Widths DEF HInv, Frugal
<1>. QED  BY <1>1, <1>2, <1>3, <1>4, Widths

(* The three counts.                                                       *)
LEMMA CountsStep ==
  ASSUME HInv, Counts
  PROVE  HInv'
<1>1. pc = "counts" /\ Wanted = LitBits + DistBits + CLenBits /\ Len(b) >= Wanted
  BY DEF Counts, Ready, Wanted, SymbolWanted
<1>2. /\ need' = need /\ i' = i /\ codebits' = codebits /\ bits' = bits /\ tokens' = tokens
      /\ h1' = h1 /\ h2' = h2 /\ fixed' = fixed /\ b' = SubSeq(b, Wanted + 1, Len(b))
  BY <1>1 DEF Counts, lengthVars, tableVars, Drop
<1>3. b' \in Seq(Bit) /\ Len(b') \in Nat /\ Len(b') < ByteBits /\ Len(b') <= Widest + ByteBits
  BY <1>1, <1>2, LittleLeft DEF InBlock
<1>4. CASE nlit' > MaxNumLit \/ ndist' > MaxNumDist
  <2>1. pc' = "failed" /\ err' = "corrupt"
    BY <1>4 DEF Counts
  <2>2. pc' \in Ended /\ pc' # "done" /\ pc' # "impossible"
    BY <2>1 DEF Ended
  <2>. QED  BY <1>2, <1>3, <2>1, <2>2, Stops
<1>5. CASE ~(nlit' > MaxNumLit \/ ndist' > MaxNumDist)
  <2>1. pc' = "clens" /\ err' = err
    BY <1>5 DEF Counts
  <2>2. b \in Seq(Bit) /\ Len(b) \in Nat
    BY Held DEF HInv
  <2>3. /\ Field(0, LitBits) \in Nat /\ Field(LitBits, DistBits) \in Nat
        /\ Field(LitBits + DistBits, CLenBits) \in Nat
        /\ Field(LitBits + DistBits, CLenBits) < Power[CLenBits]
    <3>1. 0 + LitBits <= Len(b) /\ LitBits + DistBits <= Len(b) /\ (LitBits + DistBits) + CLenBits <= Len(b)
          /\ LitBits + DistBits \in Nat
      BY <1>1, <2>2, Widths
    <3>. QED  BY <2>2, <3>1, Widths, FieldIs
  <2>4. nlit' \in (EndBlock + 1)..MaxNumLit
    <3>1. nlit' = Field(0, LitBits) + EndBlock + 1
      BY DEF Counts
    <3>. QED  BY <1>5, <2>3, <3>1, Widths
  <2>5. ndist' \in 0..MaxNumDist
    <3>1. ndist' = Field(LitBits, DistBits) + 1
      BY DEF Counts
    <3>. QED  BY <1>5, <2>3, <3>1, Widths
  <2>6. nclen' \in 0..Len(CodeOrder)
    <3>1. nclen' = Field(LitBits + DistBits, CLenBits) + CLenBase
      BY DEF Counts
    <3>2. CLenBase + Power[CLenBits] - 1 <= Len(CodeOrder) /\ Power[CLenBits] \in Nat
      BY CodeOrderAssumption, Widths, PowerEquations
    <3>. QED  BY <2>3, <3>1, <3>2, Widths
  <2>7. TypeOK'
    BY <1>1, <1>2, <1>3, <2>1, HeldNext DEF HInv, TypeOK
  <2>8. Counted'
    BY <1>1, <1>2, <2>4, <2>5, <2>6 DEF HInv, Counted, InBlock, Ended
  <2>9. Cleared' /\ Decoders' /\ Follows' /\ Awaited' /\ NeverImpossible'
    BY <1>2, <2>1
    DEF HInv, Cleared, Decoders, Follows, Awaited, InHeaderCode, InBlock, NeverImpossible
  <2>10. Gathered'
    <3>1. i' = 0 /\ tokens' = <<>>
      BY <1>1, <1>2 DEF HInv, Gathered
    <3>2. <<>> \in Seq(Nat) /\ Len(<<>>) = 0
      OBVIOUS
    <3>3. 0 \in 0..nclen'
      BY <2>6, Widths
    <3>4. \A k \in 1..0 : FALSE
      OBVIOUS
    <3>. QED  BY <2>1, <3>1, <3>2, <3>3, <3>4 DEF Gathered, InHeaderCode
  <2>11. Frugal'
    BY <1>3, <2>1 DEF Frugal
  <2>. QED  BY <2>7, <2>8, <2>9, <2>10, <2>11 DEF HInv
<1>. QED  BY <1>4, <1>5

(* The places of the code lengths are all different.                       *)
LEMMA CodeOrderIs ==
  /\ \A k \in 1..Len(CodeOrder) : CodeOrder[k] \in 0..(Len(CodeOrder) - 1)
  /\ \A j, k \in 1..Len(CodeOrder) : CodeOrder[j] = CodeOrder[k] => j = k
  /\ \A s \in 0..(Len(CodeOrder) - 1) : s \in 0..MaxLen \cup DOMAIN Repeats
<1>1. CodeOrder \in Seq(Nat) /\ DOMAIN CodeOrder = 1..Len(CodeOrder)
  BY CodeOrderAssumption
<1>2. ToSet(CodeOrder) = 0..(Len(CodeOrder) - 1) /\ ToSet(CodeOrder) \subseteq 0..MaxLen \cup DOMAIN Repeats
  BY CodeOrderAssumption
<1>3. \A k \in 1..Len(CodeOrder) : CodeOrder[k] \in ToSet(CodeOrder)
  BY <1>1 DEF ToSet
<1>4. \A j, k \in 1..Len(CodeOrder) : CodeOrder[j] = CodeOrder[k] => j = k
  BY <1>1, CodeOrderAssumption
<1>. QED  BY <1>2, <1>3, <1>4

(* One of the code lengths of the code length code.                        *)
LEMMA CodeLengthStep ==
  ASSUME HInv, CodeLength
  PROVE  HInv'
<1>1. pc = "clens" /\ i < nclen /\ Wanted = LengthBits /\ Len(b) >= Wanted
  BY DEF CodeLength, Ready, Wanted, SymbolWanted
<1>2. /\ pc' = pc /\ need' = need /\ bits' = bits /\ nlit' = nlit /\ ndist' = ndist /\ nclen' = nclen
      /\ h1' = h1 /\ h2' = h2 /\ fixed' = fixed /\ err' = err /\ b' = SubSeq(b, Wanted + 1, Len(b))
  BY <1>1 DEF CodeLength, countVars, tableVars, Drop
<1>3. b' \in Seq(Bit) /\ Len(b') \in Nat /\ Len(b') < ByteBits /\ Len(b') <= Widest + ByteBits
  BY <1>1, <1>2, LittleLeft DEF InBlock
<1>4. ~fixed /\ nclen \in 0..Len(CodeOrder) /\ i \in 0..nclen
  BY <1>1 DEF HInv, Counted, Gathered, InBlock, Ended
<1>. DEFINE v == Field(0, LengthBits)
            o == CodeOrder[i + 1]
<1>5. v \in 0..MaxLen
  <2>1. b \in Seq(Bit) /\ Len(b) \in Nat
    BY Held DEF HInv
  <2>2. 0 + LengthBits <= Len(b) /\ 0 \in Nat
    BY <1>1, <2>1, Widths
  <2>3. v \in Nat /\ v < Power[LengthBits]
    BY <2>1, <2>2, Widths, FieldIs
  <2>4. Power[LengthBits] - 1 <= MaxLen /\ Power[LengthBits] \in Nat
    BY Widths, WidthAssumption, PowerEquations
  <2>. QED  BY <2>3, <2>4, Widths
<1>6. i' = i + 1 /\ tokens' = Append(tokens, v) /\ codebits' = [codebits EXCEPT ![o] = v]
  BY DEF CodeLength
<1>7. i + 1 \in 1..Len(CodeOrder) /\ i + 1 \in 0..nclen /\ i + 1 \in 0..(MaxNumLit + MaxNumDist)
  BY <1>1, <1>4, Widths
<1>. HIDE DEF v, o
<1>8. codebits \in [0..(Len(CodeOrder) - 1) -> 0..MaxLen] /\ o \in 0..(Len(CodeOrder) - 1)
  BY <1>7, CodeOrderIs DEF HInv, TypeOK, o
<1>9. codebits' \in [0..(Len(CodeOrder) - 1) -> 0..MaxLen]
  BY <1>5, <1>6, <1>8
<1>10. TypeOK'
  BY <1>2, <1>3, <1>6, <1>7, <1>9, HeldNext DEF HInv, TypeOK
<1>11. Counted' /\ Cleared' /\ NeverImpossible'
  BY <1>2 DEF HInv, Counted, Cleared, InHeaderCode, InBlock, NeverImpossible
<1>12. Decoders' /\ Follows' /\ Awaited'
  BY <1>1, <1>2 DEF Decoders, Follows, Awaited, InHeaderCode, InBlock
<1>13. Gathered'
  <2>1. tokens \in Seq(Nat) /\ Len(tokens) = i /\ \A k \in 1..i : codebits[CodeOrder[k]] = tokens[k]
    BY <1>1 DEF HInv, Gathered
  <2>2. tokens' \in Seq(Nat) /\ Len(tokens') = i + 1 /\ tokens'[i + 1] = v
        /\ \A k \in 1..i : tokens'[k] = tokens[k]
    <3>1. v \in Nat
      BY <1>5
    <3>. QED  BY <1>6, <2>1, <3>1
  <2>3. ASSUME NEW k \in 1..(i + 1) PROVE codebits'[CodeOrder[k]] = tokens'[k]
    <3>1. k \in 1..Len(CodeOrder)
      BY <1>4, <1>7, Widths
    <3>2. CodeOrder[k] \in 0..(Len(CodeOrder) - 1) /\ (CodeOrder[k] = o => k = i + 1)
      BY <1>7, <3>1, CodeOrderIs DEF o
    <3>3. CASE k = i + 1
      BY <1>6, <1>8, <2>2, <3>3 DEF o
    <3>4. CASE k # i + 1
      <4>1. k \in 1..i
        BY <1>4, <3>4
      <4>2. codebits'[CodeOrder[k]] = codebits[CodeOrder[k]]
        BY <1>6, <1>8, <3>2, <3>4
      <4>. QED  BY <2>1, <2>2, <4>1, <4>2
    <3>. QED  BY <3>3, <3>4
  <2>. QED  BY <1>1, <1>2, <1>6, <1>7, <2>2, <2>3 DEF Gathered, InHeaderCode
<1>14. Frugal'
  BY <1>1, <1>2, <1>3 DEF Frugal
<1>. QED  BY <1>10, <1>11, <1>12, <1>13, <1>14 DEF HInv

(* The code lengths that a header gives are complete: a decoder for them.  *)
LEMMA CodeLengthsReadStep ==
  ASSUME HInv, CodeLengthsRead
  PROVE  HInv'
<1>1. pc = "clens" /\ i = nclen /\ codebits' = Absent /\ i' = 0 /\ tokens' = <<>>
  BY DEF CodeLengthsRead
<1>2. /\ bits' = bits /\ nlit' = nlit /\ ndist' = ndist /\ nclen' = nclen
      /\ h2' = h2 /\ fixed' = fixed /\ err' = err /\ b' = b
  BY DEF CodeLengthsRead, countVars
<1>3. b \in Seq(Bit) /\ Len(b) \in Nat /\ Len(b) <= Widest + ByteBits
  BY Held DEF HInv
<1>4. Len(b) < ByteBits
  <2>1. Wanted = 0
    BY <1>1 DEF Wanted, SymbolWanted, HInv, Gathered, Counted
  <2>. QED  BY <1>1, <1>3, <2>1, Widths DEF HInv, Frugal, InBlock
<1>5. ~fixed /\ nclen \in 0..Len(CodeOrder)
  BY <1>1 DEF HInv, Counted, InBlock, Ended
<1>6. codebits' \in [0..(Len(CodeOrder) - 1) -> 0..MaxLen]
  <2>1. codebits \in [0..(Len(CodeOrder) - 1) -> 0..MaxLen]
    BY DEF HInv, TypeOK
  <2>2. 0 \in 0..MaxLen
    BY Widths
  <2>. QED  BY <1>1, <2>1, <2>2 DEF Absent
<1>7. \A k \in (nclen + 1)..Len(CodeOrder) : codebits'[CodeOrder[k]] = 0
  <2>. TAKE k \in (nclen + 1)..Len(CodeOrder)
  <2>1. k \in 1..Len(CodeOrder)
    BY <1>5, Widths
  <2>2. CodeOrder[k] \in DOMAIN codebits
    BY <2>1, CodeOrderIs DEF HInv, TypeOK
  <2>. QED  BY <1>1, <2>2 DEF Absent
<1>8. codebits' \in CodeLens
  BY <1>6, Widths DEF CodeLens
<1>. DEFINE end == InitResult(h1, codebits')
            h == Initialized(h1, codebits')
<1>9. /\ end \in {"ok", "incomplete"} /\ Clear(h) /\ h.min = Least(codebits')
      /\ end = "ok" => Decodes(h, codebits')
  BY <1>8, Initializes DEF HInv, Cleared
<1>10. IF end = "ok" THEN pc' = "code" /\ h1' = h /\ need' = h.min ELSE pc' = end /\ h1' = h1 /\ need' = need
  BY DEF CodeLengthsRead
<1>. HIDE DEF end, h
<1>11. need' \in 0..MaxLen
  BY <1>9, <1>10 DEF Clear, HInv, TypeOK
<1>12. TypeOK'
  <2>1. 0 \in 0..(MaxNumLit + MaxNumDist)
    BY Widths
  <2>2. pc' \in {"code", "incomplete"} /\ pc # "failed" /\ err = "nil"
    BY <1>1, <1>9, <1>10 DEF HInv, TypeOK
  <2>. QED  BY <1>1, <1>2, <1>6, <1>11, <2>1, <2>2 DEF HInv, TypeOK, Ended
<1>13. Cleared'
  BY <1>2, <1>9, <1>10 DEF HInv, Cleared
<1>14. CASE end = "ok"
  <2>1. pc' = "code" /\ h1' = h /\ need' = h.min
    BY <1>10, <1>14
  <2>2. Counted'
    BY <1>1, <1>2, <1>5 DEF HInv, Counted, InHeaderCode, InBlock
  <2>3. Decoders'
    BY <1>9, <1>14, <2>1 DEF Decoders, InHeaderCode, InBlock
  <2>4. Follows' /\ NeverImpossible' /\ Frugal'
    BY <1>2, <1>4, <2>1 DEF Follows, NeverImpossible, Frugal
  <2>5. Awaited'
    <3>1. \A t \in Used(codebits') : Least(codebits') <= codebits'[t] /\ codebits'[t] \in 1..MaxLen
          /\ Least(codebits') \in Nat
      BY <1>8, LeastIs, UsedIs, Widths
    <3>2. \A t \in Used(codebits') : ~(codebits'[t] < need')
      BY <1>9, <2>1, <3>1
    <3>. QED  BY <2>1, <3>2 DEF Awaited, NotShorter
  <2>6. Gathered'
    <3>1. [k \in 1..0 |-> bits'[k - 1]] = <<>>
      OBVIOUS
    <3>2. [k \in 1..i' |-> bits'[k - 1]] = Expanded(tokens')
      BY <1>1, <3>1, ExpandedNone
    <3>3. <<>> \in Seq(Nat \X Nat) /\ 0 \in 0..(nlit' + ndist')
      <4>1. nlit \in Nat /\ ndist \in Nat
        BY <1>1, <1>5, Widths DEF HInv, Counted
      <4>. QED  BY <1>2, <4>1
    <3>. QED  BY <1>1, <1>2, <1>7, <2>1, <3>2, <3>3 DEF Gathered, InHeaderCode
  <2>. QED  BY <1>12, <1>13, <2>2, <2>3, <2>4, <2>5, <2>6 DEF HInv
<1>15. CASE end # "ok"
  <2>1. pc' = "incomplete"
    BY <1>9, <1>10, <1>15
  <2>2. Counted' /\ Gathered' /\ Decoders' /\ Follows' /\ Awaited' /\ Frugal' /\ NeverImpossible'
    BY <1>2, <1>5, <2>1
    DEF HInv, Counted, Gathered, Decoders, Follows, Awaited, Frugal, InHeaderCode, InBlock, NeverImpossible,
        Ended
  <2>. QED  BY <1>12, <1>13, <2>2 DEF HInv
<1>. QED  BY <1>14, <1>15

(* The code lengths gathered, as a list, and how n more of them extend it. *)
LEMMA Extended ==
  ASSUME TypeOK, NEW E \in Seq(Entries), [k \in 1..i |-> bits[k - 1]] = E,
         NEW x \in 0..MaxLen, NEW n \in Nat, i + n <= MaxNumLit + MaxNumDist, Lengths(x, n)
  PROVE  /\ Len(E) = i /\ (i > 0 => Last(E) = bits[i - 1])
         /\ bits' \in [0..(MaxNumLit + MaxNumDist - 1) -> 0..MaxLen]
         /\ i' = i + n /\ i' \in 0..(MaxNumLit + MaxNumDist)
         /\ [k \in 1..i' |-> bits'[k - 1]] = E \o [k \in 1..n |-> x]
<1>. DEFINE N == MaxNumLit + MaxNumDist
            F == [k \in 1..n |-> x]
            G == [k \in 1..(i + n) |-> bits'[k - 1]]
<1>0. i \in Nat /\ N \in Nat /\ MaxLen \in Nat /\ i <= N
  BY Widths DEF TypeOK
<1>1. bits \in [0..(N - 1) -> 0..MaxLen]
  <2>1. bits \in [0..(MaxNumLit + MaxNumDist - 1) -> 0..MaxLen]
    BY DEF TypeOK
  <2>2. MaxNumLit + MaxNumDist - 1 = N - 1
    BY Widths
  <2>. HIDE DEF N
  <2>. QED  BY <2>1, <2>2
<1>2. i' = i + n /\ bits' = [k \in 0..(N - 1) |-> IF k \in i..(i + n - 1) THEN x ELSE bits[k]]
  BY <1>1 DEF Lengths
<1>3. bits' \in [0..(N - 1) -> 0..MaxLen]
  BY <1>1, <1>2
<1>. HIDE DEF N
<1>4. Len(E) = i
  <2>1. DOMAIN E = 1..i /\ DOMAIN E = 1..Len(E) /\ Len(E) \in Nat
    OBVIOUS
  <2>. QED  BY <1>0, <2>1
<1>5. \A k \in 1..i : E[k] = bits[k - 1]
  OBVIOUS
<1>6. F \in Seq(Entries) /\ Len(F) = n /\ \A k \in 1..n : F[k] = x
  <2>1. x \in Entries
    BY DEF Entries
  <2>2. F \in [1..n -> Entries] /\ \A k \in 1..n : F[k] = x
    BY <2>1
  <2>. HIDE DEF F
  <2>. QED  BY <2>2
<1>. HIDE DEF F
<1>7. \A k \in 1..(i + n) : bits'[k - 1] \in Nat /\ bits'[k - 1] = IF k <= i THEN E[k] ELSE x
  <2>. TAKE k \in 1..(i + n)
  <2>1. k - 1 \in 0..(N - 1) /\ (k - 1 \in i..(i + n - 1) <=> ~(k <= i)) /\ (k <= i => k \in 1..i)
    BY <1>0 DEF N
  <2>2. bits'[k - 1] \in 0..MaxLen
    BY <1>3, <2>1
  <2>. QED  BY <1>2, <1>5, <2>1, <2>2
<1>8. G \in Seq(Entries) /\ Len(G) = i + n /\ \A k \in 1..(i + n) : G[k] = IF k <= i THEN E[k] ELSE x
  <2>1. G \in [1..(i + n) -> Entries] /\ \A k \in 1..(i + n) : G[k] = bits'[k - 1]
    BY <1>7 DEF Entries
  <2>. HIDE DEF G
  <2>2. PICK m \in Nat : m = i + n
    BY <1>0
  <2>3. \A S : \A f \in [1..m -> S] : f \in Seq(S) /\ Len(f) = m
    BY <2>2
  <2>4. G \in Seq(Entries) /\ Len(G) = i + n
    BY <2>1, <2>2, <2>3
  <2>. QED  BY <1>7, <2>1, <2>4
<1>. HIDE DEF G
<1>9. E \o F \in Seq(Entries) /\ Len(E \o F) = i + n
  <2>1. E \o F \in Seq(Entries) /\ Len(E \o F) = Len(E) + Len(F)
    BY <1>6
  <2>. QED  BY <1>4, <1>6, <2>1
<1>10. \A k \in 1..(i + n) : (E \o F)[k] = IF k <= i THEN E[k] ELSE x
  <2>. TAKE k \in 1..(i + n)
  <2>1. CASE k <= i
    <3>1. k \in 1..Len(E)
      BY <1>0, <1>4, <2>1
    <3>2. (E \o F)[k] = E[k]
      BY <1>6, <3>1
    <3>. QED  BY <2>1, <3>2
  <2>2. CASE ~(k <= i)
    <3>1. PICK j \in 1..n : k = i + j
      <4>1. k - i \in 1..n /\ k = i + (k - i)
        BY <1>0, <2>2
      <4>. QED  BY <4>1
    <3>2. (E \o F)[Len(E) + j] = F[j]
      BY <1>6
    <3>. QED  BY <1>4, <1>6, <2>2, <3>1, <3>2
  <2>. QED  BY <2>1, <2>2
<1>11. G = E \o F
  <2>1. \A p, q \in Seq(Entries) : Len(p) = Len(q) /\ (\A k \in 1..Len(p) : p[k] = q[k]) => p = q
    OBVIOUS
  <2>. QED  BY <1>8, <1>9, <1>10, <2>1
<1>12. i > 0 => Last(E) = bits[i - 1]
  <2>. SUFFICES ASSUME i > 0 PROVE Last(E) = bits[i - 1]
    OBVIOUS
  <2>1. i \in 1..i
    BY <1>0
  <2>. QED  BY <1>4, <1>5, <2>1 DEF Last
<1>13. i + n \in 0..(MaxNumLit + MaxNumDist)
  BY <1>0 DEF N
<1>14. [k \in 1..i' |-> bits'[k - 1]] = E \o [k \in 1..n |-> x]
  BY <1>2, <1>11 DEF G, F
<1>15. bits' \in [0..(MaxNumLit + MaxNumDist - 1) -> 0..MaxLen]
  <2>1. MaxNumLit + MaxNumDist - 1 = N - 1
    BY Widths DEF N
  <2>. QED  BY <1>3, <2>1
<1>. QED  BY <1>2, <1>4, <1>12, <1>13, <1>14, <1>15

(* No code is shorter than the least.                                      *)
LEMMA NoneShorter ==
  ASSUME NEW lens \in CodeLens
  PROVE  \A t \in Used(lens) : ~(lens[t] < Least(lens))
<1>1. \A t \in Used(lens) : Least(lens) <= lens[t] /\ lens[t] \in 1..MaxLen
  BY LeastIs, UsedIs
<1>2. MaxLen \in Nat /\ (Used(lens) # {} => Least(lens) \in 1..MaxLen)
  BY LeastIs, Widths
<1>. QED  BY <1>1, <1>2

(* A code length, or the symbol of a repeat.                               *)
LEMMA ActualLengthStep ==
  ASSUME HInv, ActualLength
  PROVE  HInv'
<1>1. pc = "code" /\ i < nlit + ndist /\ Symbol("code", h1)
  BY DEF ActualLength, Symbol, Ready
<1>2. /\ nlit' = nlit /\ ndist' = ndist /\ nclen' = nclen /\ codebits' = codebits
      /\ h1' = h1 /\ h2' = h2 /\ fixed' = fixed
  BY DEF ActualLength, countVars, tableVars
<1>3. b \in Seq(Bit) /\ Len(b) \in Nat /\ Len(b) <= Widest + ByteBits
  BY Held DEF HInv
<1>4. codebits \in CodeLens /\ Decodes(h1, codebits) /\ h1.min = Least(codebits)
  BY <1>1, CodeLensAre DEF HInv, Decoders, InHeaderCode
<1>5. need \in 0..MaxLen /\ need \in Nat /\ NotShorter(codebits, need)
  BY <1>1, Widths DEF HInv, TypeOK, Awaited
<1>6. /\ sym' \in Used(codebits) /\ sym' \in Nat /\ codebits[sym'] \in 1..MaxLen
      /\ b' \in Seq(Bit) /\ Len(b') = Len(b) - codebits[sym'] /\ codebits[sym'] <= Len(b)
      /\ need <= codebits[sym']
  BY <1>1, <1>3, <1>4, <1>5, SymbolRead
<1>7. Len(b') < ByteBits /\ Len(b') <= Widest + ByteBits
  <2>1. Wanted = need
    BY <1>1 DEF Wanted, SymbolWanted
  <2>2. Len(b) < ByteBits \/ Len(b) < need + ByteBits
    BY <1>1, <2>1 DEF HInv, Frugal, InHeaderCode, InBlock
  <2>. QED  BY <1>3, <1>5, <1>6, <2>2, Widths
<1>8. ~fixed /\ nlit \in Nat /\ ndist \in Nat /\ nlit <= MaxNumLit /\ ndist <= MaxNumDist
  BY <1>1, Widths DEF HInv, Counted, InHeaderCode, InBlock, Ended
<1>10. CASE sym' \in DOMAIN Repeats /\ Repeats[sym'].copy /\ i = 0
  <2>1. pc' = "failed" /\ err' = "corrupt" /\ bits' = bits /\ i' = i /\ need' = need
    BY <1>10 DEF ActualLength
  <2>2. pc' \in Ended /\ pc' # "done" /\ pc' # "impossible"
    BY <2>1 DEF Ended
  <2>. QED  BY <1>2, <1>6, <1>7, <2>1, <2>2, Stops
<1>11. CASE sym' \in DOMAIN Repeats /\ ~(Repeats[sym'].copy /\ i = 0)
  <2>1. pc' = "repeat" /\ bits' = bits /\ i' = i /\ need' = need /\ err' = err /\ tokens' = tokens
    BY <1>11 DEF ActualLength
  <2>2. TypeOK'
    BY <1>1, <1>2, <1>6, <1>7, <2>1, HeldNext DEF HInv, TypeOK
  <2>3. Counted' /\ Cleared' /\ Decoders' /\ Awaited' /\ NeverImpossible'
    BY <1>1, <1>2, <1>8, <2>1
    DEF HInv, Counted, Cleared, Decoders, Awaited, InHeaderCode, InBlock, NeverImpossible
  <2>4. Follows'
    <3>1. i \in Nat
      BY Widths DEF HInv, TypeOK
    <3>2. sym' \in Nat /\ sym' \in DOMAIN Repeats /\ (Repeats[sym'].copy => i' > 0)
      BY <1>6, <1>11, <2>1, <3>1
    <3>. QED  BY <2>1, <3>2 DEF Follows
  <2>5. Frugal'
    BY <1>7, <2>1 DEF Frugal
  <2>6. Gathered'
    <3>1. InHeaderCode /\ InHeaderCode' /\ pc' \notin {"counts", "clens"}
      BY <1>1, <2>1 DEF InHeaderCode
    <3>. QED  BY <1>2, <2>1, <3>1 DEF HInv, Gathered
  <2>. QED  BY <2>2, <2>3, <2>4, <2>5, <2>6 DEF HInv
<1>12. CASE sym' \notin DOMAIN Repeats
  <2>. DEFINE t == <<sym', 0>>
  <2>1. /\ pc' = pc /\ err' = err /\ Lengths(sym', 1) /\ tokens' = Append(tokens, t)
        /\ need' = h1.min
    BY <1>12 DEF ActualLength
  <2>2. sym' \in 0..MaxLen
    <3>1. sym' \in DOMAIN codebits
      BY <1>4, <1>6, UsedIs
    <3>2. sym' \in 0..(Len(CodeOrder) - 1)
      BY <3>1 DEF HInv, TypeOK
    <3>. QED  BY <1>12, <3>2, CodeOrderIs
  <2>3. /\ i \in 0..(nlit + ndist) /\ tokens \in Seq(Nat \X Nat)
        /\ \A k \in (nclen + 1)..Len(CodeOrder) : codebits[CodeOrder[k]] = 0
        /\ [k \in 1..i |-> bits[k - 1]] = Expanded(tokens)
    BY <1>1 DEF HInv, Gathered, InHeaderCode
  <2>4. t \in Nat \X Nat /\ t[1] = sym'
    BY <1>6
  <2>. HIDE DEF t
  <2>5. /\ Expanded(tokens) \in Seq(Entries)
        /\ Expanded(tokens') = Expanded(tokens) \o Lasting(Expanded(tokens), t)
    BY <2>1, <2>3, <2>4, ExpandedStep
  <2>6. Lasting(Expanded(tokens), t) = [k \in 1..1 |-> sym']
    <3>1. Lasting(Expanded(tokens), t) = <<sym'>>
      BY <1>12, <2>4 DEF Lasting
    <3>2. \A x : <<x>> = [k \in 1..1 |-> x]
      OBVIOUS
    <3>. QED  BY <3>1, <3>2
  <2>7. i + 1 <= MaxNumLit + MaxNumDist
    BY <1>1, <1>8, <2>3, Widths
  <2>8. /\ bits' \in [0..(MaxNumLit + MaxNumDist - 1) -> 0..MaxLen]
        /\ i' = i + 1 /\ i' \in 0..(MaxNumLit + MaxNumDist)
        /\ [k \in 1..i' |-> bits'[k - 1]] = Expanded(tokens) \o [k \in 1..1 |-> sym']
    <3>1. TypeOK
      BY DEF HInv
    <3>2. 1 \in Nat
      OBVIOUS
    <3>. QED  BY <2>1, <2>2, <2>3, <2>5, <2>7, <3>1, <3>2, Extended
  <2>9. TypeOK'
    <3>1. need' \in 0..MaxLen
      BY <2>1 DEF HInv, Cleared, Clear
    <3>. QED  BY <1>2, <1>6, <1>7, <2>1, <2>8, <3>1, HeldNext DEF HInv, TypeOK
  <2>10. Counted' /\ Cleared' /\ Follows' /\ Decoders' /\ NeverImpossible'
    BY <1>1, <1>2, <2>1
    DEF HInv, Counted, Cleared, Follows, Decoders, InHeaderCode, InBlock, NeverImpossible
  <2>11. Gathered'
    <3>1. tokens' \in Seq(Nat \X Nat)
      BY <2>1, <2>3, <2>4
    <3>2. i' \in 0..(nlit' + ndist')
      BY <1>1, <1>2, <1>8, <2>3, <2>8
    <3>3. [k \in 1..i' |-> bits'[k - 1]] = Expanded(tokens')
      BY <2>5, <2>6, <2>8
    <3>. QED  BY <1>1, <1>2, <2>1, <2>3, <3>1, <3>2, <3>3 DEF Gathered, InHeaderCode
  <2>12. Awaited'
    <3>1. \A u \in Used(codebits') : ~(codebits'[u] < need')
      BY <1>2, <1>4, <2>1, NoneShorter
    <3>. QED  BY <1>1, <2>1, <3>1 DEF Awaited, NotShorter
  <2>13. Frugal'
    BY <1>1, <1>7, <2>1 DEF Frugal
  <2>. QED  BY <2>9, <2>10, <2>11, <2>12, <2>13 DEF HInv
<1>. QED  BY <1>10, <1>11, <1>12

(* A repeat: how often.                                                    *)
LEMMA RepeatLengthStep ==
  ASSUME HInv, RepeatLength
  PROVE  HInv'
<1>1. pc = "repeat" /\ Len(b) >= Wanted
  BY DEF RepeatLength, Ready
<1>2. /\ nlit' = nlit /\ ndist' = ndist /\ nclen' = nclen /\ codebits' = codebits
      /\ h1' = h1 /\ h2' = h2 /\ fixed' = fixed /\ sym' = sym /\ b' = SubSeq(b, Wanted + 1, Len(b))
  BY DEF RepeatLength, countVars, tableVars, Drop
<1>3. b' \in Seq(Bit) /\ Len(b') \in Nat /\ Len(b') < ByteBits /\ Len(b') <= Widest + ByteBits
  BY <1>1, <1>2, LittleLeft DEF InHeaderCode, InBlock
<1>4. ~fixed /\ nlit \in Nat /\ ndist \in Nat /\ nlit <= MaxNumLit /\ ndist <= MaxNumDist
  BY <1>1, Widths DEF HInv, Counted, InHeaderCode, InBlock, Ended
<1>5. sym \in Nat /\ sym \in DOMAIN Repeats /\ (Repeats[sym].copy => i > 0)
  BY <1>1 DEF HInv, Follows
<1>6. Repeats[sym].base \in Nat \ {0} /\ Repeats[sym].copy \in BOOLEAN
  BY <1>5, CodeOrderAssumption
<1>. DEFINE rep == Repeats[sym].base + Field(0, Wanted)
            x == Repeated(Repeats[sym])
            t == <<sym, rep>>
<1>7. rep \in Nat
  <2>1. b \in Seq(Bit) /\ Len(b) \in Nat
    BY Held DEF HInv
  <2>2. Wanted \in Nat /\ 0 + Wanted <= Len(b) /\ 0 \in Nat
    BY <1>1, <2>1, WantedIs, Widths DEF HInv
  <2>3. Field(0, Wanted) \in Nat
    BY <2>1, <2>2, FieldIs
  <2>. QED  BY <1>6, <2>3
<1>8. IF TooMany(rep)
        THEN pc' = "failed" /\ err' = "corrupt" /\ bits' = bits /\ i' = i /\ need' = need
        ELSE /\ Lengths(x, rep) /\ tokens' = Append(tokens, t)
             /\ pc' = "code" /\ need' = h1.min /\ err' = err
  BY DEF RepeatLength
<1>. HIDE DEF rep
<1>9. CASE TooMany(rep)
  <2>1. pc' = "failed" /\ err' = "corrupt" /\ bits' = bits /\ i' = i /\ need' = need
    BY <1>8, <1>9
  <2>2. pc' \in Ended /\ pc' # "done" /\ pc' # "impossible"
    BY <2>1 DEF Ended
  <2>. QED  BY <1>2, <1>3, <2>1, <2>2, Stops
<1>10. CASE ~TooMany(rep)
  <2>1. /\ Lengths(x, rep) /\ tokens' = Append(tokens, t)
        /\ pc' = "code" /\ need' = h1.min /\ err' = err
    BY <1>8, <1>10
  <2>2. x \in 0..MaxLen
    <3>1. CASE Repeats[sym].copy
      <4>1. i - 1 \in 0..(MaxNumLit + MaxNumDist - 1)
        BY <1>5, <3>1, Widths DEF HInv, TypeOK
      <4>2. bits[i - 1] \in 0..MaxLen
        BY <4>1 DEF HInv, TypeOK
      <4>. QED  BY <3>1, <4>2 DEF Repeated
    <3>2. CASE ~Repeats[sym].copy
      BY <3>2, Widths DEF Repeated
    <3>. QED  BY <3>1, <3>2
  <2>3. /\ i \in 0..(nlit + ndist) /\ tokens \in Seq(Nat \X Nat)
        /\ \A k \in (nclen + 1)..Len(CodeOrder) : codebits[CodeOrder[k]] = 0
        /\ [k \in 1..i |-> bits[k - 1]] = Expanded(tokens)
    BY <1>1 DEF HInv, Gathered, InHeaderCode
  <2>4. t \in Nat \X Nat /\ t[1] = sym /\ t[2] = rep
    BY <1>5, <1>7
  <2>. HIDE DEF t, x
  <2>5. /\ Expanded(tokens) \in Seq(Entries)
        /\ Expanded(tokens') = Expanded(tokens) \o Lasting(Expanded(tokens), t)
    BY <2>1, <2>3, <2>4, ExpandedStep
  <2>6. i \in Nat /\ i + rep <= nlit + ndist /\ i + rep <= MaxNumLit + MaxNumDist
    BY <1>4, <1>7, <1>10, <2>3, Widths DEF TooMany
  <2>7. /\ i > 0 => Last(Expanded(tokens)) = bits[i - 1]
        /\ bits' \in [0..(MaxNumLit + MaxNumDist - 1) -> 0..MaxLen]
        /\ i' = i + rep /\ i' \in 0..(MaxNumLit + MaxNumDist)
        /\ [k \in 1..i' |-> bits'[k - 1]] = Expanded(tokens) \o [k \in 1..rep |-> x]
    <3>1. TypeOK
      BY DEF HInv
    <3>. QED  BY <1>7, <2>1, <2>2, <2>3, <2>5, <2>6, <3>1, Extended
  <2>8. Lasting(Expanded(tokens), t) = [k \in 1..rep |-> x]
    <3>1. Lasting(Expanded(tokens), t)
            = [k \in 1..rep |-> IF Repeats[sym].copy THEN Last(Expanded(tokens)) ELSE 0]
      BY <1>5, <2>4 DEF Lasting
    <3>2. (IF Repeats[sym].copy THEN Last(Expanded(tokens)) ELSE 0) = x
      BY <1>5, <2>7 DEF x, Repeated
    <3>. QED  BY <3>1, <3>2
  <2>9. TypeOK'
    <3>1. need' \in 0..MaxLen
      BY <2>1 DEF HInv, Cleared, Clear
    <3>2. err' = "nil" /\ pc' # "failed"
      BY <1>1, <2>1 DEF HInv, TypeOK
    <3>. QED  BY <1>2, <1>3, <2>1, <2>7, <3>1, <3>2, HeldNext DEF HInv, TypeOK
  <2>10. Counted' /\ Cleared' /\ Follows' /\ Decoders' /\ NeverImpossible'
    BY <1>1, <1>2, <1>4, <2>1
    DEF HInv, Counted, Cleared, Follows, Decoders, InHeaderCode, InBlock, NeverImpossible
  <2>11. Gathered'
    <3>1. tokens' \in Seq(Nat \X Nat)
      BY <2>1, <2>3, <2>4
    <3>2. i' \in 0..(nlit' + ndist')
      BY <1>2, <1>4, <1>7, <2>3, <2>6, <2>7
    <3>3. [k \in 1..i' |-> bits'[k - 1]] = Expanded(tokens')
      BY <2>5, <2>7, <2>8
    <3>. QED  BY <1>2, <2>1, <2>3, <3>1, <3>2, <3>3 DEF Gathered, InHeaderCode
  <2>12. Awaited'
    <3>1. codebits \in CodeLens /\ h1.min = Least(codebits)
      BY <1>1, CodeLensAre DEF HInv, Decoders, InHeaderCode
    <3>2. \A u \in Used(codebits') : ~(codebits'[u] < need')
      BY <1>2, <2>1, <3>1, NoneShorter
    <3>. QED  BY <2>1, <3>2 DEF Awaited, NotShorter
  <2>13. Frugal'
    BY <1>3, <2>1 DEF Frugal
  <2>. QED  BY <2>9, <2>10, <2>11, <2>12, <2>13 DEF HInv
<1>. QED  BY <1>9, <1>10

(* All code lengths are there: decoders for the symbols of the block.      *)
LEMMA LengthsReadStep ==
  ASSUME HInv, LengthsRead
  PROVE  HInv'
<1>1. pc = "code" /\ i = nlit + ndist
  BY DEF LengthsRead
<1>2. /\ nlit' = nlit /\ ndist' = ndist /\ nclen' = nclen /\ codebits' = codebits /\ bits' = bits
      /\ fixed' = fixed /\ i' = i /\ b' = b /\ err' = err
  BY DEF LengthsRead, countVars
<1>3. b \in Seq(Bit) /\ Len(b) \in Nat /\ Len(b) <= Widest + ByteBits
  BY Held DEF HInv
<1>4. /\ ~fixed /\ nlit \in (EndBlock + 1)..MaxNumLit /\ ndist \in 0..MaxNumDist
      /\ nclen \in 0..Len(CodeOrder)
  BY <1>1 DEF HInv, Counted, InHeaderCode, InBlock, Ended
<1>5. Len(b) < ByteBits
  <2>1. nlit \in Nat /\ ndist \in Nat
    BY <1>4, Widths
  <2>2. ~SymbolWanted
    BY <1>1, <2>1 DEF SymbolWanted
  <2>3. Wanted = 0
    BY <1>1, <2>2 DEF Wanted
  <2>. QED  BY <1>1, <1>3, <2>3, Widths DEF HInv, Frugal, InHeaderCode, InBlock
<1>6. /\ LitLens \in CodeLens /\ DistLens \in CodeLens /\ LitLens \in [0..(nlit - 1) -> 0..MaxLen]
      /\ EndBlock \in 0..(nlit - 1) /\ LitLens[EndBlock] = bits[EndBlock]
      /\ bits[EndBlock] \in 0..MaxLen
  <2>1. bits \in [0..(MaxNumLit + MaxNumDist - 1) -> 0..MaxLen]
    BY DEF HInv, TypeOK
  <2>2. /\ LitLens \in CodeLens /\ DistLens \in CodeLens /\ LitLens \in [0..(nlit - 1) -> 0..MaxLen]
        /\ EndBlock \in 0..(nlit - 1) /\ LitLens[EndBlock] = bits[EndBlock]
    BY <1>4, <2>1, ReadLensAre
  <2>. QED  BY <2>2
<1>. DEFINE end1 == InitResult(h1, LitLens)
            end2 == InitResult(h2, DistLens)
            h == Initialized(h1, LitLens)
            d == Initialized(h2, DistLens)
            m == WithMin(h, Bump(h))
<1>7. /\ end1 \in {"ok", "incomplete"} /\ Clear(h) /\ h.min = Least(LitLens)
      /\ end1 = "ok" => Decodes(h, LitLens)
      /\ h = EmptyTable \/ h = Table(LitLens)
  BY <1>6, Initializes DEF HInv, Cleared
<1>8. /\ end2 \in {"ok", "incomplete"} /\ Clear(d) /\ d.min = Least(DistLens)
      /\ end2 = "ok" => Decodes(d, DistLens)
  BY <1>6, Initializes DEF HInv, Cleared
<1>9. IF end1 # "ok" THEN pc' = end1 /\ h1' = h1 /\ h2' = h2 /\ need' = need
      ELSE /\ h1' = m
           /\ IF end2 # "ok" THEN pc' = end2 /\ h2' = h2 /\ need' = need
              ELSE pc' = "literal" /\ h2' = d /\ need' = h1'.min
  BY DEF LengthsRead, WithMin
<1>. HIDE DEF end1, end2, h, d
<1>10. /\ Clear(m) /\ m.min = Bump(h) /\ (Decodes(h, LitLens) => Decodes(m, LitLens))
       /\ EndBlock \in Used(LitLens) => Bump(h) = LitLens[EndBlock]
  BY <1>6, <1>7, Bumps
<1>. HIDE DEF m
<1>11. err = "nil" /\ need \in 0..MaxLen
  BY <1>1 DEF HInv, TypeOK
<1>12. ASSUME pc' = "incomplete", need' = need, Clear(h1'), Clear(h2') PROVE HInv'
  <2>1. TypeOK'
    BY <1>2, <1>3, <1>11, <1>12 DEF HInv, TypeOK, Ended
  <2>2. Counted'
    BY <1>2, <1>4, <1>12 DEF HInv, Counted, InHeaderCode, InBlock
  <2>3. Cleared'
    BY <1>12 DEF Cleared
  <2>4. Gathered' /\ Decoders' /\ Follows' /\ Awaited' /\ Frugal' /\ NeverImpossible'
    BY <1>12
    DEF Gathered, Decoders, Follows, Awaited, Frugal, InHeaderCode, InBlock, NeverImpossible
  <2>. QED  BY <2>1, <2>2, <2>3, <2>4 DEF HInv
<1>13. CASE end1 # "ok"
  BY <1>7, <1>9, <1>12, <1>13 DEF HInv, Cleared
<1>14. CASE end1 = "ok" /\ end2 # "ok"
  BY <1>8, <1>9, <1>10, <1>12, <1>14 DEF HInv, Cleared
<1>15. CASE end1 = "ok" /\ end2 = "ok"
  <2>1. pc' = "literal" /\ h1' = m /\ h2' = d /\ need' = m.min
    BY <1>9, <1>15
  <2>2. LitLens' = LitLens /\ DistLens' = DistLens /\ Hl' = m
    <3>1. LitLens' = LitLens
      BY <1>2 DEF LitLens
    <3>2. DistLens' = DistLens
      BY <1>2 DEF DistLens
    <3>3. Hl' = m
      BY <1>2, <1>4, <2>1 DEF Hl
    <3>. QED  BY <3>1, <3>2, <3>3
  <2>3. TypeOK'
    <3>1. need' \in 0..MaxLen
      BY <1>10, <2>1 DEF Clear
    <3>. QED  BY <1>2, <1>3, <1>11, <2>1, <3>1 DEF HInv, TypeOK
  <2>4. Counted' /\ NeverImpossible'
    BY <1>2, <1>4, <2>1 DEF HInv, Counted, InHeaderCode, InBlock, NeverImpossible
  <2>8. Cleared'
    BY <1>8, <1>10, <2>1 DEF Cleared
  <2>5. Gathered' /\ Follows' /\ Frugal'
    BY <1>2, <1>5, <2>1 DEF Gathered, Follows, Frugal, InHeaderCode, InBlock
  <2>6. Awaited'
    BY <2>1, <2>2 DEF Awaited
  <2>7. Decoders'
    <3>1. Decodes(m, LitLens) /\ m.min \in 0..MaxLen /\ Decodes(d, DistLens) /\ d.min = Least(DistLens)
          /\ (EndBlock \in Used(LitLens) => m.min = LitLens[EndBlock])
      BY <1>7, <1>8, <1>10, <1>15 DEF Clear
    <3>. QED  BY <2>1, <2>2, <3>1 DEF Decoders, InHeaderCode, InBlock
  <2>. QED  BY <2>3, <2>4, <2>5, <2>6, <2>7, <2>8 DEF HInv
<1>. QED  BY <1>13, <1>14, <1>15

---------------------------------------------------------------------------
(* The steps of a block *)

(* A symbol no shorter than was waited for leaves what was held little.    *)
LEMMA Fewer ==
  ASSUME NEW x \in Nat, NEW y \in Nat, NEW n \in Nat, NEW m \in Nat, NEW w \in Nat, NEW u \in Nat,
         y <= x, n <= y, x <= w + u, x < u \/ x < n + u \/ x < m + u
  PROVE  /\ x - y \in Nat /\ x - y <= w + u
         /\ x - y < u \/ x - y < m + u
  OBVIOUS

(* After that in a block, they are fewer than with an end marker.          *)
LEMMA LittleMore ==
  ASSUME HInv, InBlock, Len(b) >= Wanted, b' = SubSeq(b, Wanted + 1, Len(b))
  PROVE  /\ b' \in Seq(Bit) /\ Len(b') \in Nat /\ Len(b') <= Widest + ByteBits
         /\ Len(b') < ByteBits \/ Len(b') < Hl.min + ByteBits
<1>1. b \in Seq(Bit) /\ Len(b) \in Nat /\ Len(b) <= Widest + ByteBits
  BY Held DEF HInv
<1>2. Wanted \in Nat
  BY WantedIs, Widths DEF HInv
<1>3. b' \in Seq(Bit) /\ Len(b') = Len(b) - Wanted
  BY <1>1, <1>2, Dropped
<1>4. Len(b) < ByteBits \/ Len(b) < Wanted + ByteBits \/ Len(b) < Hl.min + ByteBits
  BY DEF HInv, Frugal
<1>5. Hl.min \in 0..MaxLen
  BY DEF HInv, Decoders
<1>. QED  BY <1>1, <1>2, <1>3, <1>4, <1>5, Widths

(* What holds on in a block.                                               *)
LEMMA BlockGoesOn ==
  ASSUME HInv, InBlock, InBlock', err' = err, need' \in 0..MaxLen,
         UNCHANGED <<nlit, ndist, nclen, codebits, bits, i, h1, h2, fixed>>,
         b' \in Seq(Bit), Len(b') \in Nat, Len(b') <= Widest + ByteBits,
         Len(b') < ByteBits \/ Len(b') < Hl.min + ByteBits,
         Follows', Awaited'
  PROVE  HInv'
<1>1. LitLens' = LitLens /\ DistLens' = DistLens /\ Hl' = Hl
  BY SameCodes
<1>2. pc # "failed" /\ pc' # "failed" /\ pc' # "impossible" /\ pc' # "done"
  BY DEF InBlock
<1>3. pc' \notin {"counts", "clens", "code", "repeat"}
  BY DEF InBlock
<1>4. TypeOK'
  BY <1>2, HeldNext DEF HInv, TypeOK, InBlock
<1>5. Counted' /\ NeverImpossible'
  BY <1>2, <1>3 DEF HInv, Counted, NeverImpossible
<1>6. Cleared'
  BY DEF HInv, Cleared
<1>7. Gathered'
  BY <1>3 DEF Gathered, InHeaderCode
<1>8. Decoders'
  BY <1>1, <1>3 DEF HInv, Decoders, InHeaderCode
<1>9. Frugal'
  BY <1>1, <1>2 DEF Frugal
<1>. QED  BY <1>4, <1>5, <1>6, <1>7, <1>8, <1>9 DEF HInv

(* What comes before the extra bits of a length: a literal, the end marker *)
(* or the symbol of a length.                                              *)
LEMMA LiteralStep ==
  ASSUME HInv, Literal
  PROVE  HInv'
<1>1. pc = "literal" /\ Symbol("literal", Hl) /\ InBlock
  BY DEF Literal, Symbol, Ready, InBlock
<1>2. /\ nlit' = nlit /\ ndist' = ndist /\ nclen' = nclen /\ codebits' = codebits /\ bits' = bits
      /\ i' = i /\ h1' = h1 /\ h2' = h2 /\ fixed' = fixed
  BY DEF Literal, countVars, lengthVars, tableVars
<1>3. b \in Seq(Bit) /\ Len(b) \in Nat /\ Len(b) <= Widest + ByteBits
  BY Held DEF HInv
<1>4. /\ LitLens \in CodeLens /\ Decodes(Hl, LitLens) /\ Hl.min \in 0..MaxLen /\ Hl.min \in Nat
      /\ EndBlock \in Used(LitLens) => Hl.min = LitLens[EndBlock]
  BY <1>1, CodeLensAre, Widths DEF HInv, Decoders
<1>5. need \in 0..MaxLen /\ need \in Nat /\ (need = Hl.min \/ NotShorter(LitLens, need))
  BY <1>1, Widths DEF HInv, TypeOK, Awaited
<1>6. /\ sym' \in Used(LitLens) /\ sym' \in Nat /\ LitLens[sym'] \in 1..MaxLen
      /\ b' \in Seq(Bit) /\ Len(b') = Len(b) - LitLens[sym'] /\ LitLens[sym'] <= Len(b)
      /\ NotShorter(LitLens, need) => need <= LitLens[sym']
  BY <1>1, <1>3, <1>4, <1>5, SymbolRead
<1>7. Len(b) < ByteBits \/ Len(b) < need + ByteBits \/ Len(b) < Hl.min + ByteBits
  <2>1. Wanted = need
    BY <1>1 DEF Wanted, SymbolWanted
  <2>. QED  BY <1>1, <2>1 DEF HInv, Frugal
<1>8. /\ Len(b') \in Nat /\ Len(b') <= Widest + ByteBits
      /\ Len(b') < ByteBits \/ Len(b') < Hl.min + ByteBits
      /\ sym' = EndBlock => Len(b') < ByteBits
  <2>1. PICK l \in Nat : l = LitLens[sym']
    BY <1>6, Widths
  <2>2. Len(b') = Len(b) - l /\ l <= Len(b) /\ l >= 1 /\ (need = Hl.min \/ need <= l)
    BY <1>5, <1>6, <2>1, Widths
  <2>3. sym' = EndBlock => Hl.min = l
    BY <1>4, <1>6, <2>1
  <2>4. PICK n \in Nat : n = Hl.min
    BY <1>4
  <2>5. PICK w \in Nat : w = Widest + ByteBits
    BY Widths
  <2>6. Len(b') \in Nat /\ Len(b') <= w
    BY <1>3, <2>1, <2>2, <2>5
  <2>7. ByteBits \in Nat
    BY Widths
  <2>8. Len(b) < ByteBits \/ Len(b) < l + ByteBits \/ Len(b) < n + ByteBits
    <3>1. Len(b) < ByteBits \/ Len(b) < need + ByteBits \/ Len(b) < n + ByteBits
      BY <1>7, <2>4
    <3>2. need \in Nat /\ Len(b) \in Nat /\ (need = n \/ need <= l)
      BY <1>3, <1>5, <2>2, <2>4
    <3>. QED  BY <2>1, <2>4, <2>7, <3>1, <3>2
  <2>9. Len(b') < ByteBits \/ Len(b') < n + ByteBits
    BY <1>3, <2>1, <2>2, <2>4, <2>7, <2>8
  <2>10. n = l => Len(b') < ByteBits
    BY <1>3, <2>1, <2>2, <2>4, <2>7, <2>8
  <2>. QED  BY <2>3, <2>4, <2>5, <2>6, <2>9, <2>10
<1>9. CASE sym' < EndBlock
  <2>1. pc' = pc /\ err' = err /\ need' = Hl.min
    <3>1. sym' # EndBlock
      BY <1>6, <1>9, Widths
    <3>. QED  BY <1>9, <3>1 DEF Literal
  <2>2. InBlock' /\ Follows'
    BY <1>1, <2>1 DEF InBlock, Follows
  <2>3. Hl' = Hl
    BY <1>2, SameCodes
  <2>4. Awaited'
    BY <1>1, <2>1, <2>3 DEF Awaited
  <2>. QED  BY <1>1, <1>2, <1>4, <1>6, <1>8, <2>1, <2>2, <2>4, BlockGoesOn
<1>10. CASE sym' = EndBlock
  <2>1. pc' = "done" /\ err' = err /\ need' = need
    <3>1. ~(sym' < EndBlock)
      BY <1>10, Widths
    <3>. QED  BY <1>10, <3>1 DEF Literal
  <2>2. pc' \in Ended /\ pc' # "impossible" /\ err' = "nil" /\ pc' # "failed"
    BY <1>1, <2>1 DEF HInv, TypeOK, Ended
  <2>. QED  BY <1>2, <1>6, <1>8, <1>10, <2>1, <2>2, Stops
<1>11. CASE ~(sym' < EndBlock) /\ sym' # EndBlock
  <2>1. IF RealSymbol[sym'] < 286
          THEN pc' = "extra" /\ need' = need /\ err' = err
          ELSE pc' = "failed" /\ err' = "corrupt" /\ need' = need
    BY <1>11 DEF Literal
  <2>2. CASE ~(RealSymbol[sym'] < 286)
    <3>1. pc' = "failed" /\ err' = "corrupt" /\ need' = need
      BY <2>1, <2>2
    <3>2. pc' \in Ended /\ pc' # "done" /\ pc' # "impossible"
      BY <3>1 DEF Ended
    <3>. QED  BY <1>2, <1>6, <1>8, <3>1, <3>2, Stops
  <2>3. CASE RealSymbol[sym'] < 286
    <3>1. pc' = "extra" /\ need' = need /\ err' = err
      BY <2>1, <2>3
    <3>2. sym' \in DOMAIN RealSymbol
      <4>1. sym' \in DOMAIN LitLens
        BY <1>4, <1>6, UsedIs
      <4>2. CASE fixed
        <5>1. DOMAIN LitLens = 0..(Len(FixedLens) - 1)
          BY <4>2 DEF LitLens, Lengths0
        <5>2. Len(FixedLens) \in Nat
          BY SymbolAssumption
        <5>3. sym' \in (EndBlock + 1)..(Len(FixedLens) - 1)
          BY <1>6, <1>11, <4>1, <5>1, <5>2, Widths
        <5>. QED  BY <5>3, SymbolAssumption
      <4>3. CASE ~fixed
        <5>1. DOMAIN LitLens = 0..(nlit - 1)
          BY <4>3 DEF LitLens
        <5>2. nlit \in Nat /\ nlit <= MaxNumLit
          BY <1>1, <4>3, Widths DEF HInv, Counted
        <5>3. sym' \in (EndBlock + 1)..(MaxNumLit - 1)
          BY <1>6, <1>11, <4>1, <5>1, <5>2, Widths
        <5>. QED  BY <5>3, SymbolAssumption
      <4>. QED  BY <4>2, <4>3
    <3>3. InBlock' /\ Follows' /\ Awaited'
      BY <2>3, <3>1, <3>2 DEF InBlock, Follows, Awaited
    <3>. QED  BY <1>1, <1>2, <1>5, <1>6, <1>8, <3>1, <3>3, BlockGoesOn
  <2>. QED  BY <2>2, <2>3
<1>. QED  BY <1>9, <1>10, <1>11

(* The extra bits of a length.                                             *)
LEMMA MatchLengthStep ==
  ASSUME HInv, MatchLength
  PROVE  HInv'
<1>1. pc = "extra" /\ Len(b) >= Wanted /\ InBlock
  BY DEF MatchLength, Ready, InBlock
<1>2. /\ nlit' = nlit /\ ndist' = ndist /\ nclen' = nclen /\ codebits' = codebits /\ bits' = bits
      /\ i' = i /\ h1' = h1 /\ h2' = h2 /\ fixed' = fixed /\ err' = err
      /\ pc' = "distance" /\ need' = h2.min /\ b' = SubSeq(b, Wanted + 1, Len(b))
  BY DEF MatchLength, countVars, lengthVars, tableVars, Drop
<1>3. /\ b' \in Seq(Bit) /\ Len(b') \in Nat /\ Len(b') <= Widest + ByteBits
      /\ Len(b') < ByteBits \/ Len(b') < Hl.min + ByteBits
  BY <1>1, <1>2, LittleMore
<1>4. need' \in 0..MaxLen
  BY <1>2 DEF HInv, Cleared, Clear
<1>5. InBlock' /\ Follows'
  BY <1>2 DEF InBlock, Follows
<1>6. Awaited'
  <2>. SUFFICES ASSUME ~fixed' PROVE \A u \in Used(DistLens') : ~(DistLens'[u] < need')
    BY <1>2 DEF Awaited, NotShorter
  <2>1. DistLens \in CodeLens /\ h2.min = Least(DistLens)
    BY <1>1, <1>2, CodeLensAre DEF HInv, Decoders
  <2>2. DistLens' = DistLens
    BY <1>2, SameCodes
  <2>3. \A u \in Used(DistLens') : ~(DistLens'[u] < need')
    BY <1>2, <2>1, <2>2, NoneShorter
  <2>. QED  BY <2>3
<1>. QED  BY <1>1, <1>2, <1>3, <1>4, <1>5, <1>6, BlockGoesOn

(* The symbol of a distance.                                               *)
LEMMA DistanceStep ==
  ASSUME HInv, Distance
  PROVE  HInv'
<1>1. pc = "distance" /\ InBlock
  BY DEF Distance, Symbol, Ready, InBlock
<1>2. /\ nlit' = nlit /\ ndist' = ndist /\ nclen' = nclen /\ codebits' = codebits /\ bits' = bits
      /\ i' = i /\ h1' = h1 /\ h2' = h2 /\ fixed' = fixed /\ need' = need
  BY DEF Distance, countVars, lengthVars, tableVars
<1>3. /\ b' \in Seq(Bit) /\ Len(b') \in Nat /\ Len(b') <= Widest + ByteBits
      /\ Len(b') < ByteBits \/ Len(b') < Hl.min + ByteBits
      /\ sym' \in DOMAIN RealDist
  <2>1. b \in Seq(Bit) /\ Len(b) \in Nat /\ Len(b) <= Widest + ByteBits
    BY Held DEF HInv
  <2>2. CASE fixed
    <3>1. Wanted = FixedDistBits
      BY <1>1, <2>2 DEF Wanted, SymbolWanted
    <3>2. /\ sym' = Number(Reverse(SubSeq(b, 1, FixedDistBits))) /\ Len(b) >= Wanted
          /\ b' = SubSeq(b, Wanted + 1, Len(b))
      BY <2>2, <3>1 DEF Distance, Ready, Drop
    <3>3. sym' \in 0..(Power[FixedDistBits] - 1)
      <4>1. PICK n \in Nat : n = FixedDistBits
        BY Widths
      <4>2. SubSeq(b, 1, n) \in Seq(Bit) /\ Len(SubSeq(b, 1, n)) = n
        <5>1. 1 \in Nat /\ n <= Len(b)
          BY <3>1, <3>2, <4>1
        <5>2. SubSeq(b, 1, n) \in Seq(Bit)
          BY <2>1, <5>1
        <5>3. Len(SubSeq(b, 1, n)) = IF 1 <= n THEN (n - 1) + 1 ELSE 0
          BY <2>1, <5>1
        <5>. QED  BY <5>2, <5>3
      <4>3. sym' = Value(SubSeq(b, 1, n))[n]
        BY <3>2, <4>1, <4>2, NumberReverse
      <4>4. Value(SubSeq(b, 1, n))[n] \in 0..(Power[n] - 1)
        <5>1. n <= Len(SubSeq(b, 1, n))
          BY <4>1, <4>2
        <5>. QED  BY <4>1, <4>2, <5>1, ValueBound
      <4>. QED  BY <4>1, <4>3, <4>4
    <3>4. sym' \in DOMAIN RealDist
      BY <3>3, SymbolAssumption
    <3>. QED  BY <1>1, <3>2, <3>4, LittleMore
  <2>3. CASE ~fixed
    <3>1. Symbol("distance", h2)
      BY <2>3 DEF Distance
    <3>2. DistLens \in CodeLens /\ Decodes(h2, DistLens)
      BY <1>1, <2>3, CodeLensAre DEF HInv, Decoders
    <3>3. need \in Nat /\ NotShorter(DistLens, need)
      BY <1>1, <2>3, Widths DEF HInv, TypeOK, Awaited
    <3>4. /\ sym' \in Used(DistLens) /\ sym' \in Nat /\ DistLens[sym'] \in 1..MaxLen
          /\ b' \in Seq(Bit) /\ Len(b') = Len(b) - DistLens[sym'] /\ DistLens[sym'] <= Len(b)
          /\ need <= DistLens[sym']
      BY <2>1, <3>1, <3>2, <3>3, SymbolRead
    <3>5. Len(b) < ByteBits \/ Len(b) < need + ByteBits \/ Len(b) < Hl.min + ByteBits
      <4>1. Wanted = need
        BY <1>1, <2>3 DEF Wanted, SymbolWanted
      <4>. QED  BY <1>1, <4>1 DEF HInv, Frugal
    <3>6. Hl.min \in Nat
      BY <1>1, Widths DEF HInv, Decoders
    <3>7. PICK l \in Nat : l = DistLens[sym']
      BY <3>4, Widths
    <3>8. /\ Len(b') \in Nat /\ Len(b') <= Widest + ByteBits
          /\ Len(b') < ByteBits \/ Len(b') < Hl.min + ByteBits
      <4>1. PICK held \in Nat : held = Len(b)
        BY <2>1
      <4>2. PICK min \in Nat : min = Hl.min
        BY <3>6
      <4>3. Len(b') = held - l /\ l <= held /\ need <= l
        BY <3>4, <3>7, <4>1
      <4>4. held <= Widest + ByteBits
        BY <2>1, <4>1
      <4>5. held < ByteBits \/ held < need + ByteBits \/ held < min + ByteBits
        BY <3>5, <4>1, <4>2
      <4>6. need \in Nat /\ Widest \in Nat /\ ByteBits \in Nat
        BY <3>3, Widths
      <4>7. /\ held - l \in Nat /\ held - l <= Widest + ByteBits
            /\ held - l < ByteBits \/ held - l < min + ByteBits
        BY <4>3, <4>4, <4>5, <4>6, Fewer
      <4>. QED  BY <4>2, <4>3, <4>7
    <3>9. sym' \in DOMAIN RealDist
      <4>1. sym' \in DOMAIN DistLens
        BY <3>2, <3>4, UsedIs
      <4>2. sym' \in 0..(ndist - 1)
        BY <4>1 DEF DistLens
      <4>3. ndist \in Nat /\ ndist <= MaxNumDist
        BY <1>1, <2>3, Widths DEF HInv, Counted
      <4>4. sym' \in 0..(MaxNumDist - 1)
        BY <4>2, <4>3, Widths
      <4>. QED  BY <4>4, SymbolAssumption
    <3>. QED  BY <3>4, <3>8, <3>9
  <2>. QED  BY <2>2, <2>3
<1>4. IF RealDist[sym'] < 30 THEN pc' = "distExtra" /\ err' = err ELSE pc' = "failed" /\ err' = "corrupt"
  BY DEF Distance
<1>5. CASE RealDist[sym'] < 30
  <2>1. pc' = "distExtra" /\ err' = err
    BY <1>4, <1>5
  <2>2. InBlock' /\ Follows' /\ Awaited'
    BY <1>3, <1>5, <2>1 DEF InBlock, Follows, Awaited
  <2>3. need' \in 0..MaxLen
    BY <1>2 DEF HInv, TypeOK
  <2>. QED  BY <1>1, <1>2, <1>3, <2>1, <2>2, <2>3, BlockGoesOn
<1>6. CASE ~(RealDist[sym'] < 30)
  <2>1. pc' = "failed" /\ err' = "corrupt"
    BY <1>4, <1>6
  <2>2. pc' \in Ended /\ pc' # "done" /\ pc' # "impossible"
    BY <2>1 DEF Ended
  <2>. QED  BY <1>2, <1>3, <2>1, <2>2, Stops
<1>. QED  BY <1>5, <1>6

(* The extra bits of a distance.                                           *)
LEMMA MatchDistanceStep ==
  ASSUME HInv, MatchDistance
  PROVE  HInv'
<1>1. pc = "distExtra" /\ Len(b) >= Wanted /\ InBlock
  BY DEF MatchDistance, Ready, InBlock
<1>2. /\ nlit' = nlit /\ ndist' = ndist /\ nclen' = nclen /\ codebits' = codebits /\ bits' = bits
      /\ i' = i /\ h1' = h1 /\ h2' = h2 /\ fixed' = fixed /\ err' = err
      /\ pc' = "literal" /\ need' = Hl.min /\ b' = SubSeq(b, Wanted + 1, Len(b))
  BY DEF MatchDistance, countVars, lengthVars, tableVars, Drop
<1>3. /\ b' \in Seq(Bit) /\ Len(b') \in Nat /\ Len(b') <= Widest + ByteBits
      /\ Len(b') < ByteBits \/ Len(b') < Hl.min + ByteBits
  BY <1>1, <1>2, LittleMore
<1>4. need' \in 0..MaxLen
  BY <1>1, <1>2 DEF HInv, Decoders
<1>5. InBlock' /\ Follows'
  BY <1>2 DEF InBlock, Follows
<1>6. Awaited'
  <2>1. Hl' = Hl
    BY <1>2, SameCodes
  <2>. QED  BY <1>2, <2>1 DEF Awaited
<1>. QED  BY <1>1, <1>2, <1>3, <1>4, <1>5, <1>6, BlockGoesOn

---------------------------------------------------------------------------
(* The invariant *)

(* The decoder of the fixed code.                                          *)
LEMMA FixedTableIs ==
  /\ Decodes(FixedTable, Lengths0(FixedLens)) /\ FixedTable.min \in 0..MaxLen
  /\ FixedTable.min = Lengths0(FixedLens)[EndBlock]
<1>. DEFINE lens == Lengths0(FixedLens)
<1>1. lens \in CodeLens /\ EndBlock \in Used(lens) /\ Complete(lens) /\ lens[EndBlock] = Least(lens)
  BY FixedIs
<1>. HIDE DEF lens
<1>2. Decodes(Table(lens), lens)
  BY <1>1 DEF Decodes
<1>3. Table(lens).min = Least(lens)
  BY DEF Table
<1>4. Least(lens) \in 0..MaxLen
  BY <1>1, LeastIs, Widths
<1>. QED  BY <1>1, <1>2, <1>3, <1>4 DEF FixedTable, lens

(* A decompressor that is new, or has decoded a dynamic block, is clear.   *)
LEMMA ClearAtFirst ==
  ASSUME InitNew \/ InitUsed
  PROVE  /\ codebits \in [0..(Len(CodeOrder) - 1) -> 0..MaxLen]
         /\ bits \in [0..(MaxNumLit + MaxNumDist - 1) -> 0..MaxLen]
         /\ Clear(h1) /\ Clear(h2)
<1>1. /\ Earlier.codebits \in [0..(Len(CodeOrder) - 1) -> 0..MaxLen]
      /\ Earlier.bits \in [0..(MaxNumLit + MaxNumDist - 1) -> 0..MaxLen]
      /\ Earlier.nlit \in (EndBlock + 1)..MaxNumLit /\ Earlier.ndist \in 0..MaxNumDist
  BY InputAssumption
<1>2. 0 \in 0..MaxLen
  BY Widths
<1>3. Clear(EmptyTable)
  <2>1. EmptyTable.min = 0
    BY DEF EmptyTable
  <2>. QED  BY <1>2, <2>1 DEF Clear
<1>4. CASE InitNew
  BY <1>1, <1>2, <1>3, <1>4 DEF InitNew
<1>5. CASE InitUsed
  <2>. DEFINE l == [s \in 0..(Earlier.nlit - 1) |-> bits[s]]
              d == [s \in 0..(Earlier.ndist - 1) |-> bits[Earlier.nlit + s]]
              h == Initialized(EmptyTable, l)
  <2>1. /\ codebits = Earlier.codebits /\ bits = Earlier.bits
        /\ h1 = WithMin(h, Bump(h)) /\ h2 = Initialized(EmptyTable, d)
    BY <1>5 DEF InitUsed, WithMin
  <2>2. bits \in [0..(MaxNumLit + MaxNumDist - 1) -> 0..MaxLen]
    BY <1>1, <2>1
  <2>3. PICK p \in Nat, q \in Nat : /\ p = Earlier.nlit /\ q = Earlier.ndist
                                    /\ p <= MaxNumLit /\ q <= MaxNumDist
    BY <1>1, Widths
  <2>4. \A s \in 0..(p - 1) : s \in 0..(MaxNumLit + MaxNumDist - 1)
    BY <2>3, Widths
  <2>5. \A s \in 0..(q - 1) : p + s \in 0..(MaxNumLit + MaxNumDist - 1)
    BY <2>3, Widths
  <2>6. l \in [0..(p - 1) -> 0..MaxLen]
    BY <2>2, <2>3, <2>4
  <2>7. d \in [0..(q - 1) -> 0..MaxLen]
    BY <2>2, <2>3, <2>5
  <2>8. l \in CodeLens /\ d \in CodeLens
    <3>. HIDE DEF l, d
    <3>. QED  BY <2>3, <2>6, <2>7 DEF CodeLens
  <2>. HIDE DEF l, d
  <2>9. /\ h = EmptyTable \/ h = Table(l)
        /\ h.min = Least(l) /\ Clear(h) /\ Clear(Initialized(EmptyTable, d))
    BY <1>3, <2>8, Initializes
  <2>. HIDE DEF h
  <2>10. bits[EndBlock] \in 0..MaxLen
    <3>1. EndBlock \in 0..(MaxNumLit + MaxNumDist - 1)
      BY Widths
    <3>. QED  BY <2>2, <3>1
  <2>11. Clear(WithMin(h, Bump(h)))
    BY <2>8, <2>9, <2>10, Bumps
  <2>. QED  BY <1>1, <2>1, <2>2, <2>9, <2>11
<1>. QED  BY <1>4, <1>5

(* It holds at first.                                                      *)
LEMMA InitStep ==
  ASSUME Init
  PROVE  HInv
<1>1. /\ codebits \in [0..(Len(CodeOrder) - 1) -> 0..MaxLen]
      /\ bits \in [0..(MaxNumLit + MaxNumDist - 1) -> 0..MaxLen]
      /\ Cleared
  BY ClearAtFirst DEF Init, Cleared
<1>2. i = 0 /\ tokens = <<>> /\ err = "nil"
  BY DEF Init
<1>3. PICK k \in 0..(ByteBits - 1) :
        \/ /\ fixed = TRUE /\ pc = "literal" /\ need = FixedTable.min /\ b \in Strings(k)
        \/ /\ fixed = FALSE /\ pc = "counts" /\ need = 0
           /\ \E s \in Headers : b = SubSeq(s, 1, k)
  BY DEF Init
<1>4. k \in Nat /\ k < ByteBits
  BY Widths
<1>5. b \in Seq(Bit) /\ Len(b) = k
  <2>1. CASE b \in Strings(k)
    BY <1>4, <2>1, StringIs
  <2>2. ASSUME NEW s \in Headers, b = SubSeq(s, 1, k) PROVE b \in Seq(Bit) /\ Len(b) = k
    <3>1. s \in Seq(Bit) /\ Len(s) >= ByteBits
      BY InputAssumption
    <3>2. \A x \in Seq(Bit) : \A n \in 0..Len(x) : SubSeq(x, 1, n) \in Seq(Bit) /\ Len(SubSeq(x, 1, n)) = n
      OBVIOUS
    <3>3. k \in 0..Len(s)
      BY <1>4, <3>1, Widths
    <3>. QED  BY <2>2, <3>1, <3>2, <3>3
  <2>. QED  BY <1>3, <2>1, <2>2
<1>6. Len(b) < ByteBits /\ Len(b) <= Widest + ByteBits
  BY <1>4, <1>5, Widths
<1>7. b \in UNION {Strings(n) : n \in 0..(MaxLen + LitBits + DistBits + CLenBits + ByteBits)}
  BY <1>5, <1>6, BitsType
<1>8. need \in 0..MaxLen /\ 0 \in 0..(MaxNumLit + MaxNumDist)
  BY <1>3, FixedTableIs, Widths
<1>9. TypeOK
  BY <1>1, <1>2, <1>3, <1>7, <1>8 DEF TypeOK
<1>10. Counted /\ Follows /\ NeverImpossible
  BY <1>3 DEF Counted, Follows, InHeaderCode, InBlock, NeverImpossible
<1>11. Gathered
  BY <1>2, <1>3 DEF Gathered, InHeaderCode
<1>12. Frugal
  BY <1>3, <1>6 DEF Frugal
<1>13. Decoders /\ Awaited
  <2>1. CASE fixed = TRUE /\ pc = "literal" /\ need = FixedTable.min
    <3>1. Hl = FixedTable /\ LitLens = Lengths0(FixedLens)
      BY <2>1 DEF Hl, LitLens
    <3>. QED  BY <2>1, <3>1, FixedTableIs DEF Decoders, Awaited, InHeaderCode, InBlock
  <2>2. CASE pc = "counts"
    BY <2>2 DEF Decoders, Awaited, InHeaderCode, InBlock
  <2>. QED  BY <1>3, <2>1, <2>2
<1>. QED  BY <1>1, <1>9, <1>10, <1>11, <1>12, <1>13 DEF HInv

(* Every step keeps it.                                                    *)
LEMMA NextStep ==
  ASSUME HInv, [Next]_vars
  PROVE  HInv'
<1>1. CASE MoreBits
  BY <1>1, MoreBitsStep
<1>2. CASE InputEnds
  BY <1>2, InputEndsStep
<1>3. CASE Header
  <2>1. CASE Counts
    BY <2>1, CountsStep
  <2>2. CASE CodeLength
    BY <2>2, CodeLengthStep
  <2>3. CASE CodeLengthsRead
    BY <2>3, CodeLengthsReadStep
  <2>4. CASE i < nlit + ndist /\ LookAgain("code", h1)
    BY <2>4, LookAgainStep
  <2>5. CASE NoSymbol("code", h1)
    BY <2>5, NoSymbolStep
  <2>6. CASE ActualLength
    BY <2>6, ActualLengthStep
  <2>7. CASE RepeatLength
    BY <2>7, RepeatLengthStep
  <2>8. CASE LengthsRead
    BY <2>8, LengthsReadStep
  <2>. QED  BY <1>3, <2>1, <2>2, <2>3, <2>4, <2>5, <2>6, <2>7, <2>8 DEF Header, Search
<1>4. CASE Symbols
  <2>1. CASE LookAgain("literal", Hl)
    BY <2>1, LookAgainStep
  <2>2. CASE NoSymbol("literal", Hl)
    BY <2>2, NoSymbolStep
  <2>3. CASE Literal
    BY <2>3, LiteralStep
  <2>4. CASE MatchLength
    BY <2>4, MatchLengthStep
  <2>5. CASE ~fixed /\ LookAgain("distance", h2)
    BY <2>5, LookAgainStep
  <2>6. CASE NoSymbol("distance", h2)
    BY <2>6, NoSymbolStep
  <2>7. CASE Distance
    BY <2>7, DistanceStep
  <2>8. CASE MatchDistance
    BY <2>8, MatchDistanceStep
  <2>. QED  BY <1>4, <2>1, <2>2, <2>3, <2>4, <2>5, <2>6, <2>7, <2>8 DEF Symbols, Search
<1>5. CASE UNCHANGED vars
  <2>1. /\ pc' = pc /\ b' = b /\ need' = need /\ nlit' = nlit /\ ndist' = ndist /\ nclen' = nclen /\ i' = i
        /\ codebits' = codebits /\ bits' = bits /\ tokens' = tokens /\ h1' = h1 /\ h2' = h2
        /\ fixed' = fixed /\ sym' = sym /\ err' = err
    BY <1>5 DEF vars, countVars, lengthVars, tableVars
  <2>2. LitLens' = LitLens /\ DistLens' = DistLens /\ Hl' = Hl
    BY <2>1, SameCodes
  <2>3. TypeOK' /\ Counted' /\ Cleared' /\ Gathered' /\ NeverImpossible'
    BY <2>1 DEF HInv, TypeOK, Counted, Cleared, Gathered, InHeaderCode, InBlock, NeverImpossible
  <2>4. Decoders' /\ Follows' /\ Awaited'
    BY <2>1, <2>2 DEF HInv, Decoders, Follows, Awaited, NotShorter, InHeaderCode, InBlock
  <2>5. Frugal'
    BY <2>1, <2>2 DEF HInv, Frugal, Wanted, SymbolWanted, InHeaderCode, InBlock
  <2>. QED  BY <2>3, <2>4, <2>5 DEF HInv
<1>. QED  BY <1>1, <1>2, <1>3, <1>4, <1>5 DEF Next

(* The invariant of the decoder holds throughout.                          *)
LEMMA Invariant == Spec => []HInv
<1>1. Init => HInv
  BY InitStep
<1>2. HInv /\ [Next]_vars => HInv'
  BY NextStep
<1>. QED  BY <1>1, <1>2, PTL DEF Spec

---------------------------------------------------------------------------
(* What a step reads *)

(* What is read of b is what b has lost.                                   *)
UsedBits == SubSeq(b, 1, Len(b) - Len(b'))

(* The first bits of b.                                                    *)
LEMMA FirstBits ==
  ASSUME b \in Seq(Bit), NEW n \in Nat, n <= Len(b), Len(b') = Len(b) - n
  PROVE  /\ UsedBits = SubSeq(b, 1, n) /\ UsedBits \in Seq(Bit) /\ Len(UsedBits) = n
         /\ \A k \in 1..n : UsedBits[k] = b[k]
<1>1. PICK l \in Nat : l = Len(b)
  OBVIOUS
<1>2. Len(b) - Len(b') = n
  BY <1>1
<1>3. UsedBits = SubSeq(b, 1, n)
  BY <1>2 DEF UsedBits
<1>4. /\ SubSeq(b, 1, n) \in Seq(Bit) /\ Len(SubSeq(b, 1, n)) = n
      /\ \A k \in 1..n : SubSeq(b, 1, n)[k] = b[k]
  OBVIOUS
<1>. QED  BY <1>3, <1>4

(* If b has lost nothing, nothing is read.                                 *)
LEMMA NothingRead ==
  ASSUME b \in Seq(Bit), b' \in Seq(Bit), Len(b') >= Len(b)
  PROVE  UsedBits = <<>>
<1>1. PICK l \in Nat, m \in Nat : l = Len(b) /\ m = Len(b')
  OBVIOUS
<1>2. \A s \in Seq(Bit) : \A k \in Int : k <= 0 => SubSeq(s, 1, k) = <<>>
  OBVIOUS
<1>. QED  BY <1>1, <1>2 DEF UsedBits

(* Strings of bits are the same if their bits are.                         *)
LEMMA SameBits ==
  ASSUME NEW x \in Seq(Bit), NEW y \in Seq(Bit), NEW n \in Nat, Len(x) = n, Len(y) = n,
         \A k \in 1..n : x[k] = y[k]
  PROVE  x = y
OBVIOUS

(* A symbol is read as its canonical code, and no more than that.          *)
LEMMA SymbolCanonical ==
  ASSUME NEW at, NEW h, NEW lens \in CodeLens, Decodes(h, lens), b \in Seq(Bit), Symbol(at, h)
  PROVE  UsedBits = Canonical(lens, sym')
<1>1. sym' = Find(h).sym /\ b' = SubSeq(b, Find(h).n + 1, Len(b)) /\ ~NeedMore(h) /\ Find(h) # NoChunk
  BY DEF Symbol, Drop, NoChunk
<1>2. Used(lens) # {} /\ Complete(lens)
  BY <1>1, FoundRead
<1>3. PICK s \in Used(lens) : /\ Find(h) = Entry(lens, s) /\ lens[s] <= Len(b)
                              /\ IsPrefix(CodeOf(lens, s), b)
  BY <1>1, FoundRead
<1>4. sym' = s /\ Find(h).n = lens[s]
  BY <1>1, <1>3 DEF Entry
<1>5. lens[s] \in Nat
  BY UsedIs, Widths
<1>6. Len(b') = Len(b) - lens[s]
  BY <1>1, <1>3, <1>4, <1>5, Dropped
<1>7. /\ UsedBits \in Seq(Bit) /\ Len(UsedBits) = lens[s]
      /\ \A k \in 1..lens[s] : UsedBits[k] = b[k]
  BY <1>3, <1>5, <1>6, FirstBits
<1>8. CodeOf(lens, s) \in Seq(Bit) /\ Len(CodeOf(lens, s)) = lens[s]
  BY <1>2, CompleteFits, CodeIs
<1>9. \A k \in 1..lens[s] : CodeOf(lens, s)[k] = b[k]
  BY <1>3, <1>8, PrefixBits
<1>10. UsedBits = CodeOf(lens, s)
  BY <1>5, <1>7, <1>8, <1>9, SameBits
<1>. QED  BY <1>4, <1>10, CodeIsCanonical

(* The code all of whose words have n bits.                                *)
LEMMA FlatCanonical ==
  ASSUME NEW n \in Nat \ {0}, NEW x \in Seq(Bit), Len(x) = n
  PROVE  Canonical([s \in 0..(Power[n] - 1) |-> n], Value(x)[n]) = x
<1>. DEFINE lens == [s \in 0..(Power[n] - 1) |-> n]
            c == Value(x)[n]
<1>0. Power[n] \in Nat
  BY PowerEquations
<1>1. c \in 0..(Power[n] - 1)
  BY ValueBound
<1>2. Used(lens) = 0..(Power[n] - 1) /\ lens[c] = n
  BY <1>1 DEF Used
<1>3. OfLength(lens, n) = 0..(Power[n] - 1)
  BY <1>2 DEF OfLength
<1>4. \A k \in Nat : k # n => OfLength(lens, k) = {}
  BY <1>2 DEF OfLength
<1>. HIDE DEF lens, c
<1>5. \A k \in 1..n : Cardinality(OfLength(lens, k)) \in Nat
  <2>. TAKE k \in 1..n
  <2>1. IsFiniteSet(0..(Power[n] - 1))
    BY <1>0, FS_Interval
  <2>2. IsFiniteSet({})
    BY FS_EmptySet
  <2>3. IsFiniteSet(OfLength(lens, k))
    BY <1>3, <1>4, <2>1, <2>2
  <2>. QED  BY <2>3, FS_CardinalityType
<1>6. PICK F :
        /\ IsShare(lens, n, F)
        /\ Canonical(lens, c) = Word(F[n - 1] + Cardinality({t \in OfLength(lens, n) : t < c}), n)
  BY <1>2, <1>5, Shares
<1>. DEFINE S == {k \in Nat : k < n => F[k] = 0}
<1>7. 0 \in S
  BY <1>6 DEF IsShare
<1>8. ASSUME NEW k \in Nat, k \in S PROVE k + 1 \in S
  <2>. SUFFICES ASSUME k + 1 < n PROVE F[k + 1] = 0
    OBVIOUS
  <2>1. PICK m \in Nat : m = n - (k + 1)
    OBVIOUS
  <2>2. k \in 0..(n - 1) /\ k < n /\ k + 1 \in Nat /\ k + 1 # n
    OBVIOUS
  <2>3. F[k] = 0
    BY <1>8, <2>2
  <2>4. Cardinality(OfLength(lens, k + 1)) = 0
    BY <1>4, <2>2, FS_EmptySet
  <2>5. PICK p \in Nat : p = Power[m]
    BY PowerEquations
  <2>6. F[k + 1] = F[k] + Cardinality(OfLength(lens, k + 1)) * Power[n - (k + 1)]
    BY <1>6, <2>2 DEF IsShare
  <2>7. 0 + 0 * p = 0
    OBVIOUS
  <2>. QED  BY <2>1, <2>3, <2>4, <2>5, <2>6, <2>7
<1>. HIDE DEF S
<1>9. Nat \subseteq S
  BY <1>7, <1>8, Induction
<1>10. F[n - 1] = 0
  <2>1. n - 1 \in Nat /\ n - 1 < n
    OBVIOUS
  <2>. QED  BY <1>9, <2>1 DEF S
<1>11. Cardinality({t \in OfLength(lens, n) : t < c}) = c
  <2>1. c \in Nat
    BY <1>0, <1>1
  <2>2. {t \in 0..(Power[n] - 1) : t < c} = 0..(c - 1)
    BY <1>0, <1>1, <2>1
  <2>3. Cardinality(0..(c - 1)) = c
    <3>1. 0 \in Int /\ c - 1 \in Int
      BY <2>1
    <3>2. Cardinality(0..(c - 1)) = IF 0 > c - 1 THEN 0 ELSE (c - 1) - 0 + 1
      BY <3>1, FS_Interval
    <3>. QED  BY <2>1, <3>2
  <2>. QED  BY <1>3, <2>2, <2>3
<1>12. Canonical(lens, c) = Word(c, n)
  <2>1. 0 + c = c
    BY <1>0, <1>1
  <2>. QED  BY <1>6, <1>10, <1>11, <2>1
<1>13. Word(c, n) \in Seq(Bit) /\ Len(Word(c, n)) = n
  <2>1. c \in Nat
    BY <1>0, <1>1
  <2>. QED  BY <2>1, WordType
<1>14. \A k \in 1..n : Word(c, n)[k] = x[k]
  <2>1. n <= Len(x)
    OBVIOUS
  <2>. QED  BY <2>1, ValueBits DEF c
<1>15. Word(c, n) = x
  BY <1>13, <1>14, SameBits
<1>. QED  BY <1>12, <1>15 DEF lens, c

(* The bits of a field are what its number is made of.                     *)
LEMMA FieldRead ==
  ASSUME b \in Seq(Bit), NEW n \in Nat, n <= Len(b), b' = SubSeq(b, n + 1, Len(b))
  PROVE  Field(0, n) = Number(UsedBits) /\ Field(0, n) \in Nat
<1>1. Len(b') = Len(b) - n
  BY Dropped
<1>2. UsedBits = SubSeq(b, 1, n) /\ UsedBits \in Seq(Bit)
  BY <1>1, FirstBits
<1>3. 0 + 1 = 1 /\ 0 + n = n
  OBVIOUS
<1>4. Field(0, n) = Number(UsedBits)
  BY <1>2, <1>3 DEF Field
<1>5. Number(UsedBits) \in Nat
  BY <1>2, NumberBound
<1>. QED  BY <1>4, <1>5

(* What reads no bits reads them exactly.                                  *)
LEMMA UnreadStep ==
  ASSUME HInv, b' \in Seq(Bit), Len(b') >= Len(b),
         ~(pc = "extra" /\ pc' = "distance"), ~(pc = "distExtra" /\ pc' = "literal")
  PROVE  ReadExactly
<1>1. b \in Seq(Bit)
  BY Held DEF HInv
<1>2. UsedBits = <<>>
  BY <1>1, NothingRead
<1>. QED  BY <1>2, Tiles DEF ReadExactly, UsedBits

(* A step of the loop of huffSym that keeps the bits does so.              *)
LEMMA KeptStep ==
  ASSUME HInv, b' = b,
         ~(pc = "extra" /\ pc' = "distance"), ~(pc = "distExtra" /\ pc' = "literal")
  PROVE  ReadExactly
<1>1. b \in Seq(Bit) /\ Len(b) \in Nat
  BY Held DEF HInv
<1>2. b' \in Seq(Bit) /\ Len(b') >= Len(b)
  BY <1>1
<1>. QED  BY <1>2, UnreadStep

(* A symbol of the code lengths or of the block.                           *)
LEMMA SymbolStep ==
  ASSUME HInv, NEW at, NEW h, Symbol(at, h),
         \/ at = "code" /\ h = h1
         \/ at = "literal" /\ h = Hl
         \/ at = "distance" /\ h = h2 /\ ~fixed
  PROVE  ReadExactly
<1>1. pc = at
  BY DEF Symbol, Ready
<1>2. CodeInUse \in CodeLens /\ Decodes(h, CodeInUse)
  <2>1. CASE at = "code"
    BY <1>1, <2>1, CodeLensAre DEF HInv, Decoders, InHeaderCode, CodeInUse
  <2>2. CASE at = "literal"
    BY <1>1, <2>2, CodeLensAre DEF HInv, Decoders, InBlock, CodeInUse
  <2>3. CASE at = "distance"
    BY <1>1, <2>3, CodeLensAre DEF HInv, Decoders, InBlock, CodeInUse
  <2>. QED  BY <2>1, <2>2, <2>3
<1>3. UsedBits = Canonical(CodeInUse, sym')
  BY <1>2, Held, SymbolCanonical DEF HInv
<1>4. pc # "extra" /\ pc # "distExtra"
  BY <1>1
<1>. QED  BY <1>3, <1>4 DEF ReadExactly, UsedBits

(* A distance of the fixed code.                                           *)
LEMMA FixedDistanceStep ==
  ASSUME HInv, Distance, fixed
  PROVE  ReadExactly
<1>1. /\ pc = "distance" /\ Len(b) >= Wanted
      /\ sym' = Number(Reverse(SubSeq(b, 1, FixedDistBits))) /\ b' = SubSeq(b, FixedDistBits + 1, Len(b))
  BY DEF Distance, Ready, Drop
<1>2. Wanted = FixedDistBits
  BY <1>1 DEF Wanted, SymbolWanted
<1>3. b \in Seq(Bit) /\ FixedDistBits \in Nat /\ FixedDistBits <= Len(b)
  BY <1>1, <1>2, Held, Widths DEF HInv
<1>4. Len(b') = Len(b) - FixedDistBits
  BY <1>1, <1>3, Dropped
<1>5. UsedBits = SubSeq(b, 1, FixedDistBits) /\ UsedBits \in Seq(Bit) /\ Len(UsedBits) = FixedDistBits
  BY <1>3, <1>4, FirstBits
<1>6. sym' = Value(UsedBits)[FixedDistBits]
  BY <1>1, <1>5, NumberReverse
<1>7. CodeInUse = [s \in 0..(Power[FixedDistBits] - 1) |-> FixedDistBits]
  BY <1>1 DEF CodeInUse
<1>8. UsedBits # <<>> => UsedBits = Canonical(CodeInUse, sym')
  <2>. SUFFICES ASSUME UsedBits # <<>> PROVE UsedBits = Canonical(CodeInUse, sym')
    OBVIOUS
  <2>1. FixedDistBits \in Nat \ {0}
    BY <1>3, <1>5
  <2>2. PICK x \in Seq(Bit) : x = UsedBits /\ Len(x) = FixedDistBits
    BY <1>5
  <2>3. Canonical([s \in 0..(Power[FixedDistBits] - 1) |-> FixedDistBits], Value(x)[FixedDistBits]) = x
    BY <2>1, <2>2, FlatCanonical
  <2>. QED  BY <1>6, <1>7, <2>2, <2>3
<1>. QED  BY <1>1, <1>8 DEF ReadExactly, UsedBits

(* The extra bits of a length.                                             *)
LEMMA ExactLength ==
  ASSUME HInv, MatchLength
  PROVE  ReadExactly
<1>1. /\ pc = "extra" /\ Len(b) >= Wanted /\ copyLen' = LengthOf(RealSymbol[sym], Field(0, Wanted))
      /\ b' = SubSeq(b, Wanted + 1, Len(b))
  BY DEF MatchLength, Ready, Drop
<1>2. RealSymbol[sym] \in 257..285
  <2>1. sym \in DOMAIN RealSymbol /\ RealSymbol[sym] < 286
    BY <1>1 DEF HInv, Follows
  <2>2. RealSymbol[sym] \in Nat /\ RealSymbol[sym] >= 257
    BY <2>1, SymbolAssumption
  <2>. QED  BY <2>1, <2>2
<1>3. b \in Seq(Bit) /\ Len(b) \in Nat /\ Wanted \in Nat
  BY Held, WantedIs, Widths DEF HInv
<1>4. Field(0, Wanted) = Number(UsedBits) /\ Field(0, Wanted) \in Nat
  BY <1>1, <1>3, FieldRead
<1>5. copyLen' = LengthBase(RealSymbol[sym]) + Number(UsedBits)
  <2>1. PICK v \in 257..285, x \in Nat : v = RealSymbol[sym] /\ x = Field(0, Wanted)
    BY <1>2, <1>4
  <2>2. LengthOf(v, x) = LengthOf(v, 0) + x /\ LengthOf(v, 0) = LengthBase(v)
    BY LengthExtra, LengthTiles
  <2>. QED  BY <1>1, <1>4, <2>1, <2>2
<1>. QED  BY <1>1, <1>5, Tiles DEF ReadExactly, UsedBits

(* The extra bits of a distance.                                           *)
LEMMA ExactDistance ==
  ASSUME HInv, MatchDistance
  PROVE  ReadExactly
<1>1. /\ pc = "distExtra" /\ Len(b) >= Wanted /\ copyDist' = DistanceOf(RealDist[sym], Field(0, Wanted))
      /\ b' = SubSeq(b, Wanted + 1, Len(b)) /\ Wanted = DistExtraBits(RealDist[sym])
  BY DEF MatchDistance, Ready, Drop, Wanted, SymbolWanted
<1>2. RealDist[sym] \in 0..29
  <2>1. sym \in DOMAIN RealDist /\ RealDist[sym] < 30
    BY <1>1 DEF HInv, Follows
  <2>2. RealDist[sym] \in Nat
    BY <2>1, SymbolAssumption
  <2>. QED  BY <2>1, <2>2
<1>3. b \in Seq(Bit) /\ Len(b) \in Nat /\ Wanted \in Nat
  BY Held, WantedIs, Widths DEF HInv
<1>4. Field(0, Wanted) = Number(UsedBits) /\ Field(0, Wanted) \in Nat
  BY <1>1, <1>3, FieldRead
<1>5. copyDist' = DistanceBase(RealDist[sym]) + Number(UsedBits)
  <2>1. PICK d \in 0..30, x \in Nat : d = RealDist[sym] /\ x = Field(0, Wanted)
    BY <1>2, <1>4
  <2>2. DistanceOf(d, 0) = DistanceBase(d) /\ DistanceOf(d, 0) \in Nat
    BY DistanceTiles, DistanceExtra
  <2>3. DistanceOf(d, x) = DistanceOf(d, 0) + x
    <3>1. CASE d >= 4
      BY <3>1, DistanceExtra
    <3>2. CASE ~(d >= 4)
      <4>1. Wanted = 0
        <5>1. d < 4
          BY <3>2
        <5>2. DistExtraBits(d) = 0
          BY <5>1, DistanceExtra
        <5>. QED  BY <1>1, <2>1, <5>2
      <4>2. x = 0
        <5>1. Len(UsedBits) = 0 /\ UsedBits \in Seq(Bit)
          <6>1. Len(b') = Len(b) - Wanted
            BY <1>1, <1>3, Dropped
          <6>. QED  BY <1>1, <1>3, <4>1, <6>1, FirstBits
        <5>2. Number(UsedBits) < Power[0] /\ Power[0] = 1
          BY <5>1, NumberBound, PowerEquations
        <5>. QED  BY <1>4, <2>1, <5>2
      <4>. QED  BY <2>2, <4>2
    <3>. QED  BY <3>1, <3>2
  <2>. QED  BY <1>1, <1>4, <2>1, <2>2, <2>3
<1>. QED  BY <1>1, <1>5 DEF ReadExactly, UsedBits

(* Every step reads exactly what the stream has.                           *)
LEMMA ExactStep ==
  ASSUME HInv, [Next]_vars
  PROVE  ReadExactly
<1>1. CASE MoreBits
  <2>1. PICK byte \in Strings(ByteBits) : b' = b \o byte
    BY <1>1 DEF MoreBits
  <2>2. byte \in Seq(Bit)
    BY Widths, StringIs
  <2>3. b \in Seq(Bit)
    BY Held DEF HInv
  <2>4. b' \in Seq(Bit) /\ Len(b') >= Len(b)
    BY <2>1, <2>2, <2>3
  <2>5. pc' = pc
    BY <1>1 DEF MoreBits
  <2>. QED  BY <2>4, <2>5, UnreadStep
<1>2. CASE InputEnds
  <2>1. b' = b /\ pc' = "failed"
    BY <1>2 DEF InputEnds, Fails
  <2>. QED  BY <2>1, KeptStep
<1>3. CASE Counts \/ CodeLength \/ RepeatLength
  <2>1. pc \in {"counts", "clens", "repeat"}
    BY <1>3 DEF Counts, CodeLength, RepeatLength, Ready
  <2>. QED  BY <2>1 DEF ReadExactly
<1>4. CASE CodeLengthsRead \/ LengthsRead
  <2>1. b' = b /\ pc \in {"clens", "code"}
    BY <1>4 DEF CodeLengthsRead, LengthsRead
  <2>. QED  BY <2>1, KeptStep
<1>5. ASSUME NEW at, NEW h, at \in {"code", "literal", "distance"}, LookAgain(at, h) \/ NoSymbol(at, h)
      PROVE  ReadExactly
  <2>1. b' = b /\ pc = at
    BY <1>5 DEF LookAgain, NoSymbol, Ready
  <2>. QED  BY <1>5, <2>1, KeptStep
<1>6. CASE ActualLength
  <2>1. Symbol("code", h1)
    BY <1>6 DEF ActualLength
  <2>. QED  BY <2>1, SymbolStep
<1>7. CASE Literal
  <2>1. Symbol("literal", Hl)
    BY <1>7 DEF Literal
  <2>. QED  BY <2>1, SymbolStep
<1>8. CASE Distance
  <2>1. ASSUME ~fixed PROVE ReadExactly
    <3>1. Symbol("distance", h2)
      BY <1>8, <2>1 DEF Distance
    <3>. QED  BY <2>1, <3>1, SymbolStep
  <2>. QED  BY <1>8, <2>1, FixedDistanceStep
<1>9. CASE UNCHANGED vars
  <2>1. b' = b /\ pc' = pc
    BY <1>9 DEF vars
  <2>. QED  BY <2>1, KeptStep
<1>. QED
  BY <1>1, <1>2, <1>3, <1>4, <1>5, <1>6, <1>7, <1>8, <1>9, ExactLength, ExactDistance
  DEF Next, Header, Symbols, Search

---------------------------------------------------------------------------
(* The theorems *)

(* f.b never needs more than the widest field and a byte, and no symbol of *)
(* a header that is accepted is outside of the arrays (inflate.go:465-553, *)
(* 862-876).                                                               *)
THEOREM Typed == Spec => []TypeOK
<1>1. HInv => TypeOK
  BY DEF HInv
<1>. QED  BY <1>1, Invariant, PTL

(* Once a header is read, f.codebits and f.bits hold the code lengths that *)
(* it stands for and none of an earlier block (inflate.go:491, 524).       *)
THEOREM HeaderRead == Spec => []LengthsExact
<1>1. HInv => LengthsExact
  BY DEF HInv, Gathered, InHeaderCode, LengthsExact
<1>. QED  BY <1>1, Invariant, PTL

(* The panics of init called impossible are: every code that passes the    *)
(* test for completeness fills the tables, each place once, whatever       *)
(* tables a block before left (inflate.go:268-333).                        *)
THEOREM TablesFilled == Spec => []NeverImpossible
<1>1. HInv => NeverImpossible
  BY DEF HInv
<1>. QED  BY <1>1, Invariant, PTL

(* At the end of a block less than a byte is left of what has been read,   *)
(* whatever the lengths of its codes: nothing behind the stream is         *)
(* consumed (inflate.go:547-560, 824-858).                                 *)
THEOREM NothingBehind == Spec => []NoOverread
<1>1. HInv => NoOverread
  BY DEF HInv, Frugal, NoOverread
<1>. QED  BY <1>1, Invariant, PTL

(* Whatever code is in use and however the bytes cut it, a symbol is the   *)
(* one whose canonical code the stream has next, exactly its bits are used *)
(* up, and a match has the length and the distance that its symbols and    *)
(* extra bits stand for (inflate.go:607-682, 824-858).                     *)
THEOREM ReadExact == Spec => SymbolsExact
<1>1. HInv /\ [Next]_vars => [ReadExactly]_vars
  BY ExactStep
<1>. QED  BY <1>1, Invariant, PTL DEF Spec, SymbolsExact
=============================================================================
