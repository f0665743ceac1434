------------------------------ MODULE Huffman ------------------------------
(***************************************************************************)
(* Huffman decoding (flate/inflate.go): the lookup tables of               *)
(* huffmanDecoder.init, readHuffman's header of a dynamic block, huffSym,  *)
(* and the symbols of a block as huffmanBlock reads them.  The input is    *)
(* any sequence of bytes behind one of some headers, and may fail.         *)
(*                                                                         *)
(* A string of bits is a sequence in the order of the stream, so f.b and   *)
(* f.nb are one sequence b.  An index into a table is such a string: that  *)
(* is what bits.Reverse16 makes of a code.  All widths are constants; the  *)
(* code's are given behind them.                                           *)
(***************************************************************************)
EXTENDS Integers, SequencesExt

CONSTANTS
  ByteBits,    \* bits of a byte: 8
  ChunkBits,   \* huffmanChunkBits: 9
  MaxLen,      \* longest code: 15
  LitBits, DistBits, CLenBits,   \* HLIT, HDIST and HCLEN: 5, 5 and 4 bits
  CLenBase,    \* code lengths of the code length code there are at least: 4
  LengthBits,  \* width of one of them: 3
  MaxNumLit, MaxNumDist,         \* 286 and 30
  EndBlock,    \* endBlockMarker: 256
  CodeOrder,   \* codeOrder, a permutation of 0..18
  Repeats,     \* for the symbols beyond MaxLen: what they repeat, how often
  RealSymbol,  \* the code's number for a symbol beyond EndBlock: 257 up to 287
  RealDist,    \* the code's number for a distance symbol: 0 up to 31
  FixedLens,   \* code lengths of the fixed code
  FixedDistBits, \* width of a distance there: 5
  Headers,     \* bounds the input: the bits a dynamic block begins with
  Earlier      \* what an earlier block leaves: [codebits, bits, nlit, ndist]

Bit == {0, 1}
Strings(n) == [1..n -> Bit]

(* 1 << n *)
Power[n \in Nat] == IF n = 0 THEN 1 ELSE 2 * Power[n - 1]

(* A field of bits, whose first one is the lowest.                         *)
Number(s) ==
  LET upTo[k \in 0..Len(s)] ==
        IF k = 0 THEN 0 ELSE upTo[k - 1] + (IF s[k] = 1 THEN Power[k - 1] ELSE 0)
  IN  upTo[Len(s)]

(* The n bits of a code c, which come highest first.                       *)
Word(c, n) == [k \in 1..n |-> (c \div Power[n - k]) % 2]

Chunk == [n : 0..MaxLen, sym : Nat]
NoChunk == [n |-> 0, sym |-> 0]
Link == [n |-> ChunkBits + 1, sym |-> 0]

Widest == MaxLen + LitBits + DistBits + CLenBits

ASSUME WidthAssumption ==
  /\ {ByteBits, ChunkBits, LengthBits, CLenBase} \subseteq Nat \ {0}
  /\ {MaxLen, LitBits, DistBits, CLenBits, FixedDistBits, MaxNumLit, MaxNumDist} \subseteq Nat
  /\ EndBlock \in 0..(MaxNumLit - 1)
  /\ Power[LengthBits] - 1 <= MaxLen /\ {LengthBits, FixedDistBits} \subseteq 0..Widest

(* The code length code has a symbol for each length and for each kind of  *)
(* repeat, and all that a header can count are in CodeOrder.               *)
ASSUME CodeOrderAssumption ==
  /\ CodeOrder \in Seq(Nat) /\ ToSet(CodeOrder) = 0..(Len(CodeOrder) - 1)
  /\ \A j, k \in DOMAIN CodeOrder : CodeOrder[j] = CodeOrder[k] => j = k
  /\ CLenBase + Power[CLenBits] - 1 <= Len(CodeOrder) /\ Len(CodeOrder) <= MaxNumLit + MaxNumDist
  /\ ToSet(CodeOrder) \subseteq 0..MaxLen \cup DOMAIN Repeats /\ DOMAIN Repeats \cap 0..MaxLen = {}
  /\ \A r \in DOMAIN Repeats : Repeats[r] \in [copy : BOOLEAN, base : Nat \ {0}, bits : 0..Widest]

---------------------------------------------------------------------------
(* huffmanDecoder.init                                                     *)

EmptyTable ==
  [min |-> 0, max |-> 0, chunks |-> [s \in Strings(ChunkBits) |-> NoChunk], links |-> <<>>]

Used(lens) == {s \in DOMAIN lens : lens[s] # 0}
Least(lens) == IF Used(lens) = {} THEN 0 ELSE Min({lens[s] : s \in Used(lens)})
Greatest(lens) == IF Used(lens) = {} THEN 0 ELSE Max({lens[s] : s \in Used(lens)})
OfLength(lens, n) == {s \in Used(lens) : lens[s] = n}

(* code behind the round for length n, and nextcode[n].                    *)
CodeBehind(lens) ==
  LET c[n \in 0..MaxLen] ==
        IF n < Least(lens) \/ n = 0 THEN 0 ELSE 2 * c[n - 1] + Cardinality(OfLength(lens, n))
  IN  c
NextCode(lens, n) == 2 * CodeBehind(lens)[n - 1]

Degenerate(lens) == Greatest(lens) = 1 /\ CodeBehind(lens)[1] = 1

Complete(lens) == CodeBehind(lens)[Greatest(lens)] = Power[Greatest(lens)] \/ Degenerate(lens)

(* The code of a symbol: those of its length are counted up.               *)
CodeOf(lens, s) ==
  Word(NextCode(lens, lens[s]) + Cardinality({t \in OfLength(lens, lens[s]) : t < s}), lens[s])

(* Does the chunk at i lead to an overflow table?                          *)
Linked(lens, i) ==
  /\ Greatest(lens) > ChunkBits
  /\ Number(Reverse(i)) >= NextCode(lens, ChunkBits + 1) \div 2

(* What init writes to chunk i, and to place j of the overflow table of i. *)
Written(lens, i) ==
  {[n |-> lens[s], sym |-> s] : s \in {t \in Used(lens) :
     lens[t] <= ChunkBits /\ IsPrefix(CodeOf(lens, t), i)}}
  \cup (IF Linked(lens, i) THEN {Link} ELSE {})

WrittenBehind(lens, i, j) ==
  {[n |-> lens[s], sym |-> s] : s \in {t \in Used(lens) :
     lens[t] > ChunkBits /\ IsPrefix(CodeOf(lens, t), i \o j)}}

Table(lens) ==
  [min |-> Least(lens), max |-> Greatest(lens),
   chunks |-> [i \in Strings(ChunkBits) |->
                 IF Written(lens, i) = {} THEN NoChunk ELSE CHOOSE c \in Written(lens, i) : TRUE],
   links |-> [i \in {k \in Strings(ChunkBits) : Linked(lens, k)} |->
                [j \in Strings(Greatest(lens) - ChunkBits) |->
                   IF WrittenBehind(lens, i, j) = {} THEN NoChunk
                   ELSE CHOOSE c \in WrittenBehind(lens, i, j) : TRUE]]]

(* The panics of init called "impossible": a chunk written twice, also if  *)
(* it was so before; one not written, but for the half a single code of    *)
(* one bit leaves; a long code whose chunk leads nowhere.                  *)
Impossible(h, lens) ==
  \/ \E i \in Strings(ChunkBits) :
       \/ Cardinality(Written(lens, i)) > 1
       \/ Written(lens, i) # {} /\ h.chunks[i] # NoChunk
       \/ Written(lens, i) = {} /\ ~(Degenerate(lens) /\ i[1] = 1)
       \/ Linked(lens, i) /\ \E j \in Strings(Greatest(lens) - ChunkBits) :
            Cardinality(WrittenBehind(lens, i, j)) # 1
       \/ ~Linked(lens, i) /\ \E s \in Used(lens) :
            lens[s] > ChunkBits /\ IsPrefix(i, CodeOf(lens, s))

\* Mutant of Reinit: the tables of the block before are kept.
ReinitNever(h) == h

Reinit(h) == IF h.min # 0 THEN EmptyTable ELSE h

(* How init ends, and what it leaves in h.                                 *)
InitResult(h, lens) ==
  IF Used(lens) = {} THEN "ok"
  ELSE IF ~Complete(lens) THEN "incomplete"
  ELSE IF Impossible(Reinit(h), lens) THEN "impossible" ELSE "ok"

Initialized(h, lens) == IF Used(lens) = {} THEN Reinit(h) ELSE Table(lens)

---------------------------------------------------------------------------
(* Lengths and distances: huffmanBlock's formulas, with the code's numbers *)

ExtraBits(v) ==
  CASE v \in 265..268 -> 1 [] v \in 269..272 -> 2 [] v \in 273..276 -> 3 [] v \in 277..280 -> 4
    [] v \in 281..284 -> 5 [] OTHER -> 0

LengthOf(v, extra) ==
  extra + CASE v < 265 -> v - (257 - 3)
            [] v \in 265..268 -> v * 2 - (265 * 2 - 11)
            [] v \in 269..272 -> v * 4 - (269 * 4 - 19)
            [] v \in 273..276 -> v * 8 - (273 * 8 - 35)
            [] v \in 277..280 -> v * 16 - (277 * 16 - 67)
            [] v \in 281..284 -> v * 32 - (281 * 32 - 131)
            [] OTHER -> 258

DistExtraBits(d) == IF d < 4 THEN 0 ELSE (d - 2) \div 2

DistanceOf(d, extra) ==
  IF d < 4 THEN d + 1
  ELSE Power[DistExtraBits(d) + 1] + 1 + (d % 2) * Power[DistExtraBits(d)] + extra

Lengths0(lens) == [s \in 0..(Len(lens) - 1) |-> lens[s + 1]]

(* Every symbol has a number and a field that is not too wide.             *)
ASSUME SymbolAssumption ==
  /\ FixedLens \in Seq(0..MaxLen) /\ EndBlock < Len(FixedLens)
  /\ (EndBlock + 1)..(MaxNumLit - 1) \subseteq DOMAIN RealSymbol
  /\ (EndBlock + 1)..(Len(FixedLens) - 1) \subseteq DOMAIN RealSymbol
  /\ 0..(MaxNumDist - 1) \subseteq DOMAIN RealDist /\ 0..(Power[FixedDistBits] - 1) \subseteq DOMAIN RealDist
  /\ \A s \in DOMAIN RealSymbol :
       RealSymbol[s] \in Nat /\ RealSymbol[s] >= 257 /\ ExtraBits(RealSymbol[s]) <= Widest
  /\ \A d \in DOMAIN RealDist :
       RealDist[d] \in Nat /\ (RealDist[d] < 30 => DistExtraBits(RealDist[d]) <= Widest)

(* The fixed code is complete, and no symbol is shorter than the end       *)
(* marker.                                                                 *)
ASSUME FixedAssumption ==
  /\ Complete(Lengths0(FixedLens))
  /\ FixedLens[EndBlock + 1] = Least(Lengths0(FixedLens)) /\ FixedLens[EndBlock + 1] # 0

ASSUME InputAssumption ==
  /\ \A s \in Headers : s \in Seq(Bit) /\ Len(s) >= ByteBits
  /\ Earlier.codebits \in [0..(Len(CodeOrder) - 1) -> 0..MaxLen]
  /\ Earlier.bits \in [0..(MaxNumLit + MaxNumDist - 1) -> 0..MaxLen]
  /\ Earlier.nlit \in (EndBlock + 1)..MaxNumLit /\ Earlier.ndist \in 0..MaxNumDist

---------------------------------------------------------------------------
VARIABLES
  pc,        \* what is read next, or how the block ended
  input,     \* bounds the input: what is left of those bits
  b,         \* f.b and f.nb: the bits read and not yet used
  need,      \* n of huffSym: bits the next symbol has at least
  nlit, ndist, nclen, i,   \* readHuffman's variables
  codebits, bits,          \* f.codebits, f.bits: code lengths
  h1, h2,    \* the Huffman decoders
  fixed,     \* f.hl, f.hd: is it the fixed code?
  sym,       \* the symbol read last
  copyLen, copyDist,       \* f.copyLen, f.copyDist
  err,       \* f.err
  tokens     \* history: what the code lengths have been read from

countVars  == <<nlit, ndist, nclen>>
lengthVars == <<codebits, bits, i, tokens>>
tableVars  == <<h1, h2, fixed>>
matchVars  == <<copyLen, copyDist>>
vars == <<pc, input, b, need, countVars, lengthVars, tableVars, sym, matchVars, err>>

Ended == {"done", "failed", "incomplete", "impossible"}

FixedTable == Table(Lengths0(FixedLens))

LitLens  == IF fixed THEN Lengths0(FixedLens) ELSE [s \in 0..(nlit - 1) |-> bits[s]]
DistLens == [s \in 0..(ndist - 1) |-> bits[nlit + s]]

BumpMax(h) == h.max   \* mutant of Bump

(* Every block ends with its end marker: that many bits there are.         *)
Bump(h) == IF h.min < bits[EndBlock] THEN bits[EndBlock] ELSE h.min

InitNew ==
  /\ codebits = [s \in DOMAIN Earlier.codebits |-> 0]
  /\ bits = [k \in 0..(MaxNumLit + MaxNumDist - 1) |-> 0]
  /\ h1 = EmptyTable /\ h2 = EmptyTable

InitUsed ==
  /\ codebits = Earlier.codebits /\ bits = Earlier.bits
  /\ LET h == Initialized(EmptyTable, [s \in 0..(Earlier.nlit - 1) |-> bits[s]])
     IN  h1 = [h EXCEPT !.min = Bump(h)]
  /\ h2 = Initialized(EmptyTable, [s \in 0..(Earlier.ndist - 1) |-> bits[Earlier.nlit + s]])

(* A dynamic or a fixed block, with less than a byte read ahead, of a      *)
(* decompressor that is new or has decoded a dynamic block before.         *)
Init ==
  /\ InitNew \/ InitUsed
  /\ nlit = 0 /\ ndist = 0 /\ nclen = 0 /\ i = 0 /\ tokens = <<>>
  /\ sym = 0 /\ copyLen = 0 /\ copyDist = 0 /\ err = "nil"
  /\ \E k \in 0..(ByteBits - 1) :
       \/ /\ fixed = TRUE /\ pc = "literal" /\ need = FixedTable.min
          /\ input = <<>> /\ b \in Strings(k)
       \/ /\ fixed = FALSE /\ pc = "counts" /\ need = 0
          /\ \E s \in Headers : b = SubSeq(s, 1, k) /\ input = SubSeq(s, k + 1, Len(s))

Hl == IF fixed THEN FixedTable ELSE h1

---------------------------------------------------------------------------
(* Reading bits                                                            *)

SymbolWanted ==
  (pc = "code" /\ i < nlit + ndist) \/ pc = "literal" \/ (pc = "distance" /\ ~fixed)

(* The bits there must be before the code goes on.                         *)
Wanted ==
  CASE SymbolWanted     -> need
    [] pc = "counts"    -> LitBits + DistBits + CLenBits
    [] pc = "clens" /\ i < nclen -> LengthBits
    [] pc = "repeat"    -> Repeats[sym].bits
    [] pc = "extra"     -> ExtraBits(RealSymbol[sym])
    [] pc = "distance" /\ fixed -> FixedDistBits
    [] pc = "distExtra" -> DistExtraBits(RealDist[sym])
    [] OTHER            -> 0

(* moreBits, and the same in huffSym: one byte.  What is left in b after   *)
(* an error is not used again.                                             *)
MoreBits ==
  /\ Len(b) < Wanted
  /\ \E byte \in Strings(ByteBits) :
       /\ \A k \in DOMAIN byte \cap DOMAIN input : byte[k] = input[k]
       /\ b' = b \o byte
  /\ input' = SubSeq(input, ByteBits + 1, Len(input))
  /\ UNCHANGED <<pc, need, countVars, lengthVars, tableVars, sym, matchVars, err>>

Fails(e) ==
  /\ err' = e
  /\ pc' = "failed"
  /\ UNCHANGED <<input, need, countVars, lengthVars, tableVars, matchVars>>

InputEnds ==
  /\ Len(b) < Wanted
  /\ Fails("ErrUnexpectedEOF")
  /\ UNCHANGED <<b, sym>>

Ready(at) == pc = at /\ Len(b) >= Wanted

(* Take the next n bits out of b.                                          *)
Drop(n) == b' = SubSeq(b, n + 1, Len(b))
Field(from, n) == Number(SubSeq(b, from + 1, from + n))

---------------------------------------------------------------------------
(* huffSym                                                                 *)

BitAt(k) == IF k <= Len(b) THEN b[k] ELSE 0

LinkIndexUnshifted(n) == [j \in 1..n |-> BitAt(j)]   \* mutant of LinkIndex
LinkIndex(n) == [j \in 1..n |-> BitAt(ChunkBits + j)]

(* The chunk for the bits there are, with zeros behind them.               *)
Find(h) ==
  LET k == [j \in 1..ChunkBits |-> BitAt(j)]
      c == h.chunks[k]
  IN  IF c.n <= ChunkBits THEN c
      ELSE h.links[k][LinkIndex(h.max - ChunkBits)]

(* The chunk says that there are more bits to the symbol.                  *)
NeedMore(h) == Find(h).n > Len(b)

NeedSame(h) == need            \* mutant of Need: n stays what it was
Need(h) == Find(h).n

LookAgain(at, h) ==
  /\ Ready(at) /\ NeedMore(h)
  /\ need' = Need(h)
  /\ UNCHANGED <<pc, input, b, countVars, lengthVars, tableVars, sym, matchVars, err>>

NoSymbol(at, h) ==
  /\ Ready(at) /\ ~NeedMore(h) /\ Find(h).n = 0
  /\ Fails("corrupt")
  /\ UNCHANGED <<b, sym>>

Symbol(at, h) ==
  /\ Ready(at) /\ ~NeedMore(h) /\ Find(h).n > 0
  /\ sym' = Find(h).sym
  /\ Drop(Find(h).n)

---------------------------------------------------------------------------
(* readHuffman                                                             *)

Counts ==
  /\ Ready("counts")
  /\ nlit' = Field(0, LitBits) + EndBlock + 1
  /\ ndist' = Field(LitBits, DistBits) + 1
  /\ nclen' = Field(LitBits + DistBits, CLenBits) + CLenBase
  /\ Drop(LitBits + DistBits + CLenBits)
  /\ IF nlit' > MaxNumLit \/ ndist' > MaxNumDist
       THEN pc' = "failed" /\ err' = "corrupt"
       ELSE pc' = "clens" /\ UNCHANGED err
  /\ UNCHANGED <<input, need, lengthVars, tableVars, sym, matchVars>>

CodeLength ==
  /\ Ready("clens") /\ i < nclen
  /\ codebits' = [codebits EXCEPT ![CodeOrder[i + 1]] = Field(0, LengthBits)]
  /\ i' = i + 1
  /\ tokens' = Append(tokens, Field(0, LengthBits))
  /\ Drop(LengthBits)
  /\ UNCHANGED <<pc, input, need, bits, countVars, tableVars, sym, matchVars, err>>

\* Mutant of Absent: what an earlier block left stays.
AbsentKept == [s \in DOMAIN codebits |-> codebits[s]]

(* The lengths that are not there are zero.                                *)
Absent ==
  [s \in DOMAIN codebits |->
     IF \E k \in (nclen + 1)..Len(CodeOrder) : CodeOrder[k] = s THEN 0 ELSE codebits[s]]

CodeLengthsRead ==
  /\ pc = "clens" /\ i = nclen
  /\ codebits' = Absent
  /\ i' = 0 /\ tokens' = <<>>
  /\ LET end == InitResult(h1, codebits')
         h   == Initialized(h1, codebits')
     IN  IF end = "ok" THEN pc' = "code" /\ h1' = h /\ need' = h.min
                       ELSE pc' = end /\ UNCHANGED <<h1, need>>
  /\ UNCHANGED <<input, b, countVars, bits, h2, fixed, sym, matchVars, err>>

(* The next n code lengths are x.                                          *)
Lengths(x, n) ==
  /\ bits' = [k \in DOMAIN bits |-> IF k \in i..(i + n - 1) THEN x ELSE bits[k]]
  /\ i' = i + n

ActualLength ==
  /\ i < nlit + ndist
  /\ Symbol("code", h1)
  /\ IF sym' \in DOMAIN Repeats
       THEN IF Repeats[sym'].copy /\ i = 0
              THEN pc' = "failed" /\ err' = "corrupt" /\ UNCHANGED <<bits, i, need, tokens>>
              ELSE pc' = "repeat" /\ UNCHANGED <<bits, i, need, err, tokens>>
       ELSE /\ Lengths(sym', 1)
            /\ tokens' = Append(tokens, <<sym', 0>>)
            /\ need' = h1.min
            /\ UNCHANGED <<pc, err>>
  /\ UNCHANGED <<input, countVars, codebits, tableVars, matchVars>>

Repeated(x) == IF x.copy THEN bits[i - 1] ELSE 0

TooManyByOne(rep) == i + rep > nlit + ndist + 1   \* mutant of TooMany
TooMany(rep) == i + rep > nlit + ndist

RepeatLength ==
  /\ Ready("repeat")
  /\ LET rep == Repeats[sym].base + Field(0, Wanted)
     IN  IF TooMany(rep)
           THEN pc' = "failed" /\ err' = "corrupt" /\ UNCHANGED <<bits, i, need, tokens>>
           ELSE /\ Lengths(Repeated(Repeats[sym]), rep)
                /\ tokens' = Append(tokens, <<sym, rep>>)
                /\ pc' = "code" /\ need' = h1.min
                /\ UNCHANGED err
  /\ Drop(Wanted)
  /\ UNCHANGED <<input, countVars, codebits, tableVars, sym, matchVars>>

LengthsRead ==
  /\ pc = "code" /\ i = nlit + ndist
  /\ LET end1 == InitResult(h1, LitLens)
         end2 == InitResult(h2, DistLens)
         h    == Initialized(h1, LitLens)
     IN  IF end1 # "ok" THEN pc' = end1 /\ UNCHANGED <<h1, h2, need>>
         ELSE /\ h1' = [h EXCEPT !.min = Bump(h)]
              /\ IF end2 # "ok" THEN pc' = end2 /\ UNCHANGED <<h2, need>>
                 ELSE pc' = "literal" /\ h2' = Initialized(h2, DistLens) /\ need' = h1'.min
  /\ tokens' = <<>>
  /\ UNCHANGED <<input, b, countVars, codebits, bits, i, fixed, sym, matchVars, err>>

---------------------------------------------------------------------------
(* The symbols of a block: huffmanBlock                                    *)

Literal ==
  /\ Symbol("literal", Hl)
  /\ CASE sym' < EndBlock -> need' = Hl.min /\ UNCHANGED <<pc, err>>
       [] sym' = EndBlock -> pc' = "done" /\ UNCHANGED <<need, err>>
       [] OTHER -> IF RealSymbol[sym'] < 286
                     THEN pc' = "extra" /\ UNCHANGED <<need, err>>
                     ELSE pc' = "failed" /\ err' = "corrupt" /\ UNCHANGED need
  /\ UNCHANGED <<input, countVars, lengthVars, tableVars, matchVars>>

MatchLength ==
  /\ Ready("extra")
  /\ copyLen' = LengthOf(RealSymbol[sym], Field(0, Wanted))
  /\ Drop(Wanted)
  /\ pc' = "distance"
  /\ need' = h2.min
  /\ UNCHANGED <<input, countVars, lengthVars, tableVars, sym, copyDist, err>>

(* A distance symbol: a code, or in a fixed block five bits, highest first.*)
Distance ==
  /\ IF fixed
       THEN /\ Ready("distance")
            /\ sym' = Number(Reverse(SubSeq(b, 1, FixedDistBits)))
            /\ Drop(FixedDistBits)
       ELSE Symbol("distance", h2)
  /\ IF RealDist[sym'] < 30
       THEN pc' = "distExtra" /\ UNCHANGED err
       ELSE pc' = "failed" /\ err' = "corrupt"
  /\ UNCHANGED <<input, need, countVars, lengthVars, tableVars, matchVars>>

MatchDistance ==
  /\ Ready("distExtra")
  /\ copyDist' = DistanceOf(RealDist[sym], Field(0, Wanted))
  /\ Drop(Wanted)
  /\ pc' = "literal"
  /\ need' = Hl.min
  /\ UNCHANGED <<input, countVars, lengthVars, tableVars, sym, copyLen, err>>

---------------------------------------------------------------------------
Search(at, h) == LookAgain(at, h) \/ NoSymbol(at, h)

Header ==
  \/ Counts \/ CodeLength \/ CodeLengthsRead
  \/ (i < nlit + ndist /\ Search("code", h1)) \/ ActualLength \/ RepeatLength \/ LengthsRead

Symbols ==
  \/ Search("literal", Hl) \/ Literal \/ MatchLength
  \/ (~fixed /\ Search("distance", h2)) \/ Distance \/ MatchDistance

Next == MoreBits \/ InputEnds \/ Header \/ Symbols

Spec == Init /\ [][Next]_vars
FairSpec == Spec /\ WF_vars(Next)

---------------------------------------------------------------------------
(* Properties                                                              *)

(* The fields hold what the decoder's variables and arrays can hold.       *)
TypeOK ==
  /\ pc \in Ended \cup {"counts", "clens", "code", "repeat", "literal", "extra", "distance",
                        "distExtra"}
  /\ b \in UNION {Strings(n) : n \in 0..(MaxLen + LitBits + DistBits + CLenBits + ByteBits)}
  /\ codebits \in [0..(Len(CodeOrder) - 1) -> 0..MaxLen]
  /\ bits \in [0..(MaxNumLit + MaxNumDist - 1) -> 0..MaxLen]
  /\ i \in 0..(MaxNumLit + MaxNumDist)
  /\ need \in 0..MaxLen
  /\ err \in {"nil", "ErrUnexpectedEOF", "corrupt"} /\ (err = "nil") = (pc # "failed")

(* The canonical code of RFC 1951 3.2.2 in its closed form: the share of   *)
(* all strings that the shorter codes, and the earlier ones of the same    *)
(* length, have taken.                                                     *)
Canonical(lens, s) ==
  LET n == lens[s]
      share[k \in 0..n] ==
        IF k = 0 THEN 0 ELSE share[k - 1] + Cardinality(OfLength(lens, k)) * Power[n - k]
  IN  Word(share[n - 1] + Cardinality({t \in OfLength(lens, n) : t < s}), n)

(* The code a symbol is read in now.                                       *)
CodeInUse ==
  CASE pc = "code"    -> codebits
    [] pc = "literal" -> LitLens
    [] OTHER          -> IF fixed THEN [s \in 0..(Power[FixedDistBits] - 1) |-> FixedDistBits] ELSE DistLens

(* The code lengths that a sequence of symbols and repeat counts stands    *)
(* for.                                                                    *)
Lasting(lens, t) ==
  IF t[1] \notin DOMAIN Repeats THEN <<t[1]>>
  ELSE [k \in 1..t[2] |-> IF Repeats[t[1]].copy THEN Last(lens) ELSE 0]

Expanded(ts) ==
  LET upTo[k \in 0..Len(ts)] ==
        IF k = 0 THEN <<>> ELSE upTo[k - 1] \o Lasting(upTo[k - 1], ts[k])
  IN  upTo[Len(ts)]

(* f.codebits and f.bits are reused from block to block: once a header is  *)
(* read, they hold its code lengths and none of an earlier block, also     *)
(* those it does not send and those a repeat carries from the literals     *)
(* into the distances (inflate.go:491, 524).                               *)
LengthsExact ==
  /\ pc = "clens" => \A k \in 1..i : codebits[CodeOrder[k]] = tokens[k]
  /\ pc = "code" =>
       /\ \A k \in (nclen + 1)..Len(CodeOrder) : codebits[CodeOrder[k]] = 0
       /\ [k \in 1..i |-> bits[k - 1]] = Expanded(tokens)

(* The panics of init that are called impossible are: every code that      *)
(* passes the test for completeness fills the tables once and leaves no    *)
(* chunk out (inflate.go:268-333).                                         *)
NeverImpossible == pc # "impossible"

(* "we never read any extra bytes after the end of the DEFLATE stream"     *)
(* (inflate.go:558): at the end of a block less than a byte is left, so    *)
(* what follows the stream is still to be read.                            *)
NoOverread == pc = "done" => Len(b) < ByteBits

(* RFC 1951 3.2.5: the lengths tile 3..258 in the order of the symbols,    *)
(* each with all its extra bits, and 258 has a symbol of its own as well;  *)
(* the distances tile 1..32768.                                            *)
LengthBase(v) ==
  LET from[k \in 0..(v - 257)] == IF k = 0 THEN 3 ELSE from[k - 1] + Power[ExtraBits(256 + k)]
  IN  IF v = 285 THEN 258 ELSE from[v - 257]

DistanceBase(d) ==
  LET from[e \in 0..d] == IF e = 0 THEN 1 ELSE from[e - 1] + Power[DistExtraBits(e - 1)]
  IN  from[d]

Tiled ==
  /\ \A v \in 257..285 : LengthOf(v, 0) = LengthBase(v)
  /\ \A d \in 0..29 : DistanceOf(d, 0) = DistanceBase(d)
  /\ LengthBase(284) + 31 = 258 /\ DistanceBase(30) = 32769

(* Whatever tables the block before left, however the bytes cut the codes, *)
(* and through the overflow tables: a symbol huffSym returns (or that the  *)
(* fixed distances are read as) is the one whose canonical code the stream *)
(* has next, and exactly its bits are used up.  And a match is decoded to  *)
(* the length and the distance its symbols and extra bits stand for; with  *)
(* the code's own numbers the tiling is the RFC's (inflate.go:607-682,     *)
(* 824-858).                                                               *)
ReadExactly ==
  LET used == SubSeq(b, 1, Len(b) - Len(b'))
  IN  /\ (pc \in {"code", "literal", "distance"} /\ used # <<>>)
           => used = Canonical(CodeInUse, sym')
      /\ pc = "extra" => Tiled
      /\ pc = "extra" /\ pc' = "distance"
           => copyLen' = LengthBase(RealSymbol[sym]) + Number(used)
      /\ pc = "distExtra" /\ pc' = "literal"
           => copyDist' = DistanceBase(RealDist[sym]) + Number(used)

SymbolsExact == [][ReadExactly]_vars

(* However the header is cut, and whatever it says, reading it ends: with  *)
(* the symbols of the block, with an error or with a panic; the loop of    *)
(* huffSym never goes around without a bit more (inflate.go:829-858).      *)
InHeader == pc \in {"counts", "clens", "code", "repeat"}
HeaderEnds == InHeader ~> ~InHeader

(* init's sanity checks are meant for development (inflate.go:199): of a   *)
(* corrupt header, callers expect a CorruptInputError (inflate.go:108).    *)
CorruptIsReported == pc # "incomplete"
=============================================================================
