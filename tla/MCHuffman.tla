----------------------------- MODULE MCHuffman -----------------------------
(***************************************************************************)
(* A small Deflate for TLC: codes of up to three bits, tables of two, four *)
(* literal symbols and two distances, and headers with every kind of code  *)
(* for the code lengths, behind which the input is free.                   *)
(***************************************************************************)
EXTENDS Huffman

(* A field of a header, lowest bit first.                                  *)
LowFirst(v, n) == [k \in 1..n |-> (v \div 2^(k - 1)) % 2]

MCCodeOrder == <<4, 5, 0, 2, 1, 3>>
MCRepeats == 4 :> [copy |-> TRUE, base |-> 2, bits |-> 1] @@ 5 :> [copy |-> FALSE, base |-> 2, bits |-> 1]

(* The header of counts l, d and c, and the code lengths of a code.        *)
HeaderBits(l, d, c, lens) ==
  LowFirst(l, LitBits) \o LowFirst(d, DistBits) \o LowFirst(c, CLenBits)
  \o FoldLeft(LAMBDA s, k : s \o LowFirst(lens[MCCodeOrder[k] + 1], LengthBits), <<>>,
              [k \in 1..(CLenBase + c) |-> k])

(* The lengths of the codes for 0 to 3, copy and zeros: all, all but the   *)
(* longest (also where it is not sent), two of one bit, a single one,      *)
(* none; too few, and too few but for one that an earlier block sent, and  *)
(* too many.                                                               *)
MCHeaders ==
  {HeaderBits(1, 1, 1, <<3, 2, 2, 3, 3, 3>>), HeaderBits(2, 0, 1, <<3, 1, 2, 0, 3, 0>>),
   HeaderBits(0, 1, 0, <<3, 1, 2, 0, 3, 0>>), HeaderBits(2, 1, 1, <<0, 1, 1, 0, 0, 0>>),
   HeaderBits(2, 1, 1, <<0, 0, 2, 2, 1, 0>>), HeaderBits(1, 1, 1, <<2, 2, 0, 0, 0, 1>>),
   HeaderBits(0, 0, 1, <<0, 1, 0, 0, 0, 0>>), HeaderBits(0, 0, 0, <<0, 0, 0, 0, 0, 0>>),
   HeaderBits(3, 0, 1, <<0, 1, 0, 0, 0, 0>>), HeaderBits(0, 0, 1, <<0, 2, 0, 0, 2, 0>>),
   HeaderBits(0, 0, 0, <<0, 1, 2, 0, 0, 0>>), HeaderBits(0, 0, 1, <<1, 1, 1, 0, 0, 0>>)}

MCRealSymbol == 2 :> 265 @@ 3 :> 285 @@ 4 :> 286
MCRealDist == 0 :> 3 @@ 1 :> 4 @@ 2 :> 7 @@ 3 :> 30
MCFixedLens == <<3, 2, 2, 2, 3>>
MCEarlier ==
  [codebits |-> [s \in 0..5 |-> IF s \in {3, 5} THEN 2 ELSE 3],
   bits |-> Lengths0(<<2, 3, 1, 3, 1, 1>>), nlit |-> 4, ndist |-> 2]
=============================================================================
