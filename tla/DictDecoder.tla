---------------------------- MODULE DictDecoder ----------------------------
(***************************************************************************)
(* The sliding window of the decompressor (flate/dict_decoder.go): a       *)
(* buffer dd.hist of W bytes, written at wrPos, of which the bytes up to   *)
(* rdPos have been handed out, and full once it has wrapped around.        *)
(*                                                                         *)
(* Operators on such a record; Inflate.tla is the program that calls them. *)
(* The two loops that copy (writeCopy, tryWriteCopy) move bytes chunk by   *)
(* chunk: a chunk is Blit, and the loop is the caller's, one step each.    *)
(***************************************************************************)
EXTENDS Naturals, Sequences

CONSTANTS
  W,     \* len(hist): 32768 in the code
  Byte   \* values of a byte

ASSUME WindowAssumption == W \in Nat \ {0} /\ 0 \in Byte

Dict == [hist : [0..(W - 1) -> Byte], wrPos : 0..W, rdPos : 0..W, full : BOOLEAN]

Lesser(a, b) == IF a < b THEN a ELSE b

(* init without a preset dictionary: make gives zeroes. *)
EmptyDict == [hist |-> [i \in 0..(W - 1) |-> 0], wrPos |-> 0, rdPos |-> 0, full |-> FALSE]

HistSize(dd) == IF dd.full THEN W ELSE dd.wrPos

AvailRead(dd) == dd.wrPos - dd.rdPos

AvailWrite(dd) == W - dd.wrPos

(* The bytes of s go to hist[pos:]. *)
Put(hist, pos, s) ==
  [i \in 0..(W - 1) |-> IF pos <= i /\ i < pos + Len(s) THEN s[i - pos + 1] ELSE hist[i]]

(* writeByte, and the read into writeSlice with the writeMark after it.    *)
Write(dd, s) == [dd EXCEPT !.hist = Put(@, dd.wrPos, s), !.wrPos = @ + Len(s)]

(* The n bytes from src on, as they are before any of them is overwritten. *)
Slice(hist, src, n) == [i \in 1..n |-> hist[src + i - 1]]

(* copy(hist[dst:dst+n], hist[src:src+n]) has the effect of memmove.       *)
Blit(hist, dst, src, n) == Put(hist, dst, Slice(hist, src, n))

(* What readFlush returns, and what it leaves.                             *)
Unread(dd) == Slice(dd.hist, dd.rdPos, AvailRead(dd))

\* Mutant of Flushed: the window does not wrap around.
FlushedNoWrap(dd) == [dd EXCEPT !.rdPos = dd.wrPos]

Flushed(dd) ==
  IF dd.wrPos = W THEN [dd EXCEPT !.wrPos = 0, !.rdPos = 0, !.full = TRUE]
                  ELSE [dd EXCEPT !.rdPos = dd.wrPos]
=============================================================================
