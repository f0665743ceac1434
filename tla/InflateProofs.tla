--------------------------- MODULE InflateProofs ----------------------------
(***************************************************************************)
(* Proofs about the decompressor (DictDecoder.tla and Inflate.tla), for    *)
(* every window, span, input and sequence of Reads.  In two parts: every   *)
(* step keeps WInv, by which the window holds the last bytes of the        *)
(* stream, whatever mix of literals, matches, stored blocks and flushes    *)
(* wrote it; and DInv, by which what the Reads return is the stream, in    *)
(* order and counted, and checkpoints hold what resuming there needs, and  *)
(* come when and where they should.                                        *)
(***************************************************************************)
EXTENDS Inflate, SequenceTheorems, TLAPS

---------------------------------------------------------------------------
(* Remainders *)

(* Quotient and remainder.                                                 *)
LEMMA DivMod ==
  ASSUME NEW d \in Nat \ {0}, NEW x \in Nat
  PROVE  /\ x % d \in 0..(d - 1) /\ x \div d \in Nat
         /\ x = d * (x \div d) + (x % d)
OBVIOUS

(* A number has one remainder.                                             *)
LEMMA ModUnique ==
  ASSUME NEW d \in Nat \ {0}, NEW q \in Int, NEW p \in Int,
         NEW r \in 0..(d - 1), NEW s \in 0..(d - 1), d * q + r = d * p + s
  PROVE  r = s
<1>1. d * (q - p) = s - r
  OBVIOUS
<1>2. CASE q - p >= 1
  <2>1. d * (q - p) >= d * 1
    BY <1>2
  <2>. QED  BY <1>1, <2>1
<1>3. CASE p - q >= 1
  <2>1. d * (p - q) >= d * 1
    BY <1>3
  <2>2. d * (p - q) = r - s
    OBVIOUS
  <2>. QED  BY <2>1, <2>2
<1>. QED  BY <1>1, <1>2, <1>3

(* Adding a multiple of d does not change the remainder.                   *)
LEMMA ModShift ==
  ASSUME NEW d \in Nat \ {0}, NEW x \in Nat, NEW y \in Nat, x % d = 0
  PROVE  (x + y) % d = y % d
<1>. DEFINE q == (x + y) \div d
            p == (x \div d) + (y \div d)
<1>1. /\ q \in Int /\ p \in Int
      /\ (x + y) % d \in 0..(d - 1) /\ y % d \in 0..(d - 1)
  BY DivMod
<1>2. d * q + ((x + y) % d) = d * p + (y % d)
  <2>1. /\ x = d * (x \div d) /\ y = d * (y \div d) + (y % d)
        /\ x \div d \in Nat /\ y \div d \in Nat
    BY DivMod
  <2>2. x + y = d * q + ((x + y) % d)
    BY DivMod
  <2>3. d * p = d * (x \div d) + d * (y \div d)
    BY <2>1
  <2>. HIDE DEF q, p
  <2>. QED  BY <1>1, <2>1, <2>2, <2>3
<1>. HIDE DEF q, p
<1>. QED  BY <1>1, <1>2, ModUnique

(* Numbers below d are their own remainders.                               *)
LEMMA ModSmall ==
  ASSUME NEW d \in Nat \ {0}, NEW x \in Nat
  PROVE  (x < d => x % d = x) /\ d % d = 0
OBVIOUS

---------------------------------------------------------------------------
(* Windows *)

(* Contents of dd.hist. *)
Buffer == [0..(W - 1) -> Byte]

(* Writing t into a window that holds the end of s makes one that holds    *)
(* the end of s followed by t.                                             *)
LEMMA PutWindow ==
  ASSUME NEW hist \in Buffer, NEW pos \in 0..W, NEW full \in BOOLEAN,
         NEW s \in Seq(Byte), NEW b \in Nat, b <= Len(s), NEW t \in Seq(Byte), pos + Len(t) <= W,
         Window(hist, pos, full, s, b)
  PROVE  /\ Put(hist, pos, t) \in Buffer
         /\ Window(Put(hist, pos, t), pos + Len(t), full, s \o t, b)
<1>. USE WindowAssumption
<1>. DEFINE n == Len(t)  size == IF full THEN W ELSE pos  size2 == IF full THEN W ELSE pos + n
            h2 == Put(hist, pos, t)
<1>1. n \in Nat /\ Len(s \o t) = Len(s) + n /\ Len(s) \in Nat
  OBVIOUS
<1>2. h2 \in Buffer
  BY DEF Put, Buffer
<1>3. size2 = Lesser(Len(s \o t) - b, W)
  BY <1>1, SMTT(30) DEF Window, Lesser
<1>4. ASSUME NEW k \in 1..size2
      PROVE  h2[IF k <= pos + n THEN (pos + n) - k ELSE (pos + n) - k + W] = (s \o t)[Len(s \o t) + 1 - k]
  <2>1. /\ size <= Len(s) - b /\ size <= W /\ size = Lesser(Len(s) - b, W)
        /\ k \in Nat /\ pos \in Nat
    BY <1>1 DEF Window, Lesser
  <2>2. CASE k <= n
    <3>1. h2[(pos + n) - k] = t[n - k + 1]
      BY <2>2, <1>1 DEF Put
    <3>2. (s \o t)[Len(s) + n + 1 - k] = t[n + 1 - k]
      BY <2>2, <1>1
    <3>. QED  BY <3>1, <3>2, <2>2, <1>1
  <2>3. CASE k > n
    <3>1. k - n \in 1..size
      BY <2>3, <1>1
    <3>2. hist[IF k - n <= pos THEN pos - (k - n) ELSE pos - (k - n) + W] = s[Len(s) + 1 - (k - n)]
      BY <3>1 DEF Window
    <3>3. (s \o t)[Len(s) + n + 1 - k] = s[Len(s) + n + 1 - k]
      BY <3>1, <2>1, <1>1
    <3>4. Len(s) + 1 - (k - n) = Len(s \o t) + 1 - k
      BY <1>1
    <3>5. CASE k <= pos + n
      <4>1. pos - (k - n) = (pos + n) - k /\ (pos + n) - k \in 0..(pos - 1) /\ k - n <= pos
        BY <3>5, <2>3, <1>1
      <4>2. h2[(pos + n) - k] = hist[(pos + n) - k]
        BY <4>1, WindowAssumption DEF Put
      <4>. HIDE DEF h2, n, size, size2
      <4>. QED  BY <4>1, <4>2, <3>2, <3>3, <3>4, <3>5, <1>1
    <3>6. CASE k > pos + n
      <4>1. /\ pos - (k - n) + W = (pos + n) - k + W /\ (pos + n) - k + W \in (pos + n)..(W - 1)
            /\ ~(k - n <= pos) /\ ~(k <= pos + n)
        BY <3>6, <2>3, <1>1
      <4>2. h2[(pos + n) - k + W] = hist[(pos + n) - k + W]
        BY <4>1, <1>1, WindowAssumption DEF Put
      <4>. HIDE DEF h2, n, size, size2
      <4>. QED  BY <4>1, <4>2, <3>2, <3>3, <3>4, <3>6, <1>1
    <3>7. k <= pos + n \/ k > pos + n
      BY <2>1, <1>1
    <3>. HIDE DEF h2, n, size, size2
    <3>. QED  BY <3>5, <3>6, <3>7, Zenon
  <2>4. k <= n \/ k > n
    BY <2>1, <1>1
  <2>. HIDE DEF h2, n, size, size2
  <2>. QED  BY <2>2, <2>3, <2>4, Zenon
<1>5. Window(h2, pos + n, full, s \o t, b)
  <2>. DEFINE v == s \o t  pos2 == pos + n
  <2>1. size2 = Lesser(Len(v) - b, W) /\ pos2 \in Nat
    BY <1>1, <1>3
  <2>2. \A k \in 1..size2 : h2[IF k <= pos2 THEN pos2 - k ELSE pos2 - k + W] = v[Len(v) + 1 - k]
    BY <1>4
  <2>3. size2 = IF full THEN W ELSE pos2
    OBVIOUS
  <2>. HIDE DEF h2, n, v, size2, pos2
  <2>4. Window(h2, pos2, full, v, b)
    BY <2>1, <2>2, <2>3 DEF Window
  <2>. QED  BY <2>4 DEF v, pos2
<1>. QED  BY <1>2, <1>5

(* A window that is full up to its end may start again at its beginning    *)
(* (readFlush).                                                            *)
LEMMA FlushWindow ==
  ASSUME NEW hist, NEW full \in BOOLEAN, NEW s \in Seq(Byte), NEW b \in Nat, b <= Len(s),
         Window(hist, W, full, s, b)
  PROVE  Window(hist, 0, TRUE, s, b)
BY WindowAssumption DEF Window, Lesser

(* The last n bytes written are the last n of the stream.                  *)
LEMMA UnreadWindow ==
  ASSUME NEW hist \in Buffer, NEW pos \in 0..W, NEW full \in BOOLEAN, NEW r \in Nat,
         NEW n \in Nat, r + n <= pos, r + n >= pos,
         NEW s \in Seq(Byte), NEW b \in Nat, b <= Len(s), Window(hist, pos, full, s, b)
  PROVE  /\ n <= Len(s) - b
         /\ Slice(hist, r, n) = SubSeq(s, Len(s) - n + 1, Len(s))
         /\ Slice(hist, r, n) \in Seq(Byte) /\ Len(Slice(hist, r, n)) = n
<1>. USE WindowAssumption
<1>. DEFINE size == IF full THEN W ELSE pos
<1>1. size \in Nat /\ pos <= size /\ size <= Len(s) - b
  BY DEF Window, Lesser
<1>2. ASSUME NEW i \in 1..n PROVE hist[r + i - 1] = s[Len(s) - n + i]
  <2>1. n - i + 1 \in 1..size /\ n - i + 1 <= pos
    BY <1>1
  <2>2. hist[pos - (n - i + 1)] = s[Len(s) + 1 - (n - i + 1)]
    BY <2>1 DEF Window
  <2>3. pos - (n - i + 1) = r + i - 1 /\ Len(s) + 1 - (n - i + 1) = Len(s) - n + i
    OBVIOUS
  <2>. QED  BY <2>2, <2>3
<1>. DEFINE u == Slice(hist, r, n)  v == SubSeq(s, Len(s) - n + 1, Len(s))
<1>3. u \in Seq(Byte) /\ Len(u) = n /\ \A i \in 1..n : u[i] = hist[r + i - 1]
  BY DEF Slice, Buffer
<1>4. \A i \in 1..n : u[i] = s[Len(s) - n + i]
  BY <1>2, <1>3
<1>5. v \in Seq(Byte) /\ Len(v) = n /\ \A i \in 1..n : v[i] = s[Len(s) - n + i]
  BY <1>1, SubSeqProperties
<1>. HIDE DEF u, v
<1>6. u = v
  BY <1>3, <1>4, <1>5, SeqEqual
<1>7. n <= Len(s) - b
  BY <1>1
<1>. QED  BY <1>3, <1>6, <1>7 DEF u, v

(* So with a chunk copied from elsewhere in the window.                    *)
LEMMA BlitWindow ==
  ASSUME NEW hist \in Buffer, NEW pos \in 0..W, NEW full \in BOOLEAN,
         NEW s \in Seq(Byte), NEW b \in Nat, b <= Len(s), Window(hist, pos, full, s, b),
         NEW src \in Nat, NEW n \in Nat, src + n <= W, pos + n <= W
  PROVE  /\ Slice(hist, src, n) \in Seq(Byte) /\ Len(Slice(hist, src, n)) = n
         /\ Blit(hist, pos, src, n) \in Buffer
         /\ Window(Blit(hist, pos, src, n), pos + n, full, s \o Slice(hist, src, n), b)
<1>. USE WindowAssumption
<1>1. Slice(hist, src, n) \in Seq(Byte) /\ Len(Slice(hist, src, n)) = n
  BY DEF Slice, Buffer
<1>. QED  BY <1>1, PutWindow DEF Blit

---------------------------------------------------------------------------
(* The invariant of the window *)

(* Room for a byte is left whenever control is outside the copy loop.      *)
Room == dict.wrPos < W /\ base <= Len(text)

(* Between two calls of a step function.                                   *)
AtRest == pc \in {"idle", "loop", "returned"} /\ err = "nil"

(* What is left of a match reaches no further back than the history.       *)
HistoryReached == copyLen > 0 => copyDist \in 1..HistSize(dict)

(* What is left of a match when huffmanBlock has been left, or stepState   *)
(* has been left over from an earlier block.                               *)
Pending ==
  /\ pc \in {"nextBlock", "readLiteral"} => copyLen = 0
  /\ pc \in {"copyHistory", "copyChunk"} => HistoryReached
  /\ AtRest /\ step = "nextBlock" => copyLen = 0
  /\ AtRest /\ step = "huffmanBlock" =>
       IF stepState = "init" THEN copyLen = 0 ELSE HistoryReached

Behind == loop.dst - loop.src

(* Within the copy loop: what lies between src and dst is the match's      *)
(* pattern, a whole number of times, and the last bytes of the stream.     *)
Copying ==
  pc = "copyChunk" =>
    /\ dict.wrPos <= loop.dst /\ loop.dst <= loop.end
    /\ loop.end = Lesser(dict.wrPos + copyLen, W)
    /\ loop.dst < loop.end =>
         /\ copyDist <= Behind /\ Behind % copyDist = 0
         /\ \A i \in 1..Behind :
              text[(Len(text) - Behind) + i] = text[Len(text) - copyDist + 1 + ((i - 1) % copyDist)]

(* A checkpoint holds the window of the stream s as far as its n bytes.    *)
MarkExact(cp, s) ==
  /\ cp.n <= Len(s) /\ cp.base <= cp.n
  /\ cp.wrPos < W /\ cp.rdPos <= cp.wrPos
  /\ Window(cp.hist, cp.wrPos, cp.full, SubSeq(s, 1, cp.n), cp.base)

MarksExact == \A i \in 1..Len(sent) : MarkExact(sent[i], text)

WInv == TypeOK /\ Room /\ WindowExact /\ Pending /\ Copying /\ MarksExact

---------------------------------------------------------------------------
(* The stream grows *)

(* What is appended to a sequence leaves its prefixes alone.               *)
LEMMA Prefix ==
  ASSUME NEW s \in Seq(Byte), NEW t \in Seq(Byte), NEW n \in Nat, n <= Len(s)
  PROVE  SubSeq(s \o t, 1, n) = SubSeq(s, 1, n) /\ SubSeq(s, 1, n) \in Seq(Byte) /\ Len(SubSeq(s, 1, n)) = n
<1>1. \A i \in 1..n : s[i] \in Byte /\ (s \o t)[i] = s[i]
  BY ElementOfSeq, ConcatProperties, LenProperties
<1>. DEFINE u == SubSeq(s, 1, n)  v == SubSeq(s \o t, 1, n)
<1>2. u \in Seq(Byte) /\ Len(u) = n /\ \A i \in 1..n : u[i] = s[i]
  BY <1>1, SubSeqProperties
<1>3. v \in Seq(Byte) /\ Len(v) = n /\ \A i \in 1..n : v[i] = s[i]
  BY <1>1, SubSeqProperties
<1>. HIDE DEF u, v
<1>4. u = v
  BY <1>2, <1>3, SeqEqual
<1>. QED  BY <1>2, <1>4 DEF u, v

(* Checkpoints stay exact when the stream grows.                           *)
LEMMA MarksGrow ==
  ASSUME TypeOK, MarksExact, NEW t \in Seq(Byte)
  PROVE  \A i \in 1..Len(sent) : MarkExact(sent[i], text \o t)
<1>1. ASSUME NEW i \in 1..Len(sent) PROVE MarkExact(sent[i], text \o t)
  <2>. DEFINE cp == sent[i]  v == text \o t
  <2>1. cp \in Checkpoint /\ text \in Seq(Byte)
    BY ElementOfSeq DEF TypeOK
  <2>2. MarkExact(cp, text) /\ cp.n \in Nat
    BY <2>1 DEF MarksExact, Checkpoint
  <2>. HIDE DEF cp
  <2>3. SubSeq(text \o t, 1, cp.n) = SubSeq(text, 1, cp.n)
    BY <2>1, <2>2, Prefix DEF MarkExact
  <2>4. Len(text \o t) = Len(text) + Len(t) /\ Len(t) \in Nat /\ Len(text) \in Nat
    BY <2>1
  <2>. HIDE DEF v
  <2>5. cp.n <= Len(v) /\ SubSeq(v, 1, cp.n) = SubSeq(text, 1, cp.n)
    BY <2>2, <2>3, <2>4 DEF MarkExact, v
  <2>6. MarkExact(cp, v)
    BY <2>2, <2>5 DEF MarkExact
  <2>. QED  BY <2>6 DEF cp, v
<1>. QED  BY <1>1

(* A step that leaves the window, the stream and the checkpoints alone.    *)
LEMMA SameWindow ==
  ASSUME WInv, TypeOK', Pending', UNCHANGED <<dict, text, base, sent>>,
         pc # "copyChunk", pc' # "copyChunk"
  PROVE  WInv'
BY DEF WInv, Room, WindowExact, Copying, MarksExact, MarkExact, Written

---------------------------------------------------------------------------
(* The steps *)

(* Read sets nothing but the size of the buffer.                           *)
LEMMA ReadW == ASSUME WInv, Read PROVE WInv'
<1>. USE DEF Read, ioVars, stepVars, outVars, markVars, histVars
<1>1. TypeOK'
  BY ParameterAssumption DEF WInv, TypeOK, PC
<1>2. Pending'
  BY DEF WInv, Pending, AtRest, HistoryReached
<1>. QED  BY <1>1, <1>2, SameWindow

(* toRead is handed out from its front.                                    *)
LEMMA HandOutW == ASSUME WInv, HandOut PROVE WInv'
<1>. USE DEF HandOut, ioVars, stepVars, outVars, markVars, histVars
<1>. DEFINE n == Lesser(want, Len(toRead))
<1>1. n \in Nat /\ n <= Len(toRead) /\ toRead \in Seq(Byte) /\ got \in Seq(Byte)
  BY DEF WInv, TypeOK, Lesser
<1>2. SubSeq(toRead, 1, n) \in Seq(Byte) /\ SubSeq(toRead, n + 1, Len(toRead)) \in Seq(Byte)
  BY <1>1
<1>3. got' \in Seq(Byte) /\ toRead' \in Seq(Byte) /\ ret' \in {err, "nil"}
  BY <1>2, <1>1
<1>4. TypeOK'
  BY <1>3 DEF WInv, TypeOK, PC
<1>5. Pending'
  BY DEF WInv, Pending, AtRest, HistoryReached
<1>. QED  BY <1>4, <1>5, SameWindow

(* The error is returned.                                                  *)
LEMMA ReportErrorW == ASSUME WInv, ReportError PROVE WInv'
<1>. USE DEF ReportError, ioVars, stepVars, outVars, markVars, histVars
<1>1. TypeOK'
  BY DEF WInv, TypeOK, PC
<1>2. Pending'
  BY DEF WInv, Pending, AtRest, HistoryReached
<1>. QED  BY <1>1, <1>2, SameWindow

(* huffmanBlock goes on with a match, or with no match pending.            *)
LEMMA TakeStepW == ASSUME WInv, TakeStep PROVE WInv'
<1>. USE DEF TakeStep, EnterHuffman, ioVars, stepVars, outVars, markVars, histVars
<1>1. TypeOK'
  BY DEF WInv, TypeOK, PC
<1>2. Pending'
  BY DEF WInv, TypeOK, Pending, AtRest, HistoryReached
<1>3. pc' # "copyChunk" /\ pc # "copyChunk"
  BY DEF WInv, TypeOK
<1>. QED  BY <1>1, <1>2, <1>3, SameWindow

(* No match is pending where a block begins.                               *)
LEMMA HuffmanBlockW == ASSUME WInv, HuffmanBlock PROVE WInv'
<1>. USE DEF HuffmanBlock, BlockBegins, EnterHuffman, ioVars, stepVars, outVars, markVars, histVars
<1>1. TypeOK'
  BY ParameterAssumption DEF WInv, TypeOK, PC
<1>2. Pending'
  BY DEF WInv, TypeOK, Pending, AtRest, HistoryReached
<1>. QED  BY <1>1, <1>2, SameWindow

(* copyLen counts the bytes of the stored block.                           *)
LEMMA StoredBlockW == ASSUME WInv, StoredBlock PROVE WInv'
<1>. USE DEF StoredBlock, BlockBegins, ioVars, stepVars, outVars, markVars, histVars
<1>1. TypeOK'
  BY ParameterAssumption DEF WInv, TypeOK, PC
<1>2. Pending'
  BY DEF WInv, Pending, AtRest
<1>. QED  BY <1>1, <1>2, SameWindow

(* After an error no step is taken.                                        *)
LEMMA BadInputW == ASSUME WInv, BadInput PROVE WInv'
<1>. USE DEF BadInput, ioVars, stepVars, outVars, markVars, histVars
<1>1. TypeOK'
  BY DEF WInv, TypeOK, PC
<1>2. Pending'
  BY DEF WInv, Pending, AtRest, InputErrors
<1>. QED  BY <1>1, <1>2, SameWindow

(* The distance is checked against the history.                            *)
LEMMA MatchW == ASSUME WInv, Match PROVE WInv'
<1>. USE DEF Match, ioVars, stepVars, outVars, markVars, histVars
<1>1. copyLen' \in MatchLens /\ copyDist' \in 1..HistSize(dict)
  BY DEF MatchDistances
<1>2. copyDist' \in 0..W
  BY <1>1, WindowAssumption DEF HistSize, WInv, TypeOK, Dict
<1>3. TypeOK'
  BY <1>1, <1>2, ParameterAssumption DEF WInv, TypeOK, PC
<1>4. Pending'
  BY <1>1 DEF Pending, AtRest, HistoryReached, HistSize
<1>. QED  BY <1>3, <1>4, SameWindow

(* Write adds what it writes to the end of the window.                     *)
LEMMA WriteWindow ==
  ASSUME WInv, pc # "copyChunk", NEW s \in Seq(Byte), Len(s) <= AvailWrite(dict)
  PROVE  /\ Write(dict, s) \in Dict
         /\ Write(dict, s).wrPos = dict.wrPos + Len(s) /\ Write(dict, s).rdPos = dict.rdPos
         /\ Write(dict, s).full = dict.full
         /\ Write(dict, s).rdPos <= Write(dict, s).wrPos
         /\ text \o s \in Seq(Byte) /\ Len(text \o s) = Len(text) + Len(s)
         /\ Window(Write(dict, s).hist, Write(dict, s).wrPos, Write(dict, s).full, text \o s, base)
<1>1. /\ dict \in Dict /\ dict.hist \in Buffer /\ dict.wrPos \in 0..W /\ dict.rdPos \in 0..W
      /\ dict.full \in BOOLEAN /\ text \in Seq(Byte) /\ base \in Nat /\ base <= Len(text)
      /\ Window(dict.hist, dict.wrPos, dict.full, text, base) /\ Len(s) \in Nat
      /\ dict.wrPos + Len(s) <= W /\ dict.rdPos <= dict.wrPos
  BY WindowAssumption DEF WInv, TypeOK, Room, WindowExact, Written, Dict, Buffer, AvailWrite
<1>2. /\ Put(dict.hist, dict.wrPos, s) \in Buffer
      /\ Window(Put(dict.hist, dict.wrPos, s), dict.wrPos + Len(s), dict.full, text \o s, base)
  BY <1>1, PutWindow
<1>3. /\ Write(dict, s).hist = Put(dict.hist, dict.wrPos, s)
      /\ Write(dict, s).wrPos = dict.wrPos + Len(s) /\ Write(dict, s).rdPos = dict.rdPos
      /\ Write(dict, s).full = dict.full /\ Write(dict, s) \in Dict
  <2>. DEFINE h == Put(dict.hist, dict.wrPos, s)
  <2>1. Write(dict, s) = [dict EXCEPT !.hist = h, !.wrPos = dict.wrPos + Len(s)]
    BY DEF Write, Dict
  <2>2. h \in Buffer /\ dict.wrPos + Len(s) \in 0..W
    BY <1>1, <1>2, WindowAssumption
  <2>. HIDE DEF h
  <2>3. /\ Write(dict, s).hist = h /\ Write(dict, s).wrPos = dict.wrPos + Len(s)
        /\ Write(dict, s).rdPos = dict.rdPos /\ Write(dict, s).full = dict.full
        /\ Write(dict, s) \in Dict
    BY <1>1, <2>1, <2>2 DEF Dict, Buffer
  <2>. QED  BY <2>3 DEF h
<1>. QED  BY <1>1, <1>2, <1>3

(* readFlush: the window keeps its bytes, has room again, and has handed   *)
(* out the last ones of the stream.                                        *)
LEMMA FlushedWindow ==
  ASSUME NEW dd \in Dict, dd.rdPos <= dd.wrPos, NEW s \in Seq(Byte), NEW b \in Nat, b <= Len(s),
         Window(dd.hist, dd.wrPos, dd.full, s, b)
  PROVE  /\ Flushed(dd) \in Dict /\ Flushed(dd).rdPos = Flushed(dd).wrPos /\ Flushed(dd).wrPos < W
         /\ AvailRead(Flushed(dd)) = 0
         /\ Flushed(dd).full \/ Flushed(dd).wrPos = dd.wrPos
         /\ HistSize(dd) <= HistSize(Flushed(dd))
         /\ Window(Flushed(dd).hist, Flushed(dd).wrPos, Flushed(dd).full, s, b)
         /\ Unread(dd) \in Seq(Byte) /\ Len(Unread(dd)) = AvailRead(dd)
         /\ AvailRead(dd) \in Nat /\ AvailRead(dd) <= Len(s) - b
         /\ Unread(dd) = SubSeq(s, Len(s) - AvailRead(dd) + 1, Len(s))
<1>1. /\ dd.hist \in Buffer /\ dd.wrPos \in 0..W /\ dd.rdPos \in 0..dd.wrPos /\ dd.full \in BOOLEAN
      /\ W \in Nat \ {0}
  BY WindowAssumption DEF Dict, Buffer
<1>2. /\ Flushed(dd) \in Dict /\ Flushed(dd).rdPos = Flushed(dd).wrPos /\ Flushed(dd).wrPos < W
      /\ AvailRead(Flushed(dd)) = 0 /\ HistSize(dd) <= HistSize(Flushed(dd))
      /\ Flushed(dd).full \/ Flushed(dd).wrPos = dd.wrPos
  <2>1. CASE dd.wrPos = W
    BY <1>1, <2>1 DEF Flushed, Dict, AvailRead, HistSize
  <2>2. CASE dd.wrPos # W
    BY <1>1, <2>2 DEF Flushed, Dict, AvailRead, HistSize
  <2>. QED  BY <2>1, <2>2
<1>3. Window(Flushed(dd).hist, Flushed(dd).wrPos, Flushed(dd).full, s, b)
  <2>1. CASE dd.wrPos = W
    <3>1. Window(dd.hist, 0, TRUE, s, b)
      BY <1>1, <2>1, FlushWindow
    <3>2. Flushed(dd).hist = dd.hist /\ Flushed(dd).wrPos = 0 /\ Flushed(dd).full = TRUE
      BY <2>1 DEF Flushed, Dict
    <3>. QED  BY <3>1, <3>2
  <2>2. CASE dd.wrPos # W
    <3>1. Flushed(dd).hist = dd.hist /\ Flushed(dd).wrPos = dd.wrPos /\ Flushed(dd).full = dd.full
      BY <2>2 DEF Flushed, Dict
    <3>. QED  BY <3>1
  <2>. QED  BY <2>1, <2>2
<1>4. /\ Unread(dd) \in Seq(Byte) /\ Len(Unread(dd)) = AvailRead(dd)
      /\ AvailRead(dd) \in Nat /\ AvailRead(dd) <= Len(s) - b
      /\ Unread(dd) = SubSeq(s, Len(s) - AvailRead(dd) + 1, Len(s))
  <2>. DEFINE n == dd.wrPos - dd.rdPos
  <2>1. /\ n <= Len(s) - b /\ Slice(dd.hist, dd.rdPos, n) = SubSeq(s, Len(s) - n + 1, Len(s))
        /\ Slice(dd.hist, dd.rdPos, n) \in Seq(Byte) /\ Len(Slice(dd.hist, dd.rdPos, n)) = n
    <3>1. n \in Nat /\ dd.rdPos \in Nat /\ dd.rdPos + n = dd.wrPos
      BY <1>1
    <3>. DEFINE h == dd.hist  pos == dd.wrPos  r == dd.rdPos  f == dd.full
    <3>2. h \in Buffer /\ pos \in 0..W /\ r \in Nat /\ f \in BOOLEAN /\ r + n = pos /\ Window(h, pos, f, s, b)
      BY <1>1, <3>1
    <3>. HIDE DEF n, h, pos, r, f
    <3>3. /\ n <= Len(s) - b /\ Slice(h, r, n) = SubSeq(s, Len(s) - n + 1, Len(s))
          /\ Slice(h, r, n) \in Seq(Byte) /\ Len(Slice(h, r, n)) = n
      BY <3>1, <3>2, UnreadWindow, SMTT(30)
    <3>. QED  BY <3>3 DEF h, r
  <2>2. AvailRead(dd) = n /\ Unread(dd) = Slice(dd.hist, dd.rdPos, n) /\ n \in Nat
    BY <1>1 DEF AvailRead, Unread
  <2>. HIDE DEF n
  <2>. QED  BY <2>1, <2>2
<1>. QED  BY <1>2, <1>3, <1>4

(* A step that adds t to the stream and to the window.                     *)
LEMMA GrownWindow ==
  ASSUME WInv, TypeOK', Pending', NEW t \in Seq(Byte), text' = text \o t, UNCHANGED <<base, sent>>,
         pc' # "copyChunk", dict'.wrPos < W,
         Window(dict'.hist, dict'.wrPos, dict'.full, text', base')
  PROVE  WInv'
<1>1. MarksExact'
  BY MarksGrow DEF WInv, MarksExact
<1>2. Room'
  <2>1. base <= Len(text) /\ base \in Nat /\ text \in Seq(Byte)
    BY DEF WInv, Room, TypeOK
  <2>. QED  BY <2>1 DEF Room
<1>. QED  BY <1>1, <1>2 DEF WInv, WindowExact, Written, Copying

(* The flush after an error.                                               *)
LEMMA StepReturnedW == ASSUME WInv, StepReturned PROVE WInv'
<1>. USE DEF StepReturned, ioVars, stepVars, outVars, markVars, histVars
<1>1. /\ dict \in Dict /\ dict.rdPos <= dict.wrPos /\ text \in Seq(Byte) /\ base \in Nat /\ base <= Len(text)
      /\ Window(dict.hist, dict.wrPos, dict.full, text, base) /\ dict.wrPos < W
      /\ toRead \in Seq(Byte) /\ woffset \in Nat
  BY DEF WInv, TypeOK, Room, WindowExact, Written
<1>2. /\ dict' \in Dict /\ dict'.rdPos <= dict'.wrPos /\ dict'.wrPos < W /\ HistSize(dict) <= HistSize(dict')
      /\ toRead' \in Seq(Byte) /\ woffset' \in Nat
      /\ Window(dict'.hist, dict'.wrPos, dict'.full, text, base)
  <2>1. CASE err # "nil" /\ toRead = <<>>
    <3>1. dict' = Flushed(dict) /\ toRead' = Unread(dict) /\ woffset' = woffset + AvailRead(dict)
      BY <2>1
    <3>2. /\ Flushed(dict) \in Dict /\ Flushed(dict).rdPos = Flushed(dict).wrPos
          /\ Flushed(dict).wrPos < W /\ HistSize(dict) <= HistSize(Flushed(dict))
          /\ Window(Flushed(dict).hist, Flushed(dict).wrPos, Flushed(dict).full, text, base)
          /\ Unread(dict) \in Seq(Byte) /\ AvailRead(dict) \in Nat
      BY <1>1, FlushedWindow
    <3>3. Flushed(dict).wrPos \in Nat
      BY <3>2 DEF Dict
    <3>. QED  BY <1>1, <3>1, <3>2, <3>3
  <2>2. CASE ~(err # "nil" /\ toRead = <<>>)
    BY <1>1, <2>2, WindowAssumption DEF HistSize, Dict
  <2>. QED  BY <2>1, <2>2
<1>3. TypeOK'
  BY <1>2 DEF WInv, TypeOK, PC
<1>4. Pending'
  BY <1>1, <1>2, WindowAssumption DEF WInv, TypeOK, Pending, AtRest, HistoryReached, HistSize, Dict
<1>. QED  BY <1>1, <1>2, <1>3, <1>4 DEF WInv, Room, WindowExact, Copying, MarksExact, Written

(* A literal is written, and the window flushed when that filled it.       *)
LEMMA LiteralW == ASSUME WInv, Literal PROVE WInv'
<1>. USE DEF Literal, ioVars, stepVars, outVars, markVars, histVars
<1>1. PICK b \in Byte :
        /\ text' = Append(text, b)
        /\ IF AvailWrite(Write(dict, <<b>>)) = 0
             THEN Pause(Write(dict, <<b>>), "init")
             ELSE dict' = Write(dict, <<b>>) /\ UNCHANGED <<pc, toRead, step, stepState>>
  OBVIOUS
<1>. DEFINE s == <<b>>  dd == Write(dict, s)
<1>2. s \in Seq(Byte) /\ Len(s) = 1 /\ Len(s) <= AvailWrite(dict) /\ text' = text \o s
  <2>1. text \in Seq(Byte) /\ dict.wrPos \in 0..W /\ dict.wrPos < W /\ W \in Nat
    BY WindowAssumption DEF WInv, TypeOK, Room, Dict
  <2>2. text' = text \o s
    BY <1>1, <2>1, AppendIsConcat
  <2>3. s \in Seq(Byte) /\ Len(s) = 1
    BY <1>1
  <2>. QED  BY <2>1, <2>2, <2>3 DEF AvailWrite
<1>3. /\ dd \in Dict /\ dd.rdPos <= dd.wrPos /\ text' \in Seq(Byte)
      /\ Window(dd.hist, dd.wrPos, dd.full, text', base) /\ base \in Nat /\ base <= Len(text')
  <2>. HIDE DEF s
  <2>1. base \in Nat /\ base <= Len(text) /\ text \in Seq(Byte) /\ pc # "copyChunk"
    BY DEF WInv, Room, TypeOK
  <2>2. /\ Write(dict, s) \in Dict /\ Write(dict, s).rdPos <= Write(dict, s).wrPos
        /\ text \o s \in Seq(Byte) /\ Len(text \o s) = Len(text) + Len(s)
        /\ Window(Write(dict, s).hist, Write(dict, s).wrPos, Write(dict, s).full, text \o s, base)
    BY <1>2, <2>1, WriteWindow
  <2>. QED  BY <1>2, <2>1, <2>2
<1>. HIDE DEF dd
<1>4. /\ dict' \in Dict /\ dict'.rdPos <= dict'.wrPos /\ dict'.wrPos < W
      /\ Window(dict'.hist, dict'.wrPos, dict'.full, text', base)
      /\ toRead' \in Seq(Byte) /\ pc' \in {"readLiteral", "returned"}
      /\ step' \in {step, "huffmanBlock"} /\ stepState' \in {stepState, "init"}
      /\ pc' = "returned" => step' = "huffmanBlock" /\ stepState' = "init"
  <2>1. CASE AvailWrite(dd) = 0
    <3>1. Pause(dd, "init")
      BY <1>1, <2>1 DEF dd
    <3>2. /\ dict' = Flushed(dd) /\ toRead' = Unread(dd) /\ pc' = "returned"
          /\ step' = "huffmanBlock" /\ stepState' = "init"
      BY <3>1 DEF Pause
    <3>3. /\ Flushed(dd) \in Dict /\ Flushed(dd).rdPos = Flushed(dd).wrPos /\ Flushed(dd).wrPos < W
          /\ Window(Flushed(dd).hist, Flushed(dd).wrPos, Flushed(dd).full, text', base)
          /\ Unread(dd) \in Seq(Byte)
      BY <1>3, FlushedWindow
    <3>. QED  BY <3>2, <3>3 DEF Dict
  <2>2. CASE AvailWrite(dd) # 0
    <3>1. dict' = dd /\ UNCHANGED <<pc, toRead, step, stepState>>
      BY <1>1, <2>2 DEF dd
    <3>2. dd.wrPos < W
      BY <1>3, <2>2, WindowAssumption DEF AvailWrite, Dict
    <3>. QED  BY <1>3, <3>1, <3>2 DEF WInv, TypeOK
  <2>. QED  BY <2>1, <2>2
<1>5. TypeOK'
  BY <1>3, <1>4 DEF WInv, TypeOK, PC
<1>6. Pending'
  BY <1>4 DEF WInv, Pending, AtRest
<1>. HIDE DEF s
<1>. QED  BY <1>2, <1>4, <1>5, <1>6, GrownWindow

(* A step of the copy loop, or the one into it.                            *)
LEMMA CopiedWindow ==
  ASSUME WInv, TypeOK', Pending', Copying', NEW t \in Seq(Byte), text' = text \o t, UNCHANGED <<base, sent>>,
         pc' = "copyChunk", dict'.wrPos < W,
         Window(dict'.hist, loop'.dst, dict'.full, text', base')
  PROVE  WInv'
<1>1. MarksExact'
  BY MarksGrow DEF WInv, MarksExact
<1>2. Room'
  <2>1. base <= Len(text) /\ base \in Nat /\ text \in Seq(Byte)
    BY DEF WInv, Room, TypeOK
  <2>. QED  BY <2>1 DEF Room
<1>. QED  BY <1>1, <1>2 DEF WInv, WindowExact, Written

(* What a chunk copies is the next piece of the match.                     *)
LEMMA WrappedSource ==
  ASSUME WInv, pc = "copyHistory", NEW n \in Nat, n <= copyLen, n <= copyDist - dict.wrPos,
         dict.wrPos < copyDist
  PROVE  Repeat(copyDist, n) = Slice(dict.hist, (dict.wrPos - copyDist) + W, n)
<1>. DEFINE p == dict.wrPos  d == copyDist  src == (p - d) + W
<1>. SUFFICES ASSUME NEW i \in 1..n
              PROVE  dict.hist[src + i - 1] = text[Len(text) - d + 1 + ((i - 1) % d)]
  BY DEF Repeat, Slice
<1>1. /\ p \in Nat /\ d \in 1..HistSize(dict) /\ W \in Nat /\ d \in Nat \ {0} /\ Len(text) \in Nat
      /\ dict.full \in BOOLEAN /\ copyLen > 0
  BY WindowAssumption DEF WInv, TypeOK, Dict, Pending, HistoryReached
<1>2. dict.full
  BY <1>1 DEF HistSize
<1>3. d <= W
  BY <1>1, <1>2 DEF HistSize
<1>4. (i - 1) % d = i - 1
  BY <1>1, ModSmall
<1>. DEFINE k == d - i + 1
<1>5. k \in 1..W /\ k > p
  BY <1>1, <1>3
<1>6. Window(dict.hist, p, dict.full, text, base)
  BY DEF WInv, WindowExact, Written
<1>. HIDE DEF k, p
<1>7. dict.hist[p - k + W] = text[Len(text) + 1 - k]
  BY <1>1, <1>2, <1>5, <1>6 DEF Window
<1>8. p - k + W = src + i - 1 /\ Len(text) + 1 - k = Len(text) - d + 1 + (i - 1)
  BY <1>1 DEF k, p
<1>. QED  BY <1>4, <1>7, <1>8

(* What a chunk of the copy loop copies is the next piece of the match:    *)
(* the bytes between src and dst are whole repetitions of it.              *)
LEMMA ChunkSource ==
  ASSUME WInv, pc = "copyChunk", loop.dst < loop.end
  PROVE  /\ ChunkLen \in Nat /\ ChunkLen <= loop.end - loop.dst /\ ChunkLen <= Behind
         /\ ChunkLen = loop.end - loop.dst \/ ChunkLen = Behind
         /\ copyDist \in Nat \ {0} /\ Behind \in Nat /\ Behind <= Len(text)
         /\ loop.src + ChunkLen <= W
         /\ Repeat(copyDist, ChunkLen) = Slice(dict.hist, loop.src, ChunkLen)
<1>. DEFINE n == ChunkLen  d == copyDist  D == Behind  p == loop.dst
<1>1. /\ p \in 0..W /\ loop.src \in 0..W /\ loop.end \in 0..W /\ W \in Nat /\ Len(text) \in Nat
      /\ dict.wrPos \in 0..W /\ dict.full \in BOOLEAN /\ copyLen \in Nat /\ d \in 0..W /\ base \in Nat
      /\ base <= Len(text)
  BY WindowAssumption DEF WInv, TypeOK, Dict, Room
<1>2. /\ dict.wrPos <= p /\ loop.end = Lesser(dict.wrPos + copyLen, W)
      /\ d <= D /\ \A i \in 1..D : text[(Len(text) - D) + i] = text[Len(text) - d + 1 + ((i - 1) % d)]
  BY DEF WInv, Copying
<1>3. copyLen > 0
  BY <1>1, <1>2 DEF Lesser
<1>4. d \in Nat \ {0}
  BY <1>1, <1>3, WindowAssumption DEF WInv, Pending, HistoryReached, HistSize
<1>5. D \in Nat /\ D = p - loop.src /\ D > 0
  BY <1>1, <1>2, <1>4, SMTT(30) DEF Behind
<1>6. /\ n \in Nat /\ n <= loop.end - p /\ n <= D /\ (n = loop.end - p \/ n = D)
      /\ loop.src + n <= W
  BY <1>1, <1>5 DEF ChunkLen, Lesser
<1>7. Window(dict.hist, p, dict.full, text, base)
  BY DEF WInv, WindowExact, Written
<1>8. p <= (IF dict.full THEN W ELSE p) /\ (IF dict.full THEN W ELSE p) <= Len(text)
  BY <1>1, <1>7 DEF Window, Lesser
<1>9. ASSUME NEW i \in 1..n
      PROVE  dict.hist[loop.src + i - 1] = text[Len(text) - d + 1 + ((i - 1) % d)]
  <2>. DEFINE k == D - i + 1
  <2>0. /\ p \in Nat /\ D \in Nat /\ n \in Nat /\ n <= D /\ loop.src \in Nat /\ D = p - loop.src
        /\ Len(text) \in Nat
    BY <1>1, <1>5, <1>6
  <2>. HIDE DEF p, n, D
  <2>1. k \in 1..p
    BY <2>0, SMTT(30)
  <2>. HIDE DEF k
  <2>2. dict.hist[p - k] = text[Len(text) + 1 - k]
    BY <1>1, <1>7, <1>8, <2>1 DEF Window
  <2>3. p - k = loop.src + i - 1 /\ Len(text) + 1 - k = (Len(text) - D) + i /\ i \in 1..D
    BY <2>0, SMTT(30) DEF k
  <2>. QED  BY <1>2, <2>2, <2>3
<1>10. D <= Len(text)
  BY <1>1, <1>5, <1>8
<1>. QED  BY <1>4, <1>5, <1>6, <1>9, <1>10 DEF Repeat, Slice

(* The first chunk of a match whose source wraps, or none.                 *)
LEMMA CopyHistoryW == ASSUME WInv, CopyHistory PROVE WInv'
<1>. USE DEF ioVars, outVars, markVars
<1>. DEFINE p == dict.wrPos  d == copyDist  end == Lesser(p + copyLen, W)
            n == Lesser(end - p, W - ((p - d) + W))
<1>1. /\ p \in Nat /\ p < W /\ W \in Nat /\ d \in 0..W /\ copyLen \in Nat /\ Len(text) \in Nat
      /\ dict \in Dict /\ dict.hist \in Buffer /\ dict.full \in BOOLEAN /\ dict.rdPos <= dict.wrPos
      /\ text \in Seq(Byte) /\ base \in Nat /\ base <= Len(text)
      /\ Window(dict.hist, p, dict.full, text, base) /\ pc = "copyHistory"
  <2>1. pc = "copyHistory"
    BY DEF CopyHistory
  <2>. QED  BY <2>1, WindowAssumption DEF WInv, TypeOK, Dict, Room, WindowExact, Written, Buffer
<1>2. /\ end \in Nat /\ p <= end /\ end <= W /\ end - p <= copyLen
  BY <1>1 DEF Lesser
<1>3. /\ UNCHANGED <<ioVars, step, stepState, final, copyLen, copyDist, err, outVars, markVars,
                     base, start, blocks>>
      /\ pc' = "copyChunk"
  BY DEF CopyHistory
<1>4. CASE p - d < 0
  <2>1. /\ n \in Nat /\ n <= end - p /\ n <= d - p /\ (n = end - p \/ n = d - p) /\ n <= copyLen
        /\ (p - d) + W \in Nat /\ ((p - d) + W) + n <= W /\ p + n <= W
    <3>1. W - ((p - d) + W) = d - p /\ (p - d) + W \in Nat /\ d - p \in Nat /\ end - p \in Nat
      BY <1>1, <1>2, <1>4, SMTT(30)
    <3>2. n = Lesser(end - p, d - p)
      BY <3>1
    <3>. HIDE DEF n, end
    <3>3. n \in Nat /\ n <= end - p /\ n <= d - p /\ (n = end - p \/ n = d - p)
      BY <3>1, <3>2 DEF Lesser
    <3>4. p \in Nat /\ d \in Nat /\ W \in Nat /\ end <= W /\ end - p <= copyLen /\ copyLen \in Nat /\ end \in Nat
      BY <1>1, <1>2
    <3>. HIDE DEF p, d
    <3>. QED  BY <3>1, <3>3, <3>4
  <2>. DEFINE src == (p - d) + W
              t == Slice(dict.hist, src, n)
              h == Blit(dict.hist, p, src, n)
  <2>2. /\ dict' = [dict EXCEPT !.hist = h]
        /\ text' = text \o Repeat(d, n)
        /\ loop' = [src |-> 0, dst |-> p + n, end |-> end]
    BY <1>4 DEF CopyHistory
  <2>. HIDE DEF n, end
  <2>3. Repeat(d, n) = t
    BY <1>1, <1>4, <2>1, WrappedSource
  <2>4. t \in Seq(Byte) /\ Len(t) = n /\ h \in Buffer /\ Window(h, p + n, dict.full, text \o t, base)
    BY <1>1, <2>1, BlitWindow, SMTT(30)
  <2>5. /\ dict' \in Dict /\ dict'.hist = h /\ dict'.wrPos = p /\ dict'.rdPos = dict.rdPos /\ dict'.full = dict.full
    <3>. HIDE DEF h
    <3>. QED  BY <1>1, <2>2, <2>4 DEF Dict, Buffer
  <2>. HIDE DEF h, t, src
  <2>6. text' = text \o t /\ text' \in Seq(Byte) /\ Len(text') = Len(text) + n
    BY <1>1, <2>1, <2>2, <2>3, <2>4, ConcatProperties
  <2>7. TypeOK'
    <3>1. loop' \in [src : 0..W, dst : 0..W, end : 0..W]
      <4>1. p + n \in 0..W /\ end \in 0..W /\ 0 \in 0..W
        <5>1. p \in Nat /\ n \in Nat /\ p + n <= W /\ end \in Nat /\ end <= W /\ W \in Nat
          BY <1>1, <1>2, <2>1
        <5>. HIDE DEF p
        <5>. QED  BY <5>1
      <4>. QED  BY <2>2, <4>1
    <3>. QED  BY <1>1, <1>3, <2>5, <2>6, <3>1 DEF WInv, TypeOK, PC
  <2>8. Pending'
    BY <1>1, <1>3, <2>5 DEF WInv, Pending, AtRest, HistoryReached, HistSize
  <2>9. Copying'
    <3>1. ASSUME p + n < end PROVE n = d - p /\ d \in Nat \ {0}
      BY <1>1, <1>2, <2>1, <3>1, <1>4, SMTT(30)
    <3>2. loop'.src = 0 /\ loop'.dst = p + n /\ loop'.end = end
      BY <2>2
    <3>3. ASSUME p + n < end, NEW i \in 1..d
          PROVE  text'[(Len(text') - d) + i] = text'[Len(text') - d + 1 + ((i - 1) % d)]
      <4>1. (i - 1) % d = i - 1
        BY <3>1, <3>3, ModSmall
      <4>2. (Len(text') - d) + i = Len(text') - d + 1 + (i - 1)
        BY <1>1, <2>1, <2>6
      <4>. QED  BY <4>1, <4>2
    <3>4. ASSUME p + n < end PROVE Behind' = d /\ d % d = 0
      BY <1>1, <2>1, <3>1, <3>2, <3>4, ModSmall DEF Behind
    <3>5. end = Lesser(p + copyLen, W)
      BY DEF end
    <3>6. /\ dict'.wrPos <= loop'.dst /\ loop'.dst <= loop'.end
          /\ loop'.end = Lesser(dict'.wrPos + copyLen', W)
      <4>1. p \in Nat /\ n \in Nat /\ n <= end - p /\ end \in Nat /\ p <= p + n
        BY <1>1, <1>2, <2>1
      <4>2. p + n <= end
        <5>. HIDE DEF p
        <5>. QED  BY <4>1
      <4>. QED  BY <1>3, <2>5, <3>2, <3>5, <4>1, <4>2
    <3>7. ASSUME loop'.dst < loop'.end
          PROVE  /\ copyDist' <= Behind' /\ Behind' % copyDist' = 0
                 /\ \A i \in 1..Behind' : text'[(Len(text') - Behind') + i]
                      = text'[Len(text') - copyDist' + 1 + ((i - 1) % copyDist')]
      <4>1. Behind' = d /\ d % d = 0 /\ copyDist' = d /\ p + n < end
        BY <1>3, <3>2, <3>4, <3>7
      <4>. QED  BY <1>1, <3>3, <4>1
    <3>. QED  BY <3>6, <3>7 DEF Copying
  <2>10. Window(dict'.hist, loop'.dst, dict'.full, text', base')
    BY <1>3, <2>2, <2>4, <2>5, <2>6
  <2>. QED  BY <1>1, <1>3, <2>4, <2>5, <2>6, <2>7, <2>8, <2>9, <2>10, CopiedWindow
<1>5. CASE ~(p - d < 0)
  <2>1. /\ UNCHANGED <<dict, text>>
        /\ loop' = [src |-> p - d, dst |-> p, end |-> end]
    BY <1>5 DEF CopyHistory
  <2>. HIDE DEF end
  <2>2. TypeOK'
    <3>1. loop' \in [src : 0..W, dst : 0..W, end : 0..W]
      BY <1>1, <1>2, <1>5, <2>1
    <3>. QED  BY <1>1, <1>3, <2>1, <3>1 DEF WInv, TypeOK, PC
  <2>3. Pending'
    BY <1>1, <1>3, <2>1 DEF WInv, Pending, AtRest, HistoryReached, HistSize
  <2>4. Copying'
    <3>1. loop'.src = p - d /\ loop'.dst = p /\ loop'.end = end /\ Behind' = d
      BY <1>1, <2>1 DEF Behind
    <3>2. ASSUME p < end PROVE d \in Nat \ {0}
      BY <1>1, <1>2, <3>2 DEF WInv, Pending, HistoryReached
    <3>3. ASSUME p < end, NEW i \in 1..d
          PROVE  text[(Len(text) - d) + i] = text[Len(text) - d + 1 + ((i - 1) % d)]
      <4>1. (i - 1) % d = i - 1
        BY <3>2, <3>3, ModSmall
      <4>2. (Len(text) - d) + i = Len(text) - d + 1 + (i - 1)
        BY <1>1
      <4>. QED  BY <4>1, <4>2
    <3>4. p < end => d % d = 0
      BY <3>2, ModSmall
    <3>5. end = Lesser(p + copyLen, W)
      BY DEF end
    <3>6. /\ dict'.wrPos <= loop'.dst /\ loop'.dst <= loop'.end
          /\ loop'.end = Lesser(dict'.wrPos + copyLen', W)
      BY <1>1, <1>2, <1>3, <2>1, <3>1, <3>5
    <3>7. ASSUME loop'.dst < loop'.end
          PROVE  /\ copyDist' <= Behind' /\ Behind' % copyDist' = 0
                 /\ \A i \in 1..Behind' : text'[(Len(text') - Behind') + i]
                      = text'[Len(text') - copyDist' + 1 + ((i - 1) % copyDist')]
      <4>1. Behind' = d /\ d % d = 0 /\ copyDist' = d /\ p < end /\ text' = text
        BY <1>3, <2>1, <3>1, <3>4, <3>7
      <4>. QED  BY <1>1, <3>3, <4>1
    <3>. QED  BY <3>6, <3>7 DEF Copying
  <2>5. text' = text \o <<>> /\ <<>> \in Seq(Byte)
    BY <1>1, <2>1, ConcatEmptySeq
  <2>6. Window(dict'.hist, loop'.dst, dict'.full, text', base')
    BY <1>1, <1>3, <2>1
  <2>. QED  BY <1>1, <1>3, <2>1, <2>2, <2>3, <2>4, <2>5, <2>6, CopiedWindow
<1>. QED  BY <1>4, <1>5

(* A further chunk doubles what lies between src and dst, or ends the      *)
(* match.                                                                  *)
LEMMA CopyChunkW == ASSUME WInv, CopyChunk PROVE WInv'
<1>. USE DEF ioVars, outVars, markVars
<1>. DEFINE n == ChunkLen  d == copyDist  D == Behind  p == loop.dst
            t == Slice(dict.hist, loop.src, n)  h == Blit(dict.hist, p, loop.src, n)
<1>1. /\ p \in 0..W /\ loop.src \in 0..W /\ loop.end \in 0..W /\ W \in Nat /\ Len(text) \in Nat
      /\ dict \in Dict /\ dict.hist \in Buffer /\ dict.full \in BOOLEAN /\ dict.rdPos <= dict.wrPos
      /\ text \in Seq(Byte) /\ base \in Nat /\ base <= Len(text) /\ dict.wrPos < W
      /\ loop \in [src : 0..W, dst : 0..W, end : 0..W]
  BY WindowAssumption DEF WInv, TypeOK, Dict, Room, Buffer
<1>2. /\ pc = "copyChunk" /\ p < loop.end /\ dict' = [dict EXCEPT !.hist = h]
      /\ text' = text \o Repeat(d, n) /\ loop' = [loop EXCEPT !.dst = p + n]
      /\ UNCHANGED <<pc, ioVars, step, stepState, final, copyLen, copyDist, err, outVars, markVars,
                     base, start, blocks>>
  BY DEF CopyChunk
<1>3. /\ n \in Nat /\ n <= loop.end - p /\ n <= D /\ (n = loop.end - p \/ n = D)
      /\ d \in Nat \ {0} /\ D \in Nat /\ D <= Len(text) /\ loop.src + n <= W /\ Repeat(d, n) = t
  BY <1>2, ChunkSource
<1>4. /\ dict.wrPos <= p /\ loop.end = Lesser(dict.wrPos + copyLen, W) /\ d <= D /\ D % d = 0
      /\ \A i \in 1..D : text[(Len(text) - D) + i] = text[Len(text) - d + 1 + ((i - 1) % d)]
  BY <1>2 DEF WInv, Copying
<1>5. Window(dict.hist, p, dict.full, text, base)
  BY <1>2 DEF WInv, WindowExact, Written
<1>6. p + n <= W /\ D = p - loop.src
  BY <1>1, <1>3 DEF Behind
<1>. HIDE DEF n, D
<1>7. t \in Seq(Byte) /\ Len(t) = n /\ h \in Buffer /\ Window(h, p + n, dict.full, text \o t, base)
  BY <1>1, <1>3, <1>5, <1>6, BlitWindow, SMTT(30)
<1>8. /\ dict' \in Dict /\ dict'.hist = h /\ dict'.wrPos = dict.wrPos /\ dict'.rdPos = dict.rdPos
      /\ dict'.full = dict.full
  <2>. HIDE DEF h
  <2>. QED  BY <1>1, <1>2, <1>7 DEF Dict, Buffer
<1>. HIDE DEF h
<1>9. text' = text \o t /\ text' \in Seq(Byte) /\ Len(text') = Len(text) + n
  <2>. HIDE DEF t
  <2>. QED  BY <1>1, <1>2, <1>3, <1>7, ConcatProperties
<1>10. loop'.src = loop.src /\ loop'.dst = p + n /\ loop'.end = loop.end
       /\ loop' \in [src : 0..W, dst : 0..W, end : 0..W]
  <2>1. p \in Nat /\ n \in Nat /\ p + n <= W /\ W \in Nat
    BY <1>1, <1>3, <1>6
  <2>. HIDE DEF p
  <2>2. p + n \in Nat
    BY <2>1
  <2>3. p + n \in 0..W
    BY <2>1, <2>2
  <2>. QED  BY <1>1, <1>2, <2>3 DEF p
<1>11. TypeOK'
  BY <1>1, <1>2, <1>8, <1>9, <1>10 DEF WInv, TypeOK, PC
<1>12. Pending'
  BY <1>2, <1>8 DEF WInv, Pending, AtRest, HistoryReached, HistSize
<1>13. ASSUME p + n < loop.end
       PROVE  /\ Behind' = D + D /\ d <= D + D /\ (D + D) % d = 0
              /\ \A i \in 1..(D + D) : text'[(Len(text') - (D + D)) + i]
                                         = text'[Len(text') - d + 1 + ((i - 1) % d)]
  <2>1. n = D
    BY <1>1, <1>3, <1>6, <1>13
  <2>2. Behind' = D + D
    BY <1>1, <1>3, <1>6, <1>10, <2>1, SMTT(30) DEF Behind
  <2>3. (D + D) % d = 0
    BY <1>3, <1>4, ModShift
  <2>4. \A i \in 1..D : t[i] = text[(Len(text) - d) + 1 + ((i - 1) % d)]
    BY <1>3, <2>1 DEF Repeat
  <2>5. \A m \in 1..Len(text) : text'[m] = text[m]
    BY <1>1, <1>7, <1>9, ConcatProperties
  <2>6. \A m \in 1..D : text'[Len(text) + m] = t[m]
    <3>. HIDE DEF t
    <3>. QED  BY <1>1, <1>3, <1>7, <1>9, <2>1, ConcatProperties
  <2>7. ASSUME NEW i \in 1..(D + D)
        PROVE  text'[(Len(text') - (D + D)) + i] = text'[Len(text') - d + 1 + ((i - 1) % d)]
    <3>. DEFINE r == (i - 1) % d
    <3>1. r \in 0..(d - 1)
      <4>1. i - 1 \in Nat
        BY <1>3
      <4>. QED  BY <1>3, <4>1, DivMod
    <3>. DEFINE v == text[(Len(text) - d) + 1 + r]
    <3>2. text'[Len(text') - d + 1 + r] = v
      <4>1. (D - d) % d = 0
        <5>1. D - d \in Nat /\ D = d + (D - d) /\ d % d = 0
          BY <1>3, <1>4, ModSmall
        <5>2. (d + (D - d)) % d = (D - d) % d
          BY <1>3, <5>1, ModShift
        <5>. QED  BY <1>4, <5>1, <5>2
      <4>2. ((D - d) + r) % d = r
        <5>1. D - d \in Nat /\ r \in Nat /\ r < d
          BY <1>3, <1>4, <3>1
        <5>. HIDE DEF r
        <5>2. ((D - d) + r) % d = r % d
          BY <1>3, <4>1, <5>1, ModShift
        <5>. QED  BY <1>3, <5>1, <5>2, ModSmall
      <4>. DEFINE m == (D - d) + r + 1
      <4>3. m \in 1..D /\ m - 1 = (D - d) + r
        BY <1>3, <1>4, <3>1
      <4>. HIDE DEF r
      <4>4. t[m] = text[(Len(text) - d) + 1 + r]
        BY <2>4, <4>2, <4>3
      <4>5. text'[Len(text) + m] = t[m]
        BY <2>6, <4>3
      <4>6. Len(text') - d + 1 + r = Len(text) + m
        BY <1>1, <1>3, <1>9, <2>1, <3>1
      <4>. QED  BY <4>4, <4>5, <4>6
    <3>3. text'[(Len(text') - (D + D)) + i] = v
      <4>1. (Len(text') - (D + D)) + i = (Len(text) - D) + i
        BY <1>1, <1>3, <1>9, <2>1
      <4>2. CASE i <= D
        <5>1. (Len(text) - D) + i \in 1..Len(text)
          BY <1>1, <1>3, <4>2
        <5>2. text[(Len(text) - D) + i] = v
          BY <1>4, <4>2
        <5>. QED  BY <2>5, <4>1, <5>1, <5>2
      <4>3. CASE i > D
        <5>1. i - D \in 1..D /\ (i - D) - 1 \in Nat /\ i - 1 = D + ((i - D) - 1)
          BY <1>3, <4>3
        <5>2. ((i - D) - 1) % d = r
          <6>. DEFINE y == (i - D) - 1
          <6>1. y \in Nat /\ i - 1 = D + y
            BY <5>1
          <6>. HIDE DEF y
          <6>2. (D + y) % d = y % d
            BY <1>3, <1>4, <6>1, ModShift
          <6>3. (i - 1) % d = y % d
            BY <6>1, <6>2
          <6>. QED  BY <6>3 DEF y
        <5>3. t[i - D] = v
          BY <2>4, <5>1, <5>2
        <5>4. text'[Len(text) + (i - D)] = t[i - D] /\ Len(text) + (i - D) = (Len(text) - D) + i
          BY <2>6, <5>1, <1>1, <1>3
        <5>. QED  BY <4>1, <5>3, <5>4
      <4>. QED  BY <1>3, <4>2, <4>3
    <3>. QED  BY <3>2, <3>3
  <2>. QED  BY <1>3, <1>4, <2>2, <2>3, <2>7
<1>14. Copying'
  <2>1. /\ dict'.wrPos <= loop'.dst /\ loop'.dst <= loop'.end
        /\ loop'.end = Lesser(dict'.wrPos + copyLen', W)
    <3>1. dict.wrPos \in Nat
      BY <1>1 DEF Dict
    <3>. QED  BY <1>1, <1>2, <1>3, <1>4, <1>8, <1>10, <3>1, SMTT(30)
  <2>2. ASSUME loop'.dst < loop'.end
        PROVE  /\ copyDist' <= Behind' /\ Behind' % copyDist' = 0
               /\ \A i \in 1..Behind' : text'[(Len(text') - Behind') + i]
                    = text'[Len(text') - copyDist' + 1 + ((i - 1) % copyDist')]
    <3>1. p + n < loop.end /\ copyDist' = d
      BY <1>2, <1>10, <2>2
    <3>. QED  BY <1>13, <3>1
  <2>. QED  BY <2>1, <2>2 DEF Copying
<1>. HIDE DEF t
<1>. QED  BY <1>1, <1>2, <1>7, <1>8, <1>9, <1>10, <1>11, <1>12, <1>14, CopiedWindow

(* Pause: the window is handed over.                                       *)
LEMMA Paused ==
  ASSUME NEW dd \in Dict, dd.rdPos <= dd.wrPos, NEW s \in Seq(Byte), NEW b \in Nat, b <= Len(s),
         Window(dd.hist, dd.wrPos, dd.full, s, b),
         dict' = Flushed(dd), toRead' = Unread(dd)
  PROVE  /\ dict' \in Dict /\ dict'.rdPos <= dict'.wrPos /\ dict'.wrPos < W
         /\ HistSize(dd) <= HistSize(dict') /\ toRead' \in Seq(Byte)
         /\ Window(dict'.hist, dict'.wrPos, dict'.full, s, b)
<1>1. /\ Flushed(dd) \in Dict /\ Flushed(dd).rdPos = Flushed(dd).wrPos /\ Flushed(dd).wrPos < W
      /\ HistSize(dd) <= HistSize(Flushed(dd))
      /\ Window(Flushed(dd).hist, Flushed(dd).wrPos, Flushed(dd).full, s, b)
      /\ Unread(dd) \in Seq(Byte)
  BY FlushedWindow
<1>2. Flushed(dd).wrPos \in Nat
  BY <1>1 DEF Dict
<1>. QED  BY <1>1, <1>2

(* The match is done, or its rest waits for room.                          *)
LEMMA CopyDoneW == ASSUME WInv, CopyDone PROVE WInv'
<1>. USE DEF ioVars, stepVars, outVars, markVars, histVars
<1>. DEFINE dd == [dict EXCEPT !.wrPos = loop.dst]
            rest == copyLen - (loop.dst - dict.wrPos)
<1>1. /\ pc = "copyChunk" /\ copyLen' = rest
      /\ UNCHANGED <<ioVars, final, copyDist, loop, err, woffset, markVars, histVars, blocks>>
      /\ IF AvailWrite(dd) = 0 \/ rest > 0
           THEN Pause(dd, "dict")
           ELSE dict' = dd /\ pc' = "readLiteral" /\ UNCHANGED <<toRead, step, stepState>>
  BY DEF CopyDone
<1>2. /\ dict \in Dict /\ dict.rdPos <= dict.wrPos /\ loop.dst \in 0..W /\ loop.end \in 0..W
      /\ dict.wrPos \in 0..W /\ dict.rdPos \in 0..W /\ copyLen \in Nat /\ W \in Nat
      /\ text \in Seq(Byte) /\ base \in Nat /\ base <= Len(text) /\ dict.full \in BOOLEAN
  BY WindowAssumption DEF WInv, TypeOK, Dict, Room
<1>3. /\ dict.wrPos <= loop.dst /\ loop.dst <= loop.end /\ loop.end = Lesser(dict.wrPos + copyLen, W)
      /\ Window(dict.hist, loop.dst, dict.full, text, base) /\ HistoryReached
  BY <1>1 DEF WInv, Copying, WindowExact, Written, Pending
<1>4. rest \in Nat
  BY <1>2, <1>3 DEF Lesser
<1>5. /\ dd \in Dict /\ dd.wrPos = loop.dst /\ dd.hist = dict.hist /\ dd.full = dict.full
      /\ dd.rdPos = dict.rdPos
  BY <1>2 DEF Dict
<1>6. /\ dd.rdPos <= dd.wrPos /\ Window(dd.hist, dd.wrPos, dd.full, text, base)
      /\ HistSize(dict) <= HistSize(dd) /\ HistSize(dd) \in Nat /\ HistSize(dict) \in Nat
  <2>1. dd.rdPos <= dd.wrPos
    BY <1>2, <1>3, <1>5
  <2>2. HistSize(dict) <= HistSize(dd) /\ HistSize(dd) \in Nat /\ HistSize(dict) \in Nat
    BY <1>2, <1>3, <1>5 DEF HistSize
  <2>. HIDE DEF dd
  <2>. QED  BY <1>3, <1>5, <2>1, <2>2
<1>. HIDE DEF dd, rest
<1>7. /\ dict' \in Dict /\ dict'.rdPos <= dict'.wrPos /\ dict'.wrPos < W
      /\ Window(dict'.hist, dict'.wrPos, dict'.full, text, base)
      /\ toRead' \in Seq(Byte) /\ pc' \in {"readLiteral", "returned"}
      /\ step' \in {step, "huffmanBlock"} /\ stepState' \in {stepState, "dict"}
      /\ pc' = "returned" => step' = "huffmanBlock" /\ stepState' = "dict"
      /\ pc' = "readLiteral" => rest = 0
      /\ HistSize(dd) <= HistSize(dict')
  <2>1. CASE AvailWrite(dd) = 0 \/ rest > 0
    <3>1. /\ dict' = Flushed(dd) /\ toRead' = Unread(dd) /\ pc' = "returned"
          /\ step' = "huffmanBlock" /\ stepState' = "dict"
      BY <1>1, <2>1 DEF Pause
    <3>. QED  BY <1>2, <1>5, <1>6, <3>1, Paused
  <2>2. CASE ~(AvailWrite(dd) = 0 \/ rest > 0)
    <3>1. dict' = dd /\ pc' = "readLiteral" /\ UNCHANGED <<toRead, step, stepState>>
      BY <1>1, <2>2
    <3>2. dd.wrPos < W /\ rest = 0
      BY <1>2, <1>4, <1>5, <2>2 DEF AvailWrite
    <3>. QED  BY <1>5, <1>6, <3>1, <3>2 DEF WInv, TypeOK
  <2>. QED  BY <2>1, <2>2
<1>8. TypeOK'
  BY <1>1, <1>2, <1>4, <1>7 DEF WInv, TypeOK, PC
<1>9. Pending'
  <2>1. rest > 0 => copyDist \in 1..HistSize(dict')
    <3>1. HistSize(dict') \in Nat
      BY <1>2, <1>7 DEF HistSize, Dict
    <3>2. rest > 0 => copyLen > 0
      BY <1>2, <1>3 DEF rest
    <3>. QED  BY <1>6, <1>7, <1>3, <3>1, <3>2 DEF HistoryReached
  <2>. QED  BY <1>1, <1>7, <2>1 DEF Pending, AtRest, HistoryReached
<1>10. text' = text \o <<>> /\ <<>> \in Seq(Byte)
  BY <1>1, <1>2, ConcatEmptySeq
<1>. QED  BY <1>1, <1>2, <1>7, <1>8, <1>9, <1>10, GrownWindow

(* A checkpoint that is exact is added.                                    *)
LEMMA MarksAppend ==
  ASSUME TypeOK, NEW s \in Seq(Byte), \A i \in 1..Len(sent) : MarkExact(sent[i], s),
         NEW cp \in Checkpoint, MarkExact(cp, s), sent' = Append(sent, cp), text' = s
  PROVE  MarksExact' /\ sent' \in Seq(Checkpoint)
<1>1. sent \in Seq(Checkpoint)
  BY DEF TypeOK
<1>2. /\ sent' \in Seq(Checkpoint) /\ Len(sent') = Len(sent) + 1 /\ Len(sent) \in Nat
      /\ \A i \in 1..Len(sent) : sent'[i] = sent[i]
      /\ sent'[Len(sent) + 1] = cp
  BY <1>1, AppendProperties
<1>3. ASSUME NEW i \in 1..Len(sent') PROVE MarkExact(sent'[i], s)
  <2>1. CASE i \in 1..Len(sent)
    BY <1>2, <2>1
  <2>2. CASE i = Len(sent) + 1
    BY <1>2, <2>2
  <2>. QED  BY <1>2, <2>1, <2>2
<1>. QED  BY <1>2, <1>3 DEF MarksExact

(* The end of a block, in a window that holds the stream to its end.       *)
LEMMA FinishBlockW ==
  ASSUME WInv, NEW dd \in Dict, dd.rdPos <= dd.wrPos, dd.wrPos < W, NEW ready \in Seq(Byte),
         NEW t \in Seq(Byte), text' = text \o t,
         Window(dd.hist, dd.wrPos, dd.full, text', base),
         final' \in BOOLEAN, copyLen' = 0, blocks' \in 0..MaxBlocks, FinishBlock(dd, ready)
  PROVE  WInv'
<1>. USE DEF ioVars
<1>. DEFINE flush == final' /\ AvailRead(dd) > 0
            out   == EndOffset(dd, flush)
            dd2   == IF flush THEN Flushed(dd) ELSE dd
            cp    == CheckpointAt(out, dd2)
<1>1. /\ toRead' = (IF flush THEN Unread(dd) ELSE ready) /\ dict' = dd2
      /\ err' = (IF final' THEN "EOF" ELSE err)
      /\ IF CheckpointDue(out) THEN sent' = Append(sent, cp) /\ last' = out ELSE UNCHANGED <<sent, last>>
      /\ step' = "nextBlock" /\ pc' = "returned"
      /\ UNCHANGED <<ioVars, woffset, updates, stepState, copyDist, loop, base, start>>
  BY DEF FinishBlock
<1>2. /\ text \in Seq(Byte) /\ text' \in Seq(Byte) /\ Len(text') = Len(text) + Len(t) /\ Len(text) \in Nat
      /\ Len(t) \in Nat /\ base \in Nat /\ base <= Len(text') /\ woffset \in Nat /\ dd.wrPos \in Nat
  <2>1. text \in Seq(Byte) /\ base \in Nat /\ base <= Len(text) /\ woffset \in Nat /\ dd.wrPos \in Nat
    BY DEF WInv, TypeOK, Room, Dict
  <2>. QED  BY <2>1, ConcatProperties
<1>3. /\ Flushed(dd) \in Dict /\ Flushed(dd).rdPos = Flushed(dd).wrPos /\ Flushed(dd).wrPos < W
      /\ Window(Flushed(dd).hist, Flushed(dd).wrPos, Flushed(dd).full, text', base)
      /\ Unread(dd) \in Seq(Byte) /\ AvailRead(dd) \in Nat
  BY <1>2, FlushedWindow
<1>4. Flushed(dd).wrPos \in Nat
  BY <1>3 DEF Dict
<1>5. /\ dd2 \in Dict /\ dd2.rdPos <= dd2.wrPos /\ dd2.wrPos < W
      /\ Window(dd2.hist, dd2.wrPos, dd2.full, text', base)
  BY <1>3, <1>4
<1>6. out \in Nat
  BY <1>2, <1>3 DEF EndOffset
<1>. HIDE DEF dd2, out
<1>7. cp \in Checkpoint /\ MarkExact(cp, text')
  <2>1. cp \in Checkpoint
    BY <1>2, <1>5, <1>6 DEF CheckpointAt, Checkpoint, Dict
  <2>2. SubSeq(text', 1, Len(text')) = text'
    BY <1>2, SubSeqFull
  <2>3. /\ cp.n = Len(text') /\ cp.base = base /\ cp.wrPos = dd2.wrPos /\ cp.rdPos = dd2.rdPos
        /\ cp.hist = dd2.hist /\ cp.full = dd2.full
    BY DEF CheckpointAt
  <2>. HIDE DEF cp
  <2>4. cp.n <= Len(text')
    BY <1>2, <2>3
  <2>. QED  BY <1>2, <1>5, <2>1, <2>2, <2>3, <2>4 DEF MarkExact
<1>8. \A i \in 1..Len(sent) : MarkExact(sent[i], text')
  BY MarksGrow DEF WInv
<1>. HIDE DEF cp
<1>9. MarksExact' /\ sent' \in Seq(Checkpoint) /\ last' \in Nat
  <2>1. CASE CheckpointDue(out)
    BY <1>1, <1>2, <1>6, <1>7, <1>8, <2>1, MarksAppend DEF WInv
  <2>2. CASE ~CheckpointDue(out)
    BY <1>1, <1>8, <2>2 DEF WInv, TypeOK, MarksExact
  <2>. QED  BY <2>1, <2>2
<1>10. TypeOK'
  <2>1. toRead' \in Seq(Byte) /\ err' \in {"nil", "EOF"} \cup InputErrors
    BY <1>1, <1>3 DEF WInv, TypeOK
  <2>. QED  BY <1>1, <1>2, <1>5, <1>9, <2>1 DEF WInv, TypeOK, PC
<1>11. Pending'
  BY <1>1 DEF Pending, AtRest
<1>. QED  BY <1>1, <1>2, <1>5, <1>9, <1>10, <1>11 DEF WInv, Room, WindowExact, Written, Copying

(* An empty stored block flushes the window.                               *)
LEMMA EmptyBlockW == ASSUME WInv, EmptyBlock PROVE WInv'
<1>1. /\ FinishBlock(Flushed(dict), Unread(dict)) /\ text' = text /\ copyLen' = copyLen
      /\ pc = "nextBlock" /\ blocks' = blocks + 1 /\ blocks < MaxBlocks /\ final' \in BOOLEAN
  BY DEF EmptyBlock, BlockBegins
<1>2. /\ dict \in Dict /\ dict.rdPos <= dict.wrPos /\ text \in Seq(Byte) /\ base \in Nat /\ base <= Len(text)
      /\ Window(dict.hist, dict.wrPos, dict.full, text, base) /\ copyLen = 0
      /\ blocks' \in 0..MaxBlocks
  BY <1>1, ParameterAssumption DEF WInv, TypeOK, Room, WindowExact, Written, Pending
<1>3. /\ Flushed(dict) \in Dict /\ Flushed(dict).rdPos = Flushed(dict).wrPos /\ Flushed(dict).wrPos < W
      /\ Window(Flushed(dict).hist, Flushed(dict).wrPos, Flushed(dict).full, text, base)
      /\ Unread(dict) \in Seq(Byte)
  BY <1>2, FlushedWindow
<1>4. Flushed(dict).rdPos <= Flushed(dict).wrPos
  BY <1>3 DEF Dict
<1>5. text' = text \o <<>> /\ <<>> \in Seq(Byte)
  BY <1>1, <1>2, ConcatEmptySeq
<1>. QED  BY <1>1, <1>2, <1>3, <1>4, <1>5, FinishBlockW

(* The end-of-block symbol.                                                *)
LEMMA EndOfBlockW == ASSUME WInv, EndOfBlock PROVE WInv'
<1>1. /\ FinishBlock(dict, toRead) /\ text' = text /\ copyLen' = copyLen
      /\ pc = "readLiteral" /\ blocks' = blocks /\ final' = final
  BY DEF EndOfBlock
<1>2. /\ dict \in Dict /\ dict.rdPos <= dict.wrPos /\ dict.wrPos < W /\ text \in Seq(Byte)
      /\ Window(dict.hist, dict.wrPos, dict.full, text, base) /\ copyLen = 0
      /\ blocks \in 0..MaxBlocks /\ toRead \in Seq(Byte) /\ final \in BOOLEAN
  BY <1>1 DEF WInv, TypeOK, Room, WindowExact, Written, Pending
<1>3. text' = text \o <<>> /\ <<>> \in Seq(Byte)
  BY <1>1, <1>2, ConcatEmptySeq
<1>. QED  BY <1>1, <1>2, <1>3, FinishBlockW

(* Stored bytes go to the window as far as there is room.                  *)
LEMMA CopyDataW == ASSUME WInv, CopyData PROVE WInv'
<1>. USE DEF ioVars, markVars
<1>1. PICK s \in [1..DataLen -> Byte] :
        /\ pc = "copyData" /\ text' = text \o s /\ copyLen' = copyLen - DataLen /\ UNCHANGED blocks
        /\ IF AvailWrite(Write(dict, s)) = 0 \/ copyLen' > 0
             THEN /\ toRead' = Unread(Write(dict, s))
                  /\ dict' = Flushed(Write(dict, s))
                  /\ step' = "copyData" /\ pc' = "returned"
                  /\ UNCHANGED <<ioVars, err, woffset, markVars, stepState, final, copyDist, loop,
                                 base, start>>
             ELSE UNCHANGED final /\ FinishBlock(Write(dict, s), toRead)
  BY DEF CopyData
<1>. DEFINE dd == Write(dict, s)
<1>2. /\ dict.wrPos \in Nat /\ dict.wrPos < W /\ W \in Nat /\ copyLen \in Nat /\ dict.rdPos \in Nat
      /\ text \in Seq(Byte) /\ base \in Nat /\ base <= Len(text) /\ toRead \in Seq(Byte)
      /\ final \in BOOLEAN /\ blocks \in 0..MaxBlocks
  BY WindowAssumption DEF WInv, TypeOK, Dict, Room
<1>3. DataLen \in Nat /\ DataLen <= copyLen /\ DataLen <= AvailWrite(dict)
  BY <1>2 DEF DataLen, Lesser, AvailWrite
<1>4. s \in Seq(Byte) /\ Len(s) = DataLen
  BY <1>3
<1>5. /\ dd \in Dict /\ dd.rdPos <= dd.wrPos /\ dd.wrPos = dict.wrPos + DataLen
      /\ text' \in Seq(Byte) /\ Len(text') = Len(text) + DataLen
      /\ Window(dd.hist, dd.wrPos, dd.full, text', base)
  BY <1>1, <1>3, <1>4, WriteWindow
<1>6. base <= Len(text') /\ copyLen' \in Nat
  BY <1>1, <1>2, <1>3, <1>5
<1>. HIDE DEF dd
<1>7. CASE AvailWrite(dd) = 0 \/ copyLen' > 0
  <2>1. /\ toRead' = Unread(dd) /\ dict' = Flushed(dd) /\ step' = "copyData" /\ pc' = "returned"
        /\ UNCHANGED <<ioVars, err, woffset, markVars, stepState, final, copyDist, loop, base, start>>
    BY <1>1, <1>7 DEF dd
  <2>2. /\ dict' \in Dict /\ dict'.rdPos <= dict'.wrPos /\ dict'.wrPos < W /\ toRead' \in Seq(Byte)
        /\ Window(dict'.hist, dict'.wrPos, dict'.full, text', base)
    BY <1>2, <1>5, <1>6, <2>1, Paused
  <2>3. TypeOK'
    BY <1>1, <1>5, <1>6, <2>1, <2>2 DEF WInv, TypeOK, PC
  <2>4. Pending'
    BY <2>1 DEF Pending, AtRest
  <2>. QED  BY <1>1, <1>4, <2>1, <2>2, <2>3, <2>4, GrownWindow
<1>8. CASE ~(AvailWrite(dd) = 0 \/ copyLen' > 0)
  <2>1. FinishBlock(dd, toRead) /\ final' = final
    BY <1>1, <1>8 DEF dd
  <2>2. dd.wrPos < W /\ copyLen' = 0
    BY <1>2, <1>5, <1>6, <1>8 DEF AvailWrite, Dict
  <2>. QED  BY <1>1, <1>2, <1>4, <1>5, <2>1, <2>2, FinishBlockW
<1>. QED  BY <1>7, <1>8

(* Stored bytes up to where the input ended.                               *)
LEMMA BadDataW == ASSUME WInv, BadData PROVE WInv'
<1>. USE DEF ioVars, outVars, markVars
<1>1. /\ pc = "copyData" /\ err' \in InputErrors \ {"corrupt"} /\ pc' = "returned"
      /\ UNCHANGED <<ioVars, step, stepState, final, copyDist, loop, outVars, markVars, base, start, blocks>>
  BY DEF BadData
<1>2. PICK n \in 0..DataLen : n < DataLen /\ \E s \in [1..n -> Byte] :
        dict' = Write(dict, s) /\ text' = text \o s /\ copyLen' = copyLen - n
  BY DEF BadData
<1>3. PICK s \in [1..n -> Byte] :
        dict' = Write(dict, s) /\ text' = text \o s /\ copyLen' = copyLen - n
  BY <1>2
<1>4. /\ dict.wrPos \in Nat /\ dict.wrPos < W /\ W \in Nat /\ copyLen \in Nat
  BY WindowAssumption DEF WInv, TypeOK, Dict, Room
<1>5. n \in Nat /\ n < copyLen /\ n < AvailWrite(dict)
  BY <1>2, <1>4 DEF DataLen, Lesser, AvailWrite
<1>6. s \in Seq(Byte) /\ Len(s) = n
  BY <1>5
<1>7. /\ dict' \in Dict /\ dict'.rdPos <= dict'.wrPos /\ dict'.wrPos = dict.wrPos + n
      /\ text' \in Seq(Byte) /\ Window(dict'.hist, dict'.wrPos, dict'.full, text', base)
  BY <1>1, <1>3, <1>4, <1>5, <1>6, WriteWindow DEF AvailWrite
<1>8. TypeOK'
  BY <1>1, <1>3, <1>4, <1>5, <1>7 DEF WInv, TypeOK, PC
<1>9. Pending'
  BY <1>1 DEF Pending, AtRest, InputErrors
<1>10. dict'.wrPos < W
  BY <1>4, <1>5, <1>7 DEF AvailWrite
<1>. QED  BY <1>1, <1>3, <1>6, <1>7, <1>8, <1>9, <1>10, GrownWindow

(* An empty window is one of a member that begins here.                    *)
LEMMA EmptyWindow ==
  ASSUME NEW s \in Seq(Byte)
  PROVE  /\ EmptyDict \in Dict /\ EmptyDict.wrPos = 0 /\ EmptyDict.rdPos = 0 /\ EmptyDict.full = FALSE
         /\ Window(EmptyDict.hist, 0, FALSE, s, Len(s))
<1>1. Len(s) \in Nat
  OBVIOUS
<1>. QED  BY <1>1, WindowAssumption DEF EmptyDict, Dict, Window, Lesser

(* Where the next member begins, the window is empty; no byte of the       *)
(* stream has been counted that is not there.                              *)
LEMMA ResetW == ASSUME WInv, woffset <= Len(text), Reset PROVE WInv'
<1>1. /\ pc = "idle" /\ ret' = "nil" /\ err' = "nil" /\ dict' = EmptyDict
      /\ sent' = IF updates THEN Append(sent, HeaderCheckpoint(woffset)) ELSE sent
      /\ last' = woffset /\ step' = "nextBlock" /\ stepState' = "init" /\ final' = FALSE
      /\ copyLen' = 0 /\ copyDist' = 0 /\ loop' = [src |-> 0, dst |-> 0, end |-> 0]
      /\ toRead' = <<>> /\ base' = Len(text)
      /\ UNCHANGED <<pc, want, got, woffset, updates, text, start, blocks>>
  BY DEF Reset
<1>2. text \in Seq(Byte) /\ Len(text) \in Nat /\ woffset \in Nat /\ sent \in Seq(Checkpoint) /\ W \in Nat
  BY WindowAssumption DEF WInv, TypeOK
<1>3. /\ EmptyDict \in Dict /\ EmptyDict.wrPos = 0 /\ EmptyDict.rdPos = 0 /\ EmptyDict.full = FALSE
      /\ Window(EmptyDict.hist, 0, FALSE, text, Len(text))
  BY <1>2, EmptyWindow
<1>. DEFINE cp == HeaderCheckpoint(woffset)
<1>4. cp \in Checkpoint /\ MarkExact(cp, text)
  <2>. DEFINE s == SubSeq(text, 1, woffset)
  <2>1. s \in Seq(Byte) /\ Len(s) = woffset
    BY <1>2, Prefix
  <2>2. Window(EmptyDict.hist, 0, FALSE, s, woffset)
    <3>. HIDE DEF s
    <3>. QED  BY <2>1, EmptyWindow
  <2>3. /\ cp.n = woffset /\ cp.base = woffset /\ cp.wrPos = 0 /\ cp.rdPos = 0 /\ cp.full = FALSE
        /\ cp.hist = EmptyDict.hist /\ cp.out = woffset
    BY DEF HeaderCheckpoint
  <2>4. cp \in Checkpoint
    BY <1>2, <1>3 DEF HeaderCheckpoint, Checkpoint, Dict
  <2>. HIDE DEF cp
  <2>5. Window(cp.hist, cp.wrPos, cp.full, SubSeq(text, 1, cp.n), cp.base)
    BY <2>2, <2>3, Zenon DEF s
  <2>6. cp.n <= Len(text) /\ cp.base <= cp.n /\ cp.wrPos < W /\ cp.rdPos <= cp.wrPos
    BY <1>2, <2>3, WindowAssumption
  <2>. QED  BY <2>4, <2>5, <2>6 DEF MarkExact
<1>. HIDE DEF cp
<1>5. MarksExact' /\ sent' \in Seq(Checkpoint)
  <2>1. \A i \in 1..Len(sent) : MarkExact(sent[i], text)
    BY DEF WInv, MarksExact
  <2>2. CASE updates
    BY <1>1, <1>2, <1>4, <2>1, <2>2, MarksAppend DEF WInv, cp
  <2>3. CASE ~updates
    BY <1>1, <1>2, <2>1, <2>3 DEF MarksExact
  <2>. QED  BY <2>2, <2>3
<1>6. TypeOK'
  <2>1. /\ dict' \in Dict /\ dict'.rdPos <= dict'.wrPos
    BY <1>1, <1>3
  <2>2. /\ loop' \in [src : 0..W, dst : 0..W, end : 0..W] /\ copyDist' \in 0..W /\ copyLen' \in Nat
        /\ toRead' \in Seq(Byte) /\ text' \in Seq(Byte) /\ base' \in Nat /\ last' \in Nat
    <3>1. 0 \in 0..W /\ <<>> \in Seq(Byte) /\ 0 \in Nat
      BY <1>2
    <3>. QED  BY <1>1, <1>2, <3>1
  <2>. QED  BY <1>1, <1>5, <2>1, <2>2 DEF WInv, TypeOK, PC
<1>7. Pending'
  BY <1>1 DEF Pending, AtRest
<1>8. Room'
  BY <1>1, <1>2, <1>3, WindowAssumption DEF Room
<1>9. WindowExact'
  <2>1. Window(dict'.hist, dict'.wrPos, dict'.full, text', base')
    BY <1>1, <1>3, Zenon
  <2>. QED  BY <1>1, <2>1 DEF WindowExact, Written
<1>. QED  BY <1>1, <1>5, <1>6, <1>7, <1>8, <1>9 DEF WInv, Copying

(* Continue takes the window from a checkpoint.                            *)
LEMMA ContinueW == ASSUME WInv, Continue PROVE WInv'
<1>1. PICK i \in 1..Len(sent) :
        /\ dict' = Resumed(sent[i])
        /\ woffset' = sent[i].out /\ last' = sent[i].out /\ start' = sent[i].out
        /\ text' = SubSeq(text, 1, sent[i].n)
        /\ base' = sent[i].base
  BY DEF Continue
<1>2. /\ pc = "idle" /\ updates' = FALSE /\ sent' = <<>>
      /\ step' = "nextBlock" /\ stepState' = "init" /\ final' = FALSE /\ err' = "nil"
      /\ copyLen' = 0 /\ copyDist' = 0 /\ loop' = [src |-> 0, dst |-> 0, end |-> 0]
      /\ toRead' = <<>> /\ ret' = "nil" /\ got' = <<>>
      /\ UNCHANGED <<pc, want, blocks>>
  BY DEF Continue
<1>. DEFINE cp == sent[i]
<1>3. cp \in Checkpoint /\ MarkExact(cp, text) /\ text \in Seq(Byte)
  BY ElementOfSeq DEF WInv, TypeOK, MarksExact
<1>. HIDE DEF cp
<1>4. /\ cp.n \in Nat /\ cp.base \in Nat /\ cp.out \in Nat /\ cp.n <= Len(text) /\ cp.base <= cp.n
      /\ cp.wrPos < W /\ cp.rdPos <= cp.wrPos
      /\ Window(cp.hist, cp.wrPos, cp.full, SubSeq(text, 1, cp.n), cp.base)
  BY <1>3 DEF Checkpoint, MarkExact
<1>5. SubSeq(text, 1, cp.n) \in Seq(Byte) /\ Len(SubSeq(text, 1, cp.n)) = cp.n
  BY <1>3, <1>4, Prefix
<1>6. /\ Resumed(cp) \in Dict /\ Resumed(cp).hist = cp.hist /\ Resumed(cp).wrPos = cp.wrPos
      /\ Resumed(cp).rdPos = cp.rdPos /\ Resumed(cp).full = cp.full
  BY <1>3 DEF Resumed, Dict, Checkpoint
<1>7. /\ dict' = Resumed(cp) /\ woffset' = cp.out /\ last' = cp.out /\ start' = cp.out
      /\ text' = SubSeq(text, 1, cp.n) /\ base' = cp.base
  BY <1>1 DEF cp
<1>8. TypeOK'
  <2>1. 0 \in 0..W /\ <<>> \in Seq(Byte) /\ <<>> \in Seq(Checkpoint)
    BY WindowAssumption
  <2>2. /\ loop' \in [src : 0..W, dst : 0..W, end : 0..W] /\ copyDist' \in 0..W /\ copyLen' \in Nat
        /\ toRead' \in Seq(Byte) /\ got' \in Seq(Byte) /\ sent' \in Seq(Checkpoint)
    BY <1>2, <2>1
  <2>3. dict' \in Dict /\ dict'.rdPos <= dict'.wrPos
    BY <1>4, <1>6, <1>7
  <2>4. /\ text' \in Seq(Byte) /\ base' \in Nat /\ last' \in Nat /\ woffset' \in Nat /\ start' \in Nat
    BY <1>4, <1>5, <1>7
  <2>. QED  BY <1>2, <2>2, <2>3, <2>4 DEF WInv, TypeOK, PC
<1>9. Pending'
  BY <1>2 DEF Pending, AtRest
<1>10. MarksExact'
  BY <1>2 DEF MarksExact
<1>11. Room'
  BY <1>4, <1>5, <1>6, <1>7 DEF Room
<1>12. WindowExact'
  BY <1>2, <1>4, <1>6, <1>7 DEF WindowExact, Written
<1>. QED  BY <1>2, <1>8, <1>9, <1>10, <1>11, <1>12 DEF WInv, Copying

(* At the start the window is empty.                                       *)
LEMMA InitW == ASSUME Init PROVE WInv
<1>. USE DEF Init
<1>1. <<>> \in Seq(Byte) /\ Len(<<>>) = 0
  OBVIOUS
<1>2. /\ EmptyDict \in Dict /\ EmptyDict.wrPos = 0 /\ EmptyDict.rdPos = 0 /\ EmptyDict.full = FALSE
      /\ Window(EmptyDict.hist, 0, FALSE, <<>>, 0)
  BY <1>1, EmptyWindow
<1>. DEFINE cp == HeaderCheckpoint(0)
<1>3. /\ cp.n = 0 /\ cp.base = 0 /\ cp.wrPos = 0 /\ cp.rdPos = 0 /\ cp.full = FALSE
      /\ cp.hist = EmptyDict.hist /\ cp.out = 0 /\ cp \in Checkpoint
  BY <1>2, WindowAssumption DEF HeaderCheckpoint, Checkpoint, Dict
<1>4. MarkExact(cp, <<>>)
  <2>1. SubSeq(<<>>, 1, 0) = <<>>
    BY SubSeqEmpty
  <2>. HIDE DEF cp
  <2>2. Window(cp.hist, cp.wrPos, cp.full, SubSeq(<<>>, 1, cp.n), cp.base)
    BY <1>2, <1>3, <2>1, Zenon
  <2>3. cp.n <= Len(<<>>) /\ cp.base <= cp.n /\ cp.wrPos < W /\ cp.rdPos <= cp.wrPos
    BY <1>1, <1>3, WindowAssumption
  <2>. QED  BY <2>2, <2>3 DEF MarkExact
<1>. HIDE DEF cp
<1>5. sent = <<cp>> /\ sent \in Seq(Checkpoint) /\ Len(sent) = 1 /\ sent[1] = cp
  BY <1>3 DEF cp
<1>6. TypeOK
  <2>1. 0 \in 0..W /\ 0 \in 0..MaxBlocks
    BY WindowAssumption, ParameterAssumption
  <2>2. loop \in [src : 0..W, dst : 0..W, end : 0..W] /\ copyDist \in 0..W
    BY <2>1
  <2>3. dict \in Dict /\ dict.rdPos <= dict.wrPos
    BY <1>2
  <2>. QED  BY <1>1, <1>5, <2>1, <2>2, <2>3, ParameterAssumption DEF TypeOK, PC
<1>7. MarksExact
  BY <1>4, <1>5 DEF MarksExact
<1>8. Room
  BY <1>1, <1>2, WindowAssumption DEF Room
<1>9. WindowExact
  <2>1. Window(dict.hist, dict.wrPos, dict.full, text, base)
    BY <1>2, Zenon
  <2>. QED  BY <2>1 DEF WindowExact, Written
<1>10. Pending
  BY DEF Pending, AtRest
<1>. QED
  BY <1>6, <1>7, <1>8, <1>9, <1>10 DEF WInv, Copying

---------------------------------------------------------------------------
(* The invariant of what is handed out *)

(* The position of the first byte in the window that is still unread.      *)
Handed == Len(text) - (Written - dict.rdPos)

(* What the Reads have returned and what they are about to return.         *)
Delivered ==
  /\ start <= Handed
  /\ got \o toRead = SubSeq(text, start + 1, Handed)
  /\ woffset = IF pc = "returned" THEN start + Len(got) ELSE Handed
  /\ pc \notin {"idle", "loop", "returned"} => toRead = <<>>
  /\ err # "nil" =>
       /\ pc \in {"idle", "loop"} => AvailRead(dict) = 0
       /\ pc = "returned" => toRead = <<>> \/ AvailRead(dict) = 0
  /\ pc = "idle" /\ ret # "nil" => err # "nil" /\ toRead = <<>>

(* No checkpoint is overdue where a block begins, or will.                 *)
NoneOverdue ==
  updates /\ (pc = "nextBlock" \/ (AtRest /\ step = "nextBlock")) =>
    Handed - last <= Span \/ AvailRead(dict) = 0

(* Out is the position of the first byte a checkpoint keeps unread; none   *)
(* lies beyond what has been handed out; they are a span apart.            *)
Placed ==
  /\ \A i \in 1..Len(sent) : sent[i].out = sent[i].n - (sent[i].wrPos - sent[i].rdPos)
  /\ \A i \in 1..Len(sent) : sent[i].out <= Handed
  /\ sent # <<>> => sent[Len(sent)].out <= last
  /\ \A i \in 1..(Len(sent) - 1) :
       \/ sent[i + 1].out - sent[i].out > Span
       \/ IsHeader(sent[i + 1]) /\ sent[i + 1].out >= sent[i].out

DInv == Delivered /\ NoneOverdue /\ Placed

IInv == WInv /\ DInv

---------------------------------------------------------------------------
(* Positions in the stream *)

(* Where the unread bytes of the window lie in the stream.                 *)
LEMMA Position ==
  ASSUME WInv
  PROVE  /\ Handed \in Nat /\ base <= Handed /\ Handed <= Len(text) /\ Len(text) \in Nat
         /\ Len(text) - Handed = Written - dict.rdPos
         /\ pc # "copyChunk" => AvailRead(dict) \in Nat /\ Handed = Len(text) - AvailRead(dict)
<1>1. /\ dict.hist \in Buffer /\ dict.wrPos \in 0..W /\ dict.rdPos \in 0..W /\ dict.rdPos <= dict.wrPos
      /\ dict.full \in BOOLEAN /\ text \in Seq(Byte) /\ base \in Nat /\ base <= Len(text)
      /\ W \in Nat /\ Len(text) \in Nat /\ loop.dst \in 0..W
  BY WindowAssumption DEF WInv, TypeOK, Room, Dict, Buffer
<1>2. Written \in 0..W /\ dict.rdPos <= Written /\ (pc # "copyChunk" => Written = dict.wrPos)
  BY <1>1 DEF WInv, Copying, Written
<1>3. Window(dict.hist, Written, dict.full, text, base)
  BY DEF WInv, WindowExact
<1>. DEFINE pos == Written  n == Written - dict.rdPos  r == dict.rdPos
<1>4. n \in Nat /\ r \in Nat /\ r + n = pos /\ pos \in 0..W
  BY <1>1, <1>2
<1>. HIDE DEF pos, n
<1>5. n <= Len(text) - base
  <2>1. Window(dict.hist, pos, dict.full, text, base)
    BY <1>3 DEF pos
  <2>. QED  BY <1>1, <1>4, <2>1, UnreadWindow
<1>6. Handed = Len(text) - n
  BY DEF Handed, n
<1>7. Handed \in Nat /\ base <= Handed /\ Handed <= Len(text) /\ Len(text) - Handed = n
  BY <1>1, <1>4, <1>5, <1>6
<1>8. n = Written - dict.rdPos /\ (pc # "copyChunk" => AvailRead(dict) = n)
  BY <1>2 DEF n, AvailRead
<1>. QED  BY <1>1, <1>4, <1>6, <1>7, <1>8

(* Adjacent pieces of a stream, the second one of it as it has grown.      *)
LEMMA Joined ==
  ASSUME NEW s \in Seq(Byte), NEW t \in Seq(Byte), NEW a \in Nat, NEW b \in Nat, NEW c \in Nat,
         a <= b, b <= c, b <= Len(s), c <= Len(s \o t)
  PROVE  SubSeq(s, a + 1, b) \o SubSeq(s \o t, b + 1, c) = SubSeq(s \o t, a + 1, c)
<1>. DEFINE v == s \o t  u == SubSeq(s, a + 1, b)  w == SubSeq(v, a + 1, b)
<1>1. v \in Seq(Byte) /\ Len(v) \in Nat /\ Len(s) \in Nat /\ Len(s) <= Len(v)
  BY ConcatProperties, LenProperties
<1>2. \A i \in (a + 1)..b : s[i] \in Byte /\ v[i] = s[i]
  BY <1>1, ElementOfSeq, ConcatProperties, LenProperties
<1>3. u \in Seq(Byte) /\ Len(u) = b - a /\ \A i \in 1..(b - a) : u[i] = s[(a + 1) + i - 1]
  BY <1>2, SubSeqProperties
<1>4. w \in Seq(Byte) /\ Len(w) = b - a /\ \A i \in 1..(b - a) : w[i] = v[(a + 1) + i - 1]
  BY <1>2, SubSeqProperties
<1>5. \A i \in 1..(b - a) : u[i] = w[i]
  <2>1. ASSUME NEW i \in 1..(b - a) PROVE u[i] = w[i]
    <3>1. (a + 1) + i - 1 \in (a + 1)..b
      OBVIOUS
    <3>. HIDE DEF u, v, w
    <3>. QED  BY <1>2, <1>3, <1>4, <3>1
  <2>. HIDE DEF u, v, w
  <2>. QED  BY <2>1
<1>. HIDE DEF u, v, w
<1>7. u = w
  BY <1>3, <1>4, <1>5, SeqEqual
<1>6. w \o SubSeq(v, b + 1, c) = SubSeq(v, a + 1, c)
  <2>1. a + 1 \in 1..(Len(v) + 1) /\ b \in ((a + 1) - 1)..Len(v) /\ c \in b..Len(v)
    BY <1>1 DEF v
  <2>. QED  BY <1>1, <2>1, ConcatAdjacentSubSeq DEF w
<1>. QED  BY <1>6, <1>7 DEF u, v

(* The length of a piece of the stream.                                    *)
LEMMA LenBetween ==
  ASSUME NEW s \in Seq(Byte), NEW a \in Nat, NEW b \in Nat, a <= b, b <= Len(s)
  PROVE  SubSeq(s, a + 1, b) \in Seq(Byte) /\ Len(SubSeq(s, a + 1, b)) = b - a
<1>1. \A i \in (a + 1)..b : s[i] \in Byte
  BY ElementOfSeq, LenProperties
<1>. QED  BY <1>1, SubSeqProperties

(* The Reads have returned, or are about to return, all of the stream that *)
(* the window has handed out.                                              *)
LEMMA Counted ==
  ASSUME WInv, Delivered
  PROVE  /\ Len(got) \in Nat /\ Len(toRead) \in Nat /\ start \in Nat /\ woffset \in Nat
         /\ Len(got) + Len(toRead) = Handed - start
         /\ toRead = <<>> => start + Len(got) = Handed /\ got = SubSeq(text, start + 1, Handed)
<1>1. got \in Seq(Byte) /\ toRead \in Seq(Byte) /\ text \in Seq(Byte) /\ start \in Nat /\ woffset \in Nat
  BY DEF WInv, TypeOK
<1>2. Handed \in Nat /\ start <= Handed /\ Handed <= Len(text)
  BY Position DEF Delivered
<1>3. got \o toRead = SubSeq(text, start + 1, Handed)
  BY DEF Delivered
<1>4. Len(SubSeq(text, start + 1, Handed)) = Handed - start
  BY <1>1, <1>2, LenBetween
<1>5. /\ Len(got \o toRead) = Len(got) + Len(toRead) /\ Len(got) \in Nat /\ Len(toRead) \in Nat
      /\ toRead = <<>> => got \o toRead = got /\ Len(toRead) = 0
  BY <1>1, ConcatProperties, ConcatEmptySeq, LenProperties
<1>6. Len(got) + Len(toRead) = Handed - start
  BY <1>3, <1>4, <1>5
<1>7. ASSUME toRead = <<>> PROVE start + Len(got) = Handed /\ got = SubSeq(text, start + 1, Handed)
  <2>1. Len(toRead) = 0 /\ got = SubSeq(text, start + 1, Handed)
    BY <1>3, <1>5, <1>7, Zenon
  <2>. QED  BY <1>1, <1>2, <1>5, <1>6, <2>1
<1>. QED  BY <1>1, <1>5, <1>6, <1>7

(* A step inside one of the step functions: what it adds to the stream     *)
(* stays in the window, or becomes toRead.                                 *)
LEMMA GrowsD ==
  ASSUME WInv, Delivered, pc \notin {"idle", "loop", "returned"}, pc' \notin {"idle", "loop"},
         NEW t \in Seq(Byte), text' = text \o t, UNCHANGED <<start, got, woffset>>,
         Handed' \in Nat, Handed <= Handed', Handed' <= Len(text \o t),
         toRead' = SubSeq(text \o t, Handed + 1, Handed'),
         pc' # "returned" => Handed' <= Handed,
         err' # "nil" /\ pc' = "returned" => toRead' = <<>> \/ AvailRead(dict') = 0
  PROVE  Delivered'
<1>1. /\ text \in Seq(Byte) /\ Handed \in Nat /\ Handed <= Len(text) /\ start \in Nat /\ start <= Handed
      /\ toRead = <<>>
  BY Position DEF WInv, TypeOK, Delivered
<1>2. start + Len(got) = Handed /\ got = SubSeq(text, start + 1, Handed)
  BY <1>1, Counted
<1>3. woffset = Handed
  BY DEF Delivered
<1>. DEFINE b == Handed  c == Handed'
<1>4. b \in Nat /\ c \in Nat /\ b <= c /\ b <= Len(text) /\ start <= b /\ c <= Len(text \o t)
  BY <1>1
<1>5. SubSeq(text, start + 1, b) \o SubSeq(text \o t, b + 1, c) = SubSeq(text \o t, start + 1, c)
  <2>. DEFINE s == text  a == start
  <2>1. s \in Seq(Byte) /\ a \in Nat /\ a <= b /\ b <= Len(s) /\ c <= Len(s \o t) /\ b \in Nat /\ c \in Nat /\ b <= c
    BY <1>1, <1>4
  <2>. HIDE DEF s, a, b, c
  <2>2. SubSeq(s, a + 1, b) \o SubSeq(s \o t, b + 1, c) = SubSeq(s \o t, a + 1, c)
    BY <2>1, Joined, SMTT(60)
  <2>. QED  BY <2>2 DEF s, a
<1>6. got' \o toRead' = SubSeq(text', start' + 1, Handed')
  BY <1>2, <1>5
<1>7. start' <= Handed'
  <2>1. start' = start /\ start <= c
    BY <1>1, <1>4
  <2>. QED  BY <2>1
<1>8. woffset' = IF pc' = "returned" THEN start' + Len(got') ELSE Handed'
  <2>1. pc' # "returned" => c <= b
    OBVIOUS
  <2>2. woffset' = woffset /\ start' + Len(got') = start + Len(got) /\ start + Len(got) = b /\ woffset = b
    BY <1>2, <1>3
  <2>3. pc' # "returned" => woffset' = c
    <3>. HIDE DEF b, c
    <3>. QED  BY <1>4, <2>1, <2>2
  <2>. QED  BY <2>2, <2>3
<1>9. pc' \notin {"idle", "loop", "returned"} => toRead' = <<>>
  <2>1. ASSUME pc' # "returned" PROVE toRead' = <<>>
    <3>1. c <= b
      BY <2>1
    <3>2. toRead' = SubSeq(text \o t, b + 1, c)
      OBVIOUS
    <3>. HIDE DEF b, c
    <3>3. SubSeq(text \o t, b + 1, c) = <<>>
      BY <1>4, <3>1, SubSeqEmpty
    <3>. QED  BY <3>2, <3>3
  <2>. QED  BY <2>1
<1>. QED  BY <1>6, <1>7, <1>8, <1>9 DEF Delivered

(* A step that sends no checkpoint.                                        *)
LEMMA SamePlaced ==
  ASSUME WInv, Placed, UNCHANGED <<sent, last>>, Handed' \in Nat, Handed <= Handed'
  PROVE  Placed'
<1>1. \A i \in 1..Len(sent) : sent[i].out \in Nat
  <2>1. ASSUME NEW i \in 1..Len(sent) PROVE sent[i].out \in Nat
    <3>1. sent \in Seq(Checkpoint)
      BY DEF WInv, TypeOK
    <3>2. sent[i] \in Checkpoint
      BY <3>1, ElementOfSeq
    <3>. QED  BY <3>2 DEF Checkpoint
  <2>. QED  BY <2>1
<1>2. Handed \in Nat
  BY Position
<1>3. \A i \in 1..Len(sent) : sent[i].out <= Handed
  BY DEF Placed
<1>. DEFINE b == Handed  c == Handed'
<1>4. \A i \in 1..Len(sent) : sent[i].out <= c
  <2>1. b \in Nat /\ c \in Nat /\ b <= c /\ \A i \in 1..Len(sent) : sent[i].out <= b
    BY <1>2, <1>3
  <2>. HIDE DEF b, c
  <2>. QED  BY <1>1, <2>1
<1>. QED  BY <1>4 DEF Placed, IsHeader

---------------------------------------------------------------------------
(* The steps *)

(* Read sets nothing but the size of the buffer.                           *)
LEMMA ReadD == ASSUME WInv, DInv, Read PROVE DInv'
<1>. USE DEF Read, ioVars, stepVars, outVars, markVars, histVars
<1>1. Handed' = Handed /\ AvailRead(dict)' = AvailRead(dict)
  BY DEF Handed, Written, AvailRead
<1>2. Handed \in Nat
  BY Position
<1>3. Delivered'
  BY <1>1 DEF DInv, Delivered
<1>4. NoneOverdue'
  BY <1>1 DEF DInv, NoneOverdue, AtRest
<1>5. Placed'
  BY <1>1, <1>2, SamePlaced DEF DInv
<1>. QED  BY <1>3, <1>4, <1>5 DEF DInv

(* What is taken from toRead is what is returned; with the last of it the  *)
(* error.                                                                  *)
LEMMA HandOutD == ASSUME WInv, WInv', DInv, HandOut PROVE DInv'
<1>. USE DEF HandOut, ioVars, stepVars, outVars, markVars, histVars
<1>. DEFINE n == Lesser(want, Len(toRead))
<1>1. Handed' = Handed /\ AvailRead(dict)' = AvailRead(dict)
  BY DEF Handed, Written, AvailRead
<1>2. Handed \in Nat
  BY Position
<1>3. n \in Nat /\ n <= Len(toRead) /\ toRead \in Seq(Byte) /\ got \in Seq(Byte) /\ Len(toRead) \in Nat
  BY DEF WInv, TypeOK, Lesser
<1>4. got' \o toRead' = got \o toRead
  <2>. DEFINE u == SubSeq(toRead, 1, n)  v == SubSeq(toRead, n + 1, Len(toRead))
  <2>1. u \o v = toRead
    <3>1. 1 \in 1..(Len(toRead) + 1) /\ n \in (1 - 1)..Len(toRead) /\ Len(toRead) \in n..Len(toRead)
      BY <1>3
    <3>. HIDE DEF n
    <3>2. u \o v = SubSeq(toRead, 1, Len(toRead))
      BY <1>3, <3>1, ConcatAdjacentSubSeq
    <3>. QED  BY <1>3, <3>2, SubSeqFull
  <2>2. u \in Seq(Byte) /\ v \in Seq(Byte)
    BY <1>3
  <2>3. got' = got \o u /\ toRead' = v
    OBVIOUS
  <2>. HIDE DEF u, v, HandOut
  <2>4. (got \o u) \o v = got \o (u \o v)
    BY <1>3, <2>2, ConcatAssociative, SMTT(30)
  <2>. QED  BY <2>1, <2>3, <2>4
<1>5. ret' # "nil" => err # "nil" /\ toRead' = <<>>
  <2>1. ret' = (IF n = Len(toRead) THEN err ELSE "nil") /\ toRead' = SubSeq(toRead, n + 1, Len(toRead))
    OBVIOUS
  <2>2. n = Len(toRead) => SubSeq(toRead, n + 1, Len(toRead)) = <<>>
    <3>. HIDE DEF n
    <3>. QED  BY <1>3, SubSeqEmpty
  <2>. HIDE DEF n
  <2>. QED  BY <2>1, <2>2
<1>6. Delivered'
  BY <1>1, <1>4, <1>5 DEF DInv, Delivered
<1>7. NoneOverdue'
  BY <1>1 DEF DInv, NoneOverdue, AtRest
<1>8. Placed'
  BY <1>1, <1>2, SamePlaced DEF DInv
<1>. QED  BY <1>6, <1>7, <1>8 DEF DInv

(* When there is an error and toRead is empty, so is the window.           *)
LEMMA ReportErrorD == ASSUME WInv, DInv, ReportError PROVE DInv'
<1>. USE DEF ReportError, ioVars, stepVars, outVars, markVars, histVars
<1>1. Handed' = Handed /\ AvailRead(dict)' = AvailRead(dict)
  BY DEF Handed, Written, AvailRead
<1>2. Handed \in Nat
  BY Position
<1>3. Delivered'
  BY <1>1 DEF DInv, Delivered
<1>4. NoneOverdue'
  BY <1>1 DEF DInv, NoneOverdue, AtRest
<1>5. Placed'
  BY <1>1, <1>2, SamePlaced DEF DInv
<1>. QED  BY <1>3, <1>4, <1>5 DEF DInv

(* A step function is entered with toRead empty.                           *)
LEMMA TakeStepD == ASSUME WInv, DInv, TakeStep PROVE DInv'
<1>. USE DEF TakeStep, EnterHuffman, ioVars, stepVars, outVars, markVars, histVars
<1>0. pc' \in {"nextBlock", "readLiteral", "copyHistory", "copyData"} /\ (pc' = "nextBlock" => step = "nextBlock")
  BY DEF WInv, TypeOK
<1>1. Handed' = Handed /\ AvailRead(dict)' = AvailRead(dict)
  BY <1>0 DEF Handed, Written, AvailRead
<1>2. Handed \in Nat
  BY Position
<1>3. Delivered'
  BY <1>0, <1>1 DEF DInv, Delivered
<1>4. NoneOverdue'
  BY <1>0, <1>1 DEF DInv, NoneOverdue, AtRest
<1>5. Placed'
  BY <1>1, <1>2, SamePlaced DEF DInv
<1>. QED  BY <1>3, <1>4, <1>5 DEF DInv

(* toRead is counted, or the window flushed into it and counted.           *)
LEMMA StepReturnedD == ASSUME WInv, DInv, StepReturned PROVE DInv'
<1>. USE DEF StepReturned, ioVars, stepVars, outVars, markVars, histVars
<1>0. /\ dict \in Dict /\ dict.rdPos <= dict.wrPos /\ text \in Seq(Byte) /\ base \in Nat /\ base <= Len(text)
      /\ Window(dict.hist, dict.wrPos, dict.full, text, base)
      /\ toRead \in Seq(Byte) /\ woffset \in Nat /\ got \in Seq(Byte) /\ start \in Nat
  BY DEF WInv, TypeOK, Room, WindowExact, Written
<1>1. /\ Handed \in Nat /\ Handed = Len(text) - AvailRead(dict) /\ AvailRead(dict) \in Nat /\ Len(text) \in Nat
  BY Position
<1>2. woffset = start + Len(got) /\ start <= Handed /\ Len(got) + Len(toRead) = Handed - start
      /\ Len(got) \in Nat /\ Len(toRead) \in Nat /\ got \o toRead = SubSeq(text, start + 1, Handed)
      /\ (toRead = <<>> => start + Len(got) = Handed /\ got = SubSeq(text, start + 1, Handed))
  BY Counted DEF DInv, Delivered
<1>3. CASE err # "nil" /\ toRead = <<>>
  <2>0. start + Len(got) = Handed /\ got = SubSeq(text, start + 1, Handed)
    BY <1>2, <1>3, Zenon
  <2>1. toRead' = Unread(dict) /\ dict' = Flushed(dict) /\ woffset' = woffset + AvailRead(dict)
    BY <1>3
  <2>2. /\ AvailRead(Flushed(dict)) = 0
        /\ Unread(dict) = SubSeq(text, Len(text) - AvailRead(dict) + 1, Len(text))
    BY <1>0, FlushedWindow
  <2>3. Handed' = Len(text)
    <3>1. Handed' = Len(text) - AvailRead(Flushed(dict))
      BY <2>1 DEF Handed, Written, AvailRead
    <3>. QED  BY <1>1, <2>2, <3>1
  <2>4. woffset' = Len(text) /\ start <= Len(text)
    <3>. DEFINE b == Handed  g == Len(got)  r == AvailRead(dict)  l == Len(text)
    <3>1. /\ woffset = start + g /\ start + g = b /\ woffset' = woffset + r /\ start <= b
          /\ start \in Nat /\ g \in Nat /\ r \in Nat /\ b \in Nat /\ b = l - r /\ l \in Nat
      BY <1>0, <1>1, <1>2, <2>0, <2>1
    <3>. HIDE DEF b, g, r, l
    <3>2. woffset' = l /\ start <= l
      BY <3>1
    <3>. QED  BY <3>2 DEF l
  <2>5. got' \o toRead' = SubSeq(text, start + 1, Len(text))
    <3>. DEFINE b == Handed  c == Len(text)  m == start + 1
    <3>1. /\ m \in 1..(Len(text) + 1) /\ b \in (m - 1)..Len(text) /\ c \in b..Len(text)
          /\ got' = got /\ got = SubSeq(text, m, b)
      <4>1. b \in Nat /\ b <= c /\ c \in Nat /\ start \in Nat /\ start <= b
        BY <1>0, <1>1, <1>2
      <4>2. got = SubSeq(text, m, b) /\ got' = got
        BY <2>0
      <4>. HIDE DEF b
      <4>. QED  BY <4>1, <4>2
    <3>3. toRead' = SubSeq(text, b + 1, c)
      <4>1. Len(text) - AvailRead(dict) = b
        BY <1>1
      <4>. HIDE DEF b
      <4>. QED  BY <2>1, <2>2, <4>1
    <3>. HIDE DEF b, c, m
    <3>2. SubSeq(text, m, b) \o SubSeq(text, b + 1, c) = SubSeq(text, m, c)
      BY <1>0, <3>1, ConcatAdjacentSubSeq
    <3>. QED  BY <3>1, <3>2, <3>3 DEF c, m
  <2>6. Delivered'
    BY <1>3, <2>1, <2>2, <2>3, <2>4, <2>5 DEF DInv, Delivered
  <2>7. NoneOverdue'
    BY <1>3 DEF NoneOverdue, AtRest
  <2>8. Placed'
    BY <1>1, <2>3, SamePlaced DEF DInv
  <2>. QED  BY <2>6, <2>7, <2>8 DEF DInv
<1>4. CASE ~(err # "nil" /\ toRead = <<>>)
  <2>1. toRead' = toRead /\ dict' = dict /\ woffset' = woffset + Len(toRead)
    BY <1>4
  <2>2. Handed' = Handed /\ AvailRead(dict)' = AvailRead(dict)
    BY <2>1 DEF Handed, Written, AvailRead
  <2>3. woffset' = Handed
    <3>. DEFINE b == Handed  g == Len(got)  r == Len(toRead)
    <3>1. /\ woffset = start + g /\ g + r = b - start /\ woffset' = woffset + r
          /\ start \in Nat /\ g \in Nat /\ r \in Nat /\ b \in Nat
      BY <1>0, <1>1, <1>2, <2>1
    <3>. HIDE DEF b, g, r
    <3>2. woffset' = b
      BY <3>1
    <3>. QED  BY <3>2 DEF b
  <2>4. Delivered'
    BY <1>2, <1>4, <2>1, <2>2, <2>3 DEF DInv, Delivered
  <2>5. NoneOverdue'
    BY <2>2 DEF DInv, NoneOverdue, AtRest
  <2>6. Placed'
    BY <1>1, <2>2, SamePlaced DEF DInv
  <2>. QED  BY <2>4, <2>5, <2>6 DEF DInv
<1>. QED  BY <1>3, <1>4

(* A step that sends checkpoint cp.                                        *)
LEMMA MorePlaced ==
  ASSUME WInv, WInv', Placed, NEW cp, sent' = Append(sent, cp), Handed' \in Nat, Handed <= Handed',
         cp.out \in Nat, cp.out <= Handed', cp.out <= last', cp.out >= cp.n - (cp.wrPos - cp.rdPos),
         cp.out <= cp.n - (cp.wrPos - cp.rdPos),
         cp.n \in Nat, cp.wrPos \in Nat, cp.rdPos \in Nat,
         \/ cp.out - last > Span
         \/ IsHeader(cp) /\ cp.out >= Handed
  PROVE  Placed'
<1>. DEFINE l == Len(sent)  b == Handed  c == Handed'
<1>1. /\ sent \in Seq(Checkpoint) /\ l \in Nat /\ \A i \in 1..l : sent[i] \in Checkpoint
      /\ last \in Nat
  <2>1. sent \in Seq(Checkpoint) /\ last \in Nat
    BY DEF WInv, TypeOK
  <2>. QED  BY <2>1, ElementOfSeq, LenProperties
<1>2. Len(sent') = l + 1 /\ (\A i \in 1..l : sent'[i] = sent[i]) /\ sent'[l + 1] = cp
  BY <1>1
<1>3. b \in Nat /\ c \in Nat /\ b <= c /\ cp.out <= c
  BY Position
<1>4. /\ \A i \in 1..l : sent[i].out = sent[i].n - (sent[i].wrPos - sent[i].rdPos)
      /\ \A i \in 1..l : sent[i].out <= b
      /\ sent # <<>> => sent[l].out <= last
      /\ \A i \in 1..(l - 1) :
           \/ sent[i + 1].out - sent[i].out > Span
           \/ IsHeader(sent[i + 1]) /\ sent[i + 1].out >= sent[i].out
  BY DEF Placed
<1>5. \A i \in 1..l : sent[i].out \in Nat
  BY <1>1 DEF Checkpoint
<1>6. cp.out - last > Span \/ (IsHeader(cp) /\ cp.out >= b)
  OBVIOUS
<1>7. cp.out = cp.n - (cp.wrPos - cp.rdPos)
  BY SMTT(30)
<1>. HIDE DEF l, b, c
<1>8. ASSUME NEW i \in 1..(l + 1)
      PROVE  sent'[i].out = sent'[i].n - (sent'[i].wrPos - sent'[i].rdPos) /\ sent'[i].out <= c
  <2>1. CASE i \in 1..l
    BY <1>2, <1>3, <1>4, <1>5, <2>1, SMTT(30)
  <2>2. CASE i = l + 1
    BY <1>2, <1>3, <1>7, <2>2
  <2>3. i \in 1..l \/ i = l + 1
    BY <1>1
  <2>. QED  BY <2>1, <2>2, <2>3
<1>9. ASSUME NEW i \in 1..l
      PROVE  \/ sent'[i + 1].out - sent'[i].out > Span
             \/ IsHeader(sent'[i + 1]) /\ sent'[i + 1].out >= sent'[i].out
  <2>1. CASE i \in 1..(l - 1)
    <3>1. i \in 1..l /\ i + 1 \in 1..l
      BY <1>1, <2>1
    <3>. QED  BY <1>2, <1>4, <2>1, <3>1
  <2>2. CASE i = l
    <3>1. sent'[i + 1] = cp /\ sent'[i] = sent[l] /\ sent[l].out \in Nat /\ sent[l].out <= b
      BY <1>1, <1>2, <1>4, <1>5, <2>2
    <3>2. sent[l].out <= last
      <4>1. sent # <<>>
        BY <1>1, <2>2 DEF l
      <4>. QED  BY <1>4, <4>1
    <3>. QED  BY <1>1, <1>3, <1>6, <3>1, <3>2, ParameterAssumption, SMTT(30)
  <2>3. i \in 1..(l - 1) \/ i = l
    BY <1>1
  <2>. QED  BY <2>1, <2>2, <2>3
<1>10. sent'[Len(sent')].out <= last'
  BY <1>1, <1>2
<1>11. Len(sent') - 1 = l
  BY <1>1, <1>2
<1>12. /\ \A i \in 1..Len(sent') : sent'[i].out = sent'[i].n - (sent'[i].wrPos - sent'[i].rdPos)
       /\ \A i \in 1..Len(sent') : sent'[i].out <= Handed'
       /\ \A i \in 1..(Len(sent') - 1) :
            \/ sent'[i + 1].out - sent'[i].out > Span
            \/ IsHeader(sent'[i + 1]) /\ sent'[i + 1].out >= sent'[i].out
  BY <1>2, <1>8, <1>9, <1>11 DEF c
<1>. QED  BY <1>10, <1>12 DEF Placed, IsHeader

(* The end of a block: what dd holds unread is the end of the stream.      *)
LEMMA FinishBlockD ==
  ASSUME WInv, WInv', DInv, pc \notin {"idle", "loop", "returned"}, pc # "copyChunk",
         NEW dd \in Dict, dd.rdPos <= dd.wrPos, NEW ready,
         NEW t \in Seq(Byte), text' = text \o t, Window(dd.hist, dd.wrPos, dd.full, text', base),
         Handed <= Len(text \o t) - AvailRead(dd),
         ready = SubSeq(text \o t, Handed + 1, Len(text \o t) - AvailRead(dd)),
         \/ Len(text \o t) - AvailRead(dd) <= Handed
         \/ AvailRead(dd) = 0 /\ ~CheckpointDue(woffset),
         ready = <<>> \/ AvailRead(dd) = 0,
         final' \in BOOLEAN, FinishBlock(dd, ready)
  PROVE  DInv'
<1>. USE DEF ioVars
<1>. DEFINE flush == final' /\ AvailRead(dd) > 0
            out   == EndOffset(dd, flush)
            dd2   == IF flush THEN Flushed(dd) ELSE dd
            cp    == CheckpointAt(out, dd2)
            x     == text \o t
            m     == AvailRead(dd)
            b     == Handed
<1>1. /\ toRead' = (IF flush THEN Unread(dd) ELSE ready) /\ dict' = dd2
      /\ err' = (IF final' THEN "EOF" ELSE err)
      /\ IF CheckpointDue(out) THEN sent' = Append(sent, cp) /\ last' = out ELSE UNCHANGED <<sent, last>>
      /\ step' = "nextBlock" /\ pc' = "returned"
      /\ UNCHANGED <<ioVars, woffset, updates, stepState, copyDist, loop, base, start>>
  BY DEF FinishBlock
<1>2. /\ text \in Seq(Byte) /\ x \in Seq(Byte) /\ base \in Nat /\ base <= Len(x) /\ Len(x) \in Nat
      /\ Len(text) \in Nat /\ Len(x) >= Len(text)
  <2>1. text \in Seq(Byte) /\ base \in Nat /\ base <= Len(text)
    BY DEF WInv, TypeOK, Room
  <2>. QED  BY <2>1, ConcatProperties, LenProperties
<1>3. /\ AvailRead(Flushed(dd)) = 0 /\ m \in Nat /\ m <= Len(x)
      /\ Unread(dd) = SubSeq(x, Len(x) - m + 1, Len(x))
  <2>1. Window(dd.hist, dd.wrPos, dd.full, x, base)
    OBVIOUS
  <2>. HIDE DEF x
  <2>. QED  BY <1>2, <2>1, FlushedWindow
<1>4. b \in Nat /\ b <= Len(text) /\ woffset = b
  BY Position DEF DInv, Delivered
<1>5. /\ b <= Len(x) - m
      /\ Len(x) - m <= b \/ (m = 0 /\ ~CheckpointDue(woffset))
      /\ flush => Len(x) - m = b
  <2>1. b <= Len(x) - m /\ (Len(x) - m <= b \/ (m = 0 /\ ~CheckpointDue(woffset)))
    OBVIOUS
  <2>2. flush => m > 0
    OBVIOUS
  <2>. HIDE DEF flush, x, m, b
  <2>. QED  BY <1>2, <1>3, <1>4, <2>1, <2>2
<1>6. Handed' = IF flush THEN Len(x) ELSE Len(x) - m
  <2>1. Handed' = Len(x) - AvailRead(dd2)
    BY <1>1 DEF Handed, Written, AvailRead
  <2>2. CASE flush
    <3>1. AvailRead(dd2) = 0
      BY <1>3, <2>2
    <3>. HIDE DEF x
    <3>. QED  BY <1>2, <2>1, <2>2, <3>1
  <2>3. CASE ~flush
    <3>1. AvailRead(dd2) = m
      BY <2>3
    <3>. QED  BY <2>1, <2>3, <3>1
  <2>. QED  BY <2>2, <2>3
<1>7. Delivered'
  <2>1. /\ Handed' \in Nat /\ Handed <= Handed' /\ Handed' <= Len(x)
        /\ toRead' = SubSeq(x, Handed + 1, Handed')
    <3>1. CASE flush
      <4>1. toRead' = SubSeq(x, b + 1, Len(x))
        <5>1. toRead' = Unread(dd) /\ Len(x) - m = b
          BY <1>1, <1>5, <3>1
        <5>. HIDE DEF x, b, m
        <5>. QED  BY <1>3, <5>1
      <4>2. Handed' = Len(x)
        BY <1>6, <3>1
      <4>. HIDE DEF x, flush
      <4>. QED  BY <1>2, <1>4, <4>1, <4>2
    <3>2. CASE ~flush
      <4>1. toRead' = ready
        BY <1>1, <3>2
      <4>2. Handed' = Len(x) - m /\ ready = SubSeq(x, b + 1, Len(x) - m)
        BY <1>6, <3>2
      <4>3. toRead' = SubSeq(x, Handed + 1, Handed')
        BY <4>1, <4>2, Zenon
      <4>4. Handed' \in Nat /\ b <= Handed' /\ Handed' <= Len(x)
        <5>. HIDE DEF x, m, b
        <5>. QED  BY <1>2, <1>3, <1>4, <1>5, <4>2
      <4>. QED  BY <4>3, <4>4
    <3>. QED  BY <3>1, <3>2
  <2>2. toRead' = <<>> \/ AvailRead(dict') = 0
    BY <1>1, <1>3
  <2>3. /\ Delivered /\ pc' = "returned" /\ UNCHANGED <<start, got, woffset>>
    BY <1>1 DEF DInv
  <2>. QED  BY <2>1, <2>2, <2>3, GrowsD

<1>8. out = (IF flush THEN Len(x) ELSE b)
  BY <1>2, <1>3, <1>4, <1>5 DEF EndOffset
<1>9. /\ m \in Nat /\ Len(x) \in Nat /\ b \in Nat /\ last \in Nat /\ Span \in Nat
      /\ Len(x) - m <= b \/ (m = 0 /\ ~CheckpointDue(b))
      /\ b <= Len(x) - m
  BY <1>2, <1>3, <1>4, <1>5, ParameterAssumption DEF WInv, TypeOK
<1>10. NoneOverdue'
  <2>. SUFFICES ASSUME updates', AtRest' PROVE Handed' - last' <= Span \/ AvailRead(dict)' = 0
    BY <1>1 DEF NoneOverdue
  <2>1. ~final' /\ ~flush
    BY <1>1 DEF AtRest
  <2>2. updates
    BY <1>1
  <2>3. dict' = dd
    BY <1>1, <2>1
  <2>4. Handed' = Len(x) - m /\ out = b
    BY <1>6, <1>8, <2>1
  <2>5. CASE m = 0
    BY <2>3, <2>5
  <2>6. CASE m # 0
    <3>1. Handed' = b
      BY <1>9, <2>4, <2>6
    <3>2. CASE CheckpointDue(b)
      <4>1. last' = b
        BY <1>1, <2>4, <3>2
      <4>. HIDE DEF b
      <4>. QED  BY <1>9, <3>1, <4>1
    <3>3. CASE ~CheckpointDue(b)
      <4>1. last' = last
        BY <1>1, <2>4, <3>3
      <4>2. ~(b - last > Span)
        BY <2>2, <3>3 DEF CheckpointDue
      <4>. HIDE DEF b
      <4>. QED  BY <1>9, <3>1, <4>1, <4>2
    <3>. QED  BY <3>2, <3>3
  <2>. QED  BY <2>5, <2>6
<1>11. Handed' \in Nat /\ Handed <= Handed'
  BY <1>6, <1>9
<1>12. Placed'
  <2>1. CASE CheckpointDue(out)
    <3>1. sent' = Append(sent, cp) /\ last' = out
      BY <1>1, <2>1
    <3>2. out = Handed'
      <4>1. CASE flush
        BY <1>6, <1>8, <4>1
      <4>2. CASE ~flush
        <5>1. Len(x) - m <= b
          BY <1>8, <1>9, <2>1, <4>2
        <5>. QED  BY <1>6, <1>8, <1>9, <4>2, <5>1
      <4>. QED  BY <4>1, <4>2
    <3>3. /\ cp.out = out /\ cp.n = Len(x) /\ cp.wrPos = dd2.wrPos /\ cp.rdPos = dd2.rdPos
      BY DEF CheckpointAt
    <3>4. dict' = dd2 /\ dict'.wrPos \in Nat /\ dict'.rdPos \in Nat
      BY <1>1 DEF WInv, TypeOK, Dict
    <3>5. Handed' = Len(x) - (dd2.wrPos - dd2.rdPos)
      BY <1>1 DEF Handed, Written
    <3>6. out - last > Span
      BY <2>1 DEF CheckpointDue
    <3>. HIDE DEF cp, dd2, out, x
    <3>7. /\ cp.out \in Nat /\ cp.out <= Handed' /\ cp.out <= last' /\ cp.out - last > Span
          /\ cp.n \in Nat /\ cp.wrPos \in Nat /\ cp.rdPos \in Nat
          /\ cp.out >= cp.n - (cp.wrPos - cp.rdPos) /\ cp.out <= cp.n - (cp.wrPos - cp.rdPos)
      BY <1>9, <1>11, <3>1, <3>2, <3>3, <3>4, <3>5, <3>6
    <3>. QED  BY <1>11, <3>1, <3>7, MorePlaced DEF DInv
  <2>2. CASE ~CheckpointDue(out)
    <3>1. UNCHANGED <<sent, last>>
      BY <1>1, <2>2
    <3>. QED  BY <1>11, <3>1, SamePlaced DEF DInv
  <2>. QED  BY <2>1, <2>2
<1>. QED  BY <1>7, <1>10, <1>12 DEF DInv

(* A step of the step functions that hands out nothing.                    *)
LEMMA KeptD ==
  ASSUME WInv, DInv, pc \notin {"idle", "loop", "returned"}, pc' \notin {"idle", "loop", "nextBlock"},
         NEW t \in Seq(Byte), text' = text \o t,
         UNCHANGED <<start, got, woffset, sent, last, toRead>>,
         Handed' <= Handed, Handed <= Handed', Handed' \in Nat,
         ~(AtRest' /\ step' = "nextBlock")
  PROVE  DInv'
<1>1. text \in Seq(Byte) /\ Handed \in Nat /\ Handed <= Len(text) /\ Len(text) \in Nat /\ toRead = <<>>
  BY Position DEF WInv, TypeOK, DInv, Delivered
<1>2. Len(text \o t) = Len(text) + Len(t) /\ Len(t) \in Nat
  BY <1>1, ConcatProperties, LenProperties
<1>. DEFINE b == Handed  c == Handed'
<1>3. c <= Len(text \o t) /\ c \in Nat /\ b \in Nat /\ c < b + 1
  BY <1>1, <1>2
<1>4. toRead' = SubSeq(text \o t, b + 1, c)
  <2>. HIDE DEF b, c
  <2>1. SubSeq(text \o t, b + 1, c) = <<>>
    BY <1>3, SubSeqEmpty
  <2>. QED  BY <1>1, <2>1
<1>5. Delivered'
  <2>1. toRead' = <<>> /\ Delivered
    BY <1>1 DEF DInv
  <2>. QED  BY <1>3, <1>4, <2>1, GrowsD
<1>6. NoneOverdue'
  BY DEF NoneOverdue
<1>7. Placed'
  BY SamePlaced DEF DInv
<1>. QED  BY <1>5, <1>6, <1>7 DEF DInv

(* The empty addition to the stream.                                       *)
LEMMA NothingAdded == ASSUME WInv, text' = text PROVE text' = text \o <<>> /\ <<>> \in Seq(Byte)
<1>1. text \in Seq(Byte)
  BY DEF WInv, TypeOK
<1>. QED  BY <1>1, ConcatEmptySeq, EmptySeq

(* One that leaves the window and the stream alone.                        *)
LEMMA SteadyD ==
  ASSUME WInv, DInv, pc \notin {"idle", "loop", "returned", "copyChunk"},
         pc' \in {"returned", "readLiteral", "copyHistory", "copyData"},
         UNCHANGED <<dict, text, start, got, woffset, sent, last, toRead>>, ~AtRest'
  PROVE  DInv'
<1>1. Handed' = Handed /\ Handed \in Nat
  BY Position DEF Handed, Written
<1>. DEFINE t == <<>>
<1>2. text' = text \o t /\ t \in Seq(Byte)
  BY NothingAdded
<1>. HIDE DEF t
<1>. QED  BY <1>1, <1>2, KeptD

(* A block begins.                                                         *)
LEMMA HuffmanBlockD == ASSUME WInv, DInv, HuffmanBlock PROVE DInv'
<1>1. /\ pc = "nextBlock" /\ pc' \in {"readLiteral", "copyHistory"} /\ text' = text /\ dict' = dict
      /\ UNCHANGED <<start, got, woffset, sent, last, toRead>>
  BY DEF HuffmanBlock, BlockBegins, EnterHuffman, ioVars, outVars, markVars, histVars
<1>2. ~AtRest'
  BY <1>1 DEF AtRest
<1>. QED  BY <1>1, <1>2, SteadyD

(* A stored block begins.                                                  *)
LEMMA StoredBlockD == ASSUME WInv, DInv, StoredBlock PROVE DInv'
<1>1. /\ pc = "nextBlock" /\ pc' = "copyData" /\ text' = text /\ dict' = dict
      /\ UNCHANGED <<start, got, woffset, sent, last, toRead>>
  BY DEF StoredBlock, BlockBegins, ioVars, outVars, markVars, histVars
<1>2. ~AtRest'
  BY <1>1 DEF AtRest
<1>. QED  BY <1>1, <1>2, SteadyD

(* An error leaves the window for Read to flush.                           *)
LEMMA BadInputD == ASSUME WInv, DInv, BadInput PROVE DInv'
<1>1. /\ pc \in {"nextBlock", "readLiteral"} /\ pc' = "returned" /\ text' = text /\ dict' = dict
      /\ UNCHANGED <<start, got, woffset, sent, last, toRead>> /\ err' # "nil"
  BY DEF BadInput, InputErrors, ioVars, outVars, markVars, histVars
<1>2. ~AtRest'
  BY <1>1 DEF AtRest
<1>. QED  BY <1>1, <1>2, SteadyD

(* A match is read.                                                        *)
LEMMA MatchD == ASSUME WInv, DInv, Match PROVE DInv'
<1>1. /\ pc = "readLiteral" /\ pc' = "copyHistory" /\ text' = text /\ dict' = dict
      /\ UNCHANGED <<start, got, woffset, sent, last, toRead>>
  BY DEF Match, ioVars, outVars, markVars, histVars
<1>2. ~AtRest'
  BY <1>1 DEF AtRest
<1>. QED  BY <1>1, <1>2, SteadyD

(* Its first chunk.                                                        *)
LEMMA CopyHistoryD == ASSUME WInv, DInv, CopyHistory PROVE DInv'
<1>. DEFINE p == dict.wrPos  d == copyDist  end == Lesser(p + copyLen, W)
            n == Lesser(end - p, W - ((p - d) + W))
<1>1. /\ pc = "copyHistory" /\ pc' = "copyChunk"
      /\ UNCHANGED <<start, got, woffset, sent, last, toRead>>
  BY DEF CopyHistory, ioVars, outVars, markVars
<1>2. /\ p \in Nat /\ p < W /\ W \in Nat /\ d \in 0..W /\ copyLen \in Nat /\ Len(text) \in Nat
      /\ dict \in Dict /\ dict.hist \in Buffer /\ dict.full \in BOOLEAN /\ text \in Seq(Byte)
      /\ base \in Nat /\ base <= Len(text) /\ Window(dict.hist, p, dict.full, text, base)
  BY <1>1, WindowAssumption DEF WInv, TypeOK, Dict, Room, Buffer, WindowExact, Written
<1>3. ~AtRest' /\ Handed = Len(text) - (p - dict.rdPos) /\ Handed \in Nat /\ dict.rdPos \in Nat
  BY <1>1, <1>2, Position DEF AtRest, Handed, Written, Dict
<1>4. CASE p - d < 0
  <2>1. /\ end \in Nat /\ p <= end /\ end <= W /\ end - p <= copyLen
    BY <1>2 DEF Lesser
  <2>2. /\ n \in Nat /\ n <= d - p /\ n <= copyLen /\ (p - d) + W \in Nat
        /\ ((p - d) + W) + n <= W /\ p + n <= W
    <3>1. W - ((p - d) + W) = d - p /\ (p - d) + W \in Nat /\ d - p \in Nat /\ end - p \in Nat
      <4>1. end \in Nat /\ p <= end /\ p \in Nat /\ W \in Nat /\ d \in 0..W /\ p - d < 0
        BY <1>2, <2>1, <1>4
      <4>. HIDE DEF end, p, d
      <4>. QED  BY <4>1
    <3>2. n = Lesser(end - p, d - p)
      BY <3>1
    <3>. HIDE DEF n, end
    <3>3. n \in Nat /\ n <= end - p /\ n <= d - p
      BY <3>1, <3>2 DEF Lesser
    <3>4. p \in Nat /\ d \in Nat /\ W \in Nat /\ end <= W /\ end - p <= copyLen /\ copyLen \in Nat /\ end \in Nat
      BY <1>2, <2>1
    <3>. HIDE DEF p, d
    <3>. QED  BY <3>1, <3>3, <3>4
  <2>. DEFINE src == (p - d) + W  t == Slice(dict.hist, src, n)
  <2>3. /\ dict'.rdPos = dict.rdPos /\ text' = text \o Repeat(d, n) /\ loop'.dst = p + n
    BY <1>2, <1>4, SMTT(30) DEF CopyHistory, Dict
  <2>. HIDE DEF n, end
  <2>4. Repeat(d, n) = t
    BY <1>1, <1>2, <1>4, <2>2, WrappedSource
  <2>5. t \in Seq(Byte) /\ Len(t) = n
    BY <1>2, <2>2, BlitWindow, SMTT(30)
  <2>. HIDE DEF t, src
  <2>6. text' = text \o t /\ Len(text') = Len(text) + n
    BY <1>2, <2>3, <2>4, <2>5, ConcatProperties
  <2>7. Handed' = Handed
    <3>1. Handed' = Len(text') - ((p + n) - dict.rdPos)
      BY <1>1, <2>3 DEF Handed, Written
    <3>. HIDE DEF p
    <3>. QED  BY <1>2, <1>3, <2>2, <2>6, <3>1
  <2>. QED  BY <1>1, <1>3, <2>5, <2>6, <2>7, KeptD, SMTT(30)
<1>5. CASE ~(p - d < 0)
  <2>1. UNCHANGED <<dict, text>> /\ loop'.dst = p
    BY <1>5 DEF CopyHistory
  <2>2. Handed' = Handed
    BY <1>1, <1>3, <2>1 DEF Handed, Written
  <2>. DEFINE t == <<>>
  <2>3. text' = text \o t /\ t \in Seq(Byte)
    BY <2>1, NothingAdded
  <2>. HIDE DEF t
  <2>. QED  BY <1>1, <1>3, <2>2, <2>3, KeptD
<1>. QED  BY <1>4, <1>5

(* A further chunk.                                                        *)
LEMMA CopyChunkD == ASSUME WInv, DInv, CopyChunk PROVE DInv'
<1>. DEFINE n == ChunkLen  p == loop.dst  t == Slice(dict.hist, loop.src, n)
<1>1. /\ pc = "copyChunk" /\ pc' = "copyChunk" /\ p < loop.end
      /\ text' = text \o Repeat(copyDist, n) /\ loop' = [loop EXCEPT !.dst = p + n]
      /\ dict' = [dict EXCEPT !.hist = Blit(@, p, loop.src, n)]
      /\ UNCHANGED <<start, got, woffset, sent, last, toRead>>
  BY DEF CopyChunk, ioVars, outVars, markVars
<1>2. /\ p \in 0..W /\ loop.src \in 0..W /\ loop.end \in 0..W /\ W \in Nat /\ Len(text) \in Nat
      /\ dict \in Dict /\ dict.hist \in Buffer /\ dict.full \in BOOLEAN /\ text \in Seq(Byte)
      /\ base \in Nat /\ base <= Len(text) /\ loop \in [src : 0..W, dst : 0..W, end : 0..W]
      /\ Window(dict.hist, p, dict.full, text, base) /\ dict.rdPos \in Nat
  <2>1. /\ p \in 0..W /\ loop.src \in 0..W /\ loop.end \in 0..W /\ W \in Nat /\ Len(text) \in Nat
        /\ dict \in Dict /\ dict.hist \in Buffer /\ dict.full \in BOOLEAN /\ text \in Seq(Byte)
        /\ base \in Nat /\ base <= Len(text) /\ loop \in [src : 0..W, dst : 0..W, end : 0..W]
        /\ dict.rdPos \in Nat
    BY WindowAssumption DEF WInv, TypeOK, Dict, Room, Buffer
  <2>2. Window(dict.hist, p, dict.full, text, base)
    BY <1>1 DEF WInv, WindowExact, Written
  <2>. QED  BY <2>1, <2>2
<1>3. n \in Nat /\ n <= loop.end - p /\ loop.src + n <= W /\ Repeat(copyDist, n) = t
  BY <1>1, ChunkSource
<1>4. p + n <= W
  BY <1>2, <1>3
<1>5. loop'.dst = p + n /\ dict'.rdPos = dict.rdPos
  BY <1>1, <1>2 DEF Dict
<1>. HIDE DEF n
<1>6. t \in Seq(Byte) /\ Len(t) = n
  BY <1>2, <1>3, <1>4, BlitWindow
<1>. HIDE DEF t
<1>7. text' = text \o t /\ Len(text') = Len(text) + n
  BY <1>1, <1>2, <1>3, <1>6, ConcatProperties
<1>8. Handed = Len(text) - (p - dict.rdPos) /\ Handed \in Nat /\ ~AtRest'
  BY <1>1, Position DEF Handed, Written, AtRest
<1>9. Handed' = Handed
  <2>1. Handed' = Len(text') - ((p + n) - dict.rdPos)
    BY <1>1, <1>5 DEF Handed, Written
  <2>. HIDE DEF p
  <2>. QED  BY <1>2, <1>3, <1>7, <1>8, <2>1, SMTT(30)
<1>. QED  BY <1>1, <1>6, <1>7, <1>8, <1>9, KeptD

(* A step that hands the window over.                                      *)
LEMMA PausedD ==
  ASSUME WInv, DInv, pc \notin {"idle", "loop", "returned"}, pc' = "returned", step' # "nextBlock",
         NEW dd \in Dict, dd.rdPos <= dd.wrPos, NEW t \in Seq(Byte), text' = text \o t,
         Window(dd.hist, dd.wrPos, dd.full, text \o t, base),
         dict' = Flushed(dd), toRead' = Unread(dd),
         Len(text \o t) - AvailRead(dd) <= Handed, Handed <= Len(text \o t) - AvailRead(dd),
         UNCHANGED <<start, got, woffset, sent, last>>
  PROVE  DInv'
<1>. DEFINE x == text \o t  m == AvailRead(dd)
<1>1. /\ text \in Seq(Byte) /\ base \in Nat /\ base <= Len(text) /\ Len(text) \in Nat
      /\ x \in Seq(Byte) /\ Len(x) \in Nat /\ Len(text) <= Len(x)
  <2>1. text \in Seq(Byte) /\ base \in Nat /\ base <= Len(text)
    BY DEF WInv, TypeOK, Room
  <2>. QED  BY <2>1, ConcatProperties, LenProperties
<1>2. /\ AvailRead(Flushed(dd)) = 0 /\ m \in Nat /\ m <= Len(x)
      /\ Unread(dd) = SubSeq(x, Len(x) - m + 1, Len(x))
  <2>1. base <= Len(x) /\ Window(dd.hist, dd.wrPos, dd.full, x, base)
    BY <1>1
  <2>. HIDE DEF x
  <2>. QED  BY <1>1, <2>1, FlushedWindow, SMTT(30)
<1>3. Handed \in Nat /\ Handed <= Len(text)
  BY Position
<1>4. Handed' = Len(x)
  <2>1. Handed' = Len(x) - AvailRead(Flushed(dd))
    BY DEF Handed, Written, AvailRead
  <2>. HIDE DEF x
  <2>. QED  BY <1>1, <1>2, <2>1
<1>5. toRead' = SubSeq(x, Handed + 1, Handed')
  <2>1. Len(x) - m = Handed
    <3>1. Len(x) - m <= Handed /\ Handed <= Len(x) - m
      OBVIOUS
    <3>. HIDE DEF x, m
    <3>. QED  BY <1>1, <1>2, <1>3, <3>1
  <2>. HIDE DEF x, m
  <2>. QED  BY <1>2, <1>4, <2>1
<1>6. Delivered'
  <2>1. /\ Handed' \in Nat /\ Handed <= Handed' /\ Handed' <= Len(x) /\ AvailRead(dict') = 0
    BY <1>1, <1>2, <1>3, <1>4
  <2>. QED  BY <1>5, <2>1, GrowsD DEF DInv
<1>7. NoneOverdue'
  BY DEF NoneOverdue, AtRest
<1>8. Placed'
  BY <1>1, <1>3, <1>4, SamePlaced DEF DInv
<1>. QED  BY <1>6, <1>7, <1>8 DEF DInv

(* A literal.                                                              *)
LEMMA LiteralD == ASSUME WInv, DInv, Literal PROVE DInv'
<1>. USE DEF ioVars, markVars
<1>1. PICK b \in Byte :
        /\ text' = Append(text, b)
        /\ IF AvailWrite(Write(dict, <<b>>)) = 0
             THEN Pause(Write(dict, <<b>>), "init")
             ELSE dict' = Write(dict, <<b>>) /\ UNCHANGED <<pc, toRead, step, stepState>>
  BY DEF Literal
<1>2. pc = "readLiteral" /\ UNCHANGED <<start, got, woffset, sent, last>>
  BY DEF Literal
<1>. DEFINE s == <<b>>  dd == Write(dict, s)
<1>3. /\ text \in Seq(Byte) /\ dict.wrPos \in 0..W /\ dict.wrPos < W /\ W \in Nat /\ Len(text) \in Nat
      /\ dict.rdPos \in Nat
  BY WindowAssumption DEF WInv, TypeOK, Room, Dict
<1>4. s \in Seq(Byte) /\ Len(s) = 1 /\ Len(s) <= AvailWrite(dict) /\ text' = text \o s
  <2>1. text' = text \o s
    BY <1>1, <1>3, AppendIsConcat
  <2>2. s \in Seq(Byte) /\ Len(s) = 1
    BY <1>1
  <2>. QED  BY <1>3, <2>1, <2>2 DEF AvailWrite
<1>. HIDE DEF s
<1>5. /\ dd \in Dict /\ dd.rdPos <= dd.wrPos /\ Len(text \o s) = Len(text) + 1
      /\ dd.rdPos = dict.rdPos /\ dd.wrPos = dict.wrPos + 1
      /\ Window(dd.hist, dd.wrPos, dd.full, text \o s, base)
  BY <1>2, <1>4, WriteWindow
<1>. HIDE DEF dd
<1>6. Handed = Len(text) - (dict.wrPos - dict.rdPos) /\ Handed \in Nat
  BY <1>2, Position DEF Handed, Written
<1>7. Len(text \o s) - (dd.wrPos - dd.rdPos) = Handed
  BY <1>3, <1>5, <1>6, SMTT(30)
<1>8. CASE AvailWrite(dd) = 0
  <2>1. Pause(dd, "init")
    BY <1>1, <1>8 DEF dd, s
  <2>2. dict' = Flushed(dd) /\ toRead' = Unread(dd) /\ pc' = "returned" /\ step' = "huffmanBlock"
    BY <2>1 DEF Pause
  <2>. QED  BY <1>2, <1>4, <1>5, <1>6, <1>7, <2>2, PausedD, SMTT(30) DEF AvailRead
<1>9. CASE AvailWrite(dd) # 0
  <2>1. dict' = dd /\ UNCHANGED <<pc, toRead, step, stepState>>
    BY <1>1, <1>9 DEF dd, s
  <2>2. Handed' = Handed
    BY <1>2, <1>4, <1>7, <2>1 DEF Handed, Written
  <2>3. ~AtRest' /\ pc' = "readLiteral"
    BY <1>2, <2>1 DEF AtRest
  <2>. QED  BY <1>2, <1>4, <1>6, <2>1, <2>2, <2>3, KeptD
<1>. QED  BY <1>8, <1>9

(* The end of a match.                                                     *)
LEMMA CopyDoneD == ASSUME WInv, DInv, CopyDone PROVE DInv'
<1>. DEFINE dd == [dict EXCEPT !.wrPos = loop.dst]
            rest == copyLen - (loop.dst - dict.wrPos)
            t == <<>>
<1>1. /\ pc = "copyChunk" /\ UNCHANGED <<start, got, woffset, sent, last, text>>
      /\ IF AvailWrite(dd) = 0 \/ rest > 0
           THEN Pause(dd, "dict")
           ELSE dict' = dd /\ pc' = "readLiteral" /\ UNCHANGED <<toRead, step, stepState>>
  BY DEF CopyDone, ioVars, markVars, histVars
<1>2. /\ dict \in Dict /\ dict.rdPos <= dict.wrPos /\ loop.dst \in 0..W /\ dict.wrPos \in 0..W
      /\ dict.rdPos \in 0..W /\ W \in Nat
  BY WindowAssumption DEF WInv, TypeOK, Dict, Room
<1>3. dict.wrPos <= loop.dst /\ Window(dict.hist, loop.dst, dict.full, text, base)
  BY <1>1 DEF WInv, Copying, WindowExact, Written
<1>4. /\ dd \in Dict /\ dd.wrPos = loop.dst /\ dd.hist = dict.hist /\ dd.full = dict.full
      /\ dd.rdPos = dict.rdPos
  BY <1>2 DEF Dict
<1>. HIDE DEF dd, rest
<1>5. dd.rdPos <= dd.wrPos
  BY <1>2, <1>3, <1>4
<1>6. text' = text \o t /\ t \in Seq(Byte) /\ text \o t = text
  BY <1>1, NothingAdded
<1>. HIDE DEF t
<1>7. Window(dd.hist, dd.wrPos, dd.full, text \o t, base)
  BY <1>3, <1>4, <1>6
<1>8. Handed = Len(text \o t) - (dd.wrPos - dd.rdPos) /\ Handed \in Nat
  BY <1>1, <1>4, <1>6, Position DEF Handed, Written
<1>9. CASE AvailWrite(dd) = 0 \/ rest > 0
  <2>1. dict' = Flushed(dd) /\ toRead' = Unread(dd) /\ pc' = "returned" /\ step' = "huffmanBlock"
    BY <1>1, <1>9 DEF Pause
  <2>2. text' = text \o t /\ t \in Seq(Byte)
    BY <1>6
  <2>3. Len(text \o t) - AvailRead(dd) <= Handed /\ Handed <= Len(text \o t) - AvailRead(dd)
    BY <1>8 DEF AvailRead
  <2>. QED  BY <1>1, <1>4, <1>5, <1>7, <2>1, <2>2, <2>3, PausedD
<1>10. CASE ~(AvailWrite(dd) = 0 \/ rest > 0)
  <2>1. dict' = dd /\ pc' = "readLiteral" /\ UNCHANGED <<toRead, step, stepState>>
    BY <1>1, <1>10
  <2>2. Handed' = Handed
    BY <1>6, <1>8, <2>1 DEF Handed, Written
  <2>3. ~AtRest'
    BY <2>1 DEF AtRest
  <2>. QED  BY <1>1, <1>6, <1>8, <2>1, <2>2, <2>3, KeptD
<1>. QED  BY <1>9, <1>10

(* No checkpoint is due at an empty stored block unless the window has     *)
(* been handed out: finishBlock, which does not count the flush, is right  *)
(* about Out.                                                              *)
LEMMA EmptyBlockD == ASSUME WInv, WInv', DInv, EmptyBlock PROVE DInv'
<1>1. /\ FinishBlock(Flushed(dict), Unread(dict)) /\ text' = text
      /\ pc = "nextBlock" /\ final' \in BOOLEAN
  BY DEF EmptyBlock, BlockBegins
<1>2. /\ dict \in Dict /\ dict.rdPos <= dict.wrPos /\ text \in Seq(Byte) /\ base \in Nat /\ base <= Len(text)
      /\ Window(dict.hist, dict.wrPos, dict.full, text, base) /\ Len(text) \in Nat /\ last \in Nat
  BY <1>1 DEF WInv, TypeOK, Room, WindowExact, Written
<1>. DEFINE dd == Flushed(dict)  ready == Unread(dict)  t == <<>>
<1>3. /\ dd \in Dict /\ dd.rdPos = dd.wrPos /\ AvailRead(dd) = 0
      /\ Window(dd.hist, dd.wrPos, dd.full, text, base)
      /\ ready = SubSeq(text, Len(text) - AvailRead(dict) + 1, Len(text))
  BY <1>2, FlushedWindow
<1>4. dd.rdPos <= dd.wrPos
  BY <1>3 DEF Dict
<1>5. text' = text \o t /\ t \in Seq(Byte) /\ text \o t = text
  BY <1>1, NothingAdded
<1>. HIDE DEF dd, ready, t
<1>6. /\ Handed \in Nat /\ Handed = Len(text) - AvailRead(dict) /\ AvailRead(dict) \in Nat
      /\ Handed <= Len(text)
  BY <1>1, Position
<1>7. Handed <= Len(text) - AvailRead(dd) /\ ready = SubSeq(text, Handed + 1, Len(text) - AvailRead(dd))
  <2>1. Len(text) - AvailRead(dd) = Len(text)
    BY <1>2, <1>3
  <2>2. Len(text) - AvailRead(dict) = Handed
    BY <1>6
  <2>. QED  BY <1>3, <1>6, <2>1, <2>2
<1>8. \/ Len(text) - AvailRead(dd) <= Handed
      \/ AvailRead(dd) = 0 /\ ~CheckpointDue(woffset)
  <2>1. CASE CheckpointDue(woffset)
    <3>1. woffset = Handed
      BY <1>1 DEF DInv, Delivered
    <3>2. updates /\ ~(Handed - last <= Span)
      BY <1>2, <1>6, <2>1, <3>1, ParameterAssumption DEF CheckpointDue
    <3>3. AvailRead(dict) = 0
      BY <1>1, <3>2 DEF DInv, NoneOverdue
    <3>. QED  BY <1>2, <1>3, <1>6, <3>3
  <2>2. CASE ~CheckpointDue(woffset)
    BY <1>3, <2>2
  <2>. QED  BY <2>1, <2>2
<1>9. FinishBlock(dd, ready)
  BY <1>1 DEF dd, ready
<1>. QED  BY <1>1, <1>3, <1>4, <1>5, <1>7, <1>8, <1>9, FinishBlockD

(* The end-of-block symbol.                                                *)
LEMMA EndOfBlockD == ASSUME WInv, WInv', DInv, EndOfBlock PROVE DInv'
<1>1. FinishBlock(dict, toRead) /\ text' = text /\ pc = "readLiteral" /\ final' = final
  BY DEF EndOfBlock
<1>2. /\ dict \in Dict /\ dict.rdPos <= dict.wrPos /\ text \in Seq(Byte) /\ final \in BOOLEAN
      /\ Window(dict.hist, dict.wrPos, dict.full, text, base)
  BY <1>1 DEF WInv, TypeOK, WindowExact, Written
<1>. DEFINE t == <<>>
<1>3. text' = text \o t /\ t \in Seq(Byte) /\ text \o t = text
  BY <1>1, NothingAdded
<1>. HIDE DEF t
<1>4. /\ Handed \in Nat /\ Handed = Len(text) - AvailRead(dict)
  BY <1>1, Position
<1>5. toRead = <<>> /\ SubSeq(text, Handed + 1, Handed) = <<>>
  BY <1>1, <1>4, SubSeqEmpty DEF DInv, Delivered
<1>. QED  BY <1>1, <1>2, <1>3, <1>4, <1>5, FinishBlockD, SMTT(30)

(* Stored bytes.                                                           *)
LEMMA CopyDataD == ASSUME WInv, WInv', DInv, CopyData PROVE DInv'
<1>. USE DEF ioVars, markVars
<1>1. PICK s \in [1..DataLen -> Byte] :
        /\ pc = "copyData" /\ text' = text \o s /\ copyLen' = copyLen - DataLen
        /\ IF AvailWrite(Write(dict, s)) = 0 \/ copyLen' > 0
             THEN /\ toRead' = Unread(Write(dict, s))
                  /\ dict' = Flushed(Write(dict, s))
                  /\ step' = "copyData" /\ pc' = "returned"
                  /\ UNCHANGED <<start, got, woffset, sent, last>>
             ELSE UNCHANGED final /\ FinishBlock(Write(dict, s), toRead)
  BY DEF CopyData
<1>. DEFINE dd == Write(dict, s)
<1>2. /\ dict.wrPos \in Nat /\ dict.wrPos < W /\ W \in Nat /\ copyLen \in Nat /\ dict.rdPos \in Nat
      /\ Len(text) \in Nat /\ final \in BOOLEAN
  BY WindowAssumption DEF WInv, TypeOK, Dict, Room
<1>3. DataLen \in Nat /\ DataLen <= AvailWrite(dict)
  BY <1>2 DEF DataLen, Lesser, AvailWrite
<1>4. s \in Seq(Byte) /\ Len(s) = DataLen
  BY <1>3
<1>5. /\ dd \in Dict /\ dd.rdPos <= dd.wrPos /\ Len(text \o s) = Len(text) + DataLen
      /\ dd.rdPos = dict.rdPos /\ dd.wrPos = dict.wrPos + DataLen
      /\ Window(dd.hist, dd.wrPos, dd.full, text \o s, base)
  BY <1>1, <1>3, <1>4, WriteWindow
<1>. HIDE DEF dd
<1>6. Handed = Len(text) - (dict.wrPos - dict.rdPos) /\ Handed \in Nat
  BY <1>1, Position DEF Handed, Written
<1>7. Len(text \o s) - AvailRead(dd) = Handed
  BY <1>2, <1>3, <1>5, <1>6 DEF AvailRead
<1>8. CASE AvailWrite(dd) = 0 \/ copyLen' > 0
  <2>1. /\ toRead' = Unread(dd) /\ dict' = Flushed(dd) /\ step' = "copyData" /\ pc' = "returned"
        /\ UNCHANGED <<start, got, woffset, sent, last>>
    BY <1>1, <1>8 DEF dd
  <2>. QED  BY <1>1, <1>4, <1>5, <1>6, <1>7, <2>1, PausedD
<1>9. CASE ~(AvailWrite(dd) = 0 \/ copyLen' > 0)
  <2>1. FinishBlock(dd, toRead) /\ final' = final
    BY <1>1, <1>9 DEF dd
  <2>2. toRead = <<>> /\ SubSeq(text \o s, Handed + 1, Handed) = <<>>
    BY <1>1, <1>6, SubSeqEmpty DEF DInv, Delivered
  <2>3. /\ Handed <= Len(text \o s) - AvailRead(dd) /\ Len(text \o s) - AvailRead(dd) <= Handed
        /\ toRead = SubSeq(text \o s, Handed + 1, Len(text \o s) - AvailRead(dd))
    BY <1>6, <1>7, <2>2
  <2>4. pc = "copyData" /\ text' = text \o s /\ final' \in BOOLEAN
    BY <1>1, <1>2, <2>1
  <2>5. toRead = <<>>
    BY <2>2
  <2>. QED  BY <1>4, <1>5, <2>1, <2>3, <2>4, <2>5, FinishBlockD
<1>. QED  BY <1>8, <1>9

(* Stored bytes up to where the input ended.                               *)
LEMMA BadDataD == ASSUME WInv, DInv, BadData PROVE DInv'
<1>1. /\ pc = "copyData" /\ err' \in InputErrors \ {"corrupt"} /\ pc' = "returned"
      /\ UNCHANGED <<start, got, woffset, sent, last, toRead>>
  BY DEF BadData, ioVars, outVars, markVars
<1>2. PICK n \in 0..DataLen : n < DataLen /\ \E s \in [1..n -> Byte] :
        dict' = Write(dict, s) /\ text' = text \o s /\ copyLen' = copyLen - n
  BY DEF BadData
<1>3. PICK s \in [1..n -> Byte] : dict' = Write(dict, s) /\ text' = text \o s
  BY <1>2
<1>4. /\ dict.wrPos \in Nat /\ dict.wrPos < W /\ W \in Nat /\ copyLen \in Nat /\ dict.rdPos \in Nat
      /\ Len(text) \in Nat
  BY WindowAssumption DEF WInv, TypeOK, Dict, Room
<1>5. n \in Nat /\ n <= AvailWrite(dict)
  BY <1>2, <1>4 DEF DataLen, Lesser, AvailWrite
<1>6. s \in Seq(Byte) /\ Len(s) = n
  BY <1>5
<1>7. /\ Len(text') = Len(text) + n /\ dict'.rdPos = dict.rdPos /\ dict'.wrPos = dict.wrPos + n
  BY <1>1, <1>3, <1>5, <1>6, WriteWindow
<1>8. Handed = Len(text) - (dict.wrPos - dict.rdPos) /\ Handed \in Nat
  BY <1>1, Position DEF Handed, Written
<1>9. Handed' = Handed
  <2>1. Handed' = Len(text') - (dict'.wrPos - dict'.rdPos)
    BY <1>1 DEF Handed, Written
  <2>. QED  BY <1>4, <1>5, <1>7, <1>8, <2>1
<1>10. ~AtRest'
  BY <1>1 DEF AtRest, InputErrors
<1>. QED  BY <1>1, <1>3, <1>6, <1>8, <1>9, <1>10, KeptD

(* The next member: everything before it has been returned.                *)
LEMMA ResetD == ASSUME WInv, WInv', DInv, Reset PROVE DInv'
<1>1. /\ pc = "idle" /\ ret = "EOF" /\ ret' = "nil" /\ err' = "nil" /\ dict' = EmptyDict
      /\ sent' = IF updates THEN Append(sent, HeaderCheckpoint(woffset)) ELSE sent
      /\ last' = woffset /\ toRead' = <<>>
      /\ UNCHANGED <<pc, got, woffset, text, start>>
  BY DEF Reset
<1>2. /\ Handed \in Nat /\ Handed = Len(text) - AvailRead(dict) /\ Len(text) \in Nat
      /\ woffset = Handed /\ toRead = <<>> /\ AvailRead(dict) = 0 /\ start <= Handed
      /\ got \o toRead = SubSeq(text, start + 1, Handed)
  BY <1>1, Position DEF DInv, Delivered
<1>3. Handed = Len(text)
  BY <1>2
<1>4. Handed' = Handed /\ AvailRead(dict)' = 0
  BY <1>1, <1>2, <1>3 DEF Handed, Written, AvailRead, EmptyDict
<1>5. Delivered'
  BY <1>1, <1>2, <1>4 DEF Delivered
<1>6. NoneOverdue'
  BY <1>4 DEF NoneOverdue
<1>7. Placed'
  <2>1. CASE updates
    <3>. DEFINE cp == HeaderCheckpoint(woffset)
    <3>1. /\ cp.out = woffset /\ cp.n = woffset /\ cp.base = woffset /\ cp.wrPos = 0 /\ cp.rdPos = 0
      BY DEF HeaderCheckpoint
    <3>. HIDE DEF cp
    <3>2. sent' = Append(sent, cp)
      BY <1>1, <2>1 DEF cp
    <3>3. /\ cp.out \in Nat /\ cp.n \in Nat /\ cp.wrPos \in Nat /\ cp.rdPos \in Nat
          /\ cp.out <= Handed' /\ cp.out <= last' /\ cp.out >= Handed
          /\ cp.out >= cp.n - (cp.wrPos - cp.rdPos) /\ cp.out <= cp.n - (cp.wrPos - cp.rdPos)
          /\ IsHeader(cp)
      BY <1>1, <1>2, <1>4, <3>1 DEF IsHeader
    <3>. QED  BY <1>2, <1>4, <3>2, <3>3, MorePlaced DEF DInv
  <2>2. CASE ~updates
    <3>1. sent' = sent /\ last' = Handed /\ last \in Nat
      BY <1>1, <1>2, <2>2 DEF WInv, TypeOK
    <3>2. sent # <<>> => sent[Len(sent)].out <= last'
      <4>1. sent \in Seq(Checkpoint)
        BY DEF WInv, TypeOK
      <4>2. sent # <<>> => Len(sent) \in 1..Len(sent)
        BY <4>1, EmptySeq
      <4>. QED  BY <3>1, <4>2 DEF DInv, Placed
    <3>. QED  BY <1>4, <3>1, <3>2 DEF DInv, Placed, IsHeader
  <2>. QED  BY <2>1, <2>2
<1>. QED  BY <1>5, <1>6, <1>7 DEF DInv

(* Continue starts at the Out of a checkpoint, with the bytes behind it    *)
(* unread in the window.                                                   *)
LEMMA ContinueD == ASSUME WInv, DInv, Continue PROVE DInv'
<1>1. PICK i \in 1..Len(sent) :
        /\ dict' = Resumed(sent[i])
        /\ woffset' = sent[i].out /\ last' = sent[i].out /\ start' = sent[i].out
        /\ text' = SubSeq(text, 1, sent[i].n)
  BY DEF Continue
<1>2. /\ pc = "idle" /\ pc' = "idle" /\ updates' = FALSE /\ sent' = <<>> /\ err' = "nil"
      /\ toRead' = <<>> /\ ret' = "nil" /\ got' = <<>>
  BY DEF Continue
<1>. DEFINE cp == sent[i]
<1>3. cp \in Checkpoint /\ MarkExact(cp, text) /\ text \in Seq(Byte)
  BY ElementOfSeq DEF WInv, TypeOK, MarksExact
<1>4. cp.out = cp.n - (cp.wrPos - cp.rdPos)
  BY DEF DInv, Placed
<1>5. /\ dict' = Resumed(cp) /\ woffset' = cp.out /\ start' = cp.out /\ text' = SubSeq(text, 1, cp.n)
  BY <1>1
<1>. HIDE DEF cp
<1>6. cp.n \in Nat /\ cp.out \in Nat /\ cp.n <= Len(text)
  BY <1>3 DEF Checkpoint, MarkExact
<1>7. Len(text') = cp.n
  BY <1>3, <1>5, <1>6, Prefix
<1>8. Handed' = cp.out
  <2>1. Handed' = Len(text') - (cp.wrPos - cp.rdPos)
    BY <1>2, <1>5 DEF Handed, Written, Resumed
  <2>. QED  BY <1>4, <1>7, <2>1
<1>9. got' \o toRead' = SubSeq(text', start' + 1, Handed')
  <2>1. SubSeq(text', cp.out + 1, cp.out) = <<>>
    BY <1>6, SubSeqEmpty
  <2>2. <<>> \o <<>> = <<>>
    BY ConcatEmptySeq, EmptySeq
  <2>. QED  BY <1>2, <1>5, <1>8, <2>1, <2>2
<1>10. Delivered'
  BY <1>2, <1>5, <1>6, <1>8, <1>9 DEF Delivered
<1>11. NoneOverdue'
  BY <1>2 DEF NoneOverdue
<1>12. Placed'
  BY <1>2, EmptySeq DEF Placed
<1>. QED  BY <1>10, <1>11, <1>12 DEF DInv

(* At the start nothing has been handed out.                               *)
LEMMA InitD == ASSUME Init PROVE DInv
<1>. USE DEF Init
<1>1. Handed = 0 /\ AvailRead(dict) = 0
  BY DEF Handed, Written, AvailRead, EmptyDict
<1>2. got \o toRead = <<>> /\ SubSeq(text, 0 + 1, 0) = <<>>
  BY ConcatEmptySeq, EmptySeq, SubSeqEmpty
<1>3. Delivered
  BY <1>1, <1>2 DEF Delivered
<1>4. NoneOverdue
  BY <1>1 DEF NoneOverdue
<1>5. Placed
  <2>. DEFINE cp == HeaderCheckpoint(0)
  <2>1. cp.out = 0 /\ cp.n = 0 /\ cp.wrPos = 0 /\ cp.rdPos = 0
    BY DEF HeaderCheckpoint
  <2>2. sent = <<cp>> /\ Len(sent) = 1 /\ sent[1] = cp /\ HeaderLen \in Nat
    BY ParameterAssumption
  <2>. HIDE DEF cp
  <2>. QED  BY <1>1, <2>1, <2>2 DEF Placed
<1>. QED  BY <1>3, <1>4, <1>5 DEF DInv

---------------------------------------------------------------------------
(* The invariant holds, and what follows from it *)

(* IInv is an invariant of the decompressor: every step of                 *)
(* flate/inflate.go keeps the window, what has been handed out of it and   *)
(* the checkpoints in agreement with the stream.                           *)
THEOREM Invariance == Spec => []IInv
<1>1. Init => IInv
  BY InitW, InitD DEF IInv, DInv
<1>2. IInv /\ [Next]_vars => IInv'
  <2>. SUFFICES ASSUME WInv, DInv, [Next]_vars PROVE WInv' /\ DInv'
    BY DEF IInv, DInv
  <2>1. CASE Read
    BY <2>1, ReadW, ReadD
  <2>2. CASE HandOut
    BY <2>2, HandOutW, HandOutD
  <2>3. CASE ReportError
    BY <2>3, ReportErrorW, ReportErrorD
  <2>4. CASE TakeStep
    BY <2>4, TakeStepW, TakeStepD
  <2>5. CASE StepReturned
    BY <2>5, StepReturnedW, StepReturnedD
  <2>6. CASE HuffmanBlock
    BY <2>6, HuffmanBlockW, HuffmanBlockD
  <2>7. CASE StoredBlock
    BY <2>7, StoredBlockW, StoredBlockD
  <2>8. CASE EmptyBlock
    BY <2>8, EmptyBlockW, EmptyBlockD
  <2>9. CASE BadInput
    BY <2>9, BadInputW, BadInputD
  <2>10. CASE Literal
    BY <2>10, LiteralW, LiteralD
  <2>11. CASE EndOfBlock
    BY <2>11, EndOfBlockW, EndOfBlockD
  <2>12. CASE Match
    BY <2>12, MatchW, MatchD
  <2>13. CASE CopyHistory
    BY <2>13, CopyHistoryW, CopyHistoryD
  <2>14. CASE CopyChunk
    BY <2>14, CopyChunkW, CopyChunkD
  <2>15. CASE CopyDone
    BY <2>15, CopyDoneW, CopyDoneD
  <2>16. CASE CopyData
    BY <2>16, CopyDataW, CopyDataD
  <2>17. CASE BadData
    BY <2>17, BadDataW, BadDataD
  <2>18. CASE Reset
    <3>1. woffset <= Len(text)
      <4>1. pc = "idle"
        BY <2>18 DEF Reset
      <4>. QED  BY <4>1, Position DEF DInv, Delivered
    <3>. QED  BY <2>18, <3>1, ResetW, ResetD
  <2>19. CASE Continue
    BY <2>19, ContinueW, ContinueD
  <2>20. CASE UNCHANGED vars
    <3>. USE <2>20 DEF vars, ioVars, stepVars, outVars, markVars, histVars
    <3>1. TypeOK'
      BY DEF WInv, TypeOK
    <3>2. Room' /\ WindowExact' /\ Pending'
      BY DEF WInv, Room, WindowExact, Written, Pending, AtRest, HistoryReached
    <3>3. Copying'
      BY DEF WInv, Copying, Behind
    <3>4. MarksExact'
      BY DEF WInv, MarksExact
    <3>5. Handed' = Handed
      BY DEF Handed, Written
    <3>6. Delivered'
      BY <3>5 DEF DInv, Delivered
    <3>7. NoneOverdue'
      BY <3>5 DEF DInv, NoneOverdue, AtRest
    <3>8. Placed'
      BY <3>5 DEF DInv, Placed, IsHeader
    <3>. QED  BY <3>1, <3>2, <3>3, <3>4, <3>6, <3>7, <3>8 DEF WInv, DInv
  <2>. QED  BY <2>1, <2>2, <2>3, <2>4, <2>5, <2>6, <2>7, <2>8, <2>9, <2>10, <2>11, <2>12, <2>13,
               <2>14, <2>15, <2>16, <2>17, <2>18, <2>19, <2>20 DEF Next, Work, Huffman
<1>. QED  BY <1>1, <1>2, PTL DEF Spec

---------------------------------------------------------------------------
(* No match reaches beyond the history.                                    *)
LEMMA InvLegal == IInv => LegalCalls
<1>. SUFFICES ASSUME WInv PROVE LegalCalls
  BY DEF IInv, DInv
<1>1. dict.wrPos < W /\ dict.wrPos \in Nat /\ W \in Nat
  BY WindowAssumption DEF WInv, TypeOK, Room, Dict
<1>2. AvailWrite(dict) > 0
  BY <1>1 DEF AvailWrite
<1>. QED  BY <1>2 DEF WInv, Pending, HistoryReached, LegalCalls

(* What has been returned, will be returned and is still in the window     *)
(* make up the stream.                                                     *)
LEMMA InvStream == IInv => StreamInOrder
<1>. SUFFICES ASSUME WInv, Delivered, pc \in {"idle", "loop"}
              PROVE  /\ got \o toRead \o Unread(dict) = SubSeq(text, start + 1, Len(text))
                     /\ woffset - Len(toRead) = start + Len(got)
                     /\ pc = "idle" /\ ret # "nil" => Len(got) = Len(text) - start
  BY DEF IInv, DInv, StreamInOrder
<1>1. /\ dict \in Dict /\ dict.rdPos <= dict.wrPos /\ text \in Seq(Byte) /\ base \in Nat /\ base <= Len(text)
      /\ Window(dict.hist, dict.wrPos, dict.full, text, base)
  BY DEF WInv, TypeOK, Room, WindowExact, Written
<1>2. /\ Handed \in Nat /\ Handed <= Len(text) /\ Handed = Len(text) - AvailRead(dict)
      /\ AvailRead(dict) \in Nat /\ Len(text) \in Nat
  BY Position
<1>3. /\ Len(got) \in Nat /\ Len(toRead) \in Nat /\ start \in Nat /\ woffset \in Nat
      /\ Len(got) + Len(toRead) = Handed - start
      /\ toRead = <<>> => start + Len(got) = Handed /\ got = SubSeq(text, start + 1, Handed)
  BY Counted
<1>4. got \o toRead = SubSeq(text, start + 1, Handed) /\ woffset = Handed /\ start <= Handed
  BY DEF Delivered
<1>5. got \o toRead \o Unread(dict) = SubSeq(text, start + 1, Len(text))
  <2>1. Unread(dict) = SubSeq(text, Len(text) - AvailRead(dict) + 1, Len(text))
    BY <1>1, FlushedWindow
  <2>. DEFINE b == Handed  c == Len(text)  m == start + 1
  <2>2. m \in 1..(Len(text) + 1) /\ b \in (m - 1)..Len(text) /\ c \in b..Len(text)
    <3>1. b \in Nat /\ b <= c /\ c \in Nat /\ start \in Nat /\ start <= b
      BY <1>2, <1>3, <1>4
    <3>. HIDE DEF b
    <3>. QED  BY <3>1
  <2>3. Len(text) - AvailRead(dict) = b
    BY <1>2
  <2>4. Unread(dict) = SubSeq(text, b + 1, c) /\ got \o toRead = SubSeq(text, m, b)
    <3>. HIDE DEF b
    <3>1. Unread(dict) = SubSeq(text, b + 1, c)
      BY <2>1, <2>3
    <3>. QED  BY <1>4, <3>1 DEF b
  <2>. HIDE DEF b, c, m
  <2>5. SubSeq(text, m, b) \o SubSeq(text, b + 1, c) = SubSeq(text, m, c)
    BY <1>1, <2>2, ConcatAdjacentSubSeq
  <2>. QED  BY <2>4, <2>5 DEF c, m
<1>6. woffset - Len(toRead) = start + Len(got)
  <2>. DEFINE b == Handed  g == Len(got)  r == Len(toRead)
  <2>1. g \in Nat /\ r \in Nat /\ start \in Nat /\ b \in Nat /\ g + r = b - start /\ woffset = b
    BY <1>2, <1>3, <1>4
  <2>. HIDE DEF b, g, r
  <2>2. woffset - r = start + g
    BY <2>1
  <2>. QED  BY <2>2 DEF g, r
<1>7. ASSUME pc = "idle", ret # "nil" PROVE Len(got) = Len(text) - start
  <2>1. toRead = <<>> /\ AvailRead(dict) = 0
    BY <1>7 DEF Delivered
  <2>2. start + Len(got) = Handed
    BY <1>3, <2>1, Zenon
  <2>. QED  BY <1>2, <1>3, <2>1, <2>2
<1>. QED  BY <1>5, <1>6, <1>7

(* The bytes a checkpoint keeps unread are those behind its Out.           *)
LEMMA InvCheckpoints == IInv => CheckpointExact
<1>. SUFFICES ASSUME WInv, Placed, NEW i \in 1..Len(sent)
              PROVE  LET cp == sent[i]
                         s  == SubSeq(text, 1, cp.n)
                     IN  /\ cp.n <= Len(text)
                         /\ Window(cp.hist, cp.wrPos, cp.full, s, cp.base)
                         /\ Unread(Resumed(cp)) = SubSeq(s, cp.out + 1, cp.n)
  BY DEF IInv, DInv, CheckpointExact
<1>. DEFINE cp == sent[i]  s == SubSeq(text, 1, cp.n)
<1>1. cp \in Checkpoint /\ MarkExact(cp, text) /\ text \in Seq(Byte) /\ cp.out = cp.n - (cp.wrPos - cp.rdPos)
  BY ElementOfSeq DEF WInv, TypeOK, MarksExact, Placed
<1>. HIDE DEF cp
<1>2. /\ cp.n \in Nat /\ cp.base \in Nat /\ cp.out \in Nat /\ cp.n <= Len(text) /\ cp.base <= cp.n
      /\ cp.wrPos < W /\ cp.rdPos <= cp.wrPos /\ cp.wrPos \in 0..W /\ cp.rdPos \in 0..W
      /\ Window(cp.hist, cp.wrPos, cp.full, s, cp.base)
  BY <1>1 DEF Checkpoint, MarkExact
<1>3. s \in Seq(Byte) /\ Len(s) = cp.n
  BY <1>1, <1>2, Prefix
<1>. DEFINE dd == Resumed(cp)
<1>4. /\ dd \in Dict /\ dd.hist = cp.hist /\ dd.wrPos = cp.wrPos /\ dd.rdPos = cp.rdPos /\ dd.full = cp.full
  BY <1>1 DEF Resumed, Dict, Checkpoint
<1>. HIDE DEF s, dd
<1>5. Unread(dd) = SubSeq(s, Len(s) - AvailRead(dd) + 1, Len(s))
  BY <1>2, <1>3, <1>4, FlushedWindow
<1>6. Len(s) - AvailRead(dd) = cp.out
  BY <1>1, <1>3, <1>4 DEF AvailRead
<1>7. Unread(dd) = SubSeq(s, cp.out + 1, cp.n)
  BY <1>3, <1>5, <1>6
<1>. QED  BY <1>2, <1>7 DEF cp, s, dd

(* Where a block begins, woffset is the position handed out.               *)
LEMMA InvSpaced == IInv => CheckpointsSpaced
<1>. SUFFICES ASSUME Delivered, NoneOverdue, Placed PROVE CheckpointsSpaced
  BY DEF IInv, DInv
<1>1. pc = "nextBlock" => woffset = Handed
  BY DEF Delivered
<1>. QED  BY <1>1 DEF NoneOverdue, Placed, CheckpointsSpaced

(* Type correctness (Inflate.tla, TypeOK).                                 *)
THEOREM Typing == Spec => []TypeOK
<1>1. IInv => TypeOK
  BY DEF IInv, DInv, WInv
<1>. QED  BY <1>1, Invariance, PTL

(* The sliding window always holds the last bytes of the stream            *)
(* (flate/dict_decoder.go:27-182), for every size of the window and every  *)
(* mix of literals, matches, stored blocks and flushes.                    *)
THEOREM WindowHolds == Spec => []WindowExact
<1>1. IInv => WindowExact
  BY DEF IInv, DInv, WInv
<1>. QED  BY <1>1, Invariance, PTL

(* writeByte, writeCopy and tryWriteCopy are only called as their comments *)
(* ask (flate/dict_decoder.go:92, 102 and 152).                            *)
THEOREM CallsLegal == Spec => []LegalCalls
BY InvLegal, Invariance, PTL

(* The Reads return the stream in order, woffset counts it, and an error   *)
(* is returned only behind its last byte (flate/inflate.go:424-444).       *)
THEOREM StreamDelivered == Spec => []StreamInOrder
BY InvStream, Invariance, PTL

(* Every checkpoint holds the window of the stream up to its block         *)
(* boundary and the bytes from its Out on (flate/inflate.go:769-797):      *)
(* Continue resumes there with nothing lost.                               *)
THEOREM CheckpointsHold == Spec => []CheckpointExact
BY InvCheckpoints, Invariance, PTL

(* Checkpoints are more than a span apart, and none is overdue where a     *)
(* block begins (flate/inflate.go:780-794).                                *)
THEOREM CheckpointsApart == Spec => []CheckpointsSpaced
BY InvSpaced, Invariance, PTL

---------------------------------------------------------------------------
(* When checkpoints are sent *)

(* The step predicate of SentWhenHandedOut.                                *)
SendsDue ==
  \A i \in (Len(sent) + 1)..Len(sent') :
    LET at == start + Len(got)
    IN  IF sent'[i].tail THEN sent'[i].out >= at ELSE sent'[i].out = at

(* A step that sends nothing sends nothing early.                          *)
LEMMA NoneSent == ASSUME IInv, sent' = sent \/ sent' = <<>> PROVE SendsDue
<1>1. Len(sent) \in Nat
  BY DEF IInv, DInv, WInv, TypeOK
<1>. QED  BY <1>1, EmptySeq DEF SendsDue

(* A step that sends one checkpoint sends it when it should.               *)
LEMMA OneSent ==
  ASSUME IInv, NEW cp, sent' = Append(sent, cp),
         IF cp.tail THEN cp.out >= start + Len(got) ELSE cp.out = start + Len(got)
  PROVE  SendsDue
<1>1. sent \in Seq(Checkpoint) /\ Len(sent) \in Nat
  BY DEF IInv, DInv, WInv, TypeOK
<1>2. Len(sent') = Len(sent) + 1 /\ sent'[Len(sent) + 1] = cp
  BY <1>1
<1>3. ASSUME NEW i \in (Len(sent) + 1)..Len(sent') PROVE sent'[i] = cp
  BY <1>1, <1>2
<1>. QED  BY <1>3 DEF SendsDue

(* finishBlock sends when all but the last flush has been returned.        *)
LEMMA FinishSends ==
  ASSUME IInv, pc \notin {"idle", "loop", "returned"}, NEW dd, AvailRead(dd) \in Nat, final' \in BOOLEAN,
         NEW ready, FinishBlock(dd, ready)
  PROVE  SendsDue
<1>. DEFINE flush == final' /\ AvailRead(dd) > 0
            out   == EndOffset(dd, flush)
            dd2   == IF flush THEN Flushed(dd) ELSE dd
            cp    == CheckpointAt(out, dd2)
<1>1. IF CheckpointDue(out) THEN sent' = Append(sent, cp) ELSE sent' = sent
  BY DEF FinishBlock
<1>2. start + Len(got) = woffset /\ woffset \in Nat
  <2>1. toRead = <<>> /\ woffset = Handed
    BY DEF IInv, DInv, Delivered
  <2>. QED  BY <2>1, Counted DEF IInv, DInv
<1>3. cp.out = out /\ cp.tail = final'
  BY DEF CheckpointAt
<1>4. out >= woffset /\ (~final' => out = woffset)
  BY <1>2 DEF EndOffset
<1>. HIDE DEF cp, out
<1>. QED  BY <1>1, <1>2, <1>3, <1>4, NoneSent, OneSent

(* A checkpoint is sent when everything before it has been returned by     *)
(* Read, but for what the final block still had (flate/inflate.go:793).    *)
THEOREM SentInTime == Spec => SentWhenHandedOut
<1>1. IInv /\ [Next]_vars => [SendsDue]_vars
  <2>. SUFFICES ASSUME IInv, Next PROVE SendsDue
    OBVIOUS
  <2>1. /\ dict.wrPos \in Nat /\ dict.wrPos < W /\ W \in Nat /\ dict.rdPos \in Nat /\ dict.rdPos <= dict.wrPos
        /\ dict \in Dict /\ copyLen \in Nat /\ final \in BOOLEAN
    BY WindowAssumption DEF IInv, DInv, WInv, TypeOK, Room, Dict
  <2>2. CASE Read \/ HandOut \/ ReportError \/ TakeStep \/ StepReturned \/ HuffmanBlock \/ StoredBlock
             \/ BadInput \/ Literal \/ Match \/ CopyHistory \/ CopyChunk \/ CopyDone \/ BadData
    <3>1. sent' = sent
      BY <2>2 DEF Read, HandOut, ReportError, TakeStep, StepReturned, HuffmanBlock, StoredBlock, BadInput,
         Literal, Match, CopyHistory, CopyChunk, CopyDone, BadData, markVars
    <3>. QED  BY <3>1, NoneSent
  <2>3. CASE EmptyBlock
    <3>1. FinishBlock(Flushed(dict), Unread(dict)) /\ pc = "nextBlock" /\ final' \in BOOLEAN
      BY <2>3 DEF EmptyBlock, BlockBegins
    <3>2. AvailRead(Flushed(dict)) \in Nat
      BY <2>1 DEF Flushed, Dict, AvailRead
    <3>. QED  BY <3>1, <3>2, FinishSends
  <2>4. CASE EndOfBlock
    <3>1. FinishBlock(dict, toRead) /\ pc = "readLiteral" /\ final' = final
      BY <2>4 DEF EndOfBlock
    <3>. QED  BY <2>1, <3>1, FinishSends DEF AvailRead
  <2>5. CASE CopyData
    <3>1. PICK s \in [1..DataLen -> Byte] :
            /\ pc = "copyData"
            /\ sent' = sent \/ (final' = final /\ FinishBlock(Write(dict, s), toRead))
      BY <2>5 DEF CopyData, markVars
    <3>2. DataLen \in Nat /\ s \in Seq(Byte) /\ Len(s) = DataLen
      BY <2>1 DEF DataLen, Lesser, AvailWrite
    <3>3. AvailRead(Write(dict, s)) \in Nat
      BY <2>1, <3>2 DEF AvailRead, Write, Dict
    <3>4. CASE sent' = sent
      BY <3>4, NoneSent
    <3>5. CASE final' = final /\ FinishBlock(Write(dict, s), toRead)
      BY <2>1, <3>1, <3>3, <3>5, FinishSends
    <3>. QED  BY <3>1, <3>4, <3>5
  <2>6. CASE Reset
    <3>1. /\ sent' = (IF updates THEN Append(sent, HeaderCheckpoint(woffset)) ELSE sent)
          /\ pc = "idle" /\ ret = "EOF"
      BY <2>6 DEF Reset
    <3>2. start + Len(got) = woffset
      <4>1. toRead = <<>> /\ woffset = Handed
        BY <3>1 DEF IInv, DInv, Delivered
      <4>. QED  BY <4>1, Counted DEF IInv, DInv
    <3>. DEFINE cp == HeaderCheckpoint(woffset)
    <3>3. cp.out = woffset /\ cp.tail = FALSE
      BY DEF HeaderCheckpoint
    <3>4. sent' = Append(sent, cp) \/ sent' = sent
      BY <3>1
    <3>. HIDE DEF cp
    <3>. QED  BY <3>2, <3>3, <3>4, NoneSent, OneSent
  <2>7. CASE Continue
    BY <2>7, NoneSent DEF Continue
  <2>. QED  BY <2>2, <2>3, <2>4, <2>5, <2>6, <2>7 DEF Next, Work, Huffman
<1>2. SentWhenHandedOut <=> [][SendsDue]_vars
  BY DEF SentWhenHandedOut, SendsDue
<1>. QED  BY <1>1, <1>2, Invariance, PTL DEF Spec
=============================================================================
