------------------------------ MODULE Inflate ------------------------------
(***************************************************************************)
(* The decompressor (flate/inflate.go) on top of its sliding window:       *)
(* Read, the three step functions nextBlock, huffmanBlock and copyData,    *)
(* checkpoints (finishBlock), resuming from one (Continue) and going on    *)
(* with the next gzip member (Reset).                                      *)
(*                                                                         *)
(* The compressed input is whatever it may be: at every point where the    *)
(* code consumes some of it, the next symbol is chosen, or the input fails *)
(* or is corrupt.  The bit buffer and the input position (b, nb, roffset)  *)
(* are abstracted with it; a checkpoint's In, B and NB name the symbol the *)
(* input continues with.                                                   *)
(*                                                                         *)
(* The goto-and-return structure of the step functions is kept in pc.      *)
(* text, got and start are history: what the symbols consumed so far       *)
(* denote by the definition of DEFLATE, what the callers of Read have got, *)
(* and where they started.                                                 *)
(***************************************************************************)
EXTENDS DictDecoder, Integers

CONSTANTS
  Span,       \* decompressed bytes between checkpoints, at least
  HeaderLen,  \* compressed offset of the first block, where last starts
  ReadLens,   \* buffer sizes of the Reads
  MatchLens,  \* lengths of matches
  BlockLens,  \* lengths of stored blocks
  MaxText,    \* bound: bytes the stream decompresses to
  MaxBlocks   \* bound: blocks decoded

ASSUME ParameterAssumption ==
  /\ Span \in Nat /\ HeaderLen \in Nat
  /\ ReadLens \subseteq Nat /\ MatchLens \subseteq Nat \ {0} /\ BlockLens \subseteq Nat
  /\ MaxText \in Nat /\ MaxBlocks \in Nat

VARIABLES
  pc,         \* where control is; "idle" between two Reads
  want,       \* len(b) of the current Read
  ret,        \* the error the last Read returned
  dict,       \* f.dict
  step,       \* f.step
  stepState,  \* f.stepState
  final,      \* f.final
  err,        \* f.err
  toRead,     \* f.toRead
  copyLen,    \* f.copyLen
  copyDist,   \* f.copyDist
  loop,       \* srcPos, dstPos and endPos of the copy loop
  woffset,    \* f.woffset
  last,       \* f.last
  updates,    \* is there a channel to send checkpoints to?
  sent,       \* the checkpoints sent
  blocks,     \* blocks begun (bounded)
  text,       \* history: the decompressed stream up to the input consumed
  base,       \* history: where in text the current member began
  start,      \* history: where in text this decompressor started
  got         \* history: the bytes the Reads have returned

ioVars   == <<want, ret, got>>
stepVars == <<step, stepState, final, copyLen, copyDist, loop>>
outVars  == <<toRead, woffset>>
markVars == <<last, updates, sent>>
histVars == <<text, base, start>>
vars == <<pc, ioVars, dict, stepVars, err, outVars, markVars, histVars, blocks>>

PC == {"idle", "loop", "returned", "nextBlock", "readLiteral", "copyHistory", "copyChunk",
       "copyData"}

InputErrors == {"ErrUnexpectedEOF", "corrupt", "io"}

(* A checkpoint.  n and base are history: the length of text when it was   *)
(* sent and the start of its member; tail: the block it follows was final. *)
Checkpoint ==
  [out : Nat, hist : [0..(W - 1) -> Byte], wrPos : 0..W, rdPos : 0..W, full : BOOLEAN,
   n : Nat, base : Nat, tail : BOOLEAN]

(* What gunzip.readHeader sends behind a member's header: no history.      *)
HeaderCheckpoint(n) ==
  [out |-> n, hist |-> EmptyDict.hist, wrPos |-> 0, rdPos |-> 0, full |-> FALSE,
   n |-> n, base |-> n, tail |-> FALSE]

(* NewReaderWithSpans, behind the header of the first member.              *)
Init ==
  /\ pc = "idle" /\ want = 0 /\ ret = "nil" /\ got = <<>>
  /\ dict = EmptyDict
  /\ step = "nextBlock" /\ stepState = "init" /\ final = FALSE /\ err = "nil"
  /\ toRead = <<>> /\ copyLen = 0 /\ copyDist = 0 /\ loop = [src |-> 0, dst |-> 0, end |-> 0]
  /\ woffset = 0 /\ last = HeaderLen /\ updates = TRUE
  /\ sent = <<HeaderCheckpoint(0)>>
  /\ blocks = 0
  /\ text = <<>> /\ base = 0 /\ start = 0

---------------------------------------------------------------------------
(* Read *)

Read ==
  /\ pc = "idle"
  /\ want' \in ReadLens
  /\ pc' = "loop"
  /\ UNCHANGED <<ret, got, dict, stepVars, err, outVars, markVars, histVars, blocks>>

(* Some of toRead is left: hand it out, and with the last of it the error. *)
HandOut ==
  /\ pc = "loop" /\ toRead # <<>>
  /\ LET n == Lesser(want, Len(toRead))
     IN  /\ got' = got \o SubSeq(toRead, 1, n)
         /\ toRead' = SubSeq(toRead, n + 1, Len(toRead))
         /\ ret' = IF n = Len(toRead) THEN err ELSE "nil"
  /\ pc' = "idle"
  /\ UNCHANGED <<want, dict, stepVars, err, woffset, markVars, histVars, blocks>>

\* Mutant of ReportError: only io.EOF is reported.
ReportErrorEOF ==
  /\ pc = "loop" /\ toRead = <<>> /\ err = "EOF"
  /\ ret' = err
  /\ pc' = "idle"
  /\ UNCHANGED <<want, got, dict, stepVars, err, outVars, markVars, histVars, blocks>>

ReportError ==
  /\ pc = "loop" /\ toRead = <<>> /\ err # "nil"
  /\ ret' = err
  /\ pc' = "idle"
  /\ UNCHANGED <<want, got, dict, stepVars, err, outVars, markVars, histVars, blocks>>

(* huffmanBlock goes on where it stopped, with the rest of a match.        *)
EnterHuffman == IF stepState = "init" THEN "readLiteral" ELSE "copyHistory"

TakeStep ==
  /\ pc = "loop" /\ toRead = <<>> /\ err = "nil"
  /\ pc' = CASE step = "nextBlock"    -> "nextBlock"
             [] step = "huffmanBlock" -> EnterHuffman
             [] step = "copyData"     -> "copyData"
  /\ UNCHANGED <<ioVars, dict, stepVars, err, outVars, markVars, histVars, blocks>>

(* Back in Read: count toRead; after an error flush what is left.          *)
StepReturned ==
  /\ pc = "returned"
  /\ IF err # "nil" /\ toRead = <<>>
       THEN /\ toRead' = Unread(dict)
            /\ dict' = Flushed(dict)
            /\ woffset' = woffset + AvailRead(dict)
       ELSE /\ woffset' = woffset + Len(toRead)
            /\ UNCHANGED <<toRead, dict>>
  /\ pc' = "loop"
  /\ UNCHANGED <<ioVars, stepVars, err, markVars, histVars, blocks>>

---------------------------------------------------------------------------
(* The end of a block *)

CheckpointAt(out, dd) ==
  [out |-> out, hist |-> dd.hist, wrPos |-> dd.wrPos, rdPos |-> dd.rdPos, full |-> dd.full,
   n |-> Len(text'), base |-> base, tail |-> final']

\* Mutant of CheckpointDue: the spacing is off by one.
CheckpointDueEarly(out) == updates /\ out - last >= Span

CheckpointDue(out) == updates /\ out - last > Span

\* Mutants of EndOffset: the last flush is not counted; all of the window is.
EndOffsetFlat(dd, flush) == woffset
EndOffsetAll(dd, flush) == woffset + AvailRead(dd)

EndOffset(dd, flush) == woffset + (IF flush THEN AvailRead(dd) ELSE 0)

(* finishBlock, after something was put into toRead or not.  Behind the    *)
(* final block the window is flushed and Out lies behind what it held;     *)
(* behind any other, what it still holds unread comes after Out.           *)
FinishBlock(dd, ready) ==
  LET flush == final' /\ AvailRead(dd) > 0
      out   == EndOffset(dd, flush)
      dd2   == IF flush THEN Flushed(dd) ELSE dd
  IN  /\ toRead' = IF flush THEN Unread(dd) ELSE ready
      /\ dict' = dd2
      /\ err' = IF final' THEN "EOF" ELSE err
      /\ IF CheckpointDue(out)
           THEN sent' = Append(sent, CheckpointAt(out, dd2)) /\ last' = out
           ELSE UNCHANGED <<sent, last>>
      /\ step' = "nextBlock"
      /\ pc' = "returned"
      /\ UNCHANGED <<ioVars, woffset, updates, stepState, copyDist, loop, base, start>>

---------------------------------------------------------------------------
(* nextBlock *)

BlockBegins ==
  /\ pc = "nextBlock" /\ blocks < MaxBlocks
  /\ blocks' = blocks + 1
  /\ final' \in BOOLEAN

(* Fixed or dynamic Huffman codes: the same symbols either way.            *)
HuffmanBlock ==
  /\ BlockBegins
  /\ pc' = EnterHuffman
  /\ UNCHANGED <<ioVars, dict, step, stepState, copyLen, copyDist, loop, err, outVars, markVars,
                 histVars>>

(* dataBlock *)
StoredBlock ==
  /\ BlockBegins
  /\ \E n \in BlockLens \ {0} :
       /\ Len(text) + n <= MaxText
       /\ copyLen' = n
  /\ pc' = "copyData"
  /\ UNCHANGED <<ioVars, dict, step, stepState, copyDist, loop, err, outVars, markVars, histVars>>

(* An empty stored block (a sync marker) flushes the window before it      *)
(* calls finishBlock.                                                      *)
EmptyBlock ==
  /\ BlockBegins
  /\ 0 \in BlockLens
  /\ UNCHANGED <<text, copyLen>>
  /\ FinishBlock(Flushed(dict), Unread(dict))

(* The input ends, fails or is corrupt where a symbol should be.           *)
BadInput ==
  /\ pc \in {"nextBlock", "readLiteral"}
  /\ err' \in InputErrors
  /\ pc' = "returned"
  /\ UNCHANGED <<ioVars, dict, stepVars, outVars, markVars, histVars, blocks>>

---------------------------------------------------------------------------
(* huffmanBlock *)

(* Hand the window over to Read and come back to huffmanBlock later.       *)
Pause(dd, state) ==
  /\ toRead' = Unread(dd)
  /\ dict' = Flushed(dd)
  /\ step' = "huffmanBlock"
  /\ stepState' = state
  /\ pc' = "returned"

Literal ==
  /\ pc = "readLiteral" /\ Len(text) < MaxText
  /\ \E b \in Byte :
       LET dd == Write(dict, <<b>>)
       IN  /\ text' = Append(text, b)
           /\ IF AvailWrite(dd) = 0
                THEN Pause(dd, "init")
                ELSE dict' = dd /\ UNCHANGED <<pc, toRead, step, stepState>>
  /\ UNCHANGED <<ioVars, final, copyLen, copyDist, loop, err, woffset, markVars, base, start,
                 blocks>>

EndOfBlock ==
  /\ pc = "readLiteral"
  /\ UNCHANGED <<final, blocks, text, copyLen>>
  /\ FinishBlock(dict, toRead)

\* Mutant of MatchDistances: the whole buffer counts as history.
MatchDistancesAny == 1..W

(* A distance reaches at most as far back as there is history.             *)
MatchDistances == 1..HistSize(dict)

Match ==
  /\ pc = "readLiteral"
  /\ \E len \in MatchLens, dist \in MatchDistances :
       /\ Len(text) + len <= MaxText
       /\ copyLen' = len /\ copyDist' = dist
  /\ pc' = "copyHistory"
  /\ UNCHANGED <<ioVars, dict, step, stepState, final, loop, err, outVars, markVars, histVars,
                 blocks>>

(* The n bytes a match of distance d stands for, by the definition of      *)
(* LZ77: each is the one d before it, which may be one of the match itself. *)
Repeat(d, n) ==
  [i \in 1..n |-> text[Len(text) - d + 1 + ((i - 1) % d)]]

(* copyHistory: tryWriteCopy if the match neither wraps around nor ends    *)
(* beyond the buffer, else writeCopy.  A source that wraps is copied up to *)
(* the end of the buffer first.                                            *)
CopyHistory ==
  LET dst == dict.wrPos
      end == Lesser(dst + copyLen, W)
      src == dst - copyDist
      n   == Lesser(end - dst, W - (src + W))
  IN  /\ pc = "copyHistory"
      /\ IF src < 0
           THEN /\ dict' = [dict EXCEPT !.hist = Blit(@, dst, src + W, n)]
                /\ text' = text \o Repeat(copyDist, n)
                /\ loop' = [src |-> 0, dst |-> dst + n, end |-> end]
           ELSE /\ loop' = [src |-> src, dst |-> dst, end |-> end]
                /\ UNCHANGED <<dict, text>>
      /\ pc' = "copyChunk"
      /\ UNCHANGED <<ioVars, step, stepState, final, copyLen, copyDist, err, outVars, markVars,
                     base, start, blocks>>

\* Mutant of ChunkLen: the chunk may read what it has not written yet.
ChunkLenWhole == loop.end - loop.dst

(* A chunk ends where the bytes copied so far end.                         *)
ChunkLen == Lesser(loop.end - loop.dst, loop.dst - loop.src)

CopyChunk ==
  /\ pc = "copyChunk" /\ loop.dst < loop.end
  /\ dict' = [dict EXCEPT !.hist = Blit(@, loop.dst, loop.src, ChunkLen)]
  /\ text' = text \o Repeat(copyDist, ChunkLen)
  /\ loop' = [loop EXCEPT !.dst = @ + ChunkLen]
  /\ UNCHANGED <<pc, ioVars, step, stepState, final, copyLen, copyDist, err, outVars, markVars,
                 base, start, blocks>>

CopyDone ==
  LET dd   == [dict EXCEPT !.wrPos = loop.dst]
      rest == copyLen - (loop.dst - dict.wrPos)
  IN  /\ pc = "copyChunk" /\ loop.dst >= loop.end
      /\ copyLen' = rest
      /\ IF AvailWrite(dd) = 0 \/ rest > 0
           THEN Pause(dd, "dict")
           ELSE dict' = dd /\ pc' = "readLiteral" /\ UNCHANGED <<toRead, step, stepState>>
      /\ UNCHANGED <<ioVars, final, copyDist, loop, err, woffset, markVars, histVars, blocks>>

---------------------------------------------------------------------------
(* copyData *)

(* As much as fits into the window.                                        *)
DataLen == Lesser(copyLen, AvailWrite(dict))

CopyData ==
  /\ pc = "copyData"
  /\ \E s \in [1..DataLen -> Byte] :
       LET dd == Write(dict, s)
           n  == DataLen
       IN  /\ text' = text \o s
           /\ copyLen' = copyLen - n
           /\ IF AvailWrite(dd) = 0 \/ copyLen' > 0
                THEN /\ toRead' = Unread(dd)
                     /\ dict' = Flushed(dd)
                     /\ step' = "copyData"
                     /\ pc' = "returned"
                     /\ UNCHANGED <<ioVars, err, woffset, markVars, stepState, final, copyDist,
                                    loop, base, start>>
                ELSE UNCHANGED final /\ FinishBlock(dd, toRead)
  /\ UNCHANGED blocks

(* The input ends or fails within the data.                                *)
BadData ==
  /\ pc = "copyData"
  /\ \E n \in 0..DataLen :
     /\ n < DataLen
     /\ \E s \in [1..n -> Byte] :
          /\ dict' = Write(dict, s)
          /\ text' = text \o s
          /\ copyLen' = copyLen - n
  /\ err' \in InputErrors \ {"corrupt"}
  /\ pc' = "returned"
  /\ UNCHANGED <<ioVars, step, stepState, final, copyDist, loop, outVars, markVars, base, start,
                 blocks>>

---------------------------------------------------------------------------
(* Another member, another reader *)

(* gunzip.Read has got io.EOF, and readHeader has found another member: it *)
(* sends a checkpoint and calls Reset.                                     *)
Reset ==
  /\ pc = "idle" /\ ret = "EOF"
  /\ ret' = "nil" /\ err' = "nil"
  /\ sent' = IF updates THEN Append(sent, HeaderCheckpoint(woffset)) ELSE sent
  /\ last' = woffset
  /\ dict' = EmptyDict
  /\ step' = "nextBlock" /\ stepState' = "init" /\ final' = FALSE
  /\ copyLen' = 0 /\ copyDist' = 0 /\ loop' = [src |-> 0, dst |-> 0, end |-> 0]
  /\ toRead' = <<>>
  /\ base' = Len(text)
  /\ UNCHANGED <<pc, want, got, woffset, updates, text, start, blocks>>

\* Mutant of Resumed: the bytes not handed out yet are forgotten.
ResumedRead(cp) == [hist |-> cp.hist, wrPos |-> cp.wrPos, rdPos |-> cp.wrPos, full |-> cp.full]

Resumed(cp) == [hist |-> cp.hist, wrPos |-> cp.wrPos, rdPos |-> cp.rdPos, full |-> cp.full]

(* Continue: a new decompressor at a checkpoint, without a channel.  The   *)
(* stream is followed as far as the checkpoint; from there it may be any.  *)
Continue ==
  /\ pc = "idle"
  /\ \E i \in 1..Len(sent) :
       /\ ~sent[i].tail
       /\ dict' = Resumed(sent[i])
       /\ woffset' = sent[i].out /\ last' = sent[i].out /\ start' = sent[i].out
       /\ text' = SubSeq(text, 1, sent[i].n)
       /\ base' = sent[i].base
  /\ updates' = FALSE /\ sent' = <<>>
  /\ step' = "nextBlock" /\ stepState' = "init" /\ final' = FALSE /\ err' = "nil"
  /\ copyLen' = 0 /\ copyDist' = 0 /\ loop' = [src |-> 0, dst |-> 0, end |-> 0]
  /\ toRead' = <<>> /\ ret' = "nil" /\ got' = <<>>
  /\ UNCHANGED <<pc, want, blocks>>

---------------------------------------------------------------------------
Huffman == Literal \/ EndOfBlock \/ Match \/ CopyHistory \/ CopyChunk \/ CopyDone

Work ==
  \/ HandOut \/ ReportError \/ TakeStep \/ StepReturned
  \/ HuffmanBlock \/ StoredBlock \/ EmptyBlock \/ BadInput
  \/ Huffman \/ CopyData \/ BadData

Next == Read \/ Work \/ Reset \/ Continue

Spec == Init /\ [][Next]_vars

(* Read does not return before it has something to return, and the input   *)
(* is finite.                                                              *)
FairSpec == Spec /\ WF_vars(Work)

---------------------------------------------------------------------------
(* Properties *)

TypeOK ==
  /\ pc \in PC /\ want \in Nat
  /\ ret \in {"nil", "EOF"} \cup InputErrors /\ err \in {"nil", "EOF"} \cup InputErrors
  /\ dict \in Dict /\ dict.rdPos <= dict.wrPos
  /\ step \in {"nextBlock", "huffmanBlock", "copyData"} /\ stepState \in {"init", "dict"}
  /\ final \in BOOLEAN /\ updates \in BOOLEAN
  /\ toRead \in Seq(Byte) /\ got \in Seq(Byte) /\ text \in Seq(Byte)
  /\ copyLen \in Nat /\ copyDist \in 0..W
  /\ loop \in [src : 0..W, dst : 0..W, end : 0..W]
  /\ woffset \in Nat /\ last \in Nat /\ base \in Nat /\ start \in Nat
  /\ sent \in Seq(Checkpoint)
  /\ blocks \in 0..MaxBlocks

(* The window of a member that began at b, written up to pos, holds the    *)
(* last bytes of s, as many of them as the code takes it to hold.          *)
Window(hist, pos, full, s, b) ==
  LET size == IF full THEN W ELSE pos
  IN  /\ size = Lesser(Len(s) - b, W)
      /\ \A k \in 1..size :
           hist[IF k <= pos THEN pos - k ELSE pos - k + W] = s[Len(s) + 1 - k]

Written == IF pc = "copyChunk" THEN loop.dst ELSE dict.wrPos

(* The sliding window always holds the last bytes of the stream, whatever  *)
(* mix of literals, overlapping, wrapping and interrupted matches, stored  *)
(* blocks and flushes wrote it (flate/dict_decoder.go:27-182).             *)
WindowExact == Window(dict.hist, Written, dict.full, text, base)

(* The calls that dict_decoder.go leaves unchecked are legal: there is     *)
(* room for a byte (line 92), a match stays within the history (lines 102  *)
(* and 152), and nothing is pending of an earlier one when the next begins *)
(* although huffmanBlock never resets stepState.                           *)
LegalCalls ==
  /\ pc \in {"nextBlock", "readLiteral", "copyData"} => AvailWrite(dict) > 0
  /\ pc = "copyHistory" /\ copyLen > 0 => copyDist \in 1..HistSize(dict)
  /\ pc \in {"nextBlock", "readLiteral"} => copyLen = 0

(* What the Reads have returned, what the next one returns and what is     *)
(* still in the window is the stream from where the reader started, and    *)
(* woffset counts it: gunzip's Offset, on which gsip bases its choice of a *)
(* reader, is the position of the next byte.  An error is returned only    *)
(* when every byte decoded before it has been (flate/inflate.go:424-444,   *)
(* 888-894, 1023-1049).                                                    *)
StreamInOrder ==
  /\ pc \in {"idle", "loop"} =>
       /\ got \o toRead \o Unread(dict) = SubSeq(text, start + 1, Len(text))
       /\ woffset - Len(toRead) = start + Len(got)
  /\ pc = "idle" /\ ret # "nil" => Len(got) = Len(text) - start

(* A checkpoint in the middle of a member holds what a decompressor needs  *)
(* at its block boundary: the window of the stream up to there and, from   *)
(* Out on, the bytes of it that have not been handed out                   *)
(* (flate/inflate.go:769-797).                                             *)
CheckpointExact ==
  \A i \in 1..Len(sent) :
    LET cp == sent[i]
        s  == SubSeq(text, 1, cp.n)
    IN  /\ cp.n <= Len(text)
        /\ Window(cp.hist, cp.wrPos, cp.full, s, cp.base)
        /\ Unread(Resumed(cp)) = SubSeq(s, cp.out + 1, cp.n)

IsHeader(cp) == cp.n = cp.base

(* Checkpoints come in the order of their offsets and, but for those       *)
(* behind a header, more than a span apart; and where a block begins, none *)
(* is overdue unless the window has been handed out: an empty stored block *)
(* flushes the window before finishBlock, which does not count that in Out *)
(* (flate/inflate.go:734-737, 780-794, 902).                               *)
CheckpointsSpaced ==
  /\ \A i \in 1..(Len(sent) - 1) :
       \/ sent[i + 1].out - sent[i].out > Span
       \/ IsHeader(sent[i + 1]) /\ sent[i + 1].out >= sent[i].out
  /\ pc = "nextBlock" /\ updates => woffset - last <= Span \/ AvailRead(dict) = 0

(* When a checkpoint is sent everything before it has been returned by     *)
(* Read, but for what the final block of a member still had: the reader    *)
(* that waits for room in the channel keeps nothing back that a caller of  *)
(* an earlier offset needs (flate/inflate.go:793).                         *)
SentWhenHandedOut ==
  [][\A i \in (Len(sent) + 1)..Len(sent') :
       LET at == start + Len(got)
       IN  IF sent'[i].tail THEN sent'[i].out >= at ELSE sent'[i].out = at]_vars

(* Every Read returns: no step of the decompressor goes on forever, or     *)
(* again and again without anything to hand out.                           *)
ReadReturns == (pc = "loop") ~> (pc = "idle")
=============================================================================
