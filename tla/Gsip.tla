------------------------------- MODULE Gsip -------------------------------
(***************************************************************************)
(* gsip.Reader (gsip/gsip.go): random access into a gzip stream.           *)
(*                                                                         *)
(* A gsip.Reader keeps a pool of gzip.Readers (the map r.readers) and a    *)
(* list of checkpoints.  One gzip.Reader, the frontier, decodes the stream *)
(* from its start and sends a checkpoint on the channel r.updates at       *)
(* certain block boundaries; a goroutine moves them to r.checkpoints.  A   *)
(* ReadAt takes an idle gzip.Reader that stands at the right offset, or    *)
(* makes one from the highest checkpoint at or below the offset, or, when  *)
(* there are no checkpoints yet, any idle one that can skip forward; it    *)
(* then owns that reader until it has filled its buffer.                   *)
(*                                                                         *)
(* Every critical section under r.mu is one action: nothing blocks inside  *)
(* one.  What runs outside the lock is cut where another goroutine can see *)
(* or delay it: a channel operation, a chunk of decoding, a failure.       *)
(*                                                                         *)
(* gzip.Reader is modelled by what Inflate.tla shows of the decompressor:  *)
(* it delivers the stream in order from where it started.  Bytes are named *)
(* by their position.                                                      *)
(***************************************************************************)
EXTENDS Naturals, Sequences

CONSTANTS
  Caller,     \* goroutines that call ReadAt
  Indexer,    \* those of them that also call Wait and Encode
  Size,       \* number of bytes the stream decompresses to
  Marks,      \* the checkpoints the frontier sends over the stream, in order
  End,        \* what the decompressor reports after Size bytes
  Offs, Lens, \* offsets and buffer lengths of the ReadAt calls
  ChanCap,    \* capacity of r.updates (10 in the code)
  MaxCalls,   \* bound: number of ReadAt calls
  MaxFaults,  \* bound: number of errors of the underlying io.ReaderAt
  WaitRule    \* when an Indexer calls Wait, see MayWait: "frontier" or "stream"

(***************************************************************************)
(* A checkpoint as far as seeking is concerned.  out is its Out field.     *)
(* emit is the position up to which the frontier has delivered when it     *)
(* sends the checkpoint: at the end of a block the decompressor runs when  *)
(* everything decoded so far has been handed out.  header: sent by         *)
(* gzip.readHeader, at the start of a member; else by flate.finishBlock.   *)
(* tail: taken after a member's final block, so In lies on the trailer.    *)
(***************************************************************************)
Mark == [out : Nat, emit : Nat, header : BOOLEAN, tail : BOOLEAN]

NoTail == \A i \in 1..Len(Marks) : ~Marks[i].tail

ASSUME SizeAssumption == Size \in Nat

ASSUME MarksAssumption ==
  /\ Marks \in Seq(Mark)
  /\ Len(Marks) > 0
  /\ Marks[1] = [out |-> 0, emit |-> 0, header |-> TRUE, tail |-> FALSE]
  /\ \A i \in 1..Len(Marks) :
       Marks[i].emit <= Marks[i].out /\ Marks[i].out <= Size
  /\ \A i, j \in 1..Len(Marks) :
       i < j => Marks[i].out <= Marks[j].out /\ Marks[i].emit <= Marks[j].emit

ASSUME BoundsAssumption ==
  /\ Offs \subseteq Nat /\ Lens \subseteq Nat
  /\ ChanCap \in Nat \ {0}
  /\ MaxCalls \in Nat /\ MaxFaults \in Nat

ASSUME RulesAssumption ==
  /\ End \in {"EOF", "ErrUnexpectedEOF"}
  /\ WaitRule \in {"frontier", "stream"}
  /\ Indexer \subseteq Caller

ReaderId == 0..MaxCalls   \* the n-th ReadAt makes at most one gzip.Reader, named n
Frontier == 0
Junk     == Size          \* a byte that is not one of the stream's

VARIABLES
  updates,     \* buffer of the channel r.updates
  closed,      \* has Wait closed r.updates?
  sent,        \* how many of Marks the frontier has sent
  gor,         \* the checkpoint goroutine; "absent" in a reader from Decode
  hand,        \* the checkpoint it received and has not appended yet
  checkpoints, \* r.checkpoints
  pool,        \* r.readers: "absent", "busy" (false) or "idle" (true)
  zr,          \* the gzip.Readers: Offset(), sticky error, started on a tail?
  pc,          \* where each caller stands
  own,         \* the gzip.Reader the caller works with, or may make
  call,        \* arguments and results of the caller's ReadAt
  snap,        \* what Encode found when it loaded the array of r.checkpoints
  saved,       \* the index the last Encode wrote
  seen,        \* the bytes callers have got so far (kept for WaitRule "stream")
  calls,       \* ReadAt calls made
  faults,      \* errors of the underlying reader so far
  panicked     \* a send on the closed channel has crashed the process

gvars == <<updates, closed, sent, gor, hand, checkpoints>>
rvars == <<pool, zr>>
evars == <<snap, saved, seen>>
vars  == <<gvars, rvars, evars, pc, own, call, calls, faults, panicked>>

PC == {"idle", "exact", "search", "scan", "discard", "read", "wait", "encode"}

(* early: the call began before the first checkpoint was there.            *)
Fresh(off, len, early) ==
  [off |-> off, len |-> len, early |-> early, data |-> <<>>, err |-> "nil"]

NoIndex == [marks |-> <<>>, quiet |-> FALSE]

(* Decode reads the index back: a reader with neither frontier nor         *)
(* goroutine, whose checkpoints are those some Encode saved.               *)
InitDecode ==
  /\ gor = "absent"
  /\ \E k \in 0..Len(Marks) :
       /\ sent = k
       /\ checkpoints = SubSeq(Marks, 1, k)
  /\ updates = <<>>
  /\ pool = [z \in ReaderId |-> "absent"]

(* NewReader reads the gzip header, which already sends a first checkpoint *)
(* on the buffered channel, and starts the goroutine.                      *)
InitNewReader ==
  /\ gor = "running"
  /\ sent = 1
  /\ checkpoints = <<>>
  /\ updates = <<Marks[1]>>
  /\ pool = [z \in ReaderId |-> IF z = Frontier THEN "idle" ELSE "absent"]

Init ==
  /\ InitNewReader \/ InitDecode
  /\ closed = FALSE /\ hand = <<>> /\ panicked = FALSE
  /\ zr = [z \in ReaderId |-> [pos |-> 0, err |-> "nil", tail |-> FALSE]]
  /\ calls = 0 /\ faults = 0
  /\ pc = [c \in Caller |-> "idle"]
  /\ own = [c \in Caller |-> Frontier]
  /\ call = [c \in Caller |-> Fresh(0, 0, FALSE)]
  /\ snap = [c \in Caller |-> [len |-> 0, quiet |-> FALSE]]
  /\ saved = NoIndex /\ seen = {}

---------------------------------------------------------------------------
(* ReadAt, first half: acquireReader *)

Call(c) ==
  /\ pc[c] = "idle" /\ calls < MaxCalls
  /\ \E off \in Offs, len \in Lens :
       call' = [call EXCEPT ![c] = Fresh(off, len, checkpoints = <<>>)]
  /\ calls' = calls + 1
  /\ own' = [own EXCEPT ![c] = calls + 1]
  /\ pc' = [pc EXCEPT ![c] = "exact"]
  /\ UNCHANGED <<gvars, rvars, evars, faults, panicked>>

Idle(z) == pool[z] = "idle"

(* Mark z false in r.readers: c owns it from here on. *)
Claim(c, z) ==
  /\ pool' = [pool EXCEPT ![z] = "busy"]
  /\ own' = [own EXCEPT ![c] = z]

FitsInUse(z, off) == pool[z] # "absent" /\ zr[z].pos = off   \* mutant of Fits

Fits(z, off) == Idle(z) /\ zr[z].pos = off

(* The first critical section: an idle reader that stands at off. *)
MatchExact(c) ==
  /\ pc[c] = "exact"
  /\ \E z \in ReaderId : Fits(z, call[c].off) /\ Claim(c, z)
  /\ pc' = [pc EXCEPT ![c] = "read"]
  /\ UNCHANGED <<gvars, zr, evars, call, calls, faults, panicked>>

MissExact(c) ==
  /\ pc[c] = "exact"
  /\ \A z \in ReaderId : ~Fits(z, call[c].off)
  /\ pc' = [pc EXCEPT ![c] = "search"]
  /\ UNCHANGED <<gvars, rvars, evars, own, call, calls, faults, panicked>>

\* Mutant of Highest: Out is compared off by one.
HighestLoose(i, off) ==
  /\ \A j \in 1..i : checkpoints[j].out <= off + 1
  /\ i < Len(checkpoints) => checkpoints[i + 1].out > off + 1

(* The loop over r.checkpoints stops at the first one beyond off; if that  *)
(* is the very first one, there is no highest.                             *)
Highest(i, off) ==
  /\ \A j \in 1..i : checkpoints[j].out <= off
  /\ i < Len(checkpoints) => checkpoints[i + 1].out > off

(* The second critical section, and gzip.Continue: a new reader at the     *)
(* highest checkpoint, private to c until it has skipped to off.           *)
SearchHit(c) ==
  /\ pc[c] = "search"
  /\ \E i \in 1..Len(checkpoints) :
       /\ Highest(i, call[c].off)
       /\ zr' = [zr EXCEPT ![own[c]] = [pos |-> checkpoints[i].out, err |-> "nil",
                                        tail |-> checkpoints[i].tail]]
  /\ pc' = [pc EXCEPT ![c] = "discard"]
  /\ UNCHANGED <<gvars, pool, evars, own, call, calls, faults, panicked>>

SearchMiss(c) ==
  /\ pc[c] = "search"
  /\ checkpoints # <<>> => checkpoints[1].out > call[c].off
  /\ pc' = [pc EXCEPT ![c] = "scan"]
  /\ UNCHANGED <<gvars, rvars, evars, own, call, calls, faults, panicked>>

Reaches(z, off) == Idle(z) /\ zr[z].pos <= off

(* The third critical section: any idle reader that has not passed off.    *)
(* Skipping zero bytes reads nothing.                                      *)
ScanHit(c) ==
  /\ pc[c] = "scan"
  /\ \E z \in ReaderId :
       /\ Reaches(z, call[c].off)
       /\ Claim(c, z)
       /\ pc' = [pc EXCEPT ![c] = IF zr[z].pos = call[c].off THEN "read" ELSE "discard"]
  /\ UNCHANGED <<gvars, zr, evars, call, calls, faults, panicked>>

ScanMiss(c) ==
  /\ pc[c] = "scan"
  /\ \A z \in ReaderId : ~Reaches(z, call[c].off)
  /\ call' = [call EXCEPT ![c].err = "notFound"]
  /\ pc' = [pc EXCEPT ![c] = "idle"]
  /\ UNCHANGED <<gvars, rvars, evars, own, calls, faults, panicked>>

(* io.CopyN has skipped to off: a new reader enters the pool, in use. *)
Register(c) ==
  /\ pc[c] = "discard"
  /\ zr[own[c]].pos = call[c].off
  /\ pool' = [pool EXCEPT ![own[c]] = "busy"]
  /\ pc' = [pc EXCEPT ![c] = "read"]
  /\ UNCHANGED <<gvars, zr, evars, own, call, calls, faults, panicked>>

(* io.CopyN failed: the error is wrapped and returned, and nothing touches *)
(* r.readers, so a reader taken from the pool stays marked as in use.      *)
DiscardFailed(c) ==
  /\ pc[c] = "discard"
  /\ zr[own[c]].pos # call[c].off
  /\ zr[own[c]].err # "nil"
  /\ call' = [call EXCEPT ![c].err =
                IF zr[own[c]].err = End THEN "wrappedEOF" ELSE zr[own[c]].err]
  /\ pc' = [pc EXCEPT ![c] = "idle"]
  /\ UNCHANGED <<gvars, rvars, evars, own, calls, faults, panicked>>

---------------------------------------------------------------------------
(* Decoding, on behalf of io.CopyN and io.ReadFull *)

(* Bytes c still wants from its reader. *)
Want(c) ==
  IF pc[c] = "discard" THEN call[c].off - zr[own[c]].pos
                       ELSE call[c].len - Len(call[c].data)

Unsent(z) == z = Frontier /\ sent < Len(Marks)
Due(z)    == Unsent(z) /\ zr[z].pos = Marks[sent + 1].emit

(* How far a step can take the reader: to the next checkpoint to send, or  *)
(* to the end; a reader started on a trailer decodes whatever it finds.    *)
Stop(z) == IF Unsent(z) THEN Marks[sent + 1].emit ELSE Size

Room(c) ==
  LET left == Stop(own[c]) - zr[own[c]].pos
  IN  IF zr[own[c]].tail \/ Want(c) < left THEN Want(c) ELSE left

Decoding(c) == pc[c] \in {"discard", "read"} /\ zr[own[c]].err = "nil"

Bytes(z, k) == [i \in 1..k |-> IF zr[z].tail THEN Junk ELSE zr[z].pos + i - 1]

(* The reader hands out k bytes and its error becomes e. *)
Advance(c, k, e) ==
  /\ zr' = [zr EXCEPT ![own[c]] = [pos |-> @.pos + k, err |-> e, tail |-> @.tail]]
  /\ call' = IF pc[c] = "read"
               THEN [call EXCEPT ![c].data = @ \o Bytes(own[c], k)]
               ELSE call

AtEnd(z, pos) == pos = Size /\ ~Unsent(z) /\ ~zr[z].tail

(* A chunk.  The last one may carry the end-of-stream error along. *)
Deliver(c) ==
  /\ Decoding(c) /\ Room(c) > 0
  /\ \E e \in {"nil"} \cup (IF AtEnd(own[c], zr[own[c]].pos + Room(c)) THEN {End} ELSE {}) :
       Advance(c, Room(c), e)
  /\ UNCHANGED <<gvars, pool, evars, pc, own, calls, faults, panicked>>

(* A read at the end of the stream. *)
HitEnd(c) ==
  /\ Decoding(c) /\ Want(c) > 0
  /\ AtEnd(own[c], zr[own[c]].pos)
  /\ Advance(c, 0, End)
  /\ UNCHANGED <<gvars, pool, evars, pc, own, calls, faults, panicked>>

(* The underlying reader fails; what was decoded before is handed out.     *)
Fail(c) ==
  /\ Decoding(c) /\ Want(c) > 0 /\ faults < MaxFaults
  /\ \E k \in 0..Room(c) : Advance(c, k, "io")
  /\ faults' = faults + 1
  /\ UNCHANGED <<gvars, pool, evars, pc, own, calls, panicked>>

(* A trailer decoded as if it were a block is corrupt or ends too early,   *)
(* sooner or later.                                                        *)
Corrupt(c) ==
  /\ Decoding(c) /\ Want(c) > 0 /\ zr[own[c]].tail
  /\ \E k \in 0..Room(c), e \in {"corrupt", "ErrUnexpectedEOF"} : Advance(c, k, e)
  /\ UNCHANGED <<gvars, pool, evars, pc, own, calls, faults, panicked>>

(* The frontier owes the channel a checkpoint before it can go on.  For a  *)
(* member's header this may also be while it returns the bytes before it.  *)
Sending(c) ==
  /\ Decoding(c) /\ Due(own[c])
  /\ Want(c) > 0 \/ (Marks[sent + 1].header /\ (pc[c] = "discard" \/ call[c].data # <<>>))

RoomUnbounded == TRUE   \* mutant of ChanRoom: a send never blocks

ChanRoom == Len(updates) < ChanCap

Send(c) ==
  /\ Sending(c) /\ ~closed
  /\ ChanRoom
  /\ updates' = Append(updates, Marks[sent + 1])
  /\ sent' = sent + 1
  /\ UNCHANGED <<closed, gor, hand, checkpoints, rvars, evars, pc, own, call, calls,
                 faults, panicked>>

SendOnClosed(c) ==
  /\ Sending(c) /\ closed
  /\ panicked' = TRUE
  /\ UNCHANGED <<gvars, rvars, evars, pc, own, call, calls, faults>>

\* Mutant of Result: io.ReadFull's io.ErrUnexpectedEOF is not translated.
ResultRaw(c) ==
  IF Want(c) = 0 THEN "nil"
  ELSE IF call[c].data = <<>> THEN zr[own[c]].err ELSE "ErrUnexpectedEOF"

(* io.ReadFull reports no error once the buffer is full; a stream that     *)
(* ends before, in whichever way, is io.EOF to the caller.                 *)
Result(c) ==
  IF Want(c) = 0 THEN "nil"
  ELSE IF zr[own[c]].err \in {"EOF", "ErrUnexpectedEOF"} THEN "EOF"
  ELSE zr[own[c]].err

PutBackLate(c) ==   \* mutant of PutBack: deferred after the successful return
  pool' = IF zr[own[c]].err = "nil" THEN pool ELSE [pool EXCEPT ![own[c]] = "idle"]

PutBack(c) == pool' = [pool EXCEPT ![own[c]] = "idle"]

(* io.ReadFull is done: the deferred function puts the reader back,        *)
(* whatever the outcome.                                                   *)
Release(c) ==
  /\ pc[c] = "read"
  /\ Want(c) = 0 \/ zr[own[c]].err # "nil"
  /\ call' = [call EXCEPT ![c].err = Result(c)]
  /\ PutBack(c)
  /\ seen' = IF WaitRule = "stream"
               THEN seen \cup {call[c].data[i] : i \in 1..Len(call[c].data)}
               ELSE seen
  /\ pc' = [pc EXCEPT ![c] = "idle"]
  /\ UNCHANGED <<gvars, zr, snap, saved, own, calls, faults, panicked>>

---------------------------------------------------------------------------
(* The checkpoint goroutine: for checkpoint := range updates *)

Receive ==
  /\ gor = "running" /\ hand = <<>> /\ updates # <<>>
  /\ hand' = <<Head(updates)>>
  /\ updates' = Tail(updates)
  /\ UNCHANGED <<closed, sent, gor, checkpoints, rvars, evars, pc, own, call, calls,
                 faults, panicked>>

\* Mutants of AppendCheckpoint: the newest first; r.mu held during a whole read.
AppendFront ==
  /\ gor = "running" /\ hand # <<>>
  /\ checkpoints' = hand \o checkpoints
  /\ hand' = <<>>
  /\ UNCHANGED <<updates, closed, sent, gor, rvars, evars, pc, own, call, calls,
                 faults, panicked>>

AppendUnread ==
  /\ gor = "running" /\ hand # <<>>
  /\ \A c \in Caller : pc[c] # "read"
  /\ checkpoints' = checkpoints \o hand
  /\ hand' = <<>>
  /\ UNCHANGED <<updates, closed, sent, gor, rvars, evars, pc, own, call, calls,
                 faults, panicked>>

AppendCheckpoint ==
  /\ gor = "running" /\ hand # <<>>
  /\ checkpoints' = checkpoints \o hand
  /\ hand' = <<>>
  /\ UNCHANGED <<updates, closed, sent, gor, rvars, evars, pc, own, call, calls,
                 faults, panicked>>

ExitAtClose ==   \* mutant of Exit: what is still buffered is dropped
  /\ gor = "running" /\ hand = <<>> /\ closed
  /\ gor' = "exited"
  /\ UNCHANGED <<updates, closed, sent, hand, checkpoints, rvars, evars, pc, own, call,
                 calls, faults, panicked>>

Exit ==
  /\ gor = "running" /\ hand = <<>> /\ updates = <<>> /\ closed
  /\ gor' = "exited"
  /\ UNCHANGED <<updates, closed, sent, hand, checkpoints, rvars, evars, pc, own, call,
                 calls, faults, panicked>>

---------------------------------------------------------------------------
(* Wait and Encode *)

(* The caller's side of Wait: "The entire compressed stream must have been *)
(* read to EOF before calling Wait".  "stream": no reader is in use, and   *)
(* callers have got all of the bytes, and io.EOF.  "frontier": the         *)
(* frontier has come to its end and is not in use.                         *)
MayWait ==
  IF WaitRule = "frontier"
    THEN pool[Frontier] = "idle" /\ zr[Frontier].err = End
    ELSE /\ seen = 0..(Size - 1)
         /\ \A c \in Caller : pc[c] = "idle"
         /\ \E c \in Caller : call[c].err = "EOF"

\* Mutant of Close: not once.
CloseAgain == closed' = TRUE /\ panicked' = closed

(* closeOnce.Do(close(r.updates)): closing a closed channel would panic.   *)
Close == closed' = TRUE /\ UNCHANGED panicked

(* Without a goroutine Wait does nothing.                                  *)
Wait(c) ==
  /\ pc[c] = "idle" /\ gor # "absent" /\ MayWait
  /\ Close
  /\ pc' = [pc EXCEPT ![c] = "wait"]
  /\ UNCHANGED <<updates, sent, gor, hand, checkpoints, rvars, evars, own, call, calls,
                 faults>>

WaitReturn(c) ==
  /\ pc[c] = "wait" /\ gor = "exited"
  /\ pc' = [pc EXCEPT ![c] = "idle"]
  /\ UNCHANGED <<gvars, rvars, evars, own, call, calls, faults, panicked>>

(* Encode copies the slice r.checkpoints without taking r.mu: it may load  *)
(* the array before and its length after the goroutine appends.  quiet:    *)
(* there was no such goroutine when Encode was called.                     *)
Encode(c) ==
  /\ pc[c] = "idle"
  /\ snap' = [snap EXCEPT ![c] = [len |-> Len(checkpoints), quiet |-> gor # "running"]]
  /\ pc' = [pc EXCEPT ![c] = "encode"]
  /\ UNCHANGED <<gvars, rvars, saved, seen, own, call, calls, faults, panicked>>

Torn == [out |-> Size + 1, emit |-> 0, header |-> FALSE, tail |-> FALSE]

(* Elements beyond those of the array it loaded may be missing or garbage. *)
EncodeReturn(c) ==
  /\ pc[c] = "encode"
  /\ \E torn \in BOOLEAN :
       saved' = [quiet |-> snap[c].quiet,
                 marks |-> [i \in 1..Len(checkpoints) |->
                              IF torn /\ i > snap[c].len THEN Torn ELSE checkpoints[i]]]
  /\ pc' = [pc EXCEPT ![c] = "idle"]
  /\ UNCHANGED <<gvars, rvars, snap, seen, own, call, calls, faults, panicked>>

---------------------------------------------------------------------------
Acquire(c) ==
  \/ MatchExact(c) \/ MissExact(c) \/ SearchHit(c) \/ SearchMiss(c)
  \/ ScanHit(c) \/ ScanMiss(c) \/ Register(c) \/ DiscardFailed(c)

Decode(c) ==
  \/ Deliver(c) \/ HitEnd(c) \/ Fail(c) \/ Corrupt(c)
  \/ Send(c) \/ SendOnClosed(c)

(* What a caller's goroutine does once it is inside a call. *)
Run(c) == Acquire(c) \/ Decode(c) \/ Release(c) \/ WaitReturn(c) \/ EncodeReturn(c)

Goroutine == Receive \/ AppendCheckpoint \/ Exit

Next ==
  /\ ~panicked
  /\ \/ Goroutine
     \/ \E c \in Caller : Run(c) \/ Call(c)
     \/ \E c \in Indexer : Wait(c) \/ Encode(c)

Spec == Init /\ [][Next]_vars

(* The Go scheduler runs every runnable goroutine; nobody has to call.     *)
Fairness ==
  /\ WF_vars(~panicked /\ Goroutine)
  /\ \A c \in Caller : WF_vars(~panicked /\ Run(c))

FairSpec == Spec /\ Fairness
---------------------------------------------------------------------------
(* Properties *)

Errors == {"nil", "EOF", "ErrUnexpectedEOF", "io", "corrupt"}

CallType ==
  [off : Nat, len : Nat, early : BOOLEAN, data : Seq(Nat),
   err : Errors \cup {"wrappedEOF", "notFound"}]

(* Every variable has its type; the channel holds at most ChanCap          *)
(* checkpoints and the goroutine (gsip.go:81-88) one more.                 *)
TypeOK ==
  /\ updates \in Seq(Mark) /\ Len(updates) <= ChanCap
  /\ hand \in Seq(Mark) /\ Len(hand) <= 1
  /\ checkpoints \in Seq(Mark)
  /\ closed \in BOOLEAN /\ panicked \in BOOLEAN
  /\ sent \in 0..Len(Marks)
  /\ gor \in {"absent", "running", "exited"}
  /\ pool \in [ReaderId -> {"absent", "busy", "idle"}]
  /\ zr \in [ReaderId -> [pos : Nat, err : Errors, tail : BOOLEAN]]
  /\ calls \in 0..MaxCalls /\ faults \in 0..MaxFaults
  /\ pc \in [Caller -> PC]
  /\ own \in [Caller -> ReaderId]
  /\ call \in [Caller -> CallType]
  /\ snap \in [Caller -> [len : Nat, quiet : BOOLEAN]]
  /\ saved \in [marks : Seq(Mark), quiet : BOOLEAN]
  /\ seen \subseteq Nat

Working(c) == pc[c] \in {"discard", "read"}

(* Two ReadAts never decode with the same gzip.Reader, whichever path each *)
(* took to it, and a reader in use is not in the pool for the taking       *)
(* (r.readers, gsip.go:99-146 and 171-189).                                *)
ExclusiveOwner ==
  \A c \in Caller : Working(c) =>
    /\ pool[own[c]] # "idle"
    /\ \A d \in Caller : Working(d) /\ own[c] = own[d] => c = d

(* What ReadAt has put into the buffer so far are the bytes of the stream  *)
(* from off on, and its reader stands right behind them; while it still    *)
(* skips to off it has not gone past (gsip.go:136-140 and 166-191).        *)
ReadsStream ==
  \A c \in Caller :
    /\ pc[c] = "discard" => zr[own[c]].pos <= call[c].off
    /\ pc[c] = "read" =>
         /\ zr[own[c]].pos = call[c].off + Len(call[c].data)
         /\ \A i \in 1..Len(call[c].data) :
              /\ call[c].data[i] = call[c].off + i - 1
              /\ call[c].data[i] < Size

(* A reader of the pool that nobody works with is idle again, unless its   *)
(* own stream failed: only the error path of acquireReader forgets it      *)
(* (gsip.go:137-139), every other one puts it back (gsip.go:184-189).      *)
NoReaderLost ==
  \A z \in ReaderId :
    pool[z] = "busy" => zr[z].err # "nil" \/ \E c \in Caller : Working(c) /\ own[c] = z

(* No checkpoint is lost, doubled or overtaken on its way from the         *)
(* decompressor through the channel and the goroutine into r.checkpoints   *)
(* (gsip.go:81-88): acquireReader relies on their order.                   *)
CheckpointOrder == checkpoints \o hand \o updates = SubSeq(Marks, 1, sent)

(* Once the goroutine has exited r.checkpoints is complete, and an index   *)
(* that Encode saves when no goroutine runs is r.checkpoints to the last   *)
(* element (gsip.go:32-38, 206-213).                                       *)
IndexComplete ==
  /\ gor = "exited" => checkpoints = Marks
  /\ saved.quiet => saved.marks = checkpoints

(* Wait never makes the process panic: neither by closing the channel      *)
(* twice nor by closing it under the frontier (gsip.go:211).               *)
PanicFree == ~panicked

(* Every ReadAt returns: a frontier that waits for room in the channel is  *)
(* not waiting for a goroutine that waits for it; and every Wait: the      *)
(* goroutine drains the channel and exits (gsip.go:84-86, 93-204, 212).    *)
CallsReturn == \A c \in Caller : pc[c] \in {"exact", "wait"} ~> pc[c] = "idle"

Inside(c) == pc[c] \notin {"idle", "wait", "encode"}

(* A caller's record as ReaderAt sees it: no data before the return.       *)
Shown(c) == IF Inside(c) THEN [call[c] EXCEPT !.data = <<>>] ELSE call[c]

AbsBusy    == [c \in Caller |-> Inside(c)]
AbsCall    == [c \in Caller |-> Shown(c)]
AbsIndexed == checkpoints # <<>>
AbsFaulty  == faults > 0

RA == INSTANCE ReaderAt WITH
  busy <- AbsBusy, call <- AbsCall, indexed <- AbsIndexed, faulty <- AbsFaulty

(* A gsip.Reader is an io.ReaderAt over the uncompressed stream: every     *)
(* ReadAt returns what ReaderAt.tla allows, however many run at once, and  *)
(* from the first checkpoint on it finds a reader (gsip.go:93-204).        *)
ImplementsReaderAt == RA!Spec
=============================================================================
