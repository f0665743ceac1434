------------------------------- MODULE Gunzip -------------------------------
(***************************************************************************)
(* gzip.Reader (gsip/internal/gzip/gunzip.go): a gzip file is a series of  *)
(* members, each a header, a deflate stream and a trailer.  The reader     *)
(* checks headers and trailers, hands out the bytes of all members as one  *)
(* stream, and sends a checkpoint behind each header.                      *)
(*                                                                         *)
(* A file is a sequence of tokens: "fixed" (the ten bytes every header     *)
(* begins with) and the optional fields its flags announce, "byte" for     *)
(* each byte a member decompresses to, "last" for the end of its deflate   *)
(* stream or "corrupt" for one that cannot be decoded, and "trailer".  It  *)
(* may end anywhere, also in the middle of a token ("cut").                *)
(*                                                                         *)
(* A token's index stands for its content: a checksum is the sequence of   *)
(* the indices it was computed over.  The decompressor is what Inflate.tla *)
(* shows of it: it returns the stream in order, an error with the last     *)
(* bytes before it or on its own, and never nothing.                       *)
(***************************************************************************)
EXTENDS Naturals, Sequences, SequencesExt

CONSTANTS
  Files,     \* the files read
  SizeMod,   \* sizes are uint32: 2^32 in the code
  ReadLens,  \* buffer sizes of the Reads
  Faulty     \* may the underlying reader fail?

Optional == <<"extra", "name", "comment", "hcrc">>   \* in the order they are read
Kind == ToSet(Optional) \cup {"fixed", "byte", "last", "corrupt", "trailer", "cut"}

(* ok: the magic numbers, and a string's terminating zero in time; sum and *)
(* size: the checksum and length that an hcrc or a trailer records.        *)
Token == [kind : Kind, flags : SUBSET ToSet(Optional), ok : BOOLEAN, sum : Seq(Nat), size : Nat]

(* An optional field is one that a fixed part announces, with nothing but  *)
(* other optional fields between them.                                     *)
Announced(f, p) ==
  \E h \in 1..(p - 1) :
    /\ f[h].kind = "fixed" /\ f[p].kind \in f[h].flags
    /\ \A j \in (h + 1)..(p - 1) : f[j].kind \in ToSet(Optional) \ {f[p].kind}

ASSUME FileAssumption ==
  /\ Files \subseteq Seq(Token)
  /\ \A f \in Files : \A p \in DOMAIN f : f[p].kind \in ToSet(Optional) => Announced(f, p)
  /\ SizeMod \in Nat \ {0}
  /\ ReadLens \subseteq Nat \ {0}
  /\ Faulty \in BOOLEAN

VARIABLES
  file,     \* the underlying stream
  at,       \* the index of its next token
  count,    \* z.r.n, what countReader has counted, in tokens
  open,     \* z.decompressor # nil
  from,     \* z.from # nil: made by Continue
  updates,  \* z.updates # nil
  pc,       \* where control is in Read and readHeader; "idle" between Reads
  fields,   \* the optional fields still to be read of this header
  digest,   \* z.digest
  size,     \* z.size
  out,      \* z.out
  err,      \* z.err
  woffset,  \* Offset(): the decompressor's Woffset() less its ToRead()
  want,     \* len(p)
  buf,      \* p[:n] of the current Read, or of the last
  sent,     \* the checkpoints sent
  start,    \* history: offset in the stream at which this reader began
  got       \* history: all that Reads have returned

callVars == <<want, buf, got>>
kindVars == <<file, from, updates, start>>
sumVars  == <<digest, size>>
outVars  == <<out, woffset>>
vars == <<kindVars, callVars, sumVars, outVars, at, count, open, pc, fields, err, sent>>

KindAt(p) == IF p \in DOMAIN file THEN file[p].kind ELSE "end"

(* Can a run from the start get past the first p tokens of f?  The         *)
(* reference for what the reader checks.                                   *)
LastOf(f, k, p) ==   \* the last token of kind k up to p
  CHOOSE i \in 1..p : f[i].kind = k /\ \A j \in (i + 1)..p : f[j].kind # k

Between(i, j) == [k \in 1..(j - i) |-> i + k - 1]   \* indices i, ..., j - 1

BytesUpTo(f, p) ==   \* the bytes among the first p tokens
  LET bytes[i \in Nat] ==
        IF i = 0 THEN <<>>
        ELSE IF f[i].kind = "byte" THEN Append(bytes[i - 1], i) ELSE bytes[i - 1]
  IN  bytes[p]

(* Those behind the last header. *)
MemberBytes(f, p) ==
  SubSeq(BytesUpTo(f, p), Len(BytesUpTo(f, LastOf(f, "fixed", p))) + 1, Len(BytesUpTo(f, p)))

Right(f, p) ==
  CASE f[p].kind = "hcrc"    -> f[p].sum = Between(LastOf(f, "fixed", p), p)
    [] f[p].kind = "trailer" -> /\ f[p].sum = MemberBytes(f, p)
                                /\ f[p].size = Len(MemberBytes(f, p)) % SizeMod
    [] f[p].kind \in {"fixed", "extra", "name", "comment"} -> f[p].ok
    [] OTHER                 -> f[p].kind \in {"byte", "last"}

(* Where a checkpoint may lie: at a block, of which any byte may be the    *)
(* first, that a run from the start has reached.                           *)
Block(f) ==
  {p \in 1..Len(f) : f[p].kind \in {"byte", "last"} /\ \A i \in 1..p : Right(f, i)}

(* NewReader: what is left to do is reading the first header.              *)
InitNew ==
  /\ at = 1 /\ start = 0
  /\ pc = "fixed" /\ open = FALSE /\ from = FALSE /\ updates = TRUE

(* Continue, as gsip calls it, without a channel: readHeader only makes    *)
(* the decompressor.                                                       *)
InitContinue ==
  /\ at \in Block(file) /\ start = Len(BytesUpTo(file, at - 1))
  /\ pc = "idle" /\ open = TRUE /\ from = TRUE /\ updates = FALSE

Init ==
  /\ file \in Files
  /\ InitNew \/ InitContinue
  /\ count = 0 /\ woffset = start
  /\ fields = {} /\ digest = <<>> /\ size = 0 /\ out = 0 /\ err = "nil"
  /\ want = 0 /\ buf = <<>> /\ got = <<>>
  /\ sent = <<>>

---------------------------------------------------------------------------
(* Reading from z.r *)

Take(n) == at' = at + n /\ count' = count + n

(* Reading the next token fails with e.  io.ReadFull returns io.EOF when   *)
(* there is nothing at all.                                                *)
Fails(e) ==
  \/ KindAt(at) = "end" /\ e = "EOF"
  \/ KindAt(at) = "cut" /\ e = "ErrUnexpectedEOF"
  \/ Faulty /\ e = "io"

ReadErrors == {"EOF", "ErrUnexpectedEOF", "io"}

noEOFSame(e) == e   \* mutant of noEOF

noEOF(e) == IF e = "EOF" THEN "ErrUnexpectedEOF" ELSE e

(* Read returns p[:n] and e, which is also z.err.  An error before there   *)
(* is a decompressor is NewReader's, and there is no reader then.          *)
Return(b, e) ==
  /\ err' = e
  /\ got' = got \o b
  /\ pc' = IF open THEN "idle" ELSE "failed"

---------------------------------------------------------------------------
(* Read *)

Read ==
  /\ pc = "idle" /\ err = "nil"
  /\ want' \in ReadLens /\ buf' = <<>>
  /\ pc' = "body"
  /\ UNCHANGED <<kindVars, sumVars, outVars, got, at, count, open, fields, err, sent>>

ReadFailed ==
  /\ pc = "idle" /\ err # "nil"
  /\ want' \in ReadLens /\ buf' = <<>>
  /\ UNCHANGED <<kindVars, sumVars, outVars, got, at, count, open, pc, fields, err, sent>>

(* How the deflate stream ends if the next token is p.                     *)
Ending(p) ==
  CASE KindAt(p) = "last"           -> {"EOF"}
    [] KindAt(p) = "corrupt"        -> {"corrupt"}
    [] KindAt(p) \in {"end", "cut"} -> {"ErrUnexpectedEOF"}
    [] OTHER                        -> {}

(* The decompressor returns the bytes b, all in one member, and an error   *)
(* or none.                                                                *)
Decompressed(b, e) ==
  /\ \A i \in 1..Len(b) : KindAt(b[i]) = "byte"
  /\ \/ e = "nil" /\ b # <<>>
     \/ e \in Ending(at + Len(b))
     \/ Faulty /\ e = "io"

AddWide(n) == size + n   \* mutant of Add: no uint32

Add(n) == (size + n) % SizeMod

Body ==
  /\ pc = "body"
  /\ \E n \in 0..want, e \in ReadErrors \cup {"nil", "corrupt"} :
       LET b == Between(at, at + n)
       IN  /\ Decompressed(b, e)
           /\ buf' = b
           /\ digest' = digest \o b /\ size' = Add(n)
           /\ out' = out + n /\ woffset' = woffset + n
           /\ Take(IF e = "EOF" THEN n + 1 ELSE n)
           /\ IF e = "EOF"
                THEN pc' = "trailer" /\ err' = e /\ UNCHANGED got
                ELSE Return(b, e)
  /\ UNCHANGED <<kindVars, want, open, fields, sent>>

TrailerMissing ==
  /\ pc = "trailer"
  /\ \E e \in ReadErrors : Fails(e) /\ Return(buf, noEOF(e))
  /\ UNCHANGED <<kindVars, sumVars, outVars, want, buf, at, count, open, fields, sent>>

MatchesDigest(t) == t.sum = digest   \* mutant of Matches: the size is not compared

Matches(t) == t.sum = digest /\ t.size = size

TrailerWrong ==
  /\ pc = "trailer" /\ KindAt(at) = "trailer"
  /\ ~Matches(file[at]) /\ ~from
  /\ Take(1)
  /\ Return(buf, "ErrChecksum")
  /\ UNCHANGED <<kindVars, sumVars, outVars, want, buf, open, fields, sent>>

(* A reader made by Continue has not seen all of its first member, and     *)
(* takes any digest, of later members too.                                 *)
TrailerRight ==
  /\ pc = "trailer" /\ KindAt(at) = "trailer"
  /\ Matches(file[at]) \/ from
  /\ Take(1)
  /\ digest' = <<>> /\ size' = 0 /\ err' = "nil"
  /\ pc' = "fixed"
  /\ UNCHANGED <<kindVars, outVars, callVars, open, fields, sent>>

---------------------------------------------------------------------------
(* readHeader *)

(* No byte at all is io.EOF: the regular end of a file of members.         *)
NoHeader ==
  /\ pc = "fixed"
  /\ \E e \in ReadErrors : Fails(e) /\ Return(buf, e)
  /\ UNCHANGED <<kindVars, sumVars, outVars, want, buf, at, count, open, fields, sent>>

Fixed ==
  /\ pc = "fixed" /\ KindAt(at) = "fixed"
  /\ Take(1)
  /\ IF file[at].ok
       THEN /\ digest' = <<at>> /\ fields' = file[at].flags
            /\ pc' = "field"
            /\ UNCHANGED <<err, got>>
       ELSE Return(buf, "ErrHeader") /\ UNCHANGED <<digest, fields>>
  /\ UNCHANGED <<kindVars, outVars, want, buf, size, open, sent>>

(* k is the optional field to be read next.                                *)
Due(k) ==
  /\ pc = "field" /\ k \in fields
  /\ \A i, j \in DOMAIN Optional : Optional[j] = k /\ i < j => Optional[i] \notin fields

FieldMissing ==
  /\ pc = "field" /\ fields # {}
  /\ \E e \in ReadErrors : Fails(e) /\ Return(buf, noEOF(e))
  /\ UNCHANGED <<kindVars, sumVars, outVars, want, buf, at, count, open, fields, sent>>

(* extra, name and comment go into the digest; hcrc is compared with it.   *)
Accepts(t) == IF t.kind = "hcrc" THEN t.sum = digest ELSE t.ok

Field ==
  /\ Due(KindAt(at))
  /\ Take(1)
  /\ IF Accepts(file[at])
       THEN /\ digest' = IF KindAt(at) = "hcrc" THEN digest ELSE Append(digest, at)
            /\ fields' = fields \ {KindAt(at)}
            /\ UNCHANGED <<err, got, pc>>
       ELSE Return(buf, "ErrHeader") /\ UNCHANGED <<digest, fields>>
  /\ UNCHANGED <<kindVars, outVars, want, buf, size, open, sent>>

(* Mutant of HeaderCheckpoint: In is what had been read before this member. *)
HeaderCheckpointEarly == [in |-> count - Len(digest), out |-> IF open THEN woffset ELSE 0]

HeaderCheckpoint == [in |-> count, out |-> IF open THEN woffset ELSE 0]

AgainAlways == TRUE   \* mutant of Again: a loop until an error

Again == buf = <<>>   \* for n == 0

(* The header is complete: send a checkpoint, then make or reset the       *)
(* decompressor.  NewReader or Read returns, or Read goes on.              *)
HeaderDone ==
  /\ pc = "field" /\ fields = {}
  /\ digest' = <<>>
  /\ sent' = IF updates THEN Append(sent, HeaderCheckpoint) ELSE sent
  /\ open' = TRUE
  /\ IF open /\ Again
       THEN pc' = "body" /\ UNCHANGED got
       ELSE pc' = "idle" /\ got' = got \o buf
  /\ UNCHANGED <<kindVars, outVars, want, buf, size, at, count, fields, err>>

---------------------------------------------------------------------------
Work ==
  \/ Body \/ TrailerMissing \/ TrailerWrong \/ TrailerRight
  \/ NoHeader \/ Fixed \/ FieldMissing \/ Field \/ HeaderDone

Next == Read \/ ReadFailed \/ Work

Spec == Init /\ [][Next]_vars

---------------------------------------------------------------------------
(* Properties *)

Error == ReadErrors \cup {"nil", "corrupt", "ErrHeader", "ErrChecksum"}

TypeOK ==
  /\ at \in 1..(Len(file) + 1)
  /\ count \in Nat /\ start \in Nat /\ out \in Nat /\ woffset \in Nat /\ want \in Nat
  /\ open \in BOOLEAN /\ from \in BOOLEAN /\ updates \in BOOLEAN
  /\ pc \in {"idle", "body", "trailer", "fixed", "field", "failed"}
  /\ fields \subseteq ToSet(Optional)
  /\ digest \in Seq(Nat) /\ buf \in Seq(Nat) /\ got \in Seq(Nat)
  /\ size \in 0..(SizeMod - 1)
  /\ err \in Error
  /\ sent \in Seq([in : Nat, out : Nat])

(* Reads return the bytes of all members, one after the other, from where  *)
(* the reader began, none left out at a member's end or overwritten when   *)
(* the Read goes on with the next member; and Offset() and                 *)
(* UncompressedCount() say how far they are (gunzip.go:345-382, 408-410).  *)
ReadsMembers ==
  pc = "idle" =>
    /\ got = SubSeq(BytesUpTo(file, Len(file)), start + 1, start + Len(got))
    /\ woffset = start + Len(got)
    /\ out = Len(got)

(* Read returns at least a byte or an error: empty members are passed      *)
(* over.  io.EOF is the end of the file, just behind a member's trailer,   *)
(* and all bytes have been returned: a file that ends anywhere else is     *)
(* reported as io.ErrUnexpectedEOF (gunzip.go:226-235, 250-279, 345-359).  *)
EOFIsEnd ==
  pc = "idle" =>
    /\ want > 0 => buf # <<>> \/ err # "nil"
    /\ err = "EOF" =>
         /\ at = Len(file) + 1 /\ KindAt(Len(file)) = "trailer"
         /\ start + Len(got) = Len(BytesUpTo(file, Len(file)))

(* A reader that began at the start never returns a byte that lies behind  *)
(* a wrong header, trailer or deflate stream, nor io.EOF; and a wrong      *)
(* checksum or header is only reported where there is one: no digest or    *)
(* size is carried over from the header, an earlier member or an earlier   *)
(* Read (gunzip.go:190, 236, 247, 282, 287, 362, 368).                     *)
Verified ==
  /\ ~from => \A p \in 1..(at - 1) :
       ~Right(file, p) => err # "EOF" /\ \A i \in DOMAIN got : got[i] < p
  /\ err \in {"ErrChecksum", "ErrHeader"} => ~Right(file, at - 1)

HeaderEnd(f, p) ==
  /\ p \in DOMAIN f /\ f[p].kind \in ToSet(Optional) \cup {"fixed"}
  /\ p < Len(f) => f[p + 1].kind \notin ToSet(Optional)

(* The checkpoint behind a header points at the first block of its member  *)
(* and at its first byte, and a reader that sends checkpoints has sent it  *)
(* before it returns a byte of the member: a reader that continues there   *)
(* reads what this one reads (gunzip.go:287-312).                          *)
HeaderCheckpoints ==
  /\ \A k \in DOMAIN sent :
       /\ HeaderEnd(file, sent[k].in)
       /\ sent[k].out = Len(BytesUpTo(file, sent[k].in))
  /\ updates => \A i \in DOMAIN got : \E k \in DOMAIN sent :
       LastOf(file, "fixed", got[i]) <= sent[k].in /\ sent[k].in < got[i]
=============================================================================
