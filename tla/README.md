# TLA+ for targz

targz serves files out of a remote `.tar.gz` without unpacking it: `ranger`
turns HTTP range requests into an `io.ReaderAt`, `gsip` makes a randomly
readable stream out of a gzip file, and `tarfs` makes a file system out of a
tar file. This directory holds TLA+ models of that code, the configurations
that check them with TLC, and proofs that TLAPS checks.

    tlc -config gsip_read.cfg MCGsip.tla      # any run of PROJECT.json
    tlapm GsipProofs.tla                      # the proofs: also InflateProofs, HuffmanCodes,
                                              # HuffmanProofs, GunzipProofs, TarFSProofs,
                                              # TargzProofs and Induction

`PROJECT.json` lists components, runs, mutants (each property is violated by a
plausible bug in the definition named), findings, hazards, theorems, and the
source lines every definition stands for.

## The system

| component | state | operations | talks to |
|---|---|---|---|
| `gsip.Reader` (gsip/gsip.go) | pool of gzip readers with an in-use flag, list of checkpoints, channel, goroutine | `NewReader`, `Decode`, `ReadAt`, `Wait`, `Encode` | owns `gzip.Reader`s; a channel and a goroutine bring it the frontier's checkpoints; any number of goroutines call it |
| `gzip.Reader` (gunzip.go) | decompressor, digest, size, sticky error, member flags | `NewReader`, `Continue`, `Reset`, `Multistream`, `Read`, `Offset`, `Close` | reads headers and trailers, sends a checkpoint behind each header, drives `flate.Decompressor` |
| `flate.Decompressor` (inflate.go) | step function, block state, `toRead`, `woffset`, `last` | `Read`, `Reset`, `Continue`, checkpoints | writes into `dictDecoder`, sends checkpoints behind blocks |
| `huffmanDecoder` (inflate.go) | tables of a code; the decompressor's bit buffer and code lengths | `init`, `readHuffman`, `huffSym`, `moreBits` | called by the decompressor only, at each block and symbol |
| `flate.dictDecoder` (dict_decoder.go) | window, write and read positions, `full` | literal, copy, flush | called by the decompressor only |
| `tarfs.FS` (tarfs.go) | entries, path index, directory listings | `New`, `Decode`, `Open`, `ReadDir`, `ReadFile`, `Stat`, `Index` | reads through an `io.ReaderAt` (gsip or a plain file) |
| `ranger.Reader` (ranger.go) | `uri`, which a redirect rewrites | `New`, `ReadAt` | HTTP server; called by gsip's readers, concurrently |
| `main` (main.go) | none | list or serve files | composes the three |
| huffman_code.go, token.go | the encoder's half of package flate | none is called | |

What is hard in it:

* `gsip.Reader` is the concurrent part. A `ReadAt` looks for a reader in
  three separate critical sections and decodes outside the lock; what keeps two
  of them apart is the in-use flag and the fact that a new reader is private
  until it is registered. The frontier sends checkpoints on a bounded channel
  in the middle of somebody's `ReadAt`, and the goroutine that drains the
  channel needs the lock. `Wait` closes that channel.
* Below it `ranger.Reader`, which has no lock at all, rewrites `r.uri` in `ReadAt`.
* A checkpoint is taken between two blocks, while decoded bytes may still be
  unread in the window. `Out`, `RdPos`, `WrPos` and the history have to agree,
  or every read that starts there is shifted. Nobody would see that in a test
  unless a block boundary falls on the right place in the window.
* The decompressor is a resumable state machine: a match may be cut anywhere by
  a full window, an error may come with bytes not handed out yet.
* Its Huffman tables are kept from block to block, look up more bits than there are,
  and must not read ahead of the end of a block, where a checkpoint or a trailer may be.
* tarfs follows links by rewriting the name and starting over: through files and
  through directories, relative and absolute, chained and in circles. Its
  listings must be such that fs.WalkDir, which knows nothing but them, comes to an
  end and sees everything; and Decode must arrive at the same ones from less.

What makes each part correct: `gsip.Reader` is an `io.ReaderAt` over the
decompressed stream (ReaderAt.tla); readers are owned by one call at a time and
come back; checkpoints arrive complete and in order; calls return. The
decompressor hands out the stream in order, its offset is the position of the
next byte, its window holds the last bytes of the stream, and a decompressor
resumed from a checkpoint continues the stream at `Out`. tarfs opens what an
operating system would find under that path, lists every entry once, and is the
same file system whether it was made from the tar or from its encoding. And all of
them together give the reader of a file the bytes of that file.

## Modules

| module | models | used by |
|---|---|---|
| ReaderAt | what `gsip.Reader` promises: the `io.ReaderAt` contract over the uncompressed stream, with the errors this one may add | Gsip (refinement) |
| Gsip | gsip/gsip.go whole: pool, checkpoints, channel, goroutine, ReadAt, Wait, Encode, Decode | MCGsip, GsipProofs |
| MCGsip | streams to run Gsip on | TLC |
| GsipProofs | theorems about Gsip | TLAPS |
| DictDecoder | dict_decoder.go: operators on a window record | Inflate |
| Inflate | inflate.go from `Read` down to the copy loop, checkpoints, `Continue`, `Reset` | TLC, InflateProofs |
| InflateProofs | theorems about Inflate | TLAPS |
| Huffman | inflate.go from the bits up to the symbols: `init`, `readHuffman`, `huffSym`, lengths and distances | MCHuffman, HuffmanCodes |
| MCHuffman | a small Deflate and headers of all kinds | TLC |
| HuffmanCodes | lemmas: numbers as strings of bits, canonical codes and the tables made of them | HuffmanProofs |
| HuffmanProofs | theorems about Huffman | TLAPS |
| Gunzip | gunzip.go: headers, members, trailers, the checkpoint behind a header | MCGunzip, GunzipProofs |
| MCGunzip | gzip files to run Gunzip on | TLC |
| GunzipProofs | theorems about Gunzip | TLAPS |
| TarFS | tarfs.go: New, Encode, Decode, Open and its links, ReadDir with a cursor, a walk | MCTarFS, TarFSProofs |
| MCTarFS | tars and names to run TarFS on | TLC |
| TarFSProofs | theorems about TarFS | TLAPS |
| Ranger | ranger.go: ReadAt, redirects, and `r.uri` word by word | Targz |
| Targz | main.go's `run`, tarfs.New's scan, the Files that are read: over ReaderAt, and that over Ranger | MCTargz, TargzProofs |
| MCTargz | archives, servers and redirects to run Targz on | TLC |
| TargzProofs | theorems about Targz: no race on `r.uri`, the listing and the files' bytes | TLAPS |
| Induction | induction on the numbers, recursive definitions and tail recursion with a measure, stated about sets and functions | GunzipProofs, TargzProofs, TarFSProofs, HuffmanCodes |

The three layers of gsip are modelled one at a time, each over what the one below is
shown to do. Inflate shows that a decompressor delivers the stream in order from
where it started, errors last, and that a checkpoint is enough to resume
(StreamInOrder, CheckpointExact). Gunzip takes a decompressor
that does so and shows the same of a whole file of members. Gsip takes such a
reader, names bytes by their position, and shows what any number of goroutines
get from a pool of them. Targz takes gsip for what it promises, ReaderAt, and composes
it with what is above and below. The link between Inflate and Gsip that a review should
look at is `Mark`: `emit`, where the frontier has delivered to when it sends a
checkpoint, is `out` unless the checkpoint follows a final block
(SentWhenHandedOut).

### Gsip

| state | code |
|---|---|
| `pool` | `r.readers`: absent, false (busy), true (idle) |
| `zr[z]` | what matters of a `gzip.Reader`: `Offset()`, the sticky `z.err`, and whether it was started on a trailer |
| `checkpoints`, `updates`, `closed` | `r.checkpoints`, the channel's buffer, whether it is closed |
| `gor`, `hand` | the goroutine of NewReader and the checkpoint between its receive and its lock |
| `sent` | how far the frontier is in the list of checkpoints its stream gives rise to (`Marks`) |
| `pc`, `own`, `call` | each calling goroutine: where it stands, the reader it works with, arguments and results |
| `snap`, `saved` | Encode's copy of the slice header, the index it wrote |

Each critical section under `r.mu` is one action: MatchExact/MissExact
(gsip.go:94-107), SearchHit/SearchMiss (109-119 and, private to the caller,
`gzip.Continue`), ScanHit/ScanMiss (119-146), Register (171-173), Release
(184-189), AppendCheckpoint (84-86). What runs outside the lock is cut where
another goroutine can see it: a chunk of decoding (Deliver), the end (HitEnd), an
error (Fail, Corrupt), the send of a checkpoint (Send, which blocks while the
channel is full, or SendOnClosed, which panics), a receive (Receive). Behind a
member the frontier sends the next header's checkpoint inside the Read that
returns the last bytes before it, or in the next Read if those filled the
buffer earlier; the model allows either.

Encode reads `r.checkpoints` without the lock (gsip.go:32-38). That is a data race
with the goroutine's append. It is modelled as a copy whose elements beyond the
length first seen may be garbage; IndexComplete demands exactness only if no
goroutine ran when Encode was called, which is what a caller gets by calling
Wait first.

### DictDecoder and Inflate

The window is a record and its methods are operators; the loops of `writeCopy`
and `tryWriteCopy` are steps of Inflate (CopyHistory, CopyChunk, CopyDone), so
that a match that wraps, overlaps itself or is cut off by the end of the window
is played through. `pc` keeps the goto structure of the step functions: "loop" is
the `for` of Read, "returned" the lines behind `f.step(f)`, the others the labels
of huffmanBlock and the functions. The compressed input is any sequence of
symbols: a literal, a match within the history, an end of block, stored bytes of
any content, or at any point an error. The bit buffer and the Huffman tables that
they come from are Huffman's; a checkpoint's In, B and NB
stand for "the symbols that follow". `text`, `base`, `start` and `got` are history
variables: what the symbols denote by the definition of DEFLATE, and what the
callers of Read have got. Continue keeps `text` up to the checkpoint and lets the
input go on in any way, so the resumed decompressor is checked against all
continuations.

### Huffman

A string of bits is a sequence in the order of the stream, so `f.b` and `f.nb` are one
sequence `b`; an index into a table is such a string, which is what `bits.Reverse16`
makes of a code. init is three operators: Table, what it writes; Impossible and
Complete, the conditions under which it panics or gives up. `pc` says what
is to be read next, and `Wanted` how many bits that takes: MoreBits takes a byte
of any value while there are fewer, or the input ends. LookAgain, NoSymbol and Symbol
are the three ways out of huffSym's loop, `need` its variable `n`.

All widths are constants, small ones for TLC. Where the code has a formula for its own
numbers (the cascade of `case v < 265`), the formula is the code's, and RealSymbol and RealDist
map the few symbols of the model to the numbers they stand for. A block begins
with less than a byte read ahead, on a new decompressor or on the tables and code
lengths of an earlier block.

### Gunzip

A gzip file is a sequence of tokens: the fixed part of a header, its optional
fields, one token per uncompressed byte, the end of the deflate stream, a
trailer; a file may end anywhere, or in the middle of a token (`cut`). A token's
index stands for its content, so a digest is the sequence of indices that went
into it and a trailer or a header checksum holds the sequence it should be. `z.size` and
the trailer's size are taken modulo `SizeMod` (2^32 in the code). readHeader is
one action per field, because it can fail at each; Read is the decompressor's
Read, the trailer, and readHeader. Continue starts at any block of a later run,
as gsip does: with no channel and `z.from` set.

### TarFS

A name is a string split at its slashes, so `"a/b"`, `"/a"`, `"a/"` and `""` are
`<<"a", "b">>`, `<<"", "a">>`, `<<"a", "">>` and `<<"">>`: what `normalize`, `path.Clean`, `path.Join`,
`path.Dir` and `path.Base` tell apart is there, character by character work is not.
New, Encode and Decode have no intermediate states that anybody sees and are
operators from a tar, or a list of exported fields, to the FS record: `files`, `index`
(the last of several entries with one name), `dirs` (sorted listings), `root`.

| state | code |
|---|---|
| `fsys` | the FS: files, index, dirs, root |
| `pc`, `asked`, `name`, `hops` | an Open under way: `open` calls itself once for each link, and each call is an action (FollowLink, FollowDir) until Found, Missing or TooManyLinks |
| `file`, `cursor` | the File opened last and its cursor; `listed`, `atEnd`: what its ReadDirs have returned |
| `todo`, `visited` | fs.WalkDir, which is external: the paths still to visit, and those visited |

The walk and the open files share nothing but `fsys`, which no operation changes, so a
behaviour does the one or the other. OpenExact compares Open with `Resolve`, which
resolves a path component by component the way an operating system does and knows
nothing of how `open` rewrites names. On some tars the two differ (see Findings); `Straight` is
the condition under which they agree on every tar. The name asked for is valid (io/fs's rule), and of the entries with
valid names:

* none is stored below a symbolic link (`open` would find it under its own name before it looks
  for a link on the way);
* every link leads to a valid name other than the root (`normalize` trims an absolute target but does not clean it, and a
  tar need not have an entry for its root, which only Open(".") makes up);
* the `..`s of a relative symbolic link come first, as in "../../a/f" (path.Join takes back the element in front of a `..`,
  also if that is itself a link, and an operating system goes up from where the link leads).

All 41 tars of tarfs_open, and every name opened there, are straight, so the run checks the same as the theorem. They have links to
files and to directories, relative, absolute, chained and circular ones, a link to a link and a hard link through a link.

### Ranger and Targz

`r.uri` is a Go string, two words that are loaded and stored without a lock. Ranger
cuts ReadAt at each of them (LoadPtr, LoadLen, StorePtr, StoreLen), so a call
that races with a redirect sees a mixture of two strings: one that looks like a URL
if they are equally long, else none. Each URL has an answer, which is a part of the file, a
redirect or neither; a request may fail, and a body may be short.

| state | code |
|---|---|
| `phase` | where `run` is: Head or Stat, gsip.NewReader, then archive/tar's `Next` in tarfs.New by what it reads (header, data, padding, zeros), and how it ended |
| `n`, `files` | countReader.n; offset and size of the entries so far |
| `sr`, `op` | each reader's File and its SectionReader's cursor; its last Read or ReadAt |
| `busy`, `call`, `indexed`, `faulty` | gsip.Reader, by the actions of ReaderAt |
| `uri`, `st`, `held`, `ret`, `faults` | ranger.Reader, by the actions of Ranger |
| `fetches` | how often an actor's call has read the compressed file |

While a goroutine is inside NewReader or a ReadAt of gsip, it reads the compressed
file when it likes: in a ReadAt between never (everything may be buffered) and MaxFetches
times, in NewReader at least once, because gsip.NewReader returns with the first header
read (HeaderRead). An error of ranger's makes gsip fail from then on as ReaderAt allows.
Sizes are abstract, blocks are two units long instead of 512. Each reader has a File of
its own, as fs.FS's callers do.

## Runs

Each run takes between a second and two minutes. `expect: violation` runs show a
disagreement between a comment and the code (see Findings).

| run | instance | shows |
|---|---|---|
| gsip_read | 2 callers, 3 ReadAts, stream of 3 bytes with 2 checkpoints, channel of 1, offsets before, between and behind, buffers of 0 and 2, one error of the underlying reader | TypeOK, ExclusiveOwner, ReadsStream, NoReaderLost, and the refinement ImplementsReaderAt |
| gsip_index | three members, one empty (two checkpoints at one offset), channel of 1; one caller also calls Wait and Encode; fairness | IndexComplete, PanicFree, CheckpointOrder, CallsReturn |
| gsip_tail | one caller, a checkpoint behind a final block, Wait as its comment allows it | NoReaderLost there too |
| inflate_stream | window of 3 bytes, matches of 2 and 4 at every distance, stored blocks of none and of 4, 6 bytes, 3 blocks and members, a span of 1 (a checkpoint at nearly every block), failures, Continue from every checkpoint; fairness | TypeOK, WindowExact, LegalCalls, StreamInOrder, CheckpointExact, CheckpointsSpaced, SentWhenHandedOut, ReadReturns |
| huffman_block | tables of two bits, codes of up to three, bytes of two; twelve headers: every kind of code for the code lengths, then any input; new and reused tables, a fixed block; fairness | TypeOK, LengthsExact, NeverImpossible, NoOverread, SymbolsExact, HeaderEnds |
| gunzip_read | three members, the middle one empty, the last with all optional fields; one of eleven flaws or none; cut at or within any token; an underlying reader that may fail at any token; read whole or from any block on | TypeOK, ReadsMembers, HeaderCheckpoints, EOFIsEnd, Verified |
| tarfs_open | 41 tars of up to six entries, every combination of five targets for a link to a directory, four for a link inside it, with and without a root entry, and one tar that has a name twice; twelve names opened; ReadDir with -1, 1 and 2; fairness | TypeOK, DecodeAgrees, OpenExact, ListedOnce, WalkVisitsOnce, OpenReturns |
| targz_read | four tars no smaller than their compressed files (with an empty file list, cut off, padded, with half an end marker), as files or behind two redirects or at a URL that does not answer; two readers, one failing request; fairness | TypeOK, ListsAll, FilesExact, NoRace, CallsReturn |
| gsip_wait_stream, gsip_tail_read, huffman_corrupt, targz_size | small instances | violations, see Findings |

Why these bounds are enough. Gsip: what two ReadAts can do to each other takes
two of them at once, and a third call meets what they left in the pool; longer
streams only repeat the cases of an offset before, between, at and behind
checkpoints, and a reader before, at and behind an offset. A channel of one is
full as soon as one checkpoint waits, which ten slots need eleven
checkpoints for; capacity is a parameter of the proofs. Inflate: with a window of
three, a match of two can wrap and overlap itself, one of four, or a stored block,
cannot fit; six bytes fill the window twice, so `full`, wrapped sources and interrupted
matches all occur. A span of one puts a checkpoint at every
position of the window. Huffman: a code of three bits overflows a table of two, a byte
of two cuts every field, and four literal symbols allow all shapes of a code
(complete, one too few, one too many, a single bit, none). Gunzip: three members are first, next and last; sizes are
counted modulo two, so they overflow. TarFS: the targets of the two symbolic links make
relative and absolute links, links to links, through a linked directory, circles of
one and of two, and a path that leaves its directory by ".."; a directory of three is
read by ones, by twos and whole. MaxHops is 4 where the code has 255; the longest
chain without a circle has three links. Targz: two redirects, because the second one
must be relative to the first and not to what a racing call stores, between URLs of
different lengths; two readers are what a race takes. Every bound is a constant: MaxCalls,
MaxFaults, MaxText, MaxBlocks, MaxHops, MaxReads, MaxFetches, and the sets of offsets, lengths and files.

`CHECK_DEADLOCK FALSE` stands in every cfg: a program nobody calls any more stops,
and so does the model, after MaxCalls, MaxText or the end of the file.

### Fairness

Gsip: weak fairness of the checkpoint goroutine and of each caller that is inside
a call. This is the Go scheduler: a goroutine that can run will run. Nothing is
assumed of callers that are not inside a call, so a property that needed somebody
to read on would fail; in particular the goroutine exits only if somebody calls
Wait. Weak fairness is enough because no step a caller waits for is disabled
again by another one: room in the channel is taken by the frontier alone, and it
has one owner. `r.mu` does not appear: a critical section is one step.

Inflate: weak fairness of the decompressor's steps, inside one goroutine's Read.
The input is finite (MaxBlocks), otherwise a stream of empty blocks would keep
Read busy forever, as it does in the code.

TarFS: weak fairness of the steps of an Open or a walk that has begun, which are
calls inside one goroutine. That an Open begins, or a ReadDir, is not assumed.

Huffman: weak fairness of all steps, one goroutine's. The input need not end: what
HeaderEnds says is that the header does.

Targz: weak fairness of run, and of the call a reader is in; that a request is
answered, or fails, is part of it, as a server that never answers leaves ReadAt (which has
no timeout) waiting. Redirects end, by MCTargz's choice of servers.

## Proofs

GsipProofs.tla is about Gsip for every set of callers, stream, list of checkpoints
(sorted by position, the first one at 0: MarksAssumption), channel capacity and
set of offsets and lengths. InflateProofs.tla is about Inflate for
every window size, set of byte values, span, set of lengths of matches, stored blocks and reads, and any
input. TarFSProofs.tla is about TarFS for every set of tars, names and arguments of ReadDir.
GunzipProofs.tla is about Gunzip for every set of files, whatever they
consist of and wherever they are cut off or damaged, and every set of lengths of reads.
HuffmanProofs.tla is about Huffman for every width of a byte, a table, a code and the fields, every header
and any input behind it.
TargzProofs.tla is about Targz for every set of readers,
of archives, of URLs and their answers, and any number of failing requests.

| theorem | states | assumes |
|---|---|---|
| TypeCorrect | Gsip's TypeOK | |
| ExclusiveOwnership | ExclusiveOwner | |
| CheckpointsInOrder | CheckpointOrder | |
| ReadersComeBack | NoReaderLost | |
| WaitIsSafe | PanicFree | WaitRule = "frontier": Wait is called when the frontier has come to its end |
| ReadsTheStream | ReadsStream | NoTail |
| Refinement | ImplementsReaderAt: Spec implies the Spec of ReaderAt | NoTail |
| IndexIsComplete | IndexComplete | WaitRule = "frontier" |
| Invariance | `IInv`, the inductive invariant of Inflate | |
| Typing, WindowHolds, CallsLegal | Inflate's TypeOK, WindowExact, LegalCalls | |
| StreamDelivered | StreamInOrder | |
| CheckpointsHold, CheckpointsApart, SentInTime | CheckpointExact, CheckpointsSpaced, SentWhenHandedOut | |
| Typing | Gunzip's TypeOK | FileAssumption |
| MembersRead, EndOfFile | ReadsMembers, EOFIsEnd | FileAssumption |
| Verification, HeadersPointed | Verified, HeaderCheckpoints | FileAssumption |
| Typed | Huffman's TypeOK | Huffman's assumptions |
| HeaderRead, TablesFilled, NothingBehind | LengthsExact, NeverImpossible, NoOverread | Huffman's assumptions |
| ReadExact | SymbolsExact | Huffman's assumptions |
| DecodeIsNew | TarFS's DecodeAgrees | |
| ListsOnce, Typed | TarFS's ListedOnce, TypeOK | TarsAssumption |
| WalksOnce | WalkVisitsOnce | TarsAssumption |
| OpensExactly | `Straight => OpenExact` | TarsAssumption; Straight, a condition on the tar and the name |
| RaceFree | Targz's NoRace | |
| FilesTyped | Targz's TypeOK | |
| FilesRead | FilesExact | |
| Listing | `Uncut => ListsAll` | Uncut |

NoTail says that no checkpoint follows a final block; gsip_tail_read shows that
the code needs it. TarsAssumption says that names and link targets are finite sequences of the
alphabet's elements, none of them without an element (even "" has one), and that "", "." and ".." are in it.

FileAssumption says that an optional field of a gzip header is a token only where the
header's flags announce it; elsewhere those bytes are something else. Huffman's assumptions are what the
code's constants satisfy: a length of three bits is no longer than the longest code, codeOrder is a permutation that has room for as many lengths as
HCLEN can count, every symbol beyond the end marker stands for one of Deflate's, from 257 on, the fixed code is complete, and the end marker is one of its
shortest codes. Uncut says that a
remote archive's tar is no longer than the compressed file, which is what run passes for its
length; targz_size shows that ListsAll needs it.

The argument for Gsip. ExclusiveOwner is not inductive: two callers that are still searching
might own one name, and a new reader might be registered under a name the pool
already has. `Ownership` adds what prevents it: the callers inside a ReadAt own
different names, a name whose reader is still to be made is absent from the pool, and no
name is above the number of ReadAts so far, so the next one is fresh. Then Claim (only
idle readers, which nobody inside can own) and Register (only the own name) keep
owners apart. For CheckpointOrder, every checkpoint moves from `Marks` to
`updates` to `hand` to `checkpoints`, an append at one end and a removal at the
other each time. PanicFree needs `Stopped`: once the channel is closed, the frontier
has a sticky error, so it never decodes and never sends again; that holds when Wait
is called as WaitRule says, and no step takes an error away. NoReaderLost is
inductive together with Ownership: no caller moves another's reader. ReadsStream is part of `ReadInv`,
which the refinement needs too: `Streams` (no reader stands on a tail or beyond
the stream; one that reports the end stands at Size; one that reports "io" has
met a fault) and `InProgress` (an unfinished call has no result; it began early or
there is a checkpoint; its buffer holds the stream from its offset to where its reader
stands). The refinement maps a caller's record to itself with the data hidden
until the return (`Shown`), `indexed` to "r.checkpoints is not empty" and `faulty`
to "there has been a fault". Call maps to Call; Release, ScanMiss and DiscardFailed to
Return; Fail and the first append to Fault and Index; the rest stutter.

IndexComplete needs `Drained` (a frontier with the error of the stream's end has sent all
of Marks; the goroutine exits only from a closed, empty channel) and `UpToDate` (without a
goroutine that appends, what Encode found and saved stays r.checkpoints).

The argument for Inflate has two parts. `WInv` is about the window. It says that
there is room for a byte outside the copy loop, that the window holds the last bytes of the
stream (WindowExact, while a match is being copied as far as its chunks have come), that what
is left of an interrupted match still lies within the history, and that no step disturbs a
checkpoint that has been taken. The hard case is a match that overlaps itself: writeCopy
doubles the distance it copies over with every chunk. `Copying` is why this is right: what
lies between src and dst is the last bytes of the stream, and it is the match's pattern a
whole number of times, so the next chunk continues the pattern where the last one broke
off (ModShift), even when the source wraps around or the window ends within the match.
`DInv` is about what leaves the window. `Handed` is the position of the first
unread byte. `Delivered` says that the Reads have returned, or are about to, the stream from
the start to there, that woffset is Handed or, between step and return, what has been
returned, and that an error is seen only when nothing is left unread. `NoneOverdue` is
CheckpointsSpaced where the next block is still to come: it allows for the flush of an empty
stored block, behind which nothing is unread. `Placed` relates the checkpoints to Handed and `last`.
The parts need each other: Reset keeps WInv because woffset is no more than the stream,
which Delivered says, and Delivered needs the exact window for the bytes it hands out.

The argument for Gunzip. `BytesUpTo` gives the bytes among the first tokens of a file, and every
property compares something with it. `Delivered` says that what has been returned and what a Read
under way will return are, together, the bytes read since the start, also while that Read is in the
trailer or in the next header, and that Offset is their number. Verified is not inductive, because what a trailer or an hcrc is
compared with has been gathered token by token: `Checked` says that within a member digest and size are
those of the member's bytes so far, that everything before the last token is right, and the last one too unless
the reader has just reported it; `InHeader` that the fields still to be read are those the flags announce less those
that have come, and that the digest is the header's. Without the former a reader could skip the hcrc. EOFIsEnd needs
`Ends` and `Control`, which say where each error can be, and HeaderCheckpoints `Pointed`: a checkpoint is
sent for each member before a byte of it leaves (SentFor), and it points where a header ends.

The argument for Huffman. HuffmanCodes reads a string of bits as the number that has its first bit highest (`Value`),
so that the codes of a length are consecutive numbers and a prefix is a quotient. If the code is complete, `Growth` and `CompleteFits`
bound what each length has to share with the longer ones, which makes codes `Unambiguous`: no string begins with two of them. The other way round, the
codes up to a length take all numbers below CodeBehind, so every string begins with one (`Taken`). With both,
a table is filled, each place once (`Filled`), and what is looked up is the symbol whose code the bits begin with, with zeros where there
are no bits yet (`FindIs`). `HInv` has what goes on between the bits. `Decoders` says that each decoder
holds the table of the code that is read, and `Cleared` that one whose min is 0 is empty, so that Reinit, which
only looks at min, is enough. `Gathered` is LengthsExact also while a repeat is read. For NoOverread, `Awaited` says that no code shorter than
`need` can still come: at first because need is the least length, and when huffSym takes the length of the chunk it has
found, because a shorter code would have been found instead (`FoundShort`). Hence `Frugal`: less than a byte has been read beyond what is wanted, or, since Bump
raises min to the end marker's length, beyond the end marker. SymbolsExact compares what the tables give with `Canonical`, which adds up
what each shorter length takes of the codes and never looks at a table: `CodeIsCanonical` shows that init's running count, doubled at
each length, comes to the same numbers. For a fixed distance, whose five bits are read without a table, that holds because thirty-two codes of one
length are the numbers themselves (`FlatCanonical`). The bases of lengths and distances, which the code
has as cases and shifts, are sums of the powers of the symbols before (`Tiles`), so neighbouring symbols' ranges meet and none overlaps.

In TarFS, DecodeAgrees holds because the one comparison by which DecodedDir differs from ParentOf is
always true, as path.Dir(".") is "."; for ListedOnce `Reading` says where the cursor
stands, and two adjacent pieces of a listing are one. That a listing is a sequence with each of the directory's entries once is
a fact about sorting: the entry at k is the one with k - 1 entries before it, and counting those before takes every value once,
also if ranks are equal (CountedThrough). WalksOnce rests on two things. One is that fs.WalkDir, which joins the directory and the base
of the name in the header, makes the very name by which the entry is found, although `normalize`, path.Clean, path.Base and
path.Join each change what they are given: if the name is `Plain`, with no element for Clean to change, then the header's spelling is
that name with blank elements around it (`Padded`: "/", "./", "a/"), and each of them ends in what it would make of the plain name
(NormalizePadded, BasePadded, JoinPlain). The other is the invariant `Walking`: what has been visited and what is still to be visited
are disjoint, without repetition, and hold an entry if and only if its directory has been visited. A visit keeps it
because an entry has one directory. When nothing is left, a shortest name that has not been visited would have its
directory, whose name is shorter, visited.

OpensExactly is about two programs that follow links, `open` on names and `Resolve` on what is behind and what is ahead. Its invariant
`Opens` says that the name open is at leads, with the links that it may still follow, to where the name asked for leads:
`From(MaxHops + 1 - hops, <<>>, name) = Resolved(asked)`, where From is Resolve. Each round of open then has to keep
From the same, with one link less to go. Resolve recurs on records, so
first comes that such a function exists: every step uses up a link or an element of the rest, so it comes to an end
(StepsEnd, by induction on the links and then on the rest's length), and Induction's TailRecursion gives what it ends with (Resolving).
Where nothing ahead of it is a link, Resolve only appends to where it is (WalksTo), so it arrives at the first linked directory as `open` finds it
(Prefix, ThroughLink). There Resolve goes on with the link in front of the rest, where open makes one name of directory, link and rest
and cleans it. These lead to the same place. Cleaning changes nothing for Resolve if every `..` climbs out of a directory on whose way there is no
link (CleanSame), and what normalize trims leads nowhere (PaddedSame); the `..`s of a straight link come before its names, so they climb out of the
link's directory and out of nothing else (ClimbsOut, RelativeSame); and the rest, a valid name, has none (BelowRelative, BelowAbsolute). Finally,
an entry found is where the name leads (LeadsToEntry), because in a straight tar no prefix of a stored name is a link; that is where
the first condition of Straight is needed. When open gives up after MaxHops links, Resolve has run out of them too, because both count alike.

The argument for RaceFree. NoRace says that nobody else is in ranger's ReadAt while one call
stores `r.uri`, and no lock sees to that. What does is an order of events, which `IInv` spells
out phase by phase. Before run has its FS, only the Opener reads. Until
NewReader has returned, the Opener follows redirects as if `r.uri` were its own (`Follows`: what it
has loaded is what is there, unless it is storing just then), so a request that brings bytes
was made to the URL that is stored. NewReader does not return before such a
request (HeaderRead), and from there on `Settled` holds: `r.uri` is a whole URL that answers with
bytes and no call is storing, so none ever will, because a call that loads `r.uri` gets that URL.

The rest of TargzProofs goes on from there. `Placed` says where the scan is: at the end of an entry, behind a header, at the
end of its data. From that and from what gsip promises for the offset and the length that `Calls` says were asked for, a buffer that is
not full means that the tar ends there (`Stopped`), that the compressed file has failed, or that the call was too
early. `Calls` has to relate the errors to their causes, too: gsip fails only after a fault, and a fault is one of the
requests that fail, because once `r.uri` is settled (IInv) no server refuses it. `FileReaders`
says of a call under way that it asks for bytes within the reader's file only, so that gsip's promise
about the stream becomes FilesExact about the file; that files do not overlap is in
`Listed`, which has every entry at DataStart, and DataInOrder. The offsets are sums over the entries, defined by recursion (EntriesEnd).

Data defined by recursion (BytesUpTo, EntriesEnd, Power, Number, Expanded) is proved about in three steps. Induction.tla derives induction
for a *set* of numbers from the library's well-founded minimum (WFMin, which takes no operator); from that, the
existence of the function that a recursive definition chooses (RecursiveFunction); and then the
equations of each definition are a lemma (BytesEquations, EntriesEquations), by which the rest is induction again.

Only model-checked: liveness (CallsReturn of Gsip and of Targz, ReadReturns, HeaderEnds,
OpenReturns), which is out of the prover's reach. Every invariant and action property of the runs is proved, OpenExact
for straight tars. Huffman writes 2^n as the recursive function Power, because the provers know nothing
of 2^n for a variable n. TarFS makes Join and the listings without SelectSeq and SortSeq, of which the first is recursive with an
operator for a parameter: nothing could be proved of them.

## Findings

1. Wait and the frontier (gsip_wait_stream). "The entire compressed stream must
   have been read to EOF before calling Wait" (gsip.go:206) is not enough: readers
   made from checkpoints may have read it, while the frontier, idle, still owes
   checkpoints. Wait closes the channel and the next ReadAt that takes the
   frontier panics. What is needed is that the *frontier* has met the end.
2. Checkpoints behind a final block (gsip_tail_read). finishBlock sends one if the
   span is up (inflate.go:769-797, with a TODO). A reader continued there decodes the
   gzip trailer as a deflate block.
3. The sanity checks of init (huffman_corrupt). `sanity` is "intended to be used during
   development" (inflate.go:198-200), but it is a constant and true: code lengths that do not make
   a complete code panic at inflate.go:250, before the `return false` that becomes a
   CorruptInputError. One corrupt header of a dynamic block ends the process.
4. The size of a remote tar (targz_size). run hands tarfs.New the Content-Length of the
   compressed file as the size of the uncompressed tar (main.go:36): a tar
   that is larger is cut off there, and New fails or lists less than there is.

Noticed and not made into a run, because no comment claims otherwise:

* gsip: ReadAt translates every io.ErrUnexpectedEOF into io.EOF (gsip.go:197), also the one by
  which gzip.Reader reports that the compressed stream is cut off. Encode
  reads `r.checkpoints` without the lock; the frontier is lost for good when its
  skip fails (gsip.go:137-139); a reader with a sticky error goes back to the pool;
  ReadAt behind the end returns a wrapped io.EOF from acquireReader; a ReadAt that
  runs before the first checkpoint has been appended finds no reader if the
  frontier is in use. gunzip's countReader counts a byte even if ReadByte failed.
* Checksums: `z.from` stays set, so a reader made from a checkpoint ignores the checksums of
  all later members too (gunzip.go:363).
* inflate: NewReaderWithSpans initialises `last` with a compressed offset and
  compares it with a decompressed one; an empty stored block flushes the window
  before finishBlock looks at it, so that a due checkpoint may be left to the next
  block; `stepState` is not reset at the end of a block (harmless, LegalCalls).
* ranger and main: a reader made by gsip.Decode reads no header first, so its first ReadAts may
  race on `r.uri`; redirects are followed without a limit, and stored for good, also those that
  expire; when the server gives no Content-Length, run passes -1, on which gsip.NewReader fails
  although tarfs.New would take a negative size for an unknown one.
* tarfs: a root entry spelled "/" gets past the comparison with "." (tarfs.go:334-335) and is
  listed under the name "/" in its own listing, whence path.Join(".", "/") is "." again and
  fs.WalkDir does not end. A symbolic link to the root, or with an absolute target that is not clean
  ("/a/../b"), cannot be opened, because `normalize` trims but does not clean; ReadDir and
  Lstat do not follow links in directories; directories without an entry of their
  own are not made up, so fs.WalkDir misses what is in them; a name with an empty, "." or ".." element inside ("a//b") is
  entered as it stands and walked under the cleaned name, by which it is not found (WellFormed is the condition of
  WalkVisitsOnce); of two entries with one name both are listed and the last is opened;
  File.ReadDir(0) returns nothing; listings are handed out as slices of the FS's own;
  names are not checked with fs.ValidPath. An entry whose name lies below a symbolic link is opened under that name, although
  an operating system would go through the link; a `..` in a link's target behind a name ("l/../a") takes back the name and not where it leads,
  so it goes elsewhere if that is a link. Straight, the condition of OpensExactly, excludes these.

## Not modelled

Of gsip and tarfs, the JSON by which Encode writes and Decode reads; of tarfs, the lookups that
are one access to the index (Index, Lstat, ReadLink). Of flate, entry points nobody calls
(NewReaderDict, NewReader, ResetTo) and the encoder's half (huffman_code.go, token.go), which
nothing but its own package names. `gzip.Reader.Reset` and `Multistream(false)`, which are
unreachable outside the constructors. Of main, the HTTP server and the printing of a listing.
`bufio` appears only as the errors it may return and as the number of reads it makes of the
file below: none or several. Memory consistency below the two words of `r.uri` is not modelled.

## Plan

Done: ReaderAt, Gsip and its proofs, DictDecoder, Inflate and its proofs, Huffman and its proofs, Gunzip and its proofs, TarFS and
its proofs, Ranger, Targz and its proofs. There are a dozen runs, one per question, and
forty properties; a new one would take the place of a lesser one. Every safety property of the passing runs is a theorem. What could still be added:

1. TarFS: Straight asks of every link that it has a good target; a link that the name does not lead through need not.
2. Liveness, if a prover for it is at hand: TLC checks it on small instances only.
