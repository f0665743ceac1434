------------------------------- MODULE Targz -------------------------------
(***************************************************************************)
(* The parts together: main.run (main.go) opens a gzipped tar, a file or a *)
(* URL behind a ranger.Reader, makes a gsip.Reader of it and a tarfs.FS of *)
(* that (tarfs.New), and files of it (tarfs.File) are then read            *)
(* concurrently.                                                           *)
(*                                                                         *)
(* gsip.Reader is what it promises, module ReaderAt; while one of its      *)
(* calls is under way, its goroutine reads the compressed file: by actions *)
(* of Ranger, any number of times.  Sizes and offsets count an abstract    *)
(* unit.                                                                   *)
(***************************************************************************)
EXTENDS Integers, SequencesExt, FiniteSetsExt

CONSTANTS
  Opener, Readers,  \* the goroutine that runs run, and those that read files
  Block,            \* the tar's blockSize: 512
  Archives,         \* [data, size, length]: the sizes of the files in the tar,
                    \* and the sizes of the tar and of its compressed file
  MaxInt,           \* 1<<63 - 1
  ReadLens, SeekTo, \* buffers and offsets of the files' readers
  MaxReads,         \* bound: operations on files
  MaxFetches,       \* bound: reads of the compressed file within one ReadAt
  Url, Starts, Answer, StrLen, NoUrl, MaxFaults

Actor == {Opener} \cup Readers

VARIABLES
  tar, remote,   \* the archive, and whether it is at a URL
  phase,         \* of the Opener: what it does next, or how run has ended
  n,             \* countReader.n, the offset of the SectionReader behind it
  files,         \* fsys.files: [offset, size] of each entry
  sr,            \* of each reader, the SectionReader of its File: [file, off]
  op,            \* its last operation: [kind, len, at, data, err]
  reads,         \* bound: how many there have been
  fetches,       \* of each actor: reads of the compressed file in this ReadAt
  busy, call, indexed, faulty,   \* gsip.Reader, see ReaderAt
  uri, st, held, ret, faults     \* ranger.Reader, see Ranger

runVars    == <<tar, remote, phase, n, files>>
fileVars   == <<sr, op, reads>>
gsipVars   == <<busy, call, indexed, faulty>>
rangerVars == <<uri, st, held, ret, faults>>
vars == <<runVars, fileVars, fetches, gsipVars, rangerVars>>

ASSUME ArchivesAssumption ==
  /\ Opener \notin Readers /\ Block \in Nat \ {0} /\ MaxInt \in Nat
  /\ \A a \in Archives : a.data \in Seq(Nat) /\ a.length \in Nat /\ a.size \in 0..(MaxInt - 1)
  /\ SeekTo \subseteq Int /\ ReadLens \subseteq Nat
  /\ MaxReads \in Nat /\ MaxFetches \in Nat

ASSUME UrlAssumption ==
  /\ Starts \subseteq Url /\ NoUrl \notin Url
  /\ Answer \in [Url -> [status : {"partial", "moved", "other"}, to : Url]]
  /\ StrLen \in [Url -> Nat] /\ MaxFaults \in Nat

(* Where the first i entries end, a header, data and padding each; and     *)
(* where the data of entry i begin and end.                                *)
Padding(size) == (-size) % Block
EntriesEnd(a, i) ==
  LET end[k \in 0..Len(a.data)] ==
        IF k = 0 THEN 0 ELSE end[k - 1] + Block + a.data[k] + Padding(a.data[k])
  IN  end[i]
DataStart(a, i) == EntriesEnd(a, i - 1) + Block
DataEnd(a, i) == DataStart(a, i) + a.data[i]

Sizes   == {a.size : a \in Archives}
Offsets == 0..Max(Sizes)

Buffers == 0..Max({Block} \cup ReadLens \cup UNION {ToSet(a.data) : a \in Archives})

(* Only what a call returns depends on the size of the stream.             *)
Gsip(size) == INSTANCE ReaderAt WITH Caller <- Actor, Size <- size, Offs <- Offsets, Lens <- Buffers
Ranger == INSTANCE Ranger WITH Caller <- Actor

NoOp == [kind |-> "none", len |-> 0, at |-> 0, data |-> <<>>, err |-> "nil"]

Init ==
  /\ tar \in Archives /\ remote \in BOOLEAN
  /\ phase = "stat" /\ n = 0 /\ files = <<>>
  /\ sr = [c \in Readers |-> [file |-> 0, off |-> 0]]
  /\ op = [c \in Readers |-> NoOp] /\ reads = 0
  /\ fetches = [a \in Actor |-> 0]
  /\ Gsip(0)!Init /\ ~indexed
  /\ Ranger!Init

---------------------------------------------------------------------------
(* Reading the compressed file: what gsip does within NewReader and ReadAt *)

Decompressing(a) == busy[a] \/ (a = Opener /\ phase = "newReader")

(* An error in NewReader ends run unless the header came with it; one that *)
(* does not, or one in a ReadAt, is gsip's from then on.                   *)
Faulted(a, bytes) ==
  \/ ~busy[a] /\ phase' = "failed" /\ UNCHANGED gsipVars
  \/ (busy[a] \/ bytes) /\ Gsip(0)!Fault /\ UNCHANGED phase

FileFails(a) ==
  /\ ~remote /\ Decompressing(a) /\ faults < MaxFaults
  /\ faults' = faults + 1
  /\ Faulted(a, TRUE)
  /\ UNCHANGED <<tar, remote, n, files, fileVars, fetches, uri, st, held, ret>>

Fetch(a) ==
  /\ remote /\ Decompressing(a) /\ fetches[a] < MaxFetches
  /\ Ranger!Call(a)
  /\ fetches' = [fetches EXCEPT ![a] = @ + 1]
  /\ UNCHANGED <<runVars, fileVars, gsipVars>>

Request(a) == Ranger!Inside(a) /\ UNCHANGED <<runVars, fileVars, fetches, gsipVars>>

Fetched(a) ==
  /\ Ranger!Ends(a)
  /\ IF ret'[a] = "nil" THEN UNCHANGED <<phase, gsipVars>> ELSE Faulted(a, ret'[a] = "short")
  /\ UNCHANGED <<tar, remote, n, files, fileVars, fetches>>

(* The goroutine of gsip.NewReader appends the first checkpoint.           *)
Index ==
  /\ phase # "stat" /\ phase # "newReader" /\ ~indexed
  /\ Gsip(0)!Index
  /\ UNCHANGED <<runVars, fileVars, fetches, rangerVars>>

(* r.ReadAt(p, off) with a buffer of len bytes: it begins, and it returns. *)
Begins(a, off, len) ==
  /\ Gsip(0)!Call(a)
  /\ call'[a].off = off /\ call'[a].len = len
  /\ fetches' = [fetches EXCEPT ![a] = 0]
  /\ UNCHANGED rangerVars

Returns(a) ==
  /\ st[a] = "idle"
  /\ \E size \in Sizes : size = tar.size /\ Gsip(size)!Return(a)
  /\ UNCHANGED <<fetches, rangerVars>>

---------------------------------------------------------------------------
(* run up to tarfs.New *)

(* http.Head, or os.Open and Stat. *)
Stat ==
  /\ phase = "stat"
  /\ \/ phase' = "newReader" /\ UNCHANGED faults
     \/ phase' = "failed" /\ faults < MaxFaults /\ faults' = faults + 1
  /\ UNCHANGED <<tar, remote, n, files, fileVars, fetches, gsipVars, uri, st, held, ret>>

HeaderUnread == TRUE   \* mutant of HeaderRead: it is read when it is needed
HeaderRead == remote => fetches[Opener] > 0

(* gsip.NewReader returns when it has read the first header.               *)
NewReader ==
  /\ phase = "newReader" /\ st[Opener] = "idle"
  /\ HeaderRead
  /\ phase' = "header"
  /\ UNCHANGED <<tar, remote, n, files, fileVars, fetches, gsipVars, rangerVars>>

---------------------------------------------------------------------------
(* tarfs.New: archive/tar's Next over a SectionReader of the whole tar     *)

(* What run passes as the size of the tar. *)
Limit == IF remote THEN tar.length ELSE MaxInt

Scanning == {"header", "data", "padding", "zeros"}

Wanted ==
  CASE phase \in {"header", "zeros"} -> Block
    [] phase = "data"                -> Last(files).size
    [] OTHER                         -> Padding(Last(files).size)

Available == Max({0, Min({Wanted, Limit - n})})

CountedBuffer(got) == n + Wanted   \* mutant of Counted: cr.n += len(p)
Counted(got) == n + got

\* Mutant of Ended: the padding must be there.
EndedUnpadded(got, err) == err \in {"nil", "EOF"} /\ got = 0 /\ phase \in {"header", "zeros"}

Ended(got, err) ==
  err \in {"nil", "EOF"} /\ (phase = "padding" \/ (got = 0 /\ phase # "data"))

GoesOn == phase   \* mutant of Failure: an error is passed over
Failure == "failed"

(* Next goes on with a full buffer, ends with io.EOF between two entries,  *)
(* behind the data of one or before the second block of zeros, and fails   *)
(* if anything is cut off.                                                 *)
Scan(got, err) ==
  LET full  == got = Wanted
      more  == Len(files) < Len(tar.data)
  IN  /\ n' = Counted(got)
      /\ phase' = CASE full /\ phase = "header"  -> IF more THEN "data" ELSE "zeros"
                    [] full /\ phase = "data"    -> "padding"
                    [] full /\ phase = "padding" -> "header"
                    [] full /\ phase = "zeros"   -> "ready"
                    [] ~full /\ Ended(got, err)  -> "ready"
                    [] OTHER                     -> Failure
      /\ files' = IF full /\ phase = "header" /\ more
                    THEN Append(files, [offset |-> n', size |-> tar.data[Len(files) + 1]])
                    ELSE files

(* Nothing is asked of gsip: nothing is wanted, or the SectionReader is at *)
(* its end.                                                                *)
ScanNothing ==
  /\ phase \in Scanning /\ ~busy[Opener] /\ Available = 0
  /\ Scan(0, "nil")
  /\ UNCHANGED <<tar, remote, fileVars, fetches, gsipVars, rangerVars>>

ScanBegins ==
  /\ phase \in Scanning /\ Available > 0
  /\ Begins(Opener, n, Available)
  /\ UNCHANGED <<runVars, fileVars>>

ScanReturns ==
  /\ phase \in Scanning
  /\ Returns(Opener)
  /\ Scan(Len(call'[Opener].data), call'[Opener].err)
  /\ UNCHANGED <<tar, remote, fileVars>>

---------------------------------------------------------------------------
(* Files.  Each reader has a File of its own. *)

Ready(c) == phase = "ready" /\ ~busy[c] /\ sr[c].file > 0

Bounded == reads < MaxReads /\ reads' = reads + 1

Open(c) ==
  /\ phase = "ready" /\ sr[c].file = 0
  /\ \E i \in DOMAIN files : sr' = [sr EXCEPT ![c].file = i]
  /\ UNCHANGED <<runVars, op, reads, fetches, gsipVars, rangerVars>>

Entry(c) == files[sr[c].file]

(* A target before the start of the file is an error. *)
Seek(c) ==
  /\ Ready(c) /\ Bounded
  /\ \E s \in SeekTo, whence \in {0, sr[c].off, Entry(c).size} :
       /\ whence + s >= 0
       /\ sr' = [sr EXCEPT ![c].off = whence + s]
  /\ UNCHANGED <<runVars, op, fetches, gsipVars, rangerVars>>

SectionWhole(c, at, len) == len   \* mutant of Section: the file does not end
Section(c, at, len) == Min({len, Entry(c).size - at})

(* A Read, or a ReadAt at at, of len bytes: within the file it becomes a   *)
(* ReadAt of as many bytes as the file has, past it it is io.EOF.          *)
Operation(c, kind, at, len) ==
  /\ Ready(c) /\ Bounded
  /\ IF at >= Entry(c).size
       THEN /\ op' = [op EXCEPT ![c] = [NoOp EXCEPT !.kind = kind, !.at = at, !.len = len, !.err = "EOF"]]
            /\ UNCHANGED <<fetches, gsipVars, rangerVars>>
       ELSE /\ op' = [op EXCEPT ![c] = [NoOp EXCEPT !.kind = kind, !.at = at, !.len = len]]
            /\ Begins(c, Entry(c).offset + at, Section(c, at, len))
  /\ UNCHANGED <<runVars, sr>>

Read(c) == \E len \in ReadLens : Operation(c, "Read", sr[c].off, len)
ReadAt(c) == \E len \in ReadLens, at \in SeekTo \cap Nat : Operation(c, "ReadAt", at, len)

(* ReadAt adds io.EOF when it has cut the buffer; Read moves on.           *)
Return(c) ==
  /\ Returns(c)
  /\ LET r   == call'[c]
         cut == op[c].kind = "ReadAt" /\ r.len < op[c].len
     IN  /\ op' = [op EXCEPT ![c].data = r.data,
                             ![c].err = IF cut /\ r.err = "nil" THEN "EOF" ELSE r.err]
         /\ sr' = [sr EXCEPT ![c].off = IF op[c].kind = "Read" THEN @ + Len(r.data) ELSE @]
  /\ UNCHANGED <<runVars, reads>>

---------------------------------------------------------------------------
Decompress(a) == FileFails(a) \/ Fetch(a) \/ Request(a) \/ Fetched(a)

Opening == Stat \/ NewReader \/ ScanNothing \/ ScanBegins \/ ScanReturns
Use(c) == Open(c) \/ Seek(c) \/ Read(c) \/ ReadAt(c)

Next ==
  \/ Opening \/ Index
  \/ \E a \in Actor : Decompress(a)
  \/ \E c \in Readers : Use(c) \/ Return(c)

Spec == Init /\ [][Next]_vars

(* The Opener and a call that has begun go on; nobody has to read a file.  *)
FairSpec ==
  /\ Spec
  /\ WF_vars(Opening \/ Decompress(Opener))
  /\ \A c \in Readers : WF_vars(Return(c) \/ Decompress(c))

---------------------------------------------------------------------------
(* Properties *)

TypeOK ==
  /\ tar \in Archives /\ remote \in BOOLEAN /\ n \in 0..tar.size
  /\ phase \in Scanning \cup {"stat", "newReader", "ready", "failed"}
  /\ Len(files) <= Len(tar.data)
  /\ \A c \in Readers : sr[c].file \in 0..Len(files) /\ sr[c].off \in Nat
  /\ \A c \in Readers : op[c].kind \in {"none", "Read", "ReadAt"} /\ reads \in 0..MaxReads
  /\ fetches \in [Actor -> 0..MaxFetches]
  /\ Ranger!TypeOK

(* The tar ends within a header, within a file or between the two blocks   *)
(* of zeros.                                                               *)
Truncated(a) ==
  \/ \E i \in DOMAIN a.data : a.size > EntriesEnd(a, i - 1) /\ a.size < DataEnd(a, i)
  \/ LET end == EntriesEnd(a, Len(a.data))
     IN  a.size > end /\ a.size < end + 2 * Block /\ a.size # end + Block

Early == \E a \in Actor : call[a].early /\ call[a].err = "notFound"

(* When run has its FS, that lists every file the stream has, where it is; *)
(* it has none only if the compressed file could not be read, if a ReadAt  *)
(* came before the first checkpoint, or if the tar is cut off              *)
(* (tarfs.go:317-349, main.go:23-66).                                      *)
ListsAll ==
  /\ phase = "ready" =>
       files = [i \in 1..Cardinality({k \in DOMAIN tar.data : DataEnd(tar, k) <= tar.size}) |->
                  [offset |-> DataStart(tar, i), size |-> tar.data[i]]]
  /\ phase = "failed" => faults > 0 \/ ret[Opener] # "nil" \/ Early \/ Truncated(tar)

(* From the compressed file to the reader of a file: a Read or a ReadAt    *)
(* returns the file's bytes from the cursor or the offset on and none of   *)
(* its neighbours', all that were asked for unless there is an error, and  *)
(* io.EOF only at the end of the file; any other error means that the      *)
(* compressed file has failed or that the call came too early              *)
(* (tarfs.go:81-91, 234-238; gsip.go:178-204).                             *)
FilesExact ==
  \A c \in Readers : op[c].kind # "none" /\ ~busy[c] =>
    LET got  == Len(op[c].data)
        i    == sr[c].file
        left == Max({0, tar.data[i] - op[c].at})
    IN  /\ op[c].data = [k \in 1..got |-> DataStart(tar, i) + op[c].at + k - 1]
        /\ got <= Min({left, op[c].len})
        /\ CASE op[c].err = "nil" -> got = IF op[c].kind = "Read" THEN Min({left, op[c].len}) ELSE op[c].len
             [] op[c].err = "EOF" -> got = left /\ (op[c].kind = "Read" => left = 0)
             [] OTHER             -> faulty \/ (call[c].early /\ op[c].err = "notFound")

(* No ReadAt of ranger follows a redirect, and stores r.uri, while another *)
(* one may load it: gsip.NewReader has read the header, and with it found  *)
(* the URL that answers, before anyone else has the Reader                 *)
(* (ranger.go:29, 60; gsip.go:67).                                         *)
NoRace == Ranger!NoRace

(* run gets to its end, and every Read and ReadAt of a file returns,       *)
(* through all requests and redirects.                                     *)
CallsReturn ==
  /\ <>(phase \in {"ready", "failed"})
  /\ \A c \in Readers : busy[c] ~> ~busy[c]
=============================================================================
