---------------------------- MODULE TargzProofs -----------------------------
(***************************************************************************)
(* Proofs about the composed program (Targz.tla), for every archive, any   *)
(* number of readers, every chain of redirects and any failures of the     *)
(* file or of the servers: following redirects is free of races; and the   *)
(* FS that run makes lists the archive's files where they are, and their   *)
(* readers get their bytes.                                                *)
(***************************************************************************)
EXTENDS Targz, Induction, FiniteSetTheorems

---------------------------------------------------------------------------
(* Redirects *)

(* What one goroutine at a time does with r.uri: the words it has loaded   *)
(* are those that are there, and what it stores is one string.             *)
Follows(a) ==
  /\ st[a] \in {"idle", "load", "loaded", "sent"} => uri.ptr = uri.len
  /\ st[a] = "loaded" => held[a].ptr = uri.ptr
  /\ st[a] = "sent"   => held[a] = uri
  /\ st[a] \in {"store", "stored"} => held[a].ptr = held[a].len
  /\ st[a] = "stored" => uri.ptr = held[a].ptr

(* r.uri is at the end of the redirects, and those who have loaded it      *)
(* request what is there.                                                  *)
Settled ==
  /\ uri.ptr = uri.len /\ Answer[uri.ptr].status = "partial"
  /\ \A a \in Actor :
       /\ st[a] \in {"idle", "load", "loaded", "sent"}
       /\ st[a] = "loaded" => held[a].ptr = uri.ptr
       /\ st[a] = "sent"   => held[a] = uri

Typed ==
  /\ uri \in Ranger!Str /\ held \in [Actor -> Ranger!Str]
  /\ st \in [Actor -> Ranger!States]
  /\ ret \in [Actor -> {"nil", "refused", "transport", "short"}]
  /\ busy \in [Actor -> BOOLEAN] /\ fetches \in [Actor -> Nat]
  /\ phase \in Scanning \cup {"stat", "newReader", "ready", "failed"}

Opened == Scanning \cup {"ready"}

(* A request is made within NewReader or within gsip's ReadAt.  Until run  *)
(* has its FS nobody but the Opener reads; until gsip.NewReader has read   *)
(* the header the Opener is not in gsip's ReadAt, and r.uri is settled as  *)
(* soon as one request has been answered.                                  *)
IInv ==
  /\ Typed
  /\ phase # "ready" => \A c \in Readers : ~busy[c] /\ st[c] = "idle"
  /\ phase \in {"stat", "newReader"} => ~busy[Opener] /\ Follows(Opener)
  /\ \A a \in Actor : st[a] # "idle" => busy[a] \/ phase = "newReader"
  /\ phase = "stat" => st[Opener] = "idle" /\ fetches[Opener] = 0
  /\ phase = "newReader" /\ fetches[Opener] > 0 /\ st[Opener] = "idle" => Settled
  /\ ~remote => \A a \in Actor : st[a] = "idle"
  /\ remote /\ phase \in Opened => Settled

---------------------------------------------------------------------------
(* Requests and redirects *)

(* A step of ReadAt changes nothing of the other goroutines'. *)
LEMMA OthersStay ==
  ASSUME Typed, NEW a \in Actor, Ranger!Inside(a) \/ Ranger!Ends(a) \/ Ranger!Call(a)
  PROVE  \A c \in Actor \ {a} : st'[c] = st[c] /\ held'[c] = held[c]
<1>. USE DEF Typed, Ranger!Goes
<1>1. CASE Ranger!Inside(a)
  BY <1>1 DEF Ranger!Inside, Ranger!LoadPtr, Ranger!LoadLen, Ranger!Moved, Ranger!StorePtr, Ranger!StoreLen
<1>2. CASE Ranger!Ends(a)
  BY <1>2 DEF Ranger!Ends, Ranger!Partial, Ranger!Refused, Ranger!Fails, Ranger!Returns
<1>3. CASE Ranger!Call(a)
  BY <1>3 DEF Ranger!Call
<1>. QED  BY <1>1, <1>2, <1>3

(* The words of r.uri and of what is held are words of URLs. *)
RangerTyped ==
  /\ uri \in Ranger!Str /\ held \in [Actor -> Ranger!Str] /\ st \in [Actor -> Ranger!States]
  /\ ret \in [Actor -> {"nil", "refused", "transport", "short"}]

(* A step of ranger.ReadAt that does not end it keeps ranger's state typed.*)
LEMMA TypedInside ==
  ASSUME Typed, NEW a \in Actor, Ranger!Inside(a)
  PROVE  RangerTyped'
<1>. USE UrlAssumption DEF Typed, RangerTyped, Ranger!Str, Ranger!States, Ranger!Goes
<1>1. CASE Ranger!LoadPtr(a)  BY <1>1 DEF Ranger!LoadPtr
<1>2. CASE Ranger!LoadLen(a)  BY <1>2 DEF Ranger!LoadLen
<1>3. CASE Ranger!Moved(a)
  <2>1. Ranger!Requested(a) \in Url
    BY <1>3 DEF Ranger!Moved, Ranger!Answers
  <2>2. Ranger!Whole(Answer[Ranger!Requested(a)].to) \in Ranger!Str
    BY <2>1 DEF Ranger!Whole
  <2>. QED  BY <1>3, <2>2 DEF Ranger!Moved
<1>4. CASE Ranger!StorePtr(a)  BY <1>4 DEF Ranger!StorePtr
<1>5. CASE Ranger!StoreLen(a)  BY <1>5 DEF Ranger!StoreLen
<1>. QED  BY <1>1, <1>2, <1>3, <1>4, <1>5 DEF Ranger!Inside

(* The end of a ranger.ReadAt stores nothing and leaves its caller idle.   *)
LEMMA TypedEnds ==
  ASSUME Typed, NEW a \in Actor, Ranger!Ends(a)
  PROVE  RangerTyped' /\ st' = [st EXCEPT ![a] = "idle"] /\ uri' = uri /\ held' = held
BY DEF Typed, RangerTyped, Ranger!Str, Ranger!States, Ranger!Goes, Ranger!Ends, Ranger!Partial,
       Ranger!Refused, Ranger!Fails, Ranger!Returns

(* A single goroutine follows redirects as if r.uri were its own. *)
LEMMA FollowsInside ==
  ASSUME Typed, NEW a \in Actor, Ranger!Inside(a), Follows(a)
  PROVE  Follows(a)'
<1>. USE DEF Typed, Follows, Ranger!Str, Ranger!States, Ranger!Goes
<1>1. CASE Ranger!LoadPtr(a)  BY <1>1 DEF Ranger!LoadPtr
<1>2. CASE Ranger!LoadLen(a)  BY <1>2 DEF Ranger!LoadLen
<1>3. CASE Ranger!Moved(a)  BY <1>3 DEF Ranger!Moved, Ranger!Whole
<1>4. CASE Ranger!StorePtr(a)  BY <1>4 DEF Ranger!StorePtr
<1>5. CASE Ranger!StoreLen(a)  BY <1>5 DEF Ranger!StoreLen
<1>. QED  BY <1>1, <1>2, <1>3, <1>4, <1>5 DEF Ranger!Inside

(* What is requested is what is there, and its status is the answer.       *)
LEMMA AnswerOfUri ==
  ASSUME Typed, NEW a \in Actor, held[a] = uri, uri.ptr = uri.len, NEW status, Ranger!Answers(a, status)
  PROVE  Answer[uri.ptr].status = status
<1>1. Ranger!Requested(a) = uri.ptr
  BY DEF Ranger!Requested
<1>2. uri.ptr \in Url
  BY DEF Typed, Ranger!Str
<1>. QED  BY <1>1, <1>2 DEF Ranger!Answers

(* Once the redirects have been followed, no request is redirected.        *)
LEMMA SettledInside ==
  ASSUME Typed, NEW a \in Actor, Ranger!Inside(a), Settled
  PROVE  Settled'
<1>. USE DEF Typed, Settled, Ranger!Str, Ranger!States, Ranger!Goes
<1>1. CASE Ranger!LoadPtr(a)  BY <1>1 DEF Ranger!LoadPtr
<1>2. CASE Ranger!LoadLen(a)  BY <1>2 DEF Ranger!LoadLen
<1>3. CASE Ranger!Moved(a)
  <2>1. st[a] = "sent" /\ Ranger!Answers(a, "moved")
    BY <1>3 DEF Ranger!Moved
  <2>2. Answer[uri.ptr].status = "moved"
    BY <2>1, AnswerOfUri
  <2>. QED  BY <2>2
<1>4. CASE Ranger!StorePtr(a)  BY <1>4 DEF Ranger!StorePtr
<1>5. CASE Ranger!StoreLen(a)  BY <1>5 DEF Ranger!StoreLen
<1>. QED  BY <1>1, <1>2, <1>3, <1>4, <1>5 DEF Ranger!Inside

(* The end of a ranger.ReadAt leaves r.uri settled.                        *)
LEMMA SettledEnds ==
  ASSUME Typed, NEW a \in Actor, Ranger!Ends(a), Settled
  PROVE  Settled'
BY TypedEnds DEF Typed, Settled

(* A goroutine that has had the file's bytes, and nobody else, settles it. *)
LEMMA EndsSettles ==
  ASSUME Typed, NEW a \in Actor, Ranger!Ends(a), Follows(a), ret'[a] \in {"nil", "short"},
         \A c \in Actor \ {a} : st[c] = "idle"
  PROVE  Settled'
<1>1. st[a] = "sent" /\ Ranger!Answers(a, "partial")
  BY DEF Typed, Ranger!Ends, Ranger!Partial, Ranger!Refused, Ranger!Fails, Ranger!Returns, Ranger!Goes
<1>2. Answer[uri.ptr].status = "partial" /\ uri.ptr = uri.len
  BY <1>1, AnswerOfUri DEF Follows
<1>. QED  BY <1>2, TypedEnds DEF Settled, Typed

---------------------------------------------------------------------------
(* The invariant *)

(* Before run asks for the file's size nobody reads.                       *)
LEMMA InitIInv == Init => IInv
<1>. SUFFICES ASSUME Init PROVE IInv
  OBVIOUS
<1>. USE ArchivesAssumption, UrlAssumption
         DEF Init, Gsip!Init, Ranger!Init, Ranger!Whole, Ranger!Str, Ranger!States, Actor
<1>1. Typed
  BY DEF Typed
<1>2. Follows(Opener)
  BY DEF Follows
<1>. QED  BY <1>1, <1>2 DEF IInv, Opened, Scanning

(* A request of the ranger, in NewReader or in a ReadAt.                   *)
LEMMA RequestStep == ASSUME IInv, NEW a \in Actor, Request(a) PROVE IInv'
<1>. USE DEF Request
<1>1. Ranger!Inside(a) /\ Typed /\ UNCHANGED <<runVars, fetches, gsipVars>>
  BY DEF IInv
<1>2. Typed'
  BY <1>1, TypedInside DEF Typed, RangerTyped, runVars, gsipVars
<1>3. st[a] # "idle" /\ st'[a] # "idle" /\ \A c \in Actor \ {a} : st'[c] = st[c]
  BY <1>1, OthersStay DEF Ranger!Inside, Ranger!LoadPtr, Ranger!LoadLen, Ranger!Moved, Ranger!StorePtr,
     Ranger!StoreLen, Ranger!Goes, Typed
<1>4. Follows(a) => Follows(a)'
  BY <1>1, FollowsInside
<1>5. Settled => Settled'
  BY <1>1, SettledInside
<1>6. phase # "ready" => a = Opener
  BY <1>3 DEF IInv, Actor
<1>. QED
  BY <1>1, <1>2, <1>3, <1>4, <1>5, <1>6, ArchivesAssumption
     DEF IInv, Actor, runVars, gsipVars, Opened, Scanning

(* A request that has been answered, or has failed. *)
LEMMA FetchedStep == ASSUME IInv, NEW a \in Actor, Fetched(a) PROVE IInv'
<1>1. Ranger!Ends(a) /\ Typed /\ UNCHANGED <<tar, remote, n, files, fetches>>
  BY DEF IInv, Fetched
<1>2. RangerTyped' /\ st' = [st EXCEPT ![a] = "idle"] /\ uri' = uri /\ held' = held
  BY <1>1, TypedEnds
<1>3. st[a] = "sent"
  BY <1>1 DEF Ranger!Ends, Ranger!Partial, Ranger!Refused, Ranger!Fails, Ranger!Returns, Ranger!Goes
<1>4. busy' = busy /\ phase' \in {phase, "failed"} /\ (busy[a] => phase' = phase)
  BY DEF Fetched, Faulted, Gsip!Fault, gsipVars
<1>5. Typed'
  BY <1>1, <1>2, <1>4 DEF Typed, RangerTyped
<1>6. phase # "ready" => a = Opener
  BY <1>3 DEF IInv, Actor
<1>7. Settled => Settled'
  BY <1>1, SettledEnds
<1>8. ASSUME phase' # "failed", phase = "newReader" PROVE Settled' /\ Follows(Opener)'
  <2>1. a = Opener /\ ~busy[a] /\ Follows(a) /\ \A c \in Actor \ {a} : st[c] = "idle"
    BY <1>6, <1>8 DEF IInv, Actor
  <2>2. ret'[a] \in {"nil", "short"}
    BY <1>8, <2>1 DEF Fetched, Faulted
  <2>3. Settled'
    BY <1>1, <2>1, <2>2, EndsSettles
  <2>4. Follows(Opener)'
    BY <2>1, <1>2, <1>3, <1>1 DEF Follows, Typed
  <2>. QED  BY <2>3, <2>4
<1>9. \A c \in Actor : st[c] = "idle" => st'[c] = "idle"
  BY <1>1, <1>2 DEF Typed
<1>10. phase # "stat" /\ (phase' # "failed" => phase' = phase)
  BY <1>3, <1>4, <1>6 DEF IInv
<1>11. \A c \in Actor : st'[c] # "idle" => busy'[c] \/ phase' = "newReader"
  BY <1>1, <1>2, <1>3, <1>4, <1>6, <1>10 DEF IInv, Typed, Actor
<1>12. phase' # "ready" => \A c \in Readers : ~busy'[c] /\ st'[c] = "idle"
  BY <1>4, <1>9, <1>10, <1>6, <1>3 DEF IInv, Actor
<1>13. phase' \in {"stat", "newReader"} => ~busy'[Opener] /\ Follows(Opener)'
  BY <1>4, <1>8, <1>10 DEF IInv
<1>14. remote' /\ phase' \in Opened => Settled'
  BY <1>1, <1>7, <1>10 DEF IInv, Opened, Scanning
<1>15. ~remote' => \A c \in Actor : st'[c] = "idle"
  BY <1>1, <1>9 DEF IInv
<1>. QED
  BY <1>1, <1>5, <1>8, <1>10, <1>11, <1>12, <1>13, <1>14, <1>15 DEF IInv

(* A request begins: r.uri and what others have loaded stay.               *)
LEMMA FetchStep == ASSUME IInv, NEW a \in Actor, Fetch(a) PROVE IInv'
<1>1. /\ remote /\ st[a] = "idle" /\ st' = [st EXCEPT ![a] = "load"]
      /\ UNCHANGED <<runVars, uri, held, ret, gsipVars>> /\ Typed
      /\ fetches' = [fetches EXCEPT ![a] = @ + 1]
      /\ (busy[a] \/ (a = Opener /\ phase = "newReader"))
  BY DEF Fetch, Ranger!Call, Ranger!Goes, Decompressing, IInv
<1>2. Typed'
  BY <1>1 DEF Typed, Ranger!States, runVars, gsipVars
<1>3. phase # "ready" => a = Opener
  BY <1>1 DEF IInv, Actor
<1>4. Follows(Opener) => Follows(Opener)'
  BY <1>1, ArchivesAssumption DEF Follows, Typed, Actor
<1>5. Settled => Settled'
  BY <1>1 DEF Settled, Typed
<1>6. phase = "newReader" => st'[Opener] # "idle"
  BY <1>1, <1>3 DEF Typed
<1>7. phase # "stat"
  BY <1>1, <1>3 DEF IInv
<1>. QED
  BY <1>1, <1>2, <1>3, <1>4, <1>5, <1>6, <1>7, ArchivesAssumption
     DEF IInv, Actor, runVars, gsipVars, Opened, Scanning, Typed

(* Everything but the ranger, when NewReader has returned. *)
LEMMA OpenedStep ==
  ASSUME IInv, phase \in Opened, phase' \in Opened \cup {"failed"}, phase = "ready" => phase' = "ready",
         UNCHANGED <<remote, uri, st, held, ret>>,
         busy' \in [Actor -> BOOLEAN], fetches' \in [Actor -> Nat],
         \A c \in Actor : st[c] # "idle" => busy'[c],
         phase' # "ready" => \A c \in Readers : ~busy'[c]
  PROVE  IInv'
<1>1. Typed'
  BY DEF IInv, Typed, Opened
<1>2. Settled => Settled'
  BY DEF Settled
<1>. QED  BY <1>1, <1>2 DEF IInv, Opened, Scanning

(* Nothing of the invariant changes. *)
LEMMA SameStep ==
  ASSUME IInv, UNCHANGED <<remote, phase, uri, st, held, ret, busy, fetches>>
  PROVE  IInv'
BY DEF IInv, Typed, Settled, Follows

(* A ReadAt of gsip begins: ranger is not called yet.                      *)
LEMMA BeginsTyped ==
  ASSUME IInv, NEW a \in Actor, NEW off, NEW len, Begins(a, off, len)
  PROVE  /\ UNCHANGED <<uri, st, held, ret>> /\ fetches' \in [Actor -> Nat]
         /\ busy' \in [Actor -> BOOLEAN] /\ busy' = [busy EXCEPT ![a] = TRUE]
BY DEF Begins, Gsip!Call, rangerVars, IInv, Typed

(* A ReadAt of gsip returns: its call of ranger has ended.                 *)
LEMMA ReturnsTyped ==
  ASSUME IInv, NEW a \in Actor, Returns(a)
  PROVE  /\ UNCHANGED <<uri, st, held, ret, fetches>> /\ st[a] = "idle"
         /\ busy' \in [Actor -> BOOLEAN] /\ busy' = [busy EXCEPT ![a] = FALSE]
BY DEF Returns, Gsip!Return, rangerVars, IInv, Typed

(* Where archive/tar's Next may go from within the scan.                   *)
LEMMA ScanPhases ==
  ASSUME phase \in Scanning, NEW got, NEW err, Scan(got, err)
  PROVE  phase' \in Opened \cup {"failed"}
BY DEF Scan, Scanning, Opened, Failure

(* The Opener's own steps, from Head or Stat to the FS, keep it.           *)
LEMMA OpeningStep == ASSUME IInv, Opening PROVE IInv'
<1>. USE DEF Opening
<1>1. CASE Stat
  <2>1. /\ phase = "stat" /\ phase' \in {"newReader", "failed"}
        /\ UNCHANGED <<remote, uri, st, held, ret, busy, fetches>>
    BY <1>1 DEF Stat, gsipVars
  <2>2. Typed'
    BY <2>1 DEF IInv, Typed
  <2>3. Follows(Opener)'
    BY <2>1 DEF IInv, Follows
  <2>. QED  BY <2>1, <2>2, <2>3 DEF IInv, Opened, Scanning
<1>2. CASE NewReader
  <2>1. /\ phase = "newReader" /\ phase' = "header" /\ st[Opener] = "idle"
        /\ remote => fetches[Opener] > 0
        /\ UNCHANGED <<remote, uri, st, held, ret, busy, fetches>>
    BY <1>2 DEF NewReader, HeaderRead, gsipVars, rangerVars
  <2>2. Typed'
    BY <2>1 DEF IInv, Typed, Scanning
  <2>3. remote => Settled'
    BY <2>1 DEF IInv, Settled
  <2>. QED  BY <2>1, <2>2, <2>3 DEF IInv, Opened, Scanning, Actor
<1>3. CASE ScanNothing
  <2>1. phase \in Scanning /\ UNCHANGED <<remote, uri, st, held, ret, busy, fetches>>
    BY <1>3 DEF ScanNothing, gsipVars, rangerVars
  <2>2. phase' \in Opened \cup {"failed"}
    BY <1>3, <2>1, ScanPhases DEF ScanNothing
  <2>. QED  BY <2>1, <2>2, OpenedStep DEF IInv, Typed, Opened, Scanning
<1>4. CASE ScanBegins
  <2>1. phase \in Scanning /\ UNCHANGED <<remote, phase>> /\ Opener \in Actor
    BY <1>4 DEF ScanBegins, runVars, Actor
  <2>2. /\ UNCHANGED <<uri, st, held, ret>> /\ fetches' \in [Actor -> Nat]
        /\ busy' \in [Actor -> BOOLEAN] /\ busy' = [busy EXCEPT ![Opener] = TRUE]
    BY <1>4, <2>1, BeginsTyped DEF ScanBegins
  <2>3. \A c \in Actor : c # Opener => busy'[c] = busy[c]
    BY <2>2 DEF IInv, Typed
  <2>4. busy'[Opener]
    BY <2>1, <2>2 DEF IInv, Typed
  <2>. QED
    BY <2>1, <2>2, <2>3, <2>4, OpenedStep, ArchivesAssumption DEF IInv, Opened, Scanning, Actor
<1>5. CASE ScanReturns
  <2>1. phase \in Scanning /\ UNCHANGED remote /\ Opener \in Actor
    BY <1>5 DEF ScanReturns, Actor
  <2>2. /\ UNCHANGED <<uri, st, held, ret, fetches>> /\ st[Opener] = "idle"
        /\ busy' \in [Actor -> BOOLEAN] /\ busy' = [busy EXCEPT ![Opener] = FALSE]
    BY <1>5, <2>1, ReturnsTyped DEF ScanReturns
  <2>3. phase' \in Opened \cup {"failed"}
    BY <1>5, <2>1, ScanPhases DEF ScanReturns
  <2>4. \A c \in Actor : c # Opener => busy'[c] = busy[c]
    BY <2>2 DEF IInv, Typed
  <2>5. fetches' \in [Actor -> Nat]
    BY <2>2 DEF IInv, Typed
  <2>. QED
    BY <2>1, <2>2, <2>3, <2>4, <2>5, OpenedStep, ArchivesAssumption DEF IInv, Opened, Scanning, Actor
<1>. QED  BY <1>1, <1>2, <1>3, <1>4, <1>5

(* The readers of files, who only begin when run has its FS. *)
LEMMA ReaderStep == ASSUME IInv, NEW c \in Readers, Use(c) \/ Return(c) PROVE IInv'
<1>. USE DEF Use
<1>. c \in Actor
  BY DEF Actor
<1>1. CASE Open(c) \/ Seek(c)
  BY <1>1, SameStep DEF Open, Seek, runVars, gsipVars, rangerVars
<1>2. ASSUME NEW kind, NEW at, NEW len, Operation(c, kind, at, len) PROVE IInv'
  <2>1. phase = "ready" /\ UNCHANGED <<remote, phase>>
    BY <1>2 DEF Operation, Ready, runVars
  <2>2. CASE at >= Entry(c).size
    BY <1>2, <2>1, <2>2, SameStep DEF Operation, gsipVars, rangerVars
  <2>3. CASE ~(at >= Entry(c).size)
    <3>1. Begins(c, Entry(c).offset + at, Section(c, at, len))
      BY <1>2, <2>3 DEF Operation
    <3>2. /\ UNCHANGED <<uri, st, held, ret>> /\ fetches' \in [Actor -> Nat]
          /\ busy' \in [Actor -> BOOLEAN] /\ busy' = [busy EXCEPT ![c] = TRUE]
      BY <3>1, BeginsTyped
    <3>3. \A a \in Actor : busy[a] => busy'[a]
      BY <3>2 DEF IInv, Typed
    <3>. QED  BY <2>1, <3>2, <3>3, OpenedStep DEF IInv, Opened
  <2>. QED  BY <2>2, <2>3
<1>3. CASE Read(c) \/ ReadAt(c)
  BY <1>2, <1>3 DEF Read, ReadAt
<1>4. CASE Return(c)
  <2>1. UNCHANGED <<remote, phase>>
    BY <1>4 DEF Return, runVars
  <2>2. /\ UNCHANGED <<uri, st, held, ret, fetches>> /\ st[c] = "idle"
        /\ busy' \in [Actor -> BOOLEAN] /\ busy' = [busy EXCEPT ![c] = FALSE]
    BY <1>4, ReturnsTyped DEF Return
  <2>3. busy[c] /\ phase = "ready"
    BY <1>4 DEF Return, Returns, Gsip!Return, IInv
  <2>4. \A a \in Actor : a # c => busy'[a] = busy[a]
    BY <2>2 DEF IInv, Typed
  <2>. QED  BY <2>1, <2>2, <2>3, <2>4, OpenedStep DEF IInv, Typed, Opened
<1>. QED  BY <1>1, <1>3, <1>4

(* A read of a local file that fails, and the indexing goroutine. *)
LEMMA FileFailsStep == ASSUME IInv, NEW a \in Actor, FileFails(a) PROVE IInv'
<1>1. /\ ~remote /\ UNCHANGED <<remote, uri, st, held, ret, busy, fetches>>
      /\ phase' \in {phase, "failed"} /\ (phase' # phase => ~busy[a])
      /\ busy[a] \/ (a = Opener /\ phase = "newReader")
  BY DEF FileFails, Decompressing, Faulted, Gsip!Fault, gsipVars
<1>2. CASE phase' = phase
  BY <1>1, <1>2, SameStep
<1>3. CASE phase' # phase
  <2>1. phase = "newReader" /\ phase' = "failed"
    BY <1>1, <1>3
  <2>2. Typed'
    BY <1>1, <2>1 DEF IInv, Typed
  <2>. QED  BY <1>1, <2>1, <2>2 DEF IInv, Opened, Scanning
<1>. QED  BY <1>2, <1>3

(* A first checkpoint changes nothing that the invariant is about.         *)
LEMMA IndexStep == ASSUME IInv, Index PROVE IInv'
BY SameStep DEF Index, Gsip!Index, runVars, rangerVars

(* Every step keeps the invariant.                                         *)
LEMMA NextIInv == IInv /\ [Next]_vars => IInv'
<1>. SUFFICES ASSUME IInv, [Next]_vars PROVE IInv'
  OBVIOUS
<1>1. CASE Opening  BY <1>1, OpeningStep
<1>2. CASE Index  BY <1>2, IndexStep
<1>3. CASE \E a \in Actor : Decompress(a)
  BY <1>3, FileFailsStep, FetchStep, RequestStep, FetchedStep DEF Decompress
<1>4. CASE \E c \in Readers : Use(c) \/ Return(c)
  BY <1>4, ReaderStep
<1>5. CASE UNCHANGED vars
  BY <1>5, SameStep DEF vars, runVars, gsipVars, rangerVars
<1>. QED  BY <1>1, <1>2, <1>3, <1>4, <1>5 DEF Next

(* The invariant rules out the race.                                       *)
LEMMA InvariantNoRace == IInv => NoRace
<1>. SUFFICES ASSUME IInv, NEW c \in Actor, NEW d \in Actor, c # d, st[c] \in {"store", "stored"}
              PROVE  st[d] = "idle"
  BY DEF NoRace, Ranger!NoRace
<1>1. CASE phase = "ready"
  BY <1>1 DEF IInv, Opened, Settled
<1>2. CASE phase # "ready"
  BY <1>2 DEF IInv, Actor
<1>. QED  BY <1>1, <1>2

(* The one unguarded write of ranger.ReadAt never races with another call, *)
(* in the program that gsip.NewReader and tarfs.New make of it: for any    *)
(* number of readers, redirects that the servers do not change, and        *)
(* requests that fail at any time.                                         *)
THEOREM RaceFree == Spec => []NoRace
<1>1. Init => IInv
  BY InitIInv
<1>2. IInv /\ [Next]_vars => IInv'
  BY NextIInv
<1>3. IInv => NoRace
  BY InvariantNoRace
<1>. QED  BY <1>1, <1>2, <1>3, PTL DEF Spec

---------------------------------------------------------------------------
(* Where entries lie *)

(* The smaller and the larger of two.                                      *)
LEMMA MinMax ==
  ASSUME NEW x \in Int, NEW y \in Int
  PROVE  /\ Min({x, y}) = IF x <= y THEN x ELSE y
         /\ Max({x, y}) = IF x >= y THEN x ELSE y
<1>. DEFINE m == IF x <= y THEN x ELSE y
            l == IF x >= y THEN x ELSE y
<1>1. m \in {x, y} /\ \A z \in {x, y} : m <= z
  OBVIOUS
<1>2. \A w \in {x, y} : (\A z \in {x, y} : w <= z) => w = m
  OBVIOUS
<1>3. l \in {x, y} /\ \A z \in {x, y} : l >= z
  OBVIOUS
<1>4. \A w \in {x, y} : (\A z \in {x, y} : w >= z) => w = l
  OBVIOUS
<1>. HIDE DEF m, l
<1>5. Min({x, y}) = m
  BY <1>1, <1>2 DEF Min
<1>6. Max({x, y}) = l
  BY <1>3, <1>4 DEF Max
<1>. QED  BY <1>5, <1>6 DEF m, l

(* Nothing is less than nothing.                                           *)
LEMMA MaxZero ==
  ASSUME NEW z \in Int
  PROVE  /\ z <= 0 => Max({0, z}) = 0
         /\ z >= 0 => Max({0, z}) = z
<1>1. 0 \in Int
  OBVIOUS
<1>2. Max({0, z}) = IF 0 >= z THEN 0 ELSE z
  BY <1>1, MinMax
<1>. QED  BY <1>2

(* Padding is a number of bytes.                                           *)
LEMMA PaddingTyped == ASSUME NEW size \in Nat PROVE Padding(size) \in Nat
<1>1. -size \in Int /\ Block \in Nat \ {0}
  BY ArchivesAssumption
<1>. QED  BY <1>1 DEF Padding

(* The equations of EntriesEnd.                                            *)
LEMMA EntriesEquations ==
  ASSUME NEW a \in Archives
  PROVE  /\ EntriesEnd(a, 0) = 0
         /\ \A i \in 0..Len(a.data) : EntriesEnd(a, i) \in Nat
         /\ \A i \in 1..Len(a.data) :
              EntriesEnd(a, i) = EntriesEnd(a, i - 1) + Block + a.data[i] + Padding(a.data[i])
<1>. DEFINE L == Len(a.data)
            Size(i) == IF i \in 1..L THEN Block + a.data[i] + Padding(a.data[i]) ELSE 0
            g == [x \in Nat \X Nat |-> x[2] + Size(x[1] + 1)]
            Is(E) == E = [k \in 0..L |->
                            IF k = 0 THEN 0 ELSE E[k - 1] + Block + a.data[k] + Padding(a.data[k])]
            B == CHOOSE E : Is(E)
<1>0. a.data \in Seq(Nat) /\ L \in Nat /\ Block \in Nat
  BY ArchivesAssumption
<1>1. ASSUME NEW i \in 1..L PROVE a.data[i] \in Nat /\ Padding(a.data[i]) \in Nat
  <2>1. a.data[i] \in Nat
    BY <1>0
  <2>. QED  BY <2>1, PaddingTyped
<1>2. \A i \in Nat : Size(i) \in Nat
  BY <1>0, <1>1
<1>. HIDE DEF Size
<1>3. g \in [Nat \X Nat -> Nat]
  <2>1. \A x \in Nat \X Nat : x[2] + Size(x[1] + 1) \in Nat
    BY <1>2
  <2>. QED  BY <2>1
<1>4. PICK F \in [Nat -> Nat] : IsRecursive(g, 0, F)
  <2>. HIDE DEF g
  <2>. QED  BY <1>3, RecursiveFunction
<1>. DEFINE E == [k \in 0..L |-> F[k]]
<1>5. F[0] = 0 /\ \A i \in Nat \ {0} : F[i] = F[i - 1] + Size(i)
  <2>1. F[0] = 0
    BY <1>4 DEF IsRecursive
  <2>2. ASSUME NEW i \in Nat \ {0} PROVE F[i] = F[i - 1] + Size(i)
    <3>1. <<i - 1, F[i - 1]>> \in Nat \X Nat /\ (i - 1) + 1 = i
      OBVIOUS
    <3>2. F[i] = g[<<i - 1, F[i - 1]>>]
      BY <1>4 DEF IsRecursive
    <3>. QED  BY <3>1, <3>2
  <2>. QED  BY <2>1, <2>2
<1>. HIDE DEF g
<1>6. Is(E)
  <2>1. ASSUME NEW k \in 0..L
        PROVE  F[k] = IF k = 0 THEN 0 ELSE E[k - 1] + Block + a.data[k] + Padding(a.data[k])
    <3>1. CASE k = 0
      BY <1>5, <3>1
    <3>2. CASE k # 0
      <4>0. L \in Nat
        BY <1>0
      <4>1. k \in Nat \ {0} /\ k - 1 \in 0..L /\ k \in 1..L /\ k - 1 \in Nat
        BY <3>2, <4>0
      <4>2. F[k] = F[k - 1] + Size(k) /\ E[k - 1] = F[k - 1]
        BY <1>5, <4>1
      <4>3. Size(k) = Block + a.data[k] + Padding(a.data[k])
        BY <4>1 DEF Size
      <4>4. F[k - 1] \in Nat
        BY <1>4, <4>1
      <4>5. a.data[k] \in Nat /\ Padding(a.data[k]) \in Nat /\ Block \in Nat
        BY <1>0, <1>1, <4>1
      <4>6. F[k] = F[k - 1] + (Block + a.data[k] + Padding(a.data[k]))
        BY <4>2, <4>3
      <4>7. F[k] = F[k - 1] + Block + a.data[k] + Padding(a.data[k])
        <5>1. PICK f \in Nat, b \in Nat, d \in Nat, p \in Nat :
                f = F[k - 1] /\ b = Block /\ d = a.data[k] /\ p = Padding(a.data[k])
          BY <4>4, <4>5
        <5>2. F[k] = f + (b + d + p)
          BY <4>6, <5>1
        <5>3. f + (b + d + p) = f + b + d + p
          OBVIOUS
        <5>. QED  BY <5>1, <5>2, <5>3
      <4>. QED  BY <3>2, <4>2, <4>7
    <3>. QED  BY <3>1, <3>2
  <2>. QED  BY <2>1
<1>. HIDE DEF E
<1>7. Is(B)
  BY <1>6
<1>. HIDE DEF B
<1>8. \A i : EntriesEnd(a, i) = B[i]
  BY DEF B, EntriesEnd
<1>9. B[0] = 0
  BY <1>0, <1>7
<1>10. \A i \in 1..L : B[i] = B[i - 1] + Block + a.data[i] + Padding(a.data[i])
  <2>. TAKE i \in 1..L
  <2>1. i \in 0..L /\ i # 0
    BY <1>0
  <2>. QED  BY <1>7, <2>1
<1>11. \A i \in 0..L : B[i] \in Nat
  <2>. DEFINE S == {i \in Nat : i <= L => B[i] \in Nat}
  <2>1. 0 \in S
    BY <1>9
  <2>2. ASSUME NEW i \in Nat, i \in S PROVE i + 1 \in S
    <3>. SUFFICES ASSUME i + 1 <= L PROVE B[i + 1] \in Nat
      OBVIOUS
    <3>0. L \in Nat
      BY <1>0
    <3>1. i + 1 \in 1..L /\ (i + 1) - 1 = i /\ B[i] \in Nat
      <4>1. i <= L
        BY <3>0
      <4>2. B[i] \in Nat
        BY <2>2, <4>1
      <4>. HIDE DEF S
      <4>. QED  BY <3>0, <4>2
    <3>2. B[i + 1] = B[(i + 1) - 1] + Block + a.data[i + 1] + Padding(a.data[i + 1])
      BY <1>10, <3>1
    <3>3. a.data[i + 1] \in Nat /\ Padding(a.data[i + 1]) \in Nat /\ Block \in Nat
      BY <1>0, <1>1, <3>1
    <3>4. B[i + 1] = B[i] + Block + a.data[i + 1] + Padding(a.data[i + 1])
      BY <3>1, <3>2
    <3>5. PICK f \in Nat, b \in Nat, d \in Nat, p \in Nat :
            f = B[i] /\ b = Block /\ d = a.data[i + 1] /\ p = Padding(a.data[i + 1])
      BY <3>1, <3>3
    <3>6. B[i + 1] = f + b + d + p
      BY <3>4, <3>5
    <3>. QED  BY <3>6
  <2>. HIDE DEF S
  <2>3. Nat \subseteq S
    BY <2>1, <2>2, Induction
  <2>. QED  BY <1>0, <2>3 DEF S
<1>. QED  BY <1>8, <1>9, <1>10, <1>11

(* An entry's header, data and padding, one behind the other.              *)
LEMMA EntryLies ==
  ASSUME NEW a \in Archives, NEW i \in 1..Len(a.data)
  PROVE  /\ a.data[i] \in Nat /\ Padding(a.data[i]) \in Nat /\ Block \in Nat \ {0} /\ i - 1 \in 0..Len(a.data)
         /\ EntriesEnd(a, i - 1) \in Nat /\ EntriesEnd(a, i) \in Nat
         /\ DataStart(a, i) = EntriesEnd(a, i - 1) + Block
         /\ DataEnd(a, i) = DataStart(a, i) + a.data[i]
         /\ EntriesEnd(a, i) = DataEnd(a, i) + Padding(a.data[i])
<1>1. a.data \in Seq(Nat) /\ Len(a.data) \in Nat /\ Block \in Nat \ {0}
  BY ArchivesAssumption
<1>2. a.data[i] \in Nat /\ Padding(a.data[i]) \in Nat
  <2>1. a.data[i] \in Nat
    BY <1>1
  <2>. QED  BY <2>1, PaddingTyped
<1>3. i - 1 \in 0..Len(a.data) /\ i \in 0..Len(a.data)
  BY <1>1
<1>4. /\ EntriesEnd(a, i - 1) \in Nat /\ EntriesEnd(a, i) \in Nat
      /\ EntriesEnd(a, i) = EntriesEnd(a, i - 1) + Block + a.data[i] + Padding(a.data[i])
  BY <1>3, EntriesEquations
<1>. QED  BY <1>1, <1>2, <1>3, <1>4 DEF DataStart, DataEnd

(* Entries lie in the order of their numbers.                              *)
LEMMA EntriesInOrder ==
  ASSUME NEW a \in Archives, NEW i \in 0..Len(a.data), NEW j \in 0..Len(a.data), i <= j
  PROVE  EntriesEnd(a, i) <= EntriesEnd(a, j)
<1>. DEFINE S == {k \in Nat : i + k <= Len(a.data) => EntriesEnd(a, i) <= EntriesEnd(a, i + k)}
<1>0. Len(a.data) \in Nat /\ EntriesEnd(a, i) \in Nat
  BY ArchivesAssumption, EntriesEquations
<1>1. 0 \in S
  BY <1>0
<1>2. ASSUME NEW k \in Nat, k \in S PROVE k + 1 \in S
  <2>. SUFFICES ASSUME i + (k + 1) <= Len(a.data) PROVE EntriesEnd(a, i) <= EntriesEnd(a, i + (k + 1))
    OBVIOUS
  <2>. DEFINE l == i + (k + 1)
  <2>1. l \in 1..Len(a.data) /\ l - 1 = i + k /\ i + k <= Len(a.data)
    BY <1>0
  <2>2. EntriesEnd(a, i) <= EntriesEnd(a, l - 1)
    BY <1>2, <2>1
  <2>. HIDE DEF l
  <2>3. EntriesEnd(a, l - 1) <= EntriesEnd(a, l) /\ EntriesEnd(a, l - 1) \in Nat /\ EntriesEnd(a, l) \in Nat
    <3>1. /\ a.data[l] \in Nat /\ Padding(a.data[l]) \in Nat /\ Block \in Nat
          /\ EntriesEnd(a, l - 1) \in Nat /\ EntriesEnd(a, l) \in Nat
          /\ EntriesEnd(a, l) = ((EntriesEnd(a, l - 1) + Block) + a.data[l]) + Padding(a.data[l])
      BY <2>1, EntryLies
    <3>. QED  BY ONLY <3>1
  <2>4. EntriesEnd(a, i) <= EntriesEnd(a, l)
    BY <1>0, <2>2, <2>3
  <2>. QED  BY <2>4 DEF l
<1>. HIDE DEF S
<1>3. Nat \subseteq S
  BY <1>1, <1>2, Induction
<1>4. j - i \in S /\ i + (j - i) = j
  BY <1>0, <1>3
<1>. QED  BY <1>0, <1>4 DEF S

(* An entry ends before the data of those behind it.                       *)
LEMMA DataInOrder ==
  ASSUME NEW a \in Archives, NEW i \in 0..Len(a.data), NEW j \in 1..Len(a.data), i < j
  PROVE  EntriesEnd(a, i) + Block <= DataEnd(a, j) /\ DataEnd(a, j) \in Nat
<1>1. i <= j - 1 /\ i \in Nat /\ EntriesEnd(a, i) \in Nat
  BY EntriesEquations
<1>2. /\ j - 1 \in 0..Len(a.data) /\ DataEnd(a, j) = (EntriesEnd(a, j - 1) + Block) + a.data[j]
      /\ EntriesEnd(a, j - 1) \in Nat /\ a.data[j] \in Nat /\ Block \in Nat
  BY EntryLies
<1>3. EntriesEnd(a, i) <= EntriesEnd(a, j - 1)
  BY <1>1, <1>2, EntriesInOrder
<1>. QED  BY <1>1, <1>2, <1>3

---------------------------------------------------------------------------
(* The inductive invariant *)

(* What is listed are the first entries of the tar.                        *)
Listed ==
  /\ tar \in Archives /\ remote \in BOOLEAN /\ n \in 0..tar.size
  /\ Len(files) \in 0..Len(tar.data)
  /\ files = [i \in 1..Len(files) |-> [offset |-> DataStart(tar, i), size |-> tar.data[i]]]

(* Where countReader is, from one call of Next to the other.               *)
Placed ==
  /\ phase \in {"stat", "newReader"} => Len(files) = 0 /\ n = 0
  /\ phase = "header"  => n = EntriesEnd(tar, Len(files))
  /\ phase = "data"    => Len(files) > 0 /\ n = DataStart(tar, Len(files))
  /\ phase = "padding" => Len(files) > 0 /\ n = DataEnd(tar, Len(files))
  /\ phase = "zeros"   => Len(files) = Len(tar.data) /\ n = EntriesEnd(tar, Len(files)) + Block
  /\ phase = "ready"   => \A i \in 1..Len(files) : DataEnd(tar, i) <= tar.size

(* The stream is no longer than what run passes for its length.            *)
Uncut == remote => tar.size <= tar.length

(* Reading the tar has stopped at its end, or has failed for a reason.     *)
Stopped ==
  /\ Uncut /\ phase = "ready" => \A i \in (Len(files) + 1)..Len(tar.data) : tar.size < DataEnd(tar, i)
  /\ phase = "failed" => ~busy[Opener]
  /\ Uncut /\ phase = "failed" => faults > 0 \/ ret[Opener] # "nil" \/ Early \/ Truncated(tar)

(* Calls of gsip's ReadAt.  The Opener's asks for what Next wants.         *)
Errors == {"nil", "EOF", "wrappedEOF", "notFound", "io"}

Calls ==
  /\ call \in [Actor -> [off : Nat, len : Nat, early : BOOLEAN, data : Seq(Nat), err : Errors]]
  /\ indexed \in BOOLEAN /\ faulty \in BOOLEAN /\ faults \in 0..MaxFaults
  /\ faulty => faults > 0
  /\ phase \in Scanning /\ busy[Opener] =>
       call[Opener].off = n /\ call[Opener].len = Available /\ Available > 0

(* A reader of a file, and what its last operation asks of gsip.           *)
FileReader(c) ==
  /\ sr[c].file \in 0..Len(files)
  /\ sr[c].file > 0 => phase = "ready"
  /\ sr[c].file = 0 => op[c].kind = "none" /\ ~busy[c]
  /\ busy[c] =>
       /\ op[c].kind # "none" /\ op[c].at < tar.data[sr[c].file]
       /\ call[c].off = DataStart(tar, sr[c].file) + op[c].at
       /\ call[c].len = Min({op[c].len, tar.data[sr[c].file] - op[c].at})

FileReaders ==
  /\ reads \in 0..MaxReads /\ fetches \in [Actor -> 0..MaxFetches]
  /\ sr \in [Readers -> [file : Nat, off : Nat]]
  /\ op \in [Readers -> [kind : {"none", "Read", "ReadAt"}, len : Nat, at : Nat,
                         data : Seq(Nat), err : Errors]]
  /\ \A c \in Readers : FileReader(c)

FInv == IInv /\ Listed /\ Placed /\ Stopped /\ Calls /\ FileReaders /\ FilesExact

(* What is known of one reader's last operation.                           *)
Exact(c) ==
  op[c].kind # "none" /\ ~busy[c] =>
    LET got  == Len(op[c].data)
        i    == sr[c].file
        left == Max({0, tar.data[i] - op[c].at})
    IN  /\ op[c].data = [k \in 1..got |-> DataStart(tar, i) + op[c].at + k - 1]
        /\ got <= Min({left, op[c].len})
        /\ CASE op[c].err = "nil" -> got = IF op[c].kind = "Read" THEN Min({left, op[c].len}) ELSE op[c].len
             [] op[c].err = "EOF" -> got = left /\ (op[c].kind = "Read" => left = 0)
             [] OTHER             -> faulty \/ (call[c].early /\ op[c].err = "notFound")

(* FilesExact says that of all.                                            *)
LEMMA ExactAll == FilesExact <=> \A c \in Readers : Exact(c)
BY DEF FilesExact, Exact

---------------------------------------------------------------------------
(* Scanning the tar *)

(* Types of what the scan works with.                                      *)
LEMMA ListedTyped ==
  ASSUME Listed
  PROVE  /\ tar.data \in Seq(Nat) /\ Len(tar.data) \in Nat /\ Len(files) \in Nat /\ Len(files) <= Len(tar.data)
         /\ tar.size \in Nat /\ tar.size < MaxInt /\ MaxInt \in Nat /\ tar.length \in Nat
         /\ n \in Nat /\ n <= tar.size /\ Block \in Nat \ {0} /\ Limit \in Nat /\ (Uncut => tar.size <= Limit)
<1>1. /\ tar.data \in Seq(Nat) /\ tar.length \in Nat /\ tar.size \in 0..(MaxInt - 1) /\ MaxInt \in Nat
      /\ Block \in Nat \ {0}
  BY ArchivesAssumption DEF Listed
<1>2. Len(tar.data) \in Nat /\ Len(files) \in 0..Len(tar.data)
  BY <1>1 DEF Listed
<1>3. tar.size \in Nat /\ tar.size < MaxInt /\ n \in 0..tar.size
  BY <1>1 DEF Listed
<1>. QED  BY <1>1, <1>2, <1>3 DEF Limit, Uncut

(* The entry Next is at, and what it wants of it.                          *)
LEMMA WantedIs ==
  ASSUME Listed, Placed, phase \in Scanning
  PROVE  /\ phase \in {"header", "zeros"} => Wanted = Block
         /\ phase \in {"data", "padding"} =>
              /\ Len(files) \in 1..Len(tar.data)
              /\ Wanted = IF phase = "data" THEN tar.data[Len(files)] ELSE Padding(tar.data[Len(files)])
         /\ Wanted \in Nat
<1>0. Block \in Nat /\ Len(files) \in Nat /\ Len(files) <= Len(tar.data) /\ Len(tar.data) \in Nat
  BY ListedTyped
<1>1. CASE phase \in {"header", "zeros"}
  BY <1>0, <1>1 DEF Wanted
<1>2. CASE phase \in {"data", "padding"}
  <2>1. Len(files) \in 1..Len(tar.data) /\ Len(files) \in 1..Len(files)
    BY <1>0, <1>2 DEF Placed
  <2>2. Last(files).size = tar.data[Len(files)]
    BY <2>1 DEF Last, Listed
  <2>3. tar.data[Len(files)] \in Nat /\ Padding(tar.data[Len(files)]) \in Nat
    BY <2>1, EntryLies DEF Listed
  <2>. QED  BY <1>2, <2>1, <2>2, <2>3 DEF Wanted
<1>. QED  BY <1>1, <1>2 DEF Scanning

(* How many bytes are asked for.                                           *)
LEMMA AvailableIs ==
  ASSUME Listed, Placed, phase \in Scanning
  PROVE  /\ Available \in Nat /\ Available <= Wanted
         /\ Available < Wanted => (IF Available = 0 THEN Limit <= n ELSE n + Available = Limit)
<1>1. Wanted \in Nat /\ Limit \in Nat /\ n \in Nat
  BY WantedIs, ListedTyped
<1>. DEFINE m == Min({Wanted, Limit - n})
<1>2. m = IF Wanted <= Limit - n THEN Wanted ELSE Limit - n
  BY <1>1, MinMax
<1>3. m \in Int
  BY <1>1, <1>2
<1>. HIDE DEF m
<1>4. Max({0, m}) = IF 0 >= m THEN 0 ELSE m
  BY <1>3, MinMax
<1>5. Available = Max({0, m})
  BY DEF Available, m
<1>. QED  BY <1>1, <1>2, <1>3, <1>4, <1>5

(* A listing grows by an entry.                                            *)
LEMMA ListingGrows ==
  ASSUME Listed, NEW e, files' = Append(files, e), UNCHANGED tar,
         e = [offset |-> DataStart(tar, Len(files) + 1), size |-> tar.data[Len(files) + 1]]
  PROVE  /\ Len(files') = Len(files) + 1
         /\ files' = [i \in 1..Len(files') |-> [offset |-> DataStart(tar, i), size |-> tar.data[i]]]
<1>. DEFINE L == Len(files)
            E(i) == [offset |-> DataStart(tar, i), size |-> tar.data[i]]
<1>1. L \in Nat /\ files = [i \in 1..L |-> E(i)]
  BY ListedTyped DEF Listed
<1>. HIDE DEF E
<1>2. files' = [i \in 1..(L + 1) |-> IF i = L + 1 THEN e ELSE files[i]]
  BY <1>1
<1>3. Len(files') = L + 1
  BY <1>1, <1>2
<1>4. \A i \in 1..(L + 1) : (IF i = L + 1 THEN e ELSE files[i]) = E(i)
  BY <1>1 DEF E
<1>5. files' = [i \in 1..(L + 1) |-> E(i)]
  BY <1>2, <1>4
<1>. QED  BY <1>3, <1>5 DEF E

(* Next reads an entry, or the end of the archive, and goes on.            *)
LEMMA ScanFull ==
  ASSUME Listed, Placed, phase \in Scanning, NEW err, Scan(Wanted, err),
         n + Wanted <= tar.size, UNCHANGED <<tar, remote>>
  PROVE  /\ Listed' /\ Placed' /\ phase' \in Scanning \cup {"ready"}
         /\ phase' = "ready" => Len(files') = Len(tar.data)
<1>. DEFINE L == Len(files)
            more == L < Len(tar.data)
<1>0. /\ L \in Nat /\ Len(tar.data) \in Nat /\ L <= Len(tar.data) /\ n \in Nat /\ tar.size \in Nat
      /\ Wanted \in Nat /\ Block \in Nat /\ tar \in Archives /\ remote \in BOOLEAN
      /\ files = [i \in 1..L |-> [offset |-> DataStart(tar, i), size |-> tar.data[i]]]
  BY ListedTyped, WantedIs DEF Listed
<1>1. n' = n + Wanted /\ n' \in 0..tar.size
  BY <1>0 DEF Scan, Counted
<1>2. CASE phase = "header" /\ more
  <2>1. /\ phase' = "data"
        /\ files' = Append(files, [offset |-> n', size |-> tar.data[L + 1]])
    BY <1>2 DEF Scan
  <2>2. L + 1 \in 1..Len(tar.data) /\ (L + 1) - 1 = L
    BY <1>0, <1>2
  <2>3. n' = DataStart(tar, L + 1)
    BY <1>0, <1>1, <1>2, <2>2, WantedIs, EntryLies DEF Placed
  <2>4. /\ Len(files') = L + 1
        /\ files' = [i \in 1..Len(files') |-> [offset |-> DataStart(tar, i), size |-> tar.data[i]]]
    BY <2>1, <2>3, ListingGrows
  <2>5. Listed'
    BY <1>0, <1>1, <2>2, <2>4 DEF Listed
  <2>6. Placed'
    BY <1>0, <2>1, <2>3, <2>4 DEF Placed
  <2>. QED  BY <2>1, <2>5, <2>6 DEF Scanning
<1>3. CASE ~(phase = "header" /\ more)
  <2>1. /\ files' = files
        /\ phase' = CASE phase = "header"  -> "zeros"
                      [] phase = "data"    -> "padding"
                      [] phase = "padding" -> "header"
                      [] phase = "zeros"   -> "ready"
    BY <1>3 DEF Scan, Scanning
  <2>2. Listed'
    BY <1>0, <1>1, <2>1 DEF Listed
  <2>3. CASE phase = "header"
    <3>1. phase' = "zeros" /\ L = Len(tar.data) /\ n = EntriesEnd(tar, L) /\ n' = n + Block
      BY <1>0, <1>1, <1>3, <2>1, <2>3, WantedIs DEF Placed
    <3>. QED  BY <2>1, <2>2, <3>1 DEF Placed, Scanning
  <2>4. CASE phase = "data"
    <3>1. phase' = "padding" /\ L \in 1..Len(tar.data) /\ n = DataStart(tar, L) /\ n' = n + tar.data[L]
      BY <1>1, <2>1, <2>4, WantedIs DEF Placed
    <3>2. n' = DataEnd(tar, L)
      BY <1>0, <3>1, EntryLies
    <3>. QED  BY <1>0, <2>1, <2>2, <3>1, <3>2 DEF Placed, Scanning
  <2>5. CASE phase = "padding"
    <3>1. phase' = "header" /\ L \in 1..Len(tar.data) /\ n = DataEnd(tar, L) /\ n' = n + Padding(tar.data[L])
      BY <1>1, <2>1, <2>5, WantedIs DEF Placed
    <3>2. n' = EntriesEnd(tar, L)
      BY <1>0, <3>1, EntryLies
    <3>. QED  BY <1>0, <2>1, <2>2, <3>1, <3>2 DEF Placed, Scanning
  <2>6. CASE phase = "zeros"
    <3>1. phase' = "ready" /\ L = Len(tar.data) /\ n = EntriesEnd(tar, L) + Block
      BY <2>1, <2>6 DEF Placed
    <3>2. ASSUME NEW i \in 1..L PROVE DataEnd(tar, i) <= tar.size
      <4>1. i \in 1..Len(tar.data) /\ i \in 0..Len(tar.data) /\ L \in 0..Len(tar.data) /\ i <= L
        BY <1>0
      <4>2. EntriesEnd(tar, i) <= EntriesEnd(tar, L) /\ EntriesEnd(tar, L) \in Nat
        BY <1>0, <4>1, EntriesInOrder, EntriesEquations
      <4>3. /\ EntriesEnd(tar, i) = DataEnd(tar, i) + Padding(tar.data[i]) /\ Padding(tar.data[i]) \in Nat
            /\ DataEnd(tar, i) \in Nat
        <5>1. EntriesEnd(tar, i) = DataEnd(tar, i) + Padding(tar.data[i]) /\ Padding(tar.data[i]) \in Nat
          BY <1>0, <4>1, EntryLies
        <5>2. 0 \in 0..Len(tar.data) /\ 0 < i
          BY <1>0
        <5>. QED  BY <1>0, <4>1, <5>1, <5>2, DataInOrder
      <4>. QED  BY <1>0, <1>1, <3>1, <4>2, <4>3
    <3>. QED  BY <1>0, <2>1, <2>2, <3>1, <3>2 DEF Placed, Scanning
  <2>. QED  BY <2>3, <2>4, <2>5, <2>6 DEF Scanning
<1>. QED  BY <1>2, <1>3

(* The data of the listed entries lie before the end of the last.          *)
LEMMA DataBefore ==
  ASSUME Listed, NEW i \in 1..Len(files)
  PROVE  /\ i \in 1..Len(tar.data) /\ DataEnd(tar, i) \in Nat
         /\ DataEnd(tar, i) <= EntriesEnd(tar, Len(files)) /\ DataEnd(tar, i) <= DataEnd(tar, Len(files))
<1>. DEFINE L == Len(files)
<1>0. L \in Nat /\ Len(tar.data) \in Nat /\ L <= Len(tar.data) /\ Block \in Nat /\ tar \in Archives
  BY ListedTyped DEF Listed
<1>1. /\ i \in 1..Len(tar.data) /\ i \in 0..Len(tar.data) /\ 0 \in 0..Len(tar.data) /\ 0 < i
      /\ L \in 0..Len(tar.data) /\ L \in 1..Len(tar.data) /\ i <= L
  BY <1>0
<1>2. /\ EntriesEnd(tar, i) = DataEnd(tar, i) + Padding(tar.data[i]) /\ Padding(tar.data[i]) \in Nat
      /\ EntriesEnd(tar, i) \in Nat /\ EntriesEnd(tar, L) \in Nat
  BY <1>0, <1>1, EntryLies
<1>3. DataEnd(tar, i) \in Nat /\ DataEnd(tar, L) \in Nat
  BY <1>0, <1>1, DataInOrder
<1>4. EntriesEnd(tar, i) <= EntriesEnd(tar, L)
  BY <1>0, <1>1, EntriesInOrder
<1>5. DataEnd(tar, i) <= DataEnd(tar, L)
  <2>1. CASE i = L
    BY <1>3, <2>1
  <2>2. CASE i # L
    <3>1. i < L
      BY <1>0, <1>1, <2>2
    <3>2. EntriesEnd(tar, i) + Block <= DataEnd(tar, L)
      BY <1>0, <1>1, <3>1, DataInOrder
    <3>. QED  BY <1>0, <1>2, <1>3, <3>2
  <2>. QED  BY <2>1, <2>2
<1>. QED  BY <1>1, <1>2, <1>3, <1>4, <1>5

(* Next meets the end of what it can read.                                 *)
LEMMA ScanShort ==
  ASSUME Listed, Placed, phase \in Scanning, NEW got \in Nat, got < Wanted, NEW err, Scan(got, err),
         n + got <= tar.size, UNCHANGED <<tar, remote>>
  PROVE  /\ Listed' /\ Placed' /\ phase' \in {"ready", "failed"}
         /\ n + got = tar.size /\ phase' = "ready" =>
              \A i \in (Len(files') + 1)..Len(tar.data) : tar.size < DataEnd(tar, i)
         /\ n + got = tar.size /\ phase' = "failed" => err \notin {"nil", "EOF"} \/ Truncated(tar)
<1>. DEFINE L == Len(files)
<1>0. /\ L \in Nat /\ Len(tar.data) \in Nat /\ L <= Len(tar.data) /\ n \in Nat /\ tar.size \in Nat
      /\ Wanted \in Nat /\ Block \in Nat \ {0} /\ tar \in Archives /\ remote \in BOOLEAN /\ L \in 0..Len(tar.data)
  BY ListedTyped, WantedIs DEF Listed
<1>1. n' = n + got /\ n' \in 0..tar.size /\ files' = files /\ got # Wanted
  BY <1>0 DEF Scan, Counted
<1>2. phase' = IF Ended(got, err) THEN "ready" ELSE "failed"
  BY <1>1 DEF Scan, Failure
<1>3. Listed'
  BY <1>0, <1>1 DEF Listed
<1>4. EntriesEnd(tar, L) \in Nat
  BY <1>0, EntriesEquations
<1>5. CASE Ended(got, err)
  <2>1. phase = "padding" \/ (phase \in {"header", "zeros"} /\ got = 0)
    BY <1>5 DEF Ended, Scanning
  <2>2. phase' = "ready"
    BY <1>2, <1>5
  <2>3. ASSUME phase = "padding"
        PROVE  L \in 1..Len(tar.data) /\ n = DataEnd(tar, L) /\ n + got < EntriesEnd(tar, L)
    <3>1. L \in 1..Len(tar.data) /\ n = DataEnd(tar, L) /\ Wanted = Padding(tar.data[L])
      BY <2>3, WantedIs DEF Placed
    <3>2. EntriesEnd(tar, L) = DataEnd(tar, L) + Padding(tar.data[L])
      BY <1>0, <3>1, EntryLies
    <3>. QED  BY <1>0, <3>1, <3>2
  <2>4. ASSUME NEW i \in 1..L PROVE DataEnd(tar, i) <= tar.size
    <3>1. /\ DataEnd(tar, i) \in Nat
          /\ DataEnd(tar, i) <= EntriesEnd(tar, L) /\ DataEnd(tar, i) <= DataEnd(tar, L)
      BY DataBefore
    <3>2. CASE phase = "padding"
      BY <1>0, <2>3, <3>1, <3>2
    <3>3. CASE phase \in {"header", "zeros"}
      <4>1. n >= EntriesEnd(tar, L)
        BY <1>0, <1>4, <3>3 DEF Placed
      <4>. QED  BY <1>0, <1>4, <3>1, <4>1
    <3>. QED  BY <2>1, <3>2, <3>3
  <2>5. Placed'
    BY <1>1, <2>2, <2>4 DEF Placed
  <2>6. ASSUME n + got = tar.size, NEW i \in (L + 1)..Len(tar.data) PROVE tar.size < DataEnd(tar, i)
    <3>1. i \in 1..Len(tar.data) /\ L < i
      BY <1>0
    <3>2. EntriesEnd(tar, L) + Block <= DataEnd(tar, i) /\ DataEnd(tar, i) \in Nat
      BY <1>0, <3>1, DataInOrder
    <3>3. CASE phase = "padding"
      BY <1>0, <1>4, <2>3, <2>6, <3>2, <3>3
    <3>4. CASE phase = "header" /\ got = 0
      <4>1. n = EntriesEnd(tar, L)
        BY <3>4 DEF Placed
      <4>. QED  BY <1>0, <1>4, <2>6, <3>2, <3>4, <4>1
    <3>5. CASE phase = "zeros"
      <4>1. L = Len(tar.data)
        BY <3>5 DEF Placed
      <4>. QED  BY <1>0, <3>1, <4>1
    <3>. QED  BY <2>1, <3>3, <3>4, <3>5
  <2>. QED  BY <1>1, <1>3, <2>2, <2>5, <2>6
<1>6. CASE ~Ended(got, err)
  <2>1. phase' = "failed"
    BY <1>2, <1>6
  <2>2. Placed'
    BY <2>1 DEF Placed
  <2>3. ASSUME n + got = tar.size, err \in {"nil", "EOF"} PROVE Truncated(tar)
    <3>1. phase = "data" \/ (phase \in {"header", "zeros"} /\ got > 0)
      BY <1>0, <1>6, <2>3 DEF Ended, Scanning
    <3>2. CASE phase = "data"
      <4>1. L \in 1..Len(tar.data) /\ n = DataStart(tar, L) /\ Wanted = tar.data[L]
        BY <3>2, WantedIs DEF Placed
      <4>2. /\ DataStart(tar, L) = EntriesEnd(tar, L - 1) + Block /\ EntriesEnd(tar, L - 1) \in Nat
            /\ DataEnd(tar, L) = DataStart(tar, L) + tar.data[L] /\ tar.data[L] \in Nat
        BY <1>0, <4>1, EntryLies
      <4>3. tar.size > EntriesEnd(tar, L - 1) /\ tar.size < DataEnd(tar, L)
        BY <1>0, <2>3, <4>1, <4>2
      <4>4. L \in DOMAIN tar.data
        BY <4>1, ListedTyped
      <4>. QED  BY <4>3, <4>4 DEF Truncated
    <3>3. CASE phase = "header" /\ got > 0
      <4>1. n = EntriesEnd(tar, L) /\ Wanted = Block
        BY <3>3, WantedIs DEF Placed
      <4>2. tar.size > EntriesEnd(tar, L) /\ tar.size < EntriesEnd(tar, L) + Block
        BY <1>0, <1>4, <2>3, <3>3, <4>1
      <4>3. CASE L = Len(tar.data)
        BY <1>0, <1>4, <4>2, <4>3 DEF Truncated
      <4>4. CASE L # Len(tar.data)
        <5>1. L + 1 \in 1..Len(tar.data) /\ (L + 1) - 1 = L /\ L < L + 1 /\ L + 1 \in DOMAIN tar.data
          BY <1>0, <4>4, ListedTyped
        <5>2. EntriesEnd(tar, L) + Block <= DataEnd(tar, L + 1) /\ DataEnd(tar, L + 1) \in Nat
          BY <1>0, <5>1, DataInOrder
        <5>3. tar.size > EntriesEnd(tar, (L + 1) - 1) /\ tar.size < DataEnd(tar, L + 1)
          BY <1>0, <1>4, <4>2, <5>1, <5>2
        <5>. QED  BY <5>1, <5>3 DEF Truncated
      <4>. QED  BY <4>3, <4>4
    <3>4. CASE phase = "zeros" /\ got > 0
      <4>1. L = Len(tar.data) /\ n = EntriesEnd(tar, L) + Block /\ Wanted = Block
        BY <3>4, WantedIs DEF Placed
      <4>2. /\ tar.size > EntriesEnd(tar, L) /\ tar.size < EntriesEnd(tar, L) + 2 * Block
            /\ tar.size # EntriesEnd(tar, L) + Block
        BY <1>0, <1>4, <2>3, <3>4, <4>1
      <4>. QED  BY <4>1, <4>2 DEF Truncated
    <3>. QED  BY <3>1, <3>2, <3>3, <3>4
  <2>. QED  BY <1>3, <2>1, <2>2, <2>3
<1>. QED  BY <1>5, <1>6

---------------------------------------------------------------------------
(* Calls of gsip *)

CallRecord == [off : Nat, len : Nat, early : BOOLEAN, data : Seq(Nat), err : Errors]

(* A call begins without results.                                          *)
LEMMA CallBegins ==
  ASSUME Typed, Calls, NEW a \in Actor, NEW off \in Nat, NEW len \in Nat, Begins(a, off, len)
  PROVE  /\ ~busy[a] /\ busy' = [busy EXCEPT ![a] = TRUE]
         /\ call' \in [Actor -> CallRecord]
         /\ call'[a].off = off /\ call'[a].len = len
         /\ \A c \in Actor : c # a => call'[c] = call[c] /\ busy'[c] = busy[c] /\ fetches'[c] = fetches[c]
         /\ busy'[a] /\ fetches'[a] = 0 /\ DOMAIN fetches' = Actor
         /\ UNCHANGED <<indexed, faulty, uri, st, held, ret, faults>>
<1>1. PICK o \in Offsets, l \in Buffers :
         call' = [call EXCEPT ![a] = [off |-> o, len |-> l, early |-> ~indexed, data |-> <<>>, err |-> "nil"]]
  BY DEF Begins, Gsip!Call, Gsip!Fresh
<1>2. call \in [Actor -> CallRecord] /\ indexed \in BOOLEAN
  BY DEF Calls, CallRecord
<1>3. /\ ~busy[a] /\ busy' = [busy EXCEPT ![a] = TRUE] /\ UNCHANGED <<indexed, faulty>>
      /\ call'[a].off = off /\ call'[a].len = len
      /\ fetches' = [fetches EXCEPT ![a] = 0] /\ UNCHANGED <<uri, st, held, ret, faults>>
  BY DEF Begins, Gsip!Call, rangerVars
<1>4. o = off /\ l = len
  BY <1>1, <1>2, <1>3
<1>5. [off |-> off, len |-> len, early |-> ~indexed, data |-> <<>>, err |-> "nil"] \in CallRecord
  <2>1. <<>> \in Seq(Nat)
    OBVIOUS
  <2>2. (~indexed) \in BOOLEAN /\ "nil" \in Errors
    BY <1>2 DEF Errors
  <2>. QED  BY <2>1, <2>2 DEF CallRecord
<1>6. call' \in [Actor -> CallRecord]
  BY <1>1, <1>2, <1>4, <1>5
<1>7. \A c \in Actor : c # a => call'[c] = call[c]
  BY <1>1, <1>2
<1>8. \A c \in Actor : c # a => busy'[c] = busy[c] /\ fetches'[c] = fetches[c]
  BY <1>3 DEF Typed
<1>9. busy'[a] /\ fetches'[a] = 0 /\ DOMAIN fetches' = Actor
  BY <1>3 DEF Typed
<1>. QED  BY <1>3, <1>6, <1>7, <1>8, <1>9

(* What a call of gsip's ReadAt that has returned k bytes promises.        *)
Promised(a, k, err) ==
  /\ err = "nil"        => k = call[a].len /\ call[a].off + k <= tar.size
  /\ err = "EOF"        => k < call[a].len /\ call[a].off + k = tar.size
  /\ err = "wrappedEOF" => k = 0 /\ call[a].off > tar.size
  /\ err = "notFound"   => k = 0 /\ call[a].early
  /\ err = "io"         => faulty /\ (k = 0 \/ call[a].off + k <= tar.size)

LEMMA CallReturns ==
  ASSUME Typed, Calls, Listed, NEW a \in Actor, Returns(a)
  PROVE  \E k \in 0..call[a].len, err \in Errors :
           /\ Promised(a, k, err)
           /\ Len(call'[a].data) = k /\ call'[a].data = [i \in 1..k |-> call[a].off + i - 1]
           /\ call'[a].err = err /\ call'[a].early = call[a].early /\ call'[a].len = call[a].len
           /\ call' \in [Actor -> CallRecord]
           /\ busy[a] /\ busy' = [busy EXCEPT ![a] = FALSE] /\ ~busy'[a]
           /\ \A c \in Actor : c # a => call'[c] = call[c] /\ busy'[c] = busy[c]
           /\ UNCHANGED <<indexed, faulty, fetches, uri, st, held, ret, faults>>
<1>0. call \in [Actor -> CallRecord] /\ call[a] \in CallRecord /\ tar.size \in Nat
  BY ListedTyped DEF Calls, CallRecord
<1>1. PICK size \in Sizes, k \in 0..call[a].len, err \in Errors :
         /\ size = tar.size /\ Gsip(size)!Allowed(call[a].off, call[a].len, call[a].early, k, err)
         /\ call' = [call EXCEPT ![a].data = [i \in 1..k |-> call[a].off + i - 1], ![a].err = err]
  <2>1. PICK size \in Sizes : size = tar.size /\ Gsip(size)!Return(a)
    BY DEF Returns
  <2>2. PICK k \in 0..call[a].len, err \in Errors :
          /\ Gsip(size)!Allowed(call[a].off, call[a].len, call[a].early, k, err)
          /\ call' = [call EXCEPT ![a].data = [i \in 1..k |-> call[a].off + i - 1], ![a].err = err]
    BY <2>1 DEF Gsip!Return, Gsip!Contents, Errors
  <2>. QED  BY <2>1, <2>2
<1>2. call[a].off \in Nat /\ call[a].len \in Nat /\ k \in Nat /\ k <= call[a].len
  <2>1. call[a].off \in Nat /\ call[a].len \in Nat
    BY <1>0 DEF CallRecord
  <2>. QED  BY <2>1
<1>3. Promised(a, k, err)
  BY <1>0, <1>1, <1>2 DEF Gsip!Allowed, Promised, Errors
<1>. DEFINE data == [i \in 1..k |-> call[a].off + i - 1]
<1>4. data \in Seq(Nat) /\ Len(data) = k
  <2>1. \A i \in 1..k : call[a].off + i - 1 \in Nat
    BY <1>2
  <2>2. data \in [1..k -> Nat]
    BY <2>1
  <2>. QED  BY <1>2, <2>2
<1>. HIDE DEF data
<1>5. call' = [call EXCEPT ![a] = [call[a] EXCEPT !.data = data, !.err = err]]
  BY <1>0, <1>1 DEF data, CallRecord
<1>6. [call[a] EXCEPT !.data = data, !.err = err] \in CallRecord
  BY <1>0, <1>4 DEF CallRecord
<1>7. call' \in [Actor -> CallRecord] /\ call'[a] = [call[a] EXCEPT !.data = data, !.err = err]
  BY <1>0, <1>5, <1>6
<1>8. \A c \in Actor : c # a => call'[c] = call[c]
  BY <1>0, <1>5
<1>9. /\ call'[a].data = data /\ call'[a].err = err /\ call'[a].early = call[a].early
      /\ call'[a].len = call[a].len
  BY <1>0, <1>7 DEF CallRecord
<1>10. /\ busy[a] /\ busy' = [busy EXCEPT ![a] = FALSE]
       /\ UNCHANGED <<indexed, faulty, fetches, uri, st, held, ret, faults>>
  BY DEF Returns, Gsip!Return, rangerVars
<1>11. ~busy'[a] /\ \A c \in Actor : c # a => busy'[c] = busy[c]
  BY <1>10 DEF Typed
<1>. QED  BY <1>3, <1>4, <1>7, <1>8, <1>9, <1>10, <1>11 DEF data

---------------------------------------------------------------------------
(* The Opener's steps *)

(* What the invariant says of readers who wait for the FS.                 *)
LEMMA ReadersWait ==
  ASSUME FInv, phase # "ready", UNCHANGED <<sr, op, reads>>, \A c \in Readers : busy'[c] = busy[c],
         fetches' \in [Actor -> 0..MaxFetches], Len(files') \in Nat
  PROVE  FileReaders' /\ FilesExact'
<1>1. \A c \in Readers : sr[c].file = 0 /\ op[c].kind = "none" /\ ~busy[c]
  <2>. TAKE c \in Readers
  <2>1. sr[c].file \in Nat /\ FileReader(c)
    BY DEF FInv, FileReaders
  <2>. QED  BY <2>1 DEF FileReader
<1>2. \A c \in Readers : FileReader(c)'
  BY <1>1 DEF FileReader
<1>3. \A c \in Readers : Exact(c)'
  BY <1>1 DEF Exact
<1>4. FileReaders'
  BY <1>2 DEF FInv, FileReaders
<1>5. FilesExact'
  BY <1>1 DEF FilesExact
<1>. QED  BY <1>4, <1>5

(* What Next wants depends on what it has read.                            *)
LEMMA AvailableSame == UNCHANGED runVars => Available' = Available
BY DEF runVars, Available, Wanted, Limit, Last

(* Head, or Stat.                                                          *)
LEMMA StatF == ASSUME FInv, Stat PROVE FInv'
<1>0. IInv'
  BY NextIInv DEF FInv, Next, Opening
<1>1. /\ phase = "stat" /\ UNCHANGED <<tar, remote, n, files, sr, op, reads, fetches, busy, call, indexed, faulty>>
      /\ \/ phase' = "newReader" /\ faults' = faults
         \/ phase' = "failed" /\ faults < MaxFaults /\ faults' = faults + 1
      /\ ~busy[Opener]
  BY DEF Stat, FInv, IInv, fileVars, gsipVars
<1>2. Listed'
  BY <1>1 DEF FInv, Listed
<1>3. Placed'
  BY <1>1 DEF FInv, Placed
<1>4. faults \in 0..MaxFaults /\ MaxFaults \in Nat
  BY UrlAssumption DEF FInv, Calls
<1>5. Calls'
  <2>1. faults' \in 0..MaxFaults /\ (faulty' => faults' > 0)
    BY <1>1, <1>4 DEF FInv, Calls
  <2>2. phase' \notin Scanning
    BY <1>1 DEF Scanning
  <2>. QED  BY <1>1, <2>1, <2>2 DEF FInv, Calls
<1>6. Stopped'
  BY <1>1, <1>4 DEF Stopped
<1>7. Len(files') \in Nat /\ fetches' \in [Actor -> 0..MaxFetches]
  BY <1>1, ListedTyped DEF FInv, FileReaders
<1>8. FileReaders' /\ FilesExact'
  BY <1>1, <1>7, ReadersWait
<1>. QED  BY <1>0, <1>2, <1>3, <1>5, <1>6, <1>8 DEF FInv

(* The first header has been read.                                         *)
LEMMA NewReaderF == ASSUME FInv, NewReader PROVE FInv'
<1>0. IInv'
  BY NextIInv DEF FInv, Next, Opening
<1>1. /\ phase = "newReader" /\ phase' = "header"
      /\ UNCHANGED <<tar, remote, n, files, sr, op, reads, fetches, busy, call, indexed, faulty, faults>>
      /\ ~busy[Opener]
  BY DEF NewReader, FInv, IInv, fileVars, gsipVars, rangerVars
<1>2. Listed'
  BY <1>1 DEF FInv, Listed
<1>3. Placed'
  <2>1. Len(files) = 0 /\ n = 0 /\ EntriesEnd(tar, 0) = 0
    BY <1>1, EntriesEquations DEF FInv, Placed, Listed
  <2>. QED  BY <1>1, <2>1 DEF Placed
<1>4. Calls'
  BY <1>1 DEF FInv, Calls
<1>5. Stopped'
  BY <1>1 DEF Stopped
<1>6. Len(files') \in Nat /\ fetches' \in [Actor -> 0..MaxFetches]
  BY <1>1, ListedTyped DEF FInv, FileReaders
<1>7. FileReaders' /\ FilesExact'
  BY <1>1, <1>6, ReadersWait
<1>. QED  BY <1>0, <1>2, <1>3, <1>4, <1>5, <1>7 DEF FInv

(* Next has got some bytes, all it wanted or not.                          *)
LEMMA ScanStops ==
  ASSUME Listed, Placed, phase \in Scanning, NEW got \in Nat, got <= Wanted, NEW err, Scan(got, err),
         n + got <= tar.size, Uncut /\ got < Wanted /\ err \in {"nil", "EOF"} => n + got = tar.size,
         UNCHANGED <<tar, remote>>
  PROVE  /\ Listed' /\ Placed' /\ phase' \in Scanning \cup {"ready", "failed"}
         /\ Uncut /\ err \in {"nil", "EOF"} /\ phase' = "failed" => Truncated(tar)
         /\ Uncut /\ phase' = "ready" => \A i \in (Len(files') + 1)..Len(tar.data) : tar.size < DataEnd(tar, i)
<1>0. Wanted \in Nat /\ Len(tar.data) \in Nat
  BY WantedIs, ListedTyped
<1>1. CASE got = Wanted
  <2>1. /\ Listed' /\ Placed' /\ phase' \in Scanning \cup {"ready"}
        /\ phase' = "ready" => Len(files') = Len(tar.data)
    BY <1>1, ScanFull
  <2>. QED  BY <1>0, <2>1 DEF Scanning
<1>2. CASE got # Wanted
  <2>1. got < Wanted
    BY <1>0, <1>2
  <2>2. /\ Listed' /\ Placed' /\ phase' \in {"ready", "failed"}
        /\ n + got = tar.size /\ phase' = "ready" =>
              \A i \in (Len(files') + 1)..Len(tar.data) : tar.size < DataEnd(tar, i)
        /\ n + got = tar.size /\ phase' = "failed" => err \notin {"nil", "EOF"} \/ Truncated(tar)
    BY <2>1, ScanShort
  <2>3. phase' = "ready" => err \in {"nil", "EOF"}
    BY <1>2 DEF Scan, Ended, Scanning, Failure
  <2>. QED  BY <2>1, <2>2, <2>3
<1>. QED  BY <1>1, <1>2

(* Next asks for what is not there, or for nothing.                        *)
LEMMA ScanNothingF == ASSUME FInv, ScanNothing PROVE FInv'
<1>0. IInv'
  BY NextIInv DEF FInv, Next, Opening
<1>1. /\ phase \in Scanning /\ ~busy[Opener] /\ Available = 0 /\ Scan(0, "nil")
      /\ UNCHANGED <<tar, remote, sr, op, reads, fetches, busy, call, indexed, faulty, faults, ret>>
      /\ Listed /\ Placed
  BY DEF ScanNothing, FInv, fileVars, gsipVars, rangerVars
<1>2. /\ n \in Nat /\ n + 0 = n /\ n <= tar.size /\ tar.size \in Nat /\ Limit \in Nat /\ Wanted \in Nat
      /\ (Uncut => tar.size <= Limit)
  BY <1>1, ListedTyped, WantedIs
<1>3. Uncut /\ 0 < Wanted => n + 0 = tar.size
  BY <1>1, <1>2, AvailableIs
<1>4. /\ Listed' /\ Placed' /\ phase' \in Scanning \cup {"ready", "failed"}
      /\ Uncut /\ phase' = "failed" => Truncated(tar)
      /\ Uncut /\ phase' = "ready" => \A i \in (Len(files') + 1)..Len(tar.data) : tar.size < DataEnd(tar, i)
  <2>1. 0 \in Nat /\ 0 <= Wanted /\ n + 0 <= tar.size
    BY <1>2
  <2>. QED  BY <1>1, <1>3, <2>1, ScanStops
<1>5. Calls'
  BY <1>1 DEF FInv, Calls
<1>6. Stopped'
  BY <1>1, <1>4 DEF Stopped, Uncut
<1>7. phase # "ready" /\ Len(files') \in Nat /\ fetches' \in [Actor -> 0..MaxFetches]
  BY <1>1, <1>4 DEF FInv, FileReaders, Listed, Scanning
<1>8. FileReaders' /\ FilesExact'
  BY <1>1, <1>7, ReadersWait
<1>. QED  BY <1>0, <1>4, <1>5, <1>6, <1>8 DEF FInv

(* Next's ReadAt begins.                                                   *)
LEMMA ScanBeginsF == ASSUME FInv, ScanBegins PROVE FInv'
<1>0. IInv'
  BY NextIInv DEF FInv, Next, Opening
<1>1. /\ phase \in Scanning /\ Available > 0 /\ Begins(Opener, n, Available)
      /\ UNCHANGED <<runVars, tar, remote, phase, n, files, sr, op, reads>>
      /\ Listed /\ Placed /\ Typed /\ Calls
  BY DEF ScanBegins, FInv, IInv, fileVars, runVars
<1>2. Opener \in Actor /\ n \in Nat /\ Available \in Nat /\ Opener \notin Readers
  BY <1>1, ListedTyped, AvailableIs, ArchivesAssumption DEF Actor
<1>3. /\ call' \in [Actor -> CallRecord] /\ call'[Opener].off = n /\ call'[Opener].len = Available
      /\ \A c \in Actor : c # Opener => call'[c] = call[c] /\ busy'[c] = busy[c] /\ fetches'[c] = fetches[c]
      /\ fetches'[Opener] = 0 /\ DOMAIN fetches' = Actor
      /\ UNCHANGED <<indexed, faulty, faults>>
  BY <1>1, <1>2, CallBegins
<1>4. Listed' /\ Placed'
  BY <1>1 DEF Listed, Placed
<1>5. Calls'
  BY <1>1, <1>3, AvailableSame DEF Calls, CallRecord
<1>6. Stopped'
  BY <1>1 DEF Stopped, Scanning
<1>7. fetches' \in [Actor -> 0..MaxFetches]
  <2>1. fetches \in [Actor -> 0..MaxFetches] /\ 0 \in 0..MaxFetches
    BY ArchivesAssumption DEF FInv, FileReaders
  <2>2. \A c \in Actor : fetches'[c] \in 0..MaxFetches
    BY <1>3, <2>1
  <2>3. fetches' = [c \in Actor |-> fetches'[c]]
    BY <1>1, BeginsTyped, <1>2 DEF FInv, Begins
  <2>. QED  BY <2>2, <2>3
<1>8. phase # "ready" /\ Len(files') \in Nat /\ \A c \in Readers : busy'[c] = busy[c]
  BY <1>1, <1>2, <1>3, ListedTyped DEF Scanning, Actor
<1>9. FileReaders' /\ FilesExact'
  BY <1>1, <1>7, <1>8, ReadersWait
<1>. QED  BY <1>0, <1>4, <1>5, <1>6, <1>9 DEF FInv

(* Next's ReadAt returns.                                                  *)
LEMMA ScanReturnsF == ASSUME FInv, ScanReturns PROVE FInv'
<1>0. IInv'
  BY NextIInv DEF FInv, Next, Opening
<1>1. /\ phase \in Scanning /\ Returns(Opener)
      /\ Scan(Len(call'[Opener].data), call'[Opener].err)
      /\ UNCHANGED <<tar, remote, sr, op, reads>>
      /\ Listed /\ Placed /\ Typed /\ Calls
  BY DEF ScanReturns, FInv, IInv, fileVars
<1>2. Opener \in Actor /\ Opener \notin Readers
  BY ArchivesAssumption DEF Actor
<1>3. PICK k \in 0..call[Opener].len, err \in Errors :
         /\ Promised(Opener, k, err)
         /\ Len(call'[Opener].data) = k /\ call'[Opener].err = err /\ call'[Opener].early = call[Opener].early
         /\ call' \in [Actor -> CallRecord] /\ busy[Opener] /\ ~busy'[Opener]
         /\ \A c \in Actor : c # Opener => call'[c] = call[c] /\ busy'[c] = busy[c]
         /\ UNCHANGED <<indexed, faulty, fetches, ret, faults>>
  BY <1>1, <1>2, CallReturns
<1>4. call[Opener].off = n /\ call[Opener].len = Available /\ Available > 0
  BY <1>1, <1>3 DEF Calls
<1>5. /\ n \in Nat /\ n <= tar.size /\ tar.size \in Nat /\ Limit \in Nat /\ Wanted \in Nat
      /\ (Uncut => tar.size <= Limit) /\ Available \in Nat /\ Available <= Wanted
      /\ (Available < Wanted => n + Available = Limit)
  BY <1>1, <1>4, ListedTyped, WantedIs, AvailableIs
<1>6. k \in Nat /\ k <= Available /\ k <= Wanted
  BY <1>4, <1>5
<1>7. n + k <= tar.size
  BY <1>3, <1>4, <1>5, <1>6 DEF Promised, Errors
<1>8. Uncut /\ k < Wanted /\ err \in {"nil", "EOF"} => n + k = tar.size
  <2>. SUFFICES ASSUME Uncut, k < Wanted, err \in {"nil", "EOF"} PROVE n + k = tar.size
    OBVIOUS
  <2>1. CASE err = "EOF"
    BY <1>3, <1>4, <2>1 DEF Promised
  <2>2. CASE err = "nil"
    <3>1. k = Available
      BY <1>4, <2>2, <1>3 DEF Promised
    <3>. QED  BY <1>5, <1>7, <3>1
  <2>. QED  BY <2>1, <2>2
<1>9. /\ Listed' /\ Placed' /\ phase' \in Scanning \cup {"ready", "failed"}
      /\ Uncut /\ err \in {"nil", "EOF"} /\ phase' = "failed" => Truncated(tar)
      /\ Uncut /\ phase' = "ready" => \A i \in (Len(files') + 1)..Len(tar.data) : tar.size < DataEnd(tar, i)
  <2>1. Scan(k, err)
    BY <1>1, <1>3
  <2>. QED  BY <1>1, <1>6, <1>7, <1>8, <2>1, ScanStops
<1>10. Calls'
  BY <1>1, <1>3 DEF Calls, CallRecord
<1>11. ASSUME Uncut, phase' = "failed"
       PROVE  faults' > 0 \/ ret'[Opener] # "nil" \/ Early' \/ Truncated(tar)
  <2>1. CASE err \in {"nil", "EOF"}
    BY <1>9, <1>11, <2>1
  <2>2. CASE err = "wrappedEOF"
    BY <1>3, <1>4, <1>5, <2>2 DEF Promised
  <2>3. CASE err = "notFound"
    <3>1. call'[Opener].early /\ call'[Opener].err = "notFound"
      BY <1>3, <2>3 DEF Promised
    <3>. QED  BY <1>2, <3>1 DEF Early
  <2>4. CASE err = "io"
    BY <1>1, <1>3, <2>4 DEF Promised, Calls
  <2>. QED  BY <2>1, <2>2, <2>3, <2>4 DEF Errors
<1>12. Stopped'
  BY <1>1, <1>3, <1>9, <1>11 DEF Stopped, Uncut
<1>13. phase # "ready" /\ Len(files') \in Nat /\ fetches' \in [Actor -> 0..MaxFetches]
  BY <1>1, <1>3, <1>9 DEF FInv, FileReaders, Listed, Scanning
<1>14. \A c \in Readers : busy'[c] = busy[c]
  BY <1>2, <1>3 DEF Actor
<1>15. FileReaders' /\ FilesExact'
  BY <1>1, <1>13, <1>14, ReadersWait
<1>. QED  BY <1>0, <1>9, <1>10, <1>12, <1>15 DEF FInv

---------------------------------------------------------------------------
(* Within gsip's calls *)

(* When run has failed nothing is under way.                               *)
LEMMA FailedIsQuiet ==
  ASSUME FInv, phase = "failed"
  PROVE  \A a \in Actor : ~busy[a] /\ st[a] = "idle"
<1>1. \A a \in Actor : ~busy[a]
  BY DEF FInv, IInv, Stopped, Actor
<1>. QED  BY <1>1 DEF FInv, IInv

(* What the invariant says of readers who do nothing.                      *)
LEMMA ReadersStay ==
  ASSUME FInv, UNCHANGED <<phase, tar, files, sr, op, reads, busy, call>>, faulty => faulty',
         fetches' \in [Actor -> 0..MaxFetches]
  PROVE  FileReaders' /\ FilesExact'
<1>1. \A c \in Readers : FileReader(c)' /\ Exact(c)'
  <2>. TAKE c \in Readers
  <2>1. FileReader(c) /\ Exact(c)
    BY ExactAll DEF FInv, FileReaders
  <2>2. FileReader(c)'
    BY <2>1 DEF FileReader
  <2>3. Exact(c)'
    BY <2>1 DEF Exact
  <2>. QED  BY <2>2, <2>3
<1>2. FilesExact'
  BY <1>1 DEF FilesExact, Exact
<1>. QED  BY <1>1, <1>2 DEF FInv, FileReaders

(* Steps within a call change neither what is listed nor the readers.      *)
LEMMA WithinCall ==
  ASSUME FInv, phase' = phase \/ (phase' = "failed" /\ phase # "ready"), phase # "failed",
         UNCHANGED <<tar, remote, n, files, sr, op, reads, busy, call>>,
         indexed' \in BOOLEAN, faulty' \in BOOLEAN, faulty => faulty', faults' \in 0..MaxFaults,
         faulty' => faults' > 0,
         phase' = "failed" => ~busy[Opener] /\ (faults' > 0 \/ ret'[Opener] # "nil"),
         fetches' \in [Actor -> 0..MaxFetches], IInv'
  PROVE  FInv'
<1>1. Listed' /\ Placed'
  BY DEF FInv, Listed, Placed
<1>2. Calls'
  <2>1. phase' \in Scanning => UNCHANGED runVars
    BY DEF runVars, Scanning
  <2>2. phase' \in Scanning => Available' = Available /\ phase \in Scanning
    BY <2>1, AvailableSame DEF runVars
  <2>. QED  BY <2>2 DEF FInv, Calls
<1>3. Stopped'
  <2>1. CASE phase' = "failed"
    BY <2>1 DEF Stopped
  <2>2. CASE phase' # "failed"
    BY <2>2 DEF FInv, Stopped, Uncut
  <2>. QED  BY <2>1, <2>2
<1>4. FileReaders' /\ FilesExact'
  <2>1. CASE phase # "ready"
    <3>1. Len(files') \in Nat /\ \A c \in Readers : busy'[c] = busy[c]
      BY ListedTyped DEF FInv
    <3>. QED  BY <2>1, <3>1, ReadersWait
  <2>2. CASE phase = "ready"
    <3>1. phase' = phase
      BY <2>2
    <3>. QED  BY <3>1, ReadersStay
  <2>. QED  BY <2>1, <2>2
<1>. QED  BY <1>1, <1>2, <1>3, <1>4 DEF FInv

(* A read of a local file fails.                                           *)
LEMMA FileFailsF == ASSUME FInv, NEW a \in Actor, FileFails(a) PROVE FInv'
<1>0. IInv'
  BY NextIInv DEF FInv, Next, Decompress
<1>1. /\ UNCHANGED <<tar, remote, n, files, sr, op, reads, fetches, ret, busy, call, indexed>>
      /\ faults < MaxFaults /\ faults' = faults + 1
      /\ busy[a] \/ (a = Opener /\ phase = "newReader")
      /\ \/ ~busy[a] /\ phase' = "failed" /\ faulty' = faulty
         \/ phase' = phase /\ faulty' = TRUE
  BY DEF FileFails, Decompressing, Faulted, Gsip!Fault, fileVars, gsipVars
<1>2. faults \in 0..MaxFaults /\ MaxFaults \in Nat /\ faulty \in BOOLEAN /\ indexed \in BOOLEAN
  BY UrlAssumption DEF FInv, Calls
<1>3. faults' \in 0..MaxFaults /\ faults' > 0
  BY <1>1, <1>2
<1>4. phase # "failed"
  BY <1>1, FailedIsQuiet
<1>5. phase' = phase \/ (phase' = "failed" /\ phase # "ready" /\ ~busy[Opener])
  BY <1>1 DEF FInv, IInv
<1>6. fetches' \in [Actor -> 0..MaxFetches]
  BY <1>1 DEF FInv, FileReaders
<1>. QED  BY <1>0, <1>1, <1>2, <1>3, <1>4, <1>5, <1>6, WithinCall

(* gsip reads the file at a URL.                                           *)
LEMMA FetchF == ASSUME FInv, NEW a \in Actor, Fetch(a) PROVE FInv'
<1>0. IInv'
  BY NextIInv DEF FInv, Next, Decompress
<1>1. /\ UNCHANGED <<tar, remote, n, files, phase, sr, op, reads, busy, call, indexed, faulty, faults, ret>>
      /\ fetches[a] < MaxFetches /\ fetches' = [fetches EXCEPT ![a] = @ + 1]
      /\ busy[a] \/ (a = Opener /\ phase = "newReader")
  BY DEF Fetch, Decompressing, Ranger!Call, fileVars, gsipVars, runVars
<1>2. /\ faults \in 0..MaxFaults /\ faulty \in BOOLEAN /\ indexed \in BOOLEAN /\ (faulty => faults > 0)
  BY DEF FInv, Calls
<1>3. phase # "failed"
  BY <1>1, FailedIsQuiet
<1>4. fetches' \in [Actor -> 0..MaxFetches]
  <2>1. fetches \in [Actor -> 0..MaxFetches] /\ MaxFetches \in Nat
    BY ArchivesAssumption DEF FInv, FileReaders
  <2>2. fetches[a] + 1 \in 0..MaxFetches
    BY <1>1, <2>1
  <2>. QED  BY <1>1, <2>1, <2>2
<1>. QED  BY <1>0, <1>1, <1>2, <1>3, <1>4, WithinCall

(* A request goes on.                                                      *)
LEMMA RequestF == ASSUME FInv, NEW a \in Actor, Request(a) PROVE FInv'
<1>0. IInv'
  BY NextIInv DEF FInv, Next, Decompress
<1>1. UNCHANGED <<tar, remote, n, files, phase, sr, op, reads, fetches, busy, call, indexed, faulty>>
  BY DEF Request, fileVars, gsipVars, runVars
<1>2. UNCHANGED <<faults, ret>> /\ st[a] # "idle"
  BY DEF Request, Ranger!Inside, Ranger!LoadPtr, Ranger!LoadLen, Ranger!Moved, Ranger!StorePtr,
         Ranger!StoreLen, Ranger!Goes
<1>3. /\ faults \in 0..MaxFaults /\ faulty \in BOOLEAN /\ indexed \in BOOLEAN /\ (faulty => faults > 0)
      /\ fetches \in [Actor -> 0..MaxFetches]
  BY DEF FInv, Calls, FileReaders
<1>4. phase # "failed"
  BY <1>2, FailedIsQuiet
<1>. QED  BY <1>0, <1>1, <1>2, <1>3, <1>4, WithinCall

(* A request has been answered, or has failed.  One that is refused ends   *)
(* run: no later one is.                                                   *)
LEMMA FetchedF == ASSUME FInv, NEW a \in Actor, Fetched(a) PROVE FInv'
<1>0. IInv'
  BY NextIInv DEF FInv, Next, Decompress
<1>1. /\ Ranger!Ends(a) /\ st[a] = "sent" /\ Typed
      /\ UNCHANGED <<tar, remote, n, files, sr, op, reads, fetches, busy, call, indexed>>
  BY DEF Fetched, Faulted, Gsip!Fault, fileVars, gsipVars, FInv, IInv, Ranger!Ends, Ranger!Partial,
         Ranger!Refused, Ranger!Fails, Ranger!Returns, Ranger!Goes
<1>2. /\ faults \in 0..MaxFaults /\ MaxFaults \in Nat /\ faulty \in BOOLEAN /\ indexed \in BOOLEAN
      /\ (faulty => faults > 0) /\ fetches \in [Actor -> 0..MaxFetches]
  BY UrlAssumption DEF FInv, Calls, FileReaders
<1>3. phase # "failed"
  BY <1>1, FailedIsQuiet
<1>4. /\ remote /\ (busy[a] \/ phase = "newReader")
      /\ phase = "newReader" => a = Opener /\ ~busy[Opener]
  BY <1>1 DEF FInv, IInv, Actor
<1>5. \/ ret'[a] = "nil" /\ faults' = faults
      \/ ret'[a] = "refused" /\ faults' = faults /\ phase = "newReader"
      \/ ret'[a] \in {"transport", "short"} /\ faults' = faults + 1 /\ faults < MaxFaults
  <2>1. CASE Ranger!Partial(a)
    BY <1>1, <2>1 DEF Ranger!Partial, Ranger!Returns, Typed
  <2>2. CASE Ranger!Fails(a)
    BY <1>1, <2>2 DEF Ranger!Fails, Ranger!Returns, Typed
  <2>3. CASE Ranger!Refused(a)
    <3>1. ret'[a] = "refused" /\ faults' = faults /\ Ranger!Answers(a, "other")
      BY <1>1, <2>3 DEF Ranger!Refused, Ranger!Returns, Typed
    <3>2. CASE phase # "newReader"
      <4>1. phase \in Opened
        BY <1>1, <1>3, <1>4, <3>2 DEF FInv, IInv, Typed, Opened, Scanning, Actor
      <4>2. held[a] = uri /\ uri.ptr = uri.len /\ Answer[uri.ptr].status = "partial"
        BY <1>1, <1>4, <4>1 DEF FInv, IInv, Settled
      <4>3. Answer[uri.ptr].status = "other"
        BY <1>1, <3>1, <4>2, AnswerOfUri
      <4>. QED  BY <4>2, <4>3
    <3>. QED  BY <3>1, <3>2
  <2>. QED  BY <1>1, <2>1, <2>2, <2>3 DEF Ranger!Ends
<1>6. faults' \in 0..MaxFaults /\ faults' >= faults
  BY <1>2, <1>5
<1>7. /\ faulty' \in BOOLEAN /\ (faulty => faulty') /\ (faulty' => faults' > 0)
      /\ phase' = phase \/ (phase' = "failed" /\ phase = "newReader" /\ ret'[Opener] # "nil")
  <2>1. CASE ret'[a] = "nil"
    <3>1. phase' = phase /\ faulty' = faulty
      BY <2>1 DEF Fetched, gsipVars
    <3>. QED  BY <1>2, <1>6, <3>1
  <2>2. CASE ret'[a] # "nil"
    <3>1. \/ ~busy[a] /\ phase' = "failed" /\ faulty' = faulty
          \/ (busy[a] \/ ret'[a] = "short") /\ faulty' = TRUE /\ phase' = phase
      BY <2>2 DEF Fetched, Faulted, Gsip!Fault, gsipVars
    <3>2. CASE ~busy[a] /\ phase' = "failed" /\ faulty' = faulty
      BY <1>2, <1>4, <1>6, <2>2, <3>2
    <3>3. CASE (busy[a] \/ ret'[a] = "short") /\ faulty' = TRUE /\ phase' = phase
      <4>1. ret'[a] # "refused"
        BY <1>4, <1>5, <3>3
      <4>2. faults' > 0
        BY <1>2, <1>5, <2>2, <4>1
      <4>. QED  BY <3>3, <4>2
    <3>. QED  BY <3>1, <3>2, <3>3
  <2>. QED  BY <2>1, <2>2
<1>8. phase' = "failed" => ~busy[Opener] /\ ret'[Opener] # "nil"
  BY <1>3, <1>4, <1>7
<1>. QED  BY <1>0, <1>1, <1>2, <1>3, <1>6, <1>7, <1>8, WithinCall

(* The first checkpoint. *)
LEMMA IndexF == ASSUME FInv, Index PROVE FInv'
<1>0. IInv'
  BY NextIInv DEF FInv, Next
<1>1. /\ indexed' = TRUE
      /\ UNCHANGED <<runVars, tar, remote, n, files, phase, sr, op, reads, fetches, busy, call, faulty, faults, ret>>
  BY DEF Index, Gsip!Index, fileVars, runVars, rangerVars
<1>2. Listed' /\ Placed'
  BY <1>1 DEF FInv, Listed, Placed
<1>3. Calls'
  BY <1>1, AvailableSame DEF FInv, Calls
<1>4. Stopped'
  BY <1>1 DEF FInv, Stopped, Uncut, Early
<1>5. FileReaders' /\ FilesExact'
  BY <1>1, ReadersStay DEF FInv, FileReaders
<1>. QED  BY <1>0, <1>2, <1>3, <1>4, <1>5 DEF FInv

---------------------------------------------------------------------------
(* The readers of files *)

(* A step of one reader.                                                   *)
LEMMA OneReader ==
  ASSUME FInv, IInv', NEW c \in Readers, phase = "ready",
         UNCHANGED <<runVars, phase, tar, remote, n, files, indexed, faulty, faults, ret>>,
         call' \in [Actor -> CallRecord], fetches' \in [Actor -> 0..MaxFetches], reads' \in 0..MaxReads,
         sr' \in [Readers -> [file : Nat, off : Nat]],
         op' \in [Readers -> [kind : {"none", "Read", "ReadAt"}, len : Nat, at : Nat,
                              data : Seq(Nat), err : Errors]],
         \A d \in Readers : d # c => sr'[d] = sr[d] /\ op'[d] = op[d] /\ busy'[d] = busy[d] /\ call'[d] = call[d],
         FileReader(c)', Exact(c)'
  PROVE  FInv'
<1>1. Listed' /\ Placed'
  BY DEF FInv, Listed, Placed
<1>2. Calls'
  BY DEF FInv, Calls, CallRecord, Scanning
<1>3. Stopped'
  BY DEF FInv, Stopped, Uncut
<1>4. \A d \in Readers : FileReader(d)' /\ Exact(d)'
  <2>. TAKE d \in Readers
  <2>1. CASE d = c
    BY <2>1
  <2>2. CASE d # c
    <3>1. FileReader(d) /\ Exact(d)
      BY ExactAll DEF FInv, FileReaders
    <3>2. FileReader(d)'
      BY <2>2, <3>1 DEF FileReader
    <3>3. Exact(d)'
      BY <2>2, <3>1 DEF Exact
    <3>. QED  BY <3>2, <3>3
  <2>. QED  BY <2>1, <2>2
<1>5. FilesExact'
  BY <1>4 DEF FilesExact, Exact
<1>6. FileReaders'
  BY <1>4 DEF FileReaders
<1>. QED  BY <1>1, <1>2, <1>3, <1>5, <1>6 DEF FInv

(* What is known of a reader that has a file.                              *)
LEMMA ReaderTyped ==
  ASSUME FInv, NEW c \in Readers
  PROVE  /\ c \in Actor /\ c # Opener
         /\ sr[c] \in [file : Nat, off : Nat]
         /\ op[c] \in [kind : {"none", "Read", "ReadAt"}, len : Nat, at : Nat, data : Seq(Nat), err : Errors]
         /\ call \in [Actor -> CallRecord] /\ fetches \in [Actor -> 0..MaxFetches] /\ reads \in 0..MaxReads
         /\ FileReader(c) /\ Exact(c) /\ Listed
         /\ sr[c].file > 0 =>
              /\ sr[c].file \in 1..Len(files) /\ sr[c].file \in 1..Len(tar.data)
              /\ Entry(c) = [offset |-> DataStart(tar, sr[c].file), size |-> tar.data[sr[c].file]]
              /\ tar.data[sr[c].file] \in Nat /\ DataStart(tar, sr[c].file) \in Nat
<1>1. c \in Actor /\ c # Opener
  BY ArchivesAssumption DEF Actor
<1>2. sr[c] \in [file : Nat, off : Nat] /\ FileReader(c) /\ Exact(c) /\ Listed
  BY ExactAll DEF FInv, FileReaders
<1>3. ASSUME sr[c].file > 0
      PROVE  /\ sr[c].file \in 1..Len(files) /\ sr[c].file \in 1..Len(tar.data)
             /\ Entry(c) = [offset |-> DataStart(tar, sr[c].file), size |-> tar.data[sr[c].file]]
             /\ tar.data[sr[c].file] \in Nat /\ DataStart(tar, sr[c].file) \in Nat
  <2>1. sr[c].file \in 1..Len(files) /\ sr[c].file \in 1..Len(tar.data)
    BY <1>2, <1>3, ListedTyped DEF FileReader
  <2>2. Entry(c) = [offset |-> DataStart(tar, sr[c].file), size |-> tar.data[sr[c].file]]
    BY <1>2, <2>1 DEF Listed, Entry
  <2>3. tar \in Archives
    BY <1>2 DEF Listed
  <2>4. /\ tar.data[sr[c].file] \in Nat /\ EntriesEnd(tar, sr[c].file - 1) \in Nat /\ Block \in Nat
        /\ DataStart(tar, sr[c].file) = EntriesEnd(tar, sr[c].file - 1) + Block
    BY <2>1, <2>3, EntryLies
  <2>. QED  BY <2>1, <2>2, <2>4
<1>. QED  BY <1>1, <1>2, <1>3 DEF FInv, FileReaders, Calls, CallRecord

(* A file is opened.                                                       *)
LEMMA OpenF == ASSUME FInv, NEW c \in Readers, Open(c) PROVE FInv'
<1>0. IInv'
  BY NextIInv DEF FInv, Next, Use
<1>1. PICK i \in DOMAIN files : sr' = [sr EXCEPT ![c].file = i]
  BY DEF Open
<1>2. /\ UNCHANGED <<runVars, phase, tar, remote, n, files, op, reads, fetches, busy, call, indexed, faulty, faults, ret>>
      /\ phase = "ready" /\ sr[c].file = 0
  BY DEF Open, runVars, gsipVars, rangerVars
<1>3. sr \in [Readers -> [file : Nat, off : Nat]] /\ i \in 1..Len(files)
  BY DEF FInv, FileReaders, Listed
<1>4. sr' \in [Readers -> [file : Nat, off : Nat]] /\ sr'[c].file = i /\ \A d \in Readers : d # c => sr'[d] = sr[d]
  BY <1>1, <1>3
<1>5. op[c].kind = "none" /\ ~busy[c]
  BY <1>2, ReaderTyped DEF FileReader
<1>6. FileReader(c)' /\ Exact(c)'
  BY <1>2, <1>3, <1>4, <1>5 DEF FileReader, Exact
<1>7. op' \in [Readers -> [kind : {"none", "Read", "ReadAt"}, len : Nat, at : Nat, data : Seq(Nat), err : Errors]]
  BY <1>2 DEF FInv, FileReaders
<1>. QED  BY <1>0, <1>2, <1>4, <1>6, <1>7, ReaderTyped, OneReader

(* A Seek moves the cursor and nothing else.                               *)
LEMMA SeekF == ASSUME FInv, NEW c \in Readers, Seek(c) PROVE FInv'
<1>0. IInv'
  BY NextIInv DEF FInv, Next, Use
<1>1. /\ UNCHANGED <<runVars, phase, tar, remote, n, files, op, fetches, busy, call, indexed, faulty, faults, ret>>
      /\ phase = "ready" /\ sr[c].file > 0 /\ ~busy[c] /\ reads < MaxReads /\ reads' = reads + 1
  BY DEF Seek, Ready, Bounded, runVars, gsipVars, rangerVars
<1>2. PICK s \in SeekTo, whence \in {0, sr[c].off, Entry(c).size} :
         whence + s >= 0 /\ sr' = [sr EXCEPT ![c].off = whence + s]
  BY DEF Seek
<1>3. whence + s \in Nat
  <2>1. s \in Int /\ sr[c].off \in Int /\ Entry(c).size \in Int
    BY <1>1, ReaderTyped, ArchivesAssumption
  <2>2. whence \in Int
    BY <2>1
  <2>. QED  BY <1>2, <2>1, <2>2
<1>4. sr \in [Readers -> [file : Nat, off : Nat]]
  BY DEF FInv, FileReaders
<1>5. /\ sr' \in [Readers -> [file : Nat, off : Nat]] /\ sr'[c].file = sr[c].file
      /\ \A d \in Readers : d # c => sr'[d] = sr[d]
  BY <1>2, <1>3, <1>4
<1>6. FileReader(c) /\ Exact(c) /\ reads \in 0..MaxReads /\ MaxReads \in Nat
  BY ReaderTyped, ArchivesAssumption
<1>7. FileReader(c)' /\ Exact(c)'
  <2>1. FileReader(c)'
    BY <1>1, <1>5, <1>6 DEF FileReader
  <2>2. Exact(c)'
    BY <1>1, <1>5, <1>6 DEF Exact
  <2>. QED  BY <2>1, <2>2
<1>8. op' \in [Readers -> [kind : {"none", "Read", "ReadAt"}, len : Nat, at : Nat, data : Seq(Nat), err : Errors]]
  BY <1>1 DEF FInv, FileReaders
<1>9. reads' \in 0..MaxReads
  BY <1>1, <1>6
<1>. QED  BY <1>0, <1>1, <1>5, <1>7, <1>8, <1>9, ReaderTyped, OneReader

OpRecord == [kind : {"none", "Read", "ReadAt"}, len : Nat, at : Nat, data : Seq(Nat), err : Errors]

(* What the last operation is when it begins, and at the end of the file.  *)
Begun(kind, at, len) == [NoOp EXCEPT !.kind = kind, !.at = at, !.len = len]
AtEnd(kind, at, len) == [NoOp EXCEPT !.kind = kind, !.at = at, !.len = len, !.err = "EOF"]

(* They are records of what they were given.                               *)
LEMMA NoOpWith ==
  ASSUME NEW kind \in {"Read", "ReadAt"}, NEW at \in Nat, NEW len \in Nat
  PROVE  /\ Begun(kind, at, len)
              = [kind |-> kind, len |-> len, at |-> at, data |-> <<>>, err |-> "nil"]
         /\ AtEnd(kind, at, len)
              = [kind |-> kind, len |-> len, at |-> at, data |-> <<>>, err |-> "EOF"]
<1>. DEFINE R == [kind : {"none", "Read", "ReadAt"}, len : Nat, at : Nat, data : {<<>>}, err : {"nil", "EOF"}]
            w == Begun(kind, at, len)
            x == AtEnd(kind, at, len)
            r == [kind |-> kind, len |-> len, at |-> at, data |-> <<>>, err |-> "nil"]
            e == [kind |-> kind, len |-> len, at |-> at, data |-> <<>>, err |-> "EOF"]
<1>1. w \in R /\ r \in R /\ x \in R /\ e \in R
  BY DEF NoOp, Begun, AtEnd
<1>2. w.kind = r.kind /\ w.len = r.len /\ w.at = r.at /\ w.data = r.data /\ w.err = r.err
  BY DEF NoOp, Begun, AtEnd
<1>3. x.kind = e.kind /\ x.len = e.len /\ x.at = e.at /\ x.data = e.data /\ x.err = e.err
  BY DEF NoOp, Begun, AtEnd
<1>. HIDE DEF w, x, r, e
<1>4. w = r
  BY <1>1, <1>2
<1>5. x = e
  BY <1>1, <1>3
<1>. QED  BY <1>4, <1>5 DEF w, x, r, e

(* A Read or a ReadAt begins, or is at the end of the file.                *)
LEMMA OperationF ==
  ASSUME FInv, IInv', NEW c \in Readers, NEW kind \in {"Read", "ReadAt"}, NEW at \in Nat, NEW len \in Nat,
         Operation(c, kind, at, len)
  PROVE  FInv'
<1>. DEFINE i == sr[c].file
            size == tar.data[i]
            r == [kind |-> kind, len |-> len, at |-> at, data |-> <<>>, err |-> "nil"]
            e == [kind |-> kind, len |-> len, at |-> at, data |-> <<>>, err |-> "EOF"]
<1>1. /\ UNCHANGED <<runVars, phase, tar, remote, n, files, sr>>
      /\ phase = "ready" /\ i > 0 /\ ~busy[c] /\ reads < MaxReads /\ reads' = reads + 1
  BY DEF Operation, Ready, Bounded, runVars
<1>2. /\ Entry(c) = [offset |-> DataStart(tar, i), size |-> size]
      /\ size \in Nat /\ DataStart(tar, i) \in Nat /\ c \in Actor /\ FileReader(c) /\ sr[c] \in [file : Nat, off : Nat]
      /\ call \in [Actor -> CallRecord] /\ fetches \in [Actor -> 0..MaxFetches] /\ reads \in 0..MaxReads
  BY <1>1, ReaderTyped
<1>3. op \in [Readers -> OpRecord] /\ sr \in [Readers -> [file : Nat, off : Nat]]
  BY DEF FInv, FileReaders, OpRecord
<1>4. reads' \in 0..MaxReads
  BY <1>1, <1>2, ArchivesAssumption
<1>5. r \in OpRecord /\ e \in OpRecord
  <2>1. <<>> \in Seq(Nat)
    OBVIOUS
  <2>. QED  BY <2>1 DEF OpRecord, Errors
<1>6. CASE at >= size
  <2>1. op' = [op EXCEPT ![c] = e] /\ UNCHANGED <<fetches, busy, call, indexed, faulty, faults, ret>>
    <3>1. at >= Entry(c).size
      BY <1>2, <1>6
    <3>2. /\ op' = [op EXCEPT ![c] = AtEnd(kind, at, len)]
          /\ UNCHANGED <<fetches, busy, call, indexed, faulty, faults, ret>>
      BY <3>1 DEF Operation, AtEnd, gsipVars, rangerVars
    <3>3. AtEnd(kind, at, len) = e
      BY NoOpWith
    <3>. QED  BY <3>2, <3>3
  <2>2. op' \in [Readers -> OpRecord] /\ op'[c] = e /\ \A d \in Readers : d # c => op'[d] = op[d]
    BY <1>3, <1>5, <2>1
  <2>3. FileReader(c)'
    BY <1>1, <1>2, <2>1 DEF FileReader
  <2>4. Max({0, size - at}) = 0 /\ Min({0, len}) = 0
    <3>1. PICK z \in Int : z = size - at /\ z <= 0
      BY <1>2, <1>6
    <3>2. Max({0, z}) = 0
      BY <3>1, MaxZero
    <3>3. Min({0, len}) = 0
      BY MinMax
    <3>. QED  BY <3>1, <3>2, <3>3
  <2>5. Len(<<>>) = 0 /\ <<>> = [k \in 1..0 |-> DataStart(tar, i) + at + k - 1]
    OBVIOUS
  <2>6. Exact(c)'
    <3>1. op'[c].data = <<>> /\ op'[c].at = at /\ op'[c].len = len /\ op'[c].err = "EOF" /\ op'[c].kind = kind
      BY <2>2
    <3>2. sr' = sr /\ tar' = tar
      BY <1>1
    <3>3. sr'[c].file = i /\ tar'.data[i] = size /\ Len(op'[c].data) = 0
      BY <3>1, <3>2
    <3>4. /\ op'[c].data = [k \in 1..0 |-> DataStart(tar', i) + op'[c].at + k - 1]
          /\ Max({0, tar'.data[i] - op'[c].at}) = 0 /\ Min({0, op'[c].len}) = 0
      BY <2>4, <2>5, <3>1, <3>2
    <3>5. op'[c].data = [k \in 1..Len(op'[c].data) |-> DataStart(tar', sr'[c].file) + op'[c].at + k - 1]
      BY <3>3, <3>4
    <3>6. Len(op'[c].data) <= Min({Max({0, tar'.data[sr'[c].file] - op'[c].at}), op'[c].len})
      <4>. DEFINE m == Max({0, tar'.data[sr'[c].file] - op'[c].at})
      <4>1. m = 0
        BY <3>3, <3>4
      <4>. HIDE DEF m
      <4>2. Min({m, op'[c].len}) = 0 /\ Len(op'[c].data) = 0
        BY <3>3, <3>4, <4>1
      <4>3. Len(op'[c].data) <= Min({m, op'[c].len})
        BY <4>2
      <4>. QED  BY <4>3 DEF m
    <3>7. Len(op'[c].data) = Max({0, tar'.data[sr'[c].file] - op'[c].at}) /\ Max({0, tar'.data[sr'[c].file] - op'[c].at}) = 0
      BY <3>3, <3>4
    <3>. QED  BY <3>1, <3>5, <3>6, <3>7 DEF Exact
  <2>. QED  BY <1>1, <1>2, <1>3, <1>4, <2>1, <2>2, <2>3, <2>6, OneReader DEF OpRecord
<1>7. CASE at < size
  <2>1. /\ op' = [op EXCEPT ![c] = r]
        /\ Begins(c, DataStart(tar, i) + at, Min({len, size - at}))
    <3>1. ~(at >= Entry(c).size)
      BY <1>2, <1>7
    <3>2. /\ op' = [op EXCEPT ![c] = Begun(kind, at, len)]
          /\ Begins(c, Entry(c).offset + at, Section(c, at, len))
      BY <3>1 DEF Operation, Begun
    <3>3. Begun(kind, at, len) = r
      BY NoOpWith
    <3>4. Entry(c).offset = DataStart(tar, i) /\ Section(c, at, len) = Min({len, size - at})
      BY <1>2 DEF Section
    <3>. QED  BY <3>2, <3>3, <3>4
  <2>2. op' \in [Readers -> OpRecord] /\ op'[c] = r /\ \A d \in Readers : d # c => op'[d] = op[d]
    BY <1>3, <1>5, <2>1
  <2>3. Min({len, size - at}) \in Nat /\ DataStart(tar, i) + at \in Nat
    <3>1. size - at \in Nat
      BY <1>2, <1>7
    <3>. QED  BY <1>2, <3>1, MinMax
  <2>4. Typed /\ Calls
    BY DEF FInv, IInv
  <2>5. /\ call' \in [Actor -> CallRecord]
        /\ call'[c].off = DataStart(tar, i) + at /\ call'[c].len = Min({len, size - at})
        /\ \A d \in Actor : d # c => call'[d] = call[d] /\ busy'[d] = busy[d] /\ fetches'[d] = fetches[d]
        /\ busy'[c] /\ fetches'[c] = 0
        /\ UNCHANGED <<indexed, faulty, uri, st, held, ret, faults>>
    BY <1>2, <2>1, <2>3, <2>4, CallBegins
  <2>6. fetches' \in [Actor -> 0..MaxFetches]
    <3>1. fetches' = [fetches EXCEPT ![c] = 0] /\ 0 \in 0..MaxFetches
      BY <2>1, ArchivesAssumption DEF Begins
    <3>. QED  BY <1>2, <3>1
  <2>7. FileReader(c)'
    BY <1>1, <1>2, <2>2, <2>5, <1>7 DEF FileReader
  <2>8. Exact(c)'
    BY <2>5 DEF Exact
  <2>9. \A d \in Readers : d # c => call'[d] = call[d] /\ busy'[d] = busy[d]
    BY <2>5 DEF Actor
  <2>. QED  BY <1>1, <1>2, <1>3, <1>4, <2>2, <2>5, <2>6, <2>7, <2>8, <2>9, OneReader DEF OpRecord
<1>. QED  BY <1>2, <1>6, <1>7

(* What is read of a file is of the archive.                               *)
LEMMA Fits ==
  ASSUME NEW d \in Nat, NEW a \in Nat, NEW l \in Nat, NEW s \in Nat, NEW t \in Nat,
         l <= s - a, d + s <= t
  PROVE  d + a \in Nat /\ d + a + l <= t
  OBVIOUS

(* A Read or a ReadAt returns.                                             *)
LEMMA ReturnF == ASSUME FInv, NEW c \in Readers, Return(c) PROVE FInv'
<1>. DEFINE i == sr[c].file
            size == tar.data[i]
            at == op[c].at
            cut == op[c].kind = "ReadAt" /\ call'[c].len < op[c].len
            len == op[c].len
<1>0. IInv'
  BY NextIInv DEF FInv, Next
<1>1. /\ Returns(c) /\ UNCHANGED <<runVars, phase, tar, remote, n, files, reads>>
      /\ op' = [op EXCEPT ![c].data = call'[c].data,
                          ![c].err = IF cut /\ call'[c].err = "nil" THEN "EOF" ELSE call'[c].err]
      /\ sr' = [sr EXCEPT ![c].off = IF op[c].kind = "Read" THEN @ + Len(call'[c].data) ELSE @]
  BY DEF Return, runVars
<1>2. /\ c \in Actor /\ sr[c] \in [file : Nat, off : Nat] /\ FileReader(c) /\ Listed
      /\ call \in [Actor -> CallRecord] /\ fetches \in [Actor -> 0..MaxFetches] /\ reads \in 0..MaxReads
      /\ op[c] \in OpRecord
  BY ReaderTyped DEF OpRecord
<1>3. op \in [Readers -> OpRecord] /\ sr \in [Readers -> [file : Nat, off : Nat]]
  BY DEF FInv, FileReaders, OpRecord
<1>4. Typed /\ Calls /\ Placed
  BY DEF FInv, IInv
<1>5. PICK k \in 0..call[c].len, err \in Errors :
         /\ Promised(c, k, err)
         /\ Len(call'[c].data) = k /\ call'[c].data = [j \in 1..k |-> call[c].off + j - 1]
         /\ call'[c].err = err /\ call'[c].early = call[c].early /\ call'[c].len = call[c].len
         /\ call' \in [Actor -> CallRecord]
         /\ busy[c] /\ ~busy'[c]
         /\ \A d \in Actor : d # c => call'[d] = call[d] /\ busy'[d] = busy[d]
         /\ UNCHANGED <<indexed, faulty, fetches, ret, faults>>
  BY <1>1, <1>2, <1>4, CallReturns
<1>6. /\ op[c].kind # "none" /\ i > 0 /\ phase = "ready" /\ at < size
      /\ call[c].off = DataStart(tar, i) + at /\ call[c].len = Min({len, size - at})
  BY <1>2, <1>5 DEF FileReader
<1>7. /\ size \in Nat /\ DataStart(tar, i) \in Nat /\ at \in Nat /\ len \in Nat /\ i \in 1..Len(files)
  BY <1>2, <1>6, ReaderTyped DEF OpRecord
<1>8. /\ call[c].len \in Nat /\ call[c].len <= len /\ call[c].len <= size - at
      /\ call[c].len = len \/ call[c].len = size - at
      /\ k \in Nat /\ k <= call[c].len
  <2>1. len \in Int /\ size - at \in Nat
    BY <1>6, <1>7
  <2>2. call[c].len = IF len <= size - at THEN len ELSE size - at
    BY <1>6, <2>1, MinMax
  <2>. QED  BY <1>7, <2>1, <2>2
<1>9. DataStart(tar, i) + size <= tar.size /\ tar.size \in Nat
  <2>1. DataEnd(tar, i) <= tar.size
    BY <1>4, <1>6, <1>7 DEF Placed
  <2>. QED  BY <1>2, <2>1, ListedTyped DEF DataEnd
<1>10. /\ call[c].off \in Nat /\ call[c].off + call[c].len <= tar.size
  <2>1. PICK d \in Nat : d = DataStart(tar, i)
    BY <1>7
  <2>2. call[c].off = d + at /\ d + size <= tar.size
    BY <1>6, <1>9, <2>1
  <2>3. d + at \in Nat /\ d + at + call[c].len <= tar.size
    <3>1. PICK l \in Nat : l = call[c].len
      BY <1>8
    <3>2. PICK t \in Nat : t = tar.size
      BY <1>9
    <3>3. PICK s \in Nat : s = size
      BY <1>7
    <3>4. PICK a \in Nat : a = at
      BY <1>7
    <3>5. l <= s - a
      BY <1>8, <3>1, <3>3, <3>4
    <3>6. d + s <= t
      BY <2>2, <3>2, <3>3
    <3>7. d + a \in Nat /\ d + a + l <= t
      BY <3>5, <3>6, Fits
    <3>. QED  BY <3>1, <3>2, <3>4, <3>7
  <2>. QED  BY <2>2, <2>3
<1>11. /\ err = "nil" => k = call[c].len
       /\ err \notin {"EOF", "wrappedEOF"}
       /\ err \notin {"nil", "EOF"} => faulty \/ (call[c].early /\ err = "notFound")
  <2>1. err # "EOF"
    BY <1>5, <1>8, <1>9, <1>10 DEF Promised
  <2>2. err # "wrappedEOF"
    BY <1>5, <1>8, <1>9, <1>10 DEF Promised
  <2>. QED  BY <1>5, <2>1, <2>2 DEF Promised, Errors
<1>. DEFINE e == IF cut /\ err = "nil" THEN "EOF" ELSE err
<1>12. /\ op'[c].data = call'[c].data /\ op'[c].err = e /\ op'[c].kind = op[c].kind
       /\ op'[c].at = at /\ op'[c].len = len /\ op' \in [Readers -> OpRecord]
       /\ \A d \in Readers : d # c => op'[d] = op[d]
  <2>1. call'[c] \in CallRecord /\ e \in Errors
    BY <1>2, <1>5 DEF Errors
  <2>2. call'[c].data \in Seq(Nat)
    BY <2>1 DEF CallRecord
  <2>3. op' = [op EXCEPT ![c] = [op[c] EXCEPT !.data = call'[c].data, !.err = e]]
    BY <1>1, <1>3, <1>5
  <2>. HIDE DEF e, cut
  <2>4. [op[c] EXCEPT !.data = call'[c].data, !.err = e] \in OpRecord
    BY <1>2, <2>1, <2>2 DEF OpRecord
  <2>5. op'[c] = [op[c] EXCEPT !.data = call'[c].data, !.err = e]
    BY <1>3, <2>3
  <2>. QED  BY <1>2, <1>3, <2>3, <2>4, <2>5 DEF OpRecord
<1>13. /\ sr'[c].file = i /\ sr' \in [Readers -> [file : Nat, off : Nat]]
       /\ \A d \in Readers : d # c => sr'[d] = sr[d]
  <2>1. sr[c].off + Len(call'[c].data) \in Nat /\ sr[c].off \in Nat
    BY <1>2, <1>5, <1>8
  <2>. QED  BY <1>1, <1>3, <2>1
<1>14. FileReader(c)'
  BY <1>1, <1>2, <1>5, <1>6, <1>13 DEF FileReader
<1>15. Exact(c)'
  <2>1. Max({0, size - at}) = size - at /\ Min({size - at, len}) = call[c].len
    <3>1. size - at \in Int /\ size - at >= 0 /\ len \in Int
      BY <1>6, <1>7
    <3>2. Max({0, size - at}) = size - at
      <4>1. PICK z \in Int : z = size - at /\ z >= 0
        BY <3>1
      <4>2. Max({0, z}) = z
        BY <4>1, MaxZero
      <4>. QED  BY <4>1, <4>2
    <3>3. {size - at, len} = {len, size - at}
      OBVIOUS
    <3>. QED  BY <1>6, <3>2, <3>3
  <2>2. op'[c].data = [j \in 1..k |-> DataStart(tar, i) + at + j - 1] /\ Len(op'[c].data) = k
    BY <1>5, <1>6, <1>12
  <2>3. CASE e = "nil"
    <3>1. err = "nil" /\ k = call[c].len /\ ~cut
      BY <1>11, <2>3
    <3>2. k = IF op[c].kind = "Read" THEN call[c].len ELSE len
      <4>1. op[c].kind \in {"Read", "ReadAt"}
        BY <1>2, <1>6 DEF OpRecord
      <4>2. op[c].kind = "ReadAt" => call[c].len = len
        BY <1>5, <1>7, <1>8, <3>1
      <4>. QED  BY <3>1, <4>1, <4>2
    <3>3. tar' = tar /\ sr'[c].file = i /\ op'[c].err = "nil" /\ op'[c].kind = op[c].kind /\ op'[c].at = at /\ op'[c].len = len
      BY <1>1, <1>12, <1>13, <2>3
    <3>. QED  BY <1>8, <2>1, <2>2, <3>2, <3>3 DEF Exact
  <2>4. CASE e = "EOF"
    <3>1. cut /\ err = "nil" /\ k = call[c].len
      BY <1>11, <2>4
    <3>2. k = size - at /\ op[c].kind # "Read"
      BY <1>5, <1>7, <1>8, <3>1
    <3>3. tar' = tar /\ sr'[c].file = i /\ op'[c].err = "EOF" /\ op'[c].kind = op[c].kind /\ op'[c].at = at /\ op'[c].len = len
      BY <1>1, <1>12, <1>13, <2>4
    <3>. QED  BY <1>8, <2>1, <2>2, <3>1, <3>2, <3>3 DEF Exact
  <2>5. CASE e \notin {"nil", "EOF"}
    <3>1. err = e /\ (faulty' \/ (call'[c].early /\ err = "notFound"))
      BY <1>5, <1>11, <2>5
    <3>3. tar' = tar /\ sr'[c].file = i /\ op'[c].err = err /\ op'[c].kind = op[c].kind /\ op'[c].at = at /\ op'[c].len = len
      BY <1>1, <1>12, <1>13, <3>1
    <3>. QED  BY <1>8, <2>1, <2>2, <2>5, <3>1, <3>3 DEF Exact
  <2>. QED  BY <2>3, <2>4, <2>5
<1>16. \A d \in Readers : d # c => call'[d] = call[d] /\ busy'[d] = busy[d]
  BY <1>5 DEF Actor
<1>17. fetches' \in [Actor -> 0..MaxFetches] /\ reads' \in 0..MaxReads
  BY <1>1, <1>2, <1>5
<1>. QED  BY <1>0, <1>1, <1>5, <1>6, <1>12, <1>13, <1>14, <1>15, <1>16, <1>17, OneReader DEF OpRecord
---------------------------------------------------------------------------
(* The invariant *)

(* At first nothing is listed, and nobody has called.                      *)
LEMMA InitF == Init => FInv
<1>. SUFFICES ASSUME Init PROVE FInv
  OBVIOUS
<1>0. IInv
  BY InitIInv
<1>1. /\ tar \in Archives /\ remote \in BOOLEAN /\ phase = "stat" /\ n = 0 /\ files = <<>>
      /\ sr = [c \in Readers |-> [file |-> 0, off |-> 0]]
      /\ op = [c \in Readers |-> NoOp] /\ reads = 0 /\ fetches = [a \in Actor |-> 0]
      /\ busy = [a \in Actor |-> FALSE] /\ indexed = FALSE /\ faulty = FALSE /\ faults = 0
      /\ call = [a \in Actor |-> [off |-> 0, len |-> 0, early |-> FALSE, data |-> <<>>, err |-> "nil"]]
  BY DEF Init, Gsip!Init, Gsip!Fresh, Ranger!Init
<1>2. Listed
  <2>1. tar.data \in Seq(Nat) /\ tar.size \in Nat
    BY <1>1, ArchivesAssumption
  <2>2. Len(files) = 0 /\ 0 \in 0..tar.size /\ 0 \in 0..Len(tar.data)
    BY <1>1, <2>1
  <2>3. files = [i \in 1..0 |-> [offset |-> DataStart(tar, i), size |-> tar.data[i]]]
    BY <1>1
  <2>. QED  BY <1>1, <2>2, <2>3 DEF Listed
<1>3. Placed
  <2>1. Len(files) = 0
    BY <1>1
  <2>. QED  BY <1>1, <2>1 DEF Placed
<1>4. Stopped
  BY <1>1 DEF Stopped
<1>5. Calls
  <2>1. <<>> \in Seq(Nat)
    OBVIOUS
  <2>2. call \in [Actor -> [off : Nat, len : Nat, early : BOOLEAN, data : Seq(Nat), err : Errors]]
    BY <1>1, <2>1 DEF Errors
  <2>3. faults \in 0..MaxFaults
    BY <1>1, UrlAssumption
  <2>. QED  BY <1>1, <2>2, <2>3 DEF Calls, Scanning
<1>6. FileReaders
  <2>1. NoOp \in [kind : {"none", "Read", "ReadAt"}, len : Nat, at : Nat, data : Seq(Nat), err : Errors]
    <3>1. <<>> \in Seq(Nat)
      OBVIOUS
    <3>. QED  BY <3>1 DEF NoOp, Errors
  <2>2. op \in [Readers -> [kind : {"none", "Read", "ReadAt"}, len : Nat, at : Nat, data : Seq(Nat), err : Errors]]
    BY <1>1, <2>1
  <2>3. reads \in 0..MaxReads /\ fetches \in [Actor -> 0..MaxFetches]
    BY <1>1, ArchivesAssumption
  <2>4. sr \in [Readers -> [file : Nat, off : Nat]]
    BY <1>1
  <2>5. ASSUME NEW c \in Readers PROVE FileReader(c)
    <3>1. c \in Actor /\ Len(files) = 0
      BY <1>1 DEF Actor
    <3>2. sr[c].file = 0 /\ op[c].kind = "none" /\ ~busy[c]
      BY <1>1, <3>1 DEF NoOp
    <3>. QED  BY <3>1, <3>2 DEF FileReader
  <2>. QED  BY <2>2, <2>3, <2>4, <2>5 DEF FileReaders
<1>7. FilesExact
  BY <1>1 DEF FilesExact, NoOp
<1>. QED  BY <1>0, <1>2, <1>3, <1>4, <1>5, <1>6, <1>7 DEF FInv

(* Nothing of it changes when nothing does.                                *)
LEMMA StutterF == ASSUME FInv, UNCHANGED vars PROVE FInv'
<1>1. /\ UNCHANGED <<tar, remote, phase, n, files, sr, op, reads, fetches>>
      /\ UNCHANGED <<busy, call, indexed, faulty, uri, st, held, ret, faults>>
  BY DEF vars, runVars, fileVars, gsipVars, rangerVars
<1>2. IInv'
  BY NextIInv DEF FInv
<1>3. Listed' /\ Placed'
  BY <1>1 DEF FInv, Listed, Placed
<1>4. Stopped'
  BY <1>1 DEF FInv, Stopped, Uncut, Early
<1>5. Calls'
  BY <1>1 DEF FInv, Calls, Available, Wanted, Limit
<1>6. FileReaders'
  BY <1>1 DEF FInv, FileReaders, FileReader
<1>7. FilesExact'
  BY <1>1 DEF FInv, FilesExact
<1>. QED  BY <1>2, <1>3, <1>4, <1>5, <1>6, <1>7 DEF FInv

(* An operation of a reader keeps it.                                      *)
LEMMA UseF == ASSUME FInv, NEW c \in Readers, Use(c) PROVE FInv'
<1>0. IInv'
  BY NextIInv DEF FInv, Next
<1>1. CASE Open(c)
  BY <1>1, OpenF
<1>2. CASE Seek(c)
  BY <1>2, SeekF
<1>3. CASE Read(c)
  <2>1. PICK len \in ReadLens : Operation(c, "Read", sr[c].off, len)
    BY <1>3 DEF Read
  <2>2. len \in Nat /\ sr[c].off \in Nat
    BY ReaderTyped, ArchivesAssumption
  <2>. QED  BY <1>0, <2>1, <2>2, OperationF
<1>4. CASE ReadAt(c)
  <2>1. PICK len \in ReadLens, at \in SeekTo \cap Nat : Operation(c, "ReadAt", at, len)
    BY <1>4 DEF ReadAt
  <2>2. len \in Nat /\ at \in Nat
    BY ArchivesAssumption
  <2>. QED  BY <1>0, <2>1, <2>2, OperationF
<1>. QED  BY <1>1, <1>2, <1>3, <1>4 DEF Use

(* Every step keeps it.                                                    *)
LEMMA NextF == FInv /\ [Next]_vars => FInv'
<1>. SUFFICES ASSUME FInv, [Next]_vars PROVE FInv'
  OBVIOUS
<1>1. CASE Opening
  BY <1>1, StatF, NewReaderF, ScanNothingF, ScanBeginsF, ScanReturnsF DEF Opening
<1>2. CASE Index
  BY <1>2, IndexF
<1>3. CASE \E a \in Actor : Decompress(a)
  BY <1>3, FileFailsF, FetchF, RequestF, FetchedF DEF Decompress
<1>4. CASE \E c \in Readers : Use(c) \/ Return(c)
  BY <1>4, UseF, ReturnF
<1>5. CASE UNCHANGED vars
  BY <1>5, StutterF
<1>. QED  BY <1>1, <1>2, <1>3, <1>4, <1>5 DEF Next

(* The invariant holds always.                                             *)
LEMMA Inductive == Spec => []FInv
<1>1. Init => FInv
  BY InitF
<1>2. FInv /\ [Next]_vars => FInv'
  BY NextF
<1>. QED  BY <1>1, <1>2, PTL DEF Spec

---------------------------------------------------------------------------
(* What follows from it *)

(* Every variable is of its type (Targz.tla): the cursor of the scan never *)
(* passes the end of the tar, and no file is listed that the tar does not  *)
(* have.                                                                   *)
THEOREM FilesTyped == Spec => []TypeOK
<1>1. ASSUME FInv PROVE TypeOK
  <2>1. Typed /\ Listed /\ Calls
    BY <1>1 DEF FInv, IInv
  <2>2. Ranger!TypeOK
    BY <2>1 DEF Typed, Calls, Ranger!TypeOK
  <2>3. \A c \in Readers : sr[c].file \in 0..Len(files) /\ sr[c].off \in Nat
    BY <1>1, ReaderTyped DEF FileReader
  <2>4. \A c \in Readers : op[c].kind \in {"none", "Read", "ReadAt"} /\ reads \in 0..MaxReads
    BY <1>1, ReaderTyped
  <2>5. fetches \in [Actor -> 0..MaxFetches]
    BY <1>1 DEF FInv, FileReaders
  <2>6. Len(files) <= Len(tar.data) /\ tar \in Archives /\ remote \in BOOLEAN /\ n \in 0..tar.size
    BY <2>1, ListedTyped DEF Listed
  <2>7. phase \in Scanning \cup {"stat", "newReader", "ready", "failed"}
    BY <2>1 DEF Typed
  <2>. QED  BY <2>2, <2>3, <2>4, <2>5, <2>6, <2>7 DEF TypeOK
<1>. QED  BY <1>1, Inductive, PTL

(* When run has its FS, the files listed are those whose data the stream   *)
(* has all of.                                                             *)
LEMMA ListedAre ==
  ASSUME FInv, Uncut, phase = "ready"
  PROVE  Cardinality({k \in DOMAIN tar.data : DataEnd(tar, k) <= tar.size}) = Len(files)
<1>1. /\ tar.data \in Seq(Nat) /\ Len(tar.data) \in Nat /\ Len(files) \in Nat /\ Len(files) <= Len(tar.data)
      /\ tar.size \in Nat /\ tar \in Archives /\ Block \in Nat
  BY ListedTyped DEF FInv, Listed
<1>2. \A k \in 1..Len(files) : DataEnd(tar, k) <= tar.size
  BY DEF FInv, Placed
<1>3. \A k \in (Len(files) + 1)..Len(tar.data) : tar.size < DataEnd(tar, k)
  BY DEF FInv, Stopped
<1>4. \A k \in 1..Len(tar.data) : DataEnd(tar, k) \in Nat
  <2>. TAKE k \in 1..Len(tar.data)
  <2>1. /\ tar.data[k] \in Nat /\ EntriesEnd(tar, k - 1) \in Nat
        /\ DataStart(tar, k) = EntriesEnd(tar, k - 1) + Block
    BY <1>1, EntryLies
  <2>2. Block \in Nat
    BY <1>1
  <2>3. DataStart(tar, k) \in Nat
    BY <2>1, <2>2
  <2>. QED  BY <2>1, <2>3 DEF DataEnd
<1>5. \A k \in 1..Len(tar.data) : DataEnd(tar, k) <= tar.size <=> k \in 1..Len(files)
  <2>. TAKE k \in 1..Len(tar.data)
  <2>1. CASE k <= Len(files)
    BY <1>1, <1>2, <2>1
  <2>2. CASE k > Len(files)
    <3>1. k \in (Len(files) + 1)..Len(tar.data) /\ k \notin 1..Len(files)
      BY <1>1, <2>2
    <3>. QED  BY <1>1, <1>3, <1>4, <3>1
  <2>. QED  BY <1>1, <2>1, <2>2
<1>6. DOMAIN tar.data = 1..Len(tar.data)
  BY <1>1
<1>7. {k \in DOMAIN tar.data : DataEnd(tar, k) <= tar.size} = 1..Len(files)
  BY <1>1, <1>5, <1>6
<1>8. Cardinality(1..Len(files)) = Len(files)
  <2>1. PICK m \in Nat : m = Len(files)
    BY <1>1
  <2>2. 1 \in Int /\ m \in Int
    OBVIOUS
  <2>3. Cardinality(1..m) = IF 1 > m THEN 0 ELSE m - 1 + 1
    BY <2>2, FS_Interval
  <2>. QED  BY <2>1, <2>3
<1>. QED  BY <1>7, <1>8

(* The FS lists every file the stream has, where it is, and run fails only *)
(* for a reason (tarfs.go:317-349, main.go:23-66), as long as a remote     *)
(* archive's tar is no longer than the compressed file, the length that    *)
(* run passes for it.                                                      *)
THEOREM Listing == Spec => [](Uncut => ListsAll)
<1>1. ASSUME FInv, Uncut PROVE ListsAll
  <2>1. phase = "failed" => faults > 0 \/ ret[Opener] # "nil" \/ Early \/ Truncated(tar)
    BY <1>1 DEF FInv, Stopped
  <2>2. files = [i \in 1..Len(files) |-> [offset |-> DataStart(tar, i), size |-> tar.data[i]]]
    BY <1>1 DEF FInv, Listed
  <2>3. ASSUME phase = "ready"
        PROVE  Cardinality({k \in DOMAIN tar.data : DataEnd(tar, k) <= tar.size}) = Len(files)
    BY <1>1, <2>3, ListedAre
  <2>. QED  BY <2>1, <2>2, <2>3 DEF ListsAll
<1>2. FInv => (Uncut => ListsAll)
  BY <1>1
<1>. QED  BY <1>2, Inductive, PTL

(* A Read or a ReadAt of a file returns that file's bytes and none of its  *)
(* neighbours', and io.EOF only at its end (tarfs.go:81-91, 234-238;       *)
(* gsip.go:178-204).                                                       *)
THEOREM FilesRead == Spec => []FilesExact
<1>1. FInv => FilesExact
  BY DEF FInv
<1>. QED  BY <1>1, Inductive, PTL
=============================================================================
