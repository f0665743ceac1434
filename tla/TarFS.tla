------------------------------- MODULE TarFS -------------------------------
(***************************************************************************)
(* tarfs.FS (tarfs/tarfs.go): a file system over the entries of a tar.     *)
(*                                                                         *)
(* A name or a link target is the string split at its slashes, so that all *)
(* strings the code distinguishes are there: "a/b" is <<"a", "b">>, "/a"   *)
(* is <<"", "a">>, "a/" is <<"a", "">>, "" is <<"">>.  An entry's Offset   *)
(* is the number of its header in the tar.                                 *)
(*                                                                         *)
(* New and Decode are operators.  What takes several steps is an action:   *)
(* a round of open (a link followed), a ReadDir on a file that keeps a     *)
(* cursor, a step of fs.WalkDir.                                           *)
(***************************************************************************)
EXTENDS Integers, Sequences, FiniteSets, SequencesExt, FiniteSetsExt

CONSTANTS
  Tars,     \* the tars mounted: sequences of Headers
  Paths,    \* the names opened
  Counts,   \* the arguments of File.ReadDir
  MaxHops,  \* links followed in one Open, at most: 255 in the code
  Alphabet  \* the path components in ascending order

Path   == Seq(ToSet(Alphabet))
Header == [name : Path, type : {"file", "dir", "symlink", "link"}, link : Path]

ASSUME TarsAssumption ==
  /\ Tars \subseteq Seq(Header) /\ Paths \subseteq Path /\ <<>> \notin Paths
  /\ \A t \in Tars : \A i \in DOMAIN t : t[i].name # <<>> /\ t[i].link # <<>>
  /\ Counts \subseteq Int /\ MaxHops \in Nat
  /\ Alphabet \in Seq(STRING) /\ {"", ".", ".."} \subseteq ToSet(Alphabet)

---------------------------------------------------------------------------
(* Package path *)

Empty == <<"">>
Dot   == <<".">>

HasSlash(p) == Len(p) > 1
IsAbs(p)    == HasSlash(p) /\ Head(p) = ""

(* Clean, element by element: a ".." takes back the element before it.     *)
Push(rooted, elems, e) ==
  IF e \in {"", "."} THEN elems
  ELSE IF e # ".." THEN Append(elems, e)
  ELSE IF elems # <<>> /\ Last(elems) # ".." THEN Front(elems)
  ELSE IF rooted THEN elems ELSE Append(elems, e)

Clean(p) ==
  LET upTo[i \in 0..Len(p)] == IF i = 0 THEN <<>> ELSE Push(IsAbs(p), upTo[i - 1], p[i])
      elems == upTo[Len(p)]
  IN  IF IsAbs(p) THEN (IF elems = <<>> THEN <<"", "">> ELSE Empty \o elems)
      ELSE IF elems = <<>> THEN Dot ELSE elems

(* The names that are not empty, one after the other.                      *)
Join(ps) ==
  LET upTo[i \in 0..Len(ps)] ==
        IF i = 0 THEN <<>> ELSE IF ps[i] = Empty THEN upTo[i - 1] ELSE upTo[i - 1] \o ps[i]
      names == upTo[Len(ps)]
  IN  IF names = <<>> THEN Empty ELSE Clean(names)

DirOf(p) == IF HasSlash(p) THEN Clean(Append(Front(p), "")) ELSE Dot

(* The last element, trailing slashes aside; "/" for a string of slashes.  *)
BaseOf(p) ==
  LET named == {i \in DOMAIN p : p[i] # ""}
  IN  IF named # {} THEN <<p[Max(named)]>> ELSE IF HasSlash(p) THEN <<"", "">> ELSE Dot

(* tar.Header.FileInfo().Name() *)
NameOf(h) == BaseOf(IF h.type = "dir" THEN Clean(h.name) ELSE h.name)

Rank(p) == CHOOSE i \in DOMAIN Alphabet : Alphabet[i] = (IF Len(p) = 1 THEN p[1] ELSE "")

---------------------------------------------------------------------------
(* New, Encode and Decode *)

(* Trim a suffix "/", a prefix "/" and a prefix "./", once each. *)
normalize(s) ==
  LET a == IF HasSlash(s) /\ Last(s) = "" THEN Front(s) ELSE s
      b == IF HasSlash(a) /\ Head(a) = "" THEN Tail(a) ELSE a
  IN  IF HasSlash(b) /\ Head(b) = "." THEN Tail(b) ELSE b

\* Mutant of ParentOf: the root is an entry of its own.
ParentOfPlain(filename) == DirOf(filename)

(* "If the tar contains a "." entry, we don't want ReadDir() to return     *)
(* itself."                                                                *)
ParentOf(filename) == IF filename = Dot THEN Empty ELSE DirOf(filename)

EntryOf(h, offset) ==
  [header |-> h, offset |-> offset, filename |-> normalize(h.name),
   dir |-> ParentOf(normalize(h.name))]

(* The root that is synthesized if the tar has none.                       *)
Synthetic ==
  [header |-> [name |-> Dot, type |-> "dir", link |-> Empty], offset |-> 0,
   filename |-> Dot, dir |-> Dot]

(* Of entries with one name the last is found; the listing has them all,   *)
(* sorted by name (those with one name in the order of the tar, as the     *)
(* insertion sort of slices.SortFunc leaves a dozen of entries).           *)
IndexOf(files) ==
  [n \in {files[i].filename : i \in DOMAIN files} |->
     Max({i \in DOMAIN files : files[i].filename = n})]

Listing(files, d) ==
  LET those     == {i \in DOMAIN files : files[i].dir = d}
      rank(i)   == Rank(NameOf(files[i].header))
      before(i) == {j \in those : rank(j) < rank(i) \/ (rank(j) = rank(i) /\ j < i)}
  IN  [k \in 1..Cardinality(those) |->
         files[CHOOSE i \in those : Cardinality(before(i)) = k - 1]]

RootOf(files) ==
  LET roots == {i \in DOMAIN files : files[i].dir = Empty}
  IN  IF roots = {} THEN Synthetic ELSE files[Max(roots)]

Mounted(files) ==
  [files |-> files, index |-> IndexOf(files), root |-> RootOf(files),
   dirs |-> [d \in {files[i].dir : i \in DOMAIN files} |-> Listing(files, d)]]

New(t) == Mounted([i \in DOMAIN t |-> EntryOf(t[i], i)])

(* The exported fields of the entries. *)
Encode(fs) ==
  [i \in DOMAIN fs.files |->
     [header |-> fs.files[i].header, offset |-> fs.files[i].offset,
      filename |-> fs.files[i].filename]]

\* Mutant of DecodedDir: Decode without the special case that New has.
DecodedDirPlain(filename) == DirOf(filename)

DecodedDir(filename) ==
  IF filename = Dot /\ DirOf(filename) = Dot THEN Empty ELSE DirOf(filename)

Decode(toc) ==
  Mounted([i \in DOMAIN toc |->
             [header |-> toc[i].header, offset |-> toc[i].offset,
              filename |-> toc[i].filename, dir |-> DecodedDir(toc[i].filename)]])

---------------------------------------------------------------------------
VARIABLES
  fsys,     \* the FS that New made
  pc,       \* "idle", "open" or "walk"
  asked,    \* the name Open was called with
  name,     \* the name open is at
  hops,     \* and the links it has followed
  file,     \* the Entry of the file opened last, or NoFile
  cursor,   \* its cursor
  listed,   \* history: what its ReadDirs have returned
  atEnd,    \* the last ReadDir returned io.EOF
  todo,     \* fs.WalkDir: paths and entries still to be visited
  visited   \* and the paths visited

openVars == <<asked, name, hops>>
fileVars == <<file, cursor, listed, atEnd>>
walkVars == <<todo, visited>>
vars == <<fsys, pc, openVars, fileVars, walkVars>>

NoEntry(n) ==
  [header |-> [name |-> Dot, type |-> "file", link |-> Empty], offset |-> n,
   filename |-> Dot, dir |-> Dot]

NoFile   == NoEntry(-1)
NotExist == NoEntry(-2)
TooMany  == NoEntry(-3)
IsFile(f) == f.offset >= 0

Init ==
  /\ \E tar \in Tars : fsys = New(tar)
  /\ pc = "idle" /\ asked = Dot /\ name = Dot /\ hops = 0
  /\ file = NoFile /\ cursor = 0 /\ listed = <<>> /\ atEnd = FALSE
  /\ todo = <<>> /\ visited = <<>>

Has(n)   == n \in DOMAIN fsys.index
Entry(n) == fsys.files[fsys.index[n]]

---------------------------------------------------------------------------
(* Open *)

(* Open returns a new File, or no file and an error. *)
Opened(f) ==
  /\ file' = f
  /\ cursor' = 0 /\ listed' = <<>> /\ atEnd' = FALSE
  /\ pc' = "idle"

OpenRoot ==
  /\ pc = "idle" /\ visited = <<>> /\ Dot \in Paths
  /\ asked' = Dot /\ name' = Dot /\ hops' = 0
  /\ Opened(fsys.root)
  /\ UNCHANGED <<fsys, walkVars>>

Open ==
  /\ pc = "idle" /\ visited = <<>>
  /\ \E p \in Paths \ {Dot} : asked' = p /\ name' = p
  /\ hops' = 0 /\ pc' = "open"
  /\ UNCHANGED <<fsys, fileVars, walkVars>>

TooDeepNever == FALSE   \* mutant of TooDeep

TooDeep == hops > MaxHops

TooManyLinks ==
  /\ pc = "open" /\ TooDeep
  /\ Opened(TooMany)
  /\ UNCHANGED <<fsys, openVars, walkVars>>

At(types) == pc = "open" /\ ~TooDeep /\ Has(name) /\ Entry(name).header.type \in types

Found ==
  /\ At({"file", "dir"})
  /\ Opened(Entry(name))
  /\ UNCHANGED <<fsys, openVars, walkVars>>

GotoFree(n) ==   \* mutant of Goto: hops stays as it is
  /\ name' = n /\ hops' = hops
  /\ UNCHANGED <<fsys, pc, asked, fileVars, walkVars>>

(* open calls itself with another name. *)
Goto(n) ==
  /\ name' = n /\ hops' = hops + 1
  /\ UNCHANGED <<fsys, pc, asked, fileVars, walkVars>>

(* Where the link of an entry leads.                                       *)
Target(e) ==
  LET link == e.header.link
  IN  IF IsAbs(link) \/ e.header.type = "link" THEN normalize(link) ELSE Join(<<e.dir, link>>)

FollowLink ==
  /\ At({"symlink", "link"})
  /\ Goto(Target(Entry(name)))

IsSymlink(n) == Has(n) /\ Entry(n).header.type = "symlink"

(* The first directory of name that is a symbolic link. *)
LinkedDir(i) ==
  /\ IsSymlink(SubSeq(name, 1, i))
  /\ \A j \in 1..(i - 1) : ~IsSymlink(SubSeq(name, 1, j))

\* Mutant of Rest: the link's name stays in front of what comes after it.
RestWhole(i) == name

(* strings.TrimPrefix(name, dir): what remains begins with a slash.        *)
Rest(i) == Empty \o SubSeq(name, i + 1, Len(name))

FollowDir ==
  /\ pc = "open" /\ ~TooDeep /\ ~Has(name)
  /\ \E i \in 1..(Len(name) - 1) :
       /\ LinkedDir(i)
       /\ LET e    == Entry(SubSeq(name, 1, i))
              link == e.header.link
          IN  Goto(IF IsAbs(link) THEN normalize(Join(<<link, Rest(i)>>))
                                  ELSE Join(<<e.dir, link, Rest(i)>>))

Missing ==
  /\ pc = "open" /\ ~TooDeep /\ ~Has(name)
  /\ \A i \in 1..(Len(name) - 1) : ~LinkedDir(i)
  /\ Opened(NotExist)
  /\ UNCHANGED <<fsys, openVars, walkVars>>

---------------------------------------------------------------------------
(* ReadDir *)

ReadDir(n) == IF n \in DOMAIN fsys.dirs THEN fsys.dirs[n] ELSE <<>>

Left == Len(ReadDir(file.filename)) - cursor

CursorAfter(n) == IF n > 0 /\ Left > n THEN cursor + n ELSE cursor + Left

ChunkFromStart(n) == SubSeq(ReadDir(file.filename), 1, CursorAfter(n))   \* mutant of Chunk

(* The next n entries, or all that are left.                               *)
Chunk(n) == SubSeq(ReadDir(file.filename), cursor + 1, CursorAfter(n))

(* File.ReadDir *)
FileReadDir ==
  /\ pc = "idle" /\ IsFile(file)
  /\ \E n \in Counts \ {0} :
       /\ cursor' = CursorAfter(n)
       /\ listed' = listed \o Chunk(n)
       /\ atEnd' = (Left = 0 /\ n > 0)
  /\ UNCHANGED <<fsys, pc, openVars, file, walkVars>>

(* fs.WalkDir: visit a path; if it is a directory, what it lists comes     *)
(* next.  It shares nothing with open files: a behaviour does the one or   *)
(* the other.                                                              *)
Walk ==
  /\ pc = "idle" /\ visited = <<>> /\ file = NoFile
  /\ pc' = "walk"
  /\ todo' = << <<Dot, fsys.root.header.type = "dir">> >>
  /\ UNCHANGED <<fsys, openVars, fileVars, visited>>

Children(p) ==
  [i \in DOMAIN ReadDir(p) |->
     LET e == ReadDir(p)[i] IN <<Join(<<p, NameOf(e.header)>>), e.header.type = "dir">>]

Visit ==
  /\ pc = "walk" /\ todo # <<>>
  /\ LET p == Head(todo)
     IN  /\ visited' = Append(visited, p[1])
         /\ todo' = (IF p[2] THEN Children(p[1]) ELSE <<>>) \o Tail(todo)
  /\ UNCHANGED <<fsys, pc, openVars, fileVars>>

Walked ==
  /\ pc = "walk" /\ todo = <<>>
  /\ pc' = "idle"
  /\ UNCHANGED <<fsys, openVars, fileVars, walkVars>>

---------------------------------------------------------------------------
Work ==
  \/ TooManyLinks \/ Found \/ FollowLink \/ FollowDir \/ Missing
  \/ Visit \/ Walked

Next == OpenRoot \/ Open \/ FileReadDir \/ Walk \/ Work

Spec == Init /\ [][Next]_vars

(* Open and fs.WalkDir go on until they return. *)
FairSpec == Spec /\ WF_vars(Work)

---------------------------------------------------------------------------
(* Properties *)

EntryType ==
  [header : Header, offset : Int, filename : Path, dir : Path]

(* Every variable has its type; the cursor stays within the listing        *)
(* (tarfs.go:115-122 slices it), and open within its hops.                 *)
TypeOK ==
  /\ fsys.files \in Seq(EntryType) /\ fsys.root \in EntryType
  /\ \A n \in DOMAIN fsys.index : n \in Path /\ fsys.index[n] \in DOMAIN fsys.files
  /\ \A d \in DOMAIN fsys.dirs : d \in Path /\ fsys.dirs[d] \in Seq(EntryType)
  /\ pc \in {"idle", "open", "walk"}
  /\ asked \in Path /\ name \in Path /\ hops \in 0..(MaxHops + 1)
  /\ file \in EntryType /\ listed \in Seq(EntryType) /\ atEnd \in BOOLEAN
  /\ cursor \in 0..Len(ReadDir(file.filename))
  /\ todo \in Seq(Path \X BOOLEAN) /\ visited \in Seq(Path)

(* Decode gives the FS that New gave, although dir is not encoded and has  *)
(* to be computed again, and the root found again (tarfs.go:331-374 and    *)
(* 403-443).                                                               *)
DecodeAgrees == Decode(Encode(fsys)) = fsys

(* The reference for open: resolve a path the way an operating system does, *)
(* component by component, at being the directory reached and rest what is *)
(* to follow.  The number of the entry, or -1 if there is none.            *)
Resolve[s \in [fuel : Nat, at : Path, rest : Path]] ==
  IF s.fuel = 0 THEN -1
  ELSE IF s.rest = <<>> THEN
    IF s.at = <<>> THEN fsys.root.offset
    ELSE IF ~Has(s.at) THEN -1
    ELSE IF Entry(s.at).header.type = "link"
      THEN Resolve[[fuel |-> s.fuel - 1, at |-> <<>>, rest |-> Entry(s.at).header.link]]
    ELSE Entry(s.at).offset
  ELSE
    LET e    == Head(s.rest)
        next == Append(s.at, e)
    IN  IF e \in {"", "."} THEN Resolve[[s EXCEPT !.rest = Tail(@)]]
        ELSE IF e = ".." THEN
          Resolve[[s EXCEPT !.at = IF @ = <<>> THEN @ ELSE Front(@), !.rest = Tail(@)]]
        ELSE IF Has(next) /\ Entry(next).header.type = "symlink" THEN
          LET link == Entry(next).header.link
          IN  Resolve[[fuel |-> s.fuel - 1, at |-> IF IsAbs(link) THEN <<>> ELSE s.at,
                       rest |-> link \o Tail(s.rest)]]
        ELSE Resolve[[s EXCEPT !.at = next, !.rest = Tail(@)]]

Resolved(p) == Resolve[[fuel |-> MaxHops + 1, at |-> <<>>, rest |-> p]]

(* Open finds the entry that resolving the path component by component     *)
(* leads to, through links to files and to directories, relative, absolute *)
(* and chained, and nothing if that leads nowhere or around in a circle    *)
(* (tarfs.go:188-241).                                                     *)
OpenExact ==
  pc = "idle" /\ file # NoFile /\ asked # Dot =>
    IF Resolved(asked) = -1 THEN ~IsFile(file) ELSE file.offset = Resolved(asked)

(* What io/fs calls a valid path.                                          *)
ValidPath(p) == p = Dot \/ (p # <<>> /\ \A i \in DOMAIN p : p[i] \notin {"", ".", ".."})

(* An entry of either kind of link, and a link whose ".."s come first.     *)
IsLink(n) == Entry(n).header.type \in {"symlink", "link"}
Climbs(link) == \A j, k \in DOMAIN link : j < k /\ link[k] = ".." => link[j] \in {"", ".", ".."}

(* For which tars that holds, whatever is in them and however deep they    *)
(* are: nothing is stored below a symbolic link, whose name open would     *)
(* find before it follows the link; a link leads to the name of an entry   *)
(* there could be, neither to the root nor out of it; and a relative one   *)
(* climbs first, for Join takes a ".." as text and would climb out of a    *)
(* link's name instead of what it leads to.                                *)
Straight ==
  /\ ValidPath(asked)
  /\ \A n \in DOMAIN fsys.index :
       ValidPath(n) /\ n # Dot =>
         /\ \A k \in 1..(Len(n) - 1) : ~IsSymlink(SubSeq(n, 1, k))
         /\ IsLink(n) => ValidPath(Target(Entry(n))) /\ Target(Entry(n)) # Dot
         /\ IsSymlink(n) /\ ~IsAbs(Entry(n).header.link) => Climbs(Entry(n).header.link)

(* Open returns, whatever the links (tarfs.go:190-192).                    *)
OpenReturns == pc = "open" ~> pc = "idle"

(* A file's ReadDirs return every entry of the directory once, in order,   *)
(* whatever the sequence of their arguments, and io.EOF only when there is *)
(* nothing left (tarfs.go:97-125).                                         *)
ListedOnce ==
  IsFile(file) =>
    /\ listed = SubSeq(ReadDir(file.filename), 1, cursor)
    /\ atEnd => cursor = Len(ReadDir(file.filename))

(* Every name is a valid path, every name is there once, and every         *)
(* directory, the root too, is an entry itself or made up.                 *)
WellFormed ==
  /\ fsys.root.header.type = "dir"
  /\ \A i \in DOMAIN fsys.files : ValidPath(fsys.files[i].filename)
  /\ \A i, j \in DOMAIN fsys.files :
       fsys.files[i].filename = fsys.files[j].filename => i = j
  /\ \A i \in DOMAIN fsys.files :
       LET d == fsys.files[i].dir
       IN  d \in {Dot, Empty} \/ (Has(d) /\ Entry(d).header.type = "dir")

(* fs.WalkDir visits no path twice, and when it returns it has visited     *)
(* every entry, under the name by which main looks it up (tarfs.go:334-374, *)
(* main.go:69-80).                                                         *)
WalkVisitsOnce ==
  WellFormed =>
    /\ \A i, j \in DOMAIN visited : visited[i] = visited[j] => i = j
    /\ visited # <<>> /\ todo = <<>> =>
         ToSet(visited) = {Dot} \cup {fsys.files[i].filename : i \in DOMAIN fsys.files}
=============================================================================
