---------------------------- MODULE TarFSProofs ----------------------------
(***************************************************************************)
(* Proofs about tarfs.FS (TarFS.tla), for every set of tars, names and     *)
(* sequence of ReadDirs: Decode gives New's FS, every variable keeps its   *)
(* type, a directory read in pieces gives each entry once, fs.WalkDir      *)
(* visits every path once, and open finds what resolving its name          *)
(* component by component leads to.                                        *)
(*                                                                         *)
(* The lemmas come in the order of the code: package path, New, the file   *)
(* system's variables, ReadDir; then names that Clean leaves alone, which  *)
(* fs.WalkDir joins again from what the listings give, and the walk; then  *)
(* Resolve without its recursion, what Join makes of a link and of what    *)
(* follows it, and open.                                                   *)
(***************************************************************************)
EXTENDS TarFS, SequenceTheorems, FiniteSetTheorems, Induction, TLAPS

---------------------------------------------------------------------------
(* Sequences and numbers *)

(* What a path is made of.                                                 *)
Element == ToSet(Alphabet)

(* Sequences of one and of two are sequences.                              *)
LEMMA Shorts ==
  ASSUME NEW S, NEW a \in S, NEW b \in S
  PROVE  <<a>> \in Seq(S) /\ <<a, b>> \in Seq(S)
OBVIOUS

(* The elements the code tests for are in the alphabet.                    *)
LEMMA Elements ==
  /\ "" \in Element /\ "." \in Element /\ ".." \in Element
  /\ Path = Seq(Element)
BY TarsAssumption DEF Element, Path

(* A sequence of elements is a path, and a path is one.                    *)
LEMMA IsPath ==
  ASSUME NEW p \in Seq(Element)
  PROVE  /\ p \in Path /\ Len(p) \in Nat /\ DOMAIN p = 1..Len(p)
         /\ \A k \in 1..Len(p) : p[k] \in Element
<1>1. p \in Path
  BY Elements
<1>. QED  BY <1>1

(* And a path is a sequence of elements.                                   *)
LEMMA PathIs ==
  ASSUME NEW p \in Path
  PROVE  /\ p \in Seq(Element) /\ Len(p) \in Nat /\ DOMAIN p = 1..Len(p)
         /\ \A k \in 1..Len(p) : p[k] \in Element
<1>1. p \in Seq(Element)
  BY Elements
<1>. QED  BY <1>1

(* The paths that the code spells out.                                     *)
LEMMA Constants ==
  /\ <<>> \in Path /\ Empty \in Path /\ Dot \in Path /\ <<"", "">> \in Path
  /\ \A e \in Element : <<e>> \in Path
<1>1. /\ <<>> \in Seq(Element) /\ <<"">> \in Seq(Element) /\ <<".">> \in Seq(Element)
      /\ <<"", "">> \in Seq(Element) /\ \A e \in Element : <<e>> \in Seq(Element)
  <2>1. "" \in Element /\ "." \in Element
    BY Elements
  <2>2. <<>> \in Seq(Element)
    OBVIOUS
  <2>3. \A e \in Element : <<e>> \in Seq(Element)
    BY Shorts
  <2>. QED  BY <2>1, <2>2, <2>3, Shorts
<1>. QED  BY <1>1, IsPath DEF Empty, Dot

(* All of a sequence but its last element.                                 *)
LEMMA FrontLast ==
  ASSUME NEW S, NEW s \in Seq(S), s # <<>>
  PROVE  /\ Front(s) \in Seq(S) /\ Len(Front(s)) = Len(s) - 1 /\ Len(s) \in Nat \ {0}
         /\ \A i \in 1..(Len(s) - 1) : Front(s)[i] = s[i]
         /\ Last(s) = s[Len(s)] /\ Last(s) \in S
<1>1. Len(s) \in Nat \ {0}
  OBVIOUS
<1>2. \A i \in 1..(Len(s) - 1) : s[i] \in S
  BY <1>1
<1>3. 1 \in Int /\ Len(s) - 1 \in Int
  BY <1>1
<1>4. /\ SubSeq(s, 1, Len(s) - 1) \in Seq(S)
      /\ Len(SubSeq(s, 1, Len(s) - 1)) = IF 1 <= Len(s) - 1 THEN (Len(s) - 1) - 1 + 1 ELSE 0
      /\ \A i \in 1..((Len(s) - 1) - 1 + 1) : SubSeq(s, 1, Len(s) - 1)[i] = s[1 + i - 1]
  BY <1>2, <1>3, SubSeqProperties
<1>5. Len(Front(s)) = Len(s) - 1
  <2>1. PICK n \in Nat \ {0} : n = Len(s)
    BY <1>1
  <2>2. Len(Front(s)) = IF 1 <= n - 1 THEN (n - 1) - 1 + 1 ELSE 0
    BY <1>4, <2>1 DEF Front
  <2>. QED  BY <2>1, <2>2
<1>6. \A i \in 1..(Len(s) - 1) : Front(s)[i] = s[i]
  BY <1>1, <1>4 DEF Front
<1>7. Last(s) = s[Len(s)] /\ s[Len(s)] \in S
  BY <1>1 DEF Last
<1>. QED  BY <1>1, <1>4, <1>5, <1>6, <1>7 DEF Front

(* A set of indices that is not empty has a greatest one.                  *)
LEMMA Greatest ==
  ASSUME NEW n \in Nat, NEW S, S \subseteq 1..n, S # {}
  PROVE  Max(S) \in S /\ \A i \in S : i <= Max(S)
<1>. DEFINE T == {n - i : i \in S}
<1>1. T \subseteq Nat /\ T # {}
  <2>1. \A i \in S : n - i \in Nat
    OBVIOUS
  <2>. QED  BY <2>1
<1>2. PICK m \in T : \A y \in T : m <= y
  <2>. HIDE DEF T
  <2>. QED  BY <1>1, LeastElement
<1>3. PICK x \in S : m = n - x
  BY <1>2
<1>4. \A i \in S : x >= i
  <2>. TAKE i \in S
  <2>1. n - x <= n - i
    BY <1>2, <1>3
  <2>. QED  BY <2>1
<1>5. Max(S) \in S /\ \A i \in S : Max(S) >= i
  BY <1>4 DEF Max
<1>. QED  BY <1>5

---------------------------------------------------------------------------
(* Paths are sequences of elements *)

(* Clean keeps elements of the path, and adds none.                        *)
LEMMA PushType ==
  ASSUME NEW r, NEW l \in Path, NEW e \in Element
  PROVE  Push(r, l, e) \in Path
<1>1. l \in Seq(Element)
  BY PathIs
<1>2. Append(l, e) \in Seq(Element)
  BY <1>1
<1>3. l # <<>> => Front(l) \in Seq(Element)
  BY <1>1, FrontLast
<1>. QED  BY <1>2, <1>3, IsPath DEF Push

(* The elements that Clean keeps, after every element.                     *)
IsCleaning(p, e) ==
  /\ e \in [0..Len(p) -> Path] /\ e[0] = <<>>
  /\ \A k \in 1..Len(p) : e[k] = Push(IsAbs(p), e[k - 1], p[k])

Cleaned(p, elems) ==
  IF IsAbs(p) THEN (IF elems = <<>> THEN <<"", "">> ELSE Empty \o elems)
  ELSE IF elems = <<>> THEN Dot ELSE elems

(* What Clean computes, without recursion: there are such elements, one    *)
(* set after every element of the path.                                    *)
LEMMA Cleaning ==
  ASSUME NEW p \in Path
  PROVE  \E e : IsCleaning(p, e) /\ Clean(p) = Cleaned(p, e[Len(p)])
<1>. DEFINE L == Len(p)
            R == IsAbs(p)
            g == [x \in Nat \X Path |->
                    IF x[1] + 1 \in 1..L THEN Push(R, x[2], p[x[1] + 1]) ELSE <<>>]
            Is(F) == F = [i \in 0..L |-> IF i = 0 THEN <<>> ELSE Push(R, F[i - 1], p[i])]
            E == CHOOSE F : Is(F)
<1>0. L \in Nat /\ <<>> \in Path /\ \A k \in 1..L : p[k] \in Element
  BY PathIs, Constants
<1>1. \A k \in 1..L : \A l \in Path : Push(R, l, p[k]) \in Path
  BY <1>0, PushType
<1>. HIDE DEF L, R
<1>2. g \in [Nat \X Path -> Path]
  BY <1>0, <1>1
<1>3. PICK F \in [0..L -> Path] : IsRecursiveUpTo(g, <<>>, F, L)
  <2>. HIDE DEF g
  <2>. QED  BY <1>0, <1>2, RecursiveUpTo
<1>4. \A k \in 1..L : F[k] = Push(R, F[k - 1], p[k])
  <2>. TAKE k \in 1..L
  <2>1. k - 1 \in Nat /\ k - 1 \in 0..L /\ (k - 1) + 1 = k /\ k \in 0..L /\ k # 0
    BY <1>0
  <2>2. F[k] = g[<<k - 1, F[k - 1]>>]
    <3>. HIDE DEF g
    <3>. QED  BY <1>3, <2>1 DEF IsRecursiveUpTo
  <2>3. F[k - 1] \in Path
    BY <1>3, <2>1
  <2>. QED  BY <2>1, <2>2, <2>3
<1>5. F[0] = <<>>
  BY <1>0, <1>3 DEF IsRecursiveUpTo
<1>6. Is(F)
  <2>1. \A k \in 0..L : F[k] = IF k = 0 THEN <<>> ELSE Push(R, F[k - 1], p[k])
    <3>. TAKE k \in 0..L
    <3>1. k = 0 \/ k \in 1..L
      BY <1>0
    <3>2. \A n \in 1..L : n # 0
      OBVIOUS
    <3>. QED  BY <1>4, <1>5, <3>1, <3>2
  <2>2. F = [k \in 0..L |-> F[k]]
    BY <1>3
  <2>. QED  BY <2>1, <2>2
<1>7. Is(E)
  BY <1>6
<1>. HIDE DEF E
<1>8. Clean(p) = Cleaned(p, E[L])
  BY DEF Clean, Cleaned, E, L, R
<1>9. E[0] = <<>> /\ \A k \in 1..L : E[k] = Push(R, E[k - 1], p[k])
  <2>1. 0 \in 0..L /\ \A k \in 1..L : k \in 0..L /\ k # 0
    BY <1>0
  <2>. QED  BY <1>7, <2>1
<1>10. E \in [0..L -> Path]
  <2>. DEFINE S == {k \in Nat : k <= L => E[k] \in Path}
  <2>1. 0 \in S
    BY <1>0, <1>9
  <2>2. ASSUME NEW k \in Nat, k \in S PROVE k + 1 \in S
    <3>. SUFFICES ASSUME k + 1 <= L PROVE E[k + 1] \in Path
      OBVIOUS
    <3>1. k + 1 \in 1..L /\ (k + 1) - 1 = k /\ k <= L
      BY <1>0
    <3>2. E[k] \in Path
      BY <2>2, <3>1
    <3>. QED  BY <1>1, <1>9, <3>1, <3>2
  <2>. HIDE DEF S
  <2>3. Nat \subseteq S
    BY <2>1, <2>2, Induction
  <2>4. \A k \in 0..L : E[k] \in Path
    BY <1>0, <2>3 DEF S
  <2>5. E = [k \in 0..L |-> E[k]]
    BY <1>7
  <2>. QED  BY <2>4, <2>5
<1>11. IsCleaning(p, E)
  BY <1>9, <1>10 DEF IsCleaning, L, R
<1>. QED  BY <1>8, <1>11 DEF L

(* A cleaned path is a path, and never empty.                              *)
LEMMA CleanType == ASSUME NEW p \in Path PROVE Clean(p) \in Path /\ Clean(p) # <<>>
<1>1. PICK e : IsCleaning(p, e) /\ Clean(p) = Cleaned(p, e[Len(p)])
  BY Cleaning
<1>2. e[Len(p)] \in Path
  <2>1. Len(p) \in 0..Len(p)
    BY PathIs
  <2>. QED  BY <1>1, <2>1 DEF IsCleaning
<1>3. PICK l \in Seq(Element) : l = e[Len(p)]
  BY <1>2, PathIs
<1>4. Clean(p) = Cleaned(p, l)
  BY <1>1, <1>3
<1>5. <<"", "">> \in Path /\ Dot \in Path /\ l \in Path
  BY <1>3, Constants, IsPath
<1>6. Empty \o l \in Path /\ Empty \o l # <<>>
  <2>1. Empty \in Seq(Element) /\ Len(Empty) = 1
    BY Constants, PathIs DEF Empty
  <2>2. /\ Empty \o l \in Seq(Element) /\ Len(Empty \o l) = Len(Empty) + Len(l)
        /\ Len(l) \in Nat
    <3>1. l \in Seq(Element) /\ Empty \in Seq(Element)
      BY <1>3, <2>1
    <3>2. \A a, b \in Seq(Element) : a \o b \in Seq(Element) /\ Len(a \o b) = Len(a) + Len(b)
      BY ConcatProperties
    <3>3. Len(l) \in Nat
      BY <3>1
    <3>. QED  BY <3>1, <3>2, <3>3
  <2>3. Empty \o l # <<>>
    <3>1. Len(Empty \o l) # 0
      BY <2>1, <2>2
    <3>. QED  BY <3>1
  <2>. QED  BY <2>2, <2>3, IsPath
<1>7. Dot # <<>> /\ <<"", "">> # <<>>
  BY DEF Dot
<1>. QED  BY <1>4, <1>5, <1>6, <1>7 DEF Cleaned

---------------------------------------------------------------------------
(* Join, DirOf, BaseOf and normalize *)

(* Paths one after the other are a path.                                   *)
LEMMA ConcatType == ASSUME NEW p \in Path, NEW q \in Path PROVE p \o q \in Path
<1>1. p \in Seq(Element) /\ q \in Seq(Element)
  BY PathIs
<1>2. p \o q \in Seq(Element)
  BY <1>1
<1>. QED  BY <1>2, IsPath

(* What Join has put together, after every name.                           *)
IsJoining(ps, e) ==
  /\ e \in [0..Len(ps) -> Path] /\ e[0] = <<>>
  /\ \A k \in 1..Len(ps) : e[k] = IF ps[k] = Empty THEN e[k - 1] ELSE e[k - 1] \o ps[k]

(* What Join computes, without recursion.                                  *)
LEMMA Joining ==
  ASSUME NEW ps \in Seq(Path)
  PROVE  \E e : /\ IsJoining(ps, e)
                /\ Join(ps) = IF e[Len(ps)] = <<>> THEN Empty ELSE Clean(e[Len(ps)])
<1>. DEFINE L == Len(ps)
            Put(l, p) == IF p = Empty THEN l ELSE l \o p
            g == [x \in Nat \X Path |-> IF x[1] + 1 \in 1..L THEN Put(x[2], ps[x[1] + 1]) ELSE <<>>]
            Is(F) == F = [i \in 0..L |-> IF i = 0 THEN <<>>
                                         ELSE IF ps[i] = Empty THEN F[i - 1] ELSE F[i - 1] \o ps[i]]
            E == CHOOSE F : Is(F)
<1>0. L \in Nat /\ <<>> \in Path /\ \A k \in 1..L : ps[k] \in Path
  <2>1. L \in Nat /\ \A k \in 1..L : ps[k] \in Path
    OBVIOUS
  <2>. QED  BY <2>1, Constants
<1>1. \A k \in 1..L : \A l \in Path : Put(l, ps[k]) \in Path
  BY <1>0, ConcatType
<1>. HIDE DEF L
<1>2. g \in [Nat \X Path -> Path]
  <2>. HIDE DEF Put
  <2>. QED  BY <1>0, <1>1
<1>3. PICK F \in [0..L -> Path] : IsRecursiveUpTo(g, <<>>, F, L)
  <2>. HIDE DEF g
  <2>. QED  BY <1>0, <1>2, RecursiveUpTo
<1>4. \A k \in 1..L : F[k] = Put(F[k - 1], ps[k])
  <2>. TAKE k \in 1..L
  <2>1. k - 1 \in Nat /\ k - 1 \in 0..L /\ (k - 1) + 1 = k /\ k \in 0..L /\ k # 0
    BY <1>0
  <2>2. F[k] = g[<<k - 1, F[k - 1]>>]
    <3>. HIDE DEF g
    <3>. QED  BY <1>3, <2>1 DEF IsRecursiveUpTo
  <2>3. F[k - 1] \in Path
    BY <1>3, <2>1
  <2>. HIDE DEF Put
  <2>. QED  BY <2>1, <2>2, <2>3
<1>5. F[0] = <<>>
  BY <1>0, <1>3 DEF IsRecursiveUpTo
<1>6. Is(F)
  <2>1. \A k \in 0..L : F[k] = IF k = 0 THEN <<>>
                               ELSE IF ps[k] = Empty THEN F[k - 1] ELSE F[k - 1] \o ps[k]
    <3>. TAKE k \in 0..L
    <3>1. k = 0 \/ k \in 1..L
      BY <1>0
    <3>2. \A n \in 1..L : n # 0
      OBVIOUS
    <3>. QED  BY <1>4, <1>5, <3>1, <3>2
  <2>2. F = [k \in 0..L |-> F[k]]
    BY <1>3
  <2>. QED  BY <2>1, <2>2
<1>7. Is(E)
  BY <1>6
<1>. HIDE DEF E
<1>8. Join(ps) = IF E[L] = <<>> THEN Empty ELSE Clean(E[L])
  BY DEF Join, E, L
<1>9. E[0] = <<>> /\ \A k \in 1..L : E[k] = Put(E[k - 1], ps[k])
  <2>1. 0 \in 0..L /\ \A k \in 1..L : k \in 0..L /\ k # 0
    BY <1>0
  <2>. QED  BY <1>7, <2>1
<1>10. E \in [0..L -> Path]
  <2>. DEFINE S == {k \in Nat : k <= L => E[k] \in Path}
  <2>1. 0 \in S
    BY <1>0, <1>9
  <2>2. ASSUME NEW k \in Nat, k \in S PROVE k + 1 \in S
    <3>. SUFFICES ASSUME k + 1 <= L PROVE E[k + 1] \in Path
      OBVIOUS
    <3>1. k + 1 \in 1..L /\ (k + 1) - 1 = k /\ k <= L
      BY <1>0
    <3>2. E[k] \in Path
      BY <2>2, <3>1
    <3>3. E[k + 1] = Put(E[k], ps[k + 1])
      BY <1>9, <3>1
    <3>. HIDE DEF Put
    <3>. QED  BY <1>1, <3>1, <3>2, <3>3
  <2>. HIDE DEF S
  <2>3. Nat \subseteq S
    BY <2>1, <2>2, Induction
  <2>4. \A k \in 0..L : E[k] \in Path
    BY <1>0, <2>3 DEF S
  <2>5. E = [k \in 0..L |-> E[k]]
    BY <1>7
  <2>. QED  BY <2>4, <2>5
<1>11. IsJoining(ps, E)
  BY <1>9, <1>10 DEF IsJoining, L
<1>. QED  BY <1>8, <1>11 DEF L

(* Names joined are a path.                                                *)
LEMMA JoinType == ASSUME NEW ps \in Seq(Path) PROVE Join(ps) \in Path
<1>1. PICK e : /\ IsJoining(ps, e)
               /\ Join(ps) = IF e[Len(ps)] = <<>> THEN Empty ELSE Clean(e[Len(ps)])
  BY Joining
<1>2. e[Len(ps)] \in Path
  <2>1. Len(ps) \in 0..Len(ps)
    OBVIOUS
  <2>. QED  BY <1>1, <2>1 DEF IsJoining
<1>. QED  BY <1>1, <1>2, CleanType, Constants

(* The names Join is given.                                                *)
LEMMA Names ==
  ASSUME NEW p \in Path, NEW q \in Path, NEW r \in Path
  PROVE  <<p, q>> \in Seq(Path) /\ <<p, q, r>> \in Seq(Path)
OBVIOUS

(* Less its last element, a path is a path.                                *)
LEMMA FrontType == ASSUME NEW p \in Path, p # <<>> PROVE Front(p) \in Path
BY PathIs, FrontLast, IsPath

(* Less its first element, too.                                            *)
LEMMA TailType == ASSUME NEW p \in Path, p # <<>> PROVE Tail(p) \in Path
<1>1. p \in Seq(Element)
  BY PathIs
<1>2. Tail(p) \in Seq(Element)
  BY <1>1
<1>. QED  BY <1>2, IsPath

(* What has a slash has an element.                                        *)
LEMMA SlashLong == ASSUME NEW p \in Path, HasSlash(p) PROVE p # <<>>
BY PathIs DEF HasSlash

(* The directory of a path is a path.                                      *)
LEMMA DirOfType == ASSUME NEW p \in Path PROVE DirOf(p) \in Path
<1>1. CASE HasSlash(p)
  <2>1. Front(p) \in Seq(Element)
    BY <1>1, SlashLong, FrontType, PathIs
  <2>2. "" \in Element
    BY Elements
  <2>3. Append(Front(p), "") \in Seq(Element)
    BY <2>1, <2>2, AppendProperties
  <2>. QED  BY <1>1, <2>3, IsPath, CleanType DEF DirOf
<1>2. CASE ~HasSlash(p)
  BY <1>2, Constants DEF DirOf
<1>. QED  BY <1>1, <1>2

(* The base of a path is a path of one element, or a slash.                *)
LEMMA BaseOfType == ASSUME NEW p \in Path PROVE BaseOf(p) \in Path /\ Len(BaseOf(p)) \in 1..2
<1>. DEFINE named == {i \in DOMAIN p : p[i] # ""}
<1>1. Len(p) \in Nat /\ named \subseteq 1..Len(p) /\ \A k \in named : p[k] \in Element
  BY PathIs
<1>. HIDE DEF named
<1>2. CASE named # {}
  <2>1. Max(named) \in named
    BY <1>1, <1>2, Greatest
  <2>2. <<p[Max(named)]>> \in Path
    BY <1>1, <2>1, Constants
  <2>3. BaseOf(p) = <<p[Max(named)]>>
    BY <1>2 DEF BaseOf, named
  <2>4. \A e : Len(<<e>>) = 1
    OBVIOUS
  <2>. QED  BY <2>2, <2>3, <2>4
<1>3. CASE named = {}
  <2>1. BaseOf(p) = IF HasSlash(p) THEN <<"", "">> ELSE Dot
    BY <1>3 DEF BaseOf, named
  <2>2. Len(<<"", "">>) = 2 /\ Len(Dot) = 1
    BY DEF Dot
  <2>3. PICK b \in Path : b = BaseOf(p) /\ Len(b) \in {1, 2}
    BY <2>1, <2>2, Constants
  <2>4. \A n \in {1, 2} : n \in 1..2
    OBVIOUS
  <2>. QED  BY <2>3, <2>4
<1>. QED  BY <1>2, <1>3

(* So is the name a tar header has as a FileInfo.                          *)
LEMMA NameOfType ==
  ASSUME NEW h \in Header
  PROVE  NameOf(h) \in Path /\ Len(NameOf(h)) \in 1..2
<1>1. h.name \in Path
  BY DEF Header
<1>. QED  BY <1>1, CleanType, BaseOfType DEF NameOf

(* A normalized name is a path.                                            *)
LEMMA NormalizeType == ASSUME NEW p \in Path PROVE normalize(p) \in Path
<1>. DEFINE a == IF HasSlash(p) /\ Last(p) = "" THEN Front(p) ELSE p
            b == IF HasSlash(a) /\ Head(a) = "" THEN Tail(a) ELSE a
            c == IF HasSlash(b) /\ Head(b) = "." THEN Tail(b) ELSE b
<1>1. a \in Path
  BY SlashLong, FrontType
<1>. HIDE DEF a
<1>2. b \in Path
  BY <1>1, SlashLong, TailType
<1>. HIDE DEF b
<1>3. c \in Path
  BY <1>2, SlashLong, TailType
<1>. QED  BY <1>3 DEF normalize, a, b, c

(* The directory New gives an entry is a path.                             *)
LEMMA ParentOfType == ASSUME NEW p \in Path PROVE ParentOf(p) \in Path
BY DirOfType, Constants DEF ParentOf

(* The rank of a name is a number.                                         *)
LEMMA RankType == ASSUME NEW p \in Path, Len(p) \in 1..2 PROVE Rank(p) \in Nat
<1>1. Len(p) = 1 => p[1] \in Element
  BY PathIs
<1>. DEFINE e == IF Len(p) = 1 THEN p[1] ELSE ""
<1>2. e \in Element
  BY <1>1, Elements
<1>. HIDE DEF e
<1>3. \E i \in DOMAIN Alphabet : Alphabet[i] = e
  BY <1>2 DEF Element, ToSet
<1>4. DOMAIN Alphabet \subseteq Nat
  <2>1. PICK s \in Seq(STRING) : s = Alphabet
    BY TarsAssumption
  <2>2. DOMAIN s = 1..Len(s) /\ Len(s) \in Nat
    BY <2>1
  <2>. QED  BY <2>1, <2>2
<1>5. Rank(p) = CHOOSE i \in DOMAIN Alphabet : Alphabet[i] = e
  BY DEF Rank, e
<1>. QED  BY <1>3, <1>4, <1>5

---------------------------------------------------------------------------
(* The listing of a directory *)

(* Those of T that come before i, by rank and then by number.              *)
Earlier(T, r, i) == {j \in T : r[j] < r[i] \/ (r[j] = r[i] /\ j < i)}

(* The numbers of those that come before count them through.               *)
CountThrough(T, r) ==
  /\ Cardinality(T) \in Nat
  /\ \A i \in T : Cardinality(Earlier(T, r, i)) \in 0..(Cardinality(T) - 1)
  /\ \A i, j \in T : Cardinality(Earlier(T, r, i)) = Cardinality(Earlier(T, r, j)) => i = j
  /\ \A k \in 1..Cardinality(T) : \E i \in T : Cardinality(Earlier(T, r, i)) = k - 1

(* Ranks, however many are the same, with the numbers to tell them apart   *)
(* count a finite set through: the sort that makes a listing is a          *)
(* bijection.                                                              *)
LEMMA CountedThrough ==
  ASSUME NEW N \in Nat, NEW T, T \subseteq 1..N, NEW r \in [T -> Nat]
  PROVE  CountThrough(T, r)
<1>. DEFINE n == Cardinality(T)
            c == [i \in T |-> Cardinality(Earlier(T, r, i))]
<1>1. IsFiniteSet(T) /\ n \in Nat
  <2>1. IsFiniteSet(1..N)
    BY FS_Interval
  <2>. QED  BY <2>1, FS_Subset, FS_CardinalityType
<1>2. \A i \in T : i \notin Earlier(T, r, i) /\ Earlier(T, r, i) \subseteq T
  BY DEF Earlier
<1>3. \A i \in T : IsFiniteSet(Earlier(T, r, i)) /\ Cardinality(Earlier(T, r, i)) \in Nat
  BY <1>1, <1>2, FS_Subset, FS_CardinalityType
<1>4. ASSUME NEW i \in T, NEW j \in T, i \in Earlier(T, r, j)
      PROVE  Cardinality(Earlier(T, r, i)) < Cardinality(Earlier(T, r, j))
  <2>1. Earlier(T, r, i) \subseteq Earlier(T, r, j)
    <3>. SUFFICES ASSUME NEW m \in Earlier(T, r, i) PROVE m \in Earlier(T, r, j)
      OBVIOUS
    <3>1. m \in T /\ m \in Int /\ i \in Int /\ j \in Int
      BY DEF Earlier
    <3>2. r[m] \in Nat /\ r[i] \in Nat /\ r[j] \in Nat
      BY <3>1
    <3>. QED  BY <1>4, <3>1, <3>2 DEF Earlier
  <2>2. Earlier(T, r, i) # Earlier(T, r, j)
    BY <1>2, <1>4
  <2>. QED  BY <1>3, <2>1, <2>2, FS_Subset
<1>5. ASSUME NEW i \in T, NEW j \in T, i # j
      PROVE  i \in Earlier(T, r, j) \/ j \in Earlier(T, r, i)
  <2>1. i \in Int /\ j \in Int /\ r[i] \in Nat /\ r[j] \in Nat
    OBVIOUS
  <2>. QED  BY <1>5, <2>1 DEF Earlier
<1>6. \A i \in T : Cardinality(Earlier(T, r, i)) \in 0..(n - 1)
  <2>. TAKE i \in T
  <2>1. Cardinality(Earlier(T, r, i)) <= n /\ Cardinality(Earlier(T, r, i)) # n
    BY <1>1, <1>2, FS_Subset
  <2>. QED  BY <1>1, <1>3, <2>1
<1>7. \A i, j \in T : Cardinality(Earlier(T, r, i)) = Cardinality(Earlier(T, r, j)) => i = j
  <2>. TAKE i, j \in T
  <2>1. Cardinality(Earlier(T, r, i)) \in Nat /\ Cardinality(Earlier(T, r, j)) \in Nat
    BY <1>3
  <2>2. i # j => \/ Cardinality(Earlier(T, r, i)) < Cardinality(Earlier(T, r, j))
                 \/ Cardinality(Earlier(T, r, j)) < Cardinality(Earlier(T, r, i))
    BY <1>4, <1>5
  <2>. QED  BY <2>1, <2>2
<1>8. \A k \in 1..n : \E i \in T : Cardinality(Earlier(T, r, i)) = k - 1
  <2>1. c \in Injection(T, 0..(n - 1))
    BY <1>6, <1>7 DEF Injection, IsInjective
  <2>2. IsFiniteSet(0..(n - 1)) /\ Cardinality(0..(n - 1)) = n
    <3>1. 0 \in Int /\ n - 1 \in Int
      BY <1>1
    <3>2. /\ IsFiniteSet(0..(n - 1))
          /\ Cardinality(0..(n - 1)) = IF 0 > n - 1 THEN 0 ELSE (n - 1) - 0 + 1
      BY <3>1, FS_Interval
    <3>. HIDE DEF n
    <3>. QED  BY <1>1, <3>2
  <2>3. c \in Surjection(T, 0..(n - 1))
    <3>. HIDE DEF c
    <3>. QED  BY <2>1, <2>2, FS_Injection
  <2>4. \A m \in 0..(n - 1) : \E i \in T : c[i] = m
    <3>. HIDE DEF c
    <3>. QED  BY <2>3 DEF Surjection
  <2>. TAKE k \in 1..n
  <2>5. k - 1 \in 0..(n - 1)
    BY <1>1
  <2>. QED  BY <2>4, <2>5
<1>. QED  BY <1>1, <1>6, <1>7, <1>8 DEF CountThrough

Those(files, d) == {i \in DOMAIN files : files[i].dir = d}

(* How the entries of a directory are listed: each once.                   *)
LEMMA ListingIs ==
  ASSUME NEW files \in Seq(EntryType), NEW d
  PROVE  \E at \in [1..Cardinality(Those(files, d)) -> Those(files, d)] :
           /\ Cardinality(Those(files, d)) \in Nat
           /\ Listing(files, d) = [k \in 1..Cardinality(Those(files, d)) |-> files[at[k]]]
           /\ \A k, l \in 1..Cardinality(Those(files, d)) : at[k] = at[l] => k = l
           /\ \A i \in Those(files, d) : \E k \in 1..Cardinality(Those(files, d)) : at[k] = i
<1>. DEFINE T == Those(files, d)
            n == Cardinality(T)
            rank(i) == Rank(NameOf(files[i].header))
            r == [i \in T |-> rank(i)]
            before(i) == {j \in T : rank(j) < rank(i) \/ (rank(j) = rank(i) /\ j < i)}
            at == [k \in 1..n |-> CHOOSE i \in T : Cardinality(before(i)) = k - 1]
<1>1. Len(files) \in Nat /\ T \subseteq 1..Len(files)
  BY DEF Those
<1>2. \A i \in T : rank(i) \in Nat
  <2>. TAKE i \in T
  <2>1. files[i].header \in Header
    <3>1. files[i] \in EntryType
      BY <1>1
    <3>. QED  BY <3>1 DEF EntryType
  <2>. QED  BY <2>1, NameOfType, RankType
<1>3. r \in [T -> Nat]
  BY <1>2
<1>4. \A i \in T : before(i) = Earlier(T, r, i)
  <2>. TAKE i \in T
  <2>1. \A j \in T : r[j] = rank(j)
    OBVIOUS
  <2>. HIDE DEF T, rank, r
  <2>. QED  BY <2>1 DEF Earlier
<1>5. Listing(files, d) = [k \in 1..n |-> files[CHOOSE i \in T : Cardinality(before(i)) = k - 1]]
  BY DEF Listing, Those
<1>. HIDE DEF T, r, before
<1>6. /\ n \in Nat
      /\ \A i \in T : Cardinality(before(i)) \in 0..(n - 1)
      /\ \A i, j \in T : Cardinality(before(i)) = Cardinality(before(j)) => i = j
      /\ \A k \in 1..n : \E i \in T : Cardinality(before(i)) = k - 1
  <2>1. /\ n \in Nat
        /\ \A i \in T : Cardinality(Earlier(T, r, i)) \in 0..(n - 1)
        /\ \A i, j \in T :
             Cardinality(Earlier(T, r, i)) = Cardinality(Earlier(T, r, j)) => i = j
        /\ \A k \in 1..n : \E i \in T : Cardinality(Earlier(T, r, i)) = k - 1
    <3>. HIDE DEF r
    <3>1. CountThrough(T, r)
      BY <1>1, <1>3, CountedThrough
    <3>2. n = Cardinality(T)
      OBVIOUS
    <3>. HIDE DEF n
    <3>. QED  BY <3>1, <3>2 DEF CountThrough
  <2>. HIDE DEF n
  <2>2. \A i \in T : Cardinality(before(i)) = Cardinality(Earlier(T, r, i))
    BY <1>4
  <2>3. \A i \in T : Cardinality(before(i)) \in 0..(n - 1)
    BY <2>1, <2>2
  <2>4. \A i, j \in T : Cardinality(before(i)) = Cardinality(before(j)) => i = j
    BY <2>1, <2>2
  <2>5. ASSUME NEW k \in 1..n PROVE \E i \in T : Cardinality(before(i)) = k - 1
    <3>1. PICK i \in T : Cardinality(Earlier(T, r, i)) = k - 1
      BY <2>1
    <3>. QED  BY <2>2, <3>1
  <2>. QED  BY <2>1, <2>3, <2>4, <2>5
<1>. HIDE DEF n
<1>7. \A k \in 1..n : at[k] \in T /\ Cardinality(before(at[k])) = k - 1
  BY <1>6
<1>8. at \in [1..n -> T]
  <2>1. at = [k \in 1..n |-> at[k]]
    OBVIOUS
  <2>. HIDE DEF at
  <2>. QED  BY <1>7, <2>1
<1>9. Listing(files, d) = [k \in 1..n |-> files[at[k]]]
  BY <1>5
<1>. HIDE DEF at
<1>10. \A k, l \in 1..n : at[k] = at[l] => k = l
  <2>. TAKE k, l \in 1..n
  <2>1. at[k] = at[l] => k - 1 = l - 1
    BY <1>7
  <2>. QED  BY <2>1
<1>11. \A i \in T : \E k \in 1..n : at[k] = i
  <2>. TAKE i \in T
  <2>1. Cardinality(before(i)) + 1 \in 1..n
    BY <1>6
  <2>2. PICK k \in 1..n : k = Cardinality(before(i)) + 1
    BY <2>1
  <2>3. at[k] \in T /\ Cardinality(before(at[k])) = Cardinality(before(i))
    BY <1>6, <1>7, <2>2
  <2>. QED  BY <1>6, <2>3
<1>. QED  BY <1>6, <1>8, <1>9, <1>10, <1>11 DEF T, n

(* A listing is a sequence of entries.                                     *)
LEMMA ListingType ==
  ASSUME NEW files \in Seq(EntryType), NEW d
  PROVE  Listing(files, d) \in Seq(EntryType)
<1>. DEFINE n == Cardinality(Those(files, d))
<1>1. PICK at \in [1..n -> Those(files, d)] :
         n \in Nat /\ Listing(files, d) = [k \in 1..n |-> files[at[k]]]
  BY ListingIs
<1>. HIDE DEF n
<1>2. \A k \in 1..n : files[at[k]] \in EntryType
  <2>. TAKE k \in 1..n
  <2>1. at[k] \in DOMAIN files
    BY <1>1 DEF Those
  <2>. QED  BY <2>1
<1>. QED  BY <1>1, <1>2

(* The root New makes up is an entry.                                      *)
LEMMA NoRoot == Synthetic \in EntryType
<1>1. Dot \in Path /\ Empty \in Path
  BY Constants
<1>. HIDE DEF Dot, Empty
<1>2. [name |-> Dot, type |-> "dir", link |-> Empty] \in Header
  BY <1>1 DEF Header
<1>. QED  BY <1>1, <1>2 DEF Synthetic, EntryType

(* The FS that New makes.                                                  *)
FSType(fs) ==
  /\ fs.files \in Seq(EntryType) /\ fs.root \in EntryType
  /\ \A n \in DOMAIN fs.index :
       n \in Path /\ fs.index[n] \in DOMAIN fs.files /\ fs.files[fs.index[n]].filename = n
  /\ \A i \in DOMAIN fs.files :
       fs.files[i].filename \in DOMAIN fs.index /\ fs.files[i].dir \in DOMAIN fs.dirs
  /\ \A d \in DOMAIN fs.dirs : d \in Path /\ fs.dirs[d] = Listing(fs.files, d)

(* What New mounts has the type of an FS: its index leads to entries of    *)
(* that name, and every directory of an entry has its listing.             *)
LEMMA MountedType == ASSUME NEW files \in Seq(EntryType) PROVE FSType(Mounted(files))
<1>. DEFINE fs == Mounted(files)
            names == {files[i].filename : i \in DOMAIN files}
            those(n) == {i \in DOMAIN files : files[i].filename = n}
            roots == {i \in DOMAIN files : files[i].dir = Empty}
<1>1. /\ fs.files = files /\ fs.index = IndexOf(files) /\ fs.root = RootOf(files)
      /\ fs.dirs = [d \in {files[i].dir : i \in DOMAIN files} |-> Listing(files, d)]
  BY DEF Mounted
<1>2. IndexOf(files) = [n \in names |-> Max(those(n))]
  BY DEF IndexOf
<1>3. Len(files) \in Nat /\ DOMAIN files = 1..Len(files)
  OBVIOUS
<1>4. \A i \in DOMAIN files :
        files[i] \in EntryType /\ files[i].filename \in Path /\ files[i].dir \in Path
  <2>. TAKE i \in DOMAIN files
  <2>1. files[i] \in EntryType
    OBVIOUS
  <2>. QED  BY <2>1 DEF EntryType
<1>5. ASSUME NEW n \in names
      PROVE  n \in Path /\ Max(those(n)) \in DOMAIN files /\ files[Max(those(n))].filename = n
  <2>1. those(n) # {} /\ those(n) \subseteq 1..Len(files)
    BY <1>3
  <2>2. Max(those(n)) \in those(n)
    <3>. HIDE DEF those
    <3>. QED  BY <1>3, <2>1, Greatest
  <2>3. n \in Path
    BY <1>4
  <2>. QED  BY <2>2, <2>3
<1>6. RootOf(files) \in EntryType
  <2>1. RootOf(files) = IF roots = {} THEN Synthetic ELSE files[Max(roots)]
    BY DEF RootOf
  <2>2. roots \subseteq 1..Len(files)
    BY <1>3
  <2>3. roots # {} => Max(roots) \in DOMAIN files
    <3>. HIDE DEF roots
    <3>. QED  BY <1>3, <2>2, Greatest
  <2>. QED  BY <1>4, <2>1, <2>3, NoRoot
<1>. HIDE DEF fs, those
<1>7. DOMAIN fs.index = names /\ \A n \in names : fs.index[n] = Max(those(n))
  BY <1>1, <1>2
<1>8. /\ DOMAIN fs.dirs = {files[i].dir : i \in DOMAIN files}
      /\ \A d \in DOMAIN fs.dirs : fs.dirs[d] = Listing(files, d)
  BY <1>1
<1>9. \A n \in DOMAIN fs.index :
        n \in Path /\ fs.index[n] \in DOMAIN fs.files /\ fs.files[fs.index[n]].filename = n
  <2>. HIDE DEF names
  <2>. QED  BY <1>1, <1>5, <1>7
<1>10. \A i \in DOMAIN fs.files :
         fs.files[i].filename \in DOMAIN fs.index /\ fs.files[i].dir \in DOMAIN fs.dirs
  BY <1>1, <1>7, <1>8
<1>11. \A d \in DOMAIN fs.dirs : d \in Path /\ fs.dirs[d] = Listing(fs.files, d)
  BY <1>1, <1>4, <1>8
<1>12. FSType(fs)
  BY <1>1, <1>6, <1>9, <1>10, <1>11 DEF FSType
<1>. QED  BY <1>12 DEF fs

(* The entry of a header.                                                  *)
LEMMA EntryOfType ==
  ASSUME NEW h \in Header, NEW i \in Int
  PROVE  EntryOf(h, i) \in EntryType
<1>1. h.name \in Path
  BY DEF Header
<1>2. normalize(h.name) \in Path
  BY <1>1, NormalizeType
<1>3. ParentOf(normalize(h.name)) \in Path
  BY <1>2, ParentOfType
<1>. QED  BY <1>2, <1>3 DEF EntryOf, EntryType

(* What New lists are the headers of the tar.                              *)
LEMMA NewType ==
  ASSUME NEW t \in Seq(Header)
  PROVE  /\ FSType(New(t)) /\ DOMAIN New(t).files = DOMAIN t
         /\ \A i \in DOMAIN t : New(t).files[i] = EntryOf(t[i], i)
<1>. DEFINE files == [i \in DOMAIN t |-> EntryOf(t[i], i)]
<1>1. Len(t) \in Nat /\ DOMAIN t = 1..Len(t)
  OBVIOUS
<1>2. \A i \in 1..Len(t) : EntryOf(t[i], i) \in EntryType
  <2>. TAKE i \in 1..Len(t)
  <2>1. t[i] \in Header /\ i \in Int
    OBVIOUS
  <2>. QED  BY <2>1, EntryOfType
<1>3. files \in Seq(EntryType)
  BY <1>1, <1>2
<1>4. New(t) = Mounted(files)
  BY DEF New
<1>5. Mounted(files).files = files
  BY DEF Mounted
<1>6. FSType(New(t)) /\ New(t).files = files
  <2>. HIDE DEF files
  <2>. QED  BY <1>3, <1>4, <1>5, MountedType
<1>. QED  BY <1>6

---------------------------------------------------------------------------
(* The FS that New made *)

(* The FS is the one New made of a tar: nothing writes to it.              *)
Unwritten == \E t \in Tars : fsys = New(t)

(* Every step leaves the FS as it is.                                      *)
LEMMA NeverWritten == Spec => []Unwritten
<1>1. Init => Unwritten
  BY DEF Init, Unwritten
<1>2. Unwritten /\ [Next]_vars => Unwritten'
  <2>. SUFFICES ASSUME [Next]_vars PROVE fsys' = fsys
    BY DEF Unwritten
  <2>. QED
    BY DEF Next, Work, OpenRoot, Open, FileReadDir, Walk, TooManyLinks, Found, FollowLink,
           FollowDir, Missing, Visit, Walked, Goto, vars
<1>. QED  BY <1>1, <1>2, PTL DEF Spec

---------------------------------------------------------------------------
(* Decode and New *)

(* What New computes as the directory of an entry, Decode computes again   *)
(* from the name alone: the comparison of path.Dir with "." that it adds   *)
(* changes nothing.                                                        *)
LEMMA SameDir == ASSUME NEW n PROVE DecodedDir(n) = ParentOf(n)
<1>1. DirOf(Dot) = Dot
  BY DEF DirOf, HasSlash, Dot
<1>. QED  BY <1>1 DEF DecodedDir, ParentOf

(* So Decode mounts the entries that New has mounted.                      *)
LEMMA SameFS == ASSUME NEW t PROVE Decode(Encode(New(t))) = New(t)
<1>. DEFINE files == [i \in DOMAIN t |-> EntryOf(t[i], i)]
            toc   == Encode(New(t))
            again == [i \in DOMAIN toc |->
                        [header |-> toc[i].header, offset |-> toc[i].offset,
                         filename |-> toc[i].filename, dir |-> DecodedDir(toc[i].filename)]]
<1>1. New(t).files = files
  BY DEF New, Mounted
<1>2. toc = [i \in DOMAIN t |-> [header |-> t[i], offset |-> i, filename |-> normalize(t[i].name)]]
  BY <1>1 DEF Encode, EntryOf
<1>3. again = files
  BY <1>2, SameDir DEF EntryOf
<1>. HIDE DEF files, again
<1>4. Decode(toc) = Mounted(again) /\ New(t) = Mounted(files)
  BY DEF Decode, New, again, files
<1>. QED  BY <1>3, <1>4

(* Whatever the tar - with or without an entry for its root, with names    *)
(* that are there twice, spelled in any way - the FS that Decode makes of  *)
(* what Encode wrote is the one New made (tarfs.go:331-374 and 403-443).   *)
THEOREM DecodeIsNew == Spec => []DecodeAgrees
<1>1. Unwritten => DecodeAgrees
  BY SameFS DEF Unwritten, DecodeAgrees
<1>. QED  BY <1>1, NeverWritten, PTL

---------------------------------------------------------------------------
(* The type of every variable *)

(* So the FS always has its type.                                          *)
LEMMA FSTyped ==
  ASSUME Unwritten
  PROVE  /\ FSType(fsys)
         /\ \A i \in DOMAIN fsys.files :
              fsys.files[i] \in EntryType /\ fsys.files[i].filename \in Path
                /\ fsys.files[i].dir \in Path /\ fsys.files[i].header \in Header
<1>1. FSType(fsys)
  BY TarsAssumption, NewType DEF Unwritten
<1>2. ASSUME NEW i \in DOMAIN fsys.files PROVE fsys.files[i] \in EntryType
  BY <1>1 DEF FSType
<1>. QED  BY <1>1, <1>2 DEF EntryType

(* An entry that is there has a name and a directory, and leads somewhere. *)
LEMMA EntryTyped ==
  ASSUME Unwritten, NEW n, Has(n)
  PROVE  /\ Entry(n) \in EntryType /\ Entry(n).dir \in Path /\ Entry(n).header.link \in Path
         /\ Entry(n).filename = n /\ n \in Path
<1>1. fsys.index[n] \in DOMAIN fsys.files /\ fsys.files[fsys.index[n]].filename = n /\ n \in Path
  BY FSTyped DEF FSType, Has
<1>2. Entry(n) \in EntryType /\ Entry(n).header \in Header /\ Entry(n).dir \in Path
  BY <1>1, FSTyped DEF Entry
<1>. QED  BY <1>1, <1>2 DEF Header, Entry

(* A directory's entries, none if there is no such directory.              *)
LEMMA ReadDirType ==
  ASSUME Unwritten, NEW d
  PROVE  /\ ReadDir(d) \in Seq(EntryType) /\ Len(ReadDir(d)) \in Nat
         /\ DOMAIN ReadDir(d) = 1..Len(ReadDir(d))
         /\ \A i \in 1..Len(ReadDir(d)) : ReadDir(d)[i] \in EntryType
<1>1. ReadDir(d) \in Seq(EntryType)
  BY FSTyped, ListingType DEF FSType, ReadDir
<1>. QED  BY <1>1

(* TypeOK but for the file system and the cursor.                          *)
VarsType ==
  /\ pc \in {"idle", "open", "walk"}
  /\ asked \in Path /\ name \in Path /\ hops \in 0..(MaxHops + 1)
  /\ file \in EntryType /\ atEnd \in BOOLEAN
  /\ todo \in Seq(Path \X BOOLEAN) /\ visited \in Seq(Path)

(* What stands for an error has the type of an entry.                      *)
LEMMA NoFileType == NoFile \in EntryType /\ NotExist \in EntryType /\ TooMany \in EntryType
<1>1. Dot \in Path /\ Empty \in Path
  BY Constants
<1>2. [name |-> Dot, type |-> "file", link |-> Empty] \in Header
  BY <1>1 DEF Header
<1>3. \A n \in Int : NoEntry(n) \in EntryType
  <2>. HIDE DEF Dot, Empty
  <2>. QED  BY <1>1, <1>2 DEF NoEntry, EntryType
<1>4. -1 \in Int /\ -2 \in Int /\ -3 \in Int
  OBVIOUS
<1>. QED  BY <1>3, <1>4 DEF NoFile, NotExist, TooMany

(* What is left of a path.                                                 *)
LEMMA PieceType ==
  ASSUME NEW p \in Path, NEW i \in 1..Len(p)
  PROVE  SubSeq(p, 1, i) \in Path /\ Empty \o SubSeq(p, i + 1, Len(p)) \in Path
<1>1. PICK n \in Nat : n = Len(p) /\ \A k \in 1..n : p[k] \in Element
  BY PathIs
<1>2. SubSeq(p, 1, i) \in Seq(Element)
  <2>1. 1 \in Int /\ i \in Int /\ \A k \in 1..i : p[k] \in Element
    BY <1>1
  <2>. QED  BY <2>1, SubSeqProperties
<1>3. SubSeq(p, i + 1, n) \in Seq(Element)
  <2>1. i + 1 \in Int /\ n \in Int /\ \A k \in (i + 1)..n : p[k] \in Element
    BY <1>1
  <2>. QED  BY <2>1, SubSeqProperties
<1>. QED  BY <1>1, <1>2, <1>3, IsPath, ConcatType, Constants

(* No link has been followed when Open begins.                             *)
LEMMA NoHops == MaxHops \in Nat /\ 0 \in 0..(MaxHops + 1)
<1>1. MaxHops \in Nat
  BY TarsAssumption
<1>. QED  BY <1>1

(* Where a link leads is a path.                                           *)
LEMMA GotoType ==
  ASSUME Unwritten, VarsType, ~TooDeep, NEW n \in Path, Goto(n)
  PROVE  VarsType'
<1>1. hops' \in 0..(MaxHops + 1)
  <2>1. hops \in 0..(MaxHops + 1) /\ ~(hops > MaxHops) /\ hops' = hops + 1
    BY DEF VarsType, TooDeep, Goto
  <2>. QED  BY <2>1, NoHops
<1>. QED  BY <1>1 DEF VarsType, Goto, fileVars, walkVars

(* Open returns, with an entry or an error.                                *)
LEMMA OpenedType ==
  ASSUME VarsType, NEW f \in EntryType, Opened(f), UNCHANGED <<openVars, walkVars>>
  PROVE  VarsType'
BY DEF VarsType, Opened, openVars, walkVars

(* A link to a file, and a link to a directory.                            *)
LEMMA FollowLinkType == ASSUME Unwritten, VarsType, FollowLink PROVE VarsType'
<1>. DEFINE e == Entry(name)
            link == e.header.link
<1>1. Has(name) /\ ~TooDeep
  BY DEF FollowLink, At
<1>2. link \in Path /\ e.dir \in Path
  BY <1>1, EntryTyped
<1>3. Goto(IF IsAbs(link) \/ e.header.type = "link" THEN normalize(link) ELSE Join(<<e.dir, link>>))
  BY DEF FollowLink, Target
<1>. HIDE DEF link, e
<1>4. normalize(link) \in Path
  BY <1>2, NormalizeType
<1>5. Join(<<e.dir, link>>) \in Path
  BY <1>2, JoinType, Names
<1>. QED  BY <1>1, <1>3, <1>4, <1>5, GotoType

(* A link to a directory that the name leads through.                      *)
LEMMA FollowDirType == ASSUME Unwritten, VarsType, FollowDir PROVE VarsType'
<1>1. ~TooDeep /\ name \in Path /\ Len(name) \in Nat
  BY PathIs DEF FollowDir, VarsType
<1>2. PICK i \in 1..(Len(name) - 1) :
        /\ LinkedDir(i)
        /\ LET e    == Entry(SubSeq(name, 1, i))
               link == e.header.link
           IN  Goto(IF IsAbs(link) THEN normalize(Join(<<link, Rest(i)>>))
                                   ELSE Join(<<e.dir, link, Rest(i)>>))
  BY DEF FollowDir
<1>. DEFINE e == Entry(SubSeq(name, 1, i))
            link == e.header.link
<1>3. Goto(IF IsAbs(link) THEN normalize(Join(<<link, Rest(i)>>)) ELSE Join(<<e.dir, link, Rest(i)>>))
  BY <1>2
<1>4. link \in Path /\ e.dir \in Path
  BY <1>2, EntryTyped DEF LinkedDir, IsSymlink
<1>5. Rest(i) \in Path
  <2>1. i \in 1..Len(name)
    BY <1>1
  <2>. QED  BY <1>1, <2>1, PieceType DEF Rest
<1>. HIDE DEF e, link
<1>6. normalize(Join(<<link, Rest(i)>>)) \in Path
  <2>1. Join(<<link, Rest(i)>>) \in Path
    BY <1>4, <1>5, JoinType, Names
  <2>. QED  BY <2>1, NormalizeType
<1>7. Join(<<e.dir, link, Rest(i)>>) \in Path
  BY <1>4, <1>5, JoinType, Names
<1>. QED  BY <1>1, <1>3, <1>6, <1>7, GotoType

(* What fs.WalkDir is to visit below a path.                               *)
LEMMA ChildrenType ==
  ASSUME Unwritten, NEW p \in Path
  PROVE  /\ Children(p) \in Seq(Path \X BOOLEAN) /\ Len(Children(p)) = Len(ReadDir(p))
         /\ \A i \in 1..Len(ReadDir(p)) :
              LET e == ReadDir(p)[i]
              IN  Children(p)[i] = <<Join(<<p, NameOf(e.header)>>), e.header.type = "dir">>
<1>1. PICK s \in Seq(EntryType) : s = ReadDir(p)
  BY ReadDirType
<1>2. Children(p) = [i \in 1..Len(s) |-> <<Join(<<p, NameOf(s[i].header)>>), s[i].header.type = "dir">>]
  BY <1>1 DEF Children
<1>3. ASSUME NEW i \in 1..Len(s)
      PROVE  <<Join(<<p, NameOf(s[i].header)>>), s[i].header.type = "dir">> \in Path \X BOOLEAN
  <2>1. s[i].header \in Header
    <3>1. s[i] \in EntryType
      BY <1>1
    <3>. QED  BY <3>1 DEF EntryType
  <2>2. Join(<<p, NameOf(s[i].header)>>) \in Path
    BY <2>1, NameOfType, Names, JoinType
  <2>. QED  BY <2>2
<1>4. Children(p) \in Seq(Path \X BOOLEAN) /\ Len(Children(p)) = Len(s)
  <2>. DEFINE C(i) == <<Join(<<p, NameOf(s[i].header)>>), s[i].header.type = "dir">>
  <2>1. \A i \in 1..Len(s) : C(i) \in Path \X BOOLEAN
    BY <1>3
  <2>2. Children(p) = [i \in 1..Len(s) |-> C(i)]
    BY <1>2
  <2>3. Len(s) \in Nat
    BY <1>1
  <2>. HIDE DEF C
  <2>. QED  BY <2>1, <2>2, <2>3
<1>. QED  BY <1>1, <1>2, <1>4

(* A path is visited, and what it lists is put in front.                   *)
LEMMA VisitType == ASSUME Unwritten, VarsType, Visit PROVE VarsType'
<1>. DEFINE p == Head(todo)
<1>1. todo \in Seq(Path \X BOOLEAN) /\ todo # <<>> /\ visited \in Seq(Path)
  BY DEF VarsType, Visit
<1>2. p \in Path \X BOOLEAN /\ Tail(todo) \in Seq(Path \X BOOLEAN)
  BY <1>1
<1>3. /\ visited' = Append(visited, p[1])
      /\ todo' = (IF p[2] THEN Children(p[1]) ELSE <<>>) \o Tail(todo)
      /\ UNCHANGED <<fsys, pc, openVars, fileVars>>
  BY DEF Visit
<1>. HIDE DEF p
<1>4. visited' \in Seq(Path)
  BY <1>1, <1>2, <1>3
<1>5. (IF p[2] THEN Children(p[1]) ELSE <<>>) \in Seq(Path \X BOOLEAN)
  BY <1>2, ChildrenType
<1>6. todo' \in Seq(Path \X BOOLEAN)
  BY <1>2, <1>3, <1>5, ConcatProperties
<1>. QED  BY <1>3, <1>4, <1>6 DEF VarsType, openVars, fileVars

(* Every step keeps the types.                                             *)
LEMMA VarsTyped == Spec => []VarsType
<1>1. Init => VarsType
  <2>1. <<>> \in Seq(Path \X BOOLEAN) /\ <<>> \in Seq(Path)
    OBVIOUS
  <2>2. Dot \in Path /\ NoFile \in EntryType /\ 0 \in 0..(MaxHops + 1)
    BY Constants, NoFileType, NoHops
  <2>. HIDE DEF Dot, NoFile
  <2>. QED  BY <2>1, <2>2 DEF Init, VarsType
<1>2. Unwritten /\ VarsType /\ [Next]_vars => VarsType'
  <2>. SUFFICES ASSUME Unwritten, VarsType, [Next]_vars PROVE VarsType'
    OBVIOUS
  <2>1. CASE OpenRoot
    <3>1. fsys.root \in EntryType
      BY FSTyped DEF FSType
    <3>. QED  BY <2>1, <3>1, Constants, NoHops DEF OpenRoot, Opened, VarsType, walkVars
  <2>2. CASE Open
    <3>1. PICK p \in Paths : asked' = p /\ name' = p
      BY <2>2 DEF Open
    <3>2. p \in Path
      BY <3>1, TarsAssumption
    <3>. QED  BY <2>2, <3>1, <3>2, NoHops DEF Open, VarsType, fileVars, walkVars
  <2>3. CASE FileReadDir
    <3>1. atEnd' \in BOOLEAN
      BY <2>3 DEF FileReadDir
    <3>. QED  BY <2>3, <3>1 DEF FileReadDir, VarsType, openVars, walkVars
  <2>4. CASE Walk
    <3>1. PICK b \in BOOLEAN : b = (fsys.root.header.type = "dir")
      OBVIOUS
    <3>2. << <<Dot, b>> >> \in Seq(Path \X BOOLEAN)
      <4>1. <<Dot, b>> \in Path \X BOOLEAN
        BY Constants
      <4>. HIDE DEF Dot
      <4>. QED  BY <4>1, Shorts
    <3>3. todo' = << <<Dot, b>> >>
      BY <2>4, <3>1 DEF Walk
    <3>. QED  BY <2>4, <3>2, <3>3 DEF Walk, VarsType, openVars, fileVars
  <2>5. CASE TooManyLinks
    BY <2>5, NoFileType, OpenedType DEF TooManyLinks
  <2>6. CASE Found
    BY <2>6, EntryTyped, OpenedType DEF Found, At
  <2>7. CASE FollowLink
    BY <2>7, FollowLinkType
  <2>8. CASE FollowDir
    BY <2>8, FollowDirType
  <2>9. CASE Missing
    BY <2>9, NoFileType, OpenedType DEF Missing
  <2>10. CASE Visit
    BY <2>10, VisitType
  <2>11. CASE Walked
    BY <2>11 DEF Walked, VarsType, openVars, fileVars, walkVars
  <2>12. CASE UNCHANGED vars
    BY <2>12 DEF VarsType, vars, openVars, fileVars, walkVars
  <2>. QED
    BY <2>1, <2>2, <2>3, <2>4, <2>5, <2>6, <2>7, <2>8, <2>9, <2>10, <2>11, <2>12 DEF Next, Work
<1>. QED  BY <1>1, <1>2, NeverWritten, PTL DEF Spec

---------------------------------------------------------------------------
(* Reading a directory in pieces *)

(* The cursor stands within the listing, behind what has been returned.    *)
Reading ==
  /\ cursor \in 0..Len(ReadDir(file.filename))
  /\ listed = SubSeq(ReadDir(file.filename), 1, cursor)
  /\ atEnd => cursor = Len(ReadDir(file.filename))

(* Nothing has been read of a directory that has just been opened.         *)
LEMMA NothingRead ==
  ASSUME NEW s \in Seq(EntryType)
  PROVE  0 \in 0..Len(s) /\ <<>> = SubSeq(s, 1, 0)
<1>1. Len(s) \in Nat
  OBVIOUS
<1>2. SubSeq(s, 1, 0) = <<>>
  BY SubSeqEmpty
<1>. QED  BY <1>1, <1>2

(* A ReadDir returns the entries from the cursor on.                       *)
LEMMA ReadingStep ==
  ASSUME Unwritten, Reading, FileReadDir
  PROVE  Reading'
<1>. DEFINE s == ReadDir(file.filename)
<1>1. s \in Seq(EntryType) /\ Len(s) \in Nat
  BY ReadDirType
<1>2. PICK n \in Counts \ {0} :
        cursor' = CursorAfter(n) /\ listed' = listed \o Chunk(n) /\ atEnd' = (Left = 0 /\ n > 0)
  BY DEF FileReadDir
<1>3. ReadDir(file.filename)' = ReadDir(file.filename)
  BY DEF FileReadDir, ReadDir
<1>4. n \in Int /\ cursor \in 0..Len(s) /\ Left = Len(s) - cursor
  BY <1>1, <1>2, TarsAssumption DEF Reading, Left
<1>. HIDE DEF s
<1>5. cursor' \in cursor..Len(s) /\ (Left = 0 => cursor' = Len(s))
  BY <1>1, <1>2, <1>4 DEF CursorAfter
<1>6. SubSeq(s, 1, cursor) \o SubSeq(s, cursor + 1, cursor') = SubSeq(s, 1, cursor')
  <2>1. 1 \in 1..(Len(s) + 1) /\ cursor \in (1 - 1)..Len(s)
    BY <1>1, <1>4
  <2>. QED  BY <1>1, <1>5, <2>1, ConcatAdjacentSubSeq
<1>7. listed = SubSeq(s, 1, cursor) /\ Chunk(n) = SubSeq(s, cursor + 1, cursor')
  BY <1>2 DEF Reading, Chunk, s
<1>8. cursor' \in 0..Len(s) /\ listed' = SubSeq(s, 1, cursor') /\ (atEnd' => cursor' = Len(s))
  <2>1. listed' = SubSeq(s, 1, cursor')
    BY <1>2, <1>6, <1>7
  <2>2. atEnd' => Left = 0
    BY <1>2
  <2>3. cursor' \in 0..Len(s)
    BY <1>1, <1>4, <1>5
  <2>. QED  BY <1>5, <2>1, <2>2, <2>3
<1>9. s = ReadDir(file.filename)
  BY DEF s
<1>. QED  BY <1>3, <1>8, <1>9 DEF Reading

(* Every FS that New makes, every ReadDir and every file opened keep to it.*)
LEMMA AlwaysReading == Spec => []Reading
<1>1. Init => Reading
  BY ReadDirType, NothingRead DEF Init, Reading, Unwritten
<1>2. Unwritten /\ Reading /\ [Next]_vars => Reading'
  <2>. SUFFICES ASSUME Unwritten, Reading, [Next]_vars PROVE Reading'
    OBVIOUS
  <2>1. CASE FileReadDir
    BY <2>1, ReadingStep
  <2>2. ASSUME NEW f, Opened(f), fsys' = fsys PROVE Reading'
    <3>1. /\ cursor' = 0 /\ listed' = <<>> /\ atEnd' = FALSE
          /\ ReadDir(f) = ReadDir(f)
      BY <2>2 DEF Opened
    <3>2. Unwritten'
      BY <2>2 DEF Unwritten
    <3>3. ReadDir(file.filename)' \in Seq(EntryType)
      BY <2>2, ReadDirType DEF ReadDir
    <3>. QED  BY <3>1, <3>3, NothingRead DEF Reading
  <2>3. ASSUME UNCHANGED <<fsys, fileVars>> PROVE Reading'
    BY <2>3 DEF Reading, fileVars, ReadDir
  <2>. QED
    BY <2>1, <2>2, <2>3
       DEF Next, Work, OpenRoot, Open, Walk, TooManyLinks, Found, FollowLink, FollowDir, Missing,
           Visit, Walked, Goto, vars
<1>. QED  BY <1>1, <1>2, NeverWritten, PTL DEF Spec

(* Whatever a caller passes to ReadDir, time after time, it gets the       *)
(* entries of the directory in order, none twice, and io.EOF only behind   *)
(* the last one (tarfs.go:97-125).                                         *)
THEOREM ListsOnce == Spec => []ListedOnce
<1>1. Reading => ListedOnce
  BY DEF Reading, ListedOnce
<1>. QED  BY <1>1, AlwaysReading, PTL

(* Every variable keeps its type, whatever the tar and whatever is called: *)
(* the cursor that ReadDir slices with stays within the listing, and open  *)
(* within one link more than it may follow (tarfs.go:107-124, 189-231).    *)
THEOREM Typed == Spec => []TypeOK
<1>1. Unwritten /\ Reading /\ VarsType => TypeOK
  <2>. SUFFICES ASSUME Unwritten, Reading, VarsType PROVE TypeOK
    OBVIOUS
  <2>1. listed \in Seq(EntryType)
    <3>1. PICK s \in Seq(EntryType) : s = ReadDir(file.filename)
      BY ReadDirType
    <3>2. cursor \in 0..Len(s) /\ listed = SubSeq(s, 1, cursor)
      BY <3>1 DEF Reading
    <3>3. 1 \in Int /\ cursor \in Int /\ \A i \in 1..cursor : s[i] \in EntryType
      BY <3>1, <3>2
    <3>. QED  BY <3>2, <3>3, SubSeqProperties
  <2>2. /\ fsys.files \in Seq(EntryType) /\ fsys.root \in EntryType
        /\ \A n \in DOMAIN fsys.index : n \in Path /\ fsys.index[n] \in DOMAIN fsys.files
        /\ \A d \in DOMAIN fsys.dirs : d \in Path /\ fsys.dirs[d] \in Seq(EntryType)
    BY FSTyped, ListingType DEF FSType
  <2>. QED  BY <2>1, <2>2 DEF TypeOK, VarsType, Reading
<1>. QED  BY <1>1, NeverWritten, AlwaysReading, VarsTyped, PTL

---------------------------------------------------------------------------
(* Names that are spelled plainly *)

Void  == ""
Blank == {"", "."}

(* No element of it is for Clean to change.                                *)
Plain(p) == p \in Path /\ p # <<>> /\ \A i \in 1..Len(p) : p[i] \notin {"", ".", ".."}

(* q is p with blank elements before and behind.                           *)
Padded(q, p, o) ==
  /\ q \in Path /\ o \in Nat /\ o + Len(p) <= Len(q)
  /\ \A k \in 1..Len(p) : q[o + k] = p[k]
  /\ \A k \in 1..o : q[k] \in Blank
  /\ \A k \in (o + Len(p) + 1)..Len(q) : q[k] = Void

(* Such a name is neither the root nor empty, and not absolute.            *)
LEMMA PlainIs ==
  ASSUME NEW p, Plain(p)
  PROVE  /\ p \in Seq(Element) /\ Len(p) \in Nat \ {0} /\ DOMAIN p = 1..Len(p)
         /\ p # Dot /\ p # Empty /\ p # <<"", "">> /\ ~IsAbs(p)
<1>1. p \in Seq(Element) /\ Len(p) \in Nat /\ DOMAIN p = 1..Len(p) /\ p # <<>>
  BY PathIs DEF Plain
<1>2. Len(p) # 0
  BY <1>1
<1>3. p[1] \notin {"", ".", ".."}
  <2>1. 1 \in 1..Len(p)
    BY <1>1, <1>2
  <2>. QED  BY <2>1 DEF Plain
<1>4. Head(p) = p[1]
  BY <1>1
<1>5. p # Dot /\ p # Empty /\ p # <<"", "">>
  <2>1. Dot[1] = "." /\ Empty[1] = "" /\ <<"", "">>[1] = ""
    BY DEF Dot, Empty
  <2>. QED  BY <1>3, <2>1
<1>6. ~IsAbs(p)
  BY <1>3, <1>4 DEF IsAbs
<1>. QED  BY <1>1, <1>2, <1>5, <1>6

(* The first elements of a sequence, and one more.                         *)
LEMMA OneMore ==
  ASSUME NEW S, NEW s \in Seq(S), NEW k \in Nat, k < Len(s)
  PROVE  /\ SubSeq(s, 1, k) \in Seq(S) /\ Len(SubSeq(s, 1, k)) = k
         /\ Append(SubSeq(s, 1, k), s[k + 1]) = SubSeq(s, 1, k + 1)
<1>1. Len(s) \in Nat /\ \A i \in 1..Len(s) : s[i] \in S
  OBVIOUS
<1>2. /\ SubSeq(s, 1, k) \in Seq(S)
      /\ Len(SubSeq(s, 1, k)) = IF 1 <= k THEN k - 1 + 1 ELSE 0
      /\ \A i \in 1..(k - 1 + 1) : SubSeq(s, 1, k)[i] = s[1 + i - 1]
  BY <1>1, SubSeqProperties
<1>3. Len(SubSeq(s, 1, k)) = k
  BY <1>2
<1>4. /\ SubSeq(s, 1, k + 1) \in Seq(S)
      /\ Len(SubSeq(s, 1, k + 1)) = IF 1 <= k + 1 THEN (k + 1) - 1 + 1 ELSE 0
      /\ \A i \in 1..((k + 1) - 1 + 1) : SubSeq(s, 1, k + 1)[i] = s[1 + i - 1]
  BY <1>1, SubSeqProperties
<1>5. Len(SubSeq(s, 1, k + 1)) = k + 1 /\ \A i \in 1..(k + 1) : SubSeq(s, 1, k + 1)[i] = s[i]
  BY <1>4
<1>6. \A i \in 1..k : SubSeq(s, 1, k)[i] = s[i]
  BY <1>2
<1>. DEFINE a == SubSeq(s, 1, k)
            b == SubSeq(s, 1, k + 1)
            c == Append(a, s[k + 1])
<1>7. s[k + 1] \in S
  BY <1>1
<1>. HIDE DEF a, b
<1>8. a \in Seq(S) /\ Len(a) = k /\ b \in Seq(S) /\ Len(b) = k + 1
  BY <1>2, <1>3, <1>4, <1>5 DEF a, b
<1>9. c \in Seq(S) /\ Len(c) = k + 1 /\ (\A i \in 1..k : c[i] = a[i]) /\ c[k + 1] = s[k + 1]
  BY <1>7, <1>8, AppendProperties
<1>10. \A i \in 1..(k + 1) : c[i] = b[i]
  <2>. TAKE i \in 1..(k + 1)
  <2>1. i \in 1..k \/ i = k + 1
    OBVIOUS
  <2>. QED  BY <1>5, <1>6, <1>9, <2>1 DEF a, b
<1>. HIDE DEF c
<1>11. c = b
  BY <1>8, <1>9, <1>10, SeqEqual
<1>. QED  BY <1>2, <1>3, <1>11 DEF a, b, c

(* Of the elements of a padded name Clean keeps the name's.                *)
LEMMA CleaningPadded ==
  ASSUME NEW p, Plain(p), NEW q, NEW o, Padded(q, p, o), NEW e, IsCleaning(q, e)
  PROVE  e[Len(q)] = p
<1>. DEFINE n == Len(p)
            m == Len(q)
<1>1. /\ q \in Path /\ o \in Nat /\ o + n <= m /\ n \in Nat \ {0} /\ m \in Nat
      /\ p \in Seq(Element)
  BY PlainIs, PathIs DEF Padded
<1>0. /\ \A k \in 1..n : q[o + k] = p[k] /\ p[k] \notin {"", ".", ".."}
      /\ \A k \in 1..o : q[k] \in Blank
      /\ \A k \in (o + n + 1)..m : q[k] = ""
  BY DEF Padded, Plain, Void
<1>. HIDE DEF n, m
<1>3. e[0] = <<>> /\ \A k \in 1..m : e[k] = Push(IsAbs(q), e[k - 1], q[k])
  BY DEF IsCleaning, m
<1>. DEFINE Part(k) == SubSeq(p, 1, k)
            S == {k \in Nat : k <= m =>
                    e[k] = IF k <= o THEN <<>> ELSE IF k <= o + n THEN Part(k - o) ELSE p}
<1>4. 0 \in S
  BY <1>1, <1>3
<1>5. ASSUME NEW k \in Nat, k \in S PROVE k + 1 \in S
  <2>. SUFFICES ASSUME k + 1 <= m
                PROVE  e[k + 1] = IF k + 1 <= o THEN <<>>
                                  ELSE IF k + 1 <= o + n THEN Part((k + 1) - o) ELSE p
    OBVIOUS
  <2>1. e[k] = IF k <= o THEN <<>> ELSE IF k <= o + n THEN Part(k - o) ELSE p
    BY <1>1, <1>5
  <2>2. k + 1 \in 1..m /\ (k + 1) - 1 = k
    BY <1>1
  <2>3. e[k + 1] = Push(IsAbs(q), e[k], q[k + 1])
    BY <1>3, <2>2
  <2>. HIDE DEF Part, S
  <2>4. CASE k + 1 <= o
    <3>1. q[k + 1] \in Blank
      <4>1. k + 1 \in 1..o
        BY <1>1, <2>4
      <4>. QED  BY <1>0, <4>1
    <3>2. e[k] = <<>>
      BY <1>1, <2>1, <2>4
    <3>. QED  BY <2>3, <2>4, <3>1, <3>2 DEF Push, Blank
  <2>5. CASE o < k + 1 /\ k + 1 <= o + n
    <3>1. PICK j \in Nat : j = k - o /\ j < n
      BY <1>1, <2>5
    <3>2. o + (j + 1) = k + 1 /\ j + 1 \in 1..n
      BY <1>1, <3>1
    <3>3. q[k + 1] = p[j + 1] /\ p[j + 1] \notin {"", ".", ".."}
      <4>1. q[o + (j + 1)] = p[j + 1] /\ p[j + 1] \notin {"", ".", ".."}
        BY <1>0, <3>2
      <4>. QED  BY <3>2, <4>1
    <3>4. e[k] = Part(j)
      <4>1. CASE j = 0
        <5>1. Part(0) = <<>>
          BY SubSeqEmpty DEF Part
        <5>2. k <= o
          BY <1>1, <3>1, <4>1
        <5>. QED  BY <2>1, <3>1, <4>1, <5>1, <5>2
      <4>2. CASE j # 0
        BY <1>1, <2>1, <2>5, <3>1, <4>2
      <4>. QED  BY <4>1, <4>2
    <3>5. e[k + 1] = Append(Part(j), p[j + 1])
      BY <2>3, <3>2, <3>3, <3>4 DEF Push
    <3>6. Append(Part(j), p[j + 1]) = Part(j + 1)
      BY <1>1, <3>1, OneMore DEF Part, n
    <3>7. (k + 1) - o = j + 1
      BY <1>1, <3>1
    <3>. QED  BY <1>1, <2>5, <3>5, <3>6, <3>7
  <2>6. CASE o + n < k + 1
    <3>1. q[k + 1] = ""
      <4>1. k + 1 \in (o + n + 1)..m
        BY <1>1, <2>2, <2>6
      <4>. QED  BY <1>0, <4>1
    <3>2. e[k] = p
      <4>1. CASE k = o + n
        <5>1. Part(n) = p
          BY <1>1, SubSeqFull DEF Part, n
        <5>2. k - o = n /\ ~(k <= o) /\ k <= o + n
          BY <1>1, <4>1
        <5>. QED  BY <2>1, <5>1, <5>2
      <4>2. CASE k # o + n
        BY <1>1, <2>1, <2>6, <4>2
      <4>. QED  BY <4>1, <4>2
    <3>3. e[k + 1] = p
      BY <2>3, <3>1, <3>2 DEF Push
    <3>. QED  BY <1>1, <2>6, <3>3
  <2>. QED  BY <1>1, <2>4, <2>5, <2>6
<1>. HIDE DEF S, Part
<1>6. m \in S
  BY <1>1, <1>4, <1>5, Induction
<1>7. e[m] = p
  <2>1. e[m] = IF m <= o THEN <<>> ELSE IF m <= o + n THEN Part(m - o) ELSE p
    BY <1>1, <1>6 DEF S
  <2>2. CASE m = o + n
    <3>1. Part(n) = p
      BY <1>1, SubSeqFull DEF Part, n
    <3>2. m - o = n /\ ~(m <= o) /\ m <= o + n
      BY <1>1, <2>2
    <3>. QED  BY <2>1, <3>1, <3>2
  <2>3. CASE m # o + n
    BY <1>1, <2>1, <2>3
  <2>. QED  BY <2>2, <2>3
<1>. QED  BY <1>7 DEF m

(* So of a padded name Clean keeps the name.                               *)
LEMMA CleanPadded ==
  ASSUME NEW p, Plain(p), NEW q, NEW o, Padded(q, p, o)
  PROVE  Clean(q) = IF IsAbs(q) THEN Empty \o p ELSE p
<1>1. q \in Path
  BY DEF Padded
<1>2. PICK e : IsCleaning(q, e) /\ Clean(q) = Cleaned(q, e[Len(q)])
  BY <1>1, Cleaning
<1>3. e[Len(q)] = p /\ p # <<>>
  BY <1>2, CleaningPadded DEF Plain
<1>. QED  BY <1>2, <1>3 DEF Cleaned

(* Padding by at most one element in front and at most one behind.         *)
LEMMA PaddedBy ==
  ASSUME NEW q \in Path, NEW p \in Path, NEW o \in Nat, NEW u \in Nat, NEW n \in Nat,
         o <= 1, u <= 1, n = Len(p), Len(q) = o + n + u,
         \A k \in 1..n : q[o + k] = p[k],
         o = 1 => q[1] \in Blank, u = 1 => q[o + n + 1] = Void
  PROVE  Padded(q, p, o)
<1>1. PICK m \in Nat : m = Len(q)
  BY PathIs
<1>2. o \in Nat /\ u \in Nat /\ n \in Nat /\ o <= 1 /\ u <= 1
  OBVIOUS
<1>3. m = o + n + u
  BY <1>1
<1>4. o + n <= m
  BY <1>2, <1>3
<1>5. ASSUME NEW k \in 1..o PROVE q[k] \in Blank
  <2>1. o = 1 /\ k = 1
    BY <1>2
  <2>. QED  BY <2>1
<1>6. ASSUME NEW k \in (o + n + 1)..m PROVE q[k] = Void
  <2>1. u = 1 /\ k = o + n + 1
    BY <1>2, <1>3
  <2>. QED  BY <2>1
<1>. QED  BY <1>1, <1>4, <1>5, <1>6 DEF Padded

(* A path is itself, with no padding.                                      *)
LEMMA SelfPadded == ASSUME NEW p \in Path PROVE Padded(p, p, 0)
<1>1. PICK n \in Nat : n = Len(p)
  BY PathIs
<1>2. 0 \in Nat /\ 0 <= 1 /\ 0 # 1 /\ n = 0 + n + 0
  BY <1>1
<1>3. \A k \in 1..n : p[0 + k] = p[k]
  BY <1>1
<1>. QED  BY <1>1, <1>2, <1>3, PaddedBy

(* Clean leaves a plain name as it is.                                     *)
LEMMA CleanPlain == ASSUME NEW p, Plain(p) PROVE Clean(p) = p
<1>1. Padded(p, p, 0)
  BY SelfPadded DEF Plain
<1>. QED  BY <1>1, CleanPadded, PlainIs

(* Padding of padding is padding.                                          *)
LEMMA PaddedMore ==
  ASSUME NEW q, NEW p, NEW r \in Path, NEW o, NEW u, Padded(q, p, o), Padded(p, r, u)
  PROVE  Padded(q, r, o + u)
<1>. DEFINE m == Len(q)
            n == Len(p)
            l == Len(r)
<1>1. /\ q \in Path /\ o \in Nat /\ u \in Nat /\ m \in Nat /\ n \in Nat
      /\ o + n <= m /\ u + l <= n
  BY PathIs DEF Padded
<1>2. /\ \A k \in 1..n : q[o + k] = p[k]
      /\ \A k \in 1..o : q[k] \in Blank
      /\ \A k \in (o + n + 1)..m : q[k] = Void
  BY DEF Padded
<1>3. /\ \A k \in 1..l : p[u + k] = r[k]
      /\ \A k \in 1..u : p[k] \in Blank
      /\ \A k \in (u + l + 1)..n : p[k] = Void
  BY DEF Padded
<1>4. l \in Nat
  BY PathIs
<1>. HIDE DEF m, n, l
<1>5. ASSUME NEW k \in 1..l PROVE q[(o + u) + k] = r[k]
  <2>1. u + k \in 1..n /\ o + (u + k) = (o + u) + k
    BY <1>1, <1>4
  <2>. QED  BY <1>2, <1>3, <2>1
<1>6. ASSUME NEW k \in 1..(o + u) PROVE q[k] \in Blank
  <2>1. CASE k <= o
    <3>1. k \in 1..o
      BY <1>1, <2>1
    <3>. QED  BY <1>2, <3>1
  <2>2. CASE k > o
    <3>1. k - o \in 1..u /\ k - o \in 1..n /\ o + (k - o) = k
      BY <1>1, <1>4, <2>2
    <3>2. q[o + (k - o)] = p[k - o] /\ p[k - o] \in Blank
      BY <1>2, <1>3, <3>1
    <3>. QED  BY <3>1, <3>2
  <2>. QED  BY <1>1, <2>1, <2>2
<1>7. ASSUME NEW k \in ((o + u) + l + 1)..m PROVE q[k] = Void
  <2>1. CASE k > o + n
    <3>1. k \in (o + n + 1)..m
      BY <1>1, <1>4, <2>1
    <3>. QED  BY <1>2, <3>1
  <2>2. CASE k <= o + n
    <3>1. k - o \in (u + l + 1)..n /\ k - o \in 1..n /\ o + (k - o) = k
      BY <1>1, <1>4, <2>2
    <3>2. q[o + (k - o)] = p[k - o] /\ p[k - o] = Void
      BY <1>2, <1>3, <3>1
    <3>. QED  BY <3>1, <3>2
  <2>3. k > o + n \/ k <= o + n
    BY <1>1, <1>4
  <2>. QED  BY <2>1, <2>2, <2>3
<1>8. o + u \in Nat /\ (o + u) + l <= m
  BY <1>1, <1>4
<1>. QED  BY <1>1, <1>5, <1>6, <1>7, <1>8 DEF Padded, m, l

(* A slash less at the end, or an element less in front.                   *)
LEMMA FrontPadded ==
  ASSUME NEW p \in Path, HasSlash(p), Last(p) = Void
  PROVE  Front(p) \in Path /\ Padded(p, Front(p), 0)
<1>1. p \in Seq(Element) /\ p # <<>>
  BY PathIs, SlashLong
<1>2. PICK n \in Nat \ {0} : n = Len(p)
  BY <1>1, FrontLast
<1>3. /\ Front(p) \in Path /\ Len(Front(p)) = n - 1 /\ p[n] = Void
      /\ \A k \in 1..(n - 1) : Front(p)[k] = p[k]
  BY <1>1, <1>2, FrontLast, FrontType
<1>4. PICK m \in Nat : m = n - 1
  BY <1>2
<1>5. n = 0 + m + 1 /\ 0 \in Nat /\ 1 \in Nat /\ 0 <= 1 /\ 1 <= 1 /\ 0 # 1
  BY <1>2, <1>4
<1>6. \A k \in 1..m : p[0 + k] = Front(p)[k]
  BY <1>3, <1>4
<1>7. p[0 + m + 1] = Void
  BY <1>3, <1>5
<1>. QED  BY <1>2, <1>3, <1>4, <1>5, <1>6, <1>7, PaddedBy

(* A first element that is blank is padding.                               *)
LEMMA TailPadded ==
  ASSUME NEW p \in Path, HasSlash(p), Head(p) \in Blank
  PROVE  Tail(p) \in Path /\ Padded(p, Tail(p), 1)
<1>1. p \in Seq(Element) /\ p # <<>>
  BY PathIs, SlashLong
<1>2. PICK n \in Nat \ {0} : n = Len(p)
  BY <1>1, FrontLast
<1>3. Tail(p) \in Path /\ Len(Tail(p)) = n - 1 /\ \A k \in 1..(n - 1) : Tail(p)[k] = p[k + 1]
  BY <1>1, <1>2, HeadTailProperties, TailType
<1>4. Head(p) = p[1]
  BY <1>1
<1>5. PICK m \in Nat : m = n - 1
  BY <1>2
<1>6. n = 1 + m + 0 /\ 0 \in Nat /\ 1 \in Nat /\ 0 <= 1 /\ 1 <= 1 /\ 0 # 1
  BY <1>2, <1>5
<1>7. \A k \in 1..m : p[1 + k] = Tail(p)[k]
  <2>. TAKE k \in 1..m
  <2>1. k + 1 = 1 + k /\ k \in 1..(n - 1)
    BY <1>5
  <2>. QED  BY <1>3, <2>1
<1>. QED  BY <1>2, <1>3, <1>4, <1>5, <1>6, <1>7, PaddedBy

(* What normalize takes away is padding.                                   *)
LEMMA NormalizePadded ==
  ASSUME NEW p \in Path
  PROVE  \E o : Padded(p, normalize(p), o)
<1>. DEFINE a == IF HasSlash(p) /\ Last(p) = "" THEN Front(p) ELSE p
            b == IF HasSlash(a) /\ Head(a) = "" THEN Tail(a) ELSE a
            c == IF HasSlash(b) /\ Head(b) = "." THEN Tail(b) ELSE b
<1>1. a \in Path /\ \E o : Padded(p, a, o)
  BY FrontPadded, SelfPadded DEF Void
<1>2. c = normalize(p)
  BY DEF normalize
<1>. HIDE DEF a
<1>3. b \in Path /\ \E o : Padded(a, b, o)
  BY <1>1, TailPadded, SelfPadded DEF Blank
<1>. HIDE DEF b
<1>4. c \in Path /\ \E o : Padded(b, c, o)
  BY <1>3, TailPadded, SelfPadded DEF Blank
<1>. HIDE DEF c
<1>5. \E o : Padded(p, b, o)
  BY <1>1, <1>3, PaddedMore
<1>6. \E o : Padded(p, c, o)
  BY <1>3, <1>4, <1>5, PaddedMore
<1>. QED  BY <1>2, <1>6

(* The last element of a padded name is the name's.                        *)
LEMMA BasePadded ==
  ASSUME NEW p, Plain(p), NEW q, NEW o, Padded(q, p, o)
  PROVE  BaseOf(q) = <<p[Len(p)]>>
<1>. DEFINE n == Len(p)
            m == Len(q)
            named == {i \in DOMAIN q : q[i] # ""}
<1>1. /\ q \in Path /\ o \in Nat /\ o + n <= m /\ n \in Nat \ {0} /\ m \in Nat
      /\ DOMAIN q = 1..m
  BY PlainIs, PathIs DEF Padded
<1>2. /\ \A k \in 1..n : q[o + k] = p[k] /\ p[k] # ""
      /\ \A k \in (o + n + 1)..m : q[k] = ""
  BY DEF Padded, Plain, Void
<1>. HIDE DEF n, m
<1>3. o + n \in named /\ q[o + n] = p[n]
  <2>1. n \in 1..n /\ o + n \in 1..m
    BY <1>1
  <2>. QED  BY <1>1, <1>2, <2>1
<1>4. named \subseteq 1..m /\ \A i \in named : i <= o + n
  <2>1. \A i \in 1..m : i <= o + n \/ i \in (o + n + 1)..m
    BY <1>1
  <2>. QED  BY <1>1, <1>2, <2>1
<1>5. BaseOf(q) = IF named # {} THEN <<q[Max(named)]>> ELSE IF HasSlash(q) THEN <<"", "">> ELSE Dot
  BY DEF BaseOf
<1>. HIDE DEF named
<1>6. Max(named) = o + n
  <2>1. Max(named) \in named /\ o + n <= Max(named)
    BY <1>1, <1>3, <1>4, Greatest
  <2>2. Max(named) <= o + n
    BY <1>4, <2>1
  <2>3. Max(named) \in 1..m
    BY <1>4, <2>1
  <2>4. PICK x \in Nat : x = Max(named)
    BY <1>1, <2>3
  <2>. QED  BY <1>1, <2>1, <2>2, <2>4
<1>7. BaseOf(q) = <<q[o + n]>>
  BY <1>3, <1>5, <1>6
<1>. QED  BY <1>3, <1>7 DEF n

(* A header's name is the last element of the entry's.                     *)
LEMMA NameOfPlain ==
  ASSUME NEW h \in Header, Plain(normalize(h.name))
  PROVE  NameOf(h) = <<normalize(h.name)[Len(normalize(h.name))]>>
<1>. DEFINE f == normalize(h.name)
<1>1. h.name \in Path
  BY DEF Header
<1>2. PICK o : Padded(h.name, f, o)
  BY <1>1, NormalizePadded
<1>. HIDE DEF f
<1>3. Plain(f) /\ f \in Path
  BY DEF f, Plain
<1>4. CASE h.type # "dir"
  BY <1>2, <1>3, <1>4, BasePadded DEF NameOf, f
<1>5. CASE h.type = "dir"
  <2>1. Clean(h.name) = IF IsAbs(h.name) THEN Empty \o f ELSE f
    BY <1>2, <1>3, CleanPadded
  <2>2. Padded(f, f, 0)
    BY <1>3, SelfPadded
  <2>3. Padded(Empty \o f, f, 1)
    <3>1. PICK n \in Nat : n = Len(f)
      BY <1>3, PathIs
    <3>2. Empty \in Seq(Element) /\ f \in Seq(Element) /\ Len(Empty) = 1 /\ Empty[1] \in Blank
      BY <1>3, Constants, PathIs DEF Empty, Blank
    <3>3. /\ Len(Empty \o f) = 1 + n
          /\ \A k \in 1..(1 + n) : (Empty \o f)[k] = IF k <= 1 THEN Empty[k] ELSE f[k - 1]
      <4>. HIDE DEF Empty
      <4>1. /\ Len(Empty \o f) = Len(Empty) + Len(f)
            /\ \A k \in 1..(Len(Empty) + Len(f)) :
                 (Empty \o f)[k] = IF k <= Len(Empty) THEN Empty[k] ELSE f[k - Len(Empty)]
        BY <3>2, ConcatProperties
      <4>. QED  BY <3>1, <3>2, <4>1
    <3>4. Empty \o f \in Path
      BY <1>3, ConcatType, Constants
    <3>5. (Empty \o f)[1] \in Blank
      <4>1. 1 \in 1..(1 + n)
        BY <3>1
      <4>. QED  BY <3>2, <3>3, <4>1
    <3>6. \A k \in 1..n : (Empty \o f)[1 + k] = f[k]
      <4>. TAKE k \in 1..n
      <4>1. 1 + k \in 1..(1 + n) /\ ~(1 + k <= 1) /\ (1 + k) - 1 = k
        BY <3>1
      <4>. QED  BY <3>3, <4>1
    <3>7. 1 + n = 1 + n + 0 /\ 0 \in Nat /\ 1 \in Nat /\ 0 <= 1 /\ 1 <= 1 /\ 0 # 1
      BY <3>1
    <3>. QED  BY <1>3, <3>1, <3>3, <3>4, <3>5, <3>6, <3>7, PaddedBy
  <2>4. BaseOf(Clean(h.name)) = <<f[Len(f)]>>
    BY <1>3, <2>1, <2>2, <2>3, BasePadded
  <2>. QED  BY <1>5, <2>4 DEF NameOf, f
<1>. QED  BY <1>4, <1>5

(* The directory of a name is what is in front of its last element.        *)
LEMMA DirOfPlain ==
  ASSUME NEW p, Plain(p)
  PROVE  /\ Len(p) = 1 => DirOf(p) = Dot
         /\ Len(p) # 1 => /\ DirOf(p) = Front(p) /\ Plain(Front(p))
                         /\ Len(Front(p)) = Len(p) - 1
<1>1. p \in Seq(Element) /\ p # <<>>
  BY PlainIs DEF Plain
<1>2. PICK n \in Nat \ {0} : n = Len(p)
  BY <1>1, FrontLast
<1>3. CASE n = 1
  BY <1>2, <1>3 DEF DirOf, HasSlash
<1>4. CASE n # 1
  <2>. DEFINE d == Front(p)
              q == Append(d, Void)
  <2>1. d \in Seq(Element) /\ Len(d) = n - 1 /\ \A k \in 1..(n - 1) : d[k] = p[k]
    BY <1>1, <1>2, FrontLast
  <2>2. d \in Path /\ d # <<>>
    <3>1. Len(d) # 0
      BY <1>2, <1>4, <2>1
    <3>. QED  BY <2>1, <3>1, IsPath
  <2>3. Plain(d)
    <3>1. \A k \in 1..(n - 1) : k \in 1..n
      BY <1>2
    <3>2. \A k \in 1..(n - 1) : d[k] \notin {"", ".", ".."}
      BY <1>2, <2>1, <3>1 DEF Plain
    <3>. QED  BY <2>1, <2>2, <3>2 DEF Plain
  <2>4. HasSlash(p)
    BY <1>2, <1>4 DEF HasSlash
  <2>. HIDE DEF d
  <2>5. /\ q \in Seq(Element) /\ Len(q) = n /\ (\A k \in 1..(n - 1) : q[k] = d[k]) /\ q[n] = Void
        /\ q # <<>>
    <3>1. Void \in Element
      BY Elements DEF Void
    <3>2. /\ q \in Seq(Element) /\ Len(q) = (n - 1) + 1 /\ q # <<>>
          /\ \A k \in 1..(n - 1) : q[k] = d[k]
          /\ q[(n - 1) + 1] = Void
      <4>1. /\ q \in Seq(Element) /\ Len(q) = Len(d) + 1 /\ q # <<>>
            /\ \A k \in 1..Len(d) : q[k] = d[k]
            /\ q[Len(d) + 1] = Void
        BY <2>1, <3>1, AppendProperties DEF q
      <4>. QED  BY <2>1, <4>1
    <3>3. (n - 1) + 1 = n
      BY <1>2
    <3>. QED  BY <3>2, <3>3
  <2>. HIDE DEF q
  <2>6. Padded(q, d, 0)
    <3>1. PICK m \in Nat : m = n - 1
      BY <1>2
    <3>2. n = 0 + m + 1 /\ 0 \in Nat /\ 1 \in Nat /\ 0 <= 1 /\ 1 <= 1 /\ 0 # 1
      BY <1>2, <3>1
    <3>3. \A k \in 1..m : q[0 + k] = d[k]
      BY <2>5, <3>1
    <3>4. q \in Path /\ d \in Path
      BY <2>2, <2>5, IsPath
    <3>5. q[0 + m + 1] = Void
      BY <2>5, <3>2
    <3>. QED  BY <2>1, <2>5, <3>1, <3>2, <3>3, <3>4, <3>5, PaddedBy
  <2>7. ~IsAbs(q)
    <3>1. Head(q) = q[1]
      <4>1. PICK r \in Seq(Element) : r = q /\ r # <<>>
        BY <2>5
      <4>. QED  BY <4>1
    <3>2. 1 \in 1..(n - 1) /\ 1 \in 1..Len(d)
      BY <1>2, <1>4, <2>1
    <3>3. q[1] = d[1] /\ d[1] # ""
      BY <2>3, <2>5, <3>2 DEF Plain
    <3>. QED  BY <3>1, <3>3 DEF IsAbs
  <2>8. Clean(q) = d
    BY <2>3, <2>6, <2>7, CleanPadded
  <2>9. DirOf(p) = d
    BY <2>4, <2>8 DEF DirOf, q, d, Void
  <2>. QED  BY <1>2, <1>4, <2>1, <2>3, <2>9 DEF d
<1>. QED  BY <1>2, <1>3, <1>4

(* Joining a directory and the last element makes the name again.          *)
LEMMA JoinPlain ==
  ASSUME NEW p, Plain(p)
  PROVE  Join(<<DirOf(p), <<p[Len(p)]>>>>) = p
<1>. DEFINE d == DirOf(p)
            b == <<p[Len(p)]>>
            ps == <<d, b>>
<1>1. p \in Seq(Element) /\ p # <<>> /\ p \in Path
  BY PlainIs DEF Plain
<1>2. PICK n \in Nat \ {0} : n = Len(p)
  BY <1>1, FrontLast
<1>3. p[n] \in Element /\ p[n] \notin {"", ".", ".."}
  <2>1. n \in 1..Len(p)
    BY <1>2
  <2>2. p[n] \in Element
    BY <1>1, <2>1
  <2>3. p[n] \notin {"", ".", ".."}
    BY <2>1 DEF Plain
  <2>. QED  BY <2>2, <2>3
<1>4. d \in Path /\ b \in Path /\ b = <<p[n]>>
  BY <1>1, <1>2, <1>3, DirOfType, Constants
<1>5. Plain(b) /\ Len(b) = 1 /\ b[1] = p[n]
  <2>1. Len(b) = 1 /\ b[1] = p[n] /\ b # <<>>
    BY <1>4
  <2>2. \A i \in 1..1 : i = 1
    OBVIOUS
  <2>. QED  BY <1>3, <1>4, <2>1, <2>2 DEF Plain
<1>6. d # Empty /\ b # Empty
  <2>1. b # Empty
    BY <1>5, PlainIs
  <2>2. d = Dot \/ Plain(d)
    BY <1>2, DirOfPlain
  <2>3. Dot # Empty
    <3>1. Dot[1] = "." /\ Empty[1] = ""
      BY DEF Dot, Empty
    <3>. QED  BY <3>1
  <2>. QED  BY <2>1, <2>2, <2>3, PlainIs
<1>. HIDE DEF d, b
<1>7. ps \in Seq(Path) /\ Len(ps) = 2 /\ ps[1] = d /\ ps[2] = b
  BY <1>4, Names
<1>. HIDE DEF ps
<1>8. PICK e : /\ IsJoining(ps, e)
               /\ Join(ps) = IF e[2] = <<>> THEN Empty ELSE Clean(e[2])
  BY <1>7, Joining
<1>9. e[2] = d \o b
  <2>1. e[0] = <<>> /\ 1 \in 1..2 /\ 2 \in 1..2 /\ 1 - 1 = 0 /\ 2 - 1 = 1
    BY <1>8 DEF IsJoining
  <2>2. e[1] = e[0] \o d /\ e[2] = e[1] \o b
    BY <1>6, <1>7, <1>8, <2>1 DEF IsJoining
  <2>3. <<>> \o d = d
    BY <1>4, PathIs, ConcatEmptySeq
  <2>. QED  BY <2>1, <2>2, <2>3
<1>10. /\ d \o b \in Path /\ Len(d \o b) = Len(d) + 1 /\ d \in Seq(Element) /\ Len(d) \in Nat
       /\ \A i \in 1..Len(d) : (d \o b)[i] = d[i]
       /\ (d \o b)[Len(d) + 1] = p[n]
  <2>1. d \in Seq(Element) /\ b \in Seq(Element) /\ Len(d) \in Nat
    BY <1>4, PathIs
  <2>2. /\ d \o b \in Seq(Element) /\ Len(d \o b) = Len(d) + Len(b)
        /\ \A i \in 1..(Len(d) + Len(b)) : (d \o b)[i] = IF i <= Len(d) THEN d[i] ELSE b[i - Len(d)]
    BY <2>1, ConcatProperties
  <2>3. \A i \in 1..Len(d) : i \in 1..(Len(d) + 1) /\ i <= Len(d)
    BY <2>1
  <2>4. /\ Len(d) + 1 \in 1..(Len(d) + 1) /\ ~(Len(d) + 1 <= Len(d)) /\ (Len(d) + 1) - Len(d) = 1
    BY <2>1
  <2>. QED  BY <1>5, <2>1, <2>2, <2>3, <2>4, IsPath
<1>11. d \o b # <<>>
  <2>1. Len(d \o b) # 0
    BY <1>10
  <2>. QED  BY <2>1
<1>12. Join(ps) = Clean(d \o b)
  BY <1>8, <1>9, <1>11
<1>13. CASE n = 1
  <2>1. d = Dot /\ Len(d) = 1 /\ d[1] \in Blank
    <3>1. d = Dot
      BY <1>2, <1>13, DirOfPlain DEF d
    <3>2. Len(Dot) = 1 /\ Dot[1] \in Blank
      BY DEF Dot, Blank
    <3>. QED  BY <3>1, <3>2
  <2>2. b = p
    <3>1. Len(b) = Len(p) /\ \A i \in 1..1 : b[i] = p[i]
      BY <1>2, <1>5, <1>13
    <3>2. b \in Seq(Element)
      BY <1>4, PathIs
    <3>. QED  BY <1>1, <1>5, <3>1, <3>2, SeqEqual
  <2>3. Padded(d \o b, b, 1)
    <3>1. Len(d \o b) = 1 + 1 + 0 /\ (d \o b)[1] \in Blank /\ (d \o b)[1 + 1] = b[1]
      BY <1>5, <1>10, <2>1
    <3>2. \A i \in 1..1 : (d \o b)[1 + i] = b[i]
      BY <3>1
    <3>3. 1 \in Nat /\ 0 \in Nat /\ 1 <= 1 /\ 0 <= 1 /\ 0 # 1
      OBVIOUS
    <3>. QED  BY <1>4, <1>5, <1>10, <3>1, <3>2, <3>3, PaddedBy
  <2>4. ~IsAbs(d \o b)
    <3>1. Head(d \o b) = (d \o b)[1]
      BY <1>10, <1>11
    <3>2. (d \o b)[1] = "."
      BY <1>10, <2>1 DEF Dot
    <3>. QED  BY <3>1, <3>2 DEF IsAbs
  <2>. QED  BY <1>5, <1>12, <2>2, <2>3, <2>4, CleanPadded DEF ps, d, b
<1>14. CASE n # 1
  <2>1. d = Front(p) /\ Len(d) = n - 1
    BY <1>2, <1>14, DirOfPlain DEF d
  <2>2. d \o b = p
    <3>1. \A i \in 1..(n - 1) : (d \o b)[i] = p[i]
      BY <1>1, <1>2, <1>10, <2>1, FrontLast
    <3>2. Len(d \o b) = n /\ (d \o b)[n] = p[n]
      BY <1>2, <1>10, <2>1
    <3>3. \A i \in 1..n : i \in 1..(n - 1) \/ i = n
      BY <1>2
    <3>4. \A i \in 1..n : (d \o b)[i] = p[i]
      BY <3>1, <3>2, <3>3
    <3>5. d \o b \in Seq(Element)
      BY <1>10, PathIs
    <3>. QED  BY <1>1, <1>2, <3>2, <3>4, <3>5, SeqEqual
  <2>. QED  BY <1>12, <2>2, CleanPlain DEF ps, d, b
<1>. QED  BY <1>13, <1>14

---------------------------------------------------------------------------
(* What fs.WalkDir visits *)

(* What New has computed of an entry.                                      *)
LEMMA HeadersTyped ==
  ASSUME Unwritten, NEW i \in DOMAIN fsys.files
  PROVE  /\ fsys.files[i].filename = normalize(fsys.files[i].header.name)
         /\ fsys.files[i].dir = ParentOf(fsys.files[i].filename)
         /\ fsys.files[i].header \in Header
<1>1. PICK t \in Tars : fsys = New(t)
  BY DEF Unwritten
<1>2. t \in Seq(Header)
  BY TarsAssumption
<1>3. i \in DOMAIN t /\ fsys.files[i] = EntryOf(t[i], i)
  BY <1>1, <1>2, NewType
<1>. QED  BY <1>3, FSTyped DEF EntryOf

(* The names there are, and those that are directories.                    *)
Named == {fsys.files[i].filename : i \in DOMAIN fsys.files}
Targets == {Dot} \cup Named
IsDirectory(n) ==
  n = Dot \/ \E i \in DOMAIN fsys.files :
               fsys.files[i].filename = n /\ fsys.files[i].header.type = "dir"

(* What an entry of a well-formed tar is.                                  *)
LEMMA WellNamed ==
  ASSUME Unwritten, WellFormed, NEW i \in DOMAIN fsys.files
  PROVE  LET f == fsys.files[i].filename
             d == fsys.files[i].dir
         IN  /\ f = Dot \/ Plain(f)
             /\ f = Dot => d = Empty
             /\ f # Dot => /\ d = DirOf(f) /\ d \in Targets /\ IsDirectory(d)
                           /\ Join(<<d, NameOf(fsys.files[i].header)>>) = f
<1>. DEFINE f == fsys.files[i].filename
            d == fsys.files[i].dir
            h == fsys.files[i].header
<1>1. f \in Path /\ f = normalize(h.name) /\ d = ParentOf(f) /\ h \in Header
  BY HeadersTyped, FSTyped
<1>2. f = Dot \/ Plain(f)
  <2>1. ValidPath(f)
    BY DEF WellFormed
  <2>. QED  BY <1>1, <2>1, PathIs DEF ValidPath, Plain
<1>3. f = Dot => d = Empty
  BY <1>1 DEF ParentOf
<1>4. ASSUME f # Dot
      PROVE  /\ d = DirOf(f) /\ d \in Targets /\ IsDirectory(d)
             /\ Join(<<d, NameOf(h)>>) = f
  <2>1. Plain(f) /\ d = DirOf(f)
    BY <1>1, <1>2, <1>4 DEF ParentOf
  <2>2. d # Empty
    <3>1. d = Dot \/ Plain(d)
      BY <2>1, DirOfPlain, PlainIs
    <3>2. Dot # Empty
      <4>1. Dot[1] = "." /\ Empty[1] = ""
        BY DEF Dot, Empty
      <4>. QED  BY <4>1
    <3>. QED  BY <3>1, <3>2, PlainIs
  <2>3. d = Dot \/ (Has(d) /\ Entry(d).header.type = "dir")
    BY <2>2 DEF WellFormed
  <2>4. d \in Targets /\ IsDirectory(d)
    <3>1. CASE d = Dot
      BY <3>1 DEF Targets, IsDirectory
    <3>2. CASE Has(d) /\ Entry(d).header.type = "dir"
      <4>1. fsys.index[d] \in DOMAIN fsys.files /\ fsys.files[fsys.index[d]].filename = d
        BY <3>2, FSTyped DEF FSType, Has
      <4>2. fsys.files[fsys.index[d]].header.type = "dir"
        BY <3>2 DEF Entry
      <4>3. d \in Named
        BY <4>1 DEF Named
      <4>. QED  BY <4>1, <4>2, <4>3 DEF Targets, IsDirectory
    <3>. QED  BY <2>3, <3>1, <3>2
  <2>5. NameOf(h) = <<f[Len(f)]>>
    BY <1>1, <2>1, NameOfPlain
  <2>. QED  BY <2>1, <2>4, <2>5, JoinPlain
<1>. QED  BY <1>2, <1>3, <1>4

(* The paths in a list of what is to be visited.                           *)
PathsIn(t) == {t[k][1] : k \in 1..Len(t)}
OnceIn(t)  == \A j, k \in 1..Len(t) : t[j][1] = t[k][1] => j = k

(* What is below a path: the entries of the directory, each once.          *)
Below(p) == {fsys.files[i].filename : i \in {j \in DOMAIN fsys.files : fsys.files[j].dir = p}}

(* fs.WalkDir is shown each entry below a directory once, under the name   *)
(* that the tar has for it: joined from the directory and the base of the  *)
(* header's name it is the same again.                                     *)
LEMMA ChildrenAre ==
  ASSUME Unwritten, WellFormed, NEW p \in Path, p # Empty
  PROVE  /\ Children(p) \in Seq(Path \X BOOLEAN)
         /\ PathsIn(Children(p)) = Below(p) /\ OnceIn(Children(p))
         /\ \A k \in 1..Len(Children(p)) : Children(p)[k][2] = IsDirectory(Children(p)[k][1])
<1>. DEFINE F == fsys.files
            T == Those(F, p)
            n == Cardinality(T)
            c == Children(p)
<1>1. F \in Seq(EntryType) /\ DOMAIN F = 1..Len(F)
  BY FSTyped DEF FSType
<1>2. PICK at \in [1..n -> T] :
           /\ n \in Nat
           /\ Listing(F, p) = [k \in 1..n |-> F[at[k]]]
           /\ \A k, l \in 1..n : at[k] = at[l] => k = l
           /\ \A i \in T : \E k \in 1..n : at[k] = i
  BY <1>1, ListingIs
<1>3. ReadDir(p) \in Seq(EntryType) /\ Len(ReadDir(p)) = n /\ \A k \in 1..n : ReadDir(p)[k] = F[at[k]]
  <2>1. CASE p \in DOMAIN fsys.dirs
    <3>1. ReadDir(p) = Listing(F, p)
      BY <2>1, FSTyped DEF FSType, ReadDir
    <3>2. Len(Listing(F, p)) = n
      BY <1>2
    <3>. QED  BY <1>2, <3>1, <3>2, ReadDirType
  <2>2. CASE p \notin DOMAIN fsys.dirs
    <3>1. ReadDir(p) = <<>>
      BY <2>2 DEF ReadDir
    <3>2. T = {}
      BY <2>2, FSTyped DEF FSType, Those
    <3>3. n = 0
      BY <3>2, FS_EmptySet
    <3>. HIDE DEF n
    <3>. QED  BY <3>1, <3>3, ReadDirType
  <2>. QED  BY <2>1, <2>2
<1>4. /\ c \in Seq(Path \X BOOLEAN) /\ Len(c) = n
      /\ \A k \in 1..n : c[k] = <<Join(<<p, NameOf(F[at[k]].header)>>), F[at[k]].header.type = "dir">>
  <2>1. /\ c \in Seq(Path \X BOOLEAN) /\ Len(c) = n
        /\ \A k \in 1..n : c[k] = <<Join(<<p, NameOf(ReadDir(p)[k].header)>>), ReadDir(p)[k].header.type = "dir">>
    <3>1. c \in Seq(Path \X BOOLEAN) /\ Len(c) = Len(ReadDir(p))
      BY ChildrenType
    <3>2. DOMAIN ReadDir(p) = 1..n
      BY <1>3
    <3>. QED  BY <1>3, <3>1, <3>2 DEF Children
  <2>. HIDE DEF c, n
  <2>. QED  BY <1>3, <2>1
<1>. HIDE DEF c, n
<1>5. ASSUME NEW k \in 1..n
      PROVE  /\ at[k] \in DOMAIN F /\ F[at[k]].dir = p
             /\ c[k][1] = F[at[k]].filename /\ c[k][2] = (F[at[k]].header.type = "dir")
  <2>1. at[k] \in T
    BY <1>2
  <2>2. at[k] \in DOMAIN F /\ F[at[k]].dir = p
    BY <2>1 DEF Those
  <2>3. F[at[k]].filename # Dot
    BY <2>2, WellNamed
  <2>4. Join(<<p, NameOf(F[at[k]].header)>>) = F[at[k]].filename
    BY <2>2, <2>3, WellNamed
  <2>. QED  BY <1>4, <2>2, <2>4
<1>6. \A i, j \in DOMAIN F : F[i].filename = F[j].filename => i = j
  BY DEF WellFormed
<1>7. PathsIn(c) = Below(p)
  <2>1. ASSUME NEW x \in PathsIn(c) PROVE x \in Below(p)
    <3>1. PICK k \in 1..n : x = c[k][1]
      BY <1>4 DEF PathsIn
    <3>. QED  BY <1>5, <3>1 DEF Below
  <2>2. ASSUME NEW x \in Below(p) PROVE x \in PathsIn(c)
    <3>1. PICK i \in T : x = F[i].filename
      BY DEF Below, Those
    <3>2. PICK k \in 1..n : at[k] = i
      BY <1>2, <3>1
    <3>3. c[k][1] = x
      BY <1>5, <3>1, <3>2
    <3>. QED  BY <1>4, <3>2, <3>3 DEF PathsIn
  <2>. QED  BY <2>1, <2>2
<1>8. OnceIn(c)
  <2>. SUFFICES ASSUME NEW j \in 1..n, NEW k \in 1..n, c[j][1] = c[k][1] PROVE j = k
    BY <1>4 DEF OnceIn
  <2>1. at[j] = at[k]
    BY <1>5, <1>6
  <2>. QED  BY <1>2, <2>1
<1>9. \A k \in 1..Len(c) : c[k][2] = IsDirectory(c[k][1])
  <2>. SUFFICES ASSUME NEW k \in 1..n PROVE c[k][2] = IsDirectory(c[k][1])
    BY <1>4
  <2>. DEFINE i == at[k]
  <2>1. i \in DOMAIN F /\ c[k][1] = F[i].filename /\ c[k][2] = (F[i].header.type = "dir") /\ F[i].dir = p
    BY <1>5
  <2>. HIDE DEF i
  <2>2. F[i].filename # Dot
    BY <2>1, WellNamed
  <2>3. IsDirectory(F[i].filename) <=> F[i].header.type = "dir"
    BY <1>6, <2>1, <2>2 DEF IsDirectory
  <2>4. IsDirectory(F[i].filename) \in BOOLEAN
    BY DEF IsDirectory
  <2>. QED  BY <2>1, <2>3, <2>4
<1>. QED  BY <1>4, <1>7, <1>8, <1>9 DEF c

---------------------------------------------------------------------------
(* Lists of what is to be visited *)

(* Two lists, one after the other.                                         *)
LEMMA ListsJoined ==
  ASSUME NEW s \in Seq(Path \X BOOLEAN), NEW t \in Seq(Path \X BOOLEAN)
  PROVE  /\ s \o t \in Seq(Path \X BOOLEAN) /\ Len(s \o t) = Len(s) + Len(t)
         /\ PathsIn(s \o t) = PathsIn(s) \cup PathsIn(t)
         /\ OnceIn(s) /\ OnceIn(t) /\ PathsIn(s) \cap PathsIn(t) = {} => OnceIn(s \o t)
         /\ \A k \in 1..Len(s \o t) :
              (\E j \in 1..Len(s) : (s \o t)[k] = s[j]) \/ (\E j \in 1..Len(t) : (s \o t)[k] = t[j])
<1>. DEFINE u == s \o t
            m == Len(s)
            n == Len(t)
<1>1. /\ u \in Seq(Path \X BOOLEAN) /\ Len(u) = m + n /\ m \in Nat /\ n \in Nat
      /\ \A i \in 1..(m + n) : u[i] = IF i <= m THEN s[i] ELSE t[i - m]
  BY ConcatProperties
<1>. HIDE DEF u, m, n
<1>2. \A i \in 1..m : i \in 1..(m + n) /\ u[i] = s[i]
  <2>. TAKE i \in 1..m
  <2>1. i \in 1..(m + n) /\ i <= m
    BY <1>1
  <2>. QED  BY <1>1, <2>1
<1>3. \A i \in 1..n : m + i \in 1..(m + n) /\ u[m + i] = t[i]
  <2>. TAKE i \in 1..n
  <2>1. m + i \in 1..(m + n) /\ ~(m + i <= m) /\ (m + i) - m = i
    BY <1>1
  <2>. QED  BY <1>1, <2>1
<1>4. \A k \in 1..(m + n) : k \in 1..m \/ (k - m \in 1..n /\ m + (k - m) = k)
  BY <1>1
<1>5. \A k \in 1..(m + n) : (k \in 1..m /\ u[k] = s[k]) \/ (k - m \in 1..n /\ m + (k - m) = k /\ u[k] = t[k - m])
  <2>. TAKE k \in 1..(m + n)
  <2>1. CASE k \in 1..m
    BY <1>2, <2>1
  <2>2. CASE k - m \in 1..n /\ m + (k - m) = k
    <3>1. u[m + (k - m)] = t[k - m]
      BY <1>3, <2>2
    <3>. QED  BY <2>2, <3>1
  <2>. QED  BY <1>4, <2>1, <2>2
<1>6. PathsIn(u) = PathsIn(s) \cup PathsIn(t)
  <2>1. ASSUME NEW x \in PathsIn(u) PROVE x \in PathsIn(s) \cup PathsIn(t)
    <3>1. PICK k \in 1..(m + n) : x = u[k][1]
      BY <1>1 DEF PathsIn
    <3>. QED  BY <1>5, <3>1 DEF PathsIn, m, n
  <2>2. ASSUME NEW x \in PathsIn(s) PROVE x \in PathsIn(u)
    <3>1. PICK k \in 1..m : x = s[k][1]
      BY DEF PathsIn, m
    <3>. QED  BY <1>1, <1>2, <3>1 DEF PathsIn
  <2>3. ASSUME NEW x \in PathsIn(t) PROVE x \in PathsIn(u)
    <3>1. PICK k \in 1..n : x = t[k][1]
      BY DEF PathsIn, n
    <3>2. m + k \in 1..(m + n) /\ x = u[m + k][1]
      BY <1>3, <3>1
    <3>. QED  BY <1>1, <3>2 DEF PathsIn
  <2>. QED  BY <2>1, <2>2, <2>3
<1>7. ASSUME OnceIn(s), OnceIn(t), PathsIn(s) \cap PathsIn(t) = {} PROVE OnceIn(u)
  <2>. SUFFICES ASSUME NEW j \in 1..(m + n), NEW k \in 1..(m + n), u[j][1] = u[k][1] PROVE j = k
    BY <1>1 DEF OnceIn
  <2>1. CASE j \in 1..m /\ k \in 1..m
    BY <1>2, <1>7, <2>1 DEF OnceIn, m
  <2>2. CASE j \notin 1..m /\ k \notin 1..m
    <3>1. /\ j - m \in 1..n /\ k - m \in 1..n /\ u[j] = t[j - m] /\ u[k] = t[k - m]
          /\ m + (j - m) = j /\ m + (k - m) = k
      BY <1>5, <2>2
    <3>2. j - m = k - m
      BY <1>7, <3>1 DEF OnceIn, n
    <3>. QED  BY <3>1, <3>2
  <2>3. ASSUME NEW a \in 1..(m + n), NEW b \in 1..(m + n), a \in 1..m, b \notin 1..m, u[a][1] = u[b][1]
        PROVE  FALSE
    <3>1. u[a] = s[a] /\ b - m \in 1..n /\ u[b] = t[b - m]
      BY <1>2, <1>5, <2>3
    <3>2. u[a][1] \in PathsIn(s) /\ u[b][1] \in PathsIn(t)
      BY <2>3, <3>1 DEF PathsIn, m, n
    <3>. QED  BY <1>7, <2>3, <3>2
  <2>. QED  BY <2>1, <2>2, <2>3
<1>8. \A k \in 1..Len(u) : (\E j \in 1..m : u[k] = s[j]) \/ (\E j \in 1..n : u[k] = t[j])
  BY <1>1, <1>5
<1>. QED  BY <1>1, <1>6, <1>7, <1>8 DEF u, m, n

(* A list, and what is left when its head is taken.                        *)
LEMMA ListLess ==
  ASSUME NEW t \in Seq(Path \X BOOLEAN), t # <<>>
  PROVE  /\ Head(t) \in Path \X BOOLEAN /\ Tail(t) \in Seq(Path \X BOOLEAN)
         /\ Head(t) = t[1] /\ 1 \in 1..Len(t)
         /\ PathsIn(t) = {Head(t)[1]} \cup PathsIn(Tail(t))
         /\ OnceIn(t) => OnceIn(Tail(t)) /\ Head(t)[1] \notin PathsIn(Tail(t))
         /\ \A k \in 1..Len(Tail(t)) : \E j \in 1..Len(t) : Tail(t)[k] = t[j]
<1>. DEFINE r == Tail(t)
            n == Len(r)
<1>1. /\ r \in Seq(Path \X BOOLEAN) /\ n \in Nat /\ Len(t) = n + 1 /\ Head(t) = t[1]
      /\ Head(t) \in Path \X BOOLEAN
      /\ \A k \in 1..n : r[k] = t[k + 1]
  <2>1. Len(t) \in Nat /\ Len(t) # 0 /\ Head(t) = t[1]
    OBVIOUS
  <2>2. /\ Head(t) \in Path \X BOOLEAN /\ r \in Seq(Path \X BOOLEAN) /\ Len(r) = Len(t) - 1
        /\ \A k \in 1..Len(r) : r[k] = t[k + 1]
    BY HeadTailProperties
  <2>3. Len(t) = n + 1 /\ n \in Nat
    BY <2>1, <2>2
  <2>. QED  BY <2>1, <2>2, <2>3
<1>. HIDE DEF r, n
<1>2. 1 \in 1..(n + 1) /\ \A k \in 1..n : k + 1 \in 1..(n + 1) /\ k + 1 # 1
  BY <1>1
<1>3. \A k \in 1..(n + 1) : k = 1 \/ (k - 1 \in 1..n /\ (k - 1) + 1 = k)
  BY <1>1
<1>4. PathsIn(t) = {Head(t)[1]} \cup PathsIn(r)
  <2>1. ASSUME NEW x \in PathsIn(t) PROVE x \in {Head(t)[1]} \cup PathsIn(r)
    <3>1. PICK k \in 1..(n + 1) : x = t[k][1]
      BY <1>1 DEF PathsIn
    <3>2. CASE k # 1
      <4>1. k - 1 \in 1..n /\ (k - 1) + 1 = k
        BY <1>3, <3>2
      <4>2. x = r[k - 1][1]
        BY <1>1, <3>1, <4>1
      <4>. QED  BY <4>1, <4>2 DEF PathsIn, n
    <3>. QED  BY <1>1, <3>1, <3>2
  <2>2. Head(t)[1] \in PathsIn(t)
    BY <1>1, <1>2 DEF PathsIn
  <2>3. ASSUME NEW x \in PathsIn(r) PROVE x \in PathsIn(t)
    <3>1. PICK k \in 1..n : x = r[k][1]
      BY DEF PathsIn, n
    <3>2. k + 1 \in 1..(n + 1) /\ x = t[k + 1][1]
      BY <1>1, <1>2, <3>1
    <3>. QED  BY <1>1, <3>2 DEF PathsIn
  <2>. QED  BY <2>1, <2>2, <2>3
<1>5. ASSUME OnceIn(t) PROVE OnceIn(r) /\ Head(t)[1] \notin PathsIn(r)
  <2>1. OnceIn(r)
    <3>. SUFFICES ASSUME NEW j \in 1..n, NEW k \in 1..n, r[j][1] = r[k][1] PROVE j = k
      BY DEF OnceIn, n
    <3>1. t[j + 1][1] = t[k + 1][1] /\ j + 1 \in 1..Len(t) /\ k + 1 \in 1..Len(t)
      BY <1>1, <1>2
    <3>2. j + 1 = k + 1
      BY <1>5, <3>1 DEF OnceIn
    <3>. QED  BY <3>2
  <2>2. Head(t)[1] \notin PathsIn(r)
    <3>. SUFFICES ASSUME NEW k \in 1..n, r[k][1] = Head(t)[1] PROVE FALSE
      BY DEF PathsIn, n
    <3>1. t[k + 1][1] = t[1][1] /\ k + 1 \in 1..Len(t) /\ 1 \in 1..Len(t) /\ k + 1 # 1
      BY <1>1, <1>2
    <3>. QED  BY <1>5, <3>1 DEF OnceIn
  <2>. QED  BY <2>1, <2>2
<1>6. \A k \in 1..n : \E j \in 1..Len(t) : r[k] = t[j]
  BY <1>1, <1>2
<1>. QED  BY <1>1, <1>2, <1>4, <1>5, <1>6 DEF r, n

---------------------------------------------------------------------------
(* The walk *)

(* What fs.WalkDir keeps to: it has reached the root; each path it has     *)
(* reached is a name of the tar, visited or still to be visited, but not   *)
(* both and not twice; and it has reached an entry as soon as it has       *)
(* visited the entry's directory.                                          *)
Walking(t, v) ==
  /\ ToSet(v) \cup PathsIn(t) \subseteq Targets
  /\ \A k \in 1..Len(t) : t[k][2] = IsDirectory(t[k][1])
  /\ \A i, j \in 1..Len(v) : v[i] = v[j] => i = j
  /\ OnceIn(t) /\ ToSet(v) \cap PathsIn(t) = {}
  /\ \A i \in DOMAIN fsys.files : fsys.files[i].filename # Dot =>
       (fsys.files[i].filename \in ToSet(v) \cup PathsIn(t) <=> fsys.files[i].dir \in ToSet(v))

(* One more path visited.                                                  *)
LEMMA Appended ==
  ASSUME NEW v \in Seq(Path), NEW x \in Path
  PROVE  /\ ToSet(Append(v, x)) = ToSet(v) \cup {x}
         /\ x \notin ToSet(v) /\ (\A i, j \in 1..Len(v) : v[i] = v[j] => i = j)
              => \A i, j \in 1..Len(Append(v, x)) : Append(v, x)[i] = Append(v, x)[j] => i = j
<1>. DEFINE w == Append(v, x)
            n == Len(v)
<1>1. /\ w \in Seq(Path) /\ Len(w) = n + 1 /\ n \in Nat /\ w[n + 1] = x
      /\ \A i \in 1..n : w[i] = v[i]
  BY AppendProperties
<1>2. DOMAIN v = 1..n /\ DOMAIN w = 1..(n + 1)
  BY <1>1
<1>. HIDE DEF w, n
<1>3. n + 1 \in 1..(n + 1) /\ \A i \in 1..n : i \in 1..(n + 1)
  BY <1>1
<1>4. \A i \in 1..(n + 1) : i \in 1..n \/ i = n + 1
  BY <1>1
<1>5. ToSet(w) = ToSet(v) \cup {x}
  <2>1. ASSUME NEW y \in ToSet(w) PROVE y \in ToSet(v) \cup {x}
    <3>1. PICK i \in 1..(n + 1) : y = w[i]
      BY <1>2, <2>1 DEF ToSet
    <3>. QED  BY <1>1, <1>2, <1>4, <3>1 DEF ToSet
  <2>2. ASSUME NEW y \in ToSet(v) PROVE y \in ToSet(w)
    <3>1. PICK i \in 1..n : y = v[i]
      BY <1>2, <2>2 DEF ToSet
    <3>2. i \in 1..(n + 1) /\ y = w[i]
      BY <1>1, <1>3, <3>1
    <3>. QED  BY <1>2, <3>2 DEF ToSet
  <2>3. x \in ToSet(w)
    BY <1>1, <1>2, <1>3 DEF ToSet
  <2>. QED  BY <2>1, <2>2, <2>3
<1>6. ASSUME x \notin ToSet(v), \A i, j \in 1..n : v[i] = v[j] => i = j
      PROVE  \A i, j \in 1..(n + 1) : w[i] = w[j] => i = j
  <2>. SUFFICES ASSUME NEW i \in 1..(n + 1), NEW j \in 1..(n + 1), w[i] = w[j] PROVE i = j
    OBVIOUS
  <2>1. \A k \in 1..n : w[k] = v[k] /\ v[k] # x
    BY <1>1, <1>2, <1>6 DEF ToSet
  <2>2. CASE i \in 1..n /\ j \in 1..n
    BY <1>6, <2>1, <2>2
  <2>3. CASE i = n + 1
    BY <1>1, <1>4, <2>1, <2>3
  <2>4. CASE j = n + 1
    BY <1>1, <1>4, <2>1, <2>4
  <2>. QED  BY <1>4, <2>2, <2>3, <2>4
<1>. QED  BY <1>1, <1>5, <1>6 DEF w, n

(* A directory lists what is below it, and nothing is below another entry. *)
LEMMA ChildrenOf ==
  ASSUME Unwritten, WellFormed, NEW x \in Targets
  PROVE  LET c == IF IsDirectory(x) THEN Children(x) ELSE <<>>
         IN  /\ c \in Seq(Path \X BOOLEAN)
             /\ PathsIn(c) = Below(x) /\ OnceIn(c)
             /\ \A k \in 1..Len(c) : c[k][2] = IsDirectory(c[k][1])
<1>1. x \in Path /\ x # Empty
  <2>1. CASE x = Dot
    <3>1. Dot[1] = "." /\ Empty[1] = ""
      BY DEF Dot, Empty
    <3>2. Dot # Empty
      BY <3>1
    <3>. QED  BY <2>1, <3>2, Constants
  <2>2. CASE x # Dot
    <3>1. PICK i \in DOMAIN fsys.files : fsys.files[i].filename = x
      BY <2>2 DEF Targets, Named
    <3>2. Plain(x)
      BY <2>2, <3>1, WellNamed
    <3>. QED  BY <3>2, PlainIs DEF Plain
  <2>. QED  BY <2>1, <2>2
<1>2. CASE IsDirectory(x)
  BY <1>1, <1>2, ChildrenAre
<1>3. CASE ~IsDirectory(x)
  <2>1. Below(x) = {}
    <3>. SUFFICES ASSUME NEW i \in DOMAIN fsys.files, fsys.files[i].dir = x PROVE FALSE
      BY DEF Below
    <3>. QED  BY <1>1, <1>3, WellNamed
  <2>2. PathsIn(<<>>) = {} /\ OnceIn(<<>>) /\ <<>> \in Seq(Path \X BOOLEAN) /\ 1..Len(<<>>) = {}
    BY DEF PathsIn, OnceIn
  <2>. QED  BY <1>3, <2>1, <2>2
<1>. QED  BY <1>2, <1>3

(* A visit keeps to it, and loses nothing that has been reached.           *)
LEMMA WalkingStep ==
  ASSUME Unwritten, WellFormed,
         NEW t \in Seq(Path \X BOOLEAN), NEW v \in Seq(Path), t # <<>>, Walking(t, v)
  PROVE  LET x == Head(t)[1]
             u == (IF Head(t)[2] THEN Children(x) ELSE <<>>) \o Tail(t)
             w == Append(v, x)
         IN  Walking(u, w) /\ ToSet(v) \cup PathsIn(t) \subseteq ToSet(w) \cup PathsIn(u)
<1>. DEFINE x == Head(t)[1]
            c == IF Head(t)[2] THEN Children(x) ELSE <<>>
            r == Tail(t)
            u == c \o r
            w == Append(v, x)
<1>1. /\ x \in Path /\ r \in Seq(Path \X BOOLEAN)
      /\ PathsIn(t) = {x} \cup PathsIn(r) /\ OnceIn(r) /\ x \notin PathsIn(r)
      /\ \A k \in 1..Len(r) : r[k][2] = IsDirectory(r[k][1])
      /\ Head(t)[2] = IsDirectory(x)
  BY ListLess DEF Walking
<1>2. x \in Targets /\ x \notin ToSet(v)
  BY <1>1 DEF Walking
<1>3. /\ c \in Seq(Path \X BOOLEAN)
      /\ PathsIn(c) = Below(x) /\ OnceIn(c)
      /\ \A k \in 1..Len(c) : c[k][2] = IsDirectory(c[k][1])
  BY <1>1, <1>2, ChildrenOf
<1>. HIDE DEF x, c, r
<1>4. /\ ToSet(w) = ToSet(v) \cup {x}
      /\ \A i, j \in 1..Len(w) : w[i] = w[j] => i = j
  BY <1>1, <1>2, Appended DEF Walking
<1>5. ASSUME NEW i \in DOMAIN fsys.files, fsys.files[i].dir = x
      PROVE  /\ fsys.files[i].filename # Dot
             /\ fsys.files[i].filename \notin ToSet(v) \cup PathsIn(t)
  <2>1. fsys.files[i].filename # Dot
    <3>1. x # Empty
      <4>1. Dot[1] = "." /\ Empty[1] = ""
        BY DEF Dot, Empty
      <4>2. CASE x = Dot
        BY <4>1, <4>2
      <4>3. CASE x # Dot
        <5>1. PICK j \in DOMAIN fsys.files : fsys.files[j].filename = x
          BY <1>2, <4>3 DEF Targets, Named
        <5>. QED  BY <4>3, <5>1, WellNamed, PlainIs
      <4>. QED  BY <4>2, <4>3
    <3>. QED  BY <1>5, <3>1, WellNamed
  <2>. QED  BY <1>2, <1>5, <2>1 DEF Walking
<1>6. Below(x) \cap (ToSet(v) \cup PathsIn(t)) = {} /\ Below(x) \subseteq Targets
  BY <1>5 DEF Below, Targets, Named
<1>7. /\ PathsIn(u) = Below(x) \cup PathsIn(r) /\ OnceIn(u)
      /\ \A k \in 1..Len(u) : u[k][2] = IsDirectory(u[k][1])
  <2>1. PathsIn(c) \cap PathsIn(r) = {}
    BY <1>1, <1>3, <1>6
  <2>2. /\ PathsIn(u) = PathsIn(c) \cup PathsIn(r)
        /\ OnceIn(c) /\ OnceIn(r) /\ PathsIn(c) \cap PathsIn(r) = {} => OnceIn(u)
        /\ \A k \in 1..Len(u) :
             (\E j \in 1..Len(c) : u[k] = c[j]) \/ (\E j \in 1..Len(r) : u[k] = r[j])
    BY <1>1, <1>3, ListsJoined
  <2>. HIDE DEF u
  <2>3. ASSUME NEW k \in 1..Len(u) PROVE u[k][2] = IsDirectory(u[k][1])
    <3>1. CASE \E j \in 1..Len(c) : u[k] = c[j]
      <4>1. PICK j \in 1..Len(c) : u[k] = c[j]
        BY <3>1
      <4>. QED  BY <1>3, <4>1
    <3>2. CASE \E j \in 1..Len(r) : u[k] = r[j]
      <4>1. PICK j \in 1..Len(r) : u[k] = r[j]
        BY <3>2
      <4>. QED  BY <1>1, <4>1
    <3>. QED  BY <2>2, <3>1, <3>2
  <2>. QED  BY <1>1, <1>3, <2>1, <2>2, <2>3
<1>. HIDE DEF u, w
<1>8. ToSet(w) \cup PathsIn(u) = ToSet(v) \cup PathsIn(t) \cup Below(x)
  BY <1>1, <1>4, <1>7
<1>9. ToSet(w) \cap PathsIn(u) = {}
  BY <1>1, <1>2, <1>4, <1>6, <1>7 DEF Walking
<1>10. ASSUME NEW i \in DOMAIN fsys.files, fsys.files[i].filename # Dot
       PROVE  fsys.files[i].filename \in ToSet(w) \cup PathsIn(u) <=> fsys.files[i].dir \in ToSet(w)
  <2>1. fsys.files[i].filename \in ToSet(v) \cup PathsIn(t) <=> fsys.files[i].dir \in ToSet(v)
    BY <1>10 DEF Walking
  <2>2. fsys.files[i].filename \in Below(x) <=> fsys.files[i].dir = x
    <3>1. \A j \in DOMAIN fsys.files : fsys.files[i].filename = fsys.files[j].filename => i = j
      BY DEF WellFormed
    <3>. QED  BY <3>1 DEF Below
  <2>. QED  BY <1>4, <1>8, <2>1, <2>2
<1>11. Walking(u, w)
  <2>1. ToSet(w) \cup PathsIn(u) \subseteq Targets
    BY <1>6, <1>8 DEF Walking
  <2>. QED  BY <1>4, <1>7, <1>9, <1>10, <2>1 DEF Walking
<1>. QED  BY <1>8, <1>11 DEF u, w, c, r, x

(* Nothing is left to visit, so every entry has been: else take one of     *)
(* those that have not with the shortest name; its directory has been.     *)
LEMMA AllVisited ==
  ASSUME Unwritten, WellFormed, NEW v \in Seq(Path), Walking(<<>>, v), Dot \in ToSet(v)
  PROVE  ToSet(v) = Targets
<1>. DEFINE F == fsys.files
            S == {n \in Nat : \A i \in DOMAIN F : Len(F[i].filename) <= n => F[i].filename \in ToSet(v)}
<1>1. PathsIn(<<>>) = {}
  BY DEF PathsIn
<1>2. \A i \in DOMAIN F : F[i].filename # Dot => (F[i].filename \in ToSet(v) <=> F[i].dir \in ToSet(v))
  BY <1>1 DEF Walking
<1>3. \A i \in DOMAIN F : F[i].filename = Dot \/ (Plain(F[i].filename) /\ Len(F[i].filename) \in Nat \ {0})
  BY WellNamed, PlainIs
<1>4. 0 \in S
  <2>. SUFFICES ASSUME NEW i \in DOMAIN F, Len(F[i].filename) <= 0 PROVE F[i].filename \in ToSet(v)
    OBVIOUS
  <2>1. Len(Dot) = 1
    BY DEF Dot
  <2>2. F[i].filename # Dot
    <3>. SUFFICES ASSUME F[i].filename = Dot PROVE FALSE
      OBVIOUS
    <3>1. Len(Dot) <= 0
      OBVIOUS
    <3>. HIDE DEF F
    <3>. QED  BY <2>1, <3>1
  <2>3. Len(F[i].filename) \in Nat \ {0}
    BY <1>3, <2>2
  <2>. QED  BY <2>3
<1>5. ASSUME NEW n \in Nat, n \in S PROVE n + 1 \in S
  <2>. SUFFICES ASSUME NEW i \in DOMAIN F, Len(F[i].filename) <= n + 1, F[i].filename # Dot
                PROVE  F[i].filename \in ToSet(v)
    OBVIOUS
  <2>. DEFINE f == F[i].filename
  <2>1. Plain(f) /\ Len(f) \in Nat \ {0} /\ F[i].dir = DirOf(f) /\ F[i].dir \in Targets
    BY <1>3, WellNamed
  <2>2. DirOf(f) = Dot \/ Len(DirOf(f)) = Len(f) - 1
    BY <2>1, DirOfPlain
  <2>3. Len(f) <= n + 1
    OBVIOUS
  <2>. HIDE DEF f
  <2>4. DirOf(f) = Dot \/ Len(DirOf(f)) <= n
    BY <2>1, <2>2, <2>3
  <2>5. F[i].dir \in ToSet(v)
    <3>1. CASE F[i].dir = Dot
      BY <3>1
    <3>2. CASE F[i].dir # Dot
      <4>1. PICK j \in DOMAIN F : F[j].filename = F[i].dir
        BY <2>1, <3>2 DEF Targets, Named
      <4>2. Len(F[j].filename) <= n
        BY <2>1, <2>4, <3>2, <4>1
      <4>. QED  BY <1>5, <4>1, <4>2
    <3>. QED  BY <3>1, <3>2
  <2>. QED  BY <1>2, <2>5
<1>. HIDE DEF S
<1>6. Nat \subseteq S
  BY <1>4, <1>5, Induction
<1>7. \A i \in DOMAIN F : F[i].filename \in ToSet(v)
  <2>. TAKE i \in DOMAIN F
  <2>1. CASE F[i].filename = Dot
    BY <2>1
  <2>2. CASE F[i].filename # Dot
    <3>1. PICK n \in Nat : n = Len(F[i].filename)
      BY <1>3, <2>2
    <3>2. n \in S /\ Len(F[i].filename) <= n
      BY <1>6, <3>1
    <3>. QED  BY <3>2 DEF S
  <2>. QED  BY <2>1, <2>2
<1>8. Targets \subseteq ToSet(v)
  BY <1>7 DEF Targets, Named
<1>9. ToSet(v) \subseteq Targets
  BY DEF Walking
<1>. QED  BY <1>8, <1>9

(* fs.WalkDir in the states of the module.                                 *)
Walks ==
  /\ pc # "walk" => todo = <<>>
  /\ pc = "walk" \/ visited # <<>> => Dot \in ToSet(visited) \cup PathsIn(todo)
  /\ Walking(todo, visited)

(* Before the walk and at its start. *)
LEMMA WalkingStart ==
  ASSUME Unwritten, WellFormed
  PROVE  /\ Walking(<<>>, <<>>)
         /\ Walking(<< <<Dot, fsys.root.header.type = "dir">> >>, <<>>)
         /\ PathsIn(<< <<Dot, fsys.root.header.type = "dir">> >>) = {Dot}
<1>1. ToSet(<<>>) = {} /\ PathsIn(<<>>) = {} /\ OnceIn(<<>>) /\ 1..Len(<<>>) = {}
  BY DEF ToSet, PathsIn, OnceIn
<1>2. (fsys.root.header.type = "dir") = TRUE
  BY DEF WellFormed
<1>. DEFINE t == << <<Dot, TRUE>> >>
<1>3. Len(t) = 1 /\ t[1][1] = Dot /\ t[1][2] = TRUE /\ 1..1 = {1}
  BY DEF Dot
<1>. HIDE DEF t
<1>4. PathsIn(t) = {Dot} /\ OnceIn(t)
  BY <1>3 DEF PathsIn, OnceIn
<1>5. Walking(<<>>, <<>>)
  BY <1>1 DEF Walking
<1>6. Walking(t, <<>>)
  <2>1. \A k \in 1..Len(t) : t[k][2] = IsDirectory(t[k][1])
    BY <1>3 DEF IsDirectory
  <2>. QED  BY <1>1, <1>4, <2>1 DEF Walking, Targets
<1>. QED  BY <1>2, <1>4, <1>5, <1>6 DEF t

(* No step writes to the FS, so what is said of it alone goes on to hold.  *)
LEMMA SameWell == ASSUME fsys' = fsys PROVE WellFormed' = WellFormed
  BY DEF WellFormed, Has, Entry

(* So to keep to it, a step needs to say only what it makes of the lists.  *)
LEMMA WalksOn ==
  ASSUME fsys' = fsys, NEW t, NEW v, t = todo', v = visited',
         pc' # "walk" => t = <<>>,
         pc' = "walk" \/ v # <<>> => Dot \in ToSet(v) \cup PathsIn(t),
         Walking(t, v)
  PROVE  Walks'
<1>1. Walking(todo, visited)'
  BY DEF Walking, Targets, Named, IsDirectory
<1>2. (pc = "walk" \/ visited # <<>> => Dot \in ToSet(visited) \cup PathsIn(todo))'
  OBVIOUS
<1>3. (pc # "walk" => todo = <<>>)'
  OBVIOUS
<1>. QED  BY <1>1, <1>2, <1>3 DEF Walks

(* Every step of fs.WalkDir keeps to it.                                   *)
LEMMA AlwaysWalks == Spec => [](WellFormed => Walks)
<1>1. Init => (WellFormed => Walks)
  <2>. SUFFICES ASSUME Init, WellFormed PROVE Walks
    OBVIOUS
  <2>1. Unwritten
    BY DEF Init, Unwritten
  <2>. QED  BY <2>1, WalkingStart DEF Init, Walks
<1>2. Unwritten /\ VarsType /\ (WellFormed => Walks) /\ [Next]_vars => (WellFormed => Walks)'
  <2>. SUFFICES ASSUME Unwritten, VarsType, WellFormed => Walks, [Next]_vars, WellFormed'
                PROVE  Walks'
    OBVIOUS
  <2>1. fsys' = fsys
    BY DEF Next, Work, OpenRoot, Open, FileReadDir, Walk, TooManyLinks, Found, FollowLink, FollowDir,
           Missing, Visit, Walked, Goto, vars
  <2>2. WellFormed /\ Walks
    BY <2>1, SameWell
  <2>3. todo \in Seq(Path \X BOOLEAN) /\ visited \in Seq(Path)
    BY DEF VarsType
  <2>4. CASE Walk
    <3>. DEFINE t == << <<Dot, fsys.root.header.type = "dir">> >>
                v == <<>>
    <3>1. v = visited' /\ t = todo' /\ pc' = "walk"
      BY <2>4 DEF Walk
    <3>2. Walking(t, v) /\ Dot \in PathsIn(t)
      BY <2>2, WalkingStart
    <3>. HIDE DEF t, v
    <3>. QED  BY <2>1, <3>1, <3>2, WalksOn
  <2>5. CASE Visit
    <3>. DEFINE x == Head(todo)[1]
                t == (IF Head(todo)[2] THEN Children(x) ELSE <<>>) \o Tail(todo)
                v == Append(visited, x)
    <3>1. todo # <<>> /\ pc = "walk" /\ v = visited' /\ t = todo' /\ pc' = "walk"
      BY <2>5 DEF Visit
    <3>2. Walking(todo, visited) /\ Dot \in ToSet(visited) \cup PathsIn(todo)
      BY <2>2, <3>1 DEF Walks
    <3>3. Walking(t, v) /\ ToSet(visited) \cup PathsIn(todo) \subseteq ToSet(v) \cup PathsIn(t)
      BY <2>2, <2>3, <3>1, <3>2, WalkingStep
    <3>. HIDE DEF t, v
    <3>4. Dot \in ToSet(v) \cup PathsIn(t)
      BY <3>2, <3>3
    <3>. QED  BY <2>1, <3>1, <3>3, <3>4, WalksOn
  <2>6. ASSUME UNCHANGED walkVars, pc' # "walk", pc = "walk" => todo = <<>> PROVE Walks'
    <3>1. todo = todo' /\ visited = visited'
      BY <2>6 DEF walkVars
    <3>2. Walking(todo, visited) /\ todo = <<>>
      BY <2>2, <2>6 DEF Walks
    <3>3. visited # <<>> => Dot \in ToSet(visited) \cup PathsIn(todo)
      BY <2>2 DEF Walks
    <3>4. pc' # "walk"
      BY <2>6
    <3>. QED  BY <2>1, <3>1, <3>2, <3>3, <3>4, WalksOn
  <2>7. CASE UNCHANGED <<pc, walkVars>>
    <3>1. todo = todo' /\ visited = visited' /\ pc' = pc
      BY <2>7 DEF walkVars
    <3>. QED  BY <2>1, <2>2, <3>1, WalksOn DEF Walks
  <2>8. CASE Walked
    BY <2>6, <2>8 DEF Walked
  <2>10. CASE OpenRoot \/ Open
    BY <2>6, <2>10 DEF OpenRoot, Open, Opened
  <2>11. CASE TooManyLinks \/ Found \/ Missing
    BY <2>6, <2>11 DEF TooManyLinks, Found, Missing, Opened, At
  <2>12. CASE FollowLink \/ FollowDir \/ FileReadDir \/ UNCHANGED vars
    BY <2>7, <2>12 DEF FollowLink, FollowDir, FileReadDir, Goto, vars
  <2>. QED
    BY <2>4, <2>5, <2>8, <2>10, <2>11, <2>12 DEF Next, Work
<1>. QED  BY <1>1, <1>2, NeverWritten, VarsTyped, PTL DEF Spec

(* fs.WalkDir visits no path twice, and when it returns it has visited     *)
(* every entry, under the name by which main looks it up, whatever the     *)
(* tar, if its names are valid paths and its directories are there         *)
(* (tarfs.go:334-374, main.go:69-80).                                      *)
THEOREM WalksOnce == Spec => []WalkVisitsOnce
<1>1. Unwritten /\ VarsType /\ (WellFormed => Walks) => WalkVisitsOnce
  <2>. SUFFICES ASSUME Unwritten, VarsType, WellFormed, Walks PROVE WalkVisitsOnce
    BY DEF WalkVisitsOnce
  <2>1. visited \in Seq(Path) /\ Walking(todo, visited)
    BY DEF VarsType, Walks
  <2>2. \A i, j \in DOMAIN visited : visited[i] = visited[j] => i = j
    BY <2>1 DEF Walking
  <2>3. ASSUME visited # <<>>, todo = <<>>
        PROVE  ToSet(visited) = {Dot} \cup {fsys.files[i].filename : i \in DOMAIN fsys.files}
    <3>1. PathsIn(todo) = {}
      BY <2>3 DEF PathsIn
    <3>2. Dot \in ToSet(visited)
      BY <2>3, <3>1 DEF Walks
    <3>3. ToSet(visited) = Targets
      BY <2>1, <2>3, <3>2, AllVisited
    <3>. QED  BY <3>3 DEF Targets, Named
  <2>. QED  BY <2>2, <2>3 DEF WalkVisitsOnce
<1>. QED  BY <1>1, NeverWritten, VarsTyped, AlwaysWalks, PTL

---------------------------------------------------------------------------
(* Resolving a path *)

State == [fuel : Nat, at : Path, rest : Path]
St(f, a, r) == [fuel |-> f, at |-> a, rest |-> r]

(* Resolving goes on from s, if there is fuel, to Step(s).                 *)
GoesOn(s) ==
  s.rest # <<>> \/ (s.at # <<>> /\ Has(s.at) /\ Entry(s.at).header.type = "link")

Value(s) ==
  IF s.fuel = 0 \/ s.rest # <<>> THEN -1
  ELSE IF s.at = <<>> THEN fsys.root.offset
  ELSE IF ~Has(s.at) THEN -1 ELSE Entry(s.at).offset

Up(a) == IF a = <<>> THEN a ELSE Front(a)

StepOver(s, e) ==
  IF e \in Blank THEN St(s.fuel, s.at, Tail(s.rest))
  ELSE IF e = ".." THEN St(s.fuel, Up(s.at), Tail(s.rest))
  ELSE IF IsSymlink(Append(s.at, e)) THEN
    St(s.fuel - 1, IF IsAbs(Entry(Append(s.at, e)).header.link) THEN <<>> ELSE s.at,
       Entry(Append(s.at, e)).header.link \o Tail(s.rest))
  ELSE St(s.fuel, Append(s.at, e), Tail(s.rest))

Step(s) ==
  IF s.rest = <<>> THEN St(s.fuel - 1, <<>>, Entry(s.at).header.link)
  ELSE StepOver(s, Head(s.rest))

(* A state and its parts.                                                  *)
LEMMA StateIs ==
  /\ \A f \in Nat, a \in Path, r \in Path :
       /\ St(f, a, r) \in State /\ St(f, a, r).fuel = f
       /\ St(f, a, r).at = a /\ St(f, a, r).rest = r
  /\ \A s \in State : /\ s.fuel \in Nat /\ s.at \in Path /\ s.rest \in Path
                      /\ s = St(s.fuel, s.at, s.rest)
BY DEF State, St

(* A path begins with its first element.                                   *)
LEMMA HeadTail ==
  ASSUME NEW p \in Path, p # <<>>
  PROVE  /\ Head(p) \in Element /\ Tail(p) \in Path /\ Len(p) \in Nat \ {0}
         /\ Len(Tail(p)) = Len(p) - 1
<1>1. p \in Seq(Element)
  BY PathIs
<1>2. Head(p) \in Element /\ Len(Tail(p)) = Len(p) - 1 /\ Len(p) \in Nat \ {0}
  BY <1>1
<1>. QED  BY <1>2, TailType

(* One directory further down.                                             *)
LEMMA AppendType == ASSUME NEW p \in Path, NEW e \in Element PROVE Append(p, e) \in Path
<1>1. p \in Seq(Element)
  BY PathIs
<1>2. Append(p, e) \in Seq(Element)
  BY <1>1
<1>. QED  BY <1>2, IsPath

(* One directory further up.                                               *)
LEMMA UpType == ASSUME NEW p \in Path PROVE Up(p) \in Path
BY FrontType DEF Up

(* A step over an element leaves less of the path, unless it follows a     *)
(* link.                                                                   *)
LEMMA StepOverType ==
  ASSUME Unwritten, NEW s \in State, s.fuel # 0, s.rest # <<>>
  PROVE  \E g \in Nat, d \in Path, r \in Path :
           /\ StepOver(s, Head(s.rest)) = St(g, d, r)
           /\ g = s.fuel - 1 \/ (g = s.fuel /\ Len(r) = Len(s.rest) - 1)
<1>1. PICK f \in Nat, a \in Path, p \in Path :
        f = s.fuel /\ a = s.at /\ p = s.rest /\ f - 1 \in Nat /\ p # <<>>
  BY StateIs
<1>2. PICK e \in Element, t \in Path :
        e = Head(p) /\ t = Tail(p) /\ Len(t) = Len(p) - 1
  BY <1>1, HeadTail
<1>3. PICK n \in Path : n = Append(a, e)
  BY AppendType
<1>4. StepOver(s, Head(s.rest)) =
        IF e \in Blank THEN St(f, a, t)
        ELSE IF e = ".." THEN St(f, Up(a), t)
        ELSE IF IsSymlink(n) THEN
          St(f - 1, IF IsAbs(Entry(n).header.link) THEN <<>> ELSE a, Entry(n).header.link \o t)
        ELSE St(f, n, t)
  BY <1>1, <1>2, <1>3 DEF StepOver
<1>5. CASE e \in Blank
  BY <1>1, <1>2, <1>4, <1>5
<1>6. CASE e \notin Blank /\ e = ".."
  <2>1. Up(a) \in Path
    BY UpType
  <2>2. StepOver(s, Head(s.rest)) = St(f, Up(a), t)
    BY <1>4, <1>6
  <2>. QED  BY <1>1, <1>2, <2>1, <2>2
<1>7. CASE e \notin Blank /\ e # ".." /\ IsSymlink(n)
  <2>1. PICK l \in Path : l = Entry(n).header.link
    BY <1>7, EntryTyped DEF IsSymlink
  <2>2. PICK d \in Path : d = IF IsAbs(l) THEN <<>> ELSE a
    BY Constants
  <2>3. PICK r \in Path : r = l \o t
    BY ConcatType
  <2>4. StepOver(s, Head(s.rest)) = St(f - 1, d, r)
    BY <1>4, <1>7, <2>1, <2>2, <2>3
  <2>. QED  BY <1>1, <2>4
<1>8. CASE e \notin Blank /\ e # ".." /\ ~IsSymlink(n)
  <2>1. StepOver(s, Head(s.rest)) = St(f, n, t)
    BY <1>4, <1>8
  <2>. QED  BY <1>1, <1>2, <2>1
<1>. QED  BY <1>5, <1>6, <1>7, <1>8

(* Every step uses up fuel or an element.                                  *)
LEMMA StepType ==
  ASSUME Unwritten, NEW s \in State, s.fuel # 0, GoesOn(s)
  PROVE  /\ Step(s) \in State
         /\ \/ Step(s).fuel = s.fuel - 1
            \/ Step(s).fuel = s.fuel /\ Len(Step(s).rest) = Len(s.rest) - 1
<1>1. PICK g \in Nat, d \in Path, r \in Path :
        /\ Step(s) = St(g, d, r)
        /\ g = s.fuel - 1 \/ (g = s.fuel /\ Len(r) = Len(s.rest) - 1)
  <2>1. CASE s.rest # <<>>
    <3>1. Step(s) = StepOver(s, Head(s.rest))
      BY <2>1 DEF Step
    <3>. QED  BY <2>1, <3>1, StepOverType
  <2>2. CASE s.rest = <<>>
    <3>1. PICK l \in Path : l = Entry(s.at).header.link
      BY <2>2, EntryTyped DEF GoesOn
    <3>2. PICK g \in Nat : g = s.fuel - 1
      BY StateIs
    <3>3. Step(s) = St(g, <<>>, l)
      BY <2>2, <3>1, <3>2 DEF Step
    <3>4. <<>> \in Path
      BY Constants
    <3>. QED  BY <3>2, <3>3, <3>4
  <2>. QED  BY <2>1, <2>2
<1>2. St(g, d, r) \in State /\ St(g, d, r).fuel = g /\ St(g, d, r).rest = r
  BY StateIs
<1>. QED  BY <1>1, <1>2

Halt == {s \in State : s.fuel = 0 \/ ~GoesOn(s)}
Steps == [s \in State |-> IF s \in Halt THEN s ELSE Step(s)]
Values == [s \in State |-> Value(s)]

(* So resolving comes to an end.                                           *)
LEMMA StepsEnd ==
  ASSUME Unwritten, NEW T, T \subseteq State, Halt \subseteq T,
         \A s \in State : Steps[s] \in T => s \in T
  PROVE  T = State
<1>. DEFINE In(f) == \A s \in State : s.fuel = f => s \in T
            S == {f \in Nat : In(f)}
<1>1. 0 \in S
  BY DEF Halt
<1>2. ASSUME NEW f \in Nat, f \in S PROVE f + 1 \in S
  <2>. DEFINE W == {l \in Nat : \A s \in State : s.fuel = f + 1 /\ Len(s.rest) <= l => s \in T}
  <2>1. ASSUME NEW s \in State, s.fuel = f + 1, s \notin Halt,
               \A u \in State : u.fuel = f + 1 /\ Len(u.rest) = Len(s.rest) - 1 => u \in T
        PROVE  s \in T
    <3>1. s.fuel # 0 /\ GoesOn(s) /\ s.fuel - 1 = f
      BY <2>1 DEF Halt
    <3>2. PICK u \in State : /\ u = Step(s)
                             /\ u.fuel = f \/ (u.fuel = f + 1 /\ Len(u.rest) = Len(s.rest) - 1)
      BY <2>1, <3>1, StepType
    <3>3. u \in T
      BY <1>2, <2>1, <3>2
    <3>4. Steps[s] = u
      BY <2>1, <3>2 DEF Steps
    <3>. QED  BY <3>3, <3>4
  <2>2. 0 \in W
    <3>1. ASSUME NEW s \in State, s.fuel = f + 1, Len(s.rest) <= 0 PROVE s \in T
      <4>1. Len(s.rest) \in Nat
        BY StateIs, PathIs
      <4>2. \A u \in State : Len(u.rest) # Len(s.rest) - 1
        <5>. TAKE u \in State
        <5>1. Len(u.rest) \in Nat
          BY StateIs, PathIs
        <5>. QED  BY <3>1, <4>1, <5>1
      <4>. QED  BY <2>1, <3>1, <4>2
    <3>. QED  BY <3>1
  <2>3. ASSUME NEW l \in Nat, l \in W PROVE l + 1 \in W
    <3>1. ASSUME NEW s \in State, s.fuel = f + 1, Len(s.rest) <= l + 1 PROVE s \in T
      <4>1. Len(s.rest) \in Nat
        BY StateIs, PathIs
      <4>2. \A u \in State : u.fuel = f + 1 /\ Len(u.rest) = Len(s.rest) - 1 => u \in T
        <5>. TAKE u \in State
        <5>1. Len(u.rest) = Len(s.rest) - 1 => Len(u.rest) <= l
          BY <3>1, <4>1
        <5>. QED  BY <2>3, <5>1
      <4>. QED  BY <2>1, <3>1, <4>2
    <3>. QED  BY <3>1
  <2>. HIDE DEF W
  <2>4. Nat \subseteq W
    BY <2>2, <2>3, Induction
  <2>5. ASSUME NEW s \in State, s.fuel = f + 1 PROVE s \in T
    <3>1. PICK l \in Nat : l = Len(s.rest)
      BY StateIs, PathIs
    <3>2. l \in W
      BY <2>4
    <3>. QED  BY <2>5, <3>1, <3>2 DEF W
  <2>. QED  BY <2>5
<1>. HIDE DEF S
<1>3. Nat \subseteq S
  BY <1>1, <1>2, Induction
<1>4. ASSUME NEW s \in State PROVE s \in T
  <2>1. s.fuel \in S
    BY <1>3, StateIs
  <2>. QED  BY <2>1 DEF S
<1>. QED  BY <1>4

(* Resolve, step by step.                                                  *)
LEMMA Resolving ==
  ASSUME Unwritten, NEW s \in State
  PROVE  Resolve[s] = IF s \in Halt THEN Values[s] ELSE Resolve[Steps[s]]
<1>. DEFINE Body(F, u) ==
              IF u.fuel = 0 THEN -1
              ELSE IF u.rest = <<>> THEN
                IF u.at = <<>> THEN fsys.root.offset
                ELSE IF ~Has(u.at) THEN -1
                ELSE IF Entry(u.at).header.type = "link"
                  THEN F[[fuel |-> u.fuel - 1, at |-> <<>>, rest |-> Entry(u.at).header.link]]
                ELSE Entry(u.at).offset
              ELSE
                LET e    == Head(u.rest)
                    next == Append(u.at, e)
                IN  IF e \in {"", "."} THEN F[[u EXCEPT !.rest = Tail(@)]]
                    ELSE IF e = ".." THEN
                      F[[u EXCEPT !.at = IF @ = <<>> THEN @ ELSE Front(@), !.rest = Tail(@)]]
                    ELSE IF Has(next) /\ Entry(next).header.type = "symlink" THEN
                      LET link == Entry(next).header.link
                      IN  F[[fuel |-> u.fuel - 1, at |-> IF IsAbs(link) THEN <<>> ELSE u.at,
                                   rest |-> link \o Tail(u.rest)]]
                    ELSE F[[u EXCEPT !.at = next, !.rest = Tail(@)]]
            Is(F) == F = [u \in [fuel : Nat, at : Path, rest : Path] |-> Body(F, u)]
            R == CHOOSE F : Is(F)
<1>1. ASSUME NEW F, NEW u \in State
      PROVE  Body(F, u) = IF u \in Halt THEN Value(u) ELSE F[Step(u)]
  <2>1. CASE u.fuel = 0
    BY <2>1 DEF Halt, Value
  <2>2. CASE u.fuel # 0 /\ u.rest = <<>>
    BY <2>2 DEF Halt, Value, GoesOn, Step, St
  <2>3. CASE u.fuel # 0 /\ u.rest # <<>>
    <3>1. u \notin Halt
      BY <2>3 DEF Halt, GoesOn
    <3>2. PICK e : e = Head(u.rest)
      OBVIOUS
    <3>3. PICK n : n = Append(u.at, e)
      OBVIOUS
    <3>4. /\ [u EXCEPT !.rest = Tail(@)] = St(u.fuel, u.at, Tail(u.rest))
          /\ [u EXCEPT !.at = n, !.rest = Tail(@)] = St(u.fuel, n, Tail(u.rest))
          /\ [u EXCEPT !.at = IF @ = <<>> THEN @ ELSE Front(@), !.rest = Tail(@)]
               = St(u.fuel, Up(u.at), Tail(u.rest))
      <4>1. ASSUME NEW a, NEW r PROVE [u EXCEPT !.at = a, !.rest = r] = St(u.fuel, a, r)
        <5>1. [u EXCEPT !.at = a, !.rest = r] = [[u EXCEPT !.at = a] EXCEPT !.rest = r]
          OBVIOUS
        <5>2. [u EXCEPT !.at = a] = St(u.fuel, a, u.rest)
          BY DEF State, St
        <5>3. [St(u.fuel, a, u.rest) EXCEPT !.rest = r] = St(u.fuel, a, r)
          BY DEF St
        <5>. QED  BY <5>1, <5>2, <5>3
      <4>2. \A r : [u EXCEPT !.rest = r] = St(u.fuel, u.at, r)
        BY DEF State, St
      <4>. QED  BY <4>1, <4>2 DEF Up
    <3>5. Step(u) = StepOver(u, e)
      BY <2>3, <3>2 DEF Step
    <3>. QED  BY <2>3, <3>1, <3>2, <3>3, <3>4, <3>5 DEF StepOver, IsSymlink, Blank, St
  <2>. QED  BY <2>1, <2>2, <2>3
<1>. HIDE DEF Body
<1>2. Values \in [State -> Int]
  <2>1. ASSUME NEW u \in State PROVE Value(u) \in Int
    <3>1. fsys.root.offset \in Int
      BY FSTyped DEF FSType, EntryType
    <3>2. Has(u.at) => Entry(u.at).offset \in Int
      BY EntryTyped DEF EntryType
    <3>. QED  BY <3>1, <3>2 DEF Value
  <2>. QED  BY <2>1 DEF Values
<1>3. Steps \in [State -> State]
  <2>1. ASSUME NEW u \in State, u \notin Halt PROVE Step(u) \in State
    BY <2>1, StepType DEF Halt
  <2>. QED  BY <2>1 DEF Steps
<1>4. PICK F \in [State -> Int] : IsTailRecursive(State, Halt, Values, Steps, F)
  <2>1. Halt \subseteq State
    BY DEF Halt
  <2>2. \A T \in SUBSET State :
          (Halt \subseteq T /\ \A u \in State : Steps[u] \in T => u \in T) => T = State
    BY StepsEnd
  <2>. QED  BY <1>2, <1>3, <2>1, <2>2, TailRecursion
<1>5. Is(F)
  <2>1. \A u \in State : Values[u] = Value(u) /\ (u \notin Halt => Steps[u] = Step(u))
    BY DEF Values, Steps
  <2>2. F = [u \in State |-> Body(F, u)]
    BY <1>1, <1>4, <2>1 DEF IsTailRecursive
  <2>. QED  BY <2>2 DEF State
<1>6. Is(R)
  BY <1>5
<1>. HIDE DEF R
<1>7. Resolve = R
  BY DEF Resolve, R, Body
<1>8. R[s] = Body(R, s)
  BY <1>6 DEF State
<1>9. Values[s] = Value(s) /\ (s \notin Halt => Steps[s] = Step(s))
  BY DEF Values, Steps
<1>. QED  BY <1>1, <1>7, <1>8, <1>9

---------------------------------------------------------------------------
(* Paths one after the other *)

(* Paths one after the other.                                              *)
LEMMA Concats ==
  ASSUME NEW p \in Path, NEW q \in Path
  PROVE  /\ p \o q \in Path
         /\ <<>> \o p = p /\ p \o <<>> = p /\ Len(p \o q) = Len(p) + Len(q)
         /\ \A k \in 1..Len(p) : (p \o q)[k] = p[k]
         /\ \A k \in 1..Len(q) : (p \o q)[Len(p) + k] = q[k]
<1>1. p \in Seq(Element) /\ q \in Seq(Element)
  BY PathIs
<1>2. <<>> \o p = p /\ p \o <<>> = p
  BY <1>1, ConcatEmptySeq
<1>3. PICK m \in Nat, n \in Nat : m = Len(p) /\ n = Len(q)
  BY PathIs
<1>4. /\ Len(p \o q) = m + n
      /\ \A k \in 1..(m + n) : (p \o q)[k] = IF k <= m THEN p[k] ELSE q[k - m]
  BY <1>1, <1>3, ConcatProperties
<1>5. \A k \in 1..m : (p \o q)[k] = p[k]
  <2>. TAKE k \in 1..m
  <2>1. k \in 1..(m + n) /\ k <= m
    OBVIOUS
  <2>. QED  BY <1>4, <2>1
<1>6. \A k \in 1..n : (p \o q)[m + k] = q[k]
  <2>. TAKE k \in 1..n
  <2>1. m + k \in 1..(m + n) /\ ~(m + k <= m) /\ (m + k) - m = k
    OBVIOUS
  <2>. QED  BY <1>4, <2>1
<1>. QED  BY <1>2, <1>3, <1>4, <1>5, <1>6, ConcatType

(* In whichever order they are put together.                               *)
LEMMA Associate ==
  ASSUME NEW p \in Path, NEW q \in Path, NEW r \in Path
  PROVE  (p \o q) \o r = p \o (q \o r)
<1>1. p \in Seq(Element) /\ q \in Seq(Element) /\ r \in Seq(Element)
  BY PathIs
<1>. QED  BY <1>1, ConcatAssociative

(* A path in front of which one element is put.                            *)
LEMMA InFront ==
  ASSUME NEW e \in Element, NEW r \in Path
  PROVE  /\ <<e>> \o r \in Path /\ <<e>> \o r # <<>>
         /\ Head(<<e>> \o r) = e /\ Tail(<<e>> \o r) = r
<1>1. <<e>> \in Path /\ Len(<<e>>) = 1 /\ <<e>>[1] = e
  BY Constants
<1>2. PICK n \in Nat : n = Len(r)
  BY PathIs
<1>3. PICK p \in Path : p = <<e>> \o r
  BY <1>1, Concats
<1>4. PICK one \in Path : one = <<e>>
  BY <1>1
<1>5. Len(p) = 1 + n /\ (\A k \in 1..1 : p[k] = one[k]) /\ \A k \in 1..n : p[1 + k] = r[k]
  <2>1. /\ Len(p) = Len(one) + Len(r)
        /\ \A k \in 1..Len(one) : p[k] = one[k]
        /\ \A k \in 1..Len(r) : p[Len(one) + k] = r[k]
    BY <1>3, <1>4, Concats
  <2>. QED  BY <1>1, <1>2, <1>4, <2>1
<1>6. p \in Seq(Element) /\ r \in Seq(Element) /\ p # <<>>
  <2>1. Len(p) # 0
    BY <1>2, <1>5
  <2>. QED  BY <2>1, PathIs
<1>7. Head(p) = e
  <2>1. Head(p) = p[1] /\ 1 \in 1..1
    BY <1>6
  <2>. QED  BY <1>1, <1>4, <1>5, <2>1
<1>8. Tail(p) = r
  <2>1. Tail(p) \in Seq(Element) /\ Len(Tail(p)) = n /\ \A k \in 1..n : Tail(p)[k] = p[k + 1]
    BY <1>2, <1>5, <1>6, HeadTailProperties
  <2>2. \A k \in 1..n : Tail(p)[k] = r[k]
    <3>. TAKE k \in 1..n
    <3>1. k + 1 = 1 + k
      OBVIOUS
    <3>. QED  BY <1>5, <2>1, <3>1
  <2>. QED  BY <1>2, <1>6, <2>1, <2>2, SeqEqual
<1>. QED  BY <1>3, <1>6, <1>7, <1>8

(* A path is its first element in front of the others.                     *)
LEMMA Split ==
  ASSUME NEW p \in Path, p # <<>>
  PROVE  \E e \in Element, t \in Path : p = <<e>> \o t /\ Len(p) = Len(t) + 1
<1>1. Head(p) \in Element /\ Tail(p) \in Path /\ Len(Tail(p)) = Len(p) - 1 /\ Len(p) \in Nat
  BY HeadTail
<1>2. PICK e \in Element, t \in Path : e = Head(p) /\ t = Tail(p) /\ Len(p) = Len(t) + 1
  <2>1. Len(p) = Len(Tail(p)) + 1
    BY <1>1
  <2>. QED  BY <1>1, <2>1
<1>3. PICK q \in Path : q = <<e>> \o t /\ q # <<>> /\ Head(q) = e /\ Tail(q) = t
  BY InFront
<1>4. p \in Seq(Element) /\ q \in Seq(Element)
  BY PathIs
<1>5. p = q
  <2>1. /\ Len(p) = Len(q) /\ Len(p) \in Nat \ {0}
        /\ \A k \in 1..(Len(p) - 1) : p[k + 1] = q[k + 1]
    <3>1. /\ Len(Tail(p)) = Len(p) - 1 /\ \A k \in 1..Len(Tail(p)) : Tail(p)[k] = p[k + 1]
      BY <1>4, HeadTailProperties
    <3>2. /\ Len(Tail(q)) = Len(q) - 1 /\ \A k \in 1..Len(Tail(q)) : Tail(q)[k] = q[k + 1]
      BY <1>3, <1>4, HeadTailProperties
    <3>3. Len(p) \in Nat \ {0} /\ Len(q) \in Nat \ {0}
      BY <1>3, <1>4, FrontLast
    <3>4. Tail(p) = Tail(q)
      BY <1>2, <1>3
    <3>5. PICK m \in Nat, n \in Nat : m = Len(p) /\ n = Len(q)
      BY <3>3
    <3>6. m - 1 = n - 1
      BY <3>1, <3>2, <3>4, <3>5
    <3>7. m = n
      BY <3>6
    <3>. QED  BY <3>1, <3>2, <3>3, <3>4, <3>5, <3>7
  <2>2. p[1] = q[1]
    <3>1. Head(p) = p[1] /\ Head(q) = q[1]
      BY <1>3, <1>4
    <3>. QED  BY <1>2, <1>3, <3>1
  <2>3. \A k \in 1..Len(p) : p[k] = q[k]
    <3>. TAKE k \in 1..Len(p)
    <3>1. k = 1 \/ (k - 1 \in 1..(Len(p) - 1) /\ (k - 1) + 1 = k)
      BY <2>1
    <3>. QED  BY <2>1, <2>2, <3>1
  <2>. QED  BY <1>4, <2>1, <2>3, SeqEqual
<1>. QED  BY <1>2, <1>3, <1>5

(* What Resolve makes of a path from a directory on.                       *)
From(f, a, r) == Resolve[St(f, a, r)]

(* Nothing, without fuel.                                                  *)
LEMMA NoFuel ==
  ASSUME Unwritten, NEW a \in Path, NEW r \in Path
  PROVE  From(0, a, r) = -1
<1>1. PICK s \in State : s = St(0, a, r) /\ s.fuel = 0
  BY StateIs
<1>2. s \in Halt /\ Values[s] = -1
  BY <1>1 DEF Halt, Values, Value
<1>. QED  BY <1>1, <1>2, Resolving DEF From

(* At its end, the entry that is there, or what a hard link leads to.      *)
LEMMA AtEnd ==
  ASSUME Unwritten, NEW f \in Nat \ {0}, NEW a \in Path, a # <<>>
  PROVE  From(f, a, <<>>) = IF ~Has(a) THEN -1
                            ELSE IF Entry(a).header.type = "link"
                              THEN From(f - 1, <<>>, Entry(a).header.link)
                            ELSE Entry(a).offset
<1>1. PICK s \in State : s = St(f, a, <<>>) /\ s.fuel = f /\ s.at = a /\ s.rest = <<>>
  <2>1. PICK r \in Path : r = <<>>
    BY Constants
  <2>2. f \in Nat
    OBVIOUS
  <2>. QED  BY <2>1, <2>2, StateIs
<1>2. CASE Has(a) /\ Entry(a).header.type = "link"
  <2>1. s \notin Halt
    BY <1>1, <1>2 DEF Halt, GoesOn
  <2>2. Steps[s] = St(f - 1, <<>>, Entry(a).header.link)
    BY <1>1, <2>1 DEF Steps, Step
  <2>. QED  BY <1>1, <1>2, <2>1, <2>2, Resolving DEF From
<1>3. CASE ~(Has(a) /\ Entry(a).header.type = "link")
  <2>1. s \in Halt
    BY <1>1, <1>3 DEF Halt, GoesOn
  <2>2. Values[s] = IF ~Has(a) THEN -1 ELSE Entry(a).offset
    BY <1>1 DEF Values, Value
  <2>. QED  BY <1>1, <1>3, <2>1, <2>2, Resolving DEF From
<1>. QED  BY <1>2, <1>3

(* Before that, an element after the other.                                *)
LEMMA Over ==
  ASSUME Unwritten, NEW f \in Nat \ {0}, NEW a \in Path, NEW e \in Element, NEW r \in Path
  PROVE  From(f, a, <<e>> \o r) =
           IF e \in Blank THEN From(f, a, r)
           ELSE IF e = ".." THEN From(f, Up(a), r)
           ELSE IF IsSymlink(Append(a, e)) THEN
             From(f - 1, IF IsAbs(Entry(Append(a, e)).header.link) THEN <<>> ELSE a,
                  Entry(Append(a, e)).header.link \o r)
           ELSE From(f, Append(a, e), r)
<1>1. PICK p \in Path : p = <<e>> \o r /\ p # <<>> /\ Head(p) = e /\ Tail(p) = r
  BY InFront
<1>2. PICK s \in State : s = St(f, a, p) /\ s.fuel = f /\ s.at = a /\ s.rest = p
  BY StateIs
<1>3. s \notin Halt
  BY <1>1, <1>2 DEF Halt, GoesOn
<1>4. Steps[s] = StepOver(s, e)
  BY <1>1, <1>2, <1>3 DEF Steps, Step
<1>5. From(f, a, p) = Resolve[StepOver(s, e)]
  BY <1>2, <1>3, <1>4, Resolving DEF From
<1>. QED  BY <1>1, <1>2, <1>5 DEF StepOver, From

(* Two paths that lead to the same do so behind any other.                 *)
LEMMA Behindhand ==
  ASSUME Unwritten, NEW y \in Path, NEW z \in Path,
         \A f \in Nat, a \in Path : From(f, a, y) = From(f, a, z)
  PROVE  \A f \in Nat, a \in Path, x \in Path : From(f, a, x \o y) = From(f, a, x \o z)
<1>. DEFINE Same(f, a, x) == From(f, a, x \o y) = From(f, a, x \o z)
            S == {f \in Nat : \A a, x \in Path : Same(f, a, x)}
<1>1. 0 \in S
  <2>1. \A x \in Path : x \o y \in Path /\ x \o z \in Path
    BY ConcatType
  <2>. QED  BY <2>1, NoFuel
<1>2. ASSUME NEW f \in Nat, f \in S PROVE f + 1 \in S
  <2>. DEFINE W == {l \in Nat : \A a, x \in Path : Len(x) <= l => Same(f + 1, a, x)}
  <2>1. \A a \in Path : Same(f + 1, a, <<>>)
    <3>1. <<>> \o y = y /\ <<>> \o z = z
      BY Concats
    <3>. QED  BY <3>1
  <2>2. 0 \in W
    <3>1. \A x \in Path : Len(x) <= 0 => x = <<>>
      <4>. TAKE x \in Path
      <4>1. x \in Seq(Element)
        BY PathIs
      <4>. QED  BY <4>1
    <3>. HIDE DEF Same
    <3>. QED  BY <2>1, <3>1
  <2>3. ASSUME NEW l \in Nat, l \in W PROVE l + 1 \in W
    <3>. SUFFICES ASSUME NEW a \in Path, NEW x \in Path, Len(x) <= l + 1, x # <<>>
                  PROVE  Same(f + 1, a, x)
      <4>. HIDE DEF Same
      <4>. QED  BY <2>1
    <3>1. PICK e \in Element, t \in Path : x = <<e>> \o t /\ Len(x) = Len(t) + 1
      BY Split
    <3>2. PICK g \in Nat \ {0} : g = f + 1 /\ g - 1 = f
      OBVIOUS
    <3>3. \A b \in Path : Same(g, b, t)
      <4>1. Len(t) \in Nat
        BY PathIs
      <4>2. Len(t) <= l
        BY <3>1, <4>1
      <4>. HIDE DEF Same
      <4>. QED  BY <2>3, <3>2, <4>2
    <3>4. \A b, u \in Path : Same(f, b, u)
      <4>. HIDE DEF Same
      <4>. QED  BY <1>2
    <3>10. \A c \in Path :
            c \o t \in Path /\ (c \o t) \o y = c \o (t \o y) /\ (c \o t) \o z = c \o (t \o z)
      <4>. TAKE c \in Path
      <4>1. (c \o t) \o y = c \o (t \o y)
        BY Associate
      <4>2. (c \o t) \o z = c \o (t \o z)
        BY Associate
      <4>. QED  BY <4>1, <4>2, ConcatType
    <3>5. PICK u \in Path, w \in Path :
            u = t \o y /\ w = t \o z /\ x \o y = <<e>> \o u /\ x \o z = <<e>> \o w
      <4>1. PICK one \in Path : one = <<e>>
        BY Constants
      <4>2. (one \o t) \o y = one \o (t \o y) /\ (one \o t) \o z = one \o (t \o z)
        BY Associate
      <4>3. t \o y \in Path /\ t \o z \in Path
        BY ConcatType
      <4>. QED  BY <3>1, <4>1, <4>2, <4>3
    <3>6. CASE e \in Blank
      <4>1. From(g, a, <<e>> \o u) = From(g, a, u) /\ From(g, a, <<e>> \o w) = From(g, a, w)
        BY <3>6, Over
      <4>. QED  BY <3>2, <3>3, <3>5, <4>1
    <3>7. CASE e \notin Blank /\ e = ".."
      <4>1. PICK b \in Path : b = Up(a)
        BY UpType
      <4>2. From(g, a, <<e>> \o u) = From(g, b, u) /\ From(g, a, <<e>> \o w) = From(g, b, w)
        BY <3>7, <4>1, Over
      <4>. QED  BY <3>2, <3>3, <3>5, <4>2
    <3>8. CASE e \notin Blank /\ e # ".." /\ IsSymlink(Append(a, e))
      <4>1. PICK l1 \in Path : l1 = Entry(Append(a, e)).header.link
        BY <3>8, EntryTyped DEF IsSymlink
      <4>2. PICK d \in Path : d = IF IsAbs(l1) THEN <<>> ELSE a
        BY Constants
      <4>3. From(g, a, <<e>> \o u) = From(f, d, l1 \o u) /\ From(g, a, <<e>> \o w) = From(f, d, l1 \o w)
        BY <3>2, <3>8, <4>1, <4>2, Over
      <4>4. PICK c \in Path : c \o y = l1 \o u /\ c \o z = l1 \o w
        BY <3>10, <3>5
      <4>5. From(f, d, c \o y) = From(f, d, c \o z)
        BY <3>4
      <4>. QED  BY <3>2, <3>5, <4>3, <4>4, <4>5
    <3>9. CASE e \notin Blank /\ e # ".." /\ ~IsSymlink(Append(a, e))
      <4>1. PICK b \in Path : b = Append(a, e)
        BY AppendType
      <4>2. From(g, a, <<e>> \o u) = From(g, b, u) /\ From(g, a, <<e>> \o w) = From(g, b, w)
        BY <3>9, <4>1, Over
      <4>. QED  BY <3>2, <3>3, <3>5, <4>2
    <3>. QED  BY <3>6, <3>7, <3>8, <3>9
  <2>. HIDE DEF W, Same
  <2>4. Nat \subseteq W
    BY <2>2, <2>3, Induction
  <2>5. ASSUME NEW a \in Path, NEW x \in Path PROVE Same(f + 1, a, x)
    <3>1. PICK l \in Nat : l = Len(x)
      BY PathIs
    <3>2. l \in W
      BY <2>4
    <3>. QED  BY <3>1, <3>2 DEF W
  <2>. QED  BY <2>5
<1>. HIDE DEF S
<1>3. Nat \subseteq S
  BY <1>1, <1>2, Induction
<1>. QED  BY <1>3 DEF S

---------------------------------------------------------------------------
(* What Resolve passes over *)

(* A blank element leads nowhere, wherever it is.                          *)
LEMMA BlankSame ==
  ASSUME Unwritten, NEW f \in Nat, NEW a \in Path, NEW x \in Path, NEW y \in Path,
         NEW e \in Element, e \in Blank
  PROVE  From(f, a, x \o (<<e>> \o y)) = From(f, a, x \o y)
<1>1. PICK z \in Path : z = <<e>> \o y
  BY InFront
<1>2. \A g \in Nat, d \in Path : From(g, d, z) = From(g, d, y)
  <2>. TAKE g \in Nat, d \in Path
  <2>1. CASE g = 0
    BY <2>1, NoFuel
  <2>2. CASE g # 0
    BY <1>1, <2>2, Over
  <2>. QED  BY <2>1, <2>2
<1>. QED  BY <1>1, <1>2, Behindhand

(* A directory no part of which is a symbolic link.                        *)
Clear(d) ==
  /\ d \in Path /\ \A i \in 1..Len(d) : d[i] \notin {"", ".", ".."}
  /\ \A k \in 1..Len(d) : ~IsSymlink(SubSeq(d, 1, k))

(* The first k elements of a path and the one behind them.                 *)
LEMMA Prefix ==
  ASSUME NEW p \in Path, NEW k \in Nat, k < Len(p)
  PROVE  /\ SubSeq(p, 1, k) \in Path /\ SubSeq(p, 1, k + 1) \in Path /\ p[k + 1] \in Element
         /\ Append(SubSeq(p, 1, k), p[k + 1]) = SubSeq(p, 1, k + 1)
         /\ \A y \in Path : SubSeq(p, 1, k + 1) \o y = SubSeq(p, 1, k) \o (<<p[k + 1]>> \o y)
<1>1. p \in Seq(Element) /\ k + 1 \in 1..Len(p)
  BY PathIs
<1>2. SubSeq(p, 1, k) \in Seq(Element) /\ Append(SubSeq(p, 1, k), p[k + 1]) = SubSeq(p, 1, k + 1)
  BY <1>1, OneMore
<1>3. PICK u \in Path, e \in Element, one \in Path :
        u = SubSeq(p, 1, k) /\ e = p[k + 1] /\ one = <<e>>
  <2>1. SubSeq(p, 1, k) \in Path /\ p[k + 1] \in Element
    BY <1>1, <1>2, IsPath
  <2>. QED  BY <2>1, Constants
<1>4. Append(u, e) = u \o one /\ Append(u, e) \in Path
  <2>1. u \in Seq(Element)
    BY PathIs
  <2>. QED  BY <1>3, <2>1, AppendIsConcat, AppendType
<1>5. Append(SubSeq(p, 1, k), p[k + 1]) = SubSeq(p, 1, k + 1) /\ Append(u, e) = SubSeq(p, 1, k + 1)
  BY <1>2, <1>3
<1>6. ASSUME NEW y \in Path
      PROVE  SubSeq(p, 1, k + 1) \o y = SubSeq(p, 1, k) \o (<<p[k + 1]>> \o y)
  <2>1. (u \o one) \o y = u \o (one \o y)
    BY Associate
  <2>. QED  BY <1>3, <1>4, <1>5, <2>1
<1>7. SubSeq(p, 1, k) \in Path /\ SubSeq(p, 1, k + 1) \in Path /\ p[k + 1] \in Element
  BY <1>3, <1>4, <1>5
<1>. QED  BY <1>5, <1>6, <1>7

(* Through such a directory Resolve goes straight on.                      *)
LEMMA WalksTo ==
  ASSUME Unwritten, NEW f \in Nat, NEW d, Clear(d), NEW r \in Path
  PROVE  From(f, <<>>, d \o r) = From(f, d, r)
<1>1. CASE f = 0
  <2>1. d \in Path /\ d \o r \in Path /\ <<>> \in Path
    BY ConcatType, Constants DEF Clear
  <2>. QED  BY <1>1, <2>1, NoFuel
<1>2. CASE f # 0
  <2>1. PICK n \in Nat : n = Len(d) /\ d \in Path /\ d \in Seq(Element)
    BY PathIs DEF Clear
  <2>. DEFINE Part(k) == SubSeq(d, 1, k)
              S == {k \in Nat : k <= n => \A y \in Path : From(f, <<>>, Part(k) \o y) = From(f, Part(k), y)}
  <2>2. 0 \in S
    <3>1. Part(0) = <<>>
      BY SubSeqEmpty
    <3>2. \A y \in Path : <<>> \o y = y
      BY Concats
    <3>. HIDE DEF Part
    <3>. QED  BY <3>1, <3>2
  <2>3. ASSUME NEW k \in Nat, k \in S PROVE k + 1 \in S
    <3>. SUFFICES ASSUME k + 1 <= n, NEW y \in Path
                  PROVE  From(f, <<>>, Part(k + 1) \o y) = From(f, Part(k + 1), y)
      OBVIOUS
    <3>0. k < n /\ k <= n /\ k + 1 \in 1..n
      BY <2>1
    <3>1. PICK e \in Element : e = d[k + 1]
      BY <2>1, <3>0, PathIs
    <3>2. /\ Part(k) \in Path /\ Part(k + 1) \in Path /\ Append(Part(k), e) = Part(k + 1)
          /\ Part(k + 1) \o y = Part(k) \o (<<e>> \o y)
      BY <2>1, <3>0, <3>1, Prefix
    <3>3. e \notin Blank /\ e # ".." /\ ~IsSymlink(Part(k + 1))
      BY <2>1, <3>0, <3>1 DEF Clear, Blank
    <3>. HIDE DEF Part
    <3>4. PICK z \in Path : z = <<e>> \o y
      BY InFront
    <3>5. From(f, <<>>, Part(k) \o z) = From(f, Part(k), z)
      BY <2>3, <3>0
    <3>6. From(f, Part(k), z) = From(f, Part(k + 1), y)
      <4>1. PICK a \in Path : a = Part(k)
        BY <3>2
      <4>2. From(f, a, z) = From(f, Append(a, e), y)
        <5>1. f \in Nat \ {0} /\ Append(a, e) = Part(k + 1)
          BY <1>2, <3>2, <4>1
        <5>2. ~IsSymlink(Append(a, e))
          BY <3>3, <5>1
        <5>3. From(f, a, <<e>> \o y) = From(f, Append(a, e), y)
          BY <3>3, <5>1, <5>2, Over
        <5>. QED  BY <3>4, <5>3
      <4>. QED  BY <3>2, <4>1, <4>2
    <3>. QED  BY <3>2, <3>4, <3>5, <3>6
  <2>. HIDE DEF S
  <2>4. n \in S
    BY <2>2, <2>3, Induction
  <2>5. Part(n) = d
    BY <2>1, SubSeqFull
  <2>. HIDE DEF Part
  <2>. QED  BY <2>4, <2>5 DEF S
<1>. QED  BY <1>1, <1>2

(* The first elements of a path, and the first of those.                   *)
LEMMA Firsts ==
  ASSUME NEW p \in Path, NEW j \in 0..Len(p)
  PROVE  /\ SubSeq(p, 1, j) \in Path /\ Len(SubSeq(p, 1, j)) = j
         /\ \A i \in 1..j : SubSeq(p, 1, j)[i] = p[i]
         /\ \A k \in 0..j : SubSeq(SubSeq(p, 1, j), 1, k) = SubSeq(p, 1, k)
<1>1. PICK n \in Nat : n = Len(p) /\ p \in Seq(Element)
  BY PathIs
<1>2. ASSUME NEW q \in Seq(Element), NEW k \in Nat, k <= Len(q)
      PROVE  /\ SubSeq(q, 1, k) \in Seq(Element) /\ Len(SubSeq(q, 1, k)) = k
             /\ \A i \in 1..k : SubSeq(q, 1, k)[i] = q[i]
  <2>1. 1 \in Int /\ k \in Int /\ \A i \in 1..k : q[i] \in Element
    BY <1>2
  <2>2. /\ SubSeq(q, 1, k) \in Seq(Element)
        /\ Len(SubSeq(q, 1, k)) = IF 1 <= k THEN k - 1 + 1 ELSE 0
        /\ \A i \in 1..(k - 1 + 1) : SubSeq(q, 1, k)[i] = q[1 + i - 1]
    BY <2>1, SubSeqProperties
  <2>3. Len(SubSeq(q, 1, k)) = k
    BY <2>2
  <2>. QED  BY <2>2, <2>3
<1>3. PICK q \in Seq(Element) : q = SubSeq(p, 1, j) /\ Len(q) = j /\ \A i \in 1..j : q[i] = p[i]
  <2>1. j \in Nat /\ j <= Len(p)
    BY <1>1
  <2>. QED  BY <1>1, <1>2, <2>1
<1>4. ASSUME NEW k \in 0..j PROVE SubSeq(q, 1, k) = SubSeq(p, 1, k)
  <2>1. k \in Nat /\ k <= Len(q) /\ k <= Len(p) /\ j \in Nat
    BY <1>1, <1>3
  <2>2. /\ SubSeq(q, 1, k) \in Seq(Element) /\ Len(SubSeq(q, 1, k)) = k
        /\ \A i \in 1..k : SubSeq(q, 1, k)[i] = q[i]
    BY <1>2, <2>1
  <2>3. /\ SubSeq(p, 1, k) \in Seq(Element) /\ Len(SubSeq(p, 1, k)) = k
        /\ \A i \in 1..k : SubSeq(p, 1, k)[i] = p[i]
    BY <1>1, <1>2, <2>1
  <2>4. \A i \in 1..k : SubSeq(q, 1, k)[i] = SubSeq(p, 1, k)[i]
    <3>. TAKE i \in 1..k
    <3>1. i \in 1..j
      BY <2>1
    <3>. QED  BY <1>3, <2>2, <2>3, <3>1
  <2>. QED  BY <2>2, <2>3, <2>4, SeqEqual
<1>. QED  BY <1>3, <1>4, IsPath

(* A directory's parts are as clear as the directory.                      *)
LEMMA ClearPart ==
  ASSUME NEW d, Clear(d), NEW j \in 0..Len(d)
  PROVE  Clear(SubSeq(d, 1, j)) /\ Len(SubSeq(d, 1, j)) = j
<1>1. PICK n \in Nat : n = Len(d) /\ d \in Path
  BY PathIs DEF Clear
<1>. DEFINE p == SubSeq(d, 1, j)
<1>2. /\ p \in Path /\ Len(p) = j /\ \A i \in 1..j : p[i] = d[i]
      /\ \A k \in 0..j : SubSeq(p, 1, k) = SubSeq(d, 1, k)
  BY <1>1, Firsts
<1>3. \A i \in 1..j : i \in 1..n /\ i \in 0..j
  BY <1>1
<1>. HIDE DEF p
<1>. QED  BY <1>1, <1>2, <1>3 DEF Clear, p

(* From there, ".." leads back.                                            *)
LEMMA ClimbSame ==
  ASSUME Unwritten, NEW f \in Nat, NEW d, Clear(d), d # <<>>, NEW y \in Path
  PROVE  From(f, <<>>, d \o (<<"..">> \o y)) = From(f, <<>>, Front(d) \o y)
<1>1. PICK n \in Nat \ {0} : n = Len(d) /\ d \in Path /\ Front(d) = SubSeq(d, 1, n - 1)
  BY PathIs, FrontLast DEF Clear, Front
<1>2. Clear(Front(d)) /\ Front(d) \in Path
  <2>1. n - 1 \in 0..Len(d)
    BY <1>1
  <2>. QED  BY <1>1, <2>1, ClearPart DEF Clear
<1>3. PICK e \in Element, z \in Path : e = ".." /\ z = <<e>> \o y /\ e \notin Blank
  BY Elements, InFront DEF Blank
<1>4. From(f, <<>>, d \o z) = From(f, d, z)
  BY WalksTo
<1>5. From(f, <<>>, Front(d) \o y) = From(f, Front(d), y)
  BY <1>2, WalksTo
<1>6. From(f, d, z) = From(f, Front(d), y)
  <2>1. CASE f = 0
    BY <1>1, <1>2, <2>1, NoFuel
  <2>2. CASE f # 0
    <3>1. From(f, d, z) = From(f, Up(d), y)
      BY <1>1, <1>3, <2>2, Over
    <3>. QED  BY <3>1 DEF Up
  <2>. QED  BY <2>1, <2>2
<1>. QED  BY <1>3, <1>4, <1>5, <1>6

(* A path leads where the cleaned one does, if every ".." in it climbs out *)
(* of a clear directory.                                                   *)
LEMMA CleanSame ==
  ASSUME Unwritten, NEW f \in Nat, NEW p \in Path, NEW e, IsCleaning(p, e), NEW r \in Path,
         \A k \in 1..Len(p) : p[k] = ".." => Clear(e[k - 1]) /\ e[k - 1] # <<>>
  PROVE  From(f, <<>>, p \o r) = From(f, <<>>, e[Len(p)] \o r)
<1>1. PICK n \in Nat : n = Len(p) /\ p \in Seq(Element)
  BY PathIs
<1>2. /\ e[0] = <<>> /\ \A k \in 1..n : e[k] = Push(IsAbs(p), e[k - 1], p[k])
      /\ \A k \in 0..n : e[k] \in Path
  BY <1>1 DEF IsCleaning
<1>. DEFINE Part(k) == SubSeq(p, 1, k)
            S == {k \in Nat : k <= n =>
                    \A y \in Path : From(f, <<>>, Part(k) \o y) = From(f, <<>>, e[k] \o y)}
<1>3. 0 \in S
  <2>1. Part(0) = <<>>
    BY SubSeqEmpty
  <2>. HIDE DEF Part
  <2>. QED  BY <1>2, <2>1
<1>4. ASSUME NEW k \in Nat, k \in S PROVE k + 1 \in S
  <2>. SUFFICES ASSUME k + 1 <= n, NEW y \in Path
                PROVE  From(f, <<>>, Part(k + 1) \o y) = From(f, <<>>, e[k + 1] \o y)
    OBVIOUS
  <2>1. k < n /\ k <= n /\ k + 1 \in 1..n /\ k \in 0..n /\ (k + 1) - 1 = k
    BY <1>1
  <2>2. PICK c \in Element : c = p[k + 1]
    BY <1>1, <2>1, PathIs
  <2>3. Part(k + 1) \o y = Part(k) \o (<<c>> \o y)
    BY <1>1, <2>1, <2>2, Prefix
  <2>. HIDE DEF Part
  <2>4. PICK z \in Path : z = <<c>> \o y
    BY InFront
  <2>5. From(f, <<>>, Part(k) \o z) = From(f, <<>>, e[k] \o z)
    BY <1>4, <2>1
  <2>6. PICK d \in Path : d = e[k]
    BY <1>2, <2>1
  <2>7. e[k + 1] = Push(IsAbs(p), d, c)
    BY <1>2, <2>1, <2>2, <2>6
  <2>8. From(f, <<>>, d \o z) = From(f, <<>>, e[k + 1] \o y)
    <3>1. CASE c \in Blank
      <4>1. e[k + 1] = d
        BY <2>7, <3>1 DEF Push, Blank
      <4>2. PICK a \in Path : a = <<>>
        BY Constants
      <4>3. From(f, a, d \o (<<c>> \o y)) = From(f, a, d \o y)
        BY <3>1, BlankSame
      <4>. QED  BY <2>4, <4>1, <4>2, <4>3
    <3>2. CASE c \notin Blank /\ c = ".."
      <4>1. Clear(d) /\ d # <<>>
        BY <1>1, <2>1, <2>2, <2>6, <3>2
      <4>2. Last(d) # ".."
        <5>1. d \in Seq(Element) /\ Len(d) \in Nat \ {0} /\ Last(d) = d[Len(d)]
          BY <4>1, PathIs, FrontLast
        <5>2. Len(d) \in 1..Len(d)
          BY <5>1
        <5>. QED  BY <4>1, <5>1, <5>2 DEF Clear
      <4>3. e[k + 1] = Front(d)
        BY <2>7, <3>2, <4>1, <4>2 DEF Push, Blank
      <4>. QED  BY <2>4, <3>2, <4>1, <4>3, ClimbSame
    <3>3. CASE c \notin Blank /\ c # ".."
      <4>1. e[k + 1] = Append(d, c)
        BY <2>7, <3>3 DEF Push, Blank
      <4>2. PICK one \in Path : one = <<c>>
        BY Constants
      <4>3. Append(d, c) = d \o one
        BY <4>2, PathIs, AppendIsConcat
      <4>4. (d \o one) \o y = d \o (one \o y)
        BY Associate
      <4>. QED  BY <2>4, <4>1, <4>2, <4>3, <4>4
    <3>. QED  BY <3>1, <3>2, <3>3
  <2>. QED  BY <2>3, <2>4, <2>5, <2>6, <2>8
<1>. HIDE DEF S
<1>5. n \in S
  BY <1>3, <1>4, Induction
<1>6. Part(n) = p
  BY <1>1, SubSeqFull
<1>. HIDE DEF Part
<1>. QED  BY <1>1, <1>5, <1>6 DEF S

---------------------------------------------------------------------------
(* What Clean takes back *)

(* What normalize takes away leads nowhere.                                *)
LEMMA PaddedSame ==
  ASSUME Unwritten, NEW f \in Nat, NEW t, Plain(t), NEW p, NEW o, Padded(p, t, o), NEW r \in Path
  PROVE  From(f, <<>>, p \o r) = From(f, <<>>, t \o r)
<1>1. p \in Path /\ o \in Nat /\ Len(p) \in Nat /\ Len(t) \in Nat
  BY PathIs DEF Padded, Plain
<1>2. PICK e : IsCleaning(p, e)
  BY <1>1, Cleaning
<1>3. e[Len(p)] = t
  BY <1>2, CleaningPadded
<1>4. ASSUME NEW k \in 1..Len(p) PROVE p[k] # ".."
  <2>1. CASE k \in 1..o
    BY <2>1 DEF Padded, Blank
  <2>2. CASE k \in (o + Len(t) + 1)..Len(p)
    BY <2>2 DEF Padded, Void
  <2>3. CASE k - o \in 1..Len(t)
    <3>1. o + (k - o) = k
      BY <1>1
    <3>2. p[o + (k - o)] = t[k - o] /\ t[k - o] # ".."
      BY <2>3 DEF Padded, Plain
    <3>. QED  BY <3>1, <3>2
  <2>. QED  BY <1>1, <2>1, <2>2, <2>3
<1>. QED  BY <1>1, <1>2, <1>3, <1>4, CleanSame

(* A ".." that Clean has to keep in front is kept to the end.              *)
LEMMA KeptInFront ==
  ASSUME NEW p \in Path, ~IsAbs(p), NEW e, IsCleaning(p, e), Plain(e[Len(p)]),
         NEW k \in 0..Len(p), e[k] # <<>>
  PROVE  e[k][1] # ".."
<1>. SUFFICES ASSUME e[k][1] = ".." PROVE FALSE
  OBVIOUS
<1>1. PICK n \in Nat : n = Len(p)
  BY PathIs
<1>2. /\ \A i \in 1..n : e[i] = Push(FALSE, e[i - 1], p[i]) /\ p[i] \in Element
      /\ \A i \in 0..n : e[i] \in Path
  <2>1. IsAbs(p) = FALSE
    BY DEF IsAbs
  <2>. QED  BY <1>1, <2>1, PathIs DEF IsCleaning
<1>. DEFINE S == {j \in Nat : k + j <= n => e[k + j] # <<>> /\ e[k + j][1] = ".."}
<1>3. 0 \in S
  BY <1>1
<1>4. ASSUME NEW j \in Nat, j \in S PROVE j + 1 \in S
  <2>. SUFFICES ASSUME k + (j + 1) <= n
                PROVE  e[k + (j + 1)] # <<>> /\ e[k + (j + 1)][1] = ".."
    OBVIOUS
  <2>1. k + j <= n /\ k + j \in 0..n /\ k + (j + 1) \in 1..n /\ (k + (j + 1)) - 1 = k + j
    BY <1>1
  <2>2. PICK d \in Path, c \in Element : d = e[k + j] /\ c = p[k + (j + 1)]
    BY <1>2, <2>1
  <2>3. d # <<>> /\ d[1] = ".."
    BY <1>4, <2>1, <2>2
  <2>4. e[k + (j + 1)] = Push(FALSE, d, c)
    BY <1>2, <2>1, <2>2
  <2>5. PICK m \in Nat \ {0} : /\ m = Len(d) /\ d \in Seq(Element) /\ Last(d) = d[m]
                               /\ Front(d) \in Seq(Element) /\ Len(Front(d)) = m - 1
                               /\ \A i \in 1..(m - 1) : Front(d)[i] = d[i]
    BY <2>3, PathIs, FrontLast
  <2>6. Append(d, c) # <<>> /\ Append(d, c)[1] = ".."
    <3>1. 1 \in 1..Len(d)
      BY <2>5
    <3>. QED  BY <2>3, <2>5, <3>1, AppendProperties
  <2>7. Last(d) # ".." => Front(d) # <<>> /\ Front(d)[1] = ".."
    <3>. SUFFICES ASSUME Last(d) # ".." PROVE Front(d) # <<>> /\ Front(d)[1] = ".."
      OBVIOUS
    <3>1. m # 1
      BY <2>3, <2>5
    <3>2. 1 \in 1..(m - 1) /\ m - 1 # 0
      BY <3>1
    <3>. QED  BY <2>3, <2>5, <3>2
  <2>. QED  BY <2>3, <2>4, <2>6, <2>7 DEF Push
<1>. HIDE DEF S
<1>5. n - k \in S
  <2>1. Nat \subseteq S
    BY <1>3, <1>4, Induction
  <2>2. n - k \in Nat
    BY <1>1
  <2>. QED  BY <2>1, <2>2
<1>6. k + (n - k) = n /\ n <= n
  BY <1>1
<1>7. e[n] # <<>> /\ e[n][1] = ".."
  BY <1>5, <1>6 DEF S
<1>8. Len(e[n]) \in Nat \ {0}
  BY <1>1, PlainIs
<1>9. 1 \in 1..Len(e[n])
  BY <1>8
<1>. QED  BY <1>1, <1>7, <1>9 DEF Plain

(* A link whose ".."s come first climbs out of the directory it is in.     *)
LEMMA ClimbsOut ==
  ASSUME NEW p \in Path, ~IsAbs(p), NEW e, IsCleaning(p, e), Plain(e[Len(p)]),
         NEW d, Clear(d), Len(d) <= Len(p), \A k \in 1..Len(d) : p[k] = d[k],
         \A j, k \in (Len(d) + 1)..Len(p) :
           j < k /\ p[k] = ".." => p[j] \in Blank \/ p[j] = ".."
  PROVE  \A k \in 1..Len(p) : p[k] = ".." => Clear(e[k - 1]) /\ e[k - 1] # <<>>
<1>1. PICK n \in Nat, m \in Nat : n = Len(p) /\ m = Len(d) /\ m <= n /\ d \in Path
  BY PathIs DEF Clear
<1>2. /\ e[0] = <<>> /\ \A i \in 1..n : e[i] = Push(FALSE, e[i - 1], p[i])
      /\ \A i \in 0..n : e[i] \in Path
  <2>1. IsAbs(p) = FALSE
    BY DEF IsAbs
  <2>. QED  BY <1>1, <2>1 DEF IsCleaning
<1>. DEFINE Part(k) == SubSeq(d, 1, k)
            S == {k \in Nat : k <= m => e[k] = Part(k)}
<1>3. \A k \in 0..m : Clear(Part(k)) /\ Len(Part(k)) = k /\ Part(k) \in Path
  BY <1>1, ClearPart DEF Clear
<1>4. Part(0) = <<>>
  BY SubSeqEmpty
<1>5. ASSUME NEW k \in Nat, k \in S PROVE k + 1 \in S
  <2>. SUFFICES ASSUME k + 1 <= m PROVE e[k + 1] = Part(k + 1)
    OBVIOUS
  <2>1. k < m /\ k <= m /\ k + 1 \in 1..m /\ k + 1 \in 1..n /\ (k + 1) - 1 = k
    BY <1>1
  <2>2. p[k + 1] = d[k + 1] /\ d[k + 1] \notin {"", ".", ".."}
    BY <1>1, <2>1 DEF Clear
  <2>3. Append(Part(k), d[k + 1]) = Part(k + 1)
    BY <1>1, <2>1, Prefix
  <2>4. e[k] = Part(k)
    BY <1>5, <2>1
  <2>. HIDE DEF Part
  <2>5. e[k + 1] = Push(FALSE, Part(k), d[k + 1])
    BY <1>2, <2>1, <2>2, <2>4
  <2>. QED  BY <2>2, <2>3, <2>5 DEF Push
<1>6. e[m] = Part(m)
  <2>1. 0 \in S
    BY <1>2, <1>4
  <2>. HIDE DEF S, Part
  <2>2. m \in S
    BY <1>5, <2>1, Induction
  <2>. QED  BY <2>2 DEF S
(* A ".." is pushed onto a part of d that is not empty. *)
<1>7. ASSUME NEW i \in 1..n, NEW j \in 0..m, e[i - 1] = Part(j), p[i] = ".."
      PROVE  j # 0 /\ e[i] = Part(j - 1)
  <2>1. e[i] = Push(FALSE, Part(j), "..")
    BY <1>2, <1>7
  <2>2. j # 0
    <3>. SUFFICES ASSUME j = 0 PROVE FALSE
      OBVIOUS
    <3>1. e[i] = Append(<<>>, "..")
      BY <1>4, <2>1 DEF Push
    <3>2. Append(<<>>, "..") # <<>> /\ Append(<<>>, "..")[1] = ".."
      OBVIOUS
    <3>3. PICK k \in 0..Len(p) : k = i
      BY <1>1
    <3>4. e[k] # <<>> => e[k][1] # ".."
      BY KeptInFront
    <3>. QED  BY <3>1, <3>2, <3>3, <3>4
  <2>3. PICK q \in Path : q = Part(j) /\ Len(q) = j /\ Clear(q) /\ q # <<>>
    <3>1. Part(j) # <<>>
      BY <1>3, <2>2
    <3>. QED  BY <1>3, <3>1
  <2>4. Last(q) # ".."
    <3>1. Last(q) = q[Len(q)]
      BY <2>3, PathIs, FrontLast
    <3>2. j \in 1..j
      BY <2>2
    <3>. QED  BY <2>3, <3>1, <3>2 DEF Clear
  <2>5. Front(q) = Part(j - 1)
    <3>1. j \in 0..Len(d) /\ j - 1 \in 0..j
      BY <1>1, <2>2
    <3>2. SubSeq(Part(j), 1, j - 1) = Part(j - 1)
      BY <1>1, <3>1, Firsts
    <3>. HIDE DEF Part
    <3>. QED  BY <2>3, <3>2 DEF Front
  <2>. HIDE DEF Part
  <2>6. e[i] = Front(q)
    BY <2>1, <2>3, <2>4 DEF Push
  <2>. QED  BY <2>2, <2>5, <2>6
<1>. HIDE DEF Part, S
<1>. TAKE K \in 1..Len(p)
<1>. HAVE p[K] = ".."
<1>8. K \in 1..n /\ K \in Nat /\ K > m
  <2>1. K \in 1..n
    BY <1>1
  <2>2. K \notin 1..m
    BY <1>1 DEF Clear
  <2>. QED  BY <2>1, <2>2
<1>. DEFINE U == {i \in Nat : m + i < K => \E j \in 0..m : e[m + i] = Part(j)}
<1>9. 0 \in U
  <2>1. m \in 0..m /\ m + 0 = m
    OBVIOUS
  <2>. QED  BY <1>6, <2>1
<1>10. ASSUME NEW i \in Nat, i \in U PROVE i + 1 \in U
  <2>. SUFFICES ASSUME m + (i + 1) < K PROVE \E j \in 0..m : e[m + (i + 1)] = Part(j)
    OBVIOUS
  <2>1. PICK a \in 1..n : /\ a = m + (i + 1) /\ a - 1 = m + i /\ a < K /\ m + i < K
                          /\ a \in (m + 1)..n /\ K \in (m + 1)..n
    BY <1>8
  <2>2. p[a] \in Blank \/ p[a] = ".."
    BY <1>1, <2>1
  <2>3. PICK j \in 0..m : e[a - 1] = Part(j)
    BY <1>10, <2>1
  <2>4. CASE p[a] \in Blank
    <3>1. e[a] = Push(FALSE, e[a - 1], p[a])
      BY <1>2
    <3>2. e[a] = e[a - 1]
      BY <2>4, <3>1 DEF Push, Blank
    <3>. QED  BY <2>1, <2>3, <3>2
  <2>5. CASE p[a] = ".."
    <3>1. j # 0 /\ e[a] = Part(j - 1)
      BY <1>7, <2>3, <2>5
    <3>2. j - 1 \in 0..m
      BY <3>1
    <3>. QED  BY <2>1, <3>1, <3>2
  <2>. QED  BY <2>2, <2>4, <2>5
<1>. HIDE DEF U
<1>11. PICK j \in 0..m : e[K - 1] = Part(j)
  <2>1. Nat \subseteq U
    BY <1>9, <1>10, Induction
  <2>2. (K - 1) - m \in Nat /\ m + ((K - 1) - m) = K - 1 /\ K - 1 < K
    BY <1>8
  <2>3. (K - 1) - m \in U
    BY <2>1, <2>2
  <2>. QED  BY <2>2, <2>3 DEF U
<1>12. j # 0
  BY <1>7, <1>8, <1>11
<1>13. Part(j) # <<>>
  <2>1. Len(Part(j)) # 0
    BY <1>3, <1>12
  <2>. QED  BY <2>1
<1>. QED  BY <1>3, <1>11, <1>13

---------------------------------------------------------------------------
(* What Join and normalize make of a link *)

(* Whether a path is absolute shows at its beginning.                      *)
LEMMA AbsOn ==
  ASSUME NEW p \in Path, p # <<>>, NEW v \in Path
  PROVE  /\ p[1] # Void => ~IsAbs(p) /\ ~IsAbs(p \o v)
         /\ IsAbs(p) => IsAbs(p \o v)
<1>1. p \in Seq(Element) /\ Len(p) \in Nat \ {0} /\ Len(v) \in Nat
  BY PathIs, FrontLast
<1>2. p \o v \in Path /\ Len(p \o v) = Len(p) + Len(v) /\ (p \o v)[1] = p[1]
  <2>1. 1 \in 1..Len(p)
    BY <1>1
  <2>. QED  BY <2>1, Concats
<1>3. p \o v \in Seq(Element) /\ p \o v # <<>>
  <2>1. Len(p \o v) # 0
    BY <1>1, <1>2
  <2>. QED  BY <1>2, <2>1, PathIs
<1>4. Head(p) = p[1] /\ Head(p \o v) = p[1]
  <2>1. Head(p) = p[1]
    BY <1>1
  <2>2. Head(p \o v) = (p \o v)[1]
    BY <1>3
  <2>. QED  BY <1>2, <2>1, <2>2
<1>5. HasSlash(p) => HasSlash(p \o v)
  BY <1>1, <1>2 DEF HasSlash
<1>. QED  BY <1>4, <1>5 DEF IsAbs, Void

(* A path with a slash in front.                                           *)
Slashed(q) == Empty \o q

(* What Clean keeps of a path behind which a plain one is put: all of that *)
(* one.                                                                    *)
LEMMA CleaningBehind ==
  ASSUME NEW p \in Path, NEW e, IsCleaning(p, e), NEW q, Plain(q),
         NEW v, v = Slashed(q), NEW w, w = p \o v, IsAbs(w) <=> IsAbs(p)
  PROVE  Clean(w) = Cleaned(w, e[Len(p)] \o q)
<1>1. PICK n \in Nat, m \in Nat : n = Len(p) /\ m = Len(q) /\ v \in Path /\ q \in Path
  <2>1. Empty \in Path /\ q \in Path
    BY Constants DEF Plain
  <2>. QED  BY <2>1, PathIs, ConcatType DEF Slashed
<1>2. /\ w \in Path /\ Len(w) = n + (1 + m)
      /\ \A k \in 1..n : w[k] = p[k]
      /\ w[n + 1] = Void /\ \A k \in 1..m : w[n + (1 + k)] = q[k]
  <2>1. Len(v) = 1 + m /\ v[1] = Void /\ \A k \in 1..m : v[1 + k] = q[k]
    <3>1. PICK one \in Path : one = Empty /\ Len(one) = 1 /\ one[1] = Void
      BY Constants DEF Empty, Void
    <3>2. /\ Len(v) = Len(one) + Len(q) /\ (\A k \in 1..Len(one) : v[k] = one[k])
          /\ \A k \in 1..Len(q) : v[Len(one) + k] = q[k]
      <4>1. v = one \o q /\ q \in Path
        BY <1>1, <3>1 DEF Slashed
      <4>. QED  BY <4>1, Concats
    <3>3. 1 \in 1..1
      OBVIOUS
    <3>. QED  BY <1>1, <3>1, <3>2, <3>3
  <2>2. /\ w \in Path /\ Len(w) = n + Len(v) /\ (\A k \in 1..n : w[k] = p[k])
        /\ \A k \in 1..Len(v) : w[n + k] = v[k]
    BY <1>1, Concats
  <2>3. 1 \in 1..(1 + m) /\ \A k \in 1..m : 1 + k \in 1..(1 + m)
    OBVIOUS
  <2>. QED  BY <2>1, <2>2, <2>3
<1>3. PICK c : IsCleaning(w, c) /\ Clean(w) = Cleaned(w, c[Len(w)])
  BY <1>2, Cleaning
<1>. DEFINE R == IsAbs(p)
<1>4. /\ c[0] = <<>> /\ \A k \in 1..(n + (1 + m)) : c[k] = Push(R, c[k - 1], w[k])
      /\ e[0] = <<>> /\ \A k \in 1..n : e[k] = Push(R, e[k - 1], p[k])
      /\ e[n] \in Path
  <2>1. n \in 0..n
    OBVIOUS
  <2>2. IsAbs(w) = IsAbs(p)
    BY DEF IsAbs
  <2>. QED  BY <1>1, <1>2, <1>3, <2>1, <2>2 DEF IsCleaning
<1>. HIDE DEF R
<1>. DEFINE S == {k \in Nat : k <= n => c[k] = e[k]}
            Kept(k) == c[(n + 1) + k] = e[n] \o SubSeq(q, 1, k)
            T == {k \in Nat : k <= m => Kept(k)}
<1>5. 0 \in S
  BY <1>4
<1>6. ASSUME NEW k \in Nat, k \in S PROVE k + 1 \in S
  <2>. SUFFICES ASSUME k + 1 <= n PROVE c[k + 1] = e[k + 1]
    OBVIOUS
  <2>1. k <= n /\ k + 1 \in 1..n /\ k + 1 \in 1..(n + (1 + m)) /\ (k + 1) - 1 = k
    BY <1>1
  <2>. QED  BY <1>2, <1>4, <1>6, <2>1
<1>. HIDE DEF S
<1>7. c[n] = e[n]
  <2>1. n \in S
    BY <1>5, <1>6, Induction
  <2>. QED  BY <2>1 DEF S
<1>8. 0 \in T
  <2>1. n + 1 \in 1..(n + (1 + m)) /\ (n + 1) - 1 = n /\ (n + 1) + 0 = n + 1
    BY <1>1
  <2>2. c[n + 1] = e[n]
    BY <1>2, <1>4, <1>7, <2>1 DEF Push, Void
  <2>3. SubSeq(q, 1, 0) = <<>> /\ e[n] \o <<>> = e[n]
    BY <1>4, SubSeqEmpty, Concats
  <2>. QED  BY <2>1, <2>2, <2>3
<1>9. ASSUME NEW k \in Nat, k \in T PROVE k + 1 \in T
  <2>. SUFFICES ASSUME k + 1 <= m
                PROVE  Kept(k + 1)
    <3>. HIDE DEF Kept
    <3>. QED  OBVIOUS
  <2>1. PICK i \in Nat : /\ i = (n + 1) + (k + 1) /\ i - 1 = (n + 1) + k /\ i = n + (1 + (k + 1))
                         /\ i \in 1..(n + (1 + m))
    BY <1>1
  <2>2. k < m /\ k <= m /\ k + 1 \in 1..m
    BY <1>1
  <2>3. c[i - 1] = e[n] \o SubSeq(q, 1, k)
    BY <1>9, <2>1, <2>2
  <2>4. w[i] = q[k + 1] /\ q[k + 1] \notin {"", ".", ".."}
    BY <1>1, <1>2, <2>1, <2>2 DEF Plain
  <2>5. c[i] = Append(e[n] \o SubSeq(q, 1, k), q[k + 1])
    BY <1>4, <2>1, <2>3, <2>4 DEF Push
  <2>6. Append(e[n] \o SubSeq(q, 1, k), q[k + 1]) = e[n] \o SubSeq(q, 1, k + 1)
    <3>1. PICK u \in Path, b \in Element, one \in Path, d \in Path :
            /\ u = SubSeq(q, 1, k) /\ b = q[k + 1] /\ one = <<b>> /\ d = e[n]
            /\ Append(u, b) = SubSeq(q, 1, k + 1)
      <4>1. /\ SubSeq(q, 1, k) \in Path /\ q[k + 1] \in Element
            /\ Append(SubSeq(q, 1, k), q[k + 1]) = SubSeq(q, 1, k + 1)
        BY <1>1, <2>2, Prefix
      <4>. QED  BY <1>4, <4>1, Constants
    <3>2. Append(u, b) = u \o one
      BY <3>1, PathIs, AppendIsConcat
    <3>3. Append(d \o u, b) = (d \o u) \o one
      <4>1. d \o u \in Seq(Element)
        BY ConcatType, PathIs
      <4>. QED  BY <3>1, <4>1, AppendIsConcat
    <3>4. (d \o u) \o one = d \o (u \o one)
      BY Associate
    <3>. QED  BY <3>1, <3>2, <3>3, <3>4
  <2>. QED  BY <2>1, <2>5, <2>6
<1>. HIDE DEF T
<1>10. c[(n + 1) + m] = e[n] \o q
  <2>1. m \in T
    BY <1>8, <1>9, Induction
  <2>2. SubSeq(q, 1, m) = q
    BY <1>1, PathIs, SubSeqFull
  <2>3. m <= m
    OBVIOUS
  <2>. QED  BY <2>1, <2>2, <2>3 DEF T
<1>11. Len(w) = (n + 1) + m
  <2>1. n + (1 + m) = (n + 1) + m
    OBVIOUS
  <2>. QED  BY <1>2, <2>1
<1>. QED  BY <1>1, <1>3, <1>10, <1>11

(* The same in one.                                                        *)
LEMMA CleaningOn ==
  ASSUME NEW p \in Path, NEW e, IsCleaning(p, e), NEW q, Plain(q),
         IsAbs(p \o Slashed(q)) <=> IsAbs(p)
  PROVE  Clean(p \o Slashed(q)) = Cleaned(p \o Slashed(q), e[Len(p)] \o q)
BY CleaningBehind

(* What Join cleans of two names, the first of which is not empty.         *)
Raw(a, b) == IF b = Empty THEN a ELSE a \o b

(* Something follows, and the whole is not empty.                          *)
LEMMA JoinedLong ==
  ASSUME NEW p \in Path, NEW q \in Path, p # <<>>
  PROVE  p \o q \in Path /\ p \o q # <<>>
<1>1. p \in Seq(Element) /\ q \in Seq(Element)
  BY PathIs
<1>. QED  BY <1>1, ConcatEqualIffEmpty, ConcatType

(* Join, for two names.                                                    *)
LEMMA JoinedTwo ==
  ASSUME NEW a \in Path, NEW b \in Path, a # Empty, a # <<>>
  PROVE  Raw(a, b) \in Path /\ Raw(a, b) # <<>> /\ Join(<<a, b>>) = Clean(Raw(a, b))
<1>1. Raw(a, b) \in Path /\ Raw(a, b) # <<>>
  BY JoinedLong DEF Raw
<1>2. <<>> \o a = a
  BY Concats
<1>3. PICK ps \in Seq(Path) : ps = <<a, b>> /\ Len(ps) = 2 /\ ps[1] = a /\ ps[2] = b
  BY Names
<1>4. PICK e : IsJoining(ps, e) /\ Join(ps) = IF e[Len(ps)] = <<>> THEN Empty ELSE Clean(e[Len(ps)])
  BY Joining
<1>5. 1 \in 1..2 /\ 2 \in 1..2 /\ 1 - 1 = 0 /\ 2 - 1 = 1
  OBVIOUS
<1>6. e[1] = a
  BY <1>2, <1>3, <1>4, <1>5 DEF IsJoining
<1>7. e[2] = Raw(a, b)
  BY <1>3, <1>4, <1>5, <1>6 DEF IsJoining, Raw
<1>. QED  BY <1>1, <1>3, <1>4, <1>7

(* And for three.                                                          *)
LEMMA Joined ==
  ASSUME NEW a \in Path, NEW b \in Path, NEW c \in Path, a # Empty, a # <<>>, c # Empty
  PROVE  Join(<<a, b, c>>) = Clean(Raw(a, b) \o c)
<1>1. PICK u \in Path : u = Raw(a, b) /\ u # <<>>
  BY JoinedTwo
<1>2. <<>> \o a = a /\ u \o c # <<>>
  BY <1>1, Concats, JoinedLong
<1>3. PICK ps \in Seq(Path) : /\ ps = <<a, b, c>> /\ Len(ps) = 3
                              /\ ps[1] = a /\ ps[2] = b /\ ps[3] = c
  BY Names
<1>4. PICK e : IsJoining(ps, e) /\ Join(ps) = IF e[Len(ps)] = <<>> THEN Empty ELSE Clean(e[Len(ps)])
  BY Joining
<1>5. 1 \in 1..3 /\ 2 \in 1..3 /\ 3 \in 1..3 /\ 1 - 1 = 0 /\ 2 - 1 = 1 /\ 3 - 1 = 2
  OBVIOUS
<1>6. e[1] = a
  BY <1>2, <1>3, <1>4, <1>5 DEF IsJoining
<1>7. e[2] = u
  BY <1>1, <1>3, <1>4, <1>5, <1>6 DEF IsJoining, Raw
<1>8. e[3] = u \o c
  <2>1. e[3] = IF ps[3] = Empty THEN e[3 - 1] ELSE e[3 - 1] \o ps[3]
    BY <1>3, <1>4, <1>5 DEF IsJoining
  <2>. QED  BY <1>3, <1>5, <1>7, <2>1
<1>. QED  BY <1>1, <1>2, <1>3, <1>4, <1>8

(* Two plain names make a plain one.                                       *)
LEMMA PlainConcat ==
  ASSUME NEW p, Plain(p), NEW q, Plain(q)
  PROVE  Plain(p \o q)
<1>1. PICK m \in Nat \ {0}, n \in Nat : m = Len(p) /\ n = Len(q) /\ p \in Path /\ q \in Path
  BY PlainIs DEF Plain
<1>2. /\ p \o q \in Path /\ Len(p \o q) = m + n
      /\ (\A k \in 1..m : (p \o q)[k] = p[k]) /\ \A k \in 1..n : (p \o q)[m + k] = q[k]
  BY <1>1, Concats
<1>3. p \o q # <<>>
  <2>1. Len(p \o q) # 0
    BY <1>1, <1>2
  <2>. QED  BY <2>1
<1>4. ASSUME NEW i \in 1..(m + n) PROVE (p \o q)[i] \notin {"", ".", ".."}
  <2>1. CASE i \in 1..m
    BY <1>1, <1>2, <2>1 DEF Plain
  <2>2. CASE i \notin 1..m
    <3>1. i - m \in 1..n /\ m + (i - m) = i
      BY <1>1, <2>2
    <3>2. (p \o q)[m + (i - m)] = q[i - m] /\ q[i - m] \notin {"", ".", ".."}
      BY <1>1, <1>2, <3>1 DEF Plain
    <3>. QED  BY <3>1, <3>2
  <2>. QED  BY <2>1, <2>2
<1>. QED  BY <1>2, <1>3, <1>4 DEF Plain

(* normalize takes the slash in front of a plain name away.                *)
LEMMA NormalizeRooted == ASSUME NEW u, Plain(u) PROVE normalize(Empty \o u) = u
<1>1. PICK n \in Nat \ {0} : n = Len(u) /\ u \in Path /\ u \in Seq(Element)
  BY PlainIs DEF Plain
<1>2. PICK v \in Path : v = Empty \o u /\ v # <<>> /\ Head(v) = "" /\ Tail(v) = u
  <2>1. PICK e \in Element : e = ""
    BY Elements
  <2>. QED  BY <1>1, <2>1, InFront DEF Empty
<1>3. Len(v) = n + 1 /\ v[n + 1] = u[n]
  <2>1. PICK one \in Path : one = Empty /\ Len(one) = 1
    BY Constants DEF Empty
  <2>2. n \in 1..n /\ 1 + n = n + 1
    OBVIOUS
  <2>3. v = one \o u
    BY <1>2, <2>1
  <2>4. Len(v) = Len(one) + Len(u) /\ \A k \in 1..Len(u) : v[Len(one) + k] = u[k]
    BY <1>1, <2>3, Concats
  <2>. QED  BY <1>1, <2>1, <2>2, <2>4
<1>4. HasSlash(v) /\ Last(v) # Void
  <2>1. n \in 1..n
    OBVIOUS
  <2>2. u[n] # Void
    BY <1>1, <2>1 DEF Plain, Void
  <2>3. n + 1 > 1
    OBVIOUS
  <2>. QED  BY <1>3, <2>2, <2>3 DEF HasSlash, Last
<1>5. Head(u) # "."
  <2>1. Head(u) = u[1] /\ 1 \in 1..Len(u)
    BY <1>1
  <2>. QED  BY <2>1 DEF Plain
<1>. QED  BY <1>2, <1>4, <1>5 DEF normalize, Void

---------------------------------------------------------------------------
(* Where links lead *)

(* A valid path that is not the root's is a plain name.                    *)
LEMMA PlainValid == ASSUME NEW p \in Path PROVE ValidPath(p) /\ p # Dot <=> Plain(p)
<1>1. DOMAIN p = 1..Len(p)
  BY PathIs
<1>2. Plain(p) => p # Dot
  BY PlainIs
<1>. QED  BY <1>1, <1>2 DEF ValidPath, Plain

(* Where a link leads is a path.                                           *)
LEMMA TargetType == ASSUME Unwritten, NEW n, Has(n) PROVE Target(Entry(n)) \in Path
<1>1. PICK d \in Path, l \in Path : d = Entry(n).dir /\ l = Entry(n).header.link
  BY EntryTyped
<1>2. normalize(l) \in Path
  BY NormalizeType
<1>3. Join(<<d, l>>) \in Path
  BY JoinType, Names
<1>. QED  BY <1>1, <1>2, <1>3 DEF Target

(* What Straight says of the entry of a plain name, and what New does.     *)
LEMMA StraightAt ==
  ASSUME Unwritten, Straight, NEW n, Plain(n), Has(n)
  PROVE  /\ \A k \in 1..(Len(n) - 1) : ~IsSymlink(SubSeq(n, 1, k))
         /\ IsLink(n) => Plain(Target(Entry(n)))
         /\ IsSymlink(n) /\ ~IsAbs(Entry(n).header.link) => Climbs(Entry(n).header.link)
         /\ Entry(n).dir = DirOf(n) /\ Entry(n).offset \in Nat
<1>1. n \in Path /\ ValidPath(n) /\ n # Dot /\ n \in DOMAIN fsys.index
  BY PlainValid DEF Plain, Has
<1>2. /\ \A k \in 1..(Len(n) - 1) : ~IsSymlink(SubSeq(n, 1, k))
      /\ IsLink(n) => ValidPath(Target(Entry(n))) /\ Target(Entry(n)) # Dot
      /\ IsSymlink(n) /\ ~IsAbs(Entry(n).header.link) => Climbs(Entry(n).header.link)
  BY <1>1 DEF Straight
<1>3. IsLink(n) => Plain(Target(Entry(n)))
  BY <1>2, TargetType, PlainValid
<1>4. PICK i \in DOMAIN fsys.files : i = fsys.index[n] /\ fsys.files[i].filename = n
  BY <1>1, FSTyped DEF FSType
<1>5. Entry(n) = fsys.files[i]
  BY <1>4 DEF Entry
<1>6. Entry(n).dir = DirOf(n)
  BY <1>1, <1>4, <1>5, HeadersTyped DEF ParentOf
<1>7. Entry(n).offset \in Nat
  <2>1. PICK t \in Seq(Header) : fsys = New(t)
    BY TarsAssumption DEF Unwritten
  <2>2. DOMAIN fsys.files = DOMAIN t /\ fsys.files[i] = EntryOf(t[i], i)
    BY <1>4, <2>1, NewType
  <2>3. i \in Nat
    BY <1>4, <2>2
  <2>. QED  BY <1>5, <2>2, <2>3 DEF EntryOf
<1>. QED  BY <1>2, <1>3, <1>6, <1>7

(* The first elements of a plain name are a clear directory, unless one of *)
(* those is a symbolic link.                                               *)
LEMMA ClearFirsts ==
  ASSUME NEW n, Plain(n), NEW j \in 0..Len(n), \A k \in 1..j : ~IsSymlink(SubSeq(n, 1, k))
  PROVE  Clear(SubSeq(n, 1, j))
<1>1. PICK m \in Nat : m = Len(n) /\ n \in Path
  BY PathIs DEF Plain
<1>. DEFINE p == SubSeq(n, 1, j)
<1>2. /\ p \in Path /\ Len(p) = j /\ \A i \in 1..j : p[i] = n[i]
      /\ \A k \in 0..j : SubSeq(p, 1, k) = SubSeq(n, 1, k)
  BY <1>1, Firsts
<1>3. \A i \in 1..j : i \in 1..m /\ i \in 0..j
  BY <1>1
<1>. HIDE DEF p
<1>. QED  BY <1>1, <1>2, <1>3 DEF Clear, Plain, p

(* All of it, too.                                                         *)
LEMMA ClearAll ==
  ASSUME NEW n, Plain(n), \A k \in 1..(Len(n) - 1) : ~IsSymlink(SubSeq(n, 1, k)), ~IsSymlink(n)
  PROVE  Clear(n)
<1>1. PICK m \in Nat \ {0} : m = Len(n)
  BY PlainIs
<1>2. SubSeq(n, 1, m) = n
  BY <1>1, PlainIs, SubSeqFull
<1>3. \A k \in 1..m : ~IsSymlink(SubSeq(n, 1, k))
  <2>. TAKE k \in 1..m
  <2>1. k = m \/ k \in 1..(m - 1)
    OBVIOUS
  <2>. QED  BY <1>1, <1>2, <2>1
<1>4. m \in 0..m
  OBVIOUS
<1>. QED  BY <1>1, <1>2, <1>3, <1>4, ClearFirsts

(* Resolve comes to a symbolic link and goes through it.                   *)
LEMMA ThroughLink ==
  ASSUME Unwritten, NEW f \in Nat \ {0}, NEW n, Plain(n), IsSymlink(n),
         \A k \in 1..(Len(n) - 1) : ~IsSymlink(SubSeq(n, 1, k)),
         NEW l \in Path, l = Entry(n).header.link, NEW q \in Path
  PROVE  /\ Clear(Front(n))
         /\ From(f, <<>>, n \o q) = From(f - 1, IF IsAbs(l) THEN <<>> ELSE Front(n), l \o q)
<1>1. PICK k \in Nat : k = Len(n) - 1 /\ k < Len(n) /\ k + 1 = Len(n)
  <2>1. PICK m \in Nat \ {0} : m = Len(n)
    BY PlainIs
  <2>2. m - 1 \in Nat /\ m - 1 < m /\ (m - 1) + 1 = m
    OBVIOUS
  <2>. QED  BY <2>1, <2>2
<1>2. n \in Path /\ n \in Seq(Element) /\ SubSeq(n, 1, k + 1) = n
  BY <1>1, PlainIs, SubSeqFull DEF Plain
<1>3. PICK d \in Path, e \in Element :
        /\ d = SubSeq(n, 1, k) /\ e = n[k + 1] /\ Append(d, e) = n /\ n \o q = d \o (<<e>> \o q)
  <2>1. /\ SubSeq(n, 1, k) \in Path /\ n[k + 1] \in Element
        /\ Append(SubSeq(n, 1, k), n[k + 1]) = SubSeq(n, 1, k + 1)
        /\ SubSeq(n, 1, k + 1) \o q = SubSeq(n, 1, k) \o (<<n[k + 1]>> \o q)
    <3>1. n \in Path /\ k < Len(n)
      BY <1>1, <1>2
    <3>. QED  BY <3>1, Prefix
  <2>. QED  BY <1>2, <2>1
<1>4. Front(n) = d
  BY <1>1, <1>3 DEF Front
<1>5. Clear(d)
  <2>1. k \in 0..Len(n)
    BY <1>1
  <2>. QED  BY <1>1, <1>3, <2>1, ClearFirsts
<1>6. e \notin Blank /\ e # ".."
  <2>1. k + 1 \in 1..Len(n)
    BY <1>1
  <2>. QED  BY <1>3, <2>1 DEF Plain, Blank
<1>7. PICK r \in Path : r = <<e>> \o q
  BY InFront
<1>8. From(f, <<>>, d \o r) = From(f, d, r)
  BY <1>5, WalksTo
<1>9. From(f, d, r) = From(f - 1, IF IsAbs(l) THEN <<>> ELSE d, l \o q)
  <2>1. IsSymlink(Append(d, e)) /\ Entry(Append(d, e)).header.link = l
    BY <1>3
  <2>. QED  BY <1>6, <1>7, <2>1, Over
<1>. QED  BY <1>3, <1>4, <1>5, <1>7, <1>8, <1>9

(* What is cleaned of a directory and a link in it leads where both do.    *)
LEMMA CleanLink ==
  ASSUME Unwritten, NEW f \in Nat, NEW p \in Path, ~IsAbs(p), Plain(Clean(p)),
         NEW d, Clear(d), Len(d) <= Len(p), \A k \in 1..Len(d) : p[k] = d[k],
         \A j, k \in (Len(d) + 1)..Len(p) :
           j < k /\ p[k] = ".." => p[j] \in Blank \/ p[j] = "..",
         NEW q \in Path
  PROVE  From(f, <<>>, p \o q) = From(f, <<>>, Clean(p) \o q)
<1>1. PICK e : IsCleaning(p, e) /\ Clean(p) = Cleaned(p, e[Len(p)])
  BY Cleaning
<1>2. Clean(p) = e[Len(p)] /\ Plain(e[Len(p)])
  <2>1. Clean(p) # Dot
    BY PlainIs
  <2>. QED  BY <1>1, <2>1 DEF Cleaned
<1>3. \A k \in 1..Len(p) : p[k] = ".." => Clear(e[k - 1]) /\ e[k - 1] # <<>>
  BY <1>1, <1>2, ClimbsOut
<1>. QED  BY <1>1, <1>2, <1>3, CleanSame

(* Where a link's ".."s come first, they do behind a directory or a dot,   *)
(* which are the first m elements here.                                    *)
LEMMA ClimbsBehind ==
  ASSUME NEW l \in Path, Climbs(l), NEW p \in Path, NEW m \in Nat, Len(p) = m + Len(l),
         \A k \in 1..Len(l) : p[m + k] = l[k]
  PROVE  \A j, k \in (m + 1)..Len(p) : j < k /\ p[k] = ".." => p[j] \in Blank \/ p[j] = ".."
<1>1. PICK n \in Nat : n = Len(l) /\ DOMAIN l = 1..n
  BY PathIs
<1>. TAKE j, k \in (m + 1)..Len(p)
<1>. HAVE j < k /\ p[k] = ".."
<1>2. PICK a \in 1..n, b \in 1..n : a = j - m /\ b = k - m /\ m + a = j /\ m + b = k /\ a < b
  <2>1. j - m \in 1..n /\ k - m \in 1..n /\ m + (j - m) = j /\ m + (k - m) = k /\ j - m < k - m
    BY <1>1
  <2>. QED  BY <2>1
<1>3. p[j] = l[a] /\ p[k] = l[b]
  BY <1>1, <1>2
<1>4. l[b] = ".." => l[a] \in {"", ".", ".."}
  BY <1>1, <1>2 DEF Climbs
<1>. QED  BY <1>3, <1>4 DEF Blank

(* The first element of a plain name is not blank.                         *)
LEMMA PlainFirst ==
  ASSUME NEW n, Plain(n)
  PROVE  n[1] # Void /\ Len(n) \in Nat \ {0}
<1>1. PICK m \in Nat \ {0} : m = Len(n)
  BY PlainIs
<1>2. 1 \in 1..m
  OBVIOUS
<1>. QED  BY <1>1, <1>2 DEF Plain, Void

(* Clean leaves the root as it is.                                         *)
LEMMA CleanDot == Clean(Dot) = Dot
<1>1. PICK p \in Path : p = Dot /\ Len(p) = 1 /\ p[1] = "."
  BY Constants DEF Dot
<1>2. ~IsAbs(p)
  BY <1>1 DEF IsAbs, HasSlash
<1>3. PICK e : IsCleaning(p, e) /\ Clean(p) = Cleaned(p, e[Len(p)])
  BY Cleaning
<1>4. 1 \in 1..Len(p) /\ 1 - 1 = 0
  BY <1>1
<1>5. e[0] = <<>> /\ e[1] = Push(IsAbs(p), e[0], p[1])
  BY <1>3, <1>4 DEF IsCleaning
<1>6. e[1] = <<>>
  BY <1>1, <1>5 DEF Push
<1>. QED  BY <1>1, <1>2, <1>3, <1>6 DEF Cleaned

(* A dot in front leads nowhere.                                           *)
LEMMA DotSame ==
  ASSUME Unwritten, NEW f \in Nat, NEW u \in Path, NEW v \in Path
  PROVE  From(f, <<>>, (Dot \o u) \o v) = From(f, <<>>, u \o v)
<1>1. PICK a \in Path, e \in Element, d \in Path : a = <<>> /\ e \in Blank /\ d = <<e>> /\ d = Dot
  BY Elements, Constants DEF Blank, Dot
<1>2. PICK r \in Path : r = u \o v
  BY ConcatType
<1>3. (d \o u) \o v = d \o r
  BY <1>2, Associate
<1>4. From(f, a, a \o (<<e>> \o r)) = From(f, a, a \o r)
  <2>1. e \in Blank
    BY <1>1
  <2>. QED  BY <2>1, BlankSame
<1>5. PICK w \in Path : w = d \o r
  BY ConcatType
<1>6. a \o w = w /\ a \o r = r
  BY <1>1, Concats
<1>. QED  BY <1>1, <1>2, <1>3, <1>4, <1>5, <1>6

(* A relative link, from the directory it is in.                           *)
LEMMA RelativeSame ==
  ASSUME Unwritten, NEW f \in Nat, NEW n, Plain(n), Clear(Front(n)),
         NEW l \in Path, Climbs(l), NEW t, t = Clean(Raw(DirOf(n), l)), Plain(t), NEW q \in Path
  PROVE  From(f, Front(n), l \o q) = From(f, <<>>, t \o q)
<1>1. PICK d \in Path : d = Front(n) /\ Clear(d)
  BY DEF Clear
<1>2. From(f, <<>>, d \o (l \o q)) = From(f, d, l \o q)
  <2>1. l \o q \in Path
    BY ConcatType
  <2>. QED  BY <1>1, <2>1, WalksTo
<1>3. d \o (l \o q) = (d \o l) \o q
  BY <1>1, Associate
<1>4. CASE Len(n) # 1
  <2>1. DirOf(n) = d /\ Plain(d)
    BY <1>1, <1>4, DirOfPlain
  <2>2. CASE l = Empty
    <3>1. t = d
      BY <2>1, <2>2, CleanPlain DEF Raw
    <3>2. PICK e \in Element : e \in Blank /\ l = <<e>>
      BY <2>2, Elements DEF Blank, Empty
    <3>3. PICK z \in Path : z = <<>>
      BY Constants
    <3>4. From(f, z, d \o (<<e>> \o q)) = From(f, z, d \o q)
      <4>1. e \in Blank
        BY <3>2
      <4>. QED  BY <4>1, BlankSame
    <3>. QED  BY <1>1, <1>2, <3>1, <3>2, <3>3, <3>4
  <2>3. CASE l # Empty
    <3>1. PICK p \in Path : p = d \o l /\ t = Clean(p)
      BY <2>1, <2>3, ConcatType DEF Raw
    <3>2. ~IsAbs(p)
      <4>1. d # <<>> /\ d[1] # Void
        BY <2>1, PlainFirst DEF Plain
      <4>. QED  BY <3>1, <4>1, AbsOn
    <3>3. PICK m \in Nat : /\ m = Len(d) /\ Len(p) = m + Len(l) /\ \A k \in 1..m : p[k] = d[k]
                           /\ \A k \in 1..Len(l) : p[m + k] = l[k]
      <4>1. /\ Len(d) \in Nat /\ Len(d \o l) = Len(d) + Len(l)
            /\ \A k \in 1..Len(d) : (d \o l)[k] = d[k]
            /\ \A k \in 1..Len(l) : (d \o l)[Len(d) + k] = l[k]
        BY PathIs, Concats
      <4>. QED  BY <3>1, <4>1
    <3>4. \A j, k \in (m + 1)..Len(p) : j < k /\ p[k] = ".." => p[j] \in Blank \/ p[j] = ".."
      BY <3>3, ClimbsBehind
    <3>5. m <= Len(p)
      BY <3>3, PathIs
    <3>6. From(f, <<>>, p \o q) = From(f, <<>>, Clean(p) \o q)
      BY <1>1, <3>1, <3>2, <3>3, <3>4, <3>5, CleanLink
    <3>. QED  BY <1>1, <1>2, <1>3, <3>1, <3>6
  <2>. QED  BY <2>2, <2>3
<1>5. CASE Len(n) = 1
  <2>1. DirOf(n) = Dot
    BY <1>5, DirOfPlain
  <2>2. d = <<>>
    <3>1. n \in Seq(Element) /\ n # <<>>
      BY PlainIs DEF Plain
    <3>2. d \in Seq(Element) /\ Len(d) = 0
      BY <1>1, <1>5, <3>1, FrontLast
    <3>. QED  BY <3>2
  <2>3. l # Empty
    <3>1. Clean(Dot) = Dot
      BY CleanDot
    <3>. QED  BY <2>1, <3>1, PlainIs DEF Raw
  <2>4. PICK p \in Path : p = Dot \o l /\ t = Clean(p)
    BY <2>1, <2>3, ConcatType, Constants DEF Raw
  <2>5. PICK one \in Path : one = Dot /\ one # <<>> /\ one[1] # Void /\ Len(one) = 1
    BY Constants DEF Dot, Void
  <2>6. ~IsAbs(p)
    BY <2>4, <2>5, AbsOn
  <2>7. Len(p) = 1 + Len(l) /\ \A k \in 1..Len(l) : p[1 + k] = l[k]
    <3>1. p = one \o l
      BY <2>4, <2>5
    <3>2. Len(p) = Len(one) + Len(l) /\ \A k \in 1..Len(l) : p[Len(one) + k] = l[k]
      BY <3>1, Concats
    <3>. QED  BY <2>5, <3>2
  <2>8. p[1] \in Blank
    <3>1. p = one \o l /\ one[1] \in Blank /\ 1 \in 1..Len(one)
      BY <2>4, <2>5 DEF Dot, Blank
    <3>. QED  BY <3>1, Concats
  <2>9. PICK m \in Nat : m = Len(l) /\ Len(p) = 1 + m
    BY <2>7, PathIs
  <2>10. \A j, k \in (0 + 1)..Len(p) : j < k /\ p[k] = ".." => p[j] \in Blank \/ p[j] = ".."
    <3>. TAKE j, k \in (0 + 1)..Len(p)
    <3>1. CASE j = 1
      BY <2>8, <3>1
    <3>2. CASE j # 1
      <4>1. \A a, b \in (1 + 1)..Len(p) : a < b /\ p[b] = ".." => p[a] \in Blank \/ p[a] = ".."
        BY <2>7, ClimbsBehind
      <4>2. j \in (1 + 1)..Len(p) /\ (j < k => k \in (1 + 1)..Len(p))
        BY <2>9, <3>2
      <4>. QED  BY <4>1, <4>2
    <3>. QED  BY <3>1, <3>2
  <2>11. From(f, <<>>, p \o q) = From(f, <<>>, Clean(p) \o q)
    <3>1. Len(d) = 0 /\ Clear(d) /\ 0 <= Len(p) /\ \A k \in 1..0 : p[k] = d[k]
      BY <1>1, <2>2, <2>9
    <3>2. Plain(Clean(p))
      BY <2>4
    <3>. QED  BY <2>6, <2>10, <3>1, <3>2, CleanLink
  <2>12. From(f, <<>>, p \o q) = From(f, <<>>, l \o q)
    BY <2>4, DotSame
  <2>. QED  BY <1>1, <2>2, <2>4, <2>11, <2>12
<1>. QED  BY <1>4, <1>5, PlainFirst

(* What Join makes of the directory of a plain name and a link.            *)
LEMMA DirIs ==
  ASSUME NEW n, Plain(n), NEW l \in Path
  PROVE  /\ DirOf(n) \in Path /\ DirOf(n) # <<>> /\ DirOf(n) # Empty
         /\ ~IsAbs(DirOf(n)) /\ DirOf(n)[1] # Void
         /\ Join(<<DirOf(n), l>>) = Clean(Raw(DirOf(n), l))
<1>1. PICK d \in Path : d = DirOf(n)
  BY DirOfType DEF Plain
<1>2. d # <<>> /\ d # Empty /\ ~IsAbs(d) /\ d[1] # Void
  <2>1. CASE Len(n) = 1
    <3>1. d = Dot
      BY <1>1, <2>1, DirOfPlain
    <3>. QED  BY <3>1 DEF Dot, Empty, IsAbs, HasSlash, Void
  <2>2. CASE Len(n) # 1
    <3>1. Plain(d)
      BY <1>1, <2>2, DirOfPlain
    <3>. QED  BY <3>1, PlainIs, PlainFirst DEF Plain
  <2>. QED  BY <2>1, <2>2
<1>3. Join(<<d, l>>) = Clean(Raw(d, l))
  <2>1. Dot \in Path /\ Dot # Empty
    BY Constants DEF Dot, Empty
  <2>. QED  BY <1>2, JoinedTwo
<1>. QED  BY <1>1, <1>2, <1>3

(* What a symbolic link leads to, as Target has it and as Resolve does.    *)
LEMMA LinkSame ==
  ASSUME Unwritten, Straight, NEW f \in Nat \ {0}, NEW n, Plain(n), IsSymlink(n), NEW q \in Path
  PROVE  From(f, <<>>, n \o q) = From(f - 1, <<>>, Target(Entry(n)) \o q)
<1>1. PICK l \in Path, t \in Path, g \in Nat :
        l = Entry(n).header.link /\ t = Target(Entry(n)) /\ g = f - 1
  BY EntryTyped, TargetType DEF IsSymlink
<1>2. Has(n) /\ Entry(n).header.type = "symlink"
  BY DEF IsSymlink
<1>3. /\ \A k \in 1..(Len(n) - 1) : ~IsSymlink(SubSeq(n, 1, k))
      /\ Plain(t) /\ (~IsAbs(l) => Climbs(l)) /\ Entry(n).dir = DirOf(n)
  BY <1>1, <1>2, StraightAt DEF IsLink
<1>4. /\ Clear(Front(n))
      /\ From(f, <<>>, n \o q) = From(g, IF IsAbs(l) THEN <<>> ELSE Front(n), l \o q)
  BY <1>1, <1>3, ThroughLink
<1>5. CASE IsAbs(l)
  <2>1. normalize(l) = t
    BY <1>1, <1>5 DEF Target
  <2>2. PICK i : Padded(l, t, i)
    BY <2>1, NormalizePadded
  <2>3. From(g, <<>>, l \o q) = From(g, <<>>, t \o q)
    BY <1>3, <2>2, PaddedSame
  <2>. QED  BY <1>1, <1>4, <1>5, <2>3
<1>6. CASE ~IsAbs(l)
  <2>1. t = Join(<<DirOf(n), l>>)
    BY <1>1, <1>2, <1>3, <1>6 DEF Target
  <2>2. t = Clean(Raw(DirOf(n), l))
    BY <2>1, DirIs
  <2>3. From(g, Front(n), l \o q) = From(g, <<>>, t \o q)
    BY <1>3, <1>4, <1>6, <2>2, RelativeSame
  <2>. QED  BY <1>1, <1>4, <1>6, <2>3
<1>. QED  BY <1>5, <1>6

(* What has a slash is not empty.                                          *)
LEMMA NotEmpty == ASSUME NEW p \in Path, HasSlash(p) PROVE p # Empty
<1>1. PICK n : n = Len(p) /\ n > 1
  BY DEF HasSlash
<1>2. PICK u \in Path : u = Empty /\ Len(u) = 1
  BY Constants DEF Empty
<1>3. n # 1
  BY <1>1
<1>. QED  BY <1>1, <1>2, <1>3

(* A name behind a slash.                                                  *)
LEMMA SlashedType == ASSUME NEW r, Plain(r) PROVE Slashed(r) \in Path /\ Slashed(r) # Empty
<1>1. PICK n \in Nat \ {0} : n = Len(r) /\ r \in Path
  BY PlainIs DEF Plain
<1>2. PICK one \in Path : one = Empty /\ Len(one) = 1
  BY Constants DEF Empty
<1>3. one \o r \in Path /\ Len(one \o r) = 1 + n
  <2>1. one \o r \in Path /\ Len(one \o r) = Len(one) + Len(r)
    BY <1>1, Concats
  <2>. QED  BY <1>1, <1>2, <2>1
<1>4. 1 + n # 1
  OBVIOUS
<1>5. one \o r # one
  BY <1>2, <1>3, <1>4
<1>. QED  BY <1>2, <1>3, <1>5 DEF Slashed

(* A name below an absolute link.                                          *)
LEMMA BelowAbsolute ==
  ASSUME NEW l \in Path, IsAbs(l), Plain(normalize(l)), NEW r, Plain(r)
  PROVE  normalize(Join(<<l, Slashed(r)>>)) = normalize(l) \o r
<1>1. l # <<>> /\ l # Empty
  BY SlashLong, NotEmpty DEF IsAbs
<1>2. PICK v \in Path : v = Slashed(r) /\ v # Empty
  BY SlashedType
<1>3. PICK w \in Path : w = l \o v
  BY ConcatType
<1>4. Join(<<l, v>>) = Clean(w)
  <2>1. Join(<<l, v>>) = Clean(Raw(l, v))
    BY <1>1, <1>2, JoinedTwo
  <2>. QED  BY <1>2, <1>3, <2>1 DEF Raw
<1>5. IsAbs(w) <=> IsAbs(l)
  BY <1>1, <1>3, AbsOn
<1>6. PICK e : IsCleaning(l, e)
  BY Cleaning
<1>7. Clean(w) = Cleaned(w, e[Len(l)] \o r)
  <2>1. IsAbs(l \o Slashed(r)) <=> IsAbs(l)
    BY <1>2, <1>3, <1>5
  <2>2. Clean(l \o Slashed(r)) = Cleaned(l \o Slashed(r), e[Len(l)] \o r)
    BY <1>6, <2>1, CleaningOn
  <2>. QED  BY <1>2, <1>3, <2>2
<1>8. PICK t \in Path : t = normalize(l) /\ Plain(t)
  BY NormalizeType
<1>9. PICK i : Padded(l, t, i)
  BY <1>8, NormalizePadded
<1>10. e[Len(l)] = t
  BY <1>6, <1>8, <1>9, CleaningPadded
<1>11. Plain(t \o r)
  BY <1>8, PlainConcat
<1>12. Clean(w) = Empty \o (t \o r)
  BY <1>5, <1>7, <1>10, <1>11 DEF Cleaned, Plain
<1>13. normalize(Empty \o (t \o r)) = t \o r
  BY <1>11, NormalizeRooted
<1>. QED  BY <1>2, <1>4, <1>8, <1>12, <1>13

(* A name below a relative one, and the directory the link is in.          *)
LEMMA BelowRelative ==
  ASSUME NEW d \in Path, d # <<>>, d # Empty, d[1] # Void, NEW l \in Path,
         Plain(Clean(Raw(d, l))), NEW r, Plain(r)
  PROVE  Join(<<d, l, Slashed(r)>>) = Clean(Raw(d, l)) \o r
<1>0. PICK t : t = Clean(Raw(d, l)) /\ Plain(t)
  OBVIOUS
<1>1. PICK v \in Path : v = Slashed(r) /\ v # Empty
  BY SlashedType
<1>2. PICK p \in Path : p = Raw(d, l) /\ p # <<>>
  BY JoinedTwo
<1>3. p[1] # Void
  <2>1. CASE l = Empty
    BY <1>2, <2>1 DEF Raw
  <2>2. CASE l # Empty
    <3>1. p = d \o l
      BY <1>2, <2>2 DEF Raw
    <3>2. PICK n \in Nat \ {0} : n = Len(d)
      BY PathIs, FrontLast
    <3>3. 1 \in 1..n
      OBVIOUS
    <3>4. p[1] = d[1]
      BY <3>1, <3>2, <3>3, Concats
    <3>. QED  BY <3>4
  <2>. QED  BY <2>1, <2>2
<1>4. PICK w \in Path : w = p \o v
  BY ConcatType
<1>5. ~IsAbs(p) /\ ~IsAbs(w)
  BY <1>2, <1>3, <1>4, AbsOn
<1>6. PICK e : IsCleaning(p, e) /\ Clean(p) = Cleaned(p, e[Len(p)])
  BY Cleaning
<1>7. e[Len(p)] = t
  <2>1. t # Dot
    BY <1>0, PlainIs
  <2>. QED  BY <1>0, <1>2, <1>5, <1>6, <2>1 DEF Cleaned
<1>8. Clean(w) = Cleaned(w, e[Len(p)] \o r)
  <2>1. IsAbs(p \o Slashed(r)) <=> IsAbs(p)
    BY <1>1, <1>4, <1>5
  <2>2. Clean(p \o Slashed(r)) = Cleaned(p \o Slashed(r), e[Len(p)] \o r)
    BY <1>6, <2>1, CleaningOn
  <2>. QED  BY <1>1, <1>4, <2>2
<1>9. t \o r # <<>>
  BY <1>0, PlainConcat DEF Plain
<1>10. Clean(w) = t \o r
  BY <1>5, <1>7, <1>8, <1>9 DEF Cleaned
<1>11. Join(<<d, l, v>>) = Clean(w)
  <2>1. Join(<<d, l, v>>) = Clean(Raw(d, l) \o v)
    BY <1>1, Joined
  <2>. QED  BY <1>2, <1>4, <2>1
<1>. QED  BY <1>0, <1>1, <1>10, <1>11

(* Where open goes from a name below a symbolic link: to what the link     *)
(* leads to, and on from there.                                            *)
LEMMA GotoSame ==
  ASSUME Unwritten, Straight, NEW n, Plain(n), IsSymlink(n), NEW r, Plain(r)
  PROVE  LET l == Entry(n).header.link
             t == Target(Entry(n))
         IN  /\ Plain(t) /\ Plain(t \o r)
             /\ IsAbs(l) => normalize(Join(<<l, Slashed(r)>>)) = t \o r
             /\ ~IsAbs(l) => Join(<<Entry(n).dir, l, Slashed(r)>>) = t \o r
<1>1. PICK l \in Path, t \in Path : l = Entry(n).header.link /\ t = Target(Entry(n))
  BY EntryTyped, TargetType DEF IsSymlink
<1>2. Plain(t) /\ Entry(n).dir = DirOf(n)
  <2>1. Has(n) /\ IsLink(n)
    BY DEF IsSymlink, IsLink
  <2>. QED  BY <1>1, <2>1, StraightAt
<1>3. Plain(t \o r)
  BY <1>2, PlainConcat
<1>4. ASSUME IsAbs(l) PROVE normalize(Join(<<l, Slashed(r)>>)) = t \o r
  <2>1. normalize(l) = t
    BY <1>1, <1>4 DEF Target
  <2>. QED  BY <1>2, <1>4, <2>1, BelowAbsolute
<1>5. ASSUME ~IsAbs(l) PROVE Join(<<Entry(n).dir, l, Slashed(r)>>) = t \o r
  <2>1. PICK d \in Path : /\ d = DirOf(n) /\ d # <<>> /\ d # Empty /\ d[1] # Void
                          /\ Join(<<d, l>>) = Clean(Raw(d, l))
    BY DirIs
  <2>2. Entry(n).header.type = "symlink"
    BY DEF IsSymlink
  <2>3. t = Join(<<Entry(n).dir, l>>)
    BY <1>1, <1>5, <2>2 DEF Target
  <2>4. t = Clean(Raw(d, l))
    BY <1>2, <2>1, <2>3
  <2>5. Join(<<d, l, Slashed(r)>>) = t \o r
    BY <1>2, <2>1, <2>4, BelowRelative
  <2>. QED  BY <1>2, <2>1, <2>5
<1>. QED  BY <1>1, <1>2, <1>3, <1>4, <1>5

(* A name leads to its entry, if nothing in front of it is a link.         *)
LEMMA LeadsToEntry ==
  ASSUME Unwritten, NEW f \in Nat \ {0}, NEW n, Plain(n),
         \A k \in 1..(Len(n) - 1) : ~IsSymlink(SubSeq(n, 1, k)), ~IsSymlink(n)
  PROVE  From(f, <<>>, n) = IF ~Has(n) THEN -1
                            ELSE IF Entry(n).header.type = "link"
                              THEN From(f - 1, <<>>, Entry(n).header.link)
                            ELSE Entry(n).offset
<1>1. Clear(n) /\ n \in Path /\ n # <<>>
  BY ClearAll DEF Plain
<1>2. PICK r \in Path : r = <<>> /\ n \o r = n
  BY <1>1, Constants, Concats
<1>3. From(f, <<>>, n \o r) = From(f, n, r)
  BY <1>1, WalksTo
<1>. QED  BY <1>1, <1>2, <1>3, AtEnd

(* A link to a file leads where its target does.                           *)
LEMMA FollowsLink ==
  ASSUME Unwritten, Straight, NEW f \in Nat \ {0}, NEW n, Plain(n), Has(n), IsLink(n)
  PROVE  /\ Plain(Target(Entry(n)))
         /\ From(f, <<>>, n) = From(f - 1, <<>>, Target(Entry(n)))
<1>1. PICK l \in Path, t \in Path, g \in Nat :
        l = Entry(n).header.link /\ t = Target(Entry(n)) /\ g = f - 1
  BY EntryTyped, TargetType
<1>2. Plain(t) /\ \A k \in 1..(Len(n) - 1) : ~IsSymlink(SubSeq(n, 1, k))
  BY <1>1, StraightAt
<1>3. PICK r \in Path : r = <<>> /\ \A p \in Path : p \o r = p
  BY Constants, Concats
<1>4. CASE Entry(n).header.type = "symlink"
  <2>1. From(f, <<>>, n \o r) = From(f - 1, <<>>, Target(Entry(n)) \o r)
    BY <1>4, LinkSame DEF IsSymlink
  <2>2. n \o r = n /\ t \o r = t
    BY <1>3 DEF Plain
  <2>. QED  BY <1>1, <1>2, <2>1, <2>2
<1>5. CASE Entry(n).header.type # "symlink"
  <2>1. Entry(n).header.type = "link" /\ ~IsSymlink(n)
    BY <1>5 DEF IsLink, IsSymlink
  <2>2. From(f, <<>>, n) = From(g, <<>>, l)
    BY <1>1, <1>2, <2>1, LeadsToEntry
  <2>3. t = normalize(l)
    BY <1>1, <2>1 DEF Target
  <2>4. PICK i : Padded(l, t, i)
    BY <2>3, NormalizePadded
  <2>5. From(g, <<>>, l \o r) = From(g, <<>>, t \o r)
    BY <1>2, <2>4, PaddedSame
  <2>. QED  BY <1>1, <1>2, <1>3, <2>2, <2>5
<1>. QED  BY <1>4, <1>5

(* And so does a name below a link to a directory.                         *)
LEMMA FollowsDir ==
  ASSUME Unwritten, Straight, NEW f \in Nat \ {0}, NEW n, Plain(n), NEW i \in 1..(Len(n) - 1),
         IsSymlink(SubSeq(n, 1, i))
  PROVE  LET e == Entry(SubSeq(n, 1, i))
             l == e.header.link
             v == Slashed(SubSeq(n, i + 1, Len(n)))
             t == IF IsAbs(l) THEN normalize(Join(<<l, v>>)) ELSE Join(<<e.dir, l, v>>)
         IN  Plain(t) /\ From(f, <<>>, n) = From(f - 1, <<>>, t)
<1>1. PICK m \in Nat : m = Len(n) /\ n \in Path /\ n \in Seq(Element) /\ i \in 1..(m - 1)
  BY PlainIs DEF Plain
<1>2. PICK d, r : d = SubSeq(n, 1, i) /\ r = SubSeq(n, i + 1, m)
  OBVIOUS
<1>3. Plain(d)
  <2>1. i \in 0..Len(n) /\ i # 0
    BY <1>1
  <2>2. d \in Path /\ Len(d) = i /\ \A k \in 1..i : d[k] = n[k]
    BY <1>1, <1>2, <2>1, Firsts
  <2>3. \A k \in 1..i : k \in 1..m
    BY <1>1
  <2>4. d # <<>>
    BY <2>1, <2>2
  <2>. QED  BY <1>1, <2>2, <2>3, <2>4 DEF Plain
<1>4. Plain(r)
  <2>1. i + 1 \in Int /\ m \in Int /\ \A k \in (i + 1)..m : n[k] \in Element /\ k \in 1..m
    BY <1>1, PathIs
  <2>2. /\ r \in Seq(Element)
        /\ Len(r) = IF i + 1 <= m THEN m - (i + 1) + 1 ELSE 0
        /\ \A k \in 1..(m - (i + 1) + 1) : r[k] = n[(i + 1) + k - 1]
    BY <1>2, <2>1, SubSeqProperties
  <2>3. PICK j \in Nat \ {0} : j = m - (i + 1) + 1 /\ i + 1 <= m
    <3>1. i \in 1..(m - 1)
      BY <1>1
    <3>2. m - (i + 1) + 1 \in Nat \ {0} /\ i + 1 <= m
      BY <3>1
    <3>. QED  BY <3>2
  <2>4. \A k \in 1..j : (i + 1) + k - 1 \in 1..m
    BY <1>1, <2>3
  <2>5. \A k \in 1..j : r[k] \notin {"", ".", ".."}
    BY <1>1, <2>2, <2>3, <2>4 DEF Plain
  <2>6. r # <<>> /\ r \in Path
    BY <2>2, <2>3, IsPath
  <2>. QED  BY <2>2, <2>3, <2>5, <2>6 DEF Plain
<1>5. n = d \o r
  <2>1. /\ 1 \in 1..(Len(n) + 1) /\ i \in (1 - 1)..Len(n) /\ m \in i..Len(n)
    BY <1>1
  <2>2. SubSeq(n, 1, i) \o SubSeq(n, i + 1, m) = SubSeq(n, 1, m)
    BY <1>1, <2>1, ConcatAdjacentSubSeq
  <2>3. SubSeq(n, 1, m) = n
    BY <1>1, SubSeqFull
  <2>. QED  BY <1>2, <2>2, <2>3
<1>6. PICK t : t = Target(Entry(d))
  OBVIOUS
<1>7. /\ Plain(t) /\ Plain(t \o r)
      /\ IsAbs(Entry(d).header.link) => normalize(Join(<<Entry(d).header.link, Slashed(r)>>)) = t \o r
      /\ ~IsAbs(Entry(d).header.link) => Join(<<Entry(d).dir, Entry(d).header.link, Slashed(r)>>) = t \o r
  BY <1>2, <1>3, <1>4, <1>6, GotoSame
<1>8. From(f, <<>>, d \o r) = From(f - 1, <<>>, t \o r)
  <2>1. r \in Path /\ IsSymlink(d)
    BY <1>2, <1>4 DEF Plain
  <2>. QED  BY <1>3, <1>6, <2>1, LinkSame
<1>. QED  BY <1>1, <1>2, <1>5, <1>7, <1>8

---------------------------------------------------------------------------
(* Open *)

(* A file opened is where the name asked for leads, an error where that    *)
(* leads nowhere.                                                          *)
Exact(f, a) == IF Resolved(a) = -1 THEN ~IsFile(f) ELSE f.offset = Resolved(a)

(* What open is at leads where the name it was asked for does.             *)
Opens ==
  /\ pc = "walk" => file = NoFile
  /\ Straight =>
       /\ pc = "open" => Plain(name) /\ From(MaxHops + 1 - hops, <<>>, name) = Resolved(asked)
       /\ OpenExact

(* Nothing writes to the FS, so names lead where they have led.            *)
LEMMA SameResolve == ASSUME fsys' = fsys PROVE Resolve' = Resolve
  BY DEF Resolve, Has, Entry

(* And a tar is as straight as it was; names asked for in one are valid.   *)
LEMMA SameStraight ==
  ASSUME fsys' = fsys
  PROVE  /\ asked' = asked => (Straight' <=> Straight)
         /\ Straight' => ValidPath(asked')
  BY DEF Straight, IsLink, IsSymlink, Has, Entry

(* So it suffices to say where a step of open leads.                       *)
LEMMA OpensOn ==
  ASSUME fsys' = fsys, NEW n, n = name', NEW h, h = hops', NEW a, a = asked', NEW g, g = file',
         pc' = "walk" => g = NoFile,
         Straight' =>
           /\ pc' = "open" => Plain(n) /\ From(MaxHops + 1 - h, <<>>, n) = Resolved(a)
           /\ pc' = "idle" /\ g # NoFile /\ a # Dot => Exact(g, a)
  PROVE  Opens'
<1>1. Resolve' = Resolve
  BY SameResolve
<1>2. Straight' =>
        /\ pc' = "open" => Plain(name') /\ (From(MaxHops + 1 - hops, <<>>, name))' = (Resolved(asked))'
        /\ OpenExact'
  BY <1>1 DEF OpenExact, Exact, From, Resolved
<1>. QED  BY <1>2 DEF Opens

(* While open is under way.                                                *)
LEMMA OpensAt ==
  ASSUME Unwritten, VarsType, Opens, pc = "open", Straight
  PROVE  \E f \in Nat : /\ f = MaxHops + 1 - hops /\ (f = 0 <=> TooDeep)
                        /\ MaxHops + 1 - (hops + 1) = f - 1
                        /\ Plain(name) /\ From(f, <<>>, name) = Resolved(asked)
<1>1. PICK h \in 0..(MaxHops + 1) : h = hops
  BY DEF VarsType
<1>2. MaxHops \in Nat
  BY NoHops
<1>3. PICK f \in Nat : f = MaxHops + 1 - h
  BY <1>1, <1>2
<1>4. (f = 0 <=> h > MaxHops) /\ MaxHops + 1 - (h + 1) = f - 1
  BY <1>1, <1>2, <1>3
<1>. QED  BY <1>1, <1>3, <1>4 DEF TooDeep, Opens

(* It returns the file it has come to, or what says why there is none.     *)
LEMMA OpenedOpens ==
  ASSUME Unwritten, VarsType, Opens, pc = "open", fsys' = fsys, UNCHANGED openVars,
         NEW g, Opened(g), Straight => Exact(g, asked)
  PROVE  Opens'
<1>1. asked' = asked /\ pc' = "idle" /\ g = file'
  BY DEF openVars, Opened
<1>2. Straight' => Straight
  BY <1>1, SameStraight
<1>. QED  BY <1>1, <1>2, OpensOn

(* No file has one of the offsets that say why.                            *)
LEMMA NoFiles == ~IsFile(NotExist) /\ ~IsFile(TooMany)
BY DEF IsFile, NotExist, TooMany, NoEntry

(* A link that is followed leads where the name did.                       *)
LEMMA GotoOpens ==
  ASSUME Unwritten, VarsType, Opens, pc = "open", NEW n, Goto(n),
         Straight => Plain(n) /\ From(MaxHops + 1 - (hops + 1), <<>>, n) = Resolved(asked)
  PROVE  Opens'
<1>1. /\ fsys' = fsys /\ asked' = asked /\ pc' = "open" /\ n = name'
      /\ hops + 1 = hops'
  BY DEF Goto
<1>2. Straight' => Straight
  BY <1>1, SameStraight
<1>. QED  BY <1>1, <1>2, OpensOn

(* Where there is no first directory that is a symbolic link, there is     *)
(* none.                                                                   *)
LEMMA NoneLinked ==
  ASSUME NEW n \in Nat, n = Len(name) - 1, \A i \in 1..n : ~LinkedDir(i)
  PROVE  \A k \in 1..n : ~IsSymlink(SubSeq(name, 1, k))
<1>. DEFINE S == {k \in Nat : \A j \in 1..n : j <= k => ~IsSymlink(SubSeq(name, 1, j))}
<1>1. 0 \in S
  OBVIOUS
<1>2. ASSUME NEW k \in Nat, k \in S PROVE k + 1 \in S
  <2>. SUFFICES ASSUME NEW j \in 1..n, j <= k + 1 PROVE ~IsSymlink(SubSeq(name, 1, j))
    OBVIOUS
  <2>1. \A i \in 1..(j - 1) : i \in 1..n /\ i <= k
    OBVIOUS
  <2>2. \A i \in 1..(j - 1) : ~IsSymlink(SubSeq(name, 1, i))
    BY <1>2, <2>1
  <2>3. ~LinkedDir(j)
    OBVIOUS
  <2>. QED  BY <2>2, <2>3 DEF LinkedDir
<1>. HIDE DEF S
<1>3. n \in S
  BY <1>1, <1>2, Induction
<1>4. \A k \in 1..n : k <= n
  OBVIOUS
<1>. QED  BY <1>3, <1>4 DEF S

(* Every step of open keeps to it.                                         *)
LEMMA OpensStep ==
  ASSUME Unwritten, VarsType, Opens,
         TooManyLinks \/ Found \/ FollowLink \/ FollowDir \/ Missing
  PROVE  Opens'
<1>1. CASE TooManyLinks
  <2>1. ASSUME Straight PROVE Exact(TooMany, asked)
    <3>1. PICK f \in Nat : f = 0 /\ Plain(name) /\ From(f, <<>>, name) = Resolved(asked)
      BY <1>1, <2>1, OpensAt DEF TooManyLinks
    <3>2. Resolved(asked) = -1
      BY <3>1, NoFuel, Constants DEF Plain
    <3>. QED  BY <3>2, NoFiles DEF Exact
  <2>. QED  BY <1>1, <2>1, OpenedOpens DEF TooManyLinks
<1>2. CASE Found
  <2>1. ASSUME Straight PROVE Exact(Entry(name), asked)
    <3>1. Has(name) /\ Entry(name).header.type \in {"file", "dir"} /\ pc = "open" /\ ~TooDeep
      BY <1>2 DEF Found, At
    <3>2. PICK f \in Nat \ {0} : Plain(name) /\ From(f, <<>>, name) = Resolved(asked)
      BY <2>1, <3>1, OpensAt
    <3>3. /\ \A k \in 1..(Len(name) - 1) : ~IsSymlink(SubSeq(name, 1, k))
          /\ Entry(name).offset \in Nat
      BY <2>1, <3>1, <3>2, StraightAt
    <3>4. ~IsSymlink(name) /\ Entry(name).header.type # "link"
      BY <3>1 DEF IsSymlink
    <3>5. Resolved(asked) = Entry(name).offset
      BY <3>1, <3>2, <3>3, <3>4, LeadsToEntry
    <3>6. Entry(name).offset # -1
      BY <3>3
    <3>. QED  BY <3>5, <3>6 DEF Exact
  <2>. QED  BY <1>2, <2>1, OpenedOpens DEF Found, At
<1>3. CASE Missing
  <2>1. ASSUME Straight PROVE Exact(NotExist, asked)
    <3>1. ~Has(name) /\ pc = "open" /\ ~TooDeep
      BY <1>3 DEF Missing
    <3>2. PICK f \in Nat \ {0} : Plain(name) /\ From(f, <<>>, name) = Resolved(asked)
      BY <2>1, <3>1, OpensAt
    <3>3. \A k \in 1..(Len(name) - 1) : ~IsSymlink(SubSeq(name, 1, k))
      <4>1. PICK m \in Nat \ {0} : m = Len(name)
        BY <3>2, PlainIs
      <4>2. PICK k \in Nat : k = Len(name) - 1
        BY <4>1
      <4>3. \A i \in 1..k : ~LinkedDir(i)
        BY <1>3, <4>2 DEF Missing
      <4>. QED  BY <4>2, <4>3, NoneLinked
    <3>4. ~IsSymlink(name)
      BY <3>1 DEF IsSymlink
    <3>5. Resolved(asked) = -1
      BY <3>1, <3>2, <3>3, <3>4, LeadsToEntry
    <3>. QED  BY <3>5, NoFiles DEF Exact
  <2>. QED  BY <1>3, <2>1, OpenedOpens DEF Missing
<1>4. CASE FollowLink
  <2>1. /\ pc = "open" /\ ~TooDeep /\ Has(name) /\ IsLink(name)
        /\ Goto(Target(Entry(name)))
    BY <1>4 DEF FollowLink, At, IsLink
  <2>2. ASSUME Straight
        PROVE  /\ Plain(Target(Entry(name)))
               /\ From(MaxHops + 1 - (hops + 1), <<>>, Target(Entry(name))) = Resolved(asked)
    <3>1. PICK f \in Nat \ {0} : /\ MaxHops + 1 - (hops + 1) = f - 1 /\ Plain(name)
                                 /\ From(f, <<>>, name) = Resolved(asked)
      BY <2>1, <2>2, OpensAt
    <3>. QED  BY <2>1, <2>2, <3>1, FollowsLink
  <2>. QED  BY <2>1, <2>2, GotoOpens
<1>5. CASE FollowDir
  <2>1. PICK i \in 1..(Len(name) - 1) :
          /\ LinkedDir(i)
          /\ LET e    == Entry(SubSeq(name, 1, i))
                 link == e.header.link
             IN  Goto(IF IsAbs(link) THEN normalize(Join(<<link, Rest(i)>>))
                                     ELSE Join(<<e.dir, link, Rest(i)>>))
    BY <1>5 DEF FollowDir
  <2>2. pc = "open" /\ ~TooDeep /\ IsSymlink(SubSeq(name, 1, i))
    BY <1>5, <2>1 DEF FollowDir, LinkedDir
  <2>3. Rest(i) = Slashed(SubSeq(name, i + 1, Len(name)))
    BY DEF Rest, Slashed
  <2>4. PICK t : /\ Goto(t)
                 /\ t = LET e == Entry(SubSeq(name, 1, i))
                            l == e.header.link
                            v == Slashed(SubSeq(name, i + 1, Len(name)))
                        IN  IF IsAbs(l) THEN normalize(Join(<<l, v>>)) ELSE Join(<<e.dir, l, v>>)
    BY <2>1, <2>3
  <2>5. ASSUME Straight
        PROVE  Plain(t) /\ From(MaxHops + 1 - (hops + 1), <<>>, t) = Resolved(asked)
    <3>1. PICK f \in Nat \ {0} : /\ MaxHops + 1 - (hops + 1) = f - 1 /\ Plain(name)
                                 /\ From(f, <<>>, name) = Resolved(asked)
      BY <2>2, <2>5, OpensAt
    <3>2. Plain(t) /\ From(f, <<>>, name) = From(f - 1, <<>>, t)
      BY <2>2, <2>4, <2>5, <3>1, FollowsDir
    <3>. QED  BY <3>1, <3>2
  <2>. QED  BY <2>2, <2>4, <2>5, GotoOpens
<1>. QED  BY <1>1, <1>2, <1>3, <1>4, <1>5

(* And so does every other step.                                           *)
LEMMA AlwaysOpens == Spec => []Opens
<1>1. Init => Opens
  BY DEF Init, Opens, OpenExact
<1>2. Unwritten /\ VarsType /\ Opens /\ [Next]_vars => Opens'
  <2>. SUFFICES ASSUME Unwritten, VarsType, Opens, [Next]_vars PROVE Opens'
    OBVIOUS
  <2>1. CASE Open
    <3>1. PICK p \in Paths \ {Dot} : p = asked' /\ p = name' /\ hops' = 0 /\ pc' = "open" /\ fsys' = fsys
      BY <2>1 DEF Open
    <3>2. Straight' => Plain(p)
      BY <3>1, SameStraight, PlainValid, TarsAssumption
    <3>3. MaxHops + 1 - 0 = MaxHops + 1
      BY NoHops
    <3>4. From(MaxHops + 1 - 0, <<>>, p) = Resolved(p)
      BY <3>3 DEF From, St, Resolved
    <3>. QED  BY <3>1, <3>2, <3>4, OpensOn
  <2>2. CASE OpenRoot
    BY <2>2, OpensOn DEF OpenRoot, Opened
  <2>3. CASE Walk
    BY <2>3, OpensOn DEF Walk, fileVars
  <2>4. CASE Visit \/ Walked \/ FileReadDir \/ UNCHANGED vars
    <3>1. /\ fsys' = fsys /\ UNCHANGED openVars /\ file' = file
          /\ pc' = pc \/ (pc = "walk" /\ pc' = "idle")
      BY <2>4 DEF Visit, Walked, FileReadDir, fileVars, vars
    <3>. QED  BY <3>1, SameStraight, OpensOn DEF Opens, OpenExact, Exact, openVars
  <2>. QED  BY <2>1, <2>2, <2>3, <2>4, OpensStep DEF Next, Work
<1>. QED  BY <1>1, <1>2, NeverWritten, VarsTyped, PTL DEF Spec

(* Open finds the entry that resolving the path component by component     *)
(* leads to, through any number of links to files and to directories, and  *)
(* nothing if that leads nowhere or around in a circle, if the name asked  *)
(* for is valid and the tar is straight (tarfs.go:188-241).                *)
THEOREM OpensExactly == Spec => [](Straight => OpenExact)
<1>1. Opens => (Straight => OpenExact)
  BY DEF Opens
<1>. QED  BY <1>1, AlwaysOpens, PTL
=============================================================================
