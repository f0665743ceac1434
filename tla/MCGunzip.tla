------------------------------ MODULE MCGunzip ------------------------------
(***************************************************************************)
(* Files for TLC to run Gunzip on: series of members, sound or with one    *)
(* flaw, whole or cut off at any token or within any.                      *)
(***************************************************************************)
EXTENDS Gunzip

T(k, flags, ok, sum, n) == [kind |-> k, flags |-> flags, ok |-> ok, sum |-> sum, size |-> n]
Plain(k) == T(k, {}, TRUE, <<>>, 0)

(* A member of n bytes whose header has the given optional fields.         *)
M(opts, n, flaw) == [opts |-> opts, n |-> n, flaw |-> flaw]

(* Its tokens, the first of which has index b + 1.                         *)
Member(b, m) ==
  LET h     == Len(m.opts) + 1
      wrong == <<0>>
      opt(i) == CASE m.opts[i] = "hcrc" ->
                       T("hcrc", {}, TRUE, IF m.flaw = "hcrc" THEN wrong ELSE Between(b + 1, b + 1 + i), 0)
                  [] OTHER -> T(m.opts[i], {}, m.flaw # m.opts[i], <<>>, 0)
  IN  <<T("fixed", ToSet(m.opts), m.flaw # "magic", <<>>, 0)>>
      \o [i \in 1..Len(m.opts) |-> opt(i)]
      \o [i \in 1..m.n |-> Plain("byte")]
      \o <<Plain(IF m.flaw = "corrupt" THEN "corrupt" ELSE "last"),
           T("trailer", {}, TRUE,
             IF m.flaw = "sum" THEN wrong ELSE Between(b + h + 1, b + h + m.n + 1),
             (IF m.flaw = "size" THEN m.n + 1 ELSE m.n) % SizeMod)>>

Series(ms) == FoldLeft(LAMBDA f, m : f \o Member(Len(f), m), <<>>, ms)

Truncations(f) ==
  {SubSeq(f, 1, k) : k \in 0..Len(f)} \cup
  {Append(SubSeq(f, 1, k), Plain("cut")) : k \in 0..(Len(f) - 1)}

All == Optional

(* An empty member and a flaw of each kind in any of three members.        *)
FlawedFiles ==
  UNION {Truncations(Series(<<M(<<"name">>, 3, f), M(<<>>, 0, g), M(All, 2, h)>>)) :
           <<f, g, h>> \in {<<"none", "none", "none">>, <<"sum", "none", "none">>,
             <<"size", "none", "none">>, <<"name", "none", "none">>,
             <<"corrupt", "none", "none">>, <<"none", "magic", "none">>,
             <<"none", "sum", "none">>, <<"none", "none", "hcrc">>,
             <<"none", "none", "comment">>, <<"none", "none", "size">>,
             <<"none", "none", "corrupt">>}}
=============================================================================
