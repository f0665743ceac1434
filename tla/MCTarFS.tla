------------------------------ MODULE MCTarFS ------------------------------
(***************************************************************************)
(* Tars and names for TLC to run TarFS on.                                 *)
(***************************************************************************)
EXTENDS TarFS

Components == <<"", ".", "..", "a", "f", "l", "m", "x">>

Dir(n)        == [name |-> n, type |-> "dir", link |-> Empty]
File(n)       == [name |-> n, type |-> "file", link |-> Empty]
Link(n, to)   == [name |-> n, type |-> "link", link |-> to]
Symlink(n, to) == [name |-> n, type |-> "symlink", link |-> to]

(* A directory a with a file, a symbolic link in it and one beside it, and *)
(* a hard link; the root as an entry or not.                               *)
LinkTars ==
  {root \o <<Symlink(<<"l">>, l), Dir(<<".", "a", "">>), Symlink(<<"a", "m">>, m),
             File(<<"", "a", "f">>), Link(<<".", "x">>, x)>> :
     root \in {<<>>, <<Dir(<<".", "">>)>>},
     l \in {<<"a">>, <<"", "a">>, <<"", "a", "m">>, <<"l">>, <<"a", "m", "f">>},
     m \in {<<"f">>, <<"..", "l">>, <<"", "l", "f">>, <<".", "..", "a", "">>},
     x \in {<<"", "l", "f">>}}
  \cup {<<File(<<"x">>), Dir(<<"a">>), File(<<"a", "m">>), File(<<"a", "f">>), Link(<<"l">>, <<"a", "f">>),
         File(<<"a", "m">>)>>}   \* a name there twice

CountSet == {-1, 1, 2}

Names ==
  {Dot, <<"a">>, <<"a", "f">>, <<"l">>, <<"l", "f">>, <<"l", "m">>, <<"a", "m">>,
   <<"a", "m", "f">>, <<"l", "m", "m">>, <<"x">>, <<"m">>, <<"x", "f">>}
=============================================================================
