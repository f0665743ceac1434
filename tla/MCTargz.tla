------------------------------ MODULE MCTargz ------------------------------
(***************************************************************************)
(* Two goroutines read files of a tar behind two redirects, to URLs of     *)
(* other lengths, or at a URL that does not answer.  The tar is whole, cut *)
(* off behind a file's data or within it, or has half an end marker.       *)
(***************************************************************************)
EXTENDS Targz

A(data, size, length) == [data |-> data, size |-> size, length |-> length]

(* Compressed, the tars are no smaller than they are: all random bytes.    *)
Incompressible ==
  {A(<<1, 1>>, 12, 13), A(<<3>>, 5, 5), A(<<2, 2>>, 7, 8), A(<<>>, 2, 3)}

Compressible == {A(<<3, 0, 1>>, 16, 9), A(<<2, 2>>, 8, 4)}

MCAnswer ==
  [u \in Url |-> CASE u = "origin" -> [status |-> "moved", to |-> "mirror"]
                   [] u = "mirror" -> [status |-> "moved", to |-> "signed"]
                   [] u = "signed" -> [status |-> "partial", to |-> u]
                   [] OTHER        -> [status |-> "other", to |-> u]]
MCStrLen == [u \in Url |-> CASE u = "origin" -> 1 [] u = "mirror" -> 2 [] OTHER -> 3]
=============================================================================
