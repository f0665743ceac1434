------------------------------ MODULE MCGsip ------------------------------
(***************************************************************************)
(* Streams for TLC to run Gsip on.  A checkpoint is written as             *)
(* M(out, emit) at the end of a block, H(out) behind a member's header and *)
(* T(out, emit) behind a member's final block.                             *)
(***************************************************************************)
EXTENDS Gsip

M(out, emit) == [out |-> out, emit |-> emit, header |-> FALSE, tail |-> FALSE]
H(out)       == [out |-> out, emit |-> out,  header |-> TRUE,  tail |-> FALSE]
T(out, emit) == [out |-> out, emit |-> emit, header |-> FALSE, tail |-> TRUE]

(* One member whose blocks end at 2 and 3, the last span being short.      *)
OneMember == <<H(0), M(2, 2)>>

(* The same, and the last block lies beyond the span: a checkpoint behind  *)
(* the final block.                                                        *)
LongTail == <<H(0), M(1, 1), T(2, 1)>>

(* Two members: 2 bytes with a checkpoint in the middle, then 1 byte.      *)
TwoMembers == <<H(0), M(1, 1), H(2)>>

(* Three members, the second one empty.                                    *)
EmptyMember == <<H(0), H(1), H(1), M(2, 2)>>
=============================================================================
