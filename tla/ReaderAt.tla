----------------------------- MODULE ReaderAt -----------------------------
(***************************************************************************)
(* What gsip.Reader promises its callers: the io.ReaderAt of an            *)
(* uncompressed stream of Size bytes.  Any number of goroutines call       *)
(* ReadAt(p, off) concurrently; each call returns the bytes of the stream  *)
(* from off on, as many as fit in p, and io.EOF exactly when the stream    *)
(* ended before p was full.                                                *)
(*                                                                         *)
(* A byte of the stream is named by its position, so the contents of a     *)
(* buffer of n bytes read at off are <<off, off + 1, ..., off + n - 1>>.   *)
(***************************************************************************)
EXTENDS Naturals, Sequences

CONSTANTS
  Caller,   \* the goroutines that use the reader
  Size,     \* length of the uncompressed stream
  Offs,     \* offsets the callers ask for
  Lens      \* buffer lengths the callers pass

VARIABLES
  busy,     \* busy[c]: c is inside ReadAt
  call,     \* call[c]: arguments and, once ~busy[c], results of c's last call
  indexed,  \* does the reader have a checkpoint to start from?
  faulty    \* has the underlying io.ReaderAt ever returned an error?

vars == <<busy, call, indexed, faulty>>

Contents(off, n) == [i \in 1..n |-> off + i - 1]

(* A call that begins before the first checkpoint is there is early.       *)
Fresh(off, len, early) ==
  [off |-> off, len |-> len, early |-> early, data |-> <<>>, err |-> "nil"]

(***************************************************************************)
(* The results a call may have: n bytes and an error.                      *)
(*   nil        p is full                                                  *)
(*   EOF        a short read, and the bytes end where the stream ends      *)
(*   wrappedEOF the offset lies past the end (the code wraps the error, so *)
(*              it is not io.EOF itself)                                   *)
(*   notFound   an early call found neither a checkpoint nor an idle       *)
(*              decoder that could serve off                               *)
(*   io         the underlying reader failed, now or for an earlier call   *)
(***************************************************************************)
Allowed(off, len, early, n, err) ==
  \/ err = "nil" /\ n = len /\ off + len <= Size
  \/ err = "EOF" /\ n < len /\ off + n = Size
  \/ err = "wrappedEOF" /\ n = 0 /\ off > Size
  \/ err = "notFound" /\ n = 0 /\ early
  \/ err = "io" /\ faulty /\ n <= len /\ (n = 0 \/ off + n <= Size)

Init ==
  /\ busy = [c \in Caller |-> FALSE]
  /\ call = [c \in Caller |-> Fresh(0, 0, FALSE)]
  /\ indexed \in BOOLEAN
  /\ faulty = FALSE

Call(c) ==
  /\ ~busy[c]
  /\ \E off \in Offs, len \in Lens :
       call' = [call EXCEPT ![c] = Fresh(off, len, ~indexed)]
  /\ busy' = [busy EXCEPT ![c] = TRUE]
  /\ UNCHANGED <<indexed, faulty>>

Return(c) ==
  /\ busy[c]
  /\ \E n \in 0..call[c].len, err \in {"nil", "EOF", "wrappedEOF", "notFound", "io"} :
       /\ Allowed(call[c].off, call[c].len, call[c].early, n, err)
       /\ call' = [call EXCEPT ![c].data = Contents(call[c].off, n), ![c].err = err]
  /\ busy' = [busy EXCEPT ![c] = FALSE]
  /\ UNCHANGED <<indexed, faulty>>

Fault == faulty' = TRUE /\ UNCHANGED <<busy, call, indexed>>

Index == indexed' = TRUE /\ UNCHANGED <<busy, call, faulty>>

Next == Fault \/ Index \/ \E c \in Caller : Call(c) \/ Return(c)

Spec == Init /\ [][Next]_vars
=============================================================================
