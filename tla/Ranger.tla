------------------------------- MODULE Ranger -------------------------------
(***************************************************************************)
(* ranger.Reader (ranger/ranger.go): an io.ReaderAt over HTTP range        *)
(* requests.  A redirect is followed by hand, by storing its target in     *)
(* r.uri and calling ReadAt again, so that later calls skip it.            *)
(*                                                                         *)
(* Nothing guards r.uri.  A Go string is two words, the address and the    *)
(* length, loaded and stored one by one: of strings of different lengths,  *)
(* a call that races with a store may see a mixture.                       *)
(*                                                                         *)
(* The servers are external: each URL has an answer, which does not        *)
(* change, and now and then a request fails.  What is at the end of a      *)
(* redirect is the same file, so a body's contents are left out.           *)
(***************************************************************************)
EXTENDS Naturals

CONSTANTS
  Caller,    \* goroutines that call ReadAt
  Url,       \* the URLs there are
  Starts,    \* the URLs given to New
  Answer,    \* of each URL: [status, to], "partial", "moved" or "other"
  StrLen,    \* the length of each URL's string
  NoUrl,     \* what a mixture of two strings denotes
  MaxFaults  \* bound: requests that fail

VARIABLES
  uri,     \* r.uri: [ptr, len], each named for the URL it belongs to
  st,      \* where c is in ReadAt
  held,    \* the URL c requests, or is about to store
  ret,     \* the error of c's last ReadAt
  faults   \* how many requests have failed

vars == <<uri, st, held, ret, faults>>

States  == {"idle", "load", "loaded", "sent", "store", "stored"}
Str     == [ptr : Url, len : Url]
Whole(u) == [ptr |-> u, len |-> u]

Init ==
  /\ \E u \in Starts : uri = Whole(u) /\ held = [c \in Caller |-> Whole(u)]
  /\ st = [c \in Caller |-> "idle"]
  /\ ret = [c \in Caller |-> "nil"]
  /\ faults = 0

Goes(c, from, to) == st[c] = from /\ st' = [st EXCEPT ![c] = to]

Returns(c, e) ==
  /\ Goes(c, "sent", "idle")
  /\ ret' = [ret EXCEPT ![c] = e]
  /\ UNCHANGED <<uri, held>>

Call(c) == Goes(c, "idle", "load") /\ UNCHANGED <<uri, held, ret, faults>>

(* NewRequestWithContext(r.ctx, "GET", r.uri, nil) *)
LoadPtr(c) ==
  /\ Goes(c, "load", "loaded")
  /\ held' = [held EXCEPT ![c].ptr = uri.ptr]
  /\ UNCHANGED <<uri, ret, faults>>

LoadLen(c) ==
  /\ Goes(c, "loaded", "sent")
  /\ held' = [held EXCEPT ![c].len = uri.len]
  /\ UNCHANGED <<uri, ret, faults>>

Requested(c) == IF StrLen[held[c].ptr] = StrLen[held[c].len] THEN held[c].ptr ELSE NoUrl

(* The answer, of which a mixture may get any that is not a redirect.      *)
Answers(c, status) ==
  IF Requested(c) \in Url THEN Answer[Requested(c)].status = status ELSE status # "moved"

Partial(c) == Answers(c, "partial") /\ Returns(c, "nil") /\ UNCHANGED faults

(* Neither 206 nor a redirect. *)
Refused(c) == Answers(c, "other") /\ Returns(c, "refused") /\ UNCHANGED faults

(* RoundTrip fails, or the body is short and ReadFull does.                *)
Fails(c) ==
  /\ faults < MaxFaults /\ faults' = faults + 1
  /\ \/ Returns(c, "transport")
     \/ Answers(c, "partial") /\ Returns(c, "short")

(* The target is relative to what was requested, not to what r.uri is now. *)
Moved(c) ==
  /\ Answers(c, "moved")
  /\ Goes(c, "sent", "store")
  /\ held' = [held EXCEPT ![c] = Whole(Answer[Requested(c)].to)]
  /\ UNCHANGED <<uri, ret, faults>>

StorePtr(c) ==
  /\ Goes(c, "store", "stored")
  /\ uri' = [uri EXCEPT !.ptr = held[c].ptr]
  /\ UNCHANGED <<held, ret, faults>>

StoreLen(c) ==
  /\ Goes(c, "stored", "load")
  /\ uri' = [uri EXCEPT !.len = held[c].len]
  /\ UNCHANGED <<held, ret, faults>>

Inside(c) == LoadPtr(c) \/ LoadLen(c) \/ Moved(c) \/ StorePtr(c) \/ StoreLen(c)
Ends(c) == Partial(c) \/ Refused(c) \/ Fails(c)

Next == \E c \in Caller : Call(c) \/ Inside(c) \/ Ends(c)

Spec == Init /\ [][Next]_vars

---------------------------------------------------------------------------
(* Properties *)

TypeOK ==
  /\ uri \in Str /\ held \in [Caller -> Str]
  /\ st \in [Caller -> States]
  /\ ret \in [Caller -> {"nil", "refused", "transport", "short"}]
  /\ faults \in 0..MaxFaults

(* r.uri is never stored while another call may load it: the one write of  *)
(* ReadAt (ranger.go:60) races with nothing.                               *)
NoRace ==
  \A c, d \in Caller : c # d /\ st[c] \in {"store", "stored"} => st[d] = "idle"
=============================================================================
