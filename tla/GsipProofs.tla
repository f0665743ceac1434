---------------------------- MODULE GsipProofs ----------------------------
(***************************************************************************)
(* Proofs about gsip.Reader (Gsip.tla), for every stream, every number of  *)
(* callers and calls, every capacity of the channel.                       *)
(***************************************************************************)
EXTENDS Gsip, SequenceTheorems, TLAPS

---------------------------------------------------------------------------
(* Type correctness *)

(* Marks holds checkpoints, and so does every prefix of it.                *)
LEMMA MarksLemma ==
  /\ Len(Marks) \in Nat \ {0}
  /\ \A i \in 1..Len(Marks) : Marks[i] \in Mark
  /\ \A k \in 0..Len(Marks) : SubSeq(Marks, 1, k) \in Seq(Mark)
<1>1. \A i \in 1..Len(Marks) : Marks[i] \in Mark
  BY ElementOfSeq, MarksAssumption
<1>2. \A k \in 0..Len(Marks) : SubSeq(Marks, 1, k) \in Seq(Mark)
  BY <1>1, SubSeqProperties, LenProperties, MarksAssumption
<1>3. Len(Marks) \in Nat \ {0}
  BY LenProperties, MarksAssumption
<1>. QED  BY <1>1, <1>2, <1>3

(* The initial states are typed.                                           *)
LEMMA TypeInit == Init => TypeOK
<1>. SUFFICES ASSUME Init PROVE TypeOK
  OBVIOUS
<1>1. /\ checkpoints \in Seq(Mark) /\ updates \in Seq(Mark) /\ Len(updates) <= ChanCap
      /\ sent \in 0..Len(Marks)
  <2>1. CASE InitNewReader
    <3>1. <<Marks[1]>> \in Seq(Mark) /\ Len(<<Marks[1]>>) = 1
      BY MarksLemma
    <3>. QED  BY <2>1, <3>1, MarksLemma, BoundsAssumption DEF InitNewReader
  <2>2. CASE InitDecode
    BY <2>2, MarksLemma, BoundsAssumption DEF InitDecode
  <2>. QED  BY <2>1, <2>2 DEF Init
<1>2. pool \in [ReaderId -> {"absent", "busy", "idle"}] /\ gor \in {"absent", "running"}
  BY DEF Init, InitDecode, InitNewReader
<1>3. zr \in [ReaderId -> [pos : Nat, err : Errors, tail : BOOLEAN]]
  BY DEF Init, Errors
<1>4. call \in [Caller -> CallType]
  BY DEF Init, Fresh, CallType, Errors
<1>5. saved \in [marks : Seq(Mark), quiet : BOOLEAN]
  BY DEF Init, NoIndex
<1>6. own \in [Caller -> ReaderId] /\ pc \in [Caller -> PC]
  BY BoundsAssumption DEF Init, Frontier, ReaderId, PC
<1>7. hand \in Seq(Mark) /\ Len(hand) <= 1
  BY DEF Init
<1>8. snap \in [Caller -> [len : Nat, quiet : BOOLEAN]] /\ seen \subseteq Nat
  BY DEF Init
<1>9. closed \in BOOLEAN /\ panicked \in BOOLEAN
  BY Zenon DEF Init
<1>10. calls \in 0..MaxCalls /\ faults \in 0..MaxFaults
  BY BoundsAssumption DEF Init
<1>. QED
  BY <1>1, <1>2, <1>3, <1>4, <1>5, <1>6, <1>7, <1>8, <1>9, <1>10 DEF TypeOK

(* The ways a call's record changes. *)
LEMMA CallErr ==
  ASSUME NEW f \in [Caller -> CallType], NEW c \in Caller,
         NEW e \in Errors \cup {"wrappedEOF", "notFound"}
  PROVE  [f EXCEPT ![c].err = e] \in [Caller -> CallType]
BY DEF CallType

(* Collecting bytes leaves the caller's record one.                        *)
LEMMA CallData ==
  ASSUME NEW f \in [Caller -> CallType], NEW c \in Caller, NEW d \in Seq(Nat)
  PROVE  [f EXCEPT ![c].data = d] \in [Caller -> CallType]
BY DEF CallType

(* The acquisition of a reader. *)
LEMMA TypeAcquire == ASSUME TypeOK, NEW c \in Caller, Acquire(c) PROVE TypeOK'
<1>. USE DEF TypeOK, PC
<1>1. CASE MatchExact(c)
  BY <1>1 DEF MatchExact, Claim, gvars, evars
<1>2. CASE MissExact(c)
  BY <1>2 DEF MissExact, gvars, rvars, evars
<1>3. CASE SearchHit(c)
  <2>1. PICK i \in 1..Len(checkpoints) :
          zr' = [zr EXCEPT ![own[c]] = [pos |-> checkpoints[i].out, err |-> "nil",
                                        tail |-> checkpoints[i].tail]]
    BY <1>3 DEF SearchHit
  <2>2. checkpoints[i] \in Mark
    BY ElementOfSeq
  <2>3. zr' \in [ReaderId -> [pos : Nat, err : Errors, tail : BOOLEAN]]
    BY <2>1, <2>2 DEF Mark, Errors
  <2>. QED  BY <1>3, <2>3 DEF SearchHit, gvars, evars
<1>4. CASE SearchMiss(c)
  BY <1>4 DEF SearchMiss, gvars, rvars, evars
<1>5. CASE ScanHit(c)
  BY <1>5 DEF ScanHit, Claim, gvars, evars
<1>6. CASE ScanMiss(c)
  BY <1>6 DEF ScanMiss, CallType, gvars, rvars, evars
<1>7. CASE Register(c)
  BY <1>7 DEF Register, gvars, evars
<1>8. CASE DiscardFailed(c)
  <2>1. PICK e \in Errors \cup {"wrappedEOF"} : call' = [call EXCEPT ![c].err = e]
    BY <1>8 DEF DiscardFailed
  <2>2. call' \in [Caller -> CallType]
    BY <2>1, CallErr
  <2>. QED  BY <1>8, <2>2 DEF DiscardFailed, gvars, rvars, evars
<1>. QED  BY <1>1, <1>2, <1>3, <1>4, <1>5, <1>6, <1>7, <1>8 DEF Acquire

(* Decoding.  k bytes more, an error or none. *)
LEMMA TypeAdvance ==
  ASSUME TypeOK, NEW c \in Caller, NEW k \in Nat, NEW e \in Errors, Advance(c, k, e)
  PROVE  /\ zr' \in [ReaderId -> [pos : Nat, err : Errors, tail : BOOLEAN]]
         /\ call' \in [Caller -> CallType]
<1>1. own[c] \in ReaderId /\ zr[own[c]].pos \in Nat
  BY DEF TypeOK
<1>2. zr' \in [ReaderId -> [pos : Nat, err : Errors, tail : BOOLEAN]]
  BY <1>1 DEF TypeOK, Advance
<1>3. Bytes(own[c], k) \in Seq(Nat)
  <2>1. \A i \in 1..k : (IF zr[own[c]].tail THEN Junk ELSE zr[own[c]].pos + i - 1) \in Nat
    BY <1>1, SizeAssumption DEF Junk
  <2>. QED  BY <2>1 DEF Bytes
<1>4. call[c].data \o Bytes(own[c], k) \in Seq(Nat)
  BY <1>3, ConcatProperties DEF TypeOK, CallType
<1>5. call' \in [Caller -> CallType]
  BY <1>4, CallData DEF TypeOK, Advance
<1>. QED  BY <1>2, <1>5

(* What one Read may take is a number.                                     *)
LEMMA DecodeTypes ==
  ASSUME TypeOK, NEW c \in Caller
  PROVE  Want(c) \in Int /\ Stop(own[c]) \in Nat /\ Room(c) \in Int
<1>1. /\ zr[own[c]].pos \in Nat /\ Len(call[c].data) \in Nat
      /\ call[c].off \in Nat /\ call[c].len \in Nat
  BY LenProperties DEF TypeOK, CallType
<1>2. Unsent(own[c]) => Marks[sent + 1].emit \in Nat
  <2>1. Unsent(own[c]) => sent + 1 \in 1..Len(Marks)
    BY MarksLemma DEF Unsent, TypeOK
  <2>. QED  BY <2>1, MarksLemma DEF Mark
<1>3. Stop(own[c]) \in Nat
  BY <1>2, SizeAssumption DEF Stop
<1>4. Want(c) \in Int
  BY <1>1 DEF Want
<1>. QED  BY <1>1, <1>3, <1>4 DEF Room

(* A step of decoding keeps the types.                                     *)
LEMMA TypeDecode == ASSUME TypeOK, NEW c \in Caller, Decode(c) PROVE TypeOK'
<1>0. Room(c) \in Int
  BY DecodeTypes
<1>1. CASE Deliver(c)
  <2>1. PICK e \in {"nil", End} : Advance(c, Room(c), e)
    BY <1>1 DEF Deliver
  <2>2. Room(c) \in Nat /\ e \in Errors
    BY <1>0, <1>1, <2>1, RulesAssumption DEF Deliver, Errors
  <2>. QED  BY <1>1, <2>1, <2>2, TypeAdvance DEF TypeOK, Deliver, gvars, evars
<1>2. CASE HitEnd(c)
  <2>1. End \in Errors
    BY RulesAssumption DEF Errors
  <2>. QED  BY <1>2, <2>1, TypeAdvance DEF TypeOK, HitEnd, gvars, evars
<1>3. CASE Fail(c)
  <2>1. PICK k \in 0..Room(c) : Advance(c, k, "io")
    BY <1>3 DEF Fail
  <2>2. k \in Nat /\ "io" \in Errors
    BY <1>0 DEF Errors
  <2>3. faults' \in 0..MaxFaults
    BY <1>3, BoundsAssumption DEF Fail, TypeOK
  <2>. QED  BY <1>3, <2>1, <2>2, <2>3, TypeAdvance DEF TypeOK, Fail, gvars, evars
<1>4. CASE Corrupt(c)
  <2>1. PICK k \in 0..Room(c), e \in {"corrupt", "ErrUnexpectedEOF"} : Advance(c, k, e)
    BY <1>4 DEF Corrupt
  <2>2. k \in Nat /\ e \in Errors
    BY <1>0 DEF Errors
  <2>. QED  BY <1>4, <2>1, <2>2, TypeAdvance DEF TypeOK, Corrupt, gvars, evars
<1>5. CASE Send(c)
  <2>1. Marks[sent + 1] \in Mark /\ sent + 1 \in 0..Len(Marks)
    BY <1>5, MarksLemma DEF TypeOK, Send, Sending, Due, Unsent
  <2>2. updates' \in Seq(Mark) /\ Len(updates') <= ChanCap
    BY <1>5, <2>1, AppendProperties, LenProperties, BoundsAssumption
       DEF TypeOK, Send, ChanRoom
  <2>. QED  BY <1>5, <2>1, <2>2 DEF TypeOK, Send, rvars, evars
<1>6. CASE SendOnClosed(c)
  BY <1>6 DEF TypeOK, SendOnClosed, gvars, rvars, evars
<1>. QED  BY <1>1, <1>2, <1>3, <1>4, <1>5, <1>6 DEF Decode

(* Releasing a reader keeps the types.                                     *)
LEMMA TypeRelease == ASSUME TypeOK, NEW c \in Caller, Release(c) PROVE TypeOK'
<1>1. Result(c) \in Errors
  BY DEF Result, TypeOK, Errors
<1>2. call' \in [Caller -> CallType]
  BY <1>1, CallErr DEF Release, TypeOK
<1>3. pool' \in [ReaderId -> {"absent", "busy", "idle"}]
  BY DEF Release, PutBack, TypeOK
<1>4. seen' \subseteq Nat
  <2>1. \A i \in 1..Len(call[c].data) : call[c].data[i] \in Nat
    BY ElementOfSeq DEF TypeOK, CallType
  <2>. QED  BY <2>1 DEF Release, TypeOK
<1>5. pc' \in [Caller -> PC]
  BY DEF Release, TypeOK, PC
<1>. QED  BY <1>2, <1>3, <1>4, <1>5 DEF Release, TypeOK, gvars

(* Everything else: the start of a call, the goroutine, Wait and Encode. *)
LEMMA TypeGoroutine == ASSUME TypeOK, Goroutine PROVE TypeOK'
<1>1. CASE Receive
  <2>1. /\ hand' \in Seq(Mark) /\ Len(hand') <= 1
        /\ updates' \in Seq(Mark) /\ Len(updates') <= ChanCap
    BY <1>1, HeadTailProperties, LenProperties, BoundsAssumption DEF Receive, TypeOK
  <2>. QED  BY <1>1, <2>1 DEF Receive, TypeOK, rvars, evars
<1>2. CASE AppendCheckpoint
  <2>1. checkpoints' \in Seq(Mark) /\ hand' \in Seq(Mark) /\ Len(hand') <= 1
    BY <1>2, ConcatProperties DEF AppendCheckpoint, TypeOK
  <2>. QED  BY <1>2, <2>1 DEF AppendCheckpoint, TypeOK, rvars, evars
<1>3. CASE Exit
  BY <1>3 DEF Exit, TypeOK, rvars, evars
<1>. QED  BY <1>1, <1>2, <1>3 DEF Goroutine

(* Entering and leaving Wait, Encode and ReadAt keeps the types.           *)
LEMMA TypeOther ==
  ASSUME TypeOK, NEW c \in Caller,
         Call(c) \/ Wait(c) \/ WaitReturn(c) \/ Encode(c) \/ EncodeReturn(c)
  PROVE  TypeOK'
<1>1. CASE Call(c)
  <2>1. call' \in [Caller -> CallType]
    <3>1. PICK off \in Offs, len \in Lens :
            call' = [call EXCEPT ![c] = Fresh(off, len, checkpoints = <<>>)]
      BY <1>1 DEF Call
    <3>2. Fresh(off, len, checkpoints = <<>>) \in CallType
      BY BoundsAssumption DEF Fresh, CallType, Errors
    <3>. QED  BY <3>1, <3>2 DEF TypeOK
  <2>2. calls' \in 0..MaxCalls /\ own' \in [Caller -> ReaderId]
    BY <1>1, BoundsAssumption DEF Call, TypeOK, ReaderId
  <2>3. pc' \in [Caller -> PC]
    BY <1>1 DEF Call, TypeOK, PC
  <2>. QED  BY <1>1, <2>1, <2>2, <2>3 DEF Call, TypeOK, gvars, rvars, evars
<1>2. CASE Wait(c)
  BY <1>2 DEF Wait, Close, TypeOK, PC, rvars, evars
<1>3. CASE WaitReturn(c)
  BY <1>3 DEF WaitReturn, TypeOK, PC, gvars, rvars, evars
<1>4. CASE Encode(c)
  <2>1. snap' \in [Caller -> [len : Nat, quiet : BOOLEAN]]
    BY <1>4, LenProperties DEF Encode, TypeOK
  <2>2. pc' \in [Caller -> PC]
    BY <1>4 DEF Encode, TypeOK, PC
  <2>. QED  BY <1>4, <2>1, <2>2 DEF Encode, TypeOK, gvars, rvars
<1>5. CASE EncodeReturn(c)
  <2>1. PICK torn \in BOOLEAN :
          saved' = [quiet |-> snap[c].quiet,
                    marks |-> [i \in 1..Len(checkpoints) |->
                      IF torn /\ i > snap[c].len THEN Torn ELSE checkpoints[i]]]
    BY <1>5 DEF EncodeReturn
  <2>. DEFINE m(i) == IF torn /\ i > snap[c].len THEN Torn ELSE checkpoints[i]
  <2>2. Torn \in Mark
    BY SizeAssumption DEF Torn, Mark
  <2>3. \A i \in 1..Len(checkpoints) : checkpoints[i] \in Mark
    BY ElementOfSeq DEF TypeOK
  <2>4. \A i \in 1..Len(checkpoints) : m(i) \in Mark
    BY <2>2, <2>3, Zenon
  <2>5. saved' = [quiet |-> snap[c].quiet, marks |-> [i \in 1..Len(checkpoints) |-> m(i)]]
    BY <2>1
  <2>. HIDE DEF m
  <2>6. [i \in 1..Len(checkpoints) |-> m(i)] \in Seq(Mark)
    BY <2>4, LenProperties DEF TypeOK
  <2>7. saved' \in [marks : Seq(Mark), quiet : BOOLEAN]
    BY <2>5, <2>6 DEF TypeOK
  <2>8. pc' \in [Caller -> PC]
    BY <1>5 DEF EncodeReturn, TypeOK, PC
  <2>. QED  BY <1>5, <2>7, <2>8 DEF EncodeReturn, TypeOK, gvars, rvars
<1>. QED  BY <1>1, <1>2, <1>3, <1>4, <1>5

(* Every step keeps the types.                                             *)
LEMMA TypeStep == TypeOK /\ [Next]_vars => TypeOK'
<1>1. ASSUME TypeOK, UNCHANGED vars PROVE TypeOK'
  BY <1>1 DEF TypeOK, vars, gvars, rvars, evars
<1>2. ASSUME TypeOK, NEW c \in Caller, Run(c) PROVE TypeOK'
  BY <1>2, TypeAcquire, TypeDecode, TypeRelease, TypeOther DEF Run
<1>. QED  BY <1>1, <1>2, TypeGoroutine, TypeOther, RulesAssumption DEF Next

(* The variables keep their types, and the channel and the goroutine never *)
(* hold more checkpoints than they have room for (gsip.go:55, 81-88).      *)
THEOREM TypeCorrect == Spec => []TypeOK
BY TypeInit, TypeStep, PTL DEF Spec

---------------------------------------------------------------------------
(* Ownership of the gzip.Readers *)

(* A caller that has no reader yet keeps the name of the one it may make.  *)
Reserved(c) == pc[c] \in {"exact", "search", "scan"}

(* ExclusiveOwner is not inductive: MatchExact and ScanHit take a reader   *)
(* because the pool calls it idle, so no other caller may hold an idle     *)
(* one; Register enters a reader that no one can have taken meanwhile; and *)
(* a new call's name is new because calls bounds all the names in use.     *)
Ownership ==
  /\ \A c \in Caller : Inside(c) => own[c] <= calls
  /\ \A c \in Caller : Reserved(c) => pool[own[c]] = "absent"
  /\ \A c \in Caller : Working(c) => pool[own[c]] # "idle"
  /\ \A c, d \in Caller : Inside(c) /\ Inside(d) /\ own[c] = own[d] => c = d
  /\ \A z \in ReaderId : pool[z] # "absent" => z <= calls

(* Initially no caller is inside a ReadAt.                                 *)
LEMMA OwnershipInit == Init => Ownership
BY BoundsAssumption
   DEF Init, InitNewReader, InitDecode, Ownership, Inside, Reserved, Working, ReaderId,
       Frontier

(* What a change of one caller's pc means for the three predicates.        *)
LEMMA PcChange ==
  ASSUME TypeOK, NEW c \in Caller, NEW p \in PC, pc' = [pc EXCEPT ![c] = p]
  PROVE  /\ \A d \in Caller \ {c} :
              /\ Inside(d)' <=> Inside(d)
              /\ Reserved(d)' <=> Reserved(d)
              /\ Working(d)' <=> Working(d)
         /\ Inside(c)' <=> p \notin {"idle", "wait", "encode"}
         /\ Reserved(c)' <=> p \in {"exact", "search", "scan"}
         /\ Working(c)' <=> p \in {"discard", "read"}
<1>1. \A d \in Caller \ {c} : pc'[d] = pc[d]
  BY DEF TypeOK
<1>2. pc'[c] = p
  BY DEF TypeOK
<1>. QED  BY <1>1, <1>2 DEF Inside, Reserved, Working

(* Inside a ReadAt a caller is reserving a name or working with one.       *)
LEMMA InsideSplit ==
  ASSUME TypeOK, NEW c \in Caller PROVE Inside(c) <=> Reserved(c) \/ Working(c)
BY DEF TypeOK, PC, Inside, Reserved, Working

(* Not calling, or no longer. *)
LEMMA OwnershipLeave ==
  ASSUME TypeOK, Ownership, NEW c \in Caller, NEW p \in {"idle", "wait", "encode"},
         pc' = [pc EXCEPT ![c] = p], UNCHANGED <<own, pool, calls>>
  PROVE  Ownership'
<1>1. p \in PC
  BY DEF PC
<1>. QED  BY <1>1, PcChange, InsideSplit DEF Ownership

(* Moving on without a reader, or with one just made. *)
LEMMA OwnershipProceed ==
  ASSUME TypeOK, Ownership, NEW c \in Caller, NEW p \in {"search", "scan", "discard"},
         Reserved(c),
         pc' = [pc EXCEPT ![c] = p], UNCHANGED <<own, pool, calls>>
  PROVE  Ownership'
<1>1. p \in PC
  BY DEF PC
<1>. QED  BY <1>1, PcChange, InsideSplit DEF Ownership

(* Marking one's own reader in the pool: in use to read on, idle to leave. *)
LEMMA OwnershipMark ==
  ASSUME TypeOK, Ownership, NEW c \in Caller, Working(c), NEW v, NEW p,
         (v = "busy" /\ p = "read") \/ (v = "idle" /\ p = "idle"),
         pool' = [pool EXCEPT ![own[c]] = v], pc' = [pc EXCEPT ![c] = p],
         UNCHANGED <<own, calls>>
  PROVE  Ownership'
<1>1. p \in PC
  BY DEF PC
<1>2. \A d \in Caller : own[d] \in ReaderId
  BY DEF TypeOK
<1>3. /\ pool'[own[c]] = v
      /\ \A z \in ReaderId : z # own[c] => pool'[z] = pool[z]
  BY <1>2 DEF TypeOK
<1>4. \A d \in Caller \ {c} : Inside(d) => own[d] # own[c]
  BY InsideSplit DEF Ownership
<1>. QED  BY <1>1, <1>2, <1>3, <1>4, PcChange, InsideSplit DEF Ownership

(* Ownership is about these variables only.                                *)
LEMMA OwnershipUnchanged ==
  ASSUME Ownership, UNCHANGED <<pc, own, pool, calls>> PROVE Ownership'
BY DEF Ownership, Inside, Reserved, Working

(* Taking an idle reader. *)
LEMMA OwnershipClaim ==
  ASSUME TypeOK, Ownership, NEW c \in Caller, NEW z \in ReaderId, NEW p \in {"discard", "read"},
         Reserved(c), Idle(z), Claim(c, z),
         pc' = [pc EXCEPT ![c] = p], UNCHANGED calls
  PROVE  Ownership'
<1>1. \A d \in Caller : Inside(d) => own[d] # z
  BY DEF TypeOK, PC, Ownership, Inside, Reserved, Working, Idle
<1>. QED
  BY <1>1 DEF TypeOK, PC, Ownership, Inside, Reserved, Working, Idle, Claim

(* Every step keeps readers and their owners apart.                        *)
LEMMA OwnershipStep == TypeOK /\ Ownership /\ [Next]_vars => Ownership'
<1>. SUFFICES ASSUME TypeOK, Ownership, [Next]_vars PROVE Ownership'
  OBVIOUS
<1>1. CASE UNCHANGED vars
  BY <1>1, OwnershipUnchanged DEF vars, rvars
<1>2. CASE Goroutine
  BY <1>2, OwnershipUnchanged DEF Goroutine, Receive, AppendCheckpoint, Exit, rvars
<1>3. ASSUME NEW c \in Caller, Acquire(c) PROVE Ownership'
  <2>1. CASE MatchExact(c)
    BY <2>1, OwnershipClaim DEF MatchExact, Fits, Reserved
  <2>2. CASE ScanHit(c)
    BY <2>2, OwnershipClaim DEF ScanHit, Reaches, Reserved
  <2>3. CASE MissExact(c) \/ SearchHit(c) \/ SearchMiss(c)
    <3>1. PICK p \in {"search", "scan", "discard"} :
            Reserved(c) /\ pc' = [pc EXCEPT ![c] = p] /\ UNCHANGED <<own, pool, calls>>
      BY <2>3 DEF MissExact, SearchHit, SearchMiss, Reserved, rvars
    <3>. QED  BY <3>1, OwnershipProceed
  <2>4. CASE ScanMiss(c) \/ DiscardFailed(c)
    <3>1. pc' = [pc EXCEPT ![c] = "idle"] /\ UNCHANGED <<own, pool, calls>>
      BY <2>4 DEF ScanMiss, DiscardFailed, rvars
    <3>. QED  BY <3>1, OwnershipLeave
  <2>5. CASE Register(c)
    BY <2>5, OwnershipMark DEF Register, Working
  <2>. QED  BY <1>3, <2>1, <2>2, <2>3, <2>4, <2>5 DEF Acquire
<1>4. ASSUME NEW c \in Caller, Decode(c) PROVE Ownership'
  BY <1>4, OwnershipUnchanged
     DEF Decode, Deliver, HitEnd, Fail, Corrupt, Send, SendOnClosed, rvars
<1>5. ASSUME NEW c \in Caller, Release(c) PROVE Ownership'
  BY <1>5, OwnershipMark DEF Release, PutBack, Working
<1>6. ASSUME NEW c \in Caller, Call(c) PROVE Ownership'
  <2>1. /\ own' = [own EXCEPT ![c] = calls + 1] /\ calls' = calls + 1 /\ calls < MaxCalls
        /\ pc' = [pc EXCEPT ![c] = "exact"] /\ pool' = pool
    BY <1>6 DEF Call, rvars
  <2>2. calls \in Nat /\ calls + 1 \in ReaderId /\ pool[calls + 1] = "absent"
    BY <2>1, BoundsAssumption DEF TypeOK, ReaderId, Ownership
  <2>3. \A d \in Caller : own[d] \in Nat
    BY BoundsAssumption DEF TypeOK, ReaderId
  <2>4. \A d \in Caller \ {c} : Inside(d) => own[d] # calls + 1
    BY <2>2, <2>3 DEF Ownership
  <2>5. own'[c] = calls + 1 /\ \A d \in Caller \ {c} : own'[d] = own[d]
    BY <2>1 DEF TypeOK
  <2>6. "exact" \in PC
    BY DEF PC
  <2>7. \A z \in ReaderId : z \in Nat
    BY BoundsAssumption DEF ReaderId
  <2>8. /\ Inside(c)' /\ Reserved(c)' /\ ~Working(c)'
        /\ \A d \in Caller \ {c} : /\ Inside(d)' <=> Inside(d)
                                   /\ Reserved(d)' <=> Reserved(d)
                                   /\ Working(d)' <=> Working(d)
    BY <2>1, <2>6, PcChange
  <2>9. \A d \in Caller : Inside(d)' => own'[d] <= calls'
    BY <2>1, <2>2, <2>3, <2>5, <2>8 DEF Ownership
  <2>10. \A d \in Caller : Reserved(d)' => pool'[own'[d]] = "absent"
    BY <2>1, <2>2, <2>5, <2>8 DEF Ownership
  <2>11. \A d \in Caller : Working(d)' => pool'[own'[d]] # "idle"
    BY <2>1, <2>5, <2>8 DEF Ownership
  <2>12. \A d, e \in Caller : Inside(d)' /\ Inside(e)' /\ own'[d] = own'[e] => d = e
    BY <2>4, <2>5, <2>8 DEF Ownership
  <2>13. \A z \in ReaderId : pool'[z] # "absent" => z <= calls'
    BY <2>1, <2>2, <2>7 DEF Ownership
  <2>. QED  BY <2>9, <2>10, <2>11, <2>12, <2>13 DEF Ownership
<1>7. ASSUME NEW c \in Caller, Wait(c) \/ WaitReturn(c) \/ Encode(c) \/ EncodeReturn(c)
      PROVE  Ownership'
  <2>1. PICK p \in {"idle", "wait", "encode"} :
          pc' = [pc EXCEPT ![c] = p] /\ UNCHANGED <<own, pool, calls>>
    BY <1>7 DEF Wait, WaitReturn, Encode, EncodeReturn, rvars
  <2>. QED  BY <2>1, OwnershipLeave
<1>. QED  BY <1>1, <1>2, <1>3, <1>4, <1>5, <1>6, <1>7, RulesAssumption DEF Next, Run

(* Ownership always holds.                                                 *)
LEMMA OwnershipInvariant == Spec => []Ownership
BY OwnershipInit, TypeCorrect, OwnershipStep, PTL DEF Spec

(* Two ReadAts never decode with the same gzip.Reader, and one in use is   *)
(* never marked as free in r.readers (gsip.go:99-146 and 171-189).         *)
THEOREM ExclusiveOwnership == Spec => []ExclusiveOwner
<1>1. Ownership => ExclusiveOwner
  BY DEF Ownership, ExclusiveOwner, Working, Inside
<1>. QED  BY <1>1, OwnershipInvariant, PTL

---------------------------------------------------------------------------
(* The checkpoints on their way *)

(* Initially what has been sent is in the channel or the list.             *)
LEMMA OrderInit == Init => CheckpointOrder
<1>. SUFFICES ASSUME Init PROVE CheckpointOrder
  OBVIOUS
<1>1. hand = <<>>
  BY DEF Init
<1>2. CASE InitNewReader
  <2>1. SubSeq(Marks, 1, 1) = <<Marks[1]>>
    <3>1. <<Marks[1]>> \in Seq(Mark) /\ 1 \in 1..Len(Marks)
      BY MarksLemma
    <3>2. /\ SubSeq(Marks, 1, 1) \in Seq(Mark) /\ Len(SubSeq(Marks, 1, 1)) = 1
          /\ SubSeq(Marks, 1, 1)[1] = Marks[1]
      BY <3>1, MarksLemma, SubSeqProperties
    <3>. DEFINE s == SubSeq(Marks, 1, 1)
                t == <<Marks[1]>>
    <3>3. Len(s) = Len(t) /\ \A i \in 1..Len(s) : s[i] = t[i]
      BY <3>1, <3>2
    <3>4. s \in Seq(Mark) /\ t \in Seq(Mark)
      BY <3>1, <3>2
    <3>. HIDE DEF s, t
    <3>5. s = t
      BY <3>3, <3>4, SeqEqual
    <3>. QED  BY <3>5 DEF s, t
  <2>. QED  BY <1>1, <1>2, <2>1 DEF InitNewReader, CheckpointOrder
<1>3. CASE InitDecode
  <2>1. checkpoints \in Seq(Mark) /\ updates = <<>> /\ checkpoints = SubSeq(Marks, 1, sent)
    BY <1>3, MarksLemma DEF InitDecode
  <2>2. checkpoints \o <<>> = checkpoints
    BY <2>1, ConcatEmptySeq
  <2>. QED  BY <1>1, <2>1, <2>2 DEF CheckpointOrder
<1>. QED  BY <1>2, <1>3 DEF Init

(* Every step keeps the checkpoints complete and in order.                 *)
LEMMA OrderStep == TypeOK /\ CheckpointOrder /\ [Next]_vars => CheckpointOrder'
<1>. SUFFICES ASSUME TypeOK, CheckpointOrder, [Next]_vars PROVE CheckpointOrder'
  OBVIOUS
<1>0. ASSUME UNCHANGED <<updates, sent, hand, checkpoints>> PROVE CheckpointOrder'
  BY <1>0 DEF CheckpointOrder
<1>1. CASE UNCHANGED vars
  BY <1>0, <1>1 DEF vars, gvars
<1>2. CASE Receive
  <2>1. /\ hand = <<>> /\ updates # <<>> /\ updates \in Seq(Mark) /\ checkpoints \in Seq(Mark)
        /\ hand' = <<Head(updates)>> /\ updates' = Tail(updates)
        /\ checkpoints' = checkpoints /\ sent' = sent
    BY <1>2 DEF Receive, TypeOK
  <2>2. updates = <<Head(updates)>> \o Tail(updates)
    BY <2>1
  <2>3. <<Head(updates)>> \in Seq(Mark) /\ Tail(updates) \in Seq(Mark)
    BY <2>1, HeadTailProperties
  <2>4. (checkpoints \o <<Head(updates)>>) \o Tail(updates) = checkpoints \o updates
    BY <2>1, <2>2, <2>3, ConcatAssociative
  <2>5. checkpoints \o hand = checkpoints
    BY <2>1, ConcatEmptySeq
  <2>. QED  BY <2>1, <2>4, <2>5 DEF CheckpointOrder
<1>3. CASE AppendCheckpoint
  <2>1. /\ checkpoints' = checkpoints \o hand /\ hand' = <<>>
        /\ updates' = updates /\ sent' = sent /\ checkpoints \o hand \in Seq(Mark)
    BY <1>3, ConcatProperties DEF AppendCheckpoint, TypeOK
  <2>2. (checkpoints \o hand) \o <<>> = checkpoints \o hand
    BY <2>1, ConcatEmptySeq
  <2>. QED  BY <2>1, <2>2 DEF CheckpointOrder
<1>4. ASSUME NEW c \in Caller, Send(c) PROVE CheckpointOrder'
  <2>1. /\ updates' = Append(updates, Marks[sent + 1]) /\ sent' = sent + 1
        /\ checkpoints' = checkpoints /\ hand' = hand
        /\ sent + 1 \in 1..Len(Marks) /\ Marks[sent + 1] \in Mark /\ sent \in Nat
    BY <1>4, MarksLemma DEF Send, Sending, Due, Unsent, TypeOK
  <2>2. SubSeq(Marks, 1, sent + 1) = SubSeq(Marks, 1, sent) \o <<Marks[sent + 1]>>
    BY <2>1, MarksAssumption, SubSeqRecursiveSecond
  <2>3. updates' = updates \o <<Marks[sent + 1]>>
    BY <2>1, AppendIsConcat DEF TypeOK
  <2>4. checkpoints \o hand \in Seq(Mark) /\ updates \in Seq(Mark)
        /\ <<Marks[sent + 1]>> \in Seq(Mark)
    BY <2>1, ConcatProperties DEF TypeOK
  <2>5. (checkpoints \o hand) \o updates' = ((checkpoints \o hand) \o updates) \o <<Marks[sent + 1]>>
    BY <2>3, <2>4, ConcatAssociative
  <2>. QED  BY <2>1, <2>2, <2>5 DEF CheckpointOrder
<1>5. CASE Exit
  BY <1>0, <1>5 DEF Exit
<1>6. ASSUME NEW c \in Caller, Run(c), ~Send(c) PROVE CheckpointOrder'
  BY <1>0, <1>6
     DEF Run, Acquire, MatchExact, MissExact, SearchHit, SearchMiss, ScanHit, ScanMiss, Register,
         DiscardFailed, Decode, Deliver, HitEnd, Fail, Corrupt, SendOnClosed, Release, WaitReturn,
         EncodeReturn, gvars
<1>7. ASSUME NEW c \in Caller, Call(c) \/ Wait(c) \/ Encode(c) PROVE CheckpointOrder'
  BY <1>0, <1>7 DEF Call, Wait, Encode, gvars
<1>. QED  BY <1>1, <1>2, <1>3, <1>4, <1>5, <1>6, <1>7, RulesAssumption DEF Next, Goroutine

(* No checkpoint is lost, doubled or overtaken between the decompressor    *)
(* and r.checkpoints (gsip.go:81-88), whatever the capacity of the channel *)
(* and the number of callers.                                              *)
THEOREM CheckpointsInOrder == Spec => []CheckpointOrder
BY OrderInit, TypeCorrect, OrderStep, PTL DEF Spec

---------------------------------------------------------------------------
(* What a ReadAt reads *)

(* r.checkpoints is the beginning of Marks. *)
LEMMA CheckpointsAreMarks ==
  ASSUME TypeOK, CheckpointOrder, NEW i \in 1..Len(checkpoints)
  PROVE  i \in 1..Len(Marks) /\ checkpoints[i] = Marks[i]
<1>1. checkpoints \o hand \in Seq(Mark)
  BY ConcatProperties DEF TypeOK
<1>2. /\ Len(checkpoints) \in Nat /\ Len(hand) \in Nat /\ Len(updates) \in Nat
      /\ sent \in 0..Len(Marks) /\ Len(Marks) \in Nat
  BY LenProperties, MarksLemma DEF TypeOK
<1>3. /\ (checkpoints \o hand)[i] = checkpoints[i]
      /\ i \in 1..Len(checkpoints \o hand)
  BY <1>2, ConcatProperties DEF TypeOK
<1>4. /\ ((checkpoints \o hand) \o updates)[i] = checkpoints[i]
      /\ i \in 1..Len((checkpoints \o hand) \o updates)
  BY <1>1, <1>2, <1>3, ConcatProperties DEF TypeOK
<1>5. \A j \in 1..sent : Marks[j] \in Mark
  BY <1>2, MarksLemma
<1>6. /\ Len(SubSeq(Marks, 1, sent)) = sent
      /\ \A j \in 1..sent : SubSeq(Marks, 1, sent)[j] = Marks[j]
  BY <1>2, <1>5, SubSeqProperties
<1>. QED  BY <1>2, <1>4, <1>6 DEF CheckpointOrder

(* ReadsStream speaks of the readers in use; a reader is put back and      *)
(* taken again, so the invariant says of all of them that they stand       *)
(* inside the stream, and why each of them stopped if it did.              *)
Streams ==
  \A z \in ReaderId :
    /\ ~zr[z].tail
    /\ zr[z].pos <= Size
    /\ zr[z].err \in {"nil", "io", End}
    /\ zr[z].err = End => zr[z].pos = Size
    /\ zr[z].err = "io" => faults > 0

(* A call in progress has no result yet; if it is not early there is a     *)
(* checkpoint, so it does not come to the scan; and its buffer holds the   *)
(* stream from off up to where its reader stands, and never more than fit. *)
InProgress(c) ==
  /\ Inside(c) => call[c].err = "nil" /\ (call[c].early \/ checkpoints # <<>>)
  /\ Inside(c) /\ pc[c] # "read" => call[c].data = <<>>
  /\ pc[c] = "scan" => call[c].early
  /\ pc[c] = "discard" => zr[own[c]].pos <= call[c].off
  /\ pc[c] = "read" =>
       /\ zr[own[c]].pos = call[c].off + Len(call[c].data)
       /\ Len(call[c].data) <= call[c].len
       /\ \A i \in 1..Len(call[c].data) : call[c].data[i] = call[c].off + i - 1

ReadInv == Streams /\ \A c \in Caller : InProgress(c)

(* No reader has read anything yet.                                        *)
LEMMA ReadInit == Init => ReadInv
<1>. SUFFICES ASSUME Init PROVE ReadInv
  OBVIOUS
<1>1. Streams
  BY SizeAssumption, RulesAssumption DEF Init, Streams
<1>2. \A c \in Caller : pc[c] = "idle"
  BY DEF Init
<1>. QED  BY <1>1, <1>2 DEF ReadInv, InProgress, Inside

(* A step that concerns c only leaves the calls of the others alone. *)
LEMMA ReadOthers ==
  ASSUME ReadInv, NEW c \in Caller,
         \A d \in Caller \ {c} :
           /\ pc'[d] = pc[d] /\ call'[d] = call[d] /\ own'[d] = own[d]
           /\ Working(d) => zr'[own[d]] = zr[own[d]],
         checkpoints # <<>> => checkpoints' # <<>>,
         Streams', InProgress(c)'
  PROVE  ReadInv'
<1>1. ASSUME NEW d \in Caller \ {c} PROVE InProgress(d)'
  BY <1>1 DEF ReadInv, InProgress, Inside, Working
<1>. QED  BY <1>1 DEF ReadInv

(* A step of the goroutine. *)
LEMMA ReadFrame ==
  ASSUME ReadInv, UNCHANGED <<pc, call, own, zr, faults>>,
         checkpoints # <<>> => checkpoints' # <<>>
  PROVE  ReadInv'
BY DEF ReadInv, Streams, InProgress, Inside

(* Consecutive positions, and those behind them.                           *)
LEMMA AppendContiguous ==
  ASSUME NEW off \in Nat, NEW old \in Seq(Nat), NEW new \in Seq(Nat), NEW p \in Nat,
         p = off + Len(old),
         \A i \in 1..Len(old) : old[i] = off + i - 1,
         \A i \in 1..Len(new) : new[i] = p + i - 1
  PROVE  /\ Len(old \o new) = Len(old) + Len(new)
         /\ \A i \in 1..Len(old \o new) : (old \o new)[i] = off + i - 1
<1>1. /\ Len(old) \in Nat /\ Len(new) \in Nat
      /\ Len(old \o new) = Len(old) + Len(new)
      /\ \A i \in 1..(Len(old) + Len(new)) :
           (old \o new)[i] = IF i <= Len(old) THEN old[i] ELSE new[i - Len(old)]
  BY LenProperties, ConcatProperties
<1>2. ASSUME NEW i \in 1..(Len(old) + Len(new)), i <= Len(old)
      PROVE  (old \o new)[i] = off + i - 1
  BY <1>1, <1>2
<1>3. ASSUME NEW i \in 1..(Len(old) + Len(new)), i > Len(old)
      PROVE  (old \o new)[i] = off + i - 1
  <2>1. i - Len(old) \in 1..Len(new)
    BY <1>1, <1>3
  <2>2. new[i - Len(old)] = p + (i - Len(old)) - 1
    BY <2>1
  <2>. QED  BY <1>1, <1>3, <2>2
<1>. QED  BY <1>1, <1>2, <1>3

(* c decodes k bytes with its own reader. *)
LEMMA ReadAdvance ==
  ASSUME TypeOK, Ownership, ReadInv, NEW c \in Caller, Decoding(c),
         NEW k \in Nat, NEW e \in {"nil", "io", End},
         k <= Room(c), Advance(c, k, e), UNCHANGED <<pc, own, checkpoints>>,
         faults' \in Nat, faults <= faults',
         e = "io" => faults' > 0,
         e = End => zr[own[c]].pos + k = Size
  PROVE  ReadInv'
<1>. DEFINE z == own[c]
<1>1. /\ Working(c) /\ Inside(c) /\ z \in ReaderId /\ zr[z].err = "nil"
      /\ zr[z] \in [pos : Nat, err : Errors, tail : BOOLEAN] /\ zr[z].pos <= Size /\ ~zr[z].tail
      /\ call[c] \in CallType /\ Len(call[c].data) \in Nat
  BY LenProperties
     DEF Decoding, Working, Inside, TypeOK, ReadInv, Streams, CallType
<1>2. /\ zr'[z] = [pos |-> zr[z].pos + k, err |-> e, tail |-> zr[z].tail]
      /\ \A y \in ReaderId : y # z => zr'[y] = zr[y]
  BY <1>1 DEF Advance, TypeOK
<1>3. Stop(z) \in Nat /\ Stop(z) <= Size
  <2>1. CASE Unsent(z)
    <3>1. sent + 1 \in 1..Len(Marks)
      BY <2>1, MarksLemma DEF Unsent, TypeOK
    <3>2. /\ Marks[sent + 1].emit \in Nat /\ Marks[sent + 1].out \in Nat
          /\ Marks[sent + 1].emit <= Marks[sent + 1].out /\ Marks[sent + 1].out <= Size
      BY <3>1, MarksLemma, MarksAssumption DEF Mark
    <3>. QED  BY <2>1, <3>2, SizeAssumption DEF Stop
  <2>2. CASE ~Unsent(z)
    BY <2>2, SizeAssumption DEF Stop
  <2>. QED  BY <2>1, <2>2
<1>4. /\ k <= Want(c) /\ zr[z].pos + k <= Size
  <2>1. Want(c) \in Int
    BY <1>1 DEF Want, CallType
  <2>. QED  BY <1>1, <1>3, <2>1, SizeAssumption DEF Room
<1>5. Streams'
  <2>1. faults \in Nat
    BY BoundsAssumption DEF TypeOK
  <2>. QED  BY <1>1, <1>2, <1>4, <2>1, RulesAssumption DEF ReadInv, Streams
<1>6. \A d \in Caller \ {c} : Working(d) => zr'[own[d]] = zr[own[d]]
  BY <1>1, <1>2, InsideSplit DEF Ownership, TypeOK
<1>7. \A d \in Caller \ {c} : call'[d] = call[d]
  BY DEF Advance, TypeOK
<1>8. InProgress(c)'
  <2>1. CASE pc[c] = "discard"
    <3>1. call' = call /\ zr'[z].pos = zr[z].pos + k /\ k <= call[c].off - zr[z].pos
      BY <1>2, <1>4, <2>1 DEF Advance, Want
    <3>. QED  BY <1>1, <2>1, <3>1 DEF InProgress, ReadInv, Inside, CallType
  <2>2. CASE pc[c] = "read"
    <3>. DEFINE old == call[c].data
                new == Bytes(z, k)
    <3>1. call'[c] = [call[c] EXCEPT !.data = old \o new]
      BY <2>2 DEF Advance, TypeOK
    <3>2. /\ new \in Seq(Nat) /\ Len(new) = k /\ zr[z].pos \in Nat
          /\ \A i \in 1..Len(new) : new[i] = zr[z].pos + i - 1
      BY <1>1 DEF Bytes
    <3>3. /\ old \in Seq(Nat) /\ zr[z].pos = call[c].off + Len(old) /\ call[c].off \in Nat
          /\ \A i \in 1..Len(old) : old[i] = call[c].off + i - 1
      BY <1>1, <2>2 DEF ReadInv, InProgress, CallType
    <3>4. /\ call'[c].data = old \o new /\ call'[c].off = call[c].off
          /\ call'[c].len = call[c].len
          /\ call'[c].err = call[c].err /\ call'[c].early = call[c].early
      BY <1>1, <3>1 DEF CallType
    <3>10. k <= call[c].len - Len(old)
      BY <1>4, <2>2 DEF Want
    <3>. HIDE DEF old, new
    <3>5. /\ Len(old \o new) = Len(old) + k
          /\ \A i \in 1..Len(old \o new) : (old \o new)[i] = call[c].off + i - 1
      BY <3>2, <3>3, AppendContiguous
    <3>6. zr'[z].pos = call[c].off + Len(old \o new)
      BY <1>1, <1>2, <3>3, <3>5, LenProperties
    <3>7. call[c].err = "nil" /\ (call[c].early \/ checkpoints # <<>>)
      BY <1>1 DEF ReadInv, InProgress
    <3>8. call'[c].err = "nil" /\ (call'[c].early \/ checkpoints' # <<>>)
      BY <3>4, <3>7, Zenon
    <3>9. Len(call'[c].data) <= call'[c].len
      <4>1. call[c].len \in Nat /\ Len(old) \in Nat
        BY <1>1, <3>3, LenProperties DEF CallType
      <4>. QED  BY <3>4, <3>5, <3>10, <4>1
    <3>. QED  BY <2>2, <3>4, <3>5, <3>6, <3>8, <3>9 DEF InProgress
  <2>. QED  BY <2>1, <2>2 DEF Decoding
<1>. QED  BY <1>5, <1>6, <1>7, <1>8, ReadOthers

(* c moves on, with the same readers as before. *)
LEMMA ReadMove ==
  ASSUME TypeOK, ReadInv, NEW c \in Caller, NEW p \in PC,
         pc' = [pc EXCEPT ![c] = p], UNCHANGED <<zr, faults, checkpoints>>,
         \A d \in Caller \ {c} : own'[d] = own[d] /\ call'[d] = call[d],
         InProgress(c)'
  PROVE  ReadInv'
<1>1. \A d \in Caller \ {c} : pc'[d] = pc[d]
  BY DEF TypeOK
<1>2. Streams'
  BY DEF ReadInv, Streams
<1>. QED  BY <1>1, <1>2, ReadOthers

(* A caller that is outside ReadAt owes nothing.                           *)
LEMMA ReadLeave ==
  ASSUME TypeOK, ReadInv, NEW c \in Caller, NEW p \in {"idle", "wait", "encode"},
         pc' = [pc EXCEPT ![c] = p], UNCHANGED <<zr, faults, checkpoints, own>>,
         \A d \in Caller \ {c} : call'[d] = call[d]
  PROVE  ReadInv'
<1>1. p \in PC
  BY DEF PC
<1>2. pc'[c] = p
  BY DEF TypeOK
<1>3. InProgress(c)'
  BY <1>2 DEF InProgress, Inside
<1>. QED  BY <1>1, <1>3, ReadMove

(* The reader that is acquired stands at or before the offset.             *)
LEMMA ReadAcquire ==
  ASSUME TypeOK, Ownership, CheckpointOrder, NoTail, ReadInv, NEW c \in Caller, Acquire(c)
  PROVE  ReadInv'
<1>0. /\ Inside(c) /\ call[c].err = "nil" /\ call[c].off \in Nat /\ call[c].len \in Nat
      /\ call[c].early \/ checkpoints # <<>>
      /\ call[c].data = <<>>
  <2>1. Inside(c) /\ pc[c] # "read"
    BY DEF Acquire, MatchExact, MissExact, SearchHit, SearchMiss, ScanHit, ScanMiss, Register,
           DiscardFailed, Inside
  <2>. QED  BY <2>1 DEF ReadInv, InProgress, TypeOK, CallType
<1>1. CASE MatchExact(c)
  <2>1. PICK z \in ReaderId : zr[z].pos = call[c].off /\ own' = [own EXCEPT ![c] = z]
    BY <1>1 DEF MatchExact, Fits, Claim
  <2>2. /\ own'[c] = z /\ \A d \in Caller \ {c} : own'[d] = own[d]
        /\ pc'[c] = "read" /\ pc' = [pc EXCEPT ![c] = "read"]
        /\ UNCHANGED <<zr, faults, checkpoints, call>>
    BY <1>1, <2>1 DEF MatchExact, TypeOK, gvars
  <2>3. InProgress(c)'
    BY <1>0, <2>1, <2>2 DEF InProgress
  <2>. QED  BY <2>2, <2>3, ReadMove DEF PC
<1>2. CASE MissExact(c)
  <2>1. /\ pc'[c] = "search" /\ pc' = [pc EXCEPT ![c] = "search"]
        /\ UNCHANGED <<zr, faults, checkpoints, call, own>>
    BY <1>2 DEF MissExact, TypeOK, gvars, rvars
  <2>2. InProgress(c)'
    BY <1>0, <2>1 DEF InProgress
  <2>. QED  BY <2>1, <2>2, ReadMove DEF PC
<1>3. CASE SearchHit(c)
  <2>1. PICK i \in 1..Len(checkpoints) :
          /\ Highest(i, call[c].off)
          /\ zr' = [zr EXCEPT ![own[c]] = [pos |-> checkpoints[i].out, err |-> "nil",
                                           tail |-> checkpoints[i].tail]]
    BY <1>3 DEF SearchHit
  <2>2. i \in 1..Len(Marks) /\ checkpoints[i] = Marks[i]
    BY CheckpointsAreMarks
  <2>3. Marks[i].out <= Size /\ ~Marks[i].tail /\ Marks[i].out \in Nat
    BY <2>2, MarksAssumption, MarksLemma DEF NoTail, Mark
  <2>4. Marks[i].out <= call[c].off
    BY <2>1, <2>2, LenProperties DEF Highest, TypeOK
  <2>5. /\ own[c] \in ReaderId
        /\ zr'[own[c]] = [pos |-> Marks[i].out, err |-> "nil", tail |-> Marks[i].tail]
        /\ \A z \in ReaderId : z # own[c] => zr'[z] = zr[z]
    BY <2>1, <2>2 DEF TypeOK
  <2>6. /\ pc'[c] = "discard" /\ \A d \in Caller \ {c} : pc'[d] = pc[d]
        /\ UNCHANGED <<faults, checkpoints, call, own>>
    BY <1>3 DEF SearchHit, TypeOK, gvars
  <2>7. Streams'
    BY <2>3, <2>5, <2>6, RulesAssumption DEF ReadInv, Streams
  <2>8. InProgress(c)'
    BY <1>0, <2>4, <2>5, <2>6 DEF InProgress
  <2>9. \A d \in Caller \ {c} : Working(d) => zr'[own[d]] = zr[own[d]]
    BY <1>0, <2>5, InsideSplit DEF Ownership, TypeOK
  <2>. QED  BY <2>6, <2>7, <2>8, <2>9, ReadOthers
<1>4. CASE SearchMiss(c)
  <2>1. /\ pc'[c] = "scan" /\ pc' = [pc EXCEPT ![c] = "scan"]
        /\ UNCHANGED <<zr, faults, checkpoints, call, own>>
    BY <1>4 DEF SearchMiss, TypeOK, gvars, rvars
  <2>2. checkpoints = <<>>
    <3>1. SUFFICES ASSUME checkpoints # <<>> PROVE FALSE
      OBVIOUS
    <3>2. 1 \in 1..Len(checkpoints)
      BY <3>1, EmptySeq DEF TypeOK
    <3>3. checkpoints[1] = Marks[1]
      BY <3>2, CheckpointsAreMarks
    <3>. QED  BY <1>0, <1>4, <3>1, <3>3, MarksAssumption DEF SearchMiss
  <2>3. InProgress(c)'
    BY <1>0, <2>1, <2>2 DEF InProgress
  <2>. QED  BY <2>1, <2>3, ReadMove DEF PC
<1>5. CASE ScanHit(c)
  <2>1. PICK z \in ReaderId :
          /\ zr[z].pos <= call[c].off /\ own' = [own EXCEPT ![c] = z]
          /\ pc' = [pc EXCEPT ![c] = IF zr[z].pos = call[c].off THEN "read" ELSE "discard"]
    BY <1>5 DEF ScanHit, Reaches, Claim
  <2>2. /\ own'[c] = z /\ \A d \in Caller \ {c} : own'[d] = own[d]
        /\ pc'[c] = (IF zr[z].pos = call[c].off THEN "read" ELSE "discard")
        /\ UNCHANGED <<zr, faults, checkpoints, call>>
    BY <1>5, <2>1 DEF ScanHit, TypeOK, gvars
  <2>3. InProgress(c)'
    BY <1>0, <2>1, <2>2 DEF InProgress
  <2>4. (IF zr[z].pos = call[c].off THEN "read" ELSE "discard") \in PC
    BY DEF PC
  <2>. QED  BY <2>1, <2>2, <2>3, <2>4, ReadMove
<1>6. CASE ScanMiss(c) \/ DiscardFailed(c)
  BY <1>6, ReadLeave DEF ScanMiss, DiscardFailed, TypeOK, gvars, rvars
<1>7. CASE Register(c)
  <2>1. /\ zr[own[c]].pos = call[c].off
        /\ pc'[c] = "read" /\ pc' = [pc EXCEPT ![c] = "read"]
        /\ UNCHANGED <<zr, faults, checkpoints, call, own>>
    BY <1>7 DEF Register, TypeOK, gvars
  <2>2. InProgress(c)'
    BY <1>0, <2>1 DEF InProgress
  <2>. QED  BY <2>1, <2>2, ReadMove DEF PC
<1>. QED  BY <1>1, <1>2, <1>3, <1>4, <1>5, <1>6, <1>7 DEF Acquire

(* A step of decoding collects the next bytes of the stream.               *)
LEMMA ReadDecode ==
  ASSUME TypeOK, Ownership, NoTail, ReadInv, NEW c \in Caller, Decode(c)
  PROVE  ReadInv'
<1>0. /\ own[c] \in ReaderId /\ ~zr[own[c]].tail /\ faults \in Nat
      /\ zr[own[c]].pos \in Nat
  BY BoundsAssumption DEF TypeOK, ReadInv, Streams
<1>1. CASE Deliver(c)
  <2>1. PICK e \in {"nil"} \cup (IF AtEnd(own[c], zr[own[c]].pos + Room(c)) THEN {End} ELSE {}) :
          Advance(c, Room(c), e)
    BY <1>1 DEF Deliver
  <2>2. e \in {"nil", "io", End} /\ (e = End => zr[own[c]].pos + Room(c) = Size)
    BY <2>1, RulesAssumption DEF AtEnd
  <2>3. Room(c) \in Nat
    <3>1. /\ Want(c) \in Int /\ Stop(own[c]) \in Nat
      BY <1>0, DecodeTypes
    <3>. QED  BY <1>0, <1>1, <3>1 DEF Room, Deliver
  <2>4. /\ Decoding(c) /\ UNCHANGED <<pc, own, checkpoints, faults>> /\ e # "io"
    BY <1>1, <2>1, RulesAssumption DEF Deliver, gvars
  <2>. QED  BY <1>0, <2>1, <2>2, <2>3, <2>4, ReadAdvance
<1>2. CASE HitEnd(c)
  <2>1. /\ Decoding(c) /\ Advance(c, 0, End) /\ zr[own[c]].pos = Size /\ Want(c) > 0
        /\ UNCHANGED <<pc, own, checkpoints, faults>> /\ End # "io"
    BY <1>2, RulesAssumption DEF HitEnd, AtEnd, gvars
  <2>2. 0 <= Room(c) /\ zr[own[c]].pos + 0 = Size
    <3>1. ~Unsent(own[c])
      BY <1>2 DEF HitEnd, AtEnd
    <3>2. Want(c) \in Int
      BY <1>0, DecodeTypes
    <3>. QED  BY <1>0, <2>1, <3>1, <3>2, SizeAssumption DEF Room, Stop
  <2>. QED  BY <1>0, <2>1, <2>2, ReadAdvance
<1>3. CASE Fail(c)
  <2>1. PICK k \in 0..Room(c) : Advance(c, k, "io")
    BY <1>3 DEF Fail
  <2>2. k \in Nat /\ k <= Room(c)
    <3>1. Room(c) \in Int
      BY DecodeTypes
    <3>. QED  BY <3>1
  <2>3. /\ Decoding(c) /\ UNCHANGED <<pc, own, checkpoints>>
        /\ faults' \in Nat /\ faults <= faults' /\ faults' > 0 /\ "io" # End
    BY <1>0, <1>3, RulesAssumption DEF Fail, gvars
  <2>. QED  BY <2>1, <2>2, <2>3, ReadAdvance
<1>4. CASE Corrupt(c)
  BY <1>0, <1>4 DEF Corrupt
<1>5. CASE Send(c) \/ SendOnClosed(c)
  BY <1>5, ReadFrame DEF Send, SendOnClosed, gvars, rvars
<1>. QED  BY <1>1, <1>2, <1>3, <1>4, <1>5 DEF Decode

(* Every step keeps ReadInv.                                               *)
LEMMA ReadStep ==
  TypeOK /\ Ownership /\ CheckpointOrder /\ NoTail /\ ReadInv /\ [Next]_vars => ReadInv'
<1>. SUFFICES ASSUME TypeOK, Ownership, CheckpointOrder, NoTail, ReadInv, [Next]_vars
              PROVE  ReadInv'
  OBVIOUS
<1>1. CASE UNCHANGED vars
  BY <1>1, ReadFrame DEF vars, gvars, rvars
<1>2. CASE Goroutine
  <2>1. UNCHANGED <<pc, call, own, zr, faults>>
    BY <1>2 DEF Goroutine, Receive, AppendCheckpoint, Exit, rvars
  <2>2. ASSUME checkpoints # <<>> PROVE checkpoints' # <<>>
    <3>1. CASE AppendCheckpoint
      <4>1. /\ checkpoints' = checkpoints \o hand /\ Len(checkpoints) > 0
        BY <2>2, <3>1, EmptySeq, LenProperties DEF AppendCheckpoint, TypeOK
      <4>2. Len(checkpoints') > 0 /\ checkpoints' \in Seq(Mark)
        BY <4>1, ConcatProperties, LenProperties DEF TypeOK
      <4>. QED  BY <4>2, EmptySeq
    <3>. QED  BY <1>2, <2>2, <3>1 DEF Goroutine, Receive, Exit
  <2>. QED  BY <2>1, <2>2, ReadFrame
<1>3. ASSUME NEW c \in Caller, Release(c) \/ WaitReturn(c) \/ EncodeReturn(c) PROVE ReadInv'
  BY <1>3, ReadLeave DEF Release, WaitReturn, EncodeReturn, TypeOK, gvars, rvars
<1>4. ASSUME NEW c \in Caller, Wait(c) \/ Encode(c) PROVE ReadInv'
  BY <1>4, ReadLeave DEF Wait, Encode, gvars, rvars
<1>5. ASSUME NEW c \in Caller, Call(c) PROVE ReadInv'
  <2>1. PICK off \in Offs, len \in Lens :
          call' = [call EXCEPT ![c] = Fresh(off, len, checkpoints = <<>>)]
    BY <1>5 DEF Call
  <2>2. /\ pc' = [pc EXCEPT ![c] = "exact"] /\ pc'[c] = "exact"
        /\ UNCHANGED <<zr, faults, checkpoints>>
        /\ call'[c] = Fresh(off, len, checkpoints = <<>>)
        /\ \A d \in Caller \ {c} : own'[d] = own[d] /\ call'[d] = call[d]
    BY <1>5, <2>1 DEF Call, TypeOK, gvars, rvars
  <2>3. /\ call'[c].err = "nil" /\ call'[c].data = <<>>
        /\ call'[c].early = (checkpoints = <<>>)
    BY <2>2 DEF Fresh
  <2>4. InProgress(c)'
    BY <2>2, <2>3 DEF InProgress
  <2>. QED  BY <2>2, <2>4, ReadMove DEF PC
<1>. QED
  BY <1>1, <1>2, <1>3, <1>4, <1>5, ReadAcquire, ReadDecode, RulesAssumption DEF Next, Run

(* ReadInv always holds if no checkpoint follows a final block.            *)
LEMMA ReadInvariant ==
  ASSUME NoTail PROVE Spec => [](TypeOK /\ Ownership /\ CheckpointOrder /\ ReadInv)
<1>1. Init => TypeOK /\ Ownership /\ CheckpointOrder /\ ReadInv
  BY TypeInit, OwnershipInit, OrderInit, ReadInit
<1>2. TypeOK /\ Ownership /\ CheckpointOrder /\ ReadInv /\ [Next]_vars
        => (TypeOK /\ Ownership /\ CheckpointOrder /\ ReadInv)'
  BY TypeStep, OwnershipStep, OrderStep, ReadStep
<1>. QED  BY <1>1, <1>2, PTL DEF Spec

(* If no checkpoint lies behind a final block, every byte a ReadAt has put *)
(* into its buffer is the byte of the stream that belongs there, whichever *)
(* reader it took and whatever others do (gsip.go:93-204).                 *)
THEOREM ReadsTheStream == ASSUME NoTail PROVE Spec => []ReadsStream
<1>1. TypeOK /\ ReadInv => ReadsStream
  <2>. SUFFICES ASSUME TypeOK, ReadInv, NEW c \in Caller
                PROVE  /\ pc[c] = "discard" => zr[own[c]].pos <= call[c].off
                       /\ pc[c] = "read" =>
                            /\ zr[own[c]].pos = call[c].off + Len(call[c].data)
                            /\ \A i \in 1..Len(call[c].data) :
                                 /\ call[c].data[i] = call[c].off + i - 1
                                 /\ call[c].data[i] < Size
    BY DEF ReadsStream
  <2>1. /\ own[c] \in ReaderId /\ zr[own[c]].pos <= Size /\ zr[own[c]].pos \in Nat
        /\ call[c].off \in Nat /\ Len(call[c].data) \in Nat /\ InProgress(c)
    BY LenProperties DEF TypeOK, ReadInv, Streams, CallType
  <2>2. CASE pc[c] = "discard"
    BY <2>1, <2>2 DEF InProgress
  <2>3. CASE pc[c] = "read"
    <3>1. /\ zr[own[c]].pos = call[c].off + Len(call[c].data)
          /\ \A i \in 1..Len(call[c].data) : call[c].data[i] = call[c].off + i - 1
      BY <2>1, <2>3 DEF InProgress
    <3>2. \A i \in 1..Len(call[c].data) : call[c].data[i] < Size
      BY <2>1, <3>1, SizeAssumption
    <3>. QED  BY <2>3, <3>1, <3>2
  <2>. QED  BY <2>2, <2>3
<1>. QED  BY <1>1, ReadInvariant, PTL

---------------------------------------------------------------------------
(* Gsip implements ReaderAt *)

(* Initial states are initial states of ReaderAt.                          *)
LEMMA RefInit == Init => RA!Init
<1>. SUFFICES ASSUME Init PROVE RA!Init
  OBVIOUS
<1>1. \A c \in Caller : ~Inside(c) /\ call[c] = RA!Fresh(0, 0, FALSE)
  BY DEF Init, Inside, Fresh, RA!Fresh
<1>2. AbsBusy = [c \in Caller |-> FALSE]
  BY <1>1 DEF AbsBusy, Inside
<1>3. AbsCall = [c \in Caller |-> RA!Fresh(0, 0, FALSE)]
  BY <1>1 DEF AbsCall, Shown
<1>4. AbsFaulty = FALSE
  BY DEF Init, AbsFaulty
<1>5. AbsIndexed \in BOOLEAN
  BY Zenon DEF AbsIndexed
<1>. QED  BY <1>2, <1>3, <1>4, <1>5 DEF RA!Init

(* A step that leaves every call as it was, or only adds bytes.            *)
LEMMA RefSame ==
  ASSUME \A c \in Caller : Inside(c)' = Inside(c) /\ Shown(c)' = Shown(c),
         AbsFaulty' = AbsFaulty, AbsIndexed' = AbsIndexed
  PROVE  UNCHANGED RA!vars
BY DEF RA!vars, AbsBusy, AbsCall

(* ReaderAt sees nothing but these variables.                              *)
LEMMA RefFrame ==
  ASSUME UNCHANGED <<pc, call, faults, checkpoints>> PROVE UNCHANGED RA!vars
BY RefSame DEF Inside, Shown, AbsFaulty, AbsIndexed

(* Moving on inside ReadAt, or outside of it. *)
LEMMA RefMove ==
  ASSUME TypeOK, NEW c \in Caller, NEW p \in PC, pc' = [pc EXCEPT ![c] = p],
         Inside(c) <=> p \notin {"idle", "wait", "encode"},
         UNCHANGED <<call, faults, checkpoints>>
  PROVE  UNCHANGED RA!vars
<1>1. \A d \in Caller : Inside(d)' <=> Inside(d)
  BY PcChange
<1>2. \A d \in Caller : Inside(d)' = Inside(d)
  BY <1>1 DEF Inside
<1>. QED  BY <1>2, RefSame DEF Shown, AbsFaulty, AbsIndexed

(* A contiguous piece of the stream is its contents from there on.         *)
LEMMA ContentsOf ==
  ASSUME NEW off \in Nat, NEW s \in Seq(Nat), \A i \in 1..Len(s) : s[i] = off + i - 1
  PROVE  s = RA!Contents(off, Len(s))
<1>1. s = [i \in 1..Len(s) |-> s[i]]
  BY Zenon, LenProperties
<1>. QED  BY <1>1 DEF RA!Contents

(* An empty buffer holds the stream, as far as it goes.                    *)
LEMMA NothingYet ==
  ASSUME NEW off, NEW len \in Nat, NEW d, d = <<>>
  PROVE  Len(d) = 0 /\ Len(d) <= len /\ \A i \in 1..Len(d) : d[i] = off + i - 1
OBVIOUS

(* Returning, with a result that ReaderAt allows. *)
LEMMA RefReturn ==
  ASSUME TypeOK, ReadInv, NEW c \in Caller, Inside(c),
         NEW e \in {"nil", "EOF", "wrappedEOF", "notFound", "io"},
         pc' = [pc EXCEPT ![c] = "idle"], call' = [call EXCEPT ![c].err = e],
         UNCHANGED <<faults, checkpoints>>,
         \A i \in 1..Len(call[c].data) : call[c].data[i] = call[c].off + i - 1,
         Len(call[c].data) <= call[c].len,
         RA!Allowed(call[c].off, call[c].len, call[c].early, Len(call[c].data), e)
  PROVE  RA!Return(c)
<1>. DEFINE n == Len(call[c].data)
<1>1. n \in Nat /\ call[c] \in CallType /\ call[c].data \in Seq(Nat) /\ call[c].len \in Nat
  BY LenProperties DEF TypeOK, CallType
<1>2. /\ ~Inside(c)' /\ \A d \in Caller \ {c} : Inside(d)' <=> Inside(d)
  <2>1. "idle" \in PC
    BY DEF PC
  <2>. QED  BY <2>1, PcChange
<1>3. AbsBusy' = [AbsBusy EXCEPT ![c] = FALSE]
  BY <1>2 DEF AbsBusy, Inside
<1>4. AbsCall[c] = [call[c] EXCEPT !.data = <<>>]
  BY DEF AbsCall, Shown
<1>5. call[c].data = RA!Contents(call[c].off, n)
  BY <1>1, ContentsOf DEF CallType
<1>6. AbsCall' = [AbsCall EXCEPT ![c].data = RA!Contents(call[c].off, n), ![c].err = e]
  <2>1. Shown(c)' = [call[c] EXCEPT !.err = e]
    BY <1>2 DEF Shown, TypeOK
  <2>2. \A d \in Caller \ {c} : Shown(d)' = Shown(d)
    BY <1>2 DEF Shown, TypeOK
  <2>3. [call[c] EXCEPT !.err = e]
          = [AbsCall[c] EXCEPT !.data = RA!Contents(call[c].off, n), !.err = e]
    BY <1>1, <1>4, <1>5 DEF CallType
  <2>. QED  BY <2>1, <2>2, <2>3 DEF AbsCall
<1>7. n \in 0..AbsCall[c].len /\ AbsBusy[c]
  BY <1>1, <1>4 DEF CallType, AbsBusy
<1>8. RA!Allowed(AbsCall[c].off, AbsCall[c].len, AbsCall[c].early, n, e)
  BY <1>1, <1>4 DEF CallType
<1>9. AbsCall[c].off = call[c].off
  BY <1>1, <1>4 DEF CallType
<1>10. UNCHANGED <<AbsIndexed, AbsFaulty>>
  BY DEF AbsIndexed, AbsFaulty
<1>. QED  BY <1>3, <1>6, <1>7, <1>8, <1>9, <1>10 DEF RA!Return

(* Every step is a step of ReaderAt or none.                               *)
LEMMA RefStep ==
  TypeOK /\ Ownership /\ CheckpointOrder /\ NoTail /\ ReadInv /\ [Next]_vars => [RA!Next]_RA!vars
<1>. SUFFICES ASSUME TypeOK, ReadInv, [Next]_vars PROVE [RA!Next]_RA!vars
  OBVIOUS
<1>1. CASE UNCHANGED vars
  BY <1>1, RefFrame DEF vars, gvars
<1>2. CASE Receive \/ Exit
  BY <1>2, RefFrame DEF Receive, Exit
<1>3. CASE AppendCheckpoint
  <2>1. /\ Len(hand) > 0 /\ checkpoints' = checkpoints \o hand /\ UNCHANGED <<pc, call, faults>>
    BY <1>3, EmptySeq, LenProperties DEF AppendCheckpoint, TypeOK
  <2>2. Len(checkpoints') > 0 /\ checkpoints' \in Seq(Mark)
    BY <2>1, ConcatProperties, LenProperties DEF TypeOK
  <2>3. checkpoints' # <<>>
    BY <2>2, EmptySeq
  <2>4. AbsIndexed' = TRUE
    BY <2>3 DEF AbsIndexed
  <2>5. UNCHANGED <<AbsBusy, AbsCall, AbsFaulty>>
    BY <2>1 DEF AbsBusy, AbsCall, AbsFaulty, Inside, Shown
  <2>. QED  BY <2>4, <2>5 DEF RA!Next, RA!Index
<1>4. ASSUME NEW c \in Caller, Acquire(c) PROVE [RA!Next]_RA!vars
  <2>1. CASE MatchExact(c) \/ MissExact(c) \/ SearchHit(c) \/ SearchMiss(c) \/ ScanHit(c)
             \/ Register(c)
    <3>1. PICK p \in {"search", "scan", "discard", "read"} :
            /\ pc' = [pc EXCEPT ![c] = p] /\ pc[c] \notin {"idle", "wait", "encode"}
            /\ UNCHANGED <<call, faults, checkpoints>>
      <4>1. CASE ScanHit(c)
        BY <4>1 DEF ScanHit, gvars
      <4>. QED
        BY <2>1, <4>1 DEF MatchExact, MissExact, SearchHit, SearchMiss, Register, gvars
    <3>2. p \in PC /\ p \notin {"idle", "wait", "encode"}
      BY DEF PC
    <3>. QED  BY <3>1, <3>2, RefMove DEF Inside
  <2>2. CASE ScanMiss(c)
    <3>1. /\ Inside(c) /\ pc[c] = "scan"
      BY <2>2 DEF ScanMiss, Inside
    <3>2. /\ call[c].early /\ call[c].data = <<>> /\ call[c].len \in Nat
      BY <3>1 DEF ReadInv, InProgress, TypeOK, CallType
    <3>3. RA!Allowed(call[c].off, call[c].len, call[c].early, Len(call[c].data), "notFound")
      BY <3>2 DEF RA!Allowed
    <3>4. /\ pc' = [pc EXCEPT ![c] = "idle"] /\ call' = [call EXCEPT ![c].err = "notFound"]
          /\ UNCHANGED <<faults, checkpoints>>
      BY <2>2 DEF ScanMiss, gvars
    <3>5. /\ Len(call[c].data) <= call[c].len
          /\ \A i \in 1..Len(call[c].data) : call[c].data[i] = call[c].off + i - 1
      BY <3>2, NothingYet
    <3>6. RA!Return(c)
      BY <3>1, <3>3, <3>4, <3>5, RefReturn
    <3>. QED  BY <3>6 DEF RA!Next
  <2>3. CASE DiscardFailed(c)
    <3>1. /\ Inside(c) /\ pc[c] = "discard" /\ own[c] \in ReaderId
      BY <2>3 DEF DiscardFailed, Inside, TypeOK
    <3>2. /\ call[c].data = <<>> /\ call[c].len \in Nat /\ call[c].off \in Nat
          /\ zr[own[c]].pos <= call[c].off /\ zr[own[c]].pos \in Nat
      BY <3>1 DEF ReadInv, InProgress, TypeOK, CallType
    <3>3. PICK e \in {"wrappedEOF", "io"} :
            /\ call' = [call EXCEPT ![c].err = e]
            /\ e = "wrappedEOF" => zr[own[c]].pos = Size
            /\ e = "io" => AbsFaulty
      BY <2>3, <3>1 DEF DiscardFailed, ReadInv, Streams, AbsFaulty
    <3>4. RA!Allowed(call[c].off, call[c].len, call[c].early, Len(call[c].data), e)
      <4>1. Len(call[c].data) = 0 /\ zr[own[c]].pos # call[c].off
        BY <2>3, <3>2 DEF DiscardFailed
      <4>2. CASE e = "wrappedEOF"
        BY <3>2, <3>3, <4>1, <4>2 DEF RA!Allowed
      <4>3. CASE e = "io"
        <5>1. AbsFaulty
          BY <3>3, <4>3
        <5>2. 0 <= call[c].len
          BY <3>2
        <5>. QED  BY <4>1, <4>3, <5>1, <5>2, Zenon DEF RA!Allowed
      <4>. QED  BY <4>2, <4>3
    <3>5. pc' = [pc EXCEPT ![c] = "idle"] /\ UNCHANGED <<faults, checkpoints>>
      BY <2>3 DEF DiscardFailed, gvars
    <3>6. /\ Len(call[c].data) <= call[c].len
          /\ \A i \in 1..Len(call[c].data) : call[c].data[i] = call[c].off + i - 1
      BY <3>2, NothingYet
    <3>7. RA!Return(c)
      BY <3>1, <3>3, <3>4, <3>5, <3>6, RefReturn
    <3>. QED  BY <3>7 DEF RA!Next
  <2>. QED  BY <1>4, <2>1, <2>2, <2>3 DEF Acquire
<1>5. ASSUME NEW c \in Caller, Decode(c) PROVE [RA!Next]_RA!vars
  <2>1. CASE Send(c) \/ SendOnClosed(c)
    BY <2>1, RefFrame DEF Send, SendOnClosed, gvars
  <2>2. CASE Deliver(c) \/ HitEnd(c) \/ Fail(c) \/ Corrupt(c)
    <3>1. PICK k, e : Decoding(c) /\ Advance(c, k, e)
      BY <2>2 DEF Deliver, HitEnd, Fail, Corrupt
    <3>2. UNCHANGED <<pc, checkpoints>>
      BY <2>2 DEF Deliver, HitEnd, Fail, Corrupt, gvars
    <3>3. \A d \in Caller : Inside(d)' = Inside(d) /\ Shown(d)' = Shown(d)
      <4>1. ASSUME NEW d \in Caller \ {c} PROVE call'[d] = call[d]
        BY <3>1 DEF Advance, TypeOK
      <4>2. [call'[c] EXCEPT !.data = <<>>] = [call[c] EXCEPT !.data = <<>>]
        <5>1. call[c] \in CallType
          BY DEF TypeOK
        <5>2. CASE pc[c] = "read"
          <6>1. call'[c] = [call[c] EXCEPT !.data = @ \o Bytes(own[c], k)]
            BY <3>1, <5>2 DEF Advance, TypeOK
          <6>. QED  BY <5>1, <6>1 DEF CallType
        <5>3. CASE pc[c] # "read"
          BY <3>1, <5>3 DEF Advance
        <5>. QED  BY <5>2, <5>3
      <4>3. Inside(c)
        BY <3>1 DEF Decoding, Inside
      <4>4. \A d \in Caller : Inside(d)' = Inside(d)
        BY <3>2 DEF Inside
      <4>. QED  BY <4>1, <4>2, <4>3, <4>4 DEF Shown
    <3>4. CASE Fail(c)
      <4>1. AbsFaulty' = TRUE
        <5>1. faults \in Nat /\ faults' = faults + 1
          BY <3>4, BoundsAssumption DEF Fail, TypeOK
        <5>. QED  BY <5>1 DEF AbsFaulty
      <4>2. UNCHANGED <<AbsBusy, AbsCall, AbsIndexed>>
        BY <3>2, <3>3 DEF AbsBusy, AbsCall, AbsIndexed
      <4>. QED  BY <4>1, <4>2 DEF RA!Next, RA!Fault
    <3>5. CASE ~Fail(c)
      <4>1. faults' = faults
        BY <2>2, <3>5 DEF Deliver, HitEnd, Corrupt
      <4>. QED  BY <3>2, <3>3, <4>1, RefSame DEF AbsFaulty, AbsIndexed
    <3>. QED  BY <3>4, <3>5
  <2>. QED  BY <1>5, <2>1, <2>2 DEF Decode
<1>6. ASSUME NEW c \in Caller, Release(c) PROVE [RA!Next]_RA!vars
  <2>1. /\ Inside(c) /\ pc[c] = "read" /\ own[c] \in ReaderId
        /\ Want(c) = call[c].len - Len(call[c].data)
    BY <1>6 DEF Release, Inside, TypeOK, Want
  <2>2. /\ call[c].len \in Nat /\ call[c].off \in Nat /\ Len(call[c].data) \in Nat
        /\ zr[own[c]].pos \in Nat
    BY <2>1, LenProperties DEF TypeOK, CallType
  <2>3. /\ zr[own[c]].pos = call[c].off + Len(call[c].data)
        /\ Len(call[c].data) <= call[c].len
        /\ \A i \in 1..Len(call[c].data) : call[c].data[i] = call[c].off + i - 1
    BY <2>1 DEF ReadInv, InProgress
  <2>4. /\ zr[own[c]].pos <= Size
        /\ zr[own[c]].err \in {"nil", "io", End}
        /\ zr[own[c]].err = End => zr[own[c]].pos = Size
        /\ zr[own[c]].err = "io" => AbsFaulty
    BY <2>1 DEF ReadInv, Streams, AbsFaulty
  <2>5. RA!Allowed(call[c].off, call[c].len, call[c].early, Len(call[c].data), Result(c))
        /\ Result(c) \in {"nil", "EOF", "io"}
    <3>1. CASE Want(c) = 0
      BY <2>1, <2>2, <2>3, <2>4, <3>1 DEF Result, RA!Allowed
    <3>2. CASE Want(c) # 0 /\ zr[own[c]].err = End
      <4>1. Result(c) = "EOF"
        BY <3>2, RulesAssumption DEF Result
      <4>. QED  BY <2>1, <2>2, <2>3, <2>4, <3>2, <4>1 DEF RA!Allowed
    <3>3. CASE Want(c) # 0 /\ zr[own[c]].err = "io"
      <4>1. Result(c) = "io" /\ AbsFaulty
        BY <2>4, <3>3 DEF Result
      <4>2. call[c].off + Len(call[c].data) <= Size
        BY <2>2, <2>3, <2>4, SizeAssumption
      <4>. QED  BY <2>3, <4>1, <4>2, Zenon DEF RA!Allowed
    <3>. QED  BY <1>6, <2>4, <3>1, <3>2, <3>3 DEF Release
  <2>6. RA!Return(c)
    BY <1>6, <2>1, <2>3, <2>5, RefReturn DEF Release, gvars
  <2>. QED  BY <2>6 DEF RA!Next
<1>7. ASSUME NEW c \in Caller, Wait(c) \/ WaitReturn(c) \/ Encode(c) \/ EncodeReturn(c)
      PROVE  [RA!Next]_RA!vars
  <2>1. PICK p \in {"idle", "wait", "encode"} :
          /\ pc' = [pc EXCEPT ![c] = p] /\ pc[c] \in {"idle", "wait", "encode"}
          /\ UNCHANGED <<call, faults, checkpoints>>
    BY <1>7 DEF Wait, WaitReturn, Encode, EncodeReturn, gvars
  <2>2. p \in PC
    BY DEF PC
  <2>. QED  BY <2>1, <2>2, RefMove DEF Inside
<1>8. ASSUME NEW c \in Caller, Call(c) PROVE RA!Call(c)
  <2>1. PICK off \in Offs, len \in Lens :
          call' = [call EXCEPT ![c] = Fresh(off, len, checkpoints = <<>>)]
    BY <1>8 DEF Call
  <2>2. ~Inside(c) /\ pc' = [pc EXCEPT ![c] = "exact"] /\ UNCHANGED <<faults, checkpoints>>
    BY <1>8 DEF Call, Inside, gvars
  <2>3. Inside(c)' /\ \A d \in Caller \ {c} : Inside(d)' = Inside(d)
    BY <2>2 DEF Inside, TypeOK
  <2>4. AbsBusy' = [AbsBusy EXCEPT ![c] = TRUE] /\ ~AbsBusy[c]
    BY <2>2, <2>3 DEF AbsBusy, Inside
  <2>5. Shown(c)' = RA!Fresh(off, len, ~AbsIndexed)
    BY <2>1, <2>3 DEF Shown, Fresh, RA!Fresh, AbsIndexed, TypeOK
  <2>6. \A d \in Caller \ {c} : Shown(d)' = Shown(d)
    BY <2>1, <2>3 DEF Shown, TypeOK
  <2>7. AbsCall' = [AbsCall EXCEPT ![c] = RA!Fresh(off, len, ~AbsIndexed)]
    BY <2>5, <2>6 DEF AbsCall
  <2>. QED  BY <2>2, <2>4, <2>7 DEF RA!Call, AbsIndexed, AbsFaulty
<1>. QED
  BY <1>1, <1>2, <1>3, <1>4, <1>5, <1>6, <1>7, <1>8, RulesAssumption
     DEF Next, Run, Goroutine, RA!Next

(* gsip.Reader implements ReaderAt: for every stream without a checkpoint  *)
(* behind a final block, any number of concurrent ReadAts each return the  *)
(* right bytes with io.EOF exactly at the end (gsip.go:93-204).            *)
THEOREM Refinement == ASSUME NoTail PROVE Spec => ImplementsReaderAt
BY RefInit, ReadInvariant, RefStep, PTL DEF Spec, ImplementsReaderAt, RA!Spec

---------------------------------------------------------------------------
(* Wait and the frontier *)

(* A frontier that has come to its end never decodes again, so it sends    *)
(* nothing; and as a reader of the pool it is nobody's new reader, which   *)
(* would start afresh.                                                     *)
Stopped ==
  closed => zr[Frontier].err # "nil" /\ pool[Frontier] # "absent"

(* The frontier has a name.                                                *)
LEMMA FrontierId == Frontier \in ReaderId
BY BoundsAssumption DEF Frontier, ReaderId

(* Once the channel is closed the frontier decodes no more.                *)
LEMMA StoppedStep ==
  ASSUME WaitRule = "frontier"
  PROVE  TypeOK /\ Ownership /\ Stopped /\ PanicFree /\ [Next]_vars => Stopped' /\ PanicFree'
<1>. SUFFICES ASSUME TypeOK, Ownership, Stopped, PanicFree, [Next]_vars
              PROVE  Stopped' /\ PanicFree'
  OBVIOUS
<1>1. CASE UNCHANGED vars
  BY <1>1 DEF vars, gvars, rvars, Stopped, PanicFree
<1>2. CASE Goroutine
  BY <1>2 DEF Goroutine, Receive, AppendCheckpoint, Exit, rvars, Stopped, PanicFree
<1>3. ASSUME NEW c \in Caller, Acquire(c) PROVE Stopped' /\ PanicFree'
  <2>1. closed' = closed /\ panicked' = panicked
    BY <1>3 DEF Acquire, MatchExact, MissExact, SearchHit, SearchMiss, ScanHit, ScanMiss,
                Register, DiscardFailed, gvars
  <2>2. pool[Frontier] # "absent" => pool'[Frontier] # "absent"
    BY <1>3, FrontierId
       DEF Acquire, MatchExact, MissExact, SearchHit, SearchMiss, ScanHit, ScanMiss,
           Register, DiscardFailed, Claim, rvars, TypeOK
  <2>3. pool[Frontier] # "absent" => zr'[Frontier] = zr[Frontier]
    <3>1. CASE SearchHit(c)
      <4>1. pool[own[c]] = "absent"
        BY <3>1 DEF SearchHit, Reserved, Ownership
      <4>2. PICK r : zr' = [zr EXCEPT ![own[c]] = r]
        BY <3>1 DEF SearchHit
      <4>. QED  BY <4>1, <4>2, FrontierId DEF TypeOK
    <3>. QED
      BY <1>3, <3>1 DEF Acquire, MatchExact, MissExact, SearchMiss, ScanHit, ScanMiss,
                        Register, DiscardFailed, rvars
  <2>. QED  BY <2>1, <2>2, <2>3 DEF Stopped, PanicFree
<1>4. ASSUME NEW c \in Caller, Decode(c) PROVE Stopped' /\ PanicFree'
  <2>1. CASE \E k, e : Decoding(c) /\ Advance(c, k, e) /\ UNCHANGED <<closed, pool, panicked>>
    <3>1. closed => own[c] # Frontier
      BY <2>1 DEF Decoding, Stopped
    <3>2. closed => zr'[Frontier] = zr[Frontier]
      BY <2>1, <3>1, FrontierId DEF Advance, TypeOK
    <3>. QED  BY <2>1, <3>2 DEF Stopped, PanicFree
  <2>2. CASE Send(c)
    BY <2>2 DEF Send, rvars, Stopped, PanicFree
  <2>3. ~SendOnClosed(c)
    BY DEF SendOnClosed, Sending, Decoding, Due, Unsent, Stopped
  <2>. QED
    BY <1>4, <2>1, <2>2, <2>3 DEF Decode, Deliver, HitEnd, Fail, Corrupt, gvars
<1>5. ASSUME NEW c \in Caller, Release(c) PROVE Stopped' /\ PanicFree'
  <2>1. pool[Frontier] # "absent" => pool'[Frontier] # "absent"
    BY <1>5, FrontierId DEF Release, PutBack, TypeOK
  <2>. QED  BY <1>5, <2>1 DEF Release, gvars, Stopped, PanicFree
<1>6. ASSUME NEW c \in Caller, Wait(c) PROVE Stopped' /\ PanicFree'
  BY <1>6, RulesAssumption DEF Wait, Close, MayWait, rvars, Stopped, PanicFree
<1>7. ASSUME NEW c \in Caller, Call(c) \/ WaitReturn(c) \/ Encode(c) \/ EncodeReturn(c)
      PROVE  Stopped' /\ PanicFree'
  BY <1>7 DEF Call, WaitReturn, Encode, EncodeReturn, gvars, rvars, Stopped, PanicFree
<1>. QED  BY <1>1, <1>2, <1>3, <1>4, <1>5, <1>6, <1>7, RulesAssumption DEF Next, Run

(* Whoever calls Wait only when the frontier has come to its end never     *)
(* makes the process panic, however often Wait is called and whatever      *)
(* ReadAts follow (gsip.go:206-213, flate/inflate.go:791-793).             *)
THEOREM WaitIsSafe == ASSUME WaitRule = "frontier" PROVE Spec => []PanicFree
<1>1. Init => Stopped /\ PanicFree
  BY DEF Init, Stopped, PanicFree
<1>. QED  BY <1>1, TypeCorrect, OwnershipInvariant, StoppedStep, PTL DEF Spec

---------------------------------------------------------------------------
(* The index is complete *)

(* A frontier whose error is the end of the stream has sent everything, so *)
(* nothing is missing once the channel is closed and drained.              *)
Drained ==
  /\ gor # "absent" =>
       /\ pool[Frontier] # "absent" /\ ~zr[Frontier].tail
       /\ zr[Frontier].err = End => sent = Len(Marks)
  /\ closed => gor # "absent" /\ sent = Len(Marks)
  /\ gor = "exited" => closed /\ hand = <<>> /\ updates = <<>>

(* Without a goroutine that appends, what Encode has found and what it has *)
(* saved stay up to date.                                                  *)
UpToDate ==
  /\ \A c \in Caller : snap[c].quiet => gor # "running" /\ snap[c].len = Len(checkpoints)
  /\ saved.quiet => gor # "running" /\ saved.marks = checkpoints

(* These variables are all that Drained is about.                          *)
LEMMA DrainedFrame ==
  ASSUME TypeOK, Drained, UNCHANGED <<closed, gor, hand, updates, sent>>,
         zr'[Frontier] = zr[Frontier], pool[Frontier] # "absent" => pool'[Frontier] # "absent"
  PROVE  Drained'
BY DEF Drained

(* Every step of a caller that is inside a call keeps Drained.             *)
LEMMA DrainedRun ==
  ASSUME TypeOK, Ownership, Drained, NEW c \in Caller, Run(c)
  PROVE  Drained'
<1>1. pool[Frontier] # "absent" => pool'[Frontier] # "absent"
  BY FrontierId
     DEF Run, Acquire, MatchExact, MissExact, SearchHit, SearchMiss, ScanHit, ScanMiss, Register,
         DiscardFailed, Decode, Deliver, HitEnd, Fail, Corrupt, Send, SendOnClosed, Release, PutBack,
         WaitReturn, EncodeReturn, Claim, rvars, TypeOK
<1>2. CASE SearchHit(c)
  <2>1. pool[own[c]] = "absent" /\ UNCHANGED gvars
    BY <1>2 DEF SearchHit, Reserved, Ownership
  <2>2. PICK r : zr' = [zr EXCEPT ![own[c]] = r]
    BY <1>2 DEF SearchHit
  <2>3. pool[Frontier] # "absent" => zr'[Frontier] = zr[Frontier]
    BY <2>1, <2>2, FrontierId DEF TypeOK
  <2>. QED  BY <1>1, <2>1, <2>3 DEF gvars, Drained
<1>3. CASE Deliver(c) \/ HitEnd(c) \/ Fail(c) \/ Corrupt(c)
  <2>1. PICK k, e :
          /\ Advance(c, k, e) /\ UNCHANGED gvars
          /\ \/ e \in {"nil", "io"} \/ zr[own[c]].tail
             \/ ~Unsent(own[c])
    BY <1>3 DEF Deliver, HitEnd, Fail, Corrupt, AtEnd
  <2>2. CASE own[c] # Frontier
    <3>1. zr'[Frontier] = zr[Frontier]
      BY <2>1, <2>2, FrontierId DEF Advance, TypeOK
    <3>. QED  BY <1>1, <2>1, <3>1, DrainedFrame DEF gvars
  <2>3. CASE own[c] = Frontier
    <3>1. zr'[Frontier].err = e /\ zr'[Frontier].tail = zr[Frontier].tail
      BY <2>1, <2>3, FrontierId DEF Advance, TypeOK
    <3>2. e = End /\ ~zr[Frontier].tail => sent = Len(Marks)
      <4>1. ~Unsent(Frontier) => sent = Len(Marks)
        BY MarksLemma DEF Unsent, TypeOK
      <4>. QED  BY <2>1, <2>3, <4>1, RulesAssumption
    <3>. QED  BY <1>1, <2>1, <3>1, <3>2 DEF gvars, Drained
  <2>. QED  BY <2>2, <2>3
<1>4. CASE Send(c)
  <2>1. /\ ~closed /\ sent' = sent + 1 /\ UNCHANGED <<closed, gor, hand, pool, zr>>
        /\ own[c] = Frontier /\ zr[Frontier].err = "nil"
    BY <1>4 DEF Send, Sending, Decoding, Due, Unsent, rvars
  <2>. QED  BY <2>1, RulesAssumption DEF Drained
<1>5. ASSUME UNCHANGED <<gvars, zr>> PROVE Drained'
  BY <1>1, <1>5, DrainedFrame DEF gvars
<1>. QED
  BY <1>2, <1>3, <1>4, <1>5
     DEF Run, Acquire, MatchExact, MissExact, SearchMiss, ScanHit, ScanMiss, Register,
         DiscardFailed, Decode, SendOnClosed, Release, WaitReturn, EncodeReturn, rvars

(* Every step keeps Drained, if Wait is called as WaitRule says.           *)
LEMMA DrainedStep ==
  ASSUME WaitRule = "frontier"
  PROVE  TypeOK /\ Ownership /\ Drained /\ [Next]_vars => Drained'
<1>. SUFFICES ASSUME TypeOK, Ownership, Drained, [Next]_vars PROVE Drained'
  OBVIOUS
<1>1. CASE UNCHANGED vars
  BY <1>1, DrainedFrame DEF vars, gvars, rvars
<1>2. CASE Goroutine
  BY <1>2 DEF Goroutine, Receive, AppendCheckpoint, Exit, rvars, Drained
<1>3. ASSUME NEW c \in Caller, Run(c) PROVE Drained'
  BY <1>3, DrainedRun
<1>4. ASSUME NEW c \in Caller, Wait(c) PROVE Drained'
  BY <1>4 DEF Wait, Close, MayWait, rvars, Drained
<1>5. ASSUME NEW c \in Caller, Call(c) \/ Encode(c) PROVE Drained'
  BY <1>5, DrainedFrame DEF Call, Encode, gvars, rvars
<1>. QED  BY <1>1, <1>2, <1>3, <1>4, <1>5, RulesAssumption DEF Next

(* Every step keeps UpToDate.                                              *)
LEMMA UpToDateStep == TypeOK /\ UpToDate /\ [Next]_vars => UpToDate'
<1>. SUFFICES ASSUME TypeOK, UpToDate, [Next]_vars PROVE UpToDate'
  OBVIOUS
<1>1. ASSUME UNCHANGED <<gor, checkpoints, snap, saved>> PROVE UpToDate'
  BY <1>1 DEF UpToDate
<1>2. CASE Goroutine
  BY <1>2 DEF Goroutine, Receive, AppendCheckpoint, Exit, evars, UpToDate
<1>3. ASSUME NEW c \in Caller, Encode(c) PROVE UpToDate'
  BY <1>3 DEF Encode, gvars, UpToDate, TypeOK
<1>4. ASSUME NEW c \in Caller, EncodeReturn(c) PROVE UpToDate'
  <2>1. PICK torn \in BOOLEAN :
          saved' = [quiet |-> snap[c].quiet,
                    marks |-> [i \in 1..Len(checkpoints) |->
                                 IF torn /\ i > snap[c].len THEN Torn ELSE checkpoints[i]]]
    BY <1>4 DEF EncodeReturn
  <2>2. UNCHANGED <<gor, checkpoints, snap>>
    BY <1>4 DEF EncodeReturn, gvars
  <2>3. ASSUME snap[c].quiet PROVE saved'.marks = checkpoints
    <3>1. snap[c].len = Len(checkpoints) /\ Len(checkpoints) \in Nat
      BY <2>3, LenProperties DEF UpToDate, TypeOK
    <3>2. saved'.marks = [i \in 1..Len(checkpoints) |-> checkpoints[i]]
      BY <2>1, <3>1
    <3>3. checkpoints = [i \in 1..Len(checkpoints) |-> checkpoints[i]]
      BY LenProperties DEF TypeOK
    <3>. QED  BY <3>2, <3>3
  <2>. QED  BY <2>1, <2>2, <2>3 DEF UpToDate
<1>5. ASSUME NEW c \in Caller, Run(c), ~EncodeReturn(c) PROVE UpToDate'
  BY <1>1, <1>5
     DEF Run, Acquire, MatchExact, MissExact, SearchHit, SearchMiss, ScanHit, ScanMiss, Register,
         DiscardFailed, Decode, Deliver, HitEnd, Fail, Corrupt, Send, SendOnClosed, Release,
         WaitReturn, gvars, evars
<1>6. ASSUME NEW c \in Caller, Call(c) \/ Wait(c) PROVE UpToDate'
  BY <1>1, <1>6 DEF Call, Wait, gvars, evars
<1>7. CASE UNCHANGED vars
  BY <1>1, <1>7 DEF vars, gvars, evars
<1>. QED  BY <1>2, <1>3, <1>4, <1>5, <1>6, <1>7, RulesAssumption DEF Next

(* The index is complete: when the goroutine has exited r.checkpoints has  *)
(* every checkpoint of the stream, and an index that Encode wrote while no *)
(* goroutine ran has all of r.checkpoints, whatever else went on           *)
(* (gsip.go:32-38 and 206-213).                                            *)
THEOREM IndexIsComplete == ASSUME WaitRule = "frontier" PROVE Spec => []IndexComplete
<1>1. Init => Drained /\ UpToDate
  <2>. SUFFICES ASSUME Init PROVE Drained /\ UpToDate
    OBVIOUS
  <2>1. zr[Frontier].err = "nil" /\ ~zr[Frontier].tail /\ ~closed
    BY FrontierId DEF Init
  <2>2. gor # "exited" /\ (gor = "running" => pool[Frontier] = "idle")
    BY FrontierId DEF Init, InitNewReader, InitDecode
  <2>3. UpToDate
    BY DEF Init, NoIndex, UpToDate
  <2>4. gor # "absent" => gor = "running"
    BY DEF Init, InitNewReader, InitDecode
  <2>. QED  BY <2>1, <2>2, <2>3, <2>4, RulesAssumption DEF Drained
<1>2. TypeOK /\ CheckpointOrder /\ Drained /\ UpToDate => IndexComplete
  <2>. SUFFICES ASSUME TypeOK, CheckpointOrder, Drained, UpToDate, gor = "exited"
                PROVE  checkpoints = Marks
    BY DEF IndexComplete, UpToDate
  <2>1. hand = <<>> /\ updates = <<>> /\ sent = Len(Marks)
    BY DEF Drained
  <2>2. checkpoints \o <<>> = checkpoints /\ checkpoints \in Seq(Mark)
    BY ConcatEmptySeq DEF TypeOK
  <2>3. SubSeq(Marks, 1, Len(Marks)) = Marks
    BY MarksAssumption, SubSeqFull
  <2>. QED  BY <2>1, <2>2, <2>3 DEF CheckpointOrder
<1>. QED
  BY <1>1, <1>2, TypeCorrect, OwnershipInvariant, CheckpointsInOrder, DrainedStep, UpToDateStep, PTL
     DEF Spec

---------------------------------------------------------------------------
(* Every reader comes back *)

(* A step of c that changes neither the pool nor c's reader. *)
LEMMA LostFrame ==
  ASSUME NoReaderLost, UNCHANGED <<pool, pc, own>>,
         \A z \in ReaderId : zr[z].err # "nil" => zr'[z].err # "nil"
  PROVE  NoReaderLost'
BY DEF NoReaderLost, Working

(* A step of one caller that leaves the others' readers where they are.    *)
LEMMA LostOthers ==
  ASSUME TypeOK, NoReaderLost, NEW c \in Caller, NEW p \in PC, pc' = [pc EXCEPT ![c] = p],
         \A d \in Caller \ {c} : own'[d] = own[d],
         \A z \in ReaderId : pool'[z] = "busy" =>
           \/ Working(c)' /\ own'[c] = z
           \/ zr'[z].err # "nil"
           \/ pool[z] = "busy" /\ zr'[z].err = zr[z].err /\ (Working(c) => own[c] # z)
  PROVE  NoReaderLost'
<1>1. \A d \in Caller \ {c} : Working(d)' <=> Working(d)
  BY PcChange
<1>. QED  BY <1>1 DEF NoReaderLost

(* Every step keeps track of every busy reader.                            *)
LEMMA LostStep == TypeOK /\ Ownership /\ NoReaderLost /\ [Next]_vars => NoReaderLost'
<1>. SUFFICES ASSUME TypeOK, Ownership, NoReaderLost, [Next]_vars PROVE NoReaderLost'
  OBVIOUS
<1>1. CASE UNCHANGED vars
  BY <1>1, LostFrame DEF vars, rvars
<1>2. CASE Goroutine
  BY <1>2, LostFrame DEF Goroutine, Receive, AppendCheckpoint, Exit, rvars
<1>3. ASSUME NEW c \in Caller, MatchExact(c) \/ ScanHit(c) PROVE NoReaderLost'
  <2>1. PICK z \in ReaderId, p \in {"read", "discard"} :
          /\ pool' = [pool EXCEPT ![z] = "busy"] /\ own' = [own EXCEPT ![c] = z]
          /\ pc' = [pc EXCEPT ![c] = p]
    BY <1>3 DEF MatchExact, ScanHit, Claim
  <2>2. p \in PC /\ UNCHANGED zr /\ ~Working(c)
    BY <1>3 DEF MatchExact, ScanHit, PC, Working
  <2>3. Working(c)' /\ own'[c] = z /\ \A d \in Caller \ {c} : own'[d] = own[d]
    BY <2>1, <2>2, PcChange DEF TypeOK
  <2>4. \A y \in ReaderId : y # z => pool'[y] = pool[y]
    BY <2>1 DEF TypeOK
  <2>. QED  BY <2>1, <2>2, <2>3, <2>4, LostOthers
<1>4. ASSUME NEW c \in Caller, SearchHit(c) PROVE NoReaderLost'
  <2>1. Reserved(c) /\ pool[own[c]] = "absent" /\ ~Working(c)
    BY <1>4 DEF SearchHit, Reserved, Ownership, Working
  <2>2. /\ pc' = [pc EXCEPT ![c] = "discard"] /\ UNCHANGED <<pool, own>> /\ "discard" \in PC
        /\ \A z \in ReaderId : z # own[c] => zr'[z] = zr[z]
    BY <1>4 DEF SearchHit, PC, TypeOK
  <2>. QED  BY <2>1, <2>2, LostOthers
<1>5. ASSUME NEW c \in Caller, Register(c) \/ Release(c) PROVE NoReaderLost'
  <2>1. PICK v \in {"busy", "idle"}, p \in {"read", "idle"} :
          /\ pool' = [pool EXCEPT ![own[c]] = v] /\ UNCHANGED <<own, zr>>
          /\ pc' = [pc EXCEPT ![c] = p] /\ p \in PC /\ (v = "busy" => p = "read")
    BY <1>5 DEF Register, Release, PutBack, PC
  <2>2. own[c] \in ReaderId /\ pool'[own[c]] = v
        /\ \A y \in ReaderId : y # own[c] => pool'[y] = pool[y]
    BY <2>1 DEF TypeOK
  <2>3. v = "busy" => Working(c)'
    BY <2>1, PcChange
  <2>. QED  BY <2>1, <2>2, <2>3, LostOthers
<1>6. ASSUME NEW c \in Caller, Decode(c) PROVE NoReaderLost'
  <2>1. UNCHANGED <<pool, pc, own>>
    BY <1>6 DEF Decode, Deliver, HitEnd, Fail, Corrupt, Send, SendOnClosed, rvars
  <2>2. UNCHANGED zr \/ \E k, e : Decoding(c) /\ Advance(c, k, e)
    BY <1>6 DEF Decode, Deliver, HitEnd, Fail, Corrupt, Send, SendOnClosed, rvars
  <2>3. \A z \in ReaderId : zr[z].err # "nil" => zr'[z].err # "nil"
    BY <2>2 DEF Decoding, Advance, TypeOK
  <2>. QED  BY <2>1, <2>3, LostFrame
<1>7. ASSUME NEW c \in Caller,
             MissExact(c) \/ SearchMiss(c) \/ ScanMiss(c) \/ Call(c)
             \/ Wait(c) \/ WaitReturn(c) \/ Encode(c) \/ EncodeReturn(c)
      PROVE  NoReaderLost'
  <2>1. PICK p \in PC : pc' = [pc EXCEPT ![c] = p]
    BY <1>7 DEF MissExact, SearchMiss, ScanMiss, Call, Wait, WaitReturn, Encode, EncodeReturn, PC
  <2>2. ~Working(c) /\ UNCHANGED <<pool, zr>> /\ \A d \in Caller \ {c} : own'[d] = own[d]
    BY <1>7 DEF MissExact, SearchMiss, ScanMiss, Call, Wait, WaitReturn, Encode, EncodeReturn,
                Working, rvars, TypeOK
  <2>. QED  BY <2>1, <2>2, LostOthers
<1>8. ASSUME NEW c \in Caller, DiscardFailed(c) PROVE NoReaderLost'
  <2>1. /\ pc' = [pc EXCEPT ![c] = "idle"] /\ UNCHANGED <<pool, own, zr>> /\ "idle" \in PC
        /\ zr[own[c]].err # "nil"
    BY <1>8 DEF DiscardFailed, rvars, PC
  <2>. QED  BY <2>1, LostOthers
<1>. QED
  BY <1>1, <1>2, <1>3, <1>4, <1>5, <1>6, <1>7, <1>8, RulesAssumption DEF Next, Run, Acquire

(* A gzip.Reader stays marked as in use only while a ReadAt uses it or     *)
(* after its stream has failed: no other path through ReadAt forgets it    *)
(* (gsip.go:99-189).                                                       *)
THEOREM ReadersComeBack == Spec => []NoReaderLost
<1>1. Init => NoReaderLost
  BY DEF Init, InitNewReader, InitDecode, NoReaderLost
<1>. QED  BY <1>1, TypeCorrect, OwnershipInvariant, LostStep, PTL DEF Spec
=============================================================================
