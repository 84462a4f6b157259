--------------------------- MODULE UpgradeProofs ---------------------------
(***************************************************************************)
(* What holds of an upgrade for every file, every size of packets, every   *)
(* length of the second and every behaviour of the line and the sender:    *)
(* a transfer is not cut off, the verdict stands and is on the bytes, the  *)
(* semaphore is never taken below zero; and on a plain line the upgrade    *)
(* implements Transfer.                                                    *)
(***************************************************************************)
EXTENDS Upgrade, SequenceTheorems, LeastNumber, TLAPS

\* The parts of the receiver's state that the invariant speaks of.
Watched == <<stage, rym_tm_sec, jumped, flash, mic, result>>

\* At the start nothing is received, judged or released.
LEMMA InvariantInit == Init => IInv
  BY DEF Init, FlowInit, BootInit, RymInit, IInv, NoUnderflow, HandshakeTimeKept,
         VerdictIsFinal, NotCutOff, VerdictStands

\* The invariant speaks of nothing but Watched and the semaphore.
LEMMA InvariantStutter == ASSUME IInv, UNCHANGED Watched, NoUnderflow'
                          PROVE  IInv'
  BY DEF IInv, Watched, HandshakeTimeKept, VerdictIsFinal, NotCutOff,
         VerdictStands

\* Suspending, taking and storing keep the semaphore sound.
LEMMA SuspendSound == ASSUME NoUnderflow, NEW f, NEW l, Suspend(f, l)
                      PROVE  NoUnderflow'
  BY DEF NoUnderflow, Suspend

LEMMA AcquireSound == ASSUME NoUnderflow, NEW f, SemAcquire(f)
                      PROVE  NoUnderflow'
  BY DEF NoUnderflow, SemAcquire

LEMMA StoreSound == ASSUME NoUnderflow, SemStore
                    PROVE  NoUnderflow'
  BY DEF NoUnderflow, SemStore

\* A step of the handshake keeps the invariant.
LEMMA HandshakeStep ==
    ASSUME IInv, ~jumped,
           \/ HandshakeTimeout \/ HandshakeIgnore \/ HandshakeRefuse
           \/ HandshakeBegin \/ HandshakeC
    PROVE  IInv'
<1>1. CASE HandshakeTimeout
  <2>1. NoUnderflow'
    BY <1>1, SuspendSound DEF HandshakeTimeout, IInv
  <2>2. stage' = "ESTABLISHING" /\ rym_tm_sec' \in Int
    BY <1>1 DEF HandshakeTimeout, At, Current, IInv, HandshakeTimeKept
  <2>. QED
    BY <1>1, <2>1, <2>2 DEF HandshakeTimeout, bootvars, IInv, HandshakeTimeKept,
       VerdictIsFinal, NotCutOff, VerdictStands
<1>2. CASE HandshakeIgnore
  BY <1>2, SuspendSound, InvariantStutter
     DEF HandshakeIgnore, Again, IInv, Watched, bootvars
<1>3. CASE HandshakeRefuse
  BY <1>3, SuspendSound, InvariantStutter
     DEF HandshakeRefuse, Again, IInv, Watched, bootvars
<1>4. CASE HandshakeBegin
  <2>1. NoUnderflow'
    BY <1>4, SuspendSound DEF HandshakeBegin, IInv
  <2>2. stage = "ESTABLISHING"
    BY <1>4 DEF HandshakeBegin, HandshakeRun, At, Current
  <2>. QED
    BY <1>4, <2>1, <2>2 DEF HandshakeBegin, OnBegin, IInv, HandshakeTimeKept,
       VerdictIsFinal, NotCutOff, VerdictStands
<1>5. CASE HandshakeC
  <2>1. NoUnderflow'
    BY <1>5, SuspendSound DEF HandshakeC, IInv
  <2>2. stage = "ESTABLISHING" /\ stage' = "TRANSMITTING" /\ rym_tm_sec' = tm_sec
    BY <1>5 DEF HandshakeC, ParamsInit, At, Current
  <2>. QED
    BY <1>5, <2>1, <2>2, TimeoutAssumption DEF HandshakeC, bootvars, IInv,
       HandshakeTimeKept, VerdictIsFinal, NotCutOff, VerdictStands
<1>. QED
  BY <1>1, <1>2, <1>3, <1>4, <1>5

\* A step of the transfer keeps the invariant: the time is set anew or left
\* alone, and no verdict is there yet when a block is programmed.
LEMMA TransStep ==
    ASSUME IInv, ~jumped,
           TransTimeout \/ TransBad \/ TransData \/ TransEot \/ TransOther
    PROVE  IInv'
<1>1. CASE TransTimeout
  <2>1. NoUnderflow'
    BY <1>1, SuspendSound DEF TransTimeout, IInv
  <2>2. stage = "TRANSMITTING"
    BY <1>1 DEF TransTimeout, At, Current
  <2>3. \/ stage' = "ESTABLISHING" /\ rym_tm_sec' = tm_sec
        \/ UNCHANGED <<stage, rym_tm_sec>>
    BY <1>1 DEF TransTimeout, ParamsInit
  <2>. QED
    BY <1>1, <2>1, <2>2, <2>3, TimeoutAssumption DEF TransTimeout, bootvars, IInv,
       HandshakeTimeKept, VerdictIsFinal, NotCutOff, VerdictStands
<1>2. CASE TransBad
  BY <1>2, SuspendSound, InvariantStutter
     DEF TransBad, Again, IInv, Watched, bootvars
<1>3. CASE TransData
  <2>1. NoUnderflow'
    BY <1>3, SuspendSound DEF TransData, Again, IInv
  <2>2. stage = "TRANSMITTING"
    BY <1>3 DEF TransData, TransRun, At, Current
  <2>. QED
    BY <1>3, <2>1, <2>2 DEF TransData, OnData, IInv, HandshakeTimeKept,
       VerdictIsFinal, NotCutOff, VerdictStands
<1>4. CASE TransEot \/ TransOther
  <2>1. NoUnderflow'
    BY <1>4, SuspendSound DEF TransEot, TransOther, IInv
  <2>2. /\ stage = "TRANSMITTING"
        /\ stage' \in {"FINISHING", "ESTABLISHING"} /\ rym_tm_sec' = tm_sec
    BY <1>4 DEF TransEot, TransOther, TransRun, ParamsInit, At, Current
  <2>. QED
    BY <1>4, <2>1, <2>2, TimeoutAssumption DEF TransEot, TransOther, bootvars,
       IInv, HandshakeTimeKept, VerdictIsFinal, NotCutOff, VerdictStands
<1>. QED
  BY <1>1, <1>2, <1>3, <1>4

\* A step of the end of the transfer keeps the invariant: the verdict that
\* FinishNull gives is about what the flash holds, and it closes the stage.
LEMMA FinishStep ==
    ASSUME IInv, ~jumped,
           \/ FinishTimeout \/ FinishEot \/ FinishOther \/ FinishC
           \/ FinishNoNull \/ FinishNotNull \/ FinishNull
    PROVE  IInv'
<1>1. CASE FinishTimeout
  <2>1. NoUnderflow'
    BY <1>1, SuspendSound DEF FinishTimeout, IInv
  <2>2. stage = "FINISHING"
    BY <1>1 DEF FinishTimeout, At, Current
  <2>3. \/ stage' = "ESTABLISHING" /\ rym_tm_sec' = tm_sec
        \/ UNCHANGED <<stage, rym_tm_sec>>
    BY <1>1 DEF FinishTimeout, ParamsInit
  <2>. QED
    BY <1>1, <2>1, <2>2, <2>3, TimeoutAssumption DEF FinishTimeout, bootvars, IInv,
       HandshakeTimeKept, VerdictIsFinal, NotCutOff, VerdictStands
<1>2. CASE FinishEot \/ FinishOther \/ FinishC
  BY <1>2, SuspendSound, InvariantStutter
     DEF FinishEot, FinishOther, FinishC, Again, IInv, Watched, bootvars
<1>3. CASE FinishNoNull \/ FinishNotNull
  BY <1>3, SuspendSound, InvariantStutter
     DEF FinishNoNull, FinishNotNull, Again, IInv, Watched, rymvars, bootvars
<1>4. CASE FinishNull
  <2>1. NoUnderflow'
    BY <1>4, SuspendSound DEF FinishNull, Again, IInv
  <2>. QED
    BY <1>4, <2>1 DEF FinishNull, OnEnd, IInv, HandshakeTimeKept,
       VerdictIsFinal, NotCutOff, VerdictStands
<1>. QED
  BY <1>1, <1>2, <1>3, <1>4

\* Whatever rym_process does keeps the invariant.
LEMMA ProcessStep == ASSUME IInv, ~jumped, RymProcess
                     PROVE  IInv'
<1>1. CASE ProcessNone
  BY <1>1, TimeoutAssumption DEF ProcessNone, ParamsInit, flowvars, bootvars,
     IInv, NoUnderflow, HandshakeTimeKept, VerdictIsFinal, NotCutOff, VerdictStands
<1>2. CASE ProcessFinished
  BY <1>2 DEF ProcessFinished, flowvars, bootvars,
     IInv, NoUnderflow, HandshakeTimeKept, VerdictIsFinal, NotCutOff, VerdictStands
<1>3. CASE Store
  BY <1>3, StoreSound, InvariantStutter DEF Store, IInv, Watched, rymvars, bootvars
<1>4. ASSUME NEW f \in Flow, ToWait(f) \/ Acquire(f) \/ ReadStart(f)
      PROVE  IInv'
  <2>1. CASE ToWait(f)
    BY <2>1, SuspendSound, InvariantStutter
       DEF ToWait, IInv, Watched, rymvars, bootvars
  <2>2. CASE Acquire(f)
    BY <2>2, AcquireSound, InvariantStutter
       DEF Acquire, IInv, Watched, rymvars, bootvars
  <2>3. CASE ReadStart(f)
    <3>1. NoUnderflow'
      BY <2>3 DEF ReadStart, Suspend, IInv, NoUnderflow
    <3>. QED
      BY <2>3, <3>1, InvariantStutter DEF ReadStart, Watched, bootvars
  <2>. QED
    BY <1>4, <2>1, <2>2, <2>3
<1>. QED
  BY <1>1, <1>2, <1>3, <1>4, HandshakeStep, TransStep, FinishStep DEF RymProcess

\* Every step of the upgrade keeps the invariant: the interrupts, the sender and
\* the line touch neither the stage nor the flash.
LEMMA InvariantStep == IInv /\ [Next]_vars => IInv'
<1>. SUFFICES ASSUME IInv, [Next]_vars PROVE IInv'
  OBVIOUS
<1>1. CASE Mcu
  BY <1>1, ProcessStep DEF Mcu
<1>2. CASE Poll
  <2>1. stage \notin {"TRANSMITTING", "FINISHING"}
    BY <1>2, TimeoutAssumption DEF Poll, Jump, IInv, HandshakeTimeKept
  <2>. QED
    BY <1>2, <2>1 DEF Poll, Jump, flowvars, bootvars, IInv, NoUnderflow,
       HandshakeTimeKept, VerdictIsFinal, NotCutOff, VerdictStands
<1>3. CASE Tick
  BY <1>3, InvariantStutter
     DEF Tick, FlowTick, IInv, NoUnderflow, Watched, rymvars, bootvars
<1>4. CASE Deliver
  BY <1>4, InvariantStutter
     DEF Deliver, RymReceive, SemRelease, IInv, NoUnderflow, Watched, bootvars
<1>5. CASE Sender
  BY <1>5, InvariantStutter
     DEF Sender, See, SenderTimeout, GiveUp, Restart, IInv, NoUnderflow, Watched,
         flowvars, rymvars, bootvars
<1>6. CASE Line
  BY <1>6, InvariantStutter
     DEF Line, Lose, SpoilCrc, SpoilStart, Split, LoseReply, Strike, IInv,
         NoUnderflow, Watched, flowvars, bootvars
<1>7. CASE UNCHANGED vars
  BY <1>7, InvariantStutter
     DEF vars, IInv, NoUnderflow, Watched, flowvars, rymvars, bootvars
<1>. QED
  BY <1>1, <1>2, <1>3, <1>4, <1>5, <1>6, <1>7 DEF Next, Booted

----------------------------------------------------------------------------
\* What the assumptions say of the constants.
LEMMA Constants ==
    /\ Sec \in Nat /\ Sec >= 2 /\ Half \in Nat
    /\ SohBody \in Nat /\ SohBody >= 1 /\ StxBody \in Nat /\ SohBody < StxBody
    /\ Capacity \in Nat /\ Capacity = 1 + StxBody
    /\ TimeoutLimit \in Nat /\ tm_sec \in Nat /\ tm_sec >= 1
    /\ Flow = {"hs", "trans", "fin"}
    /\ File \in Seq(STRING) /\ Len(File) \in Nat /\ Len(File) >= 1
    /\ HeaderBody \in {SohBody, StxBody}
    /\ MaxFaults \in Nat /\ MaxSends \in Nat /\ MaxRestarts \in Nat /\ MaxTx \in Nat
<1>1. Len(File) \in Nat /\ Len(File) >= 1
  BY FileAssumption, EmptySeq
<1>2. Sec \in Nat /\ Sec >= 2 /\ Half \in Nat
  BY SecAssumption, HalfAssumption, TickAssumption
<1>. QED
  BY <1>1, <1>2, FlowAssumption, BodyAssumption, TimeoutAssumption, FileAssumption,
     BlockAssumption, BoundsAssumption DEF Capacity

\* What rym_sqqueue_read leaves is the rear of what was there; nothing, when no more
\* was there than it asked for.
LEMMA ReadLeaves ==
    ASSUME NEW S, rym_sqqueue \in Seq(S), NEW n \in Nat, RymRead(n)
    PROVE  /\ rym_sqqueue' \in Seq(S)
           /\ Len(rym_sqqueue') <= Len(rym_sqqueue)
           /\ Len(rym_sqqueue) <= n => rym_sqqueue' = <<>>
<1> DEFINE q == rym_sqqueue
<1>1. Len(q) \in Nat
  BY LenProperties
<1>2. CASE Enough(n)
  <2>1. n <= Len(q) /\ rym_sqqueue' = SubSeq(q, n + 1, Len(q))
    BY <1>2 DEF Enough, RymRead
  <2>2. \A i \in (n + 1) .. Len(q) : q[i] \in S
    BY <1>1, ElementOfSeq
  <2>3. n + 1 \in Int /\ Len(q) \in Int
    BY <1>1
  <2>4. /\ SubSeq(q, n + 1, Len(q)) \in Seq(S)
        /\ Len(SubSeq(q, n + 1, Len(q))) = IF n + 1 <= Len(q) THEN Len(q) - (n + 1) + 1 ELSE 0
    BY <2>2, <2>3, SubSeqProperties
  <2>5. Len(q) <= n => SubSeq(q, n + 1, Len(q)) = <<>>
    BY <2>3, SubSeqEmpty
  <2>. QED
    BY <1>1, <2>1, <2>4, <2>5
<1>3. CASE ~Enough(n)
  BY <1>1, <1>3, EmptySeq DEF RymRead
<1>. QED
  BY <1>2, <1>3

\* The replies of the receiver are runs of codes.
LEMMA CodeRuns ==
    /\ <<"C">> \in Seq(Codes) /\ <<"ACK">> \in Seq(Codes) /\ <<"NAK">> \in Seq(Codes)
    /\ <<"CAN", "CAN", "CAN">> \in Seq(Codes)
  BY DEF Codes

\* Transmitting keeps the codes under way a run of codes.
LEMMA TransmitType ==
    ASSUME NEW S, tx \in Seq(S), NEW codes \in Seq(S), Transmit(codes)
    PROVE  tx' \in Seq(S)
  BY ConcatProperties DEF Transmit

\* Suspending a flow keeps the flows typed.
LEMMA SuspendType ==
    ASSUME FlowTypeOK, NEW f, NEW l \in Lines, Suspend(f, l)
    PROVE  FlowTypeOK' /\ count' = count /\ mpc' = "call"
<1>1. line' \in [Flow -> Lines]
  BY DEF FlowTypeOK, Suspend
<1>2. age' \in [Flow -> 0..Sec]
  <2>1. 0 \in 0..Sec
    BY SecAssumption
  <2>. QED
    BY <2>1 DEF FlowTypeOK, Suspend
<1>. QED
  BY <1>1, <1>2 DEF FlowTypeOK, Suspend, MPC

\* The types of the parts, and what the releases stand for, which together keep
\* the count of the semaphore within what was sent.
BootTyped == /\ flash \in Seq(Payloads \cup {"worn"}) /\ mic \in Seq(Payloads)
             /\ begun \in BOOLEAN /\ result \in {"none", "ok", "bad"}
RymTyped  == /\ stage \in Stages \ {"ESTABLISHED"} /\ rym_tm_sec \in -1..tm_sec
             /\ rym_sqqueue \in Seq(Units) /\ Len(rym_sqqueue) <= Capacity
             /\ start \in {"NONE", "SOH", "STX", "EOT", "JUNK"}
             /\ trans_timeout \in 0..TimeoutLimit
             /\ finish_timeout \in 0..TimeoutLimit
             /\ tx \in Seq(Codes) /\ jumped \in BOOLEAN
SenderTyped == /\ wire \in Seq(Seq(Units))
               /\ ss \in SenderStates /\ k \in 1..Len(File)
               /\ announced \in FileSizes
               /\ sends \in 0..MaxSends /\ faults \in 0..MaxFaults
               /\ restarts \in 0..MaxRestarts

\* Every release stands for a run that was sent, or for the second half of one.
Released == /\ mpc = "store" => reg >= 1 /\ reg <= count
            /\ count + Len(wire) <= sends + faults

Typed == FlowTypeOK /\ BootTyped /\ RymTyped /\ SenderTyped /\ Released

\* A step of the main loop that suspends the flow.
LEMMA SuspendTyped ==
    ASSUME Typed, UNCHANGED sendervars, NEW f, NEW l \in Lines, Suspend(f, l),
           BootTyped', RymTyped'
    PROVE  Typed'
<1>1. FlowTypeOK' /\ count' = count /\ mpc' = "call"
  BY SuspendType DEF Typed
<1>. QED
  BY <1>1 DEF Typed, SenderTyped, Released, sendervars

\* The types of the image hold where it is left alone.
LEMMA BootStutters == ASSUME BootTyped, UNCHANGED bootvars PROVE BootTyped'
  BY DEF BootTyped, bootvars

\* rym_process_params_init keeps the stage, the time and the queue typed.
LEMMA ParamsTyped ==
    ASSUME RymTyped, NEW st \in {"ESTABLISHING", "TRANSMITTING", "FINISHING"},
           ParamsInit(st)
    PROVE  /\ stage' \in Stages \ {"ESTABLISHED"} /\ rym_tm_sec' \in -1..tm_sec
           /\ rym_sqqueue' \in Seq(Units) /\ Len(rym_sqqueue') <= Capacity
<1>1. tm_sec \in -1..tm_sec /\ <<>> \in Seq(Units) /\ Len(<<>>) = 0
      /\ 0 <= Capacity
  BY TimeoutAssumption, BodyAssumption, EmptySeq DEF Capacity
<1>. QED
  BY <1>1 DEF RymTyped, ParamsInit, Stages

\* Reading the rear of a queue keeps it typed.
LEMMA ReadTyped ==
    ASSUME RymTyped, NEW n \in {SohBody, StxBody}, RymRead(n)
    PROVE  rym_sqqueue' \in Seq(Units) /\ Len(rym_sqqueue') <= Capacity
<1>1. n \in Nat /\ Capacity \in Nat
  BY BodyAssumption DEF Capacity
<1>2. /\ rym_sqqueue' \in Seq(Units)
      /\ Len(rym_sqqueue') <= Len(rym_sqqueue)
  BY <1>1, ReadLeaves DEF RymTyped
<1>3. Len(rym_sqqueue) \in Nat /\ Len(rym_sqqueue') \in Nat
  BY <1>2, LenProperties DEF RymTyped
<1>. QED
  BY <1>1, <1>2, <1>3 DEF RymTyped

\* A step of the handshake keeps the types.
LEMMA HandshakeTyped ==
    ASSUME Typed, UNCHANGED sendervars,
           \/ HandshakeTimeout \/ HandshakeIgnore \/ HandshakeRefuse
           \/ HandshakeBegin \/ HandshakeC
    PROVE  Typed'
<1>0. BootTyped /\ RymTyped /\ Lines = {"start", "wait", "wait2", "ack", "delay"}
  BY DEF Typed, Lines
<1>1. CASE HandshakeTimeout
  <2>1. tx' \in Seq(Codes)
    BY <1>0, <1>1, CodeRuns, TransmitType DEF HandshakeTimeout, RymTyped
  <2>2. rym_tm_sec' \in -1..tm_sec
    BY <1>0, <1>1, TimeoutAssumption DEF HandshakeTimeout, RymTyped
  <2>3. RymTyped'
    BY <1>0, <1>1, <2>1, <2>2 DEF HandshakeTimeout, RymTyped
  <2>. QED
    BY <1>0, <1>1, <2>3, BootStutters, SuspendTyped DEF HandshakeTimeout
<1>2. CASE HandshakeIgnore
  <2>1. rym_sqqueue' \in Seq(Units) /\ Len(rym_sqqueue') <= Capacity
    BY <1>0, <1>2, ReadTyped DEF HandshakeIgnore, RymTyped
  <2>2. RymTyped'
    BY <1>0, <1>2, <2>1 DEF HandshakeIgnore, Again, RymTyped
  <2>. QED
    BY <1>0, <1>2, <2>2, BootStutters, SuspendTyped DEF HandshakeIgnore, Again
<1>3. CASE HandshakeRefuse
  <2>1. rym_sqqueue' \in Seq(Units) /\ Len(rym_sqqueue') <= Capacity
    BY <1>0, <1>3, ReadTyped DEF HandshakeRefuse, RymTyped
  <2>2. tx' \in Seq(Codes)
    BY <1>0, <1>3, CodeRuns, TransmitType DEF HandshakeRefuse, RymTyped
  <2>3. RymTyped'
    BY <1>0, <1>3, <2>1, <2>2 DEF HandshakeRefuse, Again, RymTyped
  <2>. QED
    BY <1>0, <1>3, <2>3, BootStutters, SuspendTyped DEF HandshakeRefuse, Again
<1>4. CASE HandshakeBegin
  <2>1. rym_sqqueue' \in Seq(Units) /\ Len(rym_sqqueue') <= Capacity
    BY <1>0, <1>4, ReadTyped DEF HandshakeBegin, RymTyped
  <2>2. tx' \in Seq(Codes)
    BY <1>0, <1>4, CodeRuns, TransmitType DEF HandshakeBegin, RymTyped
  <2>3. RymTyped'
    BY <1>0, <1>4, <2>1, <2>2 DEF HandshakeBegin, RymTyped
  <2>4. BootTyped'
    BY <1>0, <1>4, EmptySeq DEF HandshakeBegin, OnBegin, BootTyped
  <2>. QED
    BY <1>0, <1>4, <2>3, <2>4, SuspendTyped DEF HandshakeBegin
<1>5. CASE HandshakeC
  <2>1. /\ stage' \in Stages \ {"ESTABLISHED"} /\ rym_tm_sec' \in -1..tm_sec
        /\ rym_sqqueue' \in Seq(Units) /\ Len(rym_sqqueue') <= Capacity
    BY <1>0, <1>5, ParamsTyped DEF HandshakeC
  <2>2. tx' \in Seq(Codes)
    BY <1>0, <1>5, CodeRuns, TransmitType DEF HandshakeC, RymTyped
  <2>3. RymTyped'
    BY <1>0, <1>5, <2>1, <2>2 DEF HandshakeC, RymTyped
  <2>. QED
    BY <1>0, <1>5, <2>3, BootStutters, SuspendTyped DEF HandshakeC
<1>. QED
  BY <1>1, <1>2, <1>3, <1>4, <1>5

\* The payload of an intact packet is a block.
LEMMA PacketTyped ==
    ASSUME RymTyped, NEW n \in {SohBody, StxBody}, Intact(n)
    PROVE  /\ Packet \in Packets
           /\ Packet.n = n /\ Packet.ok
<1>1. n \in Nat /\ n >= 1
  BY BodyAssumption
<1>2. n <= Len(rym_sqqueue) /\ rym_sqqueue \in Seq(Units) /\ Len(rym_sqqueue) \in Nat
  BY <1>1, LenProperties DEF Intact, Enough, RymTyped
<1>3. rym_sqqueue[1] \in Units
  BY <1>1, <1>2, ElementOfSeq
<1>4. /\ Len(Taken(n)) = n /\ Taken(n)[1] = rym_sqqueue[1]
  <2>1. \A i \in 1..n : rym_sqqueue[i] \in Units
    BY <1>1, <1>2, ElementOfSeq
  <2>2. /\ Len(SubSeq(rym_sqqueue, 1, n)) = IF 1 <= n THEN n - 1 + 1 ELSE 0
        /\ \A i \in 1 .. n - 1 + 1 : SubSeq(rym_sqqueue, 1, n)[i] = rym_sqqueue[1 + i - 1]
    BY <1>1, <2>1, SubSeqProperties
  <2>. QED
    BY <1>1, <2>2 DEF Taken
<1>5. Packet \in Packets
  BY <1>3 DEF Packet, Units
<1>6. Taken(n) = Body(Packet) /\ Packet.ok
  BY <1>4 DEF Intact, Packet
<1>7. Len(Body(Packet)) = Packet.n
  BY <1>5 DEF Body, Packets
<1>. QED
  BY <1>4, <1>5, <1>6, <1>7

\* A step of the transfer keeps the types: what it programs is of the file.
LEMMA TransTyped ==
    ASSUME Typed, UNCHANGED sendervars,
           TransTimeout \/ TransBad \/ TransData \/ TransEot \/ TransOther
    PROVE  Typed'
<1>0. /\ BootTyped /\ RymTyped /\ Lines = {"start", "wait", "wait2", "ack", "delay"}
      /\ DataSize \in {SohBody, StxBody}
  BY DEF Typed, Lines, DataSize
<1>1. CASE TransTimeout
  <2>1. /\ stage' \in Stages \ {"ESTABLISHED"} /\ rym_tm_sec' \in -1..tm_sec
        /\ rym_sqqueue' \in Seq(Units) /\ Len(rym_sqqueue') <= Capacity
    BY <1>0, <1>1, ParamsTyped DEF TransTimeout, RymTyped
  <2>2. trans_timeout' \in 0..TimeoutLimit
    BY <1>0, <1>1, TimeoutAssumption DEF TransTimeout, RymTyped
  <2>3. RymTyped'
    BY <1>0, <1>1, <2>1, <2>2 DEF TransTimeout, RymTyped
  <2>. QED
    BY <1>0, <1>1, <2>3, BootStutters, SuspendTyped DEF TransTimeout
<1>2. CASE TransBad
  <2>1. rym_sqqueue' \in Seq(Units) /\ Len(rym_sqqueue') <= Capacity
    BY <1>0, <1>2, ReadTyped DEF TransBad
  <2>2. RymTyped'
    BY <1>0, <1>2, <2>1 DEF TransBad, Again, RymTyped
  <2>. QED
    BY <1>0, <1>2, <2>2, BootStutters, SuspendTyped DEF TransBad, Again
<1>3. CASE TransData
  <2>1. rym_sqqueue' \in Seq(Units) /\ Len(rym_sqqueue') <= Capacity
    BY <1>0, <1>3, ReadTyped DEF TransData
  <2>2. tx' \in Seq(Codes)
    <3>1. stage # "ESTABLISHED"
      BY <1>0 DEF RymTyped
    <3>. QED
      BY <1>0, <1>3, <3>1, CodeRuns, TransmitType DEF TransData, RymTyped
  <2>3. RymTyped'
    BY <1>0, <1>3, <2>1, <2>2 DEF TransData, Again, RymTyped
  <2>4. BootTyped'
    <3>1. Packet.data \in Payloads
      BY <1>0, <1>3, PacketTyped DEF TransData, Packets
    <3>2. PICK w \in Payloads \cup {"worn"} : flash' = Append(flash, w)
      <4>1. Programmed(Packet.data) \subseteq Payloads \cup {"worn"}
        BY <3>1 DEF Programmed
      <4>2. \E w \in Programmed(Packet.data) : flash' = Append(flash, w)
        BY <1>3 DEF TransData, OnData
      <4>. QED
        BY <4>1, <4>2
    <3>3. mic' = Append(mic, Packet.data) /\ UNCHANGED <<begun, result>>
      BY <1>3 DEF TransData, OnData
    <3>. QED
      BY <1>0, <3>1, <3>2, <3>3 DEF BootTyped
  <2>. QED
    BY <1>0, <1>3, <2>3, <2>4, SuspendTyped DEF TransData, Again
<1>4. CASE TransEot
  <2>1. /\ stage' \in Stages \ {"ESTABLISHED"} /\ rym_tm_sec' \in -1..tm_sec
        /\ rym_sqqueue' \in Seq(Units) /\ Len(rym_sqqueue') <= Capacity
    BY <1>0, <1>4, ParamsTyped DEF TransEot
  <2>2. tx' \in Seq(Codes)
    BY <1>0, <1>4, CodeRuns, TransmitType DEF TransEot, RymTyped
  <2>3. RymTyped'
    BY <1>0, <1>4, <2>1, <2>2 DEF TransEot, RymTyped
  <2>. QED
    BY <1>0, <1>4, <2>3, BootStutters, SuspendTyped DEF TransEot
<1>5. CASE TransOther
  <2>1. /\ stage' \in Stages \ {"ESTABLISHED"} /\ rym_tm_sec' \in -1..tm_sec
        /\ rym_sqqueue' \in Seq(Units) /\ Len(rym_sqqueue') <= Capacity
    BY <1>0, <1>5, ParamsTyped DEF TransOther
  <2>2. RymTyped'
    BY <1>0, <1>5, <2>1 DEF TransOther, RymTyped
  <2>. QED
    BY <1>0, <1>5, <2>2, BootStutters, SuspendTyped DEF TransOther
<1>. QED
  BY <1>1, <1>2, <1>3, <1>4, <1>5

\* A step of the end of the transfer keeps the types.
LEMMA FinishTyped ==
    ASSUME Typed, UNCHANGED sendervars,
           \/ FinishTimeout \/ FinishEot \/ FinishOther \/ FinishC
           \/ FinishNoNull \/ FinishNotNull \/ FinishNull
    PROVE  Typed'
<1>0. BootTyped /\ RymTyped /\ Lines = {"start", "wait", "wait2", "ack", "delay"}
  BY DEF Typed, Lines
<1>1. CASE FinishTimeout
  <2>1. /\ stage' \in Stages \ {"ESTABLISHED"} /\ rym_tm_sec' \in -1..tm_sec
        /\ rym_sqqueue' \in Seq(Units) /\ Len(rym_sqqueue') <= Capacity
    BY <1>0, <1>1, ParamsTyped DEF FinishTimeout, RymTyped
  <2>2. finish_timeout' \in 0..TimeoutLimit
    BY <1>0, <1>1, TimeoutAssumption DEF FinishTimeout, RymTyped
  <2>3. RymTyped'
    BY <1>0, <1>1, <2>1, <2>2 DEF FinishTimeout, RymTyped
  <2>. QED
    BY <1>0, <1>1, <2>3, BootStutters, SuspendTyped DEF FinishTimeout
<1>2. CASE FinishEot
  <2>1. tx' \in Seq(Codes)
    BY <1>0, <1>2, CodeRuns, TransmitType DEF FinishEot, RymTyped
  <2>2. RymTyped'
    BY <1>0, <1>2, <2>1 DEF FinishEot, RymTyped
  <2>. QED
    BY <1>0, <1>2, <2>2, BootStutters, SuspendTyped DEF FinishEot
<1>3. CASE FinishOther
  <2>1. RymTyped'
    BY <1>0, <1>3 DEF FinishOther, Again, RymTyped
  <2>. QED
    BY <1>0, <1>3, <2>1, BootStutters, SuspendTyped DEF FinishOther, Again
<1>4. CASE FinishC
  <2>1. tx' \in Seq(Codes)
    BY <1>0, <1>4, CodeRuns, TransmitType DEF FinishC, RymTyped
  <2>2. RymTyped'
    BY <1>0, <1>4, <2>1 DEF FinishC, RymTyped
  <2>. QED
    BY <1>0, <1>4, <2>2, BootStutters, SuspendTyped DEF FinishC
<1>5. CASE FinishNoNull
  <2>1. RymTyped'
    BY <1>0, <1>5 DEF FinishNoNull, rymvars, RymTyped
  <2>. QED
    BY <1>0, <1>5, <2>1, BootStutters, SuspendTyped DEF FinishNoNull
<1>6. CASE FinishNotNull
  <2>1. rym_sqqueue' \in Seq(Units) /\ Len(rym_sqqueue') <= Capacity
    BY <1>0, <1>6, ReadTyped DEF FinishNotNull, RymTyped
  <2>2. RymTyped'
    BY <1>0, <1>6, <2>1 DEF FinishNotNull, Again, RymTyped
  <2>. QED
    BY <1>0, <1>6, <2>2, BootStutters, SuspendTyped DEF FinishNotNull, Again
<1>7. CASE FinishNull
  <2>1. rym_sqqueue' \in Seq(Units) /\ Len(rym_sqqueue') <= Capacity
    BY <1>0, <1>7, ReadTyped DEF FinishNull
  <2>2. tx' \in Seq(Codes)
    BY <1>0, <1>7, CodeRuns, TransmitType DEF FinishNull, RymTyped
  <2>3. RymTyped'
    BY <1>0, <1>7, <2>1, <2>2 DEF FinishNull, Again, RymTyped, Stages
  <2>4. BootTyped'
    BY <1>0, <1>7 DEF FinishNull, OnEnd, BootTyped
  <2>. QED
    BY <1>0, <1>7, <2>3, <2>4, SuspendTyped DEF FinishNull, Again
<1>. QED
  BY <1>1, <1>2, <1>3, <1>4, <1>5, <1>6, <1>7

\* Before the store, --count leaves at least as much as --reg.
LEMMA ProcessTyped == ASSUME Typed, RymProcess, UNCHANGED sendervars
                      PROVE  Typed'
<1>0. BootTyped /\ RymTyped /\ FlowTypeOK /\ SenderTyped /\ Released
      /\ Lines = {"start", "wait", "wait2", "ack", "delay"}
  BY DEF Typed, Lines
<1>1. CASE ProcessNone
  <2>1. /\ stage' \in Stages \ {"ESTABLISHED"} /\ rym_tm_sec' \in -1..tm_sec
        /\ rym_sqqueue' \in Seq(Units) /\ Len(rym_sqqueue') <= Capacity
    BY <1>0, <1>1, ParamsTyped DEF ProcessNone
  <2>2. RymTyped' /\ BootTyped'
    BY <1>0, <1>1, <2>1, BootStutters DEF ProcessNone, RymTyped
  <2>. QED
    BY <1>0, <1>1, <2>2
       DEF ProcessNone, flowvars, sendervars, Typed, FlowTypeOK, SenderTyped, Released
<1>2. CASE ProcessFinished
  <2>1. 0 \in -1..tm_sec
    BY TimeoutAssumption
  <2>2. RymTyped' /\ BootTyped'
    BY <1>0, <1>2, <2>1, BootStutters DEF ProcessFinished, RymTyped
  <2>. QED
    BY <1>0, <1>2, <2>2
       DEF ProcessFinished, flowvars, sendervars, Typed, FlowTypeOK, SenderTyped, Released
<1>3. CASE Store
  <2>1. RymTyped' /\ BootTyped'
    BY <1>0, <1>3, BootStutters DEF Store, rymvars, RymTyped
  <2>2. FlowTypeOK' /\ count' <= count /\ mpc' = "test"
    BY <1>0, <1>3 DEF Store, SemStore, FlowTypeOK, MPC, Released
  <2>3. Len(wire) \in Nat
    BY <1>0, LenProperties DEF SenderTyped
  <2>. QED
    BY <1>0, <2>1, <2>2, <2>3 DEF sendervars, Typed, SenderTyped, Released, FlowTypeOK
<1>4. ASSUME NEW f \in Flow, ToWait(f) PROVE Typed'
  <2>1. RymTyped'
    BY <1>0, <1>4 DEF ToWait, rymvars, RymTyped
  <2>. QED
    BY <1>0, <1>4, <2>1, BootStutters, SuspendTyped DEF ToWait
<1>5. ASSUME NEW f \in Flow, Acquire(f) PROVE Typed'
  <2>1. RymTyped' /\ BootTyped'
    BY <1>0, <1>5, BootStutters DEF Acquire, rymvars, RymTyped
  <2>2. FlowTypeOK' /\ count' = count /\ (mpc' = "store" => reg' >= 1 /\ reg' <= count)
    BY <1>0, <1>5 DEF Acquire, SemAcquire, FlowTypeOK, MPC
  <2>. QED
    BY <1>0, <2>1, <2>2 DEF sendervars, Typed, SenderTyped, Released
<1>6. ASSUME NEW f \in Flow, ReadStart(f) PROVE Typed'
  <2>1. BootTyped'
    BY <1>0, <1>6, BootStutters DEF ReadStart
  <2>2. /\ trans_timeout' \in 0..TimeoutLimit /\ finish_timeout' \in 0..TimeoutLimit
        /\ UNCHANGED <<stage, rym_tm_sec, tx, jumped>>
    BY <1>0, <1>6, TimeoutAssumption DEF ReadStart, RymTyped
  <2>3. CASE Suspend(f, "wait") /\ UNCHANGED <<rym_sqqueue, start>>
    <3>1. RymTyped'
      BY <1>0, <2>2, <2>3 DEF RymTyped
    <3>. QED
      BY <1>0, <2>1, <2>3, <3>1, SuspendTyped
  <2>4. CASE /\ rym_sqqueue # <<>>
             /\ start' \in IF Head(rym_sqqueue).c = "BODY" THEN BodyCodes
                                                        ELSE {Head(rym_sqqueue).c}
             /\ rym_sqqueue' = Tail(rym_sqqueue)
             /\ mpc' = "run"
             /\ UNCHANGED <<line, age, count, reg>>
    <3>1. /\ Head(rym_sqqueue) \in Units /\ Tail(rym_sqqueue) \in Seq(Units)
          /\ Len(Tail(rym_sqqueue)) = Len(rym_sqqueue) - 1
      BY <1>0, <2>4, HeadTailProperties DEF RymTyped
    <3>2. start' \in {"SOH", "STX", "EOT", "JUNK"}
      BY <2>4, <3>1, CodesAssumption DEF Units
    <3>3. Len(rym_sqqueue) \in Nat /\ Capacity \in Nat
      BY <1>0, LenProperties, BodyAssumption DEF RymTyped, Capacity
    <3>4. RymTyped'
      BY <1>0, <2>2, <2>4, <3>1, <3>2, <3>3 DEF RymTyped
    <3>5. FlowTypeOK' /\ Released' /\ SenderTyped'
      BY <1>0, <2>4 DEF FlowTypeOK, MPC, Released, sendervars, SenderTyped
    <3>. QED
      BY <2>1, <3>4, <3>5 DEF Typed
  <2>. QED
    BY <1>6, <2>3, <2>4 DEF ReadStart
<1>. QED
  BY <1>1, <1>2, <1>3, <1>4, <1>5, <1>6, HandshakeTyped, TransTyped, FinishTyped
     DEF RymProcess

\* What the sender sends is a run of units.
LEMMA RunTyped ==
    ASSUME SenderTyped, NEW s \in Sending, NEW i \in 1..Len(File)
    PROVE  RunOf(s, i) \in Seq(Units)
<1>0. "none" \in Payloads /\ "header" \in Payloads /\ "null" \in Payloads
      /\ announced \in Nat /\ HeaderBody \in Nat /\ SohBody \in Nat /\ StxBody \in Nat
  BY FileAssumption, BlockAssumption, BodyAssumption DEF Payloads, SenderTyped
<1>1. NoPacket \in Packets /\ Header \in Packets /\ Null \in Packets
  BY <1>0 DEF NoPacket, Header, Null, Packets
<1>2. Block(i) \in Packets
  <2>1. File[i] \in Payloads /\ i \in Nat
    BY FileAssumption, LenProperties DEF Payloads
  <2>. QED
    BY <1>0, <2>1 DEF Block, Packets
<1>3. ASSUME NEW p \in Packets PROVE PacketRun(p) \in Seq(Units)
  <2>1. p.n \in Nat /\ \A j \in 1..p.n : Unit("BODY", p, j) \in Units
    BY DEF Unit, Units, Packets
  <2>2. Body(p) \in Seq(Units)
    BY <2>1 DEF Body
  <2>3. <<Unit(IF p.n = SohBody THEN "SOH" ELSE "STX", p, 0)>> \in Seq(Units)
    BY DEF Unit, Units
  <2>. QED
    BY <2>2, <2>3, ConcatProperties DEF PacketRun
<1>4. <<Unit("EOT", NoPacket, 0)>> \in Seq(Units)
  BY <1>1 DEF Unit, Units
<1>. QED
  <2>1. CASE s = "header"
    BY <1>1, <1>3, <2>1 DEF RunOf
  <2>2. CASE s = "data"
    BY <1>2, <1>3, <2>2 DEF RunOf
  <2>3. CASE s = "eot"
    BY <1>4, <2>3 DEF RunOf
  <2>4. CASE s = "null"
    BY <1>1, <1>3, <2>4 DEF RunOf
  <2>. QED
    BY <2>1, <2>2, <2>3, <2>4 DEF Sending

\* The types of the receiver hold where it is left alone.
LEMMA RymStutters == ASSUME RymTyped, UNCHANGED rymvars PROVE RymTyped'
  BY DEF RymTyped, rymvars

\* The tick moves no more than the ages.
LEMMA TickTyped == ASSUME Typed, Tick PROVE Typed'
<1>1. age' \in [Flow -> 0..Sec]
  <2>1. \A f \in Flow : age[f] \in 0..Sec
    BY DEF Typed, FlowTypeOK
  <2>2. \A n \in 0..Sec : (IF n < Sec THEN n + 1 ELSE Sec) \in 0..Sec
    BY SecAssumption
  <2>3. \A f \in Flow : (IF age[f] < Sec THEN age[f] + 1 ELSE Sec) \in 0..Sec
    BY <2>1, <2>2
  <2>. QED
    BY <2>3 DEF Tick, FlowTick
<1>. QED
  BY <1>1, RymStutters, BootStutters
     DEF Tick, FlowTick, Typed, FlowTypeOK, SenderTyped, Released, sendervars

\* The first run leaves the wire.
LEMMA WireTail ==
    ASSUME NEW R, wire \in Seq(R), wire # <<>>
    PROVE  /\ Head(wire) \in R /\ Head(wire) = wire[1] /\ Tail(wire) \in Seq(R)
           /\ Len(Tail(wire)) = Len(wire) - 1 /\ Len(wire) \in Nat /\ Len(wire) >= 1
<1>1. Head(wire) = wire[1]
  OBVIOUS
<1>. QED
  BY <1>1, HeadTailProperties, EmptySeq, LenProperties

\* All of the run or none of it.
LEMMA ReceiveQueue ==
    ASSUME NEW S, rym_sqqueue \in Seq(S), NEW run \in Seq(S), RymReceive(run)
    PROVE  /\ rym_sqqueue' \in Seq(S)
           /\ Len(rym_sqqueue) <= Capacity => Len(rym_sqqueue') <= Capacity
  BY ConcatProperties DEF RymReceive

\* A run that reaches the receiver turns from one on its way into a release.
LEMMA DeliverTyped == ASSUME Typed, Deliver PROVE Typed'
<1>0. BootTyped /\ RymTyped /\ FlowTypeOK /\ SenderTyped /\ Released
  BY DEF Typed
<1>1. /\ Head(wire) \in Seq(Units) /\ wire' \in Seq(Seq(Units))
      /\ Len(wire') = Len(wire) - 1 /\ Len(wire) \in Nat
  BY <1>0, WireTail DEF Deliver, SenderTyped
<1>2. rym_sqqueue' \in Seq(Units) /\ Len(rym_sqqueue') <= Capacity
  BY <1>0, <1>1, ReceiveQueue DEF Deliver, RymTyped
<1>3. RymTyped'
  BY <1>0, <1>2 DEF Deliver, RymReceive, RymTyped
<1>4. BootTyped'
  BY <1>0, BootStutters DEF Deliver, RymReceive
<1>5. FlowTypeOK' /\ count' = count + 1
  BY <1>0 DEF Deliver, RymReceive, SemRelease, FlowTypeOK
<1>6. SenderTyped'
  BY <1>0, <1>1 DEF Deliver, SenderTyped
<1>7. Released'
  BY <1>0, <1>1, <1>5 DEF Deliver, RymReceive, Released, FlowTypeOK, SenderTyped
<1>. QED
  BY <1>3, <1>4, <1>5, <1>6, <1>7 DEF Typed

\* Sending puts a typed run on the wire and counts it.
LEMMA SendTyped ==
    ASSUME SenderTyped, NEW s \in Sending, NEW i \in 1..Len(File), Send(s, i),
           UNCHANGED <<announced, faults, restarts>>
    PROVE  SenderTyped' /\ Len(wire') = Len(wire) + 1 /\ sends' = sends + 1
<1>1. RunOf(s, i) \in Seq(Units)
  BY RunTyped
<1>2. wire' \in Seq(Seq(Units)) /\ Len(wire') = Len(wire) + 1
  BY <1>1 DEF Send, SenderTyped
<1>3. sends' \in 0..MaxSends
  BY BoundsAssumption DEF Send, SenderTyped
<1>. QED
  BY <1>2, <1>3 DEF Send, SenderTyped, SenderStates, Sending

\* What the sender may come to by a code.
LEMMA AnswerTyped ==
    ASSUME SenderTyped, NEW code
    PROVE  Answer(code)[1] \in SenderStates \cup {"ignore"} /\ Answer(code)[2] \in 1..Len(File)
<1>0. /\ Len(File) \in Nat /\ Len(File) >= 1 /\ k \in 1..Len(File) /\ ss \in SenderStates
      /\ k < Len(File) => k + 1 \in 1..Len(File)
  BY Constants DEF SenderTyped
<1>1. 1 \in 1..Len(File) /\ Sending \subseteq SenderStates
  BY <1>0 DEF Sending, SenderStates
<1>. QED
  BY <1>0, <1>1 DEF Answer, SenderStates

\* Every step of the sender keeps the types.
LEMMA SenderStepTyped == ASSUME Typed, Sender PROVE Typed'
<1>0. BootTyped /\ RymTyped /\ FlowTypeOK /\ SenderTyped /\ Released /\ k \in 1..Len(File)
  BY DEF Typed, SenderTyped
<1>w. Len(wire) \in Nat /\ sends \in Nat /\ count \in Nat /\ faults \in Nat
  BY <1>0, LenProperties, BoundsAssumption DEF SenderTyped, FlowTypeOK
<1>1. CASE See
  <2>1. tx' \in Seq(Codes)
    BY <1>0, <1>1, HeadTailProperties DEF See, RymTyped
  <2>2. RymTyped' /\ BootTyped' /\ FlowTypeOK' /\ UNCHANGED <<mpc, reg, count>>
    BY <1>0, <1>1, <2>1, BootStutters DEF See, RymTyped, flowvars, FlowTypeOK
  <2>3. SenderTyped' /\ Len(wire') - Len(wire) = sends' - sends /\ Len(wire') \in Nat
        /\ sends' \in Nat /\ faults' = faults
    <3> DEFINE a == Answer(Head(tx))
    <3>1. a[1] \in SenderStates \cup {"ignore"} /\ a[2] \in 1..Len(File)
      BY <1>0, AnswerTyped
    <3>2. CASE a[1] \in Sending /\ Send(a[1], a[2])
      BY <1>0, <1>w, <1>1, <3>1, <3>2, SendTyped DEF See
    <3>3. CASE ss' = "gaveup" /\ UNCHANGED <<k, wire, sends>>
      BY <1>0, <1>w, <1>1, <3>3 DEF See, SenderTyped, SenderStates
    <3>4. CASE a[1] # "ignore" /\ ss' = a[1] /\ k' = a[2] /\ UNCHANGED <<wire, sends>>
      BY <1>0, <1>w, <1>1, <3>1, <3>4 DEF See, SenderTyped
    <3>5. CASE UNCHANGED <<ss, k, wire, sends>>
      BY <1>0, <1>w, <1>1, <3>5 DEF See, SenderTyped
    <3>. QED
      BY <1>1, <3>2, <3>3, <3>4, <3>5 DEF See
  <2>. QED
    BY <1>0, <1>w, <2>2, <2>3 DEF Typed, Released
<1>2. CASE SenderTimeout
  <2>1. SenderTyped' /\ Len(wire') = Len(wire) + 1 /\ sends' = sends + 1
    BY <1>0, <1>2, SendTyped DEF SenderTimeout
  <2>. QED
    BY <1>0, <1>w, <1>2, <2>1, BootStutters, RymStutters
       DEF SenderTimeout, Typed, Released, flowvars, FlowTypeOK
<1>3. CASE GiveUp
  BY <1>0, <1>3, BootStutters, RymStutters
     DEF GiveUp, Typed, Released, flowvars, FlowTypeOK, SenderTyped, SenderStates
<1>4. CASE Restart
  <2>1. restarts' \in 0..MaxRestarts /\ 1 \in 1..Len(File)
    BY <1>0, <1>4, BoundsAssumption, Constants DEF Restart, SenderTyped
  <2>. QED
    BY <1>0, <1>4, <2>1, BootStutters, RymStutters
       DEF Restart, Typed, Released, flowvars, FlowTypeOK, SenderTyped, SenderStates
<1>. QED
  BY <1>1, <1>2, <1>3, <1>4 DEF Sender

\* A spoilt run is a run of units still.
LEMMA SpoilTyped ==
    ASSUME NEW run \in Seq(Units)
    PROVE  [i \in DOMAIN run |-> Spoil(run[i])] \in Seq(Units)
<1>1. Len(run) \in Nat /\ DOMAIN run = 1..Len(run) /\ \A i \in 1..Len(run) : run[i] \in Units
  BY LenProperties, ElementOfSeq
<1>2. ASSUME NEW u \in Units PROVE Spoil(u) \in Units
  BY DEF Spoil, Units, Packets
<1>. QED
  BY <1>1, <1>2

\* A run with a spoilt start byte is a run of units.
LEMMA GarbleTyped ==
    ASSUME NEW run \in Seq(Units)
    PROVE  Garble(run) \in Seq(Units)
<1>1. Len(run) \in Nat /\ \A i \in 1..Len(run) : run[i] \in Units
  BY LenProperties, ElementOfSeq
<1>2. \A i \in 1..Len(run) : Garble(run)[i] \in Units
  <2>1. \A u \in Units : [u EXCEPT !.c = "JUNK"] \in Units
    BY DEF Units
  <2>2. \A i \in 1..Len(run) : Garble(run)[i] = IF i = 1 THEN [run[1] EXCEPT !.c = "JUNK"] ELSE run[i]
    BY <1>1, LenProperties DEF Garble
  <2>. QED
    BY <1>1, <2>1, <2>2
<1>3. Garble(run) \in [1..Len(run) -> Units]
  BY <1>1, <1>2, LenProperties DEF Garble
<1>. QED
  BY <1>1, <1>3

\* Every fault of the line keeps the types; a split one is paid for in faults.
LEMMA LineTyped == ASSUME Typed, Line PROVE Typed'
<1>0. BootTyped /\ RymTyped /\ FlowTypeOK /\ SenderTyped /\ Released /\ wire \in Seq(Seq(Units))
  BY DEF Typed, SenderTyped
<1>w. Len(wire) \in Nat /\ faults \in Nat /\ sends \in Nat /\ count \in Nat
  BY <1>0, LenProperties, BoundsAssumption DEF SenderTyped, FlowTypeOK
\* What every fault has in common.
<1>c. ASSUME NEW kind, Strike(kind), wire' \in Seq(Seq(Units)), Len(wire') \in Nat,
             Len(wire') <= Len(wire) + 1, tx' \in Seq(Codes)
      PROVE  Typed'
  <2>1. RymTyped' /\ BootTyped' /\ FlowTypeOK'
    BY <1>0, <1>c, BootStutters DEF Strike, RymTyped, FlowTypeOK, flowvars
  <2>2. faults' \in 0..MaxFaults /\ faults' = faults + 1
    BY <1>0, <1>c, BoundsAssumption DEF Strike, SenderTyped
  <2>3. SenderTyped'
    BY <1>0, <1>c, <2>2 DEF Strike, SenderTyped
  <2>4. Released'
    BY <1>0, <1>w, <1>c, <2>2 DEF Strike, Released, flowvars
  <2>. QED
    BY <2>1, <2>3, <2>4 DEF Typed
<1>1. CASE Lose
  BY <1>0, <1>w, <1>c, <1>1, WireTail DEF Lose, RymTyped
<1>2. CASE SpoilCrc
  <2>1. wire[1] \in Seq(Units) /\ 1 \in 1..Len(wire)
    BY <1>0, <1>2, WireTail DEF SpoilCrc
  <2>2. [i \in DOMAIN wire[1] |-> Spoil(wire[1][i])] \in Seq(Units)
    BY <2>1, SpoilTyped
  <2>3. wire' \in Seq(Seq(Units)) /\ Len(wire') = Len(wire)
    BY <1>0, <1>2, <2>1, <2>2, ExceptSeq DEF SpoilCrc
  <2>4. Strike("crc") /\ tx' \in Seq(Codes)
    BY <1>0, <1>2 DEF SpoilCrc, RymTyped
  <2>5. Len(wire') \in Nat /\ Len(wire') <= Len(wire) + 1
    BY <1>w, <2>3
  <2>. QED
    BY <1>c, <2>3, <2>4, <2>5
<1>3. CASE SpoilStart
  <2>1. wire[1] \in Seq(Units) /\ 1 \in 1..Len(wire)
    BY <1>0, <1>3, WireTail DEF SpoilStart
  <2>2. Garble(wire[1]) \in Seq(Units)
    BY <2>1, GarbleTyped
  <2>3. wire' \in Seq(Seq(Units)) /\ Len(wire') = Len(wire)
    BY <1>0, <1>3, <2>1, <2>2, ExceptSeq DEF SpoilStart
  <2>4. Strike("start") /\ tx' \in Seq(Codes)
    BY <1>0, <1>3 DEF SpoilStart, RymTyped
  <2>5. Len(wire') \in Nat /\ Len(wire') <= Len(wire) + 1
    BY <1>w, <2>3
  <2>. QED
    BY <1>c, <2>3, <2>4, <2>5
<1>4. CASE Split
  <2>1. Head(wire) \in Seq(Units) /\ Tail(wire) \in Seq(Seq(Units))
        /\ Len(Tail(wire)) = Len(wire) - 1
    BY <1>0, <1>4, WireTail DEF Split
  <2>2. PICK i \in 1..(Len(Head(wire)) - 1) :
               wire' = <<SubSeq(Head(wire), 1, i),
                         SubSeq(Head(wire), i + 1, Len(Head(wire)))>> \o Tail(wire)
    BY <1>4 DEF Split
  <2>3. /\ SubSeq(Head(wire), 1, i) \in Seq(Units)
        /\ SubSeq(Head(wire), i + 1, Len(Head(wire))) \in Seq(Units)
    <3>1. Len(Head(wire)) \in Nat /\ i \in Nat /\ i < Len(Head(wire))
          /\ \A j \in 1..Len(Head(wire)) : Head(wire)[j] \in Units
      BY <2>1, LenProperties, ElementOfSeq
    <3>2. /\ \A j \in 1..i : Head(wire)[j] \in Units
          /\ \A j \in (i + 1)..Len(Head(wire)) : Head(wire)[j] \in Units
      BY <3>1
    <3>3. i \in Int /\ i + 1 \in Int /\ 1 \in Int /\ Len(Head(wire)) \in Int
      BY <3>1
    <3>. QED
      BY <3>2, <3>3, SubSeqProperties
  <2>4. wire' \in Seq(Seq(Units)) /\ Len(wire') = Len(wire) + 1
    <3> DEFINE two == <<SubSeq(Head(wire), 1, i),
                        SubSeq(Head(wire), i + 1, Len(Head(wire)))>>
    <3>1. two \in Seq(Seq(Units)) /\ Len(two) = 2
      BY <2>3
    <3>2. wire' = two \o Tail(wire)
      BY <2>2
    <3>3. \A R : \A a, b \in Seq(R) : a \o b \in Seq(R) /\ Len(a \o b) = Len(a) + Len(b)
      BY ConcatProperties
    <3>. HIDE DEF two
    <3>4. two \o Tail(wire) \in Seq(Seq(Units)) /\ Len(two \o Tail(wire)) = 2 + (Len(wire) - 1)
      BY <2>1, <3>1, <3>3
    <3>. QED
      BY <1>w, <3>2, <3>4
  <2>5. Strike("split") /\ tx' \in Seq(Codes)
    BY <1>0, <1>4 DEF Split, RymTyped
  <2>6. Len(wire') \in Nat /\ Len(wire') <= Len(wire) + 1
    BY <1>w, <2>4
  <2>. QED
    BY <1>c, <2>4, <2>5, <2>6
<1>5. CASE LoseReply
  <2>1. tx' \in Seq(Codes)
    BY <1>0, <1>5, HeadTailProperties DEF LoseReply, RymTyped
  <2>. QED
    BY <1>0, <1>w, <1>c, <1>5, <2>1 DEF LoseReply
<1>. QED
  BY <1>1, <1>2, <1>3, <1>4, <1>5 DEF Line

\* At the start everything is typed.
LEMMA TypedInit == Init => Typed
<1>. SUFFICES ASSUME Init PROVE Typed
  OBVIOUS
<1>0. 0 \in 0..Sec /\ 0 \in -1..tm_sec /\ 0 \in 0..TimeoutLimit /\ 0 <= Capacity
      /\ 0 \in 0..MaxSends /\ 0 \in 0..MaxFaults /\ 0 \in 0..MaxRestarts
  BY Constants
<1>1. \A S : <<>> \in Seq(S) /\ Len(<<>>) = 0
  BY EmptySeq
<1>2. FlowTypeOK /\ BootTyped
  BY <1>0, <1>1 DEF Init, FlowInit, FlowTypeOK, Lines, MPC, BootInit, BootTyped
<1>3. RymTyped
  BY <1>0, <1>1 DEF Init, RymInit, RymTyped, Stages
<1>4. SenderTyped /\ Released
  BY <1>0, <1>1, Constants DEF Init, FlowInit, SenderTyped, SenderStates, Released
<1>. QED
  BY <1>2, <1>3, <1>4 DEF Typed

\* Every step keeps everything typed.
LEMMA TypedStep == Typed /\ [Next]_vars => Typed'
<1>. SUFFICES ASSUME Typed, [Next]_vars PROVE Typed'
  OBVIOUS
<1>1. CASE Poll
  <2>1. RymTyped' /\ BootTyped'
    BY <1>1, BootStutters DEF Poll, Jump, Typed, RymTyped
  <2>. QED
    BY <1>1, <2>1 DEF Poll, Jump, Typed, flowvars, sendervars, FlowTypeOK, SenderTyped, Released
<1>2. CASE UNCHANGED vars
  BY <1>2, BootStutters, RymStutters
     DEF vars, Typed, flowvars, sendervars, FlowTypeOK, SenderTyped, Released
<1>. QED
  BY <1>1, <1>2, ProcessTyped, TickTyped, DeliverTyped, SenderStepTyped, LineTyped
     DEF Next, Mcu, Booted

\* The types of the parts are the type invariant.
LEMMA TypedIsTypeOK == Typed => TypeOK
<1>. SUFFICES ASSUME Typed PROVE TypeOK
  OBVIOUS
<1>1. count <= sends + faults
  <2>1. Len(wire) \in Nat /\ count \in Nat /\ count + Len(wire) <= sends + faults
    BY LenProperties DEF Typed, SenderTyped, FlowTypeOK, Released
  <2>2. sends \in Nat /\ faults \in Nat
    BY BoundsAssumption DEF Typed, SenderTyped
  <2>. QED
    BY <2>1, <2>2
<1>. QED
  BY <1>1 DEF Typed, TypeOK, BootTyped, RymTyped, SenderTyped

----------------------------------------------------------------------------
\* The premise of what follows: a line that loses or spoils what the sender sends but not
\* the replies, and cuts no run in two; a sender that does not take a C for a NAK, and that
\* sends its blocks in 1K packets.  Without any one of these the code breaks what is proved.
PlainLine == Faults \subseteq {"loss", "crc", "start"} /\ ~ResendOnC /\ ShortBlocks = {}

\* A release that the main loop has taken and whose run it has still to read.
Held    == \/ mpc = "run"
           \/ mpc = "test" /\ \E f \in Flow : Current(f) /\ age[f] < Sec
\* The runs sent and not yet dealt with: released, on their way, or held.
Pending == count + Len(wire) + IF Held THEN 1 ELSE 0
\* A reply other than C is under way; an ACK is.
Replied == \E i \in DOMAIN tx : tx[i] # "C"
Acked   == \E i \in DOMAIN tx : tx[i] = "ACK"
\* The replies that what the sender is at may get.
Due     == CASE ss = "header"           -> {"ACK", "CAN"}
             [] ss \in {"data", "null"} -> {"ACK"}
             [] ss = "eot"              -> {"ACK", "NAK"}
             [] ss = "cancelled"        -> {"CAN"}
             [] OTHER                   -> {}

\* Sender and receiver take turns: one run is under way at most, and none once it is
\* replied to.  So what is read behind a start byte is the rest of that one run.
OneTurn  == /\ Pending <= 1
            /\ ss \notin Sending \/ Replied => Pending = 0
            /\ mpc = "run" => Len(rym_sqqueue) <= StxBody
\* One reply is under way at most, and it is one that the run could get.
OneReply == /\ \A i \in DOMAIN tx : tx[i] \in {"C"} \cup Due
            /\ \A i \in DOMAIN tx : tx[i] \in {"ACK", "NAK"}
                  => \A j \in DOMAIN tx : i # j => tx[j] = "C"

\* The erased bank is being filled, or is about to be.
Opened == stage = "TRANSMITTING" \/ line["hs"] = "ack"
\* What has come in is the file from its first block on; all of it when the end is
\* being settled, and nothing in the half second behind the ACK of a header.
Book   == /\ Len(mic) = Len(flash) /\ Len(flash) <= Len(File)
          /\ \A i \in 1..Len(mic) : mic[i] = File[i]
          /\ stage \in {"FINISHING", "FINISHED"} => Len(flash) = Len(File)
          /\ line["hs"] = "ack" => stage = "ESTABLISHING" /\ flash = <<>>

\* What the units of a run may be: of no header packet, of block k, of an EOT; and the
\* run of block k as it leaves the sender, its start byte perhaps spoilt.
NotHeader  == {u \in Units : ~(u.p.seq = 0 /\ u.p.n = StxBody)}
OfBlock    == {u \in Units : u.p.seq = k /\ u.p.data = File[k] /\ u.p.n = StxBody}
WholeBlock == {r \in Seq(OfBlock) : Len(r) = Capacity /\ r[1].c \in {"STX", "JUNK"}}
OfEot      == {u \in Units : u.c \in {"EOT", "JUNK"}}

\* What is in the queue and on its way.
NoHeader   == rym_sqqueue \in Seq(NotHeader) /\ wire \in Seq(Seq(NotHeader))
BlocksOnly == /\ rym_sqqueue \in Seq(OfBlock) /\ wire \in Seq(WholeBlock)
              /\ mpc = "run" => start \in {"STX", "JUNK"}
              /\ mpc # "run" => rym_sqqueue = <<>> \/ rym_sqqueue[1].c \in {"STX", "JUNK"}
EotsOnly   == /\ rym_sqqueue \in Seq(OfEot) /\ wire \in Seq(Seq(OfEot))
              /\ mpc = "run" => start \in {"EOT", "JUNK"}

\* The header has been accepted: the bank is empty when it is opened.
Begun == /\ stage \in {"ESTABLISHING", "TRANSMITTING"} /\ NoHeader
         /\ Opened => flash = <<>> /\ rym_sqqueue = <<>>

\* How far sender and receiver may be apart, for each thing the sender is at.  Before
\* its header the receiver asks for one, or does not ask ...
Waits == ss = "waitC" => /\ ~\E f \in Flow : At(f, "ack")
                         /\ tx # <<>> => stage = "ESTABLISHING"
\* ... the header is not yet taken, or it is and its ACK is under way ...
Offers == ss = "header" => IF Acked THEN Begun
                                    ELSE stage = "ESTABLISHING" /\ line["hs"] # "ack"
\* ... the sender has seen that ACK ...
Starts == ss = "waitC1" => Begun
\* ... block k is programmed when its ACK is under way, and is the next one before that.
\* The receiver may have fallen back to the handshake since ...
Sends  == ss = "data" =>
    /\ stage \in {"ESTABLISHING", "TRANSMITTING"} /\ NoHeader
    /\ IF Acked THEN /\ Len(flash) >= k
                     /\ Opened => Len(flash) = k /\ rym_sqqueue = <<>>
                ELSE /\ Len(flash) >= k - 1
                     /\ Opened => Len(flash) = k - 1 /\ BlocksOnly
\* ... the whole file is in, and a receiver still in the transfer has only EOTs to read.
Closes == ss \in {"eot", "waitC2", "null"} =>
    /\ Len(flash) = Len(File) /\ line["hs"] # "ack" /\ NoHeader
    /\ stage = "TRANSMITTING" => ss = "eot" /\ ~Replied /\ EotsOnly

\* The sender and the receiver agree on how far they are.
Agree == Waits /\ Offers /\ Starts /\ Sends /\ Closes

\* The inductive invariant of a plain line.
Orderly == PlainLine /\ Typed /\ OneTurn /\ OneReply /\ Book /\ Agree

----------------------------------------------------------------------------
\* The count of what is pending, in this state ...
LEMMA PendingIs ==
    ASSUME Typed
    PROVE  /\ Pending \in Nat /\ count \in Nat /\ Len(wire) \in Nat
           /\ count + Len(wire) <= Pending
           /\ Held => Pending = count + Len(wire) + 1
           /\ ~Held => Pending = count + Len(wire)
<1>1. count \in Nat /\ Len(wire) \in Nat
  BY LenProperties DEF Typed, FlowTypeOK, SenderTyped
<1>. QED
  BY <1>1 DEF Pending

\* ... and in the next one.
LEMMA PendingWas ==
    ASSUME Typed'
    PROVE  /\ Pending' \in Nat /\ count' \in Nat /\ Len(wire') \in Nat
           /\ Held' => Pending' = count' + Len(wire') + 1
           /\ ~Held' => Pending' = count' + Len(wire')
<1>1. count' \in Nat /\ Len(wire') \in Nat
  BY LenProperties DEF Typed, FlowTypeOK, SenderTyped
<1>. QED
  BY <1>1 DEF Pending

\* Suspending lets go of the run that was held.
LEMMA SuspendPending ==
    ASSUME Typed, Typed', NEW f, NEW l, Suspend(f, l), wire' = wire
    PROVE  /\ Pending' <= Pending /\ mpc' = "call"
           /\ mpc = "run" => Pending' = Pending - 1
<1>1. ~Held' /\ count' = count /\ mpc' = "call"
  BY DEF Suspend, Held
<1>2. mpc = "run" => Held
  BY DEF Held
<1>. QED
  BY <1>1, <1>2, PendingIs, PendingWas

\* A C is no reply.
LEMMA SayC ==
    ASSUME tx \in Seq(Codes), Transmit(<<"C">>), OneReply, Due' = Due
    PROVE  Replied' = Replied /\ Acked' = Acked /\ OneReply'
<1>1. /\ Len(tx) \in Nat /\ DOMAIN tx = 1..Len(tx)
      /\ Len(<<"C">>) = 1 /\ <<"C">>[1] = "C" /\ <<"C">> \in Seq(Codes)
  BY LenProperties DEF Codes
<1>2. /\ tx' \in Seq(Codes) /\ Len(tx') = Len(tx) + 1
      /\ \A i \in 1..Len(tx) + 1 : tx'[i] = IF i <= Len(tx) THEN tx[i] ELSE <<"C">>[i - Len(tx)]
  BY <1>1, ConcatProperties DEF Transmit
<1>3. /\ DOMAIN tx' = 1..Len(tx) + 1
      /\ \A i \in 1..Len(tx) + 1 : tx'[i] = IF i <= Len(tx) THEN tx[i] ELSE "C"
  BY <1>1, <1>2, LenProperties
<1>4. Replied' = Replied /\ Acked' = Acked
  BY <1>1, <1>3 DEF Replied, Acked
<1>5. OneReply'
  BY <1>1, <1>3 DEF OneReply
<1>. QED
  BY <1>4, <1>5

\* One reply where none was under way.
LEMMA SayReply ==
    ASSUME tx \in Seq(Codes), NEW c \in Codes \ {"C"}, Transmit(<<c>>), ~Replied,
           c \in Due'
    PROVE  Replied' /\ (Acked' <=> c = "ACK") /\ OneReply'
<1>1. /\ Len(tx) \in Nat /\ DOMAIN tx = 1..Len(tx)
      /\ Len(<<c>>) = 1 /\ <<c>>[1] = c /\ <<c>> \in Seq(Codes)
  BY LenProperties DEF Codes
<1>2. /\ tx' \in Seq(Codes) /\ Len(tx') = Len(tx) + 1
      /\ \A i \in 1..Len(tx) + 1 : tx'[i] = IF i <= Len(tx) THEN tx[i] ELSE <<c>>[i - Len(tx)]
  BY <1>1, ConcatProperties DEF Transmit
<1>3. /\ DOMAIN tx' = 1..Len(tx) + 1
      /\ \A i \in 1..Len(tx) + 1 : tx'[i] = IF i <= Len(tx) THEN "C" ELSE c
  BY <1>1, <1>2, LenProperties DEF Replied
<1>4. Replied' /\ (Acked' <=> c = "ACK")
  BY <1>1, <1>3 DEF Replied, Acked
<1>5. OneReply'
  BY <1>1, <1>3 DEF OneReply
<1>. QED
  BY <1>4, <1>5

\* The three CANs of a refusal are one kind of reply.
LEMMA SayCancel ==
    ASSUME tx \in Seq(Codes), Transmit(<<"CAN", "CAN", "CAN">>), ~Replied, "CAN" \in Due'
    PROVE  Replied' /\ ~Acked' /\ OneReply'
<1> DEFINE can == <<"CAN", "CAN", "CAN">>
<1>1. Len(tx) \in Nat /\ DOMAIN tx = 1..Len(tx)
  BY LenProperties
<1>c. Len(can) = 3 /\ (\A i \in 1..3 : can[i] = "CAN") /\ can \in Seq(Codes)
  BY DEF Codes
<1>. HIDE DEF can
<1>2. /\ tx' \in Seq(Codes) /\ Len(tx') = Len(tx) + 3
      /\ \A i \in 1..Len(tx) + 3 : tx'[i] = IF i <= Len(tx) THEN tx[i] ELSE can[i - Len(tx)]
  BY <1>1, <1>c, ConcatProperties DEF Transmit, can
<1>3. /\ DOMAIN tx' = 1..Len(tx) + 3
      /\ \A i \in 1..Len(tx) + 3 : tx'[i] = IF i <= Len(tx) THEN "C" ELSE "CAN"
  <2>1. DOMAIN tx' = 1..Len(tx) + 3
    BY <1>2, LenProperties
  <2>2. \A i \in 1..Len(tx) : tx[i] = "C"
    BY <1>1 DEF Replied
  <2>3. ASSUME NEW i \in 1..Len(tx) + 3
        PROVE  tx'[i] = IF i <= Len(tx) THEN "C" ELSE "CAN"
    <3>1. CASE i <= Len(tx)
      <4>1. i \in 1..Len(tx)
        BY <1>1, <3>1
      <4>. QED
        BY <1>2, <2>2, <3>1, <4>1
    <3>2. CASE ~(i <= Len(tx))
      <4>1. i - Len(tx) \in 1..3
        BY <1>1, <3>2
      <4>. QED
        BY <1>2, <1>c, <3>2, <4>1
    <3>. QED
      BY <3>1, <3>2
  <2>. QED
    BY <2>1, <2>3
<1>4. Replied' /\ ~Acked'
  <2>1. Len(tx) + 3 \in 1..Len(tx) + 3 /\ ~(Len(tx) + 3 <= Len(tx))
    BY <1>1
  <2>. QED
    BY <1>1, <1>3, <2>1 DEF Replied, Acked
<1>5. OneReply'
  BY <1>1, <1>3 DEF OneReply
<1>. QED
  BY <1>4, <1>5

\* A step that says nothing, programs nothing and stays in its stage.
LEMMA KeepStep ==
    ASSUME Orderly, Typed', UNCHANGED <<stage, tx, flash, mic, ss, k, wire>>,
           \A f \in Flow : line'[f] = "ack" <=> line[f] = "ack",
           Pending' <= Pending,
           \A S : rym_sqqueue \in Seq(S) => rym_sqqueue' \in Seq(S),
           rym_sqqueue = <<>> => rym_sqqueue' = <<>>,
           mpc' = "run" => Len(rym_sqqueue') <= StxBody,
           Opened /\ BlocksOnly => BlocksOnly',
           Opened /\ EotsOnly => EotsOnly'
    PROVE  Orderly'
<1>0. /\ Replied' = Replied /\ Acked' = Acked /\ Due' = Due /\ Pending' \in Nat /\ Pending \in Nat
      /\ "hs" \in Flow
  BY PendingIs, PendingWas, FlowAssumption DEF Orderly, Replied, Acked, Due
<1>1. Opened' = Opened /\ (NoHeader => NoHeader') /\ \A f \in Flow : At(f, "ack")' <=> At(f, "ack")
  BY <1>0 DEF Opened, NoHeader, NotHeader, At, Current
<1>2. OneTurn' /\ OneReply' /\ Book'
  BY <1>0 DEF Orderly, OneTurn, OneReply, Book
<1>3. Waits' /\ Offers' /\ Starts'
  BY <1>0, <1>1 DEF Orderly, Agree, Waits, Offers, Starts, Begun
<1>4. Sends'
  BY <1>0, <1>1 DEF Orderly, Agree, Sends
<1>5. Closes'
  BY <1>0, <1>1 DEF Orderly, Agree, Closes, Opened
<1>. QED
  BY <1>2, <1>3, <1>4, <1>5 DEF Orderly, PlainLine, Agree

\* The receiver drops what it was at and waits for a header again.
LEMMA BackStep ==
    ASSUME Orderly, Typed', UNCHANGED <<tx, flash, mic, ss, k, wire>>,
           stage' = "ESTABLISHING", rym_sqqueue' = <<>>, line'["hs"] # "ack",
           Pending' <= Pending, mpc' = "call", stage # "ESTABLISHING"
    PROVE  Orderly'
<1>0. /\ Replied' = Replied /\ Acked' = Acked /\ Due' = Due /\ Pending' \in Nat /\ Pending \in Nat
  BY PendingIs, PendingWas DEF Orderly, Replied, Acked, Due
<1>1. ~Opened' /\ (NoHeader => NoHeader') /\ \A f \in Flow : ~At(f, "ack")'
  BY EmptySeq DEF Opened, NoHeader, NotHeader, At, Current
<1>2. OneTurn' /\ OneReply' /\ Book'
  BY <1>0 DEF Orderly, OneTurn, OneReply, Book
<1>3. Waits' /\ Offers' /\ Starts'
  BY <1>0, <1>1 DEF Orderly, Agree, Waits, Offers, Starts, Begun
<1>4. Sends'
  BY <1>0, <1>1 DEF Orderly, Agree, Sends
<1>5. Closes'
  BY <1>0, <1>1 DEF Orderly, Agree, Closes
<1>. QED
  BY <1>2, <1>3, <1>4, <1>5 DEF Orderly, PlainLine, Agree

\* The receiver asks for the next packet without another change.
LEMMA AskStep ==
    ASSUME Orderly, Typed', Transmit(<<"C">>),
           UNCHANGED <<stage, flash, mic, ss, k, wire, rym_sqqueue>>,
           line'["hs"] = "ack" <=> line["hs"] = "ack",
           \A f \in Flow : ~At(f, "ack")',
           ss = "waitC" => stage = "ESTABLISHING",
           Pending' <= Pending, mpc' = "call", mpc # "run"
    PROVE  Orderly'
<1>0. /\ Due' = Due /\ Pending' \in Nat /\ Pending \in Nat /\ tx \in Seq(Codes)
  BY PendingIs, PendingWas DEF Orderly, Due, Typed, RymTyped
<1>1. Replied' = Replied /\ Acked' = Acked /\ OneReply'
  BY <1>0, SayC DEF Orderly
<1>2. /\ Opened' = Opened /\ (NoHeader => NoHeader')
      /\ (BlocksOnly => BlocksOnly') /\ (EotsOnly => EotsOnly')
  BY DEF Opened, NoHeader, NotHeader, BlocksOnly, EotsOnly, OfBlock, WholeBlock, OfEot
<1>3. OneTurn' /\ Book'
  BY <1>0, <1>1 DEF Orderly, OneTurn, Book
<1>4. Waits' /\ Offers' /\ Starts'
  BY <1>1, <1>2 DEF Orderly, Agree, Waits, Offers, Starts, Begun
<1>5. Sends' /\ Closes'
  BY <1>1, <1>2 DEF Orderly, Agree, Sends, Closes
<1>. QED
  BY <1>1, <1>3, <1>4, <1>5 DEF Orderly, PlainLine, Agree

\* A packet is read in the transfer only while a block or an end is due.
LEMMA RunMeans ==
    ASSUME Orderly, mpc = "run"
    PROVE  /\ Pending = 1 /\ wire = <<>> /\ count = 0 /\ ss \in Sending /\ ~Replied /\ ~Acked
           /\ stage = "TRANSMITTING" =>
                 \/ ss = "data" /\ Len(flash) = k - 1 /\ BlocksOnly /\ start \in {"STX", "JUNK"}
                 \/ ss = "eot" /\ EotsOnly /\ start \in {"EOT", "JUNK"}
           /\ ss = "header" => stage = "ESTABLISHING" /\ line["hs"] # "ack"
<1>1. Held
  BY DEF Held
<1>2. Pending = 1 /\ count = 0 /\ Len(wire) = 0
  BY <1>1, PendingIs DEF Orderly, OneTurn
<1>3. wire = <<>>
  BY <1>2, EmptySeq DEF Orderly, Typed, SenderTyped
<1>4. ss \in Sending /\ ~Replied /\ ~Acked
  BY <1>2 DEF Orderly, OneTurn, Replied, Acked
<1>5. ss = "header" => stage = "ESTABLISHING" /\ line["hs"] # "ack"
  BY <1>4 DEF Orderly, Agree, Offers
<1>6. stage = "TRANSMITTING" =>
                 \/ ss = "data" /\ Len(flash) = k - 1 /\ BlocksOnly /\ start \in {"STX", "JUNK"}
                 \/ ss = "eot" /\ EotsOnly /\ start \in {"EOT", "JUNK"}
  BY <1>4, <1>5 DEF Orderly, Agree, Sends, Closes, Opened, BlocksOnly, EotsOnly, Sending
<1>. QED
  BY <1>2, <1>3, <1>4, <1>5, <1>6

\* A read leaves no unit that was not there.
LEMMA ReadKeeps ==
    ASSUME RymTyped, NEW n \in {SohBody, StxBody}, RymRead(n)
    PROVE  /\ \A S : rym_sqqueue \in Seq(S) => rym_sqqueue' \in Seq(S)
           /\ rym_sqqueue = <<>> => rym_sqqueue' = <<>>
           /\ Len(rym_sqqueue) <= n => rym_sqqueue' = <<>>
<1>1. n \in Nat
  BY BodyAssumption
<1>2. ASSUME NEW S, rym_sqqueue \in Seq(S) PROVE rym_sqqueue' \in Seq(S)
  BY <1>1, <1>2, ReadLeaves
<1>3. Len(rym_sqqueue) <= n => rym_sqqueue' = <<>>
  BY <1>1, ReadLeaves DEF RymTyped
<1>4. rym_sqqueue = <<>> => Len(rym_sqqueue) <= n
  BY <1>1, EmptySeq
<1>. QED
  BY <1>2, <1>3, <1>4

\* What an intact packet that is read is, and that nothing is left behind it.
LEMMA PacketIs ==
    ASSUME Orderly, mpc = "run", NEW n \in {SohBody, StxBody}, Intact(n)
    PROVE  /\ \A S : rym_sqqueue \in Seq(S) => rym_sqqueue[1] \in S
           /\ Packet.n = n /\ rym_sqqueue # <<>>
<1>1. RymTyped
  BY DEF Orderly, Typed
<1>2. n \in Nat /\ n >= 1 /\ n <= Len(rym_sqqueue) /\ Len(rym_sqqueue) \in Nat
  BY <1>1, BodyAssumption, LenProperties DEF Intact, Enough, RymTyped
<1>3. 1 \in 1..Len(rym_sqqueue)
  BY <1>2
<1>. QED
  BY <1>1, <1>2, <1>3, ElementOfSeq, EmptySeq, PacketTyped

\* A header is read only when one is due.
LEMMA HeaderIsDue ==
    ASSUME Orderly, HandshakeRun, IsHeader
    PROVE  ss = "header" /\ mpc = "run" /\ stage = "ESTABLISHING"
<1>1. mpc = "run" /\ stage = "ESTABLISHING" /\ Intact(StxBody) /\ Packet.seq = 0
  BY DEF HandshakeRun, IsHeader, At, Current
<1>2. /\ \A S : rym_sqqueue \in Seq(S) => rym_sqqueue[1] \in S
      /\ Packet.n = StxBody
  BY <1>1, PacketIs
<1>3. ~NoHeader
  BY <1>1, <1>2 DEF NoHeader, NotHeader, Packet
<1>. QED
  BY <1>1, <1>3, RunMeans DEF Orderly, Agree, Sends, Closes, Sending

\* A step of the handshake keeps the order: a header is taken when one is due.
LEMMA HandshakeOrderly ==
    ASSUME Orderly, Typed', UNCHANGED sendervars,
           \/ HandshakeTimeout \/ HandshakeIgnore \/ HandshakeRefuse
           \/ HandshakeBegin \/ HandshakeC
    PROVE  Orderly'
<1>0. /\ Typed /\ RymTyped /\ SenderTyped /\ FlowTypeOK /\ UNCHANGED <<ss, k, wire, announced>>
      /\ Flow = {"hs", "trans", "fin"}
  BY FlowAssumption DEF Orderly, Typed, sendervars
<1>1. CASE HandshakeTimeout
  <2>1. Pending' <= Pending /\ mpc' = "call"
    BY <1>0, <1>1, SuspendPending DEF HandshakeTimeout
  <2>2. /\ stage = "ESTABLISHING" /\ UNCHANGED stage /\ mpc # "run"
        /\ line["hs"] = "wait" /\ line'["hs"] = "wait"
    BY <1>0, <1>1 DEF HandshakeTimeout, At, Current, Suspend, FlowTypeOK
  <2>3. \A f \in Flow : ~At(f, "ack")'
    BY <1>0, <2>2 DEF At, Current
  <2>. QED
    BY <1>0, <1>1, <2>1, <2>2, <2>3, AskStep DEF HandshakeTimeout, bootvars
<1>2. CASE HandshakeIgnore
  <2>1. Pending' <= Pending /\ mpc' = "call"
    BY <1>0, <1>2, SuspendPending DEF HandshakeIgnore, Again
  <2>2. /\ mpc = "run" /\ stage = "ESTABLISHING" /\ line["hs"] = "wait"
        /\ \A f \in Flow : line'[f] = "ack" <=> line[f] = "ack"
    BY <1>0, <1>2 DEF HandshakeIgnore, HandshakeRun, Again, At, Current, Suspend, FlowTypeOK
  <2>3. /\ \A S : rym_sqqueue \in Seq(S) => rym_sqqueue' \in Seq(S)
        /\ rym_sqqueue = <<>> => rym_sqqueue' = <<>>
    BY <1>0, <1>2, ReadKeeps DEF HandshakeIgnore
  <2>4. ~Opened
    BY <2>2 DEF Opened
  <2>. QED
    BY <1>0, <1>2, <2>1, <2>2, <2>3, <2>4, KeepStep DEF HandshakeIgnore, bootvars
<1>3. CASE HandshakeRefuse
  <2>1. /\ Pending' = Pending - 1 /\ mpc' = "call" /\ mpc = "run" /\ ss = "header"
        /\ stage = "ESTABLISHING" /\ UNCHANGED <<stage, flash, mic>>
    BY <1>0, <1>3, SuspendPending, HeaderIsDue DEF HandshakeRefuse, Again, bootvars
  <2>2. Pending = 1 /\ ~Replied /\ line["hs"] # "ack"
    BY <2>1, RunMeans
  <2>3. line'["hs"] # "ack"
    BY <1>0, <1>3 DEF HandshakeRefuse, Again, Suspend, FlowTypeOK
  <2>4. "CAN" \in Due'
    BY <1>0, <2>1 DEF Due
  <2>5. Replied' /\ ~Acked' /\ OneReply'
    BY <1>0, <1>3, <2>2, <2>4, SayCancel DEF HandshakeRefuse, RymTyped
  <2>6. OneTurn' /\ Book'
    BY <1>0, <2>1, <2>2, <2>3 DEF Orderly, OneTurn, Book
  <2>7. Agree'
    BY <1>0, <2>1, <2>3, <2>5 DEF Agree, Waits, Offers, Starts, Sends, Closes
  <2>. QED
    BY <2>5, <2>6, <2>7 DEF Orderly, PlainLine
<1>4. CASE HandshakeBegin
  <2>1. /\ Pending' = Pending - 1 /\ mpc' = "call" /\ mpc = "run" /\ ss = "header"
        /\ stage = "ESTABLISHING" /\ UNCHANGED stage
        /\ flash' = <<>> /\ mic' = <<>> /\ RymRead(StxBody)
    BY <1>0, <1>4, SuspendPending, HeaderIsDue DEF HandshakeBegin, OnBegin
  <2>2. Pending = 1 /\ ~Replied /\ wire = <<>>
    BY <2>1, RunMeans
  <2>3. rym_sqqueue' = <<>>
    BY <1>0, <2>1, BodyAssumption, ReadLeaves DEF Orderly, OneTurn, RymTyped
  <2>4. "ACK" \in Due'
    BY <1>0, <2>1 DEF Due
  <2>5. Replied' /\ Acked' /\ OneReply'
    BY <1>0, <1>4, <2>2, <2>4, SayReply DEF HandshakeBegin, RymTyped, Codes
  <2>6. OneTurn'
    BY <2>1, <2>2 DEF OneTurn
  <2>7. Book'
    <3>1. Len(<<>>) = 0 /\ Len(File) \in Nat
      BY EmptySeq, Constants
    <3>. QED
      BY <2>1, <3>1 DEF Book
  <2>8. Begun'
    <3>1. \A S : <<>> \in Seq(S)
      BY EmptySeq
    <3>. QED
      BY <1>0, <2>1, <2>2, <2>3, <3>1 DEF Begun, NoHeader
  <2>9. Agree'
    BY <1>0, <2>1, <2>5, <2>8 DEF Agree, Waits, Offers, Starts, Sends, Closes
  <2>. QED
    BY <2>5, <2>6, <2>7, <2>9 DEF Orderly, PlainLine
<1>5. CASE HandshakeC
  <2>1. /\ Pending' <= Pending /\ mpc' = "call" /\ mpc = "call"
        /\ stage' = "TRANSMITTING" /\ UNCHANGED <<flash, mic, rym_sqqueue>>
    BY <1>0, <1>5, SuspendPending DEF HandshakeC, Elapsed, ParamsInit, bootvars
  <2>2. /\ stage = "ESTABLISHING" /\ line["hs"] = "ack" /\ line'["hs"] # "ack"
        /\ At("hs", "ack")
    BY <1>0, <1>5 DEF HandshakeC, At, Current, Suspend, FlowTypeOK
  <2>3. Opened /\ Opened' /\ (NoHeader => NoHeader') /\ (BlocksOnly => BlocksOnly') /\ Due' = Due
    BY <1>0, <2>1, <2>2
       DEF Opened, NoHeader, NotHeader, BlocksOnly, OfBlock, WholeBlock, Due
  <2>4. Replied' = Replied /\ Acked' = Acked /\ OneReply'
    BY <1>0, <1>5, <2>3, SayC DEF HandshakeC, Orderly, RymTyped
  <2>5. OneTurn' /\ Book'
    BY <1>0, <2>1, <2>2, <2>4, PendingIs, PendingWas DEF Orderly, OneTurn, Book
  <2>6. Waits' /\ Offers' /\ Starts'
    BY <1>0, <2>1, <2>2, <2>3, <2>4 DEF Orderly, Agree, Waits, Offers, Starts, Begun
  <2>7. Sends' /\ Closes'
    BY <1>0, <2>1, <2>2, <2>3, <2>4 DEF Orderly, Agree, Sends, Closes
  <2>. QED
    BY <2>4, <2>5, <2>6, <2>7 DEF Orderly, PlainLine, Agree
<1>. QED
  BY <1>1, <1>2, <1>3, <1>4, <1>5

\* A step of the transfer keeps the order: the block programmed is block k, and an
\* EOT comes when the file is in.
LEMMA TransOrderly ==
    ASSUME Orderly, Typed', UNCHANGED sendervars,
           TransTimeout \/ TransBad \/ TransData \/ TransEot \/ TransOther
    PROVE  Orderly'
<1>0. /\ Typed /\ RymTyped /\ SenderTyped /\ FlowTypeOK /\ UNCHANGED <<ss, k, wire, announced>>
      /\ Flow = {"hs", "trans", "fin"} /\ BootTyped
  BY FlowAssumption DEF Orderly, Typed, sendervars
<1>1. stage = "TRANSMITTING" /\ line["hs"] # "ack" /\ line["trans"] = "wait" /\ Opened
  BY <1>0 DEF TransTimeout, TransBad, TransData, TransEot, TransOther, TransRun,
              At, Current, Opened, Orderly, Book
<1>2. CASE TransTimeout
  <2>1. Pending' <= Pending /\ mpc' = "call" /\ mpc # "run"
    BY <1>0, <1>2, SuspendPending DEF TransTimeout
  <2>2. line'["hs"] = line["hs"] /\ \A f \in Flow : line'[f] = "ack" <=> line[f] = "ack"
    BY <1>0, <1>1, <1>2 DEF TransTimeout, Suspend, FlowTypeOK
  <2>3. CASE ParamsInit("ESTABLISHING")
    BY <1>0, <1>1, <1>2, <2>1, <2>2, <2>3, BackStep DEF TransTimeout, ParamsInit, bootvars
  <2>4. CASE UNCHANGED <<stage, rym_tm_sec, rym_sqqueue>>
    <3>1. (BlocksOnly => BlocksOnly') /\ (EotsOnly => EotsOnly')
      BY <1>0, <1>2, <2>1, <2>4
         DEF TransTimeout, BlocksOnly, EotsOnly, OfBlock, WholeBlock, OfEot
    <3>. QED
      BY <1>0, <1>2, <2>1, <2>2, <2>4, <3>1, KeepStep DEF TransTimeout, bootvars
  <2>. QED
    BY <1>2, <2>3, <2>4 DEF TransTimeout
<1>3. CASE TransBad
  <2>1. Pending' <= Pending /\ mpc' = "call" /\ mpc = "run" /\ start \in {"SOH", "STX"}
    BY <1>0, <1>3, SuspendPending DEF TransBad, TransRun, Again
  <2>2. \A f \in Flow : line'[f] = "ack" <=> line[f] = "ack"
    BY <1>0, <1>1, <1>3 DEF TransBad, Again, Suspend, FlowTypeOK
  <2>3. start = "STX" /\ DataSize = StxBody /\ Len(rym_sqqueue) <= StxBody
    BY <1>1, <2>1, RunMeans DEF DataSize, Orderly, OneTurn
  <2>4. rym_sqqueue' = <<>>
    BY <1>0, <1>3, <2>3, ReadKeeps DEF TransBad
  <2>5. (BlocksOnly => BlocksOnly') /\ ~EotsOnly
    <3>1. \A S : <<>> \in Seq(S)
      BY EmptySeq
    <3>. QED
      BY <1>0, <2>1, <2>3, <2>4, <3>1 DEF BlocksOnly, EotsOnly, OfBlock, WholeBlock
  <2>6. \A S : <<>> \in Seq(S)
    BY EmptySeq
  <2>. QED
    BY <1>0, <1>3, <2>1, <2>2, <2>4, <2>5, <2>6, KeepStep DEF TransBad, bootvars
<1>4. CASE TransData
  <2>1. /\ Pending' = Pending - 1 /\ mpc' = "call" /\ mpc = "run"
        /\ start \in {"SOH", "STX"} /\ Intact(DataSize) /\ RymRead(DataSize)
        /\ DataSize \in {SohBody, StxBody}
    BY <1>0, <1>4, SuspendPending DEF TransData, TransRun, Again, DataSize
  <2>2. /\ ss = "data" /\ Len(flash) = k - 1 /\ BlocksOnly /\ start = "STX"
        /\ Pending = 1 /\ ~Replied /\ ~Acked /\ wire = <<>>
    BY <1>1, <2>1, RunMeans
  <2>3. rym_sqqueue[1] \in OfBlock /\ Packet.data = File[k]
    <3>1. \A S : rym_sqqueue \in Seq(S) => rym_sqqueue[1] \in S
      BY <2>1, PacketIs
    <3>. QED
      BY <2>2, <3>1 DEF BlocksOnly, OfBlock, Packet
  <2>4. rym_sqqueue' = <<>>
    <3>1. DataSize = StxBody
      BY <2>2 DEF DataSize
    <3>. QED
      BY <1>0, <2>1, <3>1, ReadKeeps DEF Orderly, OneTurn
  <2>5. "ACK" \in Due' /\ Transmit(<<"ACK">>)
    BY <1>0, <1>1, <1>4, <2>2 DEF Due, TransData
  <2>6. Replied' /\ Acked' /\ OneReply'
    BY <1>0, <2>2, <2>5, SayReply DEF RymTyped, Codes
  <2>7. /\ Len(flash') = k /\ Len(mic') = k /\ \A i \in 1..k : mic'[i] = File[i]
        /\ k \in Nat /\ k <= Len(File) /\ Len(File) \in Nat
    <3>1. \E w : flash' = Append(flash, w)
      BY <1>4 DEF TransData, OnData
    <3>2. mic' = Append(mic, File[k])
      BY <1>4, <2>3 DEF TransData, OnData
    <3>3. k \in Nat /\ k >= 1 /\ k <= Len(File) /\ Len(File) \in Nat
      BY <1>0, Constants DEF SenderTyped
    <3>4. /\ Len(mic) = k - 1 /\ \A i \in 1..k - 1 : mic[i] = File[i]
      BY <2>2 DEF Orderly, Book
    <3>5. flash \in Seq(Payloads \cup {"worn"}) /\ mic \in Seq(Payloads)
      BY <1>0 DEF BootTyped
    <3>6. Len(flash') = k
      BY <2>2, <3>1, <3>3, <3>5
    <3>7. Len(mic') = k /\ \A i \in 1..k : mic'[i] = IF i <= k - 1 THEN mic[i] ELSE File[k]
      BY <3>2, <3>3, <3>4, <3>5
    <3>8. \A i \in 1..k : mic'[i] = File[i]
      BY <3>3, <3>4, <3>7
    <3>. QED
      BY <3>3, <3>6, <3>7, <3>8
  <2>8. UNCHANGED stage /\ line'["hs"] # "ack" /\ Opened'
    BY <1>0, <1>1, <1>4 DEF TransData, Again, Suspend, FlowTypeOK, Opened
  <2>9. OneTurn'
    BY <2>1, <2>2 DEF OneTurn
  <2>10. Book'
    BY <1>1, <2>7, <2>8 DEF Book
  <2>11. NoHeader'
    <3>1. \A S : <<>> \in Seq(S)
      BY EmptySeq
    <3>. QED
      BY <1>0, <2>2, <2>4, <3>1 DEF NoHeader
  <2>12. Agree'
    BY <1>0, <1>1, <2>2, <2>4, <2>6, <2>7, <2>8, <2>11
       DEF Agree, Waits, Offers, Starts, Sends, Closes
  <2>. QED
    BY <2>6, <2>9, <2>10, <2>12 DEF Orderly, PlainLine
<1>5. CASE TransEot
  <2>1. /\ Pending' = Pending - 1 /\ mpc' = "call" /\ mpc = "run" /\ start = "EOT"
        /\ stage' = "FINISHING" /\ UNCHANGED <<flash, mic, rym_sqqueue>>
    BY <1>0, <1>5, SuspendPending DEF TransEot, TransRun, ParamsInit, bootvars
  <2>2. ss = "eot" /\ Pending = 1 /\ ~Replied
    BY <1>1, <2>1, RunMeans
  <2>3. line'["hs"] # "ack"
    BY <1>0, <1>1, <1>5 DEF TransEot, Suspend, FlowTypeOK
  <2>4. "NAK" \in Due'
    BY <1>0, <2>2 DEF Due
  <2>5. Replied' /\ ~Acked' /\ OneReply'
    BY <1>0, <1>5, <2>2, <2>4, SayReply DEF TransEot, RymTyped, Codes
  <2>6. Len(flash) = Len(File) /\ (NoHeader => NoHeader')
    BY <1>0, <2>1, <2>2 DEF Orderly, Agree, Closes, NoHeader, NotHeader
  <2>7. OneTurn' /\ Book'
    BY <1>0, <2>1, <2>2, <2>3, <2>6 DEF Orderly, OneTurn, Book
  <2>8. Agree'
    BY <1>0, <2>1, <2>2, <2>3, <2>5, <2>6
       DEF Orderly, Agree, Waits, Offers, Starts, Sends, Closes
  <2>. QED
    BY <2>5, <2>7, <2>8 DEF Orderly, PlainLine
<1>6. CASE TransOther
  <2>1. Pending' <= Pending /\ mpc' = "call"
    BY <1>0, <1>6, SuspendPending DEF TransOther
  <2>2. line'["hs"] = line["hs"]
    BY <1>0, <1>6 DEF TransOther, Suspend, FlowTypeOK
  <2>. QED
    BY <1>0, <1>1, <1>6, <2>1, <2>2, BackStep DEF TransOther, ParamsInit, bootvars
<1>. QED
  BY <1>2, <1>3, <1>4, <1>5, <1>6

\* A step of the end keeps the order: it is read only when the sender closes.
LEMMA FinishOrderly ==
    ASSUME Orderly, Typed', UNCHANGED sendervars,
           \/ FinishTimeout \/ FinishEot \/ FinishOther \/ FinishC
           \/ FinishNoNull \/ FinishNotNull \/ FinishNull
    PROVE  Orderly'
<1>0. /\ Typed /\ RymTyped /\ SenderTyped /\ FlowTypeOK /\ UNCHANGED <<ss, k, wire, announced>>
      /\ Flow = {"hs", "trans", "fin"}
  BY FlowAssumption DEF Orderly, Typed, sendervars
<1>1. /\ stage = "FINISHING" /\ line["hs"] # "ack" /\ ~Opened
      /\ Len(flash) = Len(File)
  BY <1>0 DEF FinishTimeout, FinishEot, FinishOther, FinishC, FinishNoNull, FinishNotNull,
              FinishNull, At, Current, Opened, Orderly, Book
\* A code is sent only for an end or a closing packet.
<1>r. mpc = "run" => ss \in {"eot", "null"} /\ Pending = 1 /\ ~Replied
  BY <1>1, RunMeans DEF Sending, Orderly, Agree, Sends
<1>2. CASE FinishTimeout
  <2>1. Pending' <= Pending /\ mpc' = "call" /\ mpc # "run"
    BY <1>0, <1>2, SuspendPending DEF FinishTimeout
  <2>2. line'["hs"] = line["hs"] /\ \A f \in Flow : line'[f] = "ack" <=> line[f] = "ack"
    BY <1>0, <1>2 DEF FinishTimeout, At, Suspend, FlowTypeOK
  <2>3. CASE ParamsInit("ESTABLISHING")
    BY <1>0, <1>1, <1>2, <2>1, <2>2, <2>3, BackStep DEF FinishTimeout, ParamsInit, bootvars
  <2>4. CASE UNCHANGED <<stage, rym_tm_sec, rym_sqqueue>>
    BY <1>0, <1>1, <1>2, <2>1, <2>2, <2>4, KeepStep DEF FinishTimeout, bootvars
  <2>. QED
    BY <1>2, <2>3, <2>4 DEF FinishTimeout
<1>3. CASE FinishEot
  <2>1. /\ Pending' = Pending - 1 /\ mpc' = "call" /\ mpc = "run"
        /\ UNCHANGED <<stage, flash, mic, rym_sqqueue>> /\ Transmit(<<"ACK">>)
    BY <1>0, <1>3, SuspendPending DEF FinishEot, bootvars
  <2>2. line'["hs"] # "ack"
    BY <1>0, <1>1, <1>3 DEF FinishEot, Suspend, FlowTypeOK
  <2>3. "ACK" \in Due'
    BY <1>0, <1>r, <2>1 DEF Due
  <2>4. Replied' /\ Acked' /\ OneReply'
    BY <1>0, <1>r, <2>1, <2>3, SayReply DEF RymTyped, Codes
  <2>5. OneTurn' /\ Book'
    BY <1>0, <1>1, <1>r, <2>1, <2>2 DEF Orderly, OneTurn, Book
  <2>6. NoHeader => NoHeader'
    BY <1>0, <2>1 DEF NoHeader, NotHeader
  <2>7. Agree'
    BY <1>0, <1>1, <1>r, <2>1, <2>2, <2>4, <2>6
       DEF Orderly, Agree, Waits, Offers, Starts, Sends, Closes
  <2>. QED
    BY <2>4, <2>5, <2>7 DEF Orderly, PlainLine
<1>4. CASE FinishOther
  <2>1. Pending' <= Pending /\ mpc' = "call"
    BY <1>0, <1>4, SuspendPending DEF FinishOther, Again
  <2>2. \A f \in Flow : line'[f] = "ack" <=> line[f] = "ack"
    BY <1>0, <1>4 DEF FinishOther, At, Again, Suspend, FlowTypeOK
  <2>. QED
    BY <1>0, <1>1, <1>4, <2>1, <2>2, KeepStep DEF FinishOther, bootvars
<1>5. CASE FinishC
  <2>1. Pending' <= Pending /\ mpc' = "call" /\ mpc = "call"
    BY <1>0, <1>5, SuspendPending DEF FinishC, Elapsed
  <2>2. /\ line'["hs"] = line["hs"] /\ \A f \in Flow : ~At(f, "ack")'
        /\ ss # "waitC"
    <3>1. line'["hs"] = line["hs"] /\ line'["fin"] = "wait2" /\ stage' = stage
      BY <1>0, <1>5 DEF FinishC, Suspend, FlowTypeOK
    <3>. QED
      BY <1>0, <1>1, <1>5, <3>1 DEF FinishC, At, Current, Orderly, Agree, Waits
  <2>. QED
    BY <1>0, <1>5, <2>1, <2>2, AskStep DEF FinishC, bootvars
<1>6. CASE FinishNoNull
  <2>1. Pending' <= Pending /\ mpc' = "call"
    BY <1>0, <1>6, SuspendPending DEF FinishNoNull
  <2>2. \A f \in Flow : line'[f] = "ack" <=> line[f] = "ack"
    BY <1>0, <1>6 DEF FinishNoNull, At, Suspend, FlowTypeOK
  <2>. QED
    BY <1>0, <1>1, <1>6, <2>1, <2>2, KeepStep DEF FinishNoNull, bootvars, rymvars
<1>7. CASE FinishNotNull
  <2>1. Pending' <= Pending /\ mpc' = "call"
    BY <1>0, <1>7, SuspendPending DEF FinishNotNull, Again
  <2>2. \A f \in Flow : line'[f] = "ack" <=> line[f] = "ack"
    BY <1>0, <1>7 DEF FinishNotNull, At, Again, Suspend, FlowTypeOK
  <2>3. /\ \A S : rym_sqqueue \in Seq(S) => rym_sqqueue' \in Seq(S)
        /\ rym_sqqueue = <<>> => rym_sqqueue' = <<>>
    BY <1>0, <1>7, ReadKeeps DEF FinishNotNull
  <2>. QED
    BY <1>0, <1>1, <1>7, <2>1, <2>2, <2>3, KeepStep DEF FinishNotNull, bootvars
<1>8. CASE FinishNull
  <2>1. /\ Pending' = Pending - 1 /\ mpc' = "call" /\ mpc = "run"
        /\ stage' = "FINISHED" /\ UNCHANGED <<flash, mic>> /\ Transmit(<<"ACK">>)
    BY <1>0, <1>8, SuspendPending DEF FinishNull, Again, OnEnd
  <2>2. line'["hs"] # "ack"
    BY <1>0, <1>1, <1>8 DEF FinishNull, Again, Suspend, FlowTypeOK
  <2>3. "ACK" \in Due'
    BY <1>0, <1>r, <2>1 DEF Due
  <2>4. Replied' /\ Acked' /\ OneReply'
    BY <1>0, <1>r, <2>1, <2>3, SayReply DEF RymTyped, Codes
  <2>5. OneTurn' /\ Book'
    BY <1>0, <1>1, <1>r, <2>1, <2>2 DEF Orderly, OneTurn, Book
  <2>6. NoHeader => NoHeader'
    BY <1>0, <1>8, ReadKeeps DEF FinishNull, NoHeader, NotHeader
  <2>7. Agree'
    BY <1>0, <1>1, <1>r, <2>1, <2>2, <2>4, <2>6
       DEF Orderly, Agree, Waits, Offers, Starts, Sends, Closes
  <2>. QED
    BY <2>4, <2>5, <2>7 DEF Orderly, PlainLine
<1>. QED
  BY <1>2, <1>3, <1>4, <1>5, <1>6, <1>7, <1>8

\* Whatever rym_process does keeps the order.
LEMMA ProcessOrderly ==
    ASSUME Orderly, Typed', RymProcess, UNCHANGED sendervars
    PROVE  Orderly'
<1>0. /\ Typed /\ RymTyped /\ SenderTyped /\ FlowTypeOK /\ UNCHANGED <<ss, k, wire, announced>>
      /\ Flow = {"hs", "trans", "fin"}
  BY FlowAssumption DEF Orderly, Typed, sendervars
<1>1. CASE ProcessNone
  <2>1. mpc = "call" /\ UNCHANGED <<line, age, count, mpc>>
    BY <1>1 DEF ProcessNone, flowvars
  <2>2. Pending' <= Pending
    BY <1>0, <2>1, PendingIs, PendingWas DEF Held
  <2>3. line["hs"] # "ack"
    BY <1>1 DEF ProcessNone, Orderly, Book
  <2>. QED
    BY <1>0, <1>1, <2>1, <2>2, <2>3, BackStep DEF ProcessNone, ParamsInit, bootvars
<1>2. CASE ProcessFinished
  <2>1. mpc = "call" /\ UNCHANGED <<line, age, count, mpc, rym_sqqueue>>
    BY <1>2 DEF ProcessFinished, flowvars
  <2>2. Pending' <= Pending
    BY <1>0, <2>1, PendingIs, PendingWas DEF Held
  <2>3. ~Opened
    BY <1>2 DEF ProcessFinished, Orderly, Book, Opened
  <2>. QED
    BY <1>0, <1>2, <2>1, <2>2, <2>3, KeepStep DEF ProcessFinished, bootvars
<1>3. CASE Store
  <2>1. mpc = "store" /\ mpc' = "test" /\ UNCHANGED <<line, age, rym_sqqueue, start>>
        /\ UNCHANGED <<stage, tx, flash, mic>>
    BY <1>3 DEF Store, SemStore, rymvars, bootvars
  <2>2. Pending' <= Pending
    <3>1. count' <= count - 1 /\ ~Held
      BY <1>0, <1>3, <2>1 DEF Store, SemStore, Typed, Released, FlowTypeOK, Held
    <3>. QED
      BY <1>0, <3>1, PendingIs, PendingWas
  <2>3. (BlocksOnly => BlocksOnly') /\ (EotsOnly => EotsOnly')
    BY <1>0, <2>1 DEF BlocksOnly, EotsOnly, OfBlock, WholeBlock, OfEot
  <2>. QED
    BY <1>0, <2>1, <2>2, <2>3, KeepStep
<1>4. ASSUME NEW f \in Flow, ToWait(f) PROVE Orderly'
  <2>1. Pending' <= Pending /\ mpc' = "call" /\ mpc = "call"
        /\ UNCHANGED <<stage, tx, flash, mic, rym_sqqueue, start>>
    BY <1>0, <1>4, SuspendPending DEF ToWait, Elapsed, rymvars, bootvars
  <2>2. \A g \in Flow : line'[g] = "ack" <=> line[g] = "ack"
    BY <1>0, <1>4 DEF ToWait, At, Suspend, FlowTypeOK
  <2>3. (BlocksOnly => BlocksOnly') /\ (EotsOnly => EotsOnly')
    BY <1>0, <2>1 DEF BlocksOnly, EotsOnly, OfBlock, WholeBlock, OfEot
  <2>. QED
    BY <1>0, <2>1, <2>2, <2>3, KeepStep
<1>5. ASSUME NEW f \in Flow, Acquire(f) PROVE Orderly'
  <2>1. /\ mpc = "call" /\ mpc' \in {"store", "test"}
        /\ UNCHANGED <<stage, tx, flash, mic, rym_sqqueue, start, line, age, count>>
    BY <1>5 DEF Acquire, SemAcquire, rymvars, bootvars
  <2>2. ~Held'
    <3>1. mpc' = "test" => age[f] >= Sec /\ Current(f)
      BY <1>5 DEF Acquire, SemAcquire, At
    <3>2. \A g \in Flow : Current(g) /\ Current(f) => g = f
      BY DEF Current
    <3>3. age[f] \in 0..Sec /\ Sec \in Nat
      BY <1>0, SecAssumption DEF FlowTypeOK
    <3>. QED
      BY <2>1, <3>1, <3>2, <3>3 DEF Held, Current
  <2>3. Pending' <= Pending
    BY <1>0, <2>1, <2>2, PendingIs, PendingWas
  <2>4. (BlocksOnly => BlocksOnly') /\ (EotsOnly => EotsOnly')
    BY <1>0, <2>1 DEF BlocksOnly, EotsOnly, OfBlock, WholeBlock, OfEot
  <2>. QED
    BY <1>0, <2>1, <2>3, <2>4, KeepStep
<1>6. ASSUME NEW f \in Flow, ReadStart(f) PROVE Orderly'
  <2>1. /\ mpc = "test" /\ Current(f) /\ age[f] < Sec /\ Held
        /\ UNCHANGED <<stage, tx, flash, mic>>
    BY <1>6 DEF ReadStart, At, SemIsRelease, Held, bootvars
  <2>2. CASE Suspend(f, "wait") /\ UNCHANGED <<rym_sqqueue, start>>
    <3>1. Pending' <= Pending /\ mpc' = "call"
      BY <1>0, <2>2, SuspendPending
    <3>2. \A g \in Flow : line'[g] = "ack" <=> line[g] = "ack"
      BY <1>0, <1>6, <2>2 DEF ReadStart, At, Suspend, FlowTypeOK
    <3>3. (BlocksOnly => BlocksOnly') /\ (EotsOnly => EotsOnly')
      BY <1>0, <2>1, <2>2, <3>1 DEF BlocksOnly, EotsOnly, OfBlock, WholeBlock, OfEot
    <3>. QED
      BY <1>0, <2>1, <2>2, <3>1, <3>2, <3>3, KeepStep
  <2>3. CASE /\ rym_sqqueue # <<>>
             /\ start' \in IF Head(rym_sqqueue).c = "BODY" THEN BodyCodes
                                                        ELSE {Head(rym_sqqueue).c}
             /\ rym_sqqueue' = Tail(rym_sqqueue)
             /\ mpc' = "run"
             /\ UNCHANGED <<line, age, count, reg>>
    <3>1. Pending' <= Pending
      BY <1>0, <2>1, <2>3, PendingIs, PendingWas
    <3>2. ASSUME NEW S, rym_sqqueue \in Seq(S)
          PROVE  rym_sqqueue' \in Seq(S) /\ Head(rym_sqqueue) \in S
      BY <2>3, <3>2, HeadTailProperties
    <3>3. /\ Len(rym_sqqueue) \in Nat /\ Len(rym_sqqueue') = Len(rym_sqqueue) - 1
          /\ Head(rym_sqqueue) = rym_sqqueue[1]
      BY <1>0, <2>3, HeadTailProperties, LenProperties DEF RymTyped
    <3>4. Len(rym_sqqueue') <= StxBody
      BY <1>0, <3>3, BodyAssumption DEF RymTyped, Capacity
    <3>5. BlocksOnly => BlocksOnly'
      <4>1. BlocksOnly => start' \in {"STX", "JUNK"}
        BY <2>1, <2>3, <3>3 DEF BlocksOnly
      <4>2. OfBlock' = OfBlock /\ WholeBlock' = WholeBlock
        BY <1>0 DEF OfBlock, WholeBlock
      <4>3. BlocksOnly => rym_sqqueue' \in Seq(OfBlock) /\ wire' \in Seq(WholeBlock)
        BY <1>0, <3>2 DEF BlocksOnly
      <4>. QED
        BY <2>3, <4>1, <4>2, <4>3 DEF BlocksOnly
    <3>6. EotsOnly => EotsOnly'
      <4>1. EotsOnly => Head(rym_sqqueue) \in OfEot /\ rym_sqqueue' \in Seq(OfEot)
        BY <3>2 DEF EotsOnly
      <4>2. Head(rym_sqqueue) \in OfEot => start' \in {"EOT", "JUNK"}
        BY <2>3 DEF OfEot
      <4>. QED
        BY <1>0, <2>3, <4>1, <4>2 DEF EotsOnly, OfEot
    <3>. QED
      BY <1>0, <2>1, <2>3, <3>1, <3>2, <3>4, <3>5, <3>6, KeepStep
  <2>. QED
    BY <1>6, <2>2, <2>3 DEF ReadStart
<1>. QED
  BY <1>1, <1>2, <1>3, <1>4, <1>5, <1>6, HandshakeOrderly, TransOrderly, FinishOrderly
     DEF RymProcess

\* A tick may let go of what was held, and nothing else.
LEMMA TickOrderly ==
    ASSUME Orderly, Typed', Tick
    PROVE  Orderly'
<1>0. /\ Typed /\ FlowTypeOK
      /\ UNCHANGED <<ss, k, wire, line, count, mpc, stage, tx, flash, mic, rym_sqqueue, start>>
  BY DEF Orderly, Typed, Tick, FlowTick, sendervars, bootvars, rymvars
<1>1. Held' => Held
  <2>1. ASSUME NEW f \in Flow, age'[f] < Sec PROVE age[f] < Sec
    BY <1>0, <2>1, SecAssumption DEF Tick, FlowTick, FlowTypeOK
  <2>. QED
    BY <1>0, <2>1 DEF Held, Current
<1>2. Pending' <= Pending
  BY <1>0, <1>1, PendingIs, PendingWas
<1>3. (BlocksOnly => BlocksOnly') /\ (EotsOnly => EotsOnly')
  BY <1>0 DEF BlocksOnly, EotsOnly, OfBlock, WholeBlock, OfEot
<1>. QED
  BY <1>0, <1>2, <1>3, KeepStep DEF Orderly, OneTurn

\* The run that arrives is of the kind that is under way.
LEMMA DeliverOrderly ==
    ASSUME Orderly, Typed', Deliver
    PROVE  Orderly'
<1>0. /\ Typed /\ RymTyped /\ wire \in Seq(Seq(Units)) /\ wire # <<>>
      /\ UNCHANGED <<ss, k, line, mpc, stage, tx, flash, mic, start, age>>
      /\ RymReceive(Head(wire)) /\ wire' = Tail(wire) /\ count' = count + 1
      /\ rym_sqqueue \in Seq(Units) /\ Len(rym_sqqueue) <= Capacity
  BY DEF Orderly, Typed, SenderTyped, RymTyped, Deliver, RymReceive, SemRelease, bootvars
<1>1. /\ Len(wire) \in Nat /\ Len(wire) >= 1 /\ Len(wire') = Len(wire) - 1
      /\ \A R : wire \in Seq(R) => Head(wire) \in R /\ wire' \in Seq(R)
  BY <1>0, WireTail
<1>2. Held' = Held
  BY <1>0 DEF Held, Current
<1>3. Pending' = Pending /\ ~Held /\ mpc # "run" /\ Pending = 1 /\ ~Replied /\ ss \in Sending
  BY <1>0, <1>1, <1>2, PendingIs, PendingWas DEF Orderly, OneTurn, Held
<1>4. \A S : rym_sqqueue \in Seq(S) /\ Head(wire) \in Seq(S) => rym_sqqueue' \in Seq(S)
  BY <1>0, ReceiveQueue
<1>5. NoHeader => NoHeader'
  BY <1>1, <1>4 DEF NoHeader, NotHeader
<1>6. EotsOnly => EotsOnly'
  BY <1>0, <1>1, <1>3, <1>4 DEF EotsOnly, OfEot
<1>7. BlocksOnly => BlocksOnly'
  <2>. SUFFICES ASSUME BlocksOnly PROVE BlocksOnly'
    OBVIOUS
  <2> DEFINE run == Head(wire)
  <2>1. /\ run \in Seq(OfBlock) /\ Len(run) = Capacity /\ run[1].c \in {"STX", "JUNK"}
        /\ wire' \in Seq(WholeBlock) /\ rym_sqqueue' \in Seq(OfBlock)
    BY <1>1, <1>4 DEF BlocksOnly, WholeBlock
  <2>2. rym_sqqueue' = <<>> \/ rym_sqqueue'[1].c \in {"STX", "JUNK"}
    <3>1. CASE rym_sqqueue = <<>>
      <4>1. rym_sqqueue' = run \/ rym_sqqueue' = rym_sqqueue
        BY <1>0, <2>1, <3>1, ConcatEmptySeq DEF RymReceive
      <4>. QED
        BY <2>1, <3>1, <4>1
    <3>2. CASE rym_sqqueue # <<>>
      <4>1. Len(rym_sqqueue) \in Nat \ {0} /\ Capacity \in Nat
        BY <1>0, <3>2, EmptySeq, BodyAssumption DEF Capacity
      <4>2. rym_sqqueue' = rym_sqqueue
        BY <1>0, <2>1, <4>1 DEF RymReceive
      <4>. QED
        BY <1>3, <3>2, <4>2 DEF BlocksOnly
    <3>. QED
      BY <3>1, <3>2
  <2>3. OfBlock' = OfBlock /\ WholeBlock' = WholeBlock /\ mpc' # "run"
    BY <1>0, <1>3 DEF OfBlock, WholeBlock
  <2>. QED
    BY <2>1, <2>2, <2>3 DEF BlocksOnly
<1>8. /\ Replied' = Replied /\ Acked' = Acked /\ Due' = Due /\ Opened' = Opened
      /\ \A f \in Flow : At(f, "ack")' <=> At(f, "ack")
  BY <1>0 DEF Replied, Acked, Due, Opened, At, Current
<1>9. OneTurn' /\ OneReply' /\ Book'
  BY <1>0, <1>3, <1>8 DEF Orderly, OneTurn, OneReply, Book
<1>10. ~Acked
  BY <1>3 DEF Replied, Acked
<1>11. Waits' /\ Offers' /\ Starts'
  BY <1>0, <1>3, <1>8, <1>10 DEF Orderly, Agree, Waits, Offers, Starts, Sending
<1>12. Sends'
  BY <1>0, <1>5, <1>7, <1>8, <1>10 DEF Orderly, Agree, Sends
<1>13. Closes'
  BY <1>0, <1>5, <1>6, <1>8 DEF Orderly, Agree, Closes
<1>. QED
  BY <1>9, <1>11, <1>12, <1>13 DEF Orderly, PlainLine, Agree

\* A set of units that is closed under what the line may do to one.
Spoilable(S) == /\ S \subseteq Units
                /\ \A u \in S : Spoil(u) \in S /\ [u EXCEPT !.c = "JUNK"] \in S

\* The kinds of units survive a spoilt check and a spoilt start byte.
LEMMA KindsSpoilable == Spoilable(NotHeader) /\ Spoilable(OfBlock) /\ Spoilable(OfEot)
<1>1. ASSUME NEW u \in Units
      PROVE  /\ Spoil(u) \in Units /\ Spoil(u).c = u.c
             /\ Spoil(u).p.seq = u.p.seq /\ Spoil(u).p.n = u.p.n /\ Spoil(u).p.data = u.p.data
             /\ [u EXCEPT !.c = "JUNK"] \in Units /\ [u EXCEPT !.c = "JUNK"].c = "JUNK"
             /\ [u EXCEPT !.c = "JUNK"].p = u.p
  BY DEF Spoil, Units, Packets
<1>2. Spoilable(NotHeader)
  BY <1>1 DEF Spoilable, NotHeader
<1>3. Spoilable(OfBlock)
  BY <1>1 DEF Spoilable, OfBlock
<1>4. Spoilable(OfEot)
  BY <1>1 DEF Spoilable, OfEot
<1>. QED
  BY <1>2, <1>3, <1>4

\* A run whose check is spoilt is still of its kind ...
LEMMA SpoiltRun ==
    ASSUME NEW S, Spoilable(S), NEW run \in Seq(S)
    PROVE  LET spoilt == [i \in DOMAIN run |-> Spoil(run[i])]
           IN  /\ spoilt \in Seq(S) /\ Len(spoilt) = Len(run)
               /\ Len(run) >= 1 => spoilt[1].c = run[1].c
<1> DEFINE spoilt == [i \in DOMAIN run |-> Spoil(run[i])]
<1>1. Len(run) \in Nat /\ DOMAIN run = 1..Len(run) /\ \A i \in 1..Len(run) : run[i] \in S
  BY LenProperties, ElementOfSeq
<1>2. \A i \in 1..Len(run) : Spoil(run[i]) \in S
  BY <1>1 DEF Spoilable
<1>3. spoilt \in Seq(S) /\ Len(spoilt) = Len(run)
  BY <1>1, <1>2
<1>4. ASSUME Len(run) >= 1 PROVE spoilt[1].c = run[1].c
  <2>1. 1 \in 1..Len(run) /\ run[1] \in Units
    BY <1>1, <1>4 DEF Spoilable
  <2>2. spoilt[1] = Spoil(run[1])
    BY <1>1, <2>1
  <2>3. Spoil(run[1]).c = run[1].c
    BY <2>1 DEF Spoil, Units
  <2>. QED
    BY <2>2, <2>3
<1>. QED
  BY <1>3, <1>4

\* ... and so is one whose start byte is.
LEMMA GarbledRun ==
    ASSUME NEW S, Spoilable(S), NEW run \in Seq(S)
    PROVE  /\ Garble(run) \in Seq(S) /\ Len(Garble(run)) = Len(run)
           /\ Len(run) >= 1 => Garble(run)[1].c = "JUNK"
<1>1. Len(run) \in Nat /\ DOMAIN run = 1..Len(run) /\ \A i \in 1..Len(run) : run[i] \in S
  BY LenProperties, ElementOfSeq
<1>2. \A i \in 1..Len(run) : Garble(run)[i] = IF i = 1 THEN [run[1] EXCEPT !.c = "JUNK"] ELSE run[i]
  BY <1>1 DEF Garble
<1>3. \A i \in 1..Len(run) : Garble(run)[i] \in S
  BY <1>1, <1>2 DEF Spoilable
<1>4. DOMAIN Garble(run) = 1..Len(run)
  BY <1>1 DEF Garble
<1>5. Garble(run) \in [1..Len(run) -> S]
  <2>1. Garble(run) = [i \in 1..Len(run) |-> Garble(run)[i]]
    BY <1>1 DEF Garble
  <2>. QED
    BY <1>3, <2>1
<1>6. Garble(run) \in Seq(S) /\ Len(Garble(run)) = Len(run)
  BY <1>1, <1>5
<1>7. ASSUME Len(run) >= 1 PROVE Garble(run)[1].c = "JUNK"
  <2>1. 1 \in 1..Len(run) /\ run[1] \in Units
    BY <1>1, <1>7 DEF Spoilable
  <2>. QED
    BY <1>2, <2>1 DEF Units
<1>. QED
  BY <1>6, <1>7

\* The line touches the runs under way and nothing else.
LEMMA WireStep ==
    ASSUME Orderly, Typed', NEW kind, Strike(kind), tx' = tx,
           Len(wire') <= Len(wire),
           \A S : Spoilable(S) /\ wire \in Seq(Seq(S)) => wire' \in Seq(Seq(S)),
           wire \in Seq(WholeBlock) => wire' \in Seq(WholeBlock)
    PROVE  Orderly'
<1>0. /\ Typed /\ UNCHANGED <<ss, k, line, age, count, mpc, stage, tx, flash, mic, start, rym_sqqueue>>
  BY DEF Orderly, Strike, flowvars, bootvars
<1>1. /\ Replied' = Replied /\ Acked' = Acked /\ Due' = Due /\ Opened' = Opened /\ Held' = Held
      /\ \A f \in Flow : At(f, "ack")' <=> At(f, "ack")
  BY <1>0 DEF Replied, Acked, Due, Opened, Held, At, Current
<1>2. Pending' <= Pending /\ Pending \in Nat /\ Pending' \in Nat
  BY <1>0, <1>1, PendingIs, PendingWas
<1>3. (NoHeader => NoHeader') /\ (EotsOnly => EotsOnly')
  BY <1>0, KindsSpoilable DEF NoHeader, NotHeader, EotsOnly, OfEot
<1>4. BlocksOnly => BlocksOnly'
  BY <1>0 DEF BlocksOnly, WholeBlock, OfBlock
<1>5. OneTurn' /\ OneReply' /\ Book'
  BY <1>0, <1>1, <1>2 DEF Orderly, OneTurn, OneReply, Book
<1>6. Waits' /\ Offers' /\ Starts'
  BY <1>0, <1>1, <1>3 DEF Orderly, Agree, Waits, Offers, Starts, Begun
<1>7. Sends'
  BY <1>0, <1>1, <1>3, <1>4 DEF Orderly, Agree, Sends
<1>8. Closes'
  BY <1>0, <1>1, <1>3 DEF Orderly, Agree, Closes
<1>. QED
  BY <1>5, <1>6, <1>7, <1>8 DEF Orderly, PlainLine, Agree

\* A plain fault keeps the order.
LEMMA LineOrderly ==
    ASSUME Orderly, Typed', Line
    PROVE  Orderly'
<1>0. /\ Typed /\ wire \in Seq(Seq(Units)) /\ Len(wire) \in Nat
      /\ "split" \notin Faults /\ "reply" \notin Faults
  BY LenProperties DEF Orderly, Typed, SenderTyped, PlainLine
<1>. SUFFICES ASSUME Lose \/ SpoilCrc \/ SpoilStart PROVE Orderly'
  BY <1>0 DEF Line, Split, LoseReply, Strike
<1>1. wire # <<>>
  BY DEF Lose, SpoilCrc, SpoilStart
<1>2. /\ Len(wire) >= 1 /\ Len(Tail(wire)) = Len(wire) - 1
      /\ \A R : wire \in Seq(R) => wire[1] \in R /\ Tail(wire) \in Seq(R)
  BY <1>0, <1>1, WireTail
<1>3. CASE Lose
  BY <1>0, <1>2, <1>3, WireStep DEF Lose
\* The first run is replaced.
<1>r. ASSUME NEW kind, Strike(kind), tx' = tx, NEW run, wire' = [wire EXCEPT ![1] = run],
             \A S : Spoilable(S) /\ wire[1] \in Seq(S) => run \in Seq(S) /\ Len(run) = Len(wire[1]),
             Len(wire[1]) >= 1 => run[1].c \in {wire[1][1].c, "JUNK"}
      PROVE  Orderly'
  <2>1. 1 \in 1..Len(wire)
    BY <1>0, <1>2
  <2>2. ASSUME NEW R, wire \in Seq(R), run \in R PROVE wire' \in Seq(R)
    BY <1>r, <2>1, <2>2, ExceptSeq
  <2>3. Len(wire') = Len(wire)
    BY <1>0, <1>r
  <2>4. ASSUME NEW S, Spoilable(S), wire \in Seq(Seq(S)) PROVE wire' \in Seq(Seq(S))
    BY <1>2, <1>r, <2>2, <2>4
  <2>5. ASSUME wire \in Seq(WholeBlock) PROVE wire' \in Seq(WholeBlock)
    <3>1. wire[1] \in WholeBlock
      BY <1>2, <2>5
    <3>2. Len(wire[1]) = Capacity /\ Capacity >= 1
      BY <3>1, BodyAssumption DEF WholeBlock, Capacity
    <3>3. run \in WholeBlock
      BY <1>r, <3>1, <3>2, KindsSpoilable DEF WholeBlock
    <3>. QED
      BY <2>2, <2>5, <3>3
  <2>. QED
    BY <1>0, <1>r, <2>3, <2>4, <2>5, WireStep
<1>4. CASE SpoilCrc
  <2> DEFINE run == [i \in DOMAIN wire[1] |-> Spoil(wire[1][i])]
  <2>1. Strike("crc") /\ tx' = tx /\ wire' = [wire EXCEPT ![1] = run]
    BY <1>4 DEF SpoilCrc
  <2>2. ASSUME NEW S, Spoilable(S), wire[1] \in Seq(S)
        PROVE  /\ run \in Seq(S) /\ Len(run) = Len(wire[1])
               /\ Len(wire[1]) >= 1 => run[1].c = wire[1][1].c
    BY <2>2, SpoiltRun
  <2>3. wire[1] \in Seq(Units) /\ Spoilable(Units)
    <3>1. \A u \in Units : Spoil(u) \in Units /\ [u EXCEPT !.c = "JUNK"] \in Units
      BY DEF Spoil, Units, Packets
    <3>. QED
      BY <1>0, <1>2, <3>1 DEF Spoilable
  <2>4. Len(wire[1]) >= 1 => run[1].c \in {wire[1][1].c, "JUNK"}
    BY <2>2, <2>3
  <2>. HIDE DEF run
  <2>. QED
    BY <1>r, <2>1, <2>2, <2>4
<1>5. CASE SpoilStart
  <2> DEFINE run == Garble(wire[1])
  <2>1. Strike("start") /\ tx' = tx /\ wire' = [wire EXCEPT ![1] = run]
    BY <1>5 DEF SpoilStart
  <2>2. ASSUME NEW S, Spoilable(S), wire[1] \in Seq(S)
        PROVE  /\ run \in Seq(S) /\ Len(run) = Len(wire[1])
               /\ Len(wire[1]) >= 1 => run[1].c = "JUNK"
    BY <2>2, GarbledRun
  <2>3. wire[1] \in Seq(Units) /\ Spoilable(Units)
    <3>1. \A u \in Units : Spoil(u) \in Units /\ [u EXCEPT !.c = "JUNK"] \in Units
      BY DEF Spoil, Units, Packets
    <3>. QED
      BY <1>0, <1>2, <3>1 DEF Spoilable
  <2>4. Len(wire[1]) >= 1 => run[1].c \in {wire[1][1].c, "JUNK"}
    BY <2>2, <2>3
  <2>. HIDE DEF run
  <2>. QED
    BY <1>r, <2>1, <2>2, <2>4
<1>. QED
  BY <1>3, <1>4, <1>5

\* What the sender takes a code for.
LEMMA AnswerIs ==
    ASSUME SenderTyped, ~ResendOnC
    PROVE  /\ ss = "waitC"  => Answer("C") = <<"header", 1>>
           /\ ss = "waitC1" => Answer("C") = <<"data", 1>>
           /\ ss = "waitC2" => Answer("C") = <<"null", k>>
           /\ ss \notin {"waitC", "waitC1", "waitC2"} => Answer("C") = <<"ignore", k>>
           /\ ss \in Sending => Answer("NAK") = <<ss, k>>
           /\ ss = "header" => Answer("ACK") = <<"waitC1", 1>>
           /\ ss = "data" /\ k < Len(File) => Answer("ACK") = <<"data", k + 1>>
           /\ ss = "data" /\ k >= Len(File) => Answer("ACK") = <<"eot", k>>
           /\ ss = "eot" => Answer("ACK") = <<"waitC2", k>>
           /\ ss = "null" => Answer("ACK") = <<"done", k>>
           /\ Answer("CAN") = <<"cancelled", k>>
<1>0. k \in 1..Len(File) /\ Len(File) \in Nat
  BY Constants DEF SenderTyped
<1>1. /\ ss = "waitC"  => Answer("C") = <<"header", 1>>
      /\ ss = "waitC1" => Answer("C") = <<"data", 1>>
      /\ ss = "waitC2" => Answer("C") = <<"null", k>>
      /\ ss \notin {"waitC", "waitC1", "waitC2"} => Answer("C") = <<"ignore", k>>
  BY DEF Answer
<1>2. ss \in Sending => Answer("NAK") = <<ss, k>>
  BY DEF Answer
<1>3. /\ ss = "header" => Answer("ACK") = <<"waitC1", 1>>
      /\ ss = "eot" => Answer("ACK") = <<"waitC2", k>>
      /\ ss = "null" => Answer("ACK") = <<"done", k>>
  BY DEF Answer
<1>4. ss = "data" /\ k < Len(File) => Answer("ACK") = <<"data", k + 1>>
  BY <1>0 DEF Answer
<1>5. ss = "data" /\ k >= Len(File) => Answer("ACK") = <<"eot", k>>
  BY <1>0 DEF Answer
<1>6. Answer("CAN") = <<"cancelled", k>>
  BY DEF Answer
<1>. QED
  BY <1>1, <1>2, <1>3, <1>4, <1>5, <1>6

\* What is left when a code has been seen.
LEMMA Seen ==
    ASSUME tx \in Seq(Codes), tx # <<>>, tx' = Tail(tx), OneReply
    PROVE  /\ Head(tx) \in {"C"} \cup Due
           /\ Head(tx) = "C" => Replied' = Replied /\ Acked' = Acked
           /\ Head(tx) # "C" => Replied
           /\ Head(tx) = "ACK" => Acked
           /\ Head(tx) \in {"ACK", "NAK"} => ~Replied'
           /\ Head(tx) = "CAN" => \A i \in DOMAIN tx' : tx'[i] \notin {"ACK", "NAK"}
           /\ \A i \in DOMAIN tx' : tx'[i] \in {"C"} \cup Due
           /\ \A i \in DOMAIN tx' : tx'[i] \in {"ACK", "NAK"}
                 => \A j \in DOMAIN tx' : i # j => tx'[j] = "C"
<1>1. /\ Len(tx) \in Nat /\ Len(tx) >= 1 /\ DOMAIN tx = 1..Len(tx) /\ Head(tx) = tx[1]
      /\ tx' \in Seq(Codes) /\ Len(tx') = Len(tx) - 1
      /\ \A i \in 1..Len(tx') : tx'[i] = tx[i + 1]
  BY HeadTailProperties, LenProperties, EmptySeq
<1>2. DOMAIN tx' = 1..Len(tx) - 1 /\ \A i \in DOMAIN tx' : tx'[i] = tx[i + 1] /\ i + 1 \in DOMAIN tx
  BY <1>1, LenProperties
<1>3. 1 \in DOMAIN tx /\ \A j \in DOMAIN tx : j # 1 => j - 1 \in DOMAIN tx' /\ tx'[j - 1] = tx[j]
  BY <1>1, <1>2
<1>4. Head(tx) \in {"C"} \cup Due /\ (Head(tx) # "C" => Replied) /\ (Head(tx) = "ACK" => Acked)
  BY <1>1, <1>3 DEF OneReply, Replied, Acked
<1>5. Head(tx) = "C" => Replied' = Replied
  <2>1. Replied' => Replied
    BY <1>2 DEF Replied
  <2>2. Head(tx) = "C" /\ Replied => Replied'
    BY <1>1, <1>3 DEF Replied
  <2>. QED
    BY <2>1, <2>2 DEF Replied
<1>6. Head(tx) = "C" => Acked' = Acked
  <2>1. Acked' => Acked
    BY <1>2 DEF Acked
  <2>2. Head(tx) = "C" /\ Acked => Acked'
    BY <1>1, <1>3 DEF Acked
  <2>. QED
    BY <2>1, <2>2 DEF Acked
<1>7. \A i \in DOMAIN tx' : 1 # i + 1
  BY <1>2
<1>8. Head(tx) \in {"ACK", "NAK"} => ~Replied'
  BY <1>1, <1>2, <1>3, <1>7 DEF OneReply, Replied
<1>9. Head(tx) = "CAN" => \A i \in DOMAIN tx' : tx'[i] \notin {"ACK", "NAK"}
  BY <1>1, <1>2, <1>3, <1>7 DEF OneReply
<1>10. \A i \in DOMAIN tx' : tx'[i] \in {"C"} \cup Due
  BY <1>2 DEF OneReply
<1>11. \A i, j \in DOMAIN tx' : i # j => i + 1 # j + 1
  BY <1>1, <1>2
<1>12. \A i \in DOMAIN tx' : tx'[i] \in {"ACK", "NAK"}
                 => \A j \in DOMAIN tx' : i # j => tx'[j] = "C"
  BY <1>2, <1>11 DEF OneReply
<1>. QED
  BY <1>4, <1>5, <1>6, <1>8, <1>9, <1>10, <1>12

\* What the sender puts on the line.
LEMMA RunIs ==
    ASSUME Typed, PlainLine, NEW i \in 1..Len(File)
    PROVE  /\ \A s \in {"data", "eot", "null"} : RunOf(s, i) \in Seq(NotHeader)
           /\ RunOf("eot", i) \in Seq(OfEot)
           /\ RunOf("data", i) \in {r \in Seq({u \in Units : /\ u.p.seq = i /\ u.p.data = File[i]
                                                             /\ u.p.n = StxBody}) :
                                       Len(r) = Capacity /\ r[1].c \in {"STX", "JUNK"}}
<1>0. /\ i \in Nat /\ i >= 1 /\ SohBody \in Nat /\ StxBody \in Nat /\ StxBody >= 1 /\ SohBody # StxBody
      /\ "none" \in Payloads /\ "null" \in Payloads /\ File[i] \in Payloads
      /\ 0 \in Nat /\ 0 # StxBody /\ i # 0
  BY Constants, BodyAssumption DEF Payloads
<1>1. /\ Block(i) \in Packets /\ Block(i).seq = i /\ Block(i).data = File[i] /\ Block(i).n = StxBody
      /\ Null \in Packets /\ Null.n = SohBody /\ NoPacket \in Packets /\ NoPacket.n = 0
  BY <1>0 DEF Block, Null, NoPacket, Packets, PlainLine
<1>2. ASSUME NEW p \in Packets, NEW S, \A u \in Units : u.p = p => u \in S
      PROVE  /\ PacketRun(p) \in Seq(S) /\ Len(PacketRun(p)) = 1 + p.n
             /\ PacketRun(p)[1] = Unit(IF p.n = SohBody THEN "SOH" ELSE "STX", p, 0)
  <2>1. p.n \in Nat /\ \A j \in 1..p.n : Unit("BODY", p, j) \in S
    BY <1>2 DEF Unit, Units, Packets
  <2>2. Body(p) \in Seq(S) /\ Len(Body(p)) = p.n
    BY <2>1 DEF Body
  <2> DEFINE first == Unit(IF p.n = SohBody THEN "SOH" ELSE "STX", p, 0)
  <2>3. first \in S
    BY <1>2 DEF Unit, Units
  <2>. HIDE DEF first
  <2>4. <<first>> \in Seq(S) /\ Len(<<first>>) = 1 /\ <<first>>[1] = first
    BY <2>3
  <2>5. /\ <<first>> \o Body(p) \in Seq(S) /\ Len(<<first>> \o Body(p)) = 1 + p.n
        /\ \A j \in 1..1 + p.n : (<<first>> \o Body(p))[j] = IF j <= 1 THEN <<first>>[j] ELSE Body(p)[j - 1]
    BY <2>1, <2>2, <2>4, ConcatProperties
  <2>6. 1 \in 1..1 + p.n
    BY <2>1
  <2>7. PacketRun(p) = <<first>> \o Body(p)
    BY DEF PacketRun, first
  <2>8. (<<first>> \o Body(p))[1] = first
    BY <2>4, <2>5, <2>6
  <2>. QED
    BY <2>5, <2>7, <2>8 DEF first
<1>3. RunOf("data", i) = PacketRun(Block(i)) /\ RunOf("null", i) = PacketRun(Null)
      /\ RunOf("eot", i) = <<Unit("EOT", NoPacket, 0)>>
  BY DEF RunOf
<1>4. RunOf("eot", i) \in Seq(OfEot) /\ RunOf("eot", i) \in Seq(NotHeader)
  <2>1. Unit("EOT", NoPacket, 0) \in OfEot /\ Unit("EOT", NoPacket, 0) \in NotHeader
    BY <1>0, <1>1 DEF Unit, Units, OfEot, NotHeader
  <2>2. \A S : \A u \in S : <<u>> \in Seq(S)
    OBVIOUS
  <2>. QED
    BY <1>3, <2>1, <2>2
<1>5. RunOf("null", i) \in Seq(NotHeader)
  <2>1. \A u \in Units : u.p = Null => u \in NotHeader
    BY <1>0, <1>1 DEF NotHeader
  <2>. QED
    BY <1>1, <1>2, <1>3, <2>1
<1>6. RunOf("data", i) \in Seq(NotHeader)
  <2>1. \A u \in Units : u.p = Block(i) => u \in NotHeader
    BY <1>0, <1>1 DEF NotHeader
  <2>. QED
    BY <1>1, <1>2, <1>3, <2>1
<1>7. RunOf("data", i) \in {r \in Seq({u \in Units : /\ u.p.seq = i /\ u.p.data = File[i]
                                                             /\ u.p.n = StxBody}) :
                                       Len(r) = Capacity /\ r[1].c \in {"STX", "JUNK"}}
  <2> DEFINE S == {u \in Units : u.p.seq = i /\ u.p.data = File[i] /\ u.p.n = StxBody}
  <2>1. \A u \in Units : u.p = Block(i) => u \in S
    BY <1>1
  <2>. HIDE DEF S
  <2>2. /\ PacketRun(Block(i)) \in Seq(S) /\ Len(PacketRun(Block(i))) = 1 + StxBody
        /\ PacketRun(Block(i))[1] = Unit("STX", Block(i), 0)
    BY <1>0, <1>1, <1>2, <2>1
  <2>3. Unit("STX", Block(i), 0).c = "STX"
    BY DEF Unit
  <2>. QED
    BY <1>3, <2>2, <2>3 DEF S, Capacity
<1>. QED
  BY <1>4, <1>5, <1>6, <1>7

\* Where no run is under way one more makes one.
LEMMA OneSent ==
    ASSUME Typed, Typed', NEW s, NEW i, Send(s, i), Pending = 0,
           UNCHANGED <<line, age, count, mpc, stage>>
    PROVE  /\ wire = <<>> /\ wire' = <<RunOf(s, i)>> /\ Pending' = 1 /\ mpc # "run" /\ mpc' # "run"
           /\ ss' = s /\ k' = i
<1>1. Len(wire) = 0 /\ count = 0 /\ ~Held /\ wire \in Seq(Seq(Units))
  BY PendingIs DEF Typed, SenderTyped
<1>2. wire = <<>>
  BY <1>1, EmptySeq
<1>3. wire' = <<RunOf(s, i)>> /\ Len(wire') = 1
  BY <1>2 DEF Send
<1>4. ~Held' /\ mpc # "run" /\ count' = 0
  BY <1>1 DEF Held, Current
<1>. QED
  BY <1>2, <1>3, <1>4, PendingWas DEF Send

\* The sender's timeout sends once more what was lost.
LEMMA TimeoutOrderly ==
    ASSUME Orderly, Typed', SenderTimeout
    PROVE  Orderly'
<1>0. /\ Typed /\ PlainLine /\ k \in 1..Len(File) /\ Send(ss, k)
      /\ UNCHANGED <<line, age, count, mpc, stage, tx, flash, mic, rym_sqqueue, start>>
      /\ tx = <<>> /\ ss \in Sending
  BY DEF Orderly, Typed, SenderTyped, SenderTimeout, Quiet, flowvars, bootvars, rymvars
<1>1. Pending = 0 /\ ~Replied /\ ~Acked
  BY <1>0, PendingIs, EmptySeq DEF SenderTimeout, Quiet, Held, Replied, Acked
<1>2. /\ wire = <<>> /\ wire' = <<RunOf(ss, k)>> /\ Pending' = 1 /\ mpc # "run" /\ mpc' # "run"
      /\ ss' = ss /\ k' = k
  BY <1>0, <1>1, OneSent
<1>3. /\ Replied' = Replied /\ Acked' = Acked /\ Due' = Due /\ Opened' = Opened
      /\ OfBlock' = OfBlock /\ WholeBlock' = WholeBlock
  BY <1>0, <1>2 DEF Replied, Acked, Due, Opened, OfBlock, WholeBlock
<1>4. \A S : \A r \in S : <<r>> \in Seq(S)
  OBVIOUS
<1>5. /\ ss \in {"data", "eot", "null"} => RunOf(ss, k) \in Seq(NotHeader)
      /\ ss = "eot" => RunOf(ss, k) \in Seq(OfEot)
      /\ ss = "data" => RunOf(ss, k) \in WholeBlock
  BY <1>0, RunIs DEF WholeBlock, OfBlock
<1>6. OneTurn' /\ OneReply' /\ Book'
  BY <1>0, <1>1, <1>2, <1>3 DEF Orderly, OneTurn, OneReply, Book
<1>7. ss \in {"data", "eot", "null"} /\ NoHeader => NoHeader'
  BY <1>0, <1>2, <1>4, <1>5 DEF NoHeader, NotHeader
<1>8. ss = "data" /\ BlocksOnly => BlocksOnly'
  BY <1>0, <1>2, <1>3, <1>4, <1>5 DEF BlocksOnly
<1>9. ss = "eot" /\ EotsOnly => EotsOnly'
  BY <1>0, <1>2, <1>4, <1>5 DEF EotsOnly, OfEot
<1>10. Waits' /\ Offers' /\ Starts'
  BY <1>0, <1>1, <1>2, <1>3 DEF Orderly, Agree, Waits, Offers, Starts, Sending
<1>11. Sends'
  BY <1>0, <1>1, <1>2, <1>3, <1>7, <1>8 DEF Orderly, Agree, Sends
<1>12. Closes'
  <2>1. ASSUME ss \in {"eot", "waitC2", "null"}
        PROVE  /\ Len(flash) = Len(File) /\ line["hs"] # "ack" /\ NoHeader
               /\ stage = "TRANSMITTING" => ss = "eot" /\ ~Replied /\ EotsOnly
    BY <2>1 DEF Orderly, Agree, Closes
  <2>2. ASSUME ss \in {"eot", "waitC2", "null"} PROVE NoHeader'
    BY <1>0, <1>7, <2>1, <2>2 DEF Sending
  <2>3. ASSUME ss \in {"eot", "waitC2", "null"}, stage = "TRANSMITTING"
        PROVE  ss' = "eot" /\ ~Replied' /\ EotsOnly'
    BY <1>1, <1>2, <1>3, <1>9, <2>1, <2>3
  <2>. QED
    BY <1>0, <1>2, <2>1, <2>2, <2>3 DEF Closes
<1>. QED
  BY <1>6, <1>10, <1>11, <1>12 DEF Orderly, PlainLine, Agree

\* The sender comes to a state in which it sends nothing and expects nothing.
LEMMA RestStep ==
    ASSUME Orderly, Typed', ss' \in {"gaveup", "done", "cancelled"}, Pending = 0, wire' = wire,
           UNCHANGED <<line, age, count, mpc, stage, flash, mic, rym_sqqueue, start>>,
           \A i \in DOMAIN tx' : tx'[i] # "C" => ss' = "cancelled" /\ tx'[i] = "CAN"
    PROVE  Orderly'
<1>0. Typed /\ Held' = Held
  BY DEF Orderly, Held, Current
<1>1. Pending' = 0
  BY <1>0, PendingIs, PendingWas
<1>2. mpc' # "run"
  BY <1>1, PendingWas DEF Held
<1>3. ss' \notin Sending
  BY DEF Sending
<1>4. OneTurn'
  BY <1>1, <1>2, <1>3 DEF OneTurn
<1>5. OneReply'
  BY DEF OneReply, Due
<1>6. Book'
  BY DEF Orderly, Book
<1>7. Agree'
  BY DEF Agree, Waits, Offers, Starts, Sends, Closes
<1>. QED
  BY <1>4, <1>5, <1>6, <1>7 DEF Orderly, PlainLine

\* Giving up and starting again keep the order.
LEMMA RestOrderly ==
    ASSUME Orderly, Typed', GiveUp \/ Restart
    PROVE  Orderly'
<1>0. /\ Typed /\ Quiet /\ tx = <<>> /\ mpc = "call"
      /\ UNCHANGED <<line, age, count, mpc, stage, tx, flash, mic, rym_sqqueue, start, wire>>
  BY DEF Orderly, GiveUp, Restart, Quiet, flowvars, bootvars, rymvars
<1>1. Pending = 0 /\ DOMAIN tx' = {}
  BY <1>0, PendingIs, EmptySeq DEF Quiet, Held
<1>2. CASE GiveUp
  BY <1>0, <1>1, <1>2, RestStep DEF GiveUp
<1>3. CASE Restart
  <2>1. ss' = "waitC" /\ \A f \in Flow : ~At(f, "ack")'
    BY <1>0, <1>3 DEF Restart, Quiet, At, Current
  <2>2. Pending' = 0
    <3>1. Held' = Held
      BY <1>0 DEF Held, Current
    <3>. QED
      BY <1>0, <1>1, <3>1, PendingIs, PendingWas
  <2>3. OneTurn' /\ OneReply' /\ Book'
    BY <1>0, <1>1, <2>1, <2>2 DEF Orderly, OneTurn, OneReply, Book
  <2>4. Agree'
    BY <1>0, <2>1 DEF Agree, Waits, Offers, Starts, Sends, Closes
  <2>. QED
    BY <2>3, <2>4 DEF Orderly, PlainLine
<1>. QED
  BY <1>2, <1>3

\* The sender's answer that puts a run on the line, no reply being under way.
LEMMA SendStep ==
    ASSUME Orderly, Typed', NEW s \in Sending, NEW i \in 1..Len(File), Send(s, i), Pending = 0,
           UNCHANGED <<line, age, count, mpc, stage, flash, mic, rym_sqqueue, start>>, ~Replied'
    PROVE  /\ OneTurn' /\ OneReply' /\ Book' /\ ~Acked' /\ (Opened' <=> Opened)
           /\ ss' = s /\ k' = i
           /\ s # "header" /\ NoHeader => NoHeader'
           /\ s = "data" /\ rym_sqqueue = <<>> => BlocksOnly'
           /\ s = "eot" /\ rym_sqqueue = <<>> => EotsOnly'
<1>0. Typed /\ PlainLine
  BY DEF Orderly
<1>1. /\ wire' = <<RunOf(s, i)>> /\ Pending' = 1 /\ mpc' # "run" /\ ss' = s /\ k' = i
  BY <1>0, OneSent
<1>2. OneTurn' /\ OneReply' /\ Book' /\ ~Acked' /\ (Opened' <=> Opened)
  BY <1>1 DEF Orderly, OneTurn, OneReply, Book, Replied, Acked, Opened
<1>3. \A S : \A r \in S : <<r>> \in Seq(S)
  OBVIOUS
<1>4. s # "header" => s \in {"data", "eot", "null"}
  BY DEF Sending
<1>5. s # "header" /\ NoHeader => NoHeader'
  <2>1. s # "header" => RunOf(s, i) \in Seq(NotHeader)
    BY <1>0, <1>4, RunIs
  <2>. QED
    BY <1>1, <1>3, <2>1 DEF NoHeader, NotHeader
<1>6. s = "data" /\ rym_sqqueue = <<>> => BlocksOnly'
  <2>1. s = "data" => RunOf(s, i) \in WholeBlock'
    BY <1>0, <1>1, RunIs DEF WholeBlock, OfBlock
  <2>2. s = "data" => wire' \in Seq(WholeBlock')
    BY <1>1, <1>3, <2>1
  <2>3. rym_sqqueue = <<>> => rym_sqqueue' \in Seq(OfBlock')
    BY EmptySeq
  <2>. QED
    BY <1>1, <2>2, <2>3 DEF BlocksOnly
<1>7. s = "eot" /\ rym_sqqueue = <<>> => EotsOnly'
  <2>1. s = "eot" => wire' \in Seq(Seq(OfEot))
    BY <1>0, <1>1, <1>3, RunIs
  <2>2. rym_sqqueue = <<>> => rym_sqqueue' \in Seq(OfEot)
    BY EmptySeq
  <2>. QED
    BY <1>1, <2>1, <2>2 DEF EotsOnly, OfEot
<1>. QED
  BY <1>1, <1>2, <1>5, <1>6, <1>7

\* A code that sends the sender on to its next packet.
LEMMA SendOrderly ==
    ASSUME Orderly, Typed', tx # <<>>, tx' = Tail(tx), NEW s \in Sending, NEW i, Send(s, i),
           Answer(Head(tx)) = <<s, i>>,
           UNCHANGED <<line, age, count, mpc, stage, flash, mic, rym_sqqueue, start>>
    PROVE  Orderly'
<1>0. /\ Typed /\ SenderTyped /\ PlainLine /\ tx \in Seq(Codes) /\ OneReply /\ ~ResendOnC
      /\ Book /\ k \in 1..Len(File) /\ Len(File) \in Nat /\ 1 \in 1..Len(File)
      /\ Len(flash) \in Nat
  <2>1. Typed /\ SenderTyped /\ PlainLine /\ OneReply /\ Book /\ ~ResendOnC
    BY DEF Orderly, Typed, PlainLine
  <2>2. tx \in Seq(Codes) /\ k \in 1..Len(File) /\ Len(flash) \in Nat
    BY <2>1, LenProperties DEF Typed, SenderTyped, RymTyped, BootTyped
  <2>. QED
    BY <2>1, <2>2, Constants
<1>1. \A p, q, r, t : <<p, q>> = <<r, t>> => p = r /\ q = t
  OBVIOUS
<1>2. "ignore" \notin Sending /\ "waitC1" \notin Sending /\ "waitC2" \notin Sending
      /\ "done" \notin Sending /\ "cancelled" \notin Sending
  BY DEF Sending
<1>3. i \in 1..Len(File)
  <2>1. Answer(Head(tx))[2] \in 1..Len(File)
    BY <1>0, AnswerTyped
  <2>. QED
    BY <2>1
<1>4. CASE Head(tx) = "C"
  <2>1. /\ \/ ss = "waitC" /\ s = "header" /\ i = 1
           \/ ss = "waitC1" /\ s = "data" /\ i = 1
           \/ ss = "waitC2" /\ s = "null" /\ i = k
    BY <1>0, <1>1, <1>2, <1>4, AnswerIs
  <2>2. ~Replied'
    <3>1. Due = {}
      BY <2>1 DEF Due
    <3>. QED
      BY <1>0, <3>1, Seen DEF Replied
  <2>3. Pending = 0
    BY <2>1 DEF Orderly, OneTurn, Sending
  <2>4. /\ OneTurn' /\ OneReply' /\ Book' /\ ~Acked' /\ (Opened' <=> Opened)
        /\ ss' = s /\ k' = i
        /\ s # "header" /\ NoHeader => NoHeader'
        /\ s = "data" /\ rym_sqqueue = <<>> => BlocksOnly'
    BY <1>3, <2>2, <2>3, SendStep
  <2>5. CASE ss = "waitC"
    <3>1. stage = "ESTABLISHING" /\ line["hs"] # "ack"
      BY <2>5, FlowAssumption DEF Orderly, Agree, Waits, At, Current
    <3>2. Agree'
      BY <2>1, <2>4, <2>5, <3>1 DEF Agree, Waits, Offers, Starts, Sends, Closes
    <3>. QED
      BY <1>0, <2>4, <3>2 DEF Orderly, PlainLine
  <2>6. CASE ss = "waitC1"
    <3>1. Begun /\ Len(<<>>) = 0 /\ ss' = "data" /\ k' = 1
      BY <2>1, <2>4, <2>6 DEF Orderly, Agree, Starts
    <3>2. Sends'
      BY <1>0, <2>1, <2>4, <2>6, <3>1 DEF Sends, Begun
    <3>3. Agree'
      BY <3>1, <3>2 DEF Agree, Waits, Offers, Starts, Closes
    <3>. QED
      BY <1>0, <2>4, <3>3 DEF Orderly, PlainLine
  <2>7. CASE ss = "waitC2"
    <3>1. /\ Len(flash) = Len(File) /\ line["hs"] # "ack" /\ NoHeader /\ stage # "TRANSMITTING"
          /\ ss' = "null"
      BY <2>1, <2>4, <2>7 DEF Orderly, Agree, Closes
    <3>2. Closes'
      BY <2>1, <2>4, <2>7, <3>1 DEF Closes
    <3>3. Agree'
      BY <3>1, <3>2 DEF Agree, Waits, Offers, Starts, Sends
    <3>. QED
      BY <1>0, <2>4, <3>3 DEF Orderly, PlainLine
  <2>. QED
    BY <2>1, <2>5, <2>6, <2>7
<1>5. CASE Head(tx) # "C"
  <2>1. Head(tx) \in Due /\ Replied /\ Pending = 0
    BY <1>0, <1>5, Seen DEF Orderly, OneTurn
  <2>2. /\ \/ Head(tx) = "NAK" /\ ss = "eot" /\ s = "eot" /\ i = k
           \/ Head(tx) = "ACK" /\ ss = "data" /\ k < Len(File) /\ s = "data" /\ i = k + 1
           \/ Head(tx) = "ACK" /\ ss = "data" /\ k = Len(File) /\ s = "eot" /\ i = k
    <3>1. Head(tx) # "CAN"
      BY <1>0, <1>1, <1>2, AnswerIs
    <3>2. CASE Head(tx) = "NAK"
      BY <1>0, <1>1, <2>1, <3>2, AnswerIs DEF Due, Sending
    <3>3. CASE Head(tx) = "ACK"
      <4>1. ss \in {"header", "data", "eot", "null"}
        BY <2>1, <3>3 DEF Due
      <4>2. ss = "data"
        BY <1>0, <1>1, <1>2, <3>3, <4>1, AnswerIs
      <4>3. CASE k < Len(File)
        BY <1>0, <1>1, <3>3, <4>2, <4>3, AnswerIs
      <4>4. CASE k = Len(File)
        BY <1>0, <1>1, <3>3, <4>2, <4>4, AnswerIs
      <4>. QED
        BY <1>0, <4>3, <4>4
    <3>4. Due \subseteq {"ACK", "NAK", "CAN"}
      BY DEF Due
    <3>. QED
      BY <2>1, <3>1, <3>2, <3>3, <3>4
  <2>3. ~Replied'
    BY <1>0, <2>2, Seen
  <2>4. /\ OneTurn' /\ OneReply' /\ Book' /\ ~Acked' /\ (Opened' <=> Opened)
        /\ ss' = s /\ k' = i
        /\ s # "header" /\ NoHeader => NoHeader'
        /\ s = "data" /\ rym_sqqueue = <<>> => BlocksOnly'
        /\ s = "eot" /\ rym_sqqueue = <<>> => EotsOnly'
    BY <1>3, <2>1, <2>3, SendStep
  <2>5. CASE Head(tx) = "NAK"
    <3>1. /\ Len(flash) = Len(File) /\ line["hs"] # "ack" /\ NoHeader /\ stage # "TRANSMITTING"
          /\ ss' = "eot" /\ s = "eot"
      BY <2>1, <2>2, <2>4, <2>5 DEF Orderly, Agree, Closes
    <3>2. Closes'
      BY <2>4, <3>1 DEF Closes
    <3>3. Agree'
      BY <3>1, <3>2 DEF Agree, Waits, Offers, Starts, Sends
    <3>. QED
      BY <1>0, <2>4, <3>3 DEF Orderly, PlainLine
  <2>6. CASE Head(tx) = "ACK"
    <3>1. Acked
      BY <1>0, <2>6, Seen
    <3>2. /\ stage \in {"ESTABLISHING", "TRANSMITTING"} /\ NoHeader /\ Len(flash) >= k
          /\ Opened => Len(flash) = k /\ rym_sqqueue = <<>>
      BY <2>2, <2>6, <3>1 DEF Orderly, Agree, Sends
    <3>3. CASE s = "data"
      <4>1. i = k + 1 /\ s = "data" /\ k \in Nat
        BY <1>0, <2>2, <2>6, <3>3
      <4>2. /\ Len(flash) >= k' - 1 /\ Opened' => Len(flash') = k' - 1 /\ BlocksOnly'
            /\ Len(flash') >= k' - 1
        BY <1>0, <2>4, <3>2, <4>1
      <4>3. ss' = "data" /\ NoHeader'
        BY <2>4, <3>2, <4>1
      <4>4. Opened' => Len(flash') = k' - 1 /\ BlocksOnly'
        BY <1>0, <2>4, <3>2, <4>1
      <4>5. Sends'
        BY <2>4, <3>2, <4>2, <4>3, <4>4 DEF Sends
      <4>6. Agree'
        BY <4>3, <4>5 DEF Agree, Waits, Offers, Starts, Closes
      <4>. QED
        BY <1>0, <2>4, <4>6 DEF Orderly, PlainLine
    <3>4. CASE s = "eot"
      <4>1. k = Len(File) /\ s = "eot" /\ ss' = "eot"
        BY <2>2, <2>4, <2>6, <3>4
      <4>2. Len(flash) = Len(File)
        BY <1>0, <3>2, <4>1 DEF Book
      <4>3. line["hs"] # "ack"
        BY <1>0, <4>2 DEF Book
      <4>4. stage = "TRANSMITTING" => EotsOnly'
        BY <2>4, <3>2, <4>1 DEF Opened
      <4>5. NoHeader'
        BY <2>4, <3>2, <4>1
      <4>6. Closes'
        BY <2>3, <4>1, <4>2, <4>3, <4>4, <4>5 DEF Closes
      <4>7. Agree'
        BY <4>1, <4>6 DEF Agree, Waits, Offers, Starts, Sends
      <4>. QED
        BY <1>0, <2>4, <4>7 DEF Orderly, PlainLine
    <3>. QED
      BY <2>2, <2>6, <3>3, <3>4
  <2>. QED
    BY <2>2, <2>5, <2>6
<1>. QED
  BY <1>4, <1>5

\* Whatever the sender makes of the next code.
LEMMA SeeOrderly ==
    ASSUME Orderly, Typed', See
    PROVE  Orderly'
<1>0. /\ Typed /\ SenderTyped /\ PlainLine /\ tx \in Seq(Codes) /\ OneReply /\ ~ResendOnC
      /\ Book /\ k \in 1..Len(File) /\ tx # <<>> /\ tx' = Tail(tx)
      /\ UNCHANGED <<line, age, count, mpc, stage, flash, mic, rym_sqqueue, start>>
  <2>1. Typed /\ SenderTyped /\ PlainLine /\ OneReply /\ Book /\ ~ResendOnC
    BY DEF Orderly, Typed, PlainLine
  <2>2. tx \in Seq(Codes) /\ k \in 1..Len(File)
    BY <2>1 DEF Typed, SenderTyped, RymTyped
  <2>. QED
    BY <2>1, <2>2 DEF See, flowvars, bootvars
<1>1. PICK s, i : Answer(Head(tx)) = <<s, i>>
  BY DEF Answer
<1>2. \/ s \in Sending /\ Send(s, i)
      \/ s \in Sending /\ ss' = "gaveup" /\ UNCHANGED <<k, wire>>
      \/ s \notin Sending /\ s # "ignore" /\ ss' = s /\ k' = i /\ UNCHANGED wire
      \/ s = "ignore" /\ UNCHANGED <<ss, k, wire>>
  BY <1>1 DEF See
<1>3. \A p, q, r, t : <<p, q>> = <<r, t>> => p = r /\ q = t
  OBVIOUS
<1>4. "ignore" \notin Sending /\ "waitC1" \notin Sending /\ "waitC2" \notin Sending
      /\ "done" \notin Sending /\ "cancelled" \notin Sending
  BY DEF Sending
<1>5. ss \notin Sending \/ Head(tx) # "C" => Pending = 0
  BY <1>0, Seen DEF Orderly, OneTurn
<1>6. CASE s \in Sending /\ Send(s, i)
  BY <1>0, <1>1, <1>6, SendOrderly
<1>7. CASE s \in Sending /\ ss' = "gaveup" /\ UNCHANGED <<k, wire>>
  <2>1. ~Replied' /\ Pending = 0
    <3>1. CASE Head(tx) = "C"
      <4>1. ss \in {"waitC", "waitC1", "waitC2"}
        BY <1>0, <1>1, <1>3, <1>4, <1>7, <3>1, AnswerIs
      <4>2. Due = {} /\ ss \notin Sending
        BY <4>1 DEF Due, Sending
      <4>. QED
        BY <1>0, <1>5, <4>2, Seen DEF Replied
    <3>2. CASE Head(tx) \in {"ACK", "NAK"}
      BY <1>0, <1>5, <3>2, Seen
    <3>3. Head(tx) # "CAN"
      BY <1>0, <1>1, <1>3, <1>4, <1>7, AnswerIs
    <3>4. Head(tx) \in {"C", "ACK", "NAK", "CAN"}
      BY <1>0, HeadTailProperties DEF Codes
    <3>. QED
      BY <3>1, <3>2, <3>3, <3>4
  <2>. QED
    BY <1>0, <1>7, <2>1, RestStep DEF Replied
<1>8. CASE s = "ignore" /\ UNCHANGED <<ss, k, wire>>
  <2>1. Head(tx) = "C" /\ ss \notin {"waitC", "waitC1", "waitC2"}
    <3>1. CASE Head(tx) = "C"
      <4>1. \A t : <<"ignore", t>> # <<"header", 1>> /\ <<"ignore", t>> # <<"data", 1>>
                   /\ <<"ignore", t>> # <<"null", k>>
        OBVIOUS
      <4>. QED
        BY <1>0, <1>1, <1>8, <3>1, <4>1, AnswerIs
    <3>2. CASE Head(tx) = "CAN"
      BY <1>0, <1>1, <1>3, <1>8, <3>2, AnswerIs
    <3>3. CASE Head(tx) = "NAK"
      <4>1. ss = "eot"
        BY <1>0, <3>3, Seen DEF Due
      <4>. QED
        BY <1>0, <1>1, <1>3, <1>8, <3>3, <4>1, AnswerIs DEF Sending
    <3>4. CASE Head(tx) = "ACK"
      <4>1. ss \in {"header", "data", "eot", "null"}
        BY <1>0, <3>4, Seen DEF Due
      <4>2. k < Len(File) \/ k >= Len(File)
        BY <1>0, Constants
      <4>. QED
        BY <1>0, <1>1, <1>3, <1>8, <3>4, <4>1, <4>2, AnswerIs
    <3>5. Head(tx) \in {"C", "ACK", "NAK", "CAN"}
      BY <1>0, HeadTailProperties DEF Codes
    <3>. QED
      BY <3>1, <3>2, <3>3, <3>4, <3>5
  <2>2. Replied' = Replied /\ Acked' = Acked /\ OneReply'
    <3>1. Due' = Due
      BY <1>8 DEF Due
    <3>2. Replied' = Replied /\ Acked' = Acked
      BY <1>0, <2>1, Seen
    <3>. QED
      BY <1>0, <3>1, <3>2, Seen DEF OneReply
  <2>3. Pending' = Pending
    <3>1. Held' = Held
      BY <1>0 DEF Held, Current
    <3>. QED
      BY <1>0, <1>8, <3>1, PendingIs, PendingWas
  <2>4. /\ Opened' = Opened /\ NoHeader' = NoHeader
        /\ BlocksOnly' = BlocksOnly /\ EotsOnly' = EotsOnly
    BY <1>0, <1>8 DEF Opened, NoHeader, NotHeader, BlocksOnly, EotsOnly, OfBlock, WholeBlock, OfEot
  <2>5. OneTurn' /\ Book'
    BY <1>0, <1>8, <2>2, <2>3 DEF Orderly, OneTurn, Book
  <2>6. Waits' /\ Offers' /\ Starts'
    BY <1>0, <1>8, <2>1, <2>2, <2>4 DEF Orderly, Agree, Waits, Offers, Starts, Begun
  <2>7. Sends'
    BY <1>0, <1>8, <2>2, <2>4 DEF Orderly, Agree, Sends
  <2>8. Closes'
    BY <1>0, <1>8, <2>2, <2>4 DEF Orderly, Agree, Closes
  <2>. QED
    BY <1>0, <2>2, <2>5, <2>6, <2>7, <2>8 DEF Orderly, PlainLine, Agree
<1>9. CASE s \notin Sending /\ s # "ignore" /\ ss' = s /\ k' = i /\ UNCHANGED wire
  <2>1. Head(tx) # "C"
    BY <1>0, <1>1, <1>3, <1>9, AnswerIs DEF Sending
  <2>2. Head(tx) \in Due /\ Replied /\ Pending = 0
    BY <1>0, <1>5, <2>1, Seen
  <2>3. Head(tx) # "NAK"
    <3>1. Head(tx) = "NAK" => ss = "eot"
      BY <2>2 DEF Due
    <3>. QED
      BY <1>0, <1>1, <1>3, <1>9, <3>1, AnswerIs DEF Sending
  <2>4. Head(tx) \in {"ACK", "CAN"}
    BY <2>2, <2>3 DEF Due
  <2>5. CASE Head(tx) = "CAN"
    <3>1. ss' = "cancelled"
      BY <1>0, <1>1, <1>3, <1>9, <2>5, AnswerIs
    <3>2. \A j \in DOMAIN tx' : tx'[j] # "C" => tx'[j] = "CAN"
      <4>1. \A j \in DOMAIN tx' : tx'[j] \notin {"ACK", "NAK"} /\ tx'[j] \in {"C"} \cup Due
        BY <1>0, <2>5, Seen
      <4>2. Due \subseteq {"ACK", "NAK", "CAN"}
        BY DEF Due
      <4>. QED
        BY <4>1, <4>2
    <3>. QED
      BY <1>0, <1>9, <2>2, <3>1, <3>2, RestStep
  <2>6. CASE Head(tx) = "ACK"
    <3>1. /\ \/ ss = "header" /\ s = "waitC1"
             \/ ss = "eot" /\ s = "waitC2"
             \/ ss = "null" /\ s = "done"
      <4>1. ss \in {"header", "data", "eot", "null"}
        BY <2>2, <2>6 DEF Due
      <4>2. k < Len(File) \/ k >= Len(File)
        BY <1>0, Constants
      <4>3. ss # "data"
        BY <1>0, <1>1, <1>3, <1>9, <2>6, <4>2, AnswerIs DEF Sending
      <4>. QED
        BY <1>0, <1>1, <1>3, <2>6, <4>1, <4>3, AnswerIs
    <3>2. ~Replied' /\ Acked
      BY <1>0, <2>6, Seen
    <3>3. CASE s = "done"
      BY <1>0, <1>9, <2>2, <3>2, <3>3, RestStep DEF Replied
    <3>4. Pending' = 0
      <4>1. Held' = Held
        BY <1>0 DEF Held, Current
      <4>. QED
        BY <1>0, <1>9, <2>2, <4>1, PendingIs, PendingWas
    <3>5. mpc' # "run"
      BY <3>4, PendingWas DEF Held
    <3>6. OneTurn' /\ OneReply' /\ Book'
      BY <1>0, <3>2, <3>4, <3>5 DEF OneTurn, OneReply, Book, Replied
    <3>7. Opened' = Opened /\ NoHeader' = NoHeader
      BY <1>0, <1>9 DEF Opened, NoHeader, NotHeader
    <3>8. CASE s = "waitC1"
      <4>1. Begun /\ ss' = "waitC1"
        BY <1>9, <3>1, <3>2, <3>8 DEF Orderly, Agree, Offers
      <4>2. Begun'
        BY <1>0, <3>7, <4>1 DEF Begun
      <4>3. Agree'
        BY <4>1, <4>2 DEF Agree, Waits, Offers, Starts, Sends, Closes
      <4>. QED
        BY <1>0, <3>6, <4>3 DEF Orderly, PlainLine
    <3>9. CASE s = "waitC2"
      <4>1. /\ Len(flash) = Len(File) /\ line["hs"] # "ack" /\ NoHeader /\ stage # "TRANSMITTING"
            /\ ss' = "waitC2"
        BY <1>9, <2>2, <3>1, <3>9 DEF Orderly, Agree, Closes
      <4>2. Closes'
        BY <1>0, <3>7, <4>1 DEF Closes
      <4>3. Agree'
        BY <4>1, <4>2 DEF Agree, Waits, Offers, Starts, Sends
      <4>. QED
        BY <1>0, <3>6, <4>3 DEF Orderly, PlainLine
    <3>. QED
      BY <3>1, <3>3, <3>8, <3>9
  <2>. QED
    BY <2>4, <2>5, <2>6
<1>. QED
  BY <1>2, <1>6, <1>7, <1>8, <1>9

\* At the start everything is in order.
LEMMA OrderlyInit == PlainLine /\ Init => Orderly
<1>. SUFFICES ASSUME PlainLine, Init PROVE Orderly
  OBVIOUS
<1>1. /\ stage = "NONE" /\ tx = <<>> /\ flash = <<>> /\ mic = <<>> /\ rym_sqqueue = <<>>
      /\ ss = "waitC" /\ wire = <<>> /\ count = 0 /\ mpc = "call"
      /\ \A f \in Flow : line[f] = "start"
  BY DEF Init, FlowInit, BootInit, RymInit
<1>2. Typed /\ "hs" \in Flow /\ Len(<<>>) = 0 /\ Len(File) \in Nat
  BY TypedInit, Constants
<1>3. Pending = 0
  BY <1>1, <1>2 DEF Pending, Held
<1>4. DOMAIN tx = {} /\ 1..Len(mic) = {}
  BY <1>1, <1>2
<1>5. OneTurn /\ OneReply
  BY <1>1, <1>3, <1>4 DEF OneTurn, OneReply, Replied, Sending
<1>6. Book
  BY <1>1, <1>2, <1>4 DEF Book
<1>7. Agree
  BY <1>1, <1>2 DEF Agree, Waits, Offers, Starts, Sends, Closes, At, Current
<1>. QED
  BY <1>2, <1>5, <1>6, <1>7 DEF Orderly

\* Steps that leave alone all that the invariant speaks of.
LEMMA OrderlyStutter ==
    ASSUME Orderly, Typed',
           UNCHANGED <<line, age, count, mpc, stage, tx, flash, mic, rym_sqqueue, start, ss, k, wire>>
    PROVE  Orderly'
<1>1. Typed
  BY DEF Orderly
<1>2. Held' = Held
  BY DEF Held, Current
<1>3. Pending' <= Pending
  BY <1>1, <1>2, PendingIs, PendingWas
<1>4. BlocksOnly' = BlocksOnly /\ EotsOnly' = EotsOnly
  BY DEF BlocksOnly, EotsOnly, OfBlock, WholeBlock, OfEot
<1>5. mpc' = "run" => Len(rym_sqqueue') <= StxBody
  BY DEF Orderly, OneTurn
<1>. QED
  BY <1>3, <1>4, <1>5, KeepStep

\* Every step on a plain line keeps the order.
LEMMA OrderlyStep == Orderly /\ [Next]_vars => Orderly'
<1>. SUFFICES ASSUME Orderly, [Next]_vars PROVE Orderly'
  OBVIOUS
<1>0. Typed'
  BY TypedStep DEF Orderly
<1>1. CASE Mcu
  BY <1>0, <1>1, ProcessOrderly DEF Mcu
<1>2. CASE Poll
  BY <1>0, <1>2, OrderlyStutter DEF Poll, Jump, flowvars, bootvars, sendervars
<1>3. CASE Sender
  BY <1>0, <1>3, SeeOrderly, TimeoutOrderly, RestOrderly DEF Sender
<1>4. CASE UNCHANGED vars
  BY <1>0, <1>4, OrderlyStutter DEF vars, flowvars, bootvars, rymvars, sendervars
<1>. QED
  BY <1>0, <1>1, <1>2, <1>3, <1>4, TickOrderly, DeliverOrderly, LineOrderly DEF Next, Booted

\* The flash has, block for block, what a write of what the digest has may leave.
Burnt == /\ Len(flash) = Len(mic)
         /\ \A i \in 1..Len(flash) : flash[i] \in Programmed(mic[i])

\* A block is programmed as it is fed to the digest, or neither is done.
LEMMA BurntStep == Typed /\ Burnt /\ [Next]_vars => Burnt'
<1>. SUFFICES ASSUME Typed, Burnt, [Next]_vars PROVE Burnt'
  OBVIOUS
<1>1. CASE UNCHANGED <<flash, mic>>
  BY <1>1 DEF Burnt
<1>2. CASE flash' = <<>> /\ mic' = <<>>
  BY <1>2, EmptySeq DEF Burnt
<1>3. CASE TransData
  <2>1. PICK w \in Programmed(Packet.data) : flash' = Append(flash, w)
    BY <1>3 DEF TransData, OnData
  <2>2. mic' = Append(mic, Packet.data)
    BY <1>3 DEF TransData, OnData
  <2>3. flash \in Seq(Payloads \cup {"worn"}) /\ mic \in Seq(Payloads)
    BY DEF Typed, BootTyped
  <2>4. flash \in Seq(Payloads \cup {"worn"} \cup {w}) /\ mic \in Seq(Payloads \cup {Packet.data})
    <3>1. \A i \in 1..Len(flash) : flash[i] \in Payloads \cup {"worn"} \cup {w}
      BY <2>3, ElementOfSeq
    <3>2. \A i \in 1..Len(mic) : mic[i] \in Payloads \cup {Packet.data}
      BY <2>3, ElementOfSeq
    <3>. QED
      BY <2>3, <3>1, <3>2
  <2>5. /\ Len(flash') = Len(flash) + 1 /\ flash'[Len(flash) + 1] = w
        /\ \A i \in 1..Len(flash) : flash'[i] = flash[i]
    BY <2>1, <2>4, AppendProperties
  <2>6. /\ Len(mic') = Len(mic) + 1 /\ mic'[Len(mic) + 1] = Packet.data
        /\ \A i \in 1..Len(mic) : mic'[i] = mic[i]
    BY <2>2, <2>4, AppendProperties
  <2>7. Len(flash) \in Nat /\ Len(flash) = Len(mic)
    BY <2>3, LenProperties DEF Burnt
  <2>8. ASSUME NEW i \in 1..Len(flash') PROVE flash'[i] \in Programmed(mic'[i])
    <3>1. i = Len(flash) + 1 \/ i \in 1..Len(flash)
      BY <2>5, <2>7
    <3>. QED
      BY <2>1, <2>5, <2>6, <2>7, <3>1 DEF Burnt
  <2>. QED
    BY <2>5, <2>6, <2>7, <2>8 DEF Burnt, Programmed
<1>4. CASE Mcu
  <2>1. CASE HandshakeBegin
    BY <1>2, <2>1 DEF HandshakeBegin, OnBegin
  <2>2. CASE ~HandshakeBegin /\ ~TransData
    <3>1. UNCHANGED <<flash, mic>>
      BY <1>4, <2>2
         DEF Mcu, RymProcess, ProcessNone, ProcessFinished, Store, ToWait, Acquire, ReadStart,
             HandshakeTimeout, HandshakeIgnore, HandshakeRefuse, HandshakeC, TransTimeout,
             TransBad, TransEot, TransOther, FinishTimeout, FinishEot, FinishOther, FinishC,
             FinishNoNull, FinishNotNull, FinishNull, OnEnd, bootvars
    <3>. QED
      BY <1>1, <3>1
  <2>. QED
    BY <1>3, <2>1, <2>2
<1>5. CASE ~Mcu
  <2>1. UNCHANGED bootvars
    BY <1>5
       DEF Next, Poll, Jump, Tick, Deliver, RymReceive, Sender, See, SenderTimeout, GiveUp,
           Restart, Line, Lose, SpoilCrc, SpoilStart, Split, LoseReply, Strike, Booted, vars
  <2>. QED
    BY <1>1, <2>1 DEF bootvars
<1>. QED
  BY <1>4, <1>5

\* In order, what the sender has seen acknowledged is programmed.
LEMMA OrderlyIsProgrammed == Orderly /\ Burnt => AckedIsProgrammed
<1>. SUFFICES ASSUME Orderly, Burnt PROVE AckedIsProgrammed
  OBVIOUS
<1>1. k \in Nat /\ k <= Len(File) /\ Len(flash) \in Nat /\ Len(File) \in Nat /\ Len(File) >= 1
  BY Constants, LenProperties DEF Orderly, Typed, SenderTyped, BootTyped
<1>2. ss = "data" => Len(flash) >= k - 1
  BY <1>1 DEF Orderly, Agree, Sends
<1>3. ss \in {"eot", "waitC2", "null"} => Len(flash) = Len(File)
  BY DEF Orderly, Agree, Closes
<1>4. Confirmed \in Int /\ Confirmed <= Len(flash)
  BY <1>1, <1>2, <1>3 DEF Confirmed
<1>5. Confirmed = Len(File) => Len(flash) = Len(File)
  BY <1>1, <1>3 DEF Confirmed
<1>6. Len(mic) = Len(flash) /\ \A i \in 1..Len(mic) : mic[i] = File[i]
  BY DEF Orderly, Book
<1>7. ASSUME NEW i \in 1..Confirmed
      PROVE  /\ i <= Len(mic) /\ i <= Len(flash)
             /\ mic[i] = File[i] /\ flash[i] \in Programmed(File[i])
  <2>1. i \in 1..Len(flash) /\ i \in 1..Len(mic) /\ i <= Len(flash)
    BY <1>1, <1>4, <1>6
  <2>. QED
    BY <1>6, <2>1 DEF Burnt
<1>. QED
  BY <1>5, <1>7 DEF AckedIsProgrammed

\* What came in by the time the end is settled is the file.
LEMMA WholeIsFile ==
    ASSUME Orderly, stage \in {"FINISHING", "FINISHED"}
    PROVE  Len(flash) = Len(File) /\ mic = File
<1>1. /\ Len(mic) = Len(flash) /\ Len(flash) = Len(File)
      /\ \A i \in 1..Len(mic) : mic[i] = File[i]
  BY DEF Orderly, Book
<1>2. mic \in Seq(Payloads) /\ File \in Seq(STRING)
  BY Constants DEF Orderly, Typed, BootTyped
<1>3. mic = File
  BY <1>1, <1>2, SeqEqual
<1>. QED
  BY <1>1, <1>3

\* In order, an image that was vouched for is the file.
LEMMA VerdictOfFile == Orderly /\ IInv => VerifiedImageIsFile
<1>. SUFFICES ASSUME Orderly, IInv, result = "ok" PROVE flash = File
  BY DEF VerifiedImageIsFile
<1>1. stage = "FINISHED" /\ flash = mic
  BY DEF IInv, VerdictIsFinal, VerdictStands
<1>. QED
  BY <1>1, WholeIsFile

\* The block that is programmed is the next one of the file.
LEMMA NextIsProgrammed ==
    ASSUME Orderly, TransData
    PROVE  /\ stage = "TRANSMITTING" /\ Len(flash) < Len(File)
           /\ Packet.data = File[Len(flash) + 1]
<1>1. /\ mpc = "run" /\ stage = "TRANSMITTING" /\ start \in {"SOH", "STX"}
      /\ Intact(DataSize) /\ DataSize \in {SohBody, StxBody}
  BY DEF TransData, TransRun, At, Current, DataSize
<1>2. ss = "data" /\ Len(flash) = k - 1 /\ BlocksOnly
  BY <1>1, RunMeans
<1>3. rym_sqqueue[1] \in OfBlock
  BY <1>1, <1>2, PacketIs DEF BlocksOnly
<1>4. Packet.data = File[k]
  BY <1>3 DEF OfBlock, Packet
<1>5. k \in Nat /\ k <= Len(File) /\ Len(File) \in Nat
  BY Constants DEF Orderly, Typed, SenderTyped
<1>. QED
  BY <1>1, <1>2, <1>4, <1>5

\* The phase of the transfer that a stage stands for.
Phase == CASE stage \in {"TRANSMITTING", "FINISHING"} -> "receiving"
           [] stage = "FINISHED"                      -> "closed"
           [] OTHER                                   -> "idle"

\* The upgrade starts where the transfer does.
LEMMA TransferInit == Init => T!Init
  BY DEF Init, BootInit, RymInit, T!Init

\* Steps that the transfer does not see.
LEMMA TransferStutter ==
    ASSUME UNCHANGED <<flash, result, jumped>>, UNCHANGED Phase
    PROVE  UNCHANGED T!vars
  BY DEF T!vars, Phase

\* A stage that stays keeps its phase.
LEMMA PhaseKept ==
    ASSUME UNCHANGED stage PROVE UNCHANGED Phase
  BY DEF Phase

\* A step of the handshake erases, opens, or is not seen.
LEMMA TransferHandshake ==
    ASSUME Orderly,
           \/ HandshakeTimeout \/ HandshakeIgnore \/ HandshakeRefuse
           \/ HandshakeBegin \/ HandshakeC
    PROVE  T!Next \/ UNCHANGED T!vars
<1>1. CASE HandshakeTimeout \/ HandshakeIgnore \/ HandshakeRefuse
  BY <1>1, PhaseKept, TransferStutter
     DEF HandshakeTimeout, HandshakeIgnore, HandshakeRefuse, bootvars
<1>2. CASE HandshakeBegin
  <2>1. stage = "ESTABLISHING" /\ stage' = stage /\ flash' = <<>> /\ UNCHANGED <<result, jumped>>
    BY <1>2 DEF HandshakeBegin, HandshakeRun, At, Current, OnBegin
  <2>2. T!Erase
    BY <2>1 DEF T!Erase
  <2>. QED
    BY <2>2 DEF T!Next
<1>3. CASE HandshakeC
  <2>1. /\ stage = "ESTABLISHING" /\ stage' = "TRANSMITTING" /\ line["hs"] = "ack"
        /\ UNCHANGED <<flash, result, jumped>>
    BY <1>3 DEF HandshakeC, ParamsInit, At, Current, bootvars
  <2>2. flash = <<>>
    BY <2>1 DEF Orderly, Book
  <2>3. T!Open
    BY <2>1, <2>2 DEF T!Open
  <2>. QED
    BY <2>3 DEF T!Next
<1>. QED
  BY <1>1, <1>2, <1>3

\* A step of the transfer programs the next block, abandons, or is not seen.
LEMMA TransferTrans ==
    ASSUME Orderly,
           TransTimeout \/ TransBad \/ TransData \/ TransEot \/ TransOther
    PROVE  T!Next \/ UNCHANGED T!vars
<1>0. stage = "TRANSMITTING"
  BY DEF TransTimeout, TransBad, TransData, TransEot, TransOther, TransRun, At, Current
<1>1. CASE TransBad
  BY <1>1, PhaseKept, TransferStutter DEF TransBad, bootvars
<1>2. CASE TransTimeout \/ TransOther
  <2>1. stage' \in {stage, "ESTABLISHING"} /\ UNCHANGED <<flash, result, jumped>>
    BY <1>2 DEF TransTimeout, TransOther, ParamsInit, bootvars
  <2>2. CASE stage' = "ESTABLISHING"
    <3>1. T!Abandon
      BY <1>0, <2>1, <2>2 DEF T!Abandon
    <3>. QED
      BY <3>1 DEF T!Next
  <2>. QED
    BY <2>1, <2>2, PhaseKept, TransferStutter
<1>3. CASE TransData
  <2>1. /\ stage' = stage /\ UNCHANGED <<result, jumped>>
        /\ \E w \in Programmed(Packet.data) : flash' = Append(flash, w)
    BY <1>3 DEF TransData, OnData
  <2>2. Len(flash) < Len(File) /\ Packet.data = File[Len(flash) + 1]
    BY <1>3, NextIsProgrammed
  <2>3. T!Program
    BY <1>0, <2>1, <2>2 DEF T!Program
  <2>. QED
    BY <2>3 DEF T!Next
<1>4. CASE TransEot
  <2>1. stage' = "FINISHING" /\ UNCHANGED <<flash, result, jumped>>
    BY <1>4 DEF TransEot, ParamsInit, bootvars
  <2>2. UNCHANGED Phase
    BY <1>0, <2>1 DEF Phase
  <2>. QED
    BY <2>1, <2>2, TransferStutter
<1>. QED
  BY <1>1, <1>2, <1>3, <1>4

\* A step of the end closes, abandons, or is not seen.
LEMMA TransferFinish ==
    ASSUME Orderly,
           \/ FinishTimeout \/ FinishEot \/ FinishOther \/ FinishC
           \/ FinishNoNull \/ FinishNotNull \/ FinishNull
    PROVE  T!Next \/ UNCHANGED T!vars
<1>0. stage = "FINISHING"
  BY DEF FinishTimeout, FinishEot, FinishOther, FinishC, FinishNoNull, FinishNotNull,
         FinishNull, At, Current
<1>1. CASE FinishEot \/ FinishOther \/ FinishC \/ FinishNoNull \/ FinishNotNull
  BY <1>1, PhaseKept, TransferStutter
     DEF FinishEot, FinishOther, FinishC, FinishNoNull, FinishNotNull, rymvars, bootvars
<1>2. CASE FinishTimeout
  <2>1. stage' \in {stage, "ESTABLISHING"} /\ UNCHANGED <<flash, result, jumped>>
    BY <1>2 DEF FinishTimeout, ParamsInit, bootvars
  <2>2. CASE stage' = "ESTABLISHING"
    <3>1. T!Abandon
      BY <1>0, <2>1, <2>2 DEF T!Abandon
    <3>. QED
      BY <3>1 DEF T!Next
  <2>. QED
    BY <2>1, <2>2, PhaseKept, TransferStutter
<1>3. CASE FinishNull
  <2>1. /\ stage' = "FINISHED" /\ UNCHANGED <<flash, jumped>>
        /\ result' = IF flash = mic THEN "ok" ELSE "bad"
    BY <1>3 DEF FinishNull, OnEnd
  <2>2. Len(flash) = Len(File) /\ mic = File
    BY <1>0, WholeIsFile
  <2>3. T!Close
    BY <1>0, <2>1, <2>2 DEF T!Close
  <2>. QED
    BY <2>3 DEF T!Next
<1>. QED
  BY <1>1, <1>2, <1>3

\* Every step of the upgrade is a step of the transfer or is not seen by it.
LEMMA TransferStep == Orderly /\ IInv /\ [Next]_vars => [T!Next]_(T!vars)
<1>. SUFFICES ASSUME Orderly, IInv, [Next]_vars PROVE T!Next \/ UNCHANGED T!vars
  OBVIOUS
<1>1. ASSUME RymProcess PROVE T!Next \/ UNCHANGED T!vars
  <2>1. CASE ProcessNone
    <3>1. UNCHANGED Phase
      BY <2>1 DEF ProcessNone, ParamsInit, Phase
    <3>. QED
      BY <2>1, <3>1, TransferStutter DEF ProcessNone, bootvars
  <2>2. CASE ProcessFinished
    BY <2>2, PhaseKept, TransferStutter DEF ProcessFinished, bootvars
  <2>3. CASE Store
    BY <2>3, PhaseKept, TransferStutter DEF Store, rymvars, bootvars
  <2>4. ASSUME NEW f \in Flow, ToWait(f) \/ Acquire(f) \/ ReadStart(f)
        PROVE  UNCHANGED T!vars
    BY <2>4, PhaseKept, TransferStutter DEF ToWait, Acquire, ReadStart, rymvars, bootvars
  <2>. QED
    BY <1>1, <2>1, <2>2, <2>3, <2>4, TransferHandshake, TransferTrans, TransferFinish
       DEF RymProcess
<1>2. CASE Mcu
  BY <1>1, <1>2 DEF Mcu
<1>3. CASE Poll
  <2>1. stage \notin {"TRANSMITTING", "FINISHING"}
    BY <1>3, TimeoutAssumption DEF Poll, Jump, IInv, HandshakeTimeKept
  <2>2. UNCHANGED <<stage, flash, result>> /\ jumped' = TRUE
    BY <1>3 DEF Poll, Jump, bootvars
  <2>3. T!Boot
    BY <2>1, <2>2 DEF T!Boot
  <2>. QED
    BY <2>3 DEF T!Next
<1>4. CASE Tick \/ Deliver
  BY <1>4, PhaseKept, TransferStutter
     DEF Tick, Deliver, RymReceive, rymvars, bootvars
<1>5. CASE Sender
  BY <1>5, PhaseKept, TransferStutter
     DEF Sender, See, SenderTimeout, GiveUp, Restart, rymvars, bootvars
<1>6. CASE Line
  BY <1>6, PhaseKept, TransferStutter
     DEF Line, Lose, SpoilCrc, SpoilStart, Split, LoseReply, Strike, bootvars
<1>7. CASE UNCHANGED vars
  BY <1>7, PhaseKept, TransferStutter DEF vars, rymvars, bootvars
<1>. QED
  BY <1>2, <1>3, <1>4, <1>5, <1>6, <1>7 DEF Next, Booted

-----------------------------------------------------------------------------
(* The digest.  What AES_CMAC_Update has enciphered and holds back after the first n    *)
(* bytes of a message depends on the message and on n only, not on the pieces it came in.  *)

LEMMA BlockLenIs == BlockLen \in Nat /\ BlockLen >= 1
  BY BlockLenAssumption

\* How many of the first n bytes are in blocks that something follows.
Whole(n) == IF n = 0 THEN 0 ELSE (n - 1) \div BlockLen

LEMMA WholeIs ==
    ASSUME NEW n \in Nat
    PROVE  /\ Whole(n) \in Nat /\ Whole(n) * BlockLen \in Nat
           /\ Whole(n) * BlockLen <= n /\ n <= Whole(n) * BlockLen + BlockLen
           /\ n # 0 => Whole(n) * BlockLen < n
<1>1. CASE n = 0
  BY <1>1, BlockLenIs DEF Whole
<1>2. CASE n # 0
  <2> DEFINE q == (n - 1) \div BlockLen
  <2>1. n - 1 \in Nat
    BY <1>2
  <2>2. q \in Nat /\ q * BlockLen <= n - 1 /\ n - 1 < q * BlockLen + BlockLen
    BY <2>1, BlockLenIs, Division, Zenon
  <2>3. Whole(n) = q
    BY <1>2 DEF Whole
  <2> HIDE DEF q
  <2>4. q * BlockLen \in Nat
    BY <2>2, BlockLenIs
  <2> QED BY <2>2, <2>3, <2>4, <1>2, BlockLenIs
<1> QED BY <1>1, <1>2

\* There is no other number of blocks with a byte, and no more than a block, behind them.
LEMMA WholeOnly ==
    ASSUME NEW n \in Nat, NEW f \in Nat,
           f * BlockLen < n, n <= f * BlockLen + BlockLen
    PROVE  Whole(n) = f
<1>1. f * BlockLen \in Nat
  BY BlockLenIs
<1>2. n # 0
  BY <1>1
<1> QED BY <1>2, WholeIs, OneQuotient, BlockLenIs

\* Part of a part of a message.
LEMMA PartOfPart ==
    ASSUME NEW V, NEW m \in Seq(V), NEW a \in Nat, NEW b \in Nat, a <= b, b <= Len(m),
           NEW x \in Nat, NEW y \in Nat, x <= y, y <= b - a
    PROVE  SubSeq(SubSeq(m, a + 1, b), x + 1, y) = SubSeq(m, a + x + 1, a + y)
<1>0. Len(m) \in Nat
  BY LenProperties
<1>1. CASE x = y
  BY <1>1, SubSeqEmpty, SubSeqEmpty
<1>2. CASE x < y
  <2>1. a + 1 \in 1 .. Len(m) /\ b \in 1 .. Len(m)
        /\ x + 1 \in 1 .. b - (a + 1) + 1 /\ y \in 1 .. b - (a + 1) + 1
    BY <1>0, <1>2
  <2>2. SubSeq(SubSeq(m, a + 1, b), x + 1, y)
            = SubSeq(m, (a + 1) + (x + 1) - 1, (a + 1) + y - 1)
    BY <2>1, SubSeqOfSubSeq
  <2>3. (a + 1) + (x + 1) - 1 = a + x + 1 /\ (a + 1) + y - 1 = a + y
    OBVIOUS
  <2> QED BY <2>2, <2>3
<1> QED BY <1>1, <1>2

\* The bytes a + 1 to b of a message.
LEMMA PartIs ==
    ASSUME NEW V, NEW m \in Seq(V), NEW a \in Nat, NEW b \in Nat, a <= b, b <= Len(m)
    PROVE  /\ SubSeq(m, a + 1, b) \in Seq(V) /\ Len(SubSeq(m, a + 1, b)) = b - a
           /\ \A i \in 1 .. b - a : SubSeq(m, a + 1, b)[i] = m[a + i]
<1>0. Len(m) \in Nat /\ m \in [1 .. Len(m) -> V]
  BY LenProperties
<1>1. \A i \in a + 1 .. b : m[i] \in V
  BY <1>0
<1>2. /\ SubSeq(m, a + 1, b) \in Seq(V)
      /\ Len(SubSeq(m, a + 1, b)) = IF a + 1 <= b THEN b - (a + 1) + 1 ELSE 0
      /\ \A i \in 1 .. b - (a + 1) + 1 : SubSeq(m, a + 1, b)[i] = m[(a + 1) + i - 1]
  BY <1>1, SubSeqProperties
<1>3. \A i \in 1 .. b - a : (a + 1) + i - 1 = a + i
  OBVIOUS
<1>4. b - (a + 1) + 1 = b - a
  OBVIOUS
<1>5. Len(SubSeq(m, a + 1, b)) = b - a
  BY <1>2
<1> QED BY <1>2, <1>3, <1>4, <1>5

\* The same with the part given a name.
LEMMA Cut ==
    ASSUME NEW V, NEW m \in Seq(V), NEW a \in Nat, NEW b \in Nat, a <= b, b <= Len(m),
           NEW x \in Nat, NEW y \in Nat, x <= y, y <= b - a,
           NEW s, s = SubSeq(m, a + 1, b)
    PROVE  SubSeq(s, x + 1, y) = SubSeq(m, a + x + 1, a + y)
<1>1. SubSeq(SubSeq(m, a + 1, b), x + 1, y) = SubSeq(m, a + x + 1, a + y)
  BY PartOfPart
<1> QED BY <1>1, Zenon

\* The joining of two sequences of known length.
LEMMA ConcatIs ==
    ASSUME NEW V, NEW u \in Seq(V), NEW w \in Seq(V), NEW q, NEW j, Len(u) = q, Len(w) = j
    PROVE  /\ u \o w \in Seq(V) /\ Len(u \o w) = q + j
           /\ \A i \in 1 .. q + j : (u \o w)[i] = IF i <= q THEN u[i] ELSE w[i - q]
  BY ConcatProperties

\* The blocks of a message lie end to end within it.
LEMMA BlocksAre ==
    ASSUME NEW V, NEW m \in Seq(V), NEW q \in Nat, q * BlockLen <= Len(m)
    PROVE  /\ Blocks(m, q) \in Seq(Seq(V)) /\ Len(Blocks(m, q)) = q
           /\ \A i \in 1 .. q : /\ Blocks(m, q)[i] = SubSeq(m, (i - 1) * BlockLen + 1, i * BlockLen)
                                /\ (i - 1) * BlockLen \in Nat /\ i * BlockLen \in Nat
                                /\ i * BlockLen = (i - 1) * BlockLen + BlockLen
                                /\ i * BlockLen <= Len(m)
<1>0. Len(m) \in Nat
  BY LenProperties
<1> DEFINE Nth(i) == SubSeq(m, (i - 1) * BlockLen + 1, i * BlockLen)
<1>1. ASSUME NEW i \in 1 .. q
      PROVE  /\ (i - 1) * BlockLen \in Nat /\ i * BlockLen \in Nat
             /\ i * BlockLen = (i - 1) * BlockLen + BlockLen
             /\ i * BlockLen <= q * BlockLen
             /\ q * BlockLen \in Nat
  <2>1. i \in Nat /\ i - 1 \in Nat
    OBVIOUS
  <2>2. (i - 1) * BlockLen \in Nat /\ i * BlockLen \in Nat /\ q * BlockLen \in Nat
        /\ i * BlockLen = (i - 1) * BlockLen + BlockLen
    BY <2>1, BlockLenIs
  <2>3. i * BlockLen <= q * BlockLen
    <3>1. CASE i = q
      BY <3>1, <2>2
    <3>2. CASE i < q
      <4>1. i * BlockLen + BlockLen <= q * BlockLen
        BY <3>2, <2>1, BlockLenIs, Multiples
      <4> QED BY <4>1, <2>2, BlockLenIs
    <3> QED BY <3>1, <3>2
  <2> QED BY <2>2, <2>3
<1>2. ASSUME NEW i \in 1 .. q PROVE Nth(i) \in Seq(V)
  <2>1. (i - 1) * BlockLen <= i * BlockLen /\ i * BlockLen <= Len(m)
    BY <1>0, <1>1, BlockLenIs
  <2> QED BY <2>1, <1>1, PartIs
<1>3. Blocks(m, q) = [i \in 1 .. q |-> Nth(i)]
  BY DEF Blocks
<1> HIDE DEF Nth
<1>4. [i \in 1 .. q |-> Nth(i)] \in Seq(Seq(V)) /\ Len([i \in 1 .. q |-> Nth(i)]) = q
  BY <1>2
<1>5. \A i \in 1 .. q : Blocks(m, q)[i] = Nth(i)
  BY <1>3
<1>6. ASSUME NEW i \in 1 .. q
      PROVE  /\ Blocks(m, q)[i] = SubSeq(m, (i - 1) * BlockLen + 1, i * BlockLen)
             /\ (i - 1) * BlockLen \in Nat /\ i * BlockLen \in Nat
             /\ i * BlockLen = (i - 1) * BlockLen + BlockLen
             /\ i * BlockLen <= Len(m)
  <2>1. Blocks(m, q)[i] = Nth(i)
    BY <1>5
  <2>2. i * BlockLen <= Len(m)
    BY <1>0, <1>1
  <2> QED BY <1>1, <2>1, <2>2, Zenon DEF Nth
<1>7. Blocks(m, q) \in Seq(Seq(V)) /\ Len(Blocks(m, q)) = q
  BY <1>3, <1>4, Zenon
<1> QED BY <1>6, <1>7, Zenon

\* The blocks of a message, and then those of what is left of it, are its blocks.
LEMMA BlocksOn ==
    ASSUME NEW V, NEW m \in Seq(V), NEW q \in Nat, NEW j \in Nat, NEW b \in Nat,
           q * BlockLen <= b, j * BlockLen <= b - q * BlockLen, b <= Len(m)
    PROVE  /\ Blocks(m, q) \o Blocks(SubSeq(m, q * BlockLen + 1, b), j) = Blocks(m, q + j)
           /\ (q + j) * BlockLen = q * BlockLen + j * BlockLen
<1>p. PICK qb \in Nat : qb = q * BlockLen
  BY BlockLenIs
<1>s. PICK s : s = SubSeq(m, qb + 1, b)
  OBVIOUS
<1>0. Len(m) \in Nat /\ qb \in Nat /\ j * BlockLen \in Nat /\ qb <= b
      /\ j * BlockLen <= b - qb /\ (q + j) * BlockLen = qb + j * BlockLen
  BY <1>p, LenProperties, BlockLenIs
<1>1. s \in Seq(V) /\ Len(s) = b - qb
  BY <1>0, <1>s, PartIs
<1>2. /\ Blocks(m, q) \in Seq(Seq(V)) /\ Len(Blocks(m, q)) = q
      /\ \A i \in 1 .. q : Blocks(m, q)[i] = SubSeq(m, (i - 1) * BlockLen + 1, i * BlockLen)
  <2>1. q * BlockLen <= Len(m)
    BY <1>0, <1>p
  <2> QED BY <2>1, BlocksAre
<1>3. /\ Blocks(s, j) \in Seq(Seq(V)) /\ Len(Blocks(s, j)) = j
      /\ \A i \in 1 .. j : /\ Blocks(s, j)[i] = SubSeq(s, (i - 1) * BlockLen + 1, i * BlockLen)
                           /\ (i - 1) * BlockLen \in Nat /\ i * BlockLen \in Nat
                           /\ i * BlockLen = (i - 1) * BlockLen + BlockLen
                           /\ i * BlockLen <= Len(s)
  <2>1. j * BlockLen <= Len(s)
    BY <1>0, <1>1
  <2> QED BY <2>1, <1>1, BlocksAre
<1>4. /\ Blocks(m, q + j) \in Seq(Seq(V)) /\ Len(Blocks(m, q + j)) = q + j
      /\ \A i \in 1 .. q + j :
             Blocks(m, q + j)[i] = SubSeq(m, (i - 1) * BlockLen + 1, i * BlockLen)
  <2>1. (q + j) * BlockLen <= Len(m) /\ q + j \in Nat
    BY <1>0
  <2> QED BY <2>1, BlocksAre
<1>b. PICK both : both = Blocks(m, q) \o Blocks(s, j)
  OBVIOUS
<1>5. /\ both \in Seq(Seq(V)) /\ Len(both) = q + j
      /\ \A i \in 1 .. q + j : both[i] = IF i <= q THEN Blocks(m, q)[i] ELSE Blocks(s, j)[i - q]
  <2>0. PICK W : W = Seq(V)
    OBVIOUS
  <2>1. PICK u \in Seq(W), w \in Seq(W) : u = Blocks(m, q) /\ w = Blocks(s, j)
    BY <1>2, <1>3, <2>0
  <2>2. Len(u) = q /\ Len(w) = j
    BY <2>1, <1>2, <1>3
  <2>3. /\ u \o w \in Seq(W) /\ Len(u \o w) = q + j
        /\ \A i \in 1 .. q + j : (u \o w)[i] = IF i <= q THEN u[i] ELSE w[i - q]
    BY <2>2, ConcatIs
  <2> QED BY <2>0, <2>1, <2>3, <1>b, Zenon
<1>6. ASSUME NEW i \in 1 .. q + j PROVE both[i] = Blocks(m, q + j)[i]
  <2>1. CASE i <= q
    <3>1. i \in 1 .. q
      BY <2>1
    <3> QED BY <2>1, <3>1, <1>2, <1>4, <1>5
  <2>2. CASE ~(i <= q)
    <3> DEFINE r == i - q
    <3>1. r \in 1 .. j /\ r \in Nat /\ r - 1 \in Nat /\ i = q + r
      BY <2>2
    <3>2. PICK x \in Nat, y \in Nat : x = (r - 1) * BlockLen /\ y = r * BlockLen
      BY <3>1, <1>3
    <3>3. Blocks(s, j)[r] = SubSeq(s, x + 1, y) /\ x <= y /\ y <= b - qb
      BY <3>1, <3>2, <1>1, <1>3, BlockLenIs
    <3>4. both[i] = Blocks(s, j)[r]
      BY <2>2, <1>5
    <3>5. SubSeq(s, x + 1, y) = SubSeq(m, qb + x + 1, qb + y)
      BY <3>3, <1>0, <1>s, Cut
    <3>6. qb + x = (i - 1) * BlockLen /\ qb + y = i * BlockLen
      BY <3>1, <3>2, <1>p, BlockLenIs
    <3>7. SubSeq(m, qb + x + 1, qb + y) = Blocks(m, q + j)[i]
      BY <3>6, <1>4, Zenon
    <3> QED BY <3>3, <3>4, <3>5, <3>7, Zenon
  <2> QED BY <2>1, <2>2
<1>7. both = Blocks(m, q + j)
  BY <1>4, <1>5, <1>6, SeqEqual
<1> QED BY <1>7, <1>0, <1>b, <1>p, <1>s, Zenon

\* The context after the first n bytes of a message, however they came.
Fed(m, n) == [X    |-> Blocks(m, Whole(n)),
             last |-> SubSeq(m, Whole(n) * BlockLen + 1, n)]

\* What follows a whole number of blocks is chained on to them.
LEMMA ChainedOn ==
    ASSUME NEW V, NEW m \in Seq(V), NEW q \in Nat, NEW b \in Nat, b <= Len(m),
           q * BlockLen < b \/ (b = 0 /\ q = 0)
    PROVE  Chained(Blocks(m, q), SubSeq(m, q * BlockLen + 1, b)) = Fed(m, b)
<1>p. PICK qb \in Nat : qb = q * BlockLen
  BY BlockLenIs
<1>s. PICK s : s = SubSeq(m, qb + 1, b)
  OBVIOUS
<1>j. PICK j : j = Whole(b - qb)
  OBVIOUS
<1>0. Len(m) \in Nat /\ qb \in Nat /\ qb <= b /\ b - qb \in Nat
      /\ (qb < b \/ (b = 0 /\ q = 0 /\ qb = 0))
  BY <1>p, LenProperties, BlockLenIs
<1>1. s \in Seq(V) /\ Len(s) = b - qb
  BY <1>0, <1>s, PartIs
<1>2. BeforeLast(s) = j
  <2>1. s = <<>> <=> b - qb = 0
    BY <1>0, <1>1, EmptySeq
  <2> QED BY <2>1, <1>1, <1>j DEF BeforeLast, Whole
<1>3. /\ j \in Nat /\ j * BlockLen \in Nat
      /\ j * BlockLen <= b - qb /\ b - qb <= j * BlockLen + BlockLen
      /\ b - qb # 0 => j * BlockLen < b - qb
  BY <1>0, <1>j, WholeIs
<1>4. /\ Blocks(m, q) \o Blocks(s, j) = Blocks(m, q + j)
      /\ (q + j) * BlockLen = qb + j * BlockLen
  <2>1. /\ Blocks(m, q) \o Blocks(SubSeq(m, q * BlockLen + 1, b), j) = Blocks(m, q + j)
        /\ (q + j) * BlockLen = q * BlockLen + j * BlockLen
    <3>1. q * BlockLen <= b /\ j * BlockLen <= b - q * BlockLen
      BY <1>0, <1>3, <1>p
    <3> QED BY <3>1, <1>3, BlocksOn
  <2> QED BY <2>1, <1>p, <1>s, Zenon
<1>5. Whole(b) = q + j
  <2>1. CASE b = 0
    BY <2>1, <1>0, <1>j DEF Whole
  <2>2. CASE b # 0
    <3> DEFINE f == q + j
    <3>1. f \in Nat /\ f * BlockLen < b /\ b <= f * BlockLen + BlockLen
      BY <2>2, <1>0, <1>3, <1>4, BlockLenIs
    <3> HIDE DEF f
    <3>2. Whole(b) = f
      BY <3>1, WholeOnly
    <3> QED BY <3>2 DEF f
  <2> QED BY <2>1, <2>2
<1>6. From(s, j * BlockLen + 1) = SubSeq(m, (q + j) * BlockLen + 1, b)
  <2>0. PICK jb \in Nat, n \in Nat : jb = j * BlockLen /\ n = b - qb
    BY <1>0, <1>3
  <2>1. jb <= n /\ n <= b - qb
    BY <2>0, <1>3
  <2>2. SubSeq(s, jb + 1, n) = SubSeq(m, qb + jb + 1, qb + n)
    BY <2>1, <1>0, <1>s, Cut
  <2>3. qb + n = b
    BY <2>0, <1>0
  <2> QED BY <2>0, <2>2, <2>3, <1>1, <1>4 DEF From
<1>7. Chained(Blocks(m, q), s) = [X    |-> Blocks(m, q) \o Blocks(s, j),
                                  last |-> From(s, j * BlockLen + 1)]
  BY <1>2 DEF Chained
<1> QED BY <1>4, <1>5, <1>6, <1>7, <1>p, <1>s DEF Fed

\* One block more.
LEMMA BlocksNext ==
    ASSUME NEW V, NEW m \in Seq(V), NEW f \in Nat, NEW fb \in Nat, fb = f * BlockLen,
           fb + BlockLen <= Len(m)
    PROVE  /\ Append(Blocks(m, f), SubSeq(m, fb + 1, fb + BlockLen)) = Blocks(m, f + 1)
           /\ (f + 1) * BlockLen = fb + BlockLen
<1>0. Len(m) \in Nat
  BY LenProperties
<1>1. (f + 1) * BlockLen = fb + BlockLen /\ f + 1 \in Nat
      /\ (f + 1) * BlockLen <= Len(m) /\ f * BlockLen <= Len(m)
  BY <1>0, BlockLenIs
<1>2. PICK W : W = Seq(V)
  OBVIOUS
<1>3. PICK u : u = Blocks(m, f)
  OBVIOUS
<1>4. PICK w : w = Blocks(m, f + 1)
  OBVIOUS
<1>5. PICK e : e = SubSeq(m, fb + 1, fb + BlockLen)
  OBVIOUS
<1>6. e \in W
  <2>1. fb + BlockLen \in Nat /\ fb <= fb + BlockLen
    BY BlockLenIs
  <2>2. SubSeq(m, fb + 1, fb + BlockLen) \in Seq(V)
    BY <2>1, PartIs
  <2> QED BY <2>2, <1>2, <1>5
<1>7. /\ u \in Seq(W) /\ Len(u) = f
      /\ \A i \in 1 .. f : u[i] = SubSeq(m, (i - 1) * BlockLen + 1, i * BlockLen)
  BY <1>1, <1>2, <1>3, BlocksAre
<1>8. /\ w \in Seq(W) /\ Len(w) = f + 1
      /\ \A i \in 1 .. f + 1 : w[i] = SubSeq(m, (i - 1) * BlockLen + 1, i * BlockLen)
  BY <1>1, <1>2, <1>4, BlocksAre
<1>9. w[f + 1] = e
  <2>1. f + 1 \in 1 .. f + 1 /\ (f + 1) - 1 = f
    OBVIOUS
  <2>2. w[f + 1] = SubSeq(m, ((f + 1) - 1) * BlockLen + 1, (f + 1) * BlockLen)
    BY <2>1, <1>8
  <2> QED BY <2>1, <2>2, <1>1, <1>5
<1>10. Append(u, e) \in Seq(W) /\ Len(Append(u, e)) = f + 1
       /\ \A i \in 1 .. f + 1 : Append(u, e)[i] = w[i]
  <2>1. ASSUME NEW i \in 1 .. f + 1 PROVE Append(u, e)[i] = w[i]
    <3>1. CASE i = f + 1
      BY <3>1, <1>6, <1>7, <1>9
    <3>2. CASE i # f + 1
      <4>1. i \in 1 .. f
        BY <3>2
      <4>2. Append(u, e)[i] = u[i]
        BY <4>1, <1>6, <1>7
      <4>3. u[i] = SubSeq(m, (i - 1) * BlockLen + 1, i * BlockLen)
        BY <4>1, <1>7
      <4>4. w[i] = SubSeq(m, (i - 1) * BlockLen + 1, i * BlockLen)
        BY <1>8
      <4> QED BY <4>2, <4>3, <4>4, Zenon
    <3> QED BY <3>1, <3>2
  <2> QED BY <2>1, <1>6, <1>7
<1>11. Append(u, e) = w
  BY <1>8, <1>10, SeqEqual
<1> QED BY <1>1, <1>3, <1>4, <1>5, <1>11, Zenon

\* The two ways out of AES_CMAC_Update when bytes are held back.
LEMMA UpdateStays ==
    ASSUME NEW X, NEW last, NEW d, last # <<>>,
           Len(d) = IF BlockLen - Len(last) < Len(d) THEN BlockLen - Len(last) ELSE Len(d)
    PROVE  CmacUpdate([X |-> X, last |-> last], d)
               = [X |-> X, last |-> last \o SubSeq(d, 1, Len(d))]
  BY DEF CmacUpdate

LEMMA UpdateChains ==
    ASSUME NEW X, NEW last, NEW d, last # <<>>,
           NEW room, room = BlockLen - Len(last),
           NEW mlen, mlen = IF room < Len(d) THEN room ELSE Len(d),
           Len(d) # mlen, ~(Len(last \o SubSeq(d, 1, mlen)) < BlockLen)
    PROVE  CmacUpdate([X |-> X, last |-> last], d)
               = Chained(Append(X, last \o SubSeq(d, 1, mlen)), From(d, mlen + 1))
  BY DEF CmacUpdate

\* The context after a piece more is that of the longer beginning of the message.
LEMMA UpdateOn ==
    ASSUME NEW V, NEW m \in Seq(V), NEW a \in Nat, NEW b \in Nat, a < b, b <= Len(m)
    PROVE  CmacUpdate(Fed(m, a), SubSeq(m, a + 1, b)) = Fed(m, b)
<1>0. Len(m) \in Nat /\ BlockLen \in Nat /\ BlockLen >= 1
  BY LenProperties, BlockLenIs
<1>f. PICK f \in Nat : f = Whole(a)
  BY WholeIs
<1>b. PICK fb \in Nat : fb = f * BlockLen
  BY <1>0
<1>1. fb <= a /\ a <= fb + BlockLen /\ (a # 0 => fb < a) /\ (a = 0 => f = 0 /\ fb = 0)
  <2>1. f * BlockLen <= a /\ a <= f * BlockLen + BlockLen
        /\ (a # 0 => f * BlockLen < a)
    BY <1>f, WholeIs
  <2>2. a = 0 => f = 0
    BY <1>f DEF Whole
  <2> QED BY <1>0, <1>b, <2>1, <2>2
<1>d. PICK d : d = SubSeq(m, a + 1, b)
  OBVIOUS
<1>l. PICK last : last = SubSeq(m, fb + 1, a)
  OBVIOUS
<1>2. d \in Seq(V) /\ Len(d) = b - a /\ last \in Seq(V) /\ Len(last) = a - fb
  BY <1>0, <1>1, <1>d, <1>l, PartIs
<1>3. Fed(m, a) = [X |-> Blocks(m, f), last |-> last]
  BY <1>f, <1>b, <1>l DEF Fed
<1>4. CASE a = 0
  <2>1. last = <<>>
    BY <1>4, <1>1, <1>2, EmptySeq
  <2>2. CmacUpdate(Fed(m, a), d) = Chained(Blocks(m, f), d)
    BY <2>1, <1>3 DEF CmacUpdate
  <2>3. f * BlockLen < b /\ f * BlockLen + 1 = a + 1
    BY <1>4, <1>1, <1>b
  <2>4. Chained(Blocks(m, f), SubSeq(m, f * BlockLen + 1, b)) = Fed(m, b)
    BY <2>3, ChainedOn
  <2> QED BY <2>2, <2>3, <2>4, <1>d
<1>5. CASE a # 0
  <2>r. PICK room \in Nat : room = BlockLen - (a - fb)
    BY <1>0, <1>1
  <2>1. last # <<>> /\ BlockLen - Len(last) = room
    BY <2>r, <1>5, <1>1, <1>2, EmptySeq
  <2>2. CASE b - a <= room
    <3>1. last \o SubSeq(d, 1, b - a) = SubSeq(m, fb + 1, b)
      <4>1. SubSeq(d, 1, b - a) = d
        BY <1>2, SubSeqFull
      <4>2. fb + 1 \in 1 .. Len(m) + 1 /\ a \in (fb + 1) - 1 .. Len(m) /\ b \in a .. Len(m)
        BY <1>0, <1>1
      <4>3. SubSeq(m, fb + 1, a) \o SubSeq(m, a + 1, b) = SubSeq(m, fb + 1, b)
        BY <4>2, ConcatAdjacentSubSeq
      <4> QED BY <4>1, <4>3, <1>d, <1>l
    <3>2. Whole(b) = f
      <4>1. f * BlockLen < b /\ b <= f * BlockLen + BlockLen
        BY <2>2, <2>r, <1>5, <1>0, <1>1, <1>b
      <4> QED BY <4>1, WholeOnly
    <3>3. (IF room < Len(d) THEN room ELSE Len(d)) = b - a /\ Len(d) = b - a
      BY <2>2, <1>2
    <3>4. CmacUpdate(Fed(m, a), d) = [X |-> Blocks(m, f), last |-> SubSeq(m, fb + 1, b)]
      <4>1. PICK X : X = Blocks(m, f)
        OBVIOUS
      <4>2. Len(d) = IF BlockLen - Len(last) < Len(d) THEN BlockLen - Len(last) ELSE Len(d)
        BY <2>1, <3>3
      <4>3. CmacUpdate([X |-> X, last |-> last], d)
                = [X |-> X, last |-> last \o SubSeq(d, 1, Len(d))]
        BY <4>2, <2>1, UpdateStays
      <4> QED BY <4>1, <4>3, <3>1, <3>3, <1>3
    <3> QED BY <3>2, <3>4, <1>b, <1>d DEF Fed
  <2>3. CASE room < b - a
    <3>0. a + room = fb + BlockLen /\ fb + BlockLen < b /\ fb + BlockLen <= Len(m)
          /\ fb + BlockLen \in Nat
      BY <2>3, <2>r, <1>0, <1>1
    <3>1. SubSeq(d, 1, room) = SubSeq(m, a + 1, a + room)
      <4>1. SubSeq(d, 0 + 1, room) = SubSeq(m, a + 0 + 1, a + room)
        BY <2>3, <2>r, <1>0, <1>d, Cut
      <4> QED BY <4>1
    <3>2. last \o SubSeq(d, 1, room) = SubSeq(m, fb + 1, fb + BlockLen)
      <4>1. fb + 1 \in 1 .. Len(m) + 1 /\ a \in (fb + 1) - 1 .. Len(m)
            /\ fb + BlockLen \in a .. Len(m)
        BY <1>0, <1>1, <3>0
      <4>2. SubSeq(m, fb + 1, a) \o SubSeq(m, a + 1, fb + BlockLen)
                = SubSeq(m, fb + 1, fb + BlockLen)
        BY <4>1, ConcatAdjacentSubSeq
      <4> QED BY <4>2, <3>0, <3>1, <1>l
    <3>3. Len(SubSeq(m, fb + 1, fb + BlockLen)) = BlockLen
      BY <3>0, <1>0, PartIs
    <3>4. From(d, room + 1) = SubSeq(m, fb + BlockLen + 1, b)
      <4>0. PICK n \in Nat : n = b - a
        OBVIOUS
      <4>1. SubSeq(d, room + 1, n) = SubSeq(m, a + room + 1, a + n)
        BY <4>0, <2>3, <1>0, <1>d, Cut
      <4>2. a + n = b
        BY <4>0
      <4> QED BY <4>0, <4>1, <4>2, <3>0, <1>2 DEF From
    <3>5. (IF room < Len(d) THEN room ELSE Len(d)) = room /\ Len(d) # room
      <4>1. PICK n \in Nat : n = b - a /\ Len(d) = n
        BY <2>3, <2>r, <1>2
      <4>2. room < n
        BY <2>3, <4>1
      <4> QED BY <4>1, <4>2
    <3>6. Append(Blocks(m, f), SubSeq(m, fb + 1, fb + BlockLen)) = Blocks(m, f + 1)
          /\ (f + 1) * BlockLen = fb + BlockLen
      <4>1. fb = f * BlockLen /\ fb + BlockLen <= Len(m)
        BY <3>0, <1>b
      <4> QED BY <4>1, BlocksNext
    <3>7. CmacUpdate(Fed(m, a), d)
              = Chained(Blocks(m, f + 1), SubSeq(m, (f + 1) * BlockLen + 1, b))
      <4>1. ~(Len(SubSeq(m, fb + 1, fb + BlockLen)) < BlockLen)
        BY <3>3, <1>0
      <4>2. PICK X : X = Blocks(m, f)
        OBVIOUS
      <4>3. room = IF room < Len(d) THEN room ELSE Len(d)
        BY <3>5
      <4>4. ~(Len(last \o SubSeq(d, 1, room)) < BlockLen)
        BY <4>1, <3>2
      <4>5. CmacUpdate([X |-> X, last |-> last], d)
                = Chained(Append(X, last \o SubSeq(d, 1, room)), From(d, room + 1))
        BY <4>3, <4>4, <3>5, <2>1, UpdateChains
      <4> QED BY <4>2, <4>5, <3>2, <3>4, <3>6, <1>3
    <3>8. f + 1 \in Nat /\ (f + 1) * BlockLen < b
      BY <3>0, <3>6
    <3> QED BY <3>7, <3>8, <1>d, ChainedOn
  <2> QED BY <2>2, <2>3, <2>r
<1> QED BY <1>4, <1>5

\* What AES_CMAC_Final makes of the whole message is its digest.
LEMMA FinalIs ==
    ASSUME NEW V, NEW m \in Seq(V)
    PROVE  CmacFinal(Fed(m, Len(m))) = Reference(m)
<1>0. Len(m) \in Nat /\ BlockLen \in Nat /\ BlockLen >= 1
  BY LenProperties, BlockLenIs
<1>f. PICK f \in Nat : f = Whole(Len(m))
  BY <1>0, WholeIs
<1>b. PICK fb \in Nat : fb = f * BlockLen
  BY <1>0
<1>1. fb <= Len(m) /\ Len(m) <= fb + BlockLen /\ (Len(m) # 0 => fb < Len(m))
  BY <1>0, <1>f, <1>b, WholeIs
<1>2. Len(SubSeq(m, fb + 1, Len(m))) = Len(m) - fb
  BY <1>0, <1>1, PartIs
<1>3. (Len(m) - fb = BlockLen) <=> (m # <<>> /\ Len(m) % BlockLen = 0)
  <2>1. CASE Len(m) = 0
    BY <2>1, <1>0, <1>1, EmptySeq
  <2>2. CASE Len(m) # 0
    <3>0. m # <<>>
      BY <2>2, EmptySeq
    <3>1. Len(m) \div BlockLen \in Nat /\ (Len(m) \div BlockLen) * BlockLen <= Len(m)
          /\ Len(m) < (Len(m) \div BlockLen) * BlockLen + BlockLen
          /\ Len(m) % BlockLen = Len(m) - (Len(m) \div BlockLen) * BlockLen
      BY <1>0, Division
    <3>2. PICK q \in Nat : q = Len(m) \div BlockLen
      BY <3>1
    <3>3. PICK qb \in Nat : qb = q * BlockLen
      BY <1>0
    <3>4. qb <= Len(m) /\ Len(m) < qb + BlockLen /\ Len(m) % BlockLen = Len(m) - qb
      BY <3>1, <3>2, <3>3
    <3>5. ASSUME Len(m) - fb = BlockLen PROVE Len(m) % BlockLen = 0
      <4>0. (f + 1) * BlockLen = f * BlockLen + BlockLen
        BY <1>0
      <4>1. Len(m) = fb + BlockLen /\ (f + 1) * BlockLen = fb + BlockLen
        BY <4>0, <3>5, <1>0, <1>b
      <4>2. CASE q < f + 1
        <5>1. q * BlockLen + BlockLen <= (f + 1) * BlockLen
          BY <4>2, <1>0, Multiples
        <5> QED BY <5>1, <4>1, <3>3, <3>4, <1>0
      <4>3. CASE q > f + 1
        <5>1. (f + 1) * BlockLen + BlockLen <= q * BlockLen
          BY <4>3, <1>0, Multiples
        <5> QED BY <5>1, <4>1, <3>3, <3>4, <1>0
      <4>4. CASE q = f + 1
        BY <4>1, <4>4, <3>3, <3>4, <1>0
      <4> QED BY <4>2, <4>3, <4>4
    <3>6. ASSUME Len(m) % BlockLen = 0 PROVE Len(m) - fb = BlockLen
      <4>1. Len(m) = qb
        BY <3>4, <3>6, <1>0
      <4>2. CASE q = 0
        BY <4>1, <4>2, <3>3, <2>2, <1>0
      <4>3. CASE q # 0
        <5>1. q - 1 \in Nat /\ (q - 1) * BlockLen = qb - BlockLen
          BY <4>3, <3>3, <1>0
        <5>2. (q - 1) * BlockLen < Len(m) /\ Len(m) <= (q - 1) * BlockLen + BlockLen
          BY <5>1, <4>1, <1>0
        <5>3. Whole(Len(m)) = q - 1
          BY <5>1, <5>2, <1>0, WholeOnly
        <5> QED BY <5>1, <5>3, <4>1, <1>0, <1>f, <1>b
      <4> QED BY <4>2, <4>3
    <3> QED BY <3>0, <3>5, <3>6
  <2> QED BY <2>1, <2>2
<1>4. (IF m = <<>> THEN 1 ELSE (Len(m) + BlockLen - 1) \div BlockLen) - 1 = f
  <2>1. CASE m = <<>>
    BY <2>1, <1>f, EmptySeq DEF Whole
  <2>2. CASE m # <<>>
    <3>0. Len(m) # 0
      BY <2>2, EmptySeq
    <3>1. PICK n \in Nat : n = Len(m) + BlockLen - 1
      <4>1. Len(m) + BlockLen - 1 \in Nat
        BY <1>0
      <4> QED BY <4>1
    <3>2. n \div BlockLen \in Nat /\ (n \div BlockLen) * BlockLen <= n
          /\ n < (n \div BlockLen) * BlockLen + BlockLen
      BY <1>0, Division
    <3>3. PICK q \in Nat : q = n \div BlockLen
      BY <3>2
    <3>4. PICK qb \in Nat : qb = q * BlockLen
      BY <1>0
    <3>5. qb <= n /\ n < qb + BlockLen
      BY <3>2, <3>3, <3>4
    <3>6. q # 0
      BY <3>0, <3>1, <3>4, <3>5, <1>0
    <3>7. q - 1 \in Nat /\ (q - 1) * BlockLen = qb - BlockLen
      BY <3>6, <3>4, <1>0
    <3>8. (q - 1) * BlockLen < Len(m) /\ Len(m) <= (q - 1) * BlockLen + BlockLen
      BY <3>1, <3>5, <3>7, <1>0
    <3>9. Whole(Len(m)) = q - 1
      BY <3>7, <3>8, <1>0, WholeOnly
    <3> QED BY <3>1, <3>3, <3>9, <2>2, <1>f
  <2> QED BY <2>1, <2>2
<1>5. PICK n : n = IF m = <<>> THEN 1 ELSE (Len(m) + BlockLen - 1) \div BlockLen
  OBVIOUS
<1>6. Reference(m) = <<Blocks(m, n - 1), From(m, (n - 1) * BlockLen + 1),
                       IF m # <<>> /\ Len(m) % BlockLen = 0 THEN "K1" ELSE "K2">>
  BY <1>5 DEF Reference
<1>7. n - 1 = f
  BY <1>4, <1>5
<1>8. CmacFinal(Fed(m, Len(m)))
          = <<Blocks(m, f), SubSeq(m, fb + 1, Len(m)),
              IF Len(SubSeq(m, fb + 1, Len(m))) = BlockLen THEN "K1" ELSE "K2">>
  BY <1>f, <1>b DEF CmacFinal, Fed
<1> QED BY <1>2, <1>3, <1>6, <1>7, <1>8, <1>b DEF From

\* Before the first byte the context is as AES_CMAC_Init leaves it.
LEMMA NothingYet == ASSUME NEW V, NEW m \in Seq(V) PROVE Fed(m, 0) = CmacInit
<1>0. Len(m) \in Nat /\ Whole(0) = 0 /\ 0 * BlockLen = 0
  BY LenProperties, BlockLenIs DEF Whole
<1>1. SubSeq(m, 0 * BlockLen + 1, 0) = <<>>
  BY <1>0, SubSeqEmpty
<1>2. Blocks(m, 0) = <<>>
  <2>1. PICK W : W = Seq(V)
    OBVIOUS
  <2>2. 0 * BlockLen <= Len(m)
    BY <1>0
  <2>3. Blocks(m, 0) \in Seq(W) /\ Len(Blocks(m, 0)) = 0
    BY <2>1, <2>2, BlocksAre
  <2> QED BY <2>3, EmptySeq
<1> QED BY <1>0, <1>1, <1>2 DEF Fed, CmacInit

\* However a message is cut into pieces, none of them empty, AES_CMAC_Update called with
\* one after the other and then AES_CMAC_Final give its digest, that of RFC 4493.
THEOREM DigestInPieces ==
    ASSUME NEW V, NEW m \in Seq(V), NEW N \in Nat, NEW cut, NEW pieces,
           \A i \in 0 .. N : cut[i] \in Nat /\ cut[i] <= Len(m),
           cut[0] = 0, cut[N] = Len(m), \A i \in 1 .. N : cut[i - 1] < cut[i],
           Len(pieces) = N,
           \A i \in 1 .. N : pieces[i] = SubSeq(m, cut[i - 1] + 1, cut[i])
    PROVE  ByPackets(pieces) = Reference(m)
<1> DEFINE E(g) == [i \in 0 .. N |-> IF i = 0 THEN CmacInit
                                     ELSE CmacUpdate(g[i - 1], pieces[i])]
           fed  == [i \in 0 .. N |-> Fed(m, cut[i])]
           ctx  == CHOOSE g : g = E(g)
<1>1. fed = E(fed)
  <2>1. ASSUME NEW i \in 0 .. N PROVE fed[i] = E(fed)[i]
    <3>1. CASE i = 0
      <4>1. fed[i] = Fed(m, 0)
        BY <3>1
      <4>2. E(fed)[i] = CmacInit
        BY <3>1
      <4> QED BY <4>1, <4>2, NothingYet
    <3>2. CASE i # 0
      <4>1. i \in 1 .. N /\ i - 1 \in 0 .. N
        BY <3>2
      <4>2. PICK a \in Nat, b \in Nat : a = cut[i - 1] /\ b = cut[i]
        BY <4>1
      <4>3. a < b /\ b <= Len(m)
        BY <4>1, <4>2
      <4>4. CmacUpdate(Fed(m, a), SubSeq(m, a + 1, b)) = Fed(m, b)
        BY <4>3, UpdateOn
      <4>5. E(fed)[i] = CmacUpdate(fed[i - 1], pieces[i])
        BY <3>2
      <4>6. fed[i - 1] = Fed(m, a) /\ fed[i] = Fed(m, b)
        BY <4>1, <4>2
      <4>7. pieces[i] = SubSeq(m, a + 1, b)
        BY <4>1, <4>2
      <4> QED BY <4>4, <4>5, <4>6, <4>7, Zenon
    <3> QED BY <3>1, <3>2
  <2> HIDE DEF fed
  <2>2. fed = [i \in 0 .. N |-> fed[i]]
    BY DEF fed
  <2>3. E(fed) = [i \in 0 .. N |-> E(fed)[i]]
    OBVIOUS
  <2> HIDE DEF E
  <2> QED BY <2>1, <2>2, <2>3
<1>2. ctx = E(ctx)
  <2> HIDE DEF E, fed
  <2>1. \E g : g = E(g)
    BY <1>1
  <2> QED BY <2>1, Zenon
<1>3. ByPackets(pieces) = CmacFinal(ctx[N])
  <2>1. ByPackets(pieces) = CmacFinal((CHOOSE g : g = [i \in 0 .. Len(pieces) |->
                                IF i = 0 THEN CmacInit
                                ELSE CmacUpdate(g[i - 1], pieces[i])])[Len(pieces)])
    BY Zenon DEF ByPackets
  <2> QED BY <2>1, Zenon
<1> HIDE DEF ctx
<1>4. /\ ctx[0] = CmacInit
      /\ \A i \in 1 .. N : ctx[i] = CmacUpdate(ctx[i - 1], pieces[i])
  <2>1. \A i \in 0 .. N : ctx[i] = E(ctx)[i]
    <3> HIDE DEF E
    <3> QED BY <1>2
  <2>2. \A i \in 0 .. N : E(ctx)[i] = IF i = 0 THEN CmacInit
                                      ELSE CmacUpdate(ctx[i - 1], pieces[i])
    OBVIOUS
  <2> HIDE DEF E
  <2>3. 0 \in 0 .. N /\ \A i \in 1 .. N : i \in 0 .. N /\ i # 0
    OBVIOUS
  <2>4. ctx[0] = CmacInit
    BY <2>1, <2>2, <2>3
  <2>5. ASSUME NEW i \in 1 .. N PROVE ctx[i] = CmacUpdate(ctx[i - 1], pieces[i])
    BY <2>1, <2>2, <2>3
  <2> QED BY <2>4, <2>5
<1>5. /\ fed[0] = CmacInit
      /\ \A i \in 1 .. N : fed[i] = CmacUpdate(fed[i - 1], pieces[i])
  <2>1. \A i \in 0 .. N : fed[i] = E(fed)[i]
    <3> HIDE DEF E, fed
    <3> QED BY <1>1
  <2>2. \A i \in 0 .. N : E(fed)[i] = IF i = 0 THEN CmacInit
                                      ELSE CmacUpdate(fed[i - 1], pieces[i])
    <3> HIDE DEF fed
    <3> QED OBVIOUS
  <2> HIDE DEF E, fed
  <2>3. 0 \in 0 .. N /\ \A i \in 1 .. N : i \in 0 .. N /\ i # 0
    OBVIOUS
  <2>4. fed[0] = CmacInit
    BY <2>1, <2>2, <2>3
  <2>5. ASSUME NEW i \in 1 .. N PROVE fed[i] = CmacUpdate(fed[i - 1], pieces[i])
    BY <2>1, <2>2, <2>3
  <2> QED BY <2>4, <2>5
<1>6. fed[N] = Fed(m, Len(m))
  OBVIOUS
<1> HIDE DEF fed, E
<1> DEFINE Agreed == {i \in Nat : ctx[i] = fed[i]}
<1>7. 0 \in Agreed
  BY <1>4, <1>5
<1>8. \A n \in Nat : n < N /\ n \in Agreed => n + 1 \in Agreed
  <2> SUFFICES ASSUME NEW n \in Nat, n < N, n \in Agreed PROVE n + 1 \in Agreed
    OBVIOUS
  <2>1. n + 1 \in 1 .. N /\ (n + 1) - 1 = n
    OBVIOUS
  <2> QED BY <2>1, <1>4, <1>5
<1>9. N \in Agreed
  <2> HIDE DEF Agreed
  <2>1. \A n \in 0 .. N : n \in Agreed
    BY <1>7, <1>8, InductionUpTo
  <2> QED BY <2>1
<1> QED BY <1>3, <1>6, <1>9, FinalIs

\* Read back by whole pages and a rest, on_end's way, a message gives its digest.
LEMMA PagesAre ==
    ASSUME NEW V, NEW m \in Seq(V), NEW PageLen \in Nat, PageLen >= 1
    PROVE  ByPages(m, PageLen) = Reference(m)
<1>0. Len(m) \in Nat
  BY LenProperties
<1>n. PICK num \in Nat : num = Len(m) \div PageLen /\ num * PageLen <= Len(m)
  BY <1>0, Division
<1>p. PICK np \in Nat : np = num * PageLen
  OBVIOUS
<1> DEFINE pages  == [i \in 1 .. num |-> SubSeq(m, (i - 1) * PageLen + 1, i * PageLen)]
           remain == From(m, np + 1)
           pieces == IF remain = <<>> THEN pages ELSE Append(pages, remain)
           N      == IF remain = <<>> THEN num ELSE num + 1
           cut    == [i \in 0 .. N |-> IF i <= num THEN i * PageLen ELSE Len(m)]
<1>1. ByPages(m, PageLen) = ByPackets(pieces)
  BY <1>n, <1>p DEF ByPages
<1>2. np <= Len(m) /\ Len(remain) = Len(m) - np /\ remain \in Seq(V)
  BY <1>0, <1>n, <1>p, PartIs DEF From
<1>3. remain = <<>> <=> np = Len(m)
  BY <1>0, <1>2, EmptySeq
<1>4. ASSUME NEW i \in 1 .. num
      PROVE  /\ (i - 1) * PageLen \in Nat /\ i * PageLen \in Nat
             /\ (i - 1) * PageLen < i * PageLen /\ i * PageLen <= np
  <2>1. i \in Nat /\ i - 1 \in Nat /\ i - 1 < i
    OBVIOUS
  <2>2. (i - 1) * PageLen + PageLen <= i * PageLen /\ (i - 1) * PageLen \in Nat
        /\ i * PageLen \in Nat
    BY <2>1, Multiples
  <2>3. CASE i = num
    BY <2>2, <2>3, <1>p
  <2>4. CASE i < num
    <3>1. i * PageLen + PageLen <= num * PageLen
      BY <2>1, <2>4, Multiples
    <3> QED BY <3>1, <2>2, <1>p
  <2> QED BY <2>2, <2>3, <2>4
<1>5. N \in Nat /\ num <= N /\ N <= num + 1
  OBVIOUS
<1>6. cut[0] = 0 /\ cut[N] = Len(m) /\ \A i \in 0 .. N : cut[i] \in Nat /\ cut[i] <= Len(m)
  <2>1. cut[0] = 0
    BY <1>5
  <2>2. cut[N] = Len(m)
    <3>1. CASE remain = <<>>
      BY <3>1, <1>3, <1>5, <1>p
    <3>2. CASE remain # <<>>
      BY <3>2, <1>5
    <3> QED BY <3>1, <3>2
  <2>3. ASSUME NEW i \in 0 .. N PROVE cut[i] \in Nat /\ cut[i] <= Len(m)
    <3>1. CASE i = 0
      BY <3>1, <2>1, <1>0
    <3>2. CASE i \in 1 .. num
      <4>1. cut[i] = i * PageLen
        BY <3>2
      <4>2. i * PageLen \in Nat /\ i * PageLen <= np
        BY <3>2, <1>4
      <4> QED BY <4>1, <4>2, <1>0, <1>2
    <3>3. CASE i > num
      BY <3>3, <1>0
    <3> QED BY <3>1, <3>2, <3>3
  <2> QED BY <2>1, <2>2, <2>3
<1>7. ASSUME NEW i \in 1 .. N PROVE cut[i - 1] < cut[i] /\ pieces[i] = SubSeq(m, cut[i - 1] + 1, cut[i])
  <2>1. CASE i <= num
    <3>1. i \in 1 .. num /\ i \in 0 .. N /\ i - 1 \in 0 .. N /\ i - 1 <= num
      BY <2>1
    <3>2. cut[i] = i * PageLen /\ cut[i - 1] = (i - 1) * PageLen
      BY <3>1
    <3>3. pieces[i] = pages[i]
      <4>1. Len(pages) = num
        OBVIOUS
      <4> HIDE DEF pages, remain
      <4> QED BY <4>1, <3>1
    <3>4. pages[i] = SubSeq(m, (i - 1) * PageLen + 1, i * PageLen)
      BY <3>1
    <3>5. (i - 1) * PageLen < i * PageLen
      BY <3>1, <1>4
    <3> HIDE DEF pieces, cut, N, pages
    <3>6. cut[i - 1] < cut[i]
      BY <3>2, <3>5
    <3> QED BY <3>2, <3>3, <3>4, <3>6, Zenon
  <2>2. CASE i > num
    <3>1. i = num + 1 /\ remain # <<>> /\ N = num + 1 /\ i - 1 = num
      BY <2>2, <1>5
    <3>2. cut[i] = Len(m) /\ cut[i - 1] = np
      BY <3>1, <1>p
    <3>3. pieces[i] = remain
      <4>1. Len(pages) = num
        OBVIOUS
      <4> HIDE DEF pages, remain
      <4> QED BY <4>1, <3>1
    <3>4. np < Len(m)
      BY <3>1, <1>0, <1>2, <1>3
    <3>5. remain = SubSeq(m, np + 1, Len(m))
      BY DEF From
    <3> HIDE DEF pieces, cut, remain, N
    <3> QED BY <3>2, <3>3, <3>4, <3>5
  <2> HIDE DEF pieces, cut
  <2> QED BY <2>1, <2>2, <1>5
<1>8. Len(pieces) = N
  <2>1. Len(pages) = num
    OBVIOUS
  <2> HIDE DEF pages, remain
  <2> QED BY <2>1
<1> HIDE DEF pieces, cut, N
<1> QED BY <1>1, <1>5, <1>6, <1>7, <1>8, DigestInPieces

\* Where the x-th byte of the packet after the i-th lies.
LEMMA ByteOf ==
    ASSUME NEW i \in Nat, NEW x \in 1 .. PacketLen
    PROVE  /\ i * PacketLen \in Nat
           /\ (i * PacketLen + x - 1) \div PacketLen = i
           /\ (i * PacketLen + x - 1) % PacketLen = x - 1
<1>0. PacketLen \in Nat /\ PacketLen >= 1
  BY LenAssumption
<1>p. PICK ip \in Nat : ip = i * PacketLen
  BY <1>0
<1>c. PICK c \in Nat : c = ip + x - 1
  <2>1. ip + x - 1 \in Nat
    OBVIOUS
  <2> QED BY <2>1
<1>1. /\ c \div PacketLen \in Nat /\ (c \div PacketLen) * PacketLen <= c
      /\ c < (c \div PacketLen) * PacketLen + PacketLen
      /\ c % PacketLen = c - (c \div PacketLen) * PacketLen
  BY <1>0, Division
<1>2. PICK q \in Nat : q = c \div PacketLen
  BY <1>1
<1>3. q = i
  <2>1. c + 1 \in Nat /\ q * PacketLen < c + 1 /\ c + 1 <= q * PacketLen + PacketLen
    BY <1>0, <1>1, <1>2
  <2>2. i * PacketLen < c + 1 /\ c + 1 <= i * PacketLen + PacketLen
    BY <1>0, <1>p, <1>c
  <2> QED BY <2>1, <2>2, <1>0, OneQuotient
<1>4. c % PacketLen = x - 1
  BY <1>1, <1>2, <1>3, <1>p, <1>c
<1> QED BY <1>2, <1>3, <1>4, <1>p, <1>c

\* The bytes behind the blocks: each packet brings those of its block.
LEMMA BytesAre ==
    ASSUME NEW S, NEW run \in Seq(S), NEW n \in 1 .. PacketLen
    PROVE  /\ Bytes(run, n) \in Seq(S \X Nat)
           /\ Len(Bytes(run, n)) = IF run = <<>> THEN 0 ELSE (Len(run) - 1) * PacketLen + n
           /\ \A i \in 1 .. Len(run), x \in 1 .. PacketLen :
                 (i < Len(run) \/ x <= n) =>
                    /\ (i - 1) * PacketLen + x \in 1 .. Len(Bytes(run, n))
                    /\ Bytes(run, n)[(i - 1) * PacketLen + x] = <<run[i], x>>
<1>0. PacketLen \in Nat /\ PacketLen >= 1 /\ Len(run) \in Nat /\ n \in Nat /\ 1 <= n /\ n <= PacketLen
  BY LenAssumption, LenProperties
<1>1. PICK total \in Nat : total = IF run = <<>> THEN 0 ELSE (Len(run) - 1) * PacketLen + n
  <2>1. CASE run = <<>>
    BY <2>1
  <2>2. CASE run # <<>>
    <3>1. Len(run) - 1 \in Nat
      BY <2>2, EmptySeq
    <3>2. (Len(run) - 1) * PacketLen + n \in Nat
      BY <3>1, <1>0
    <3> QED BY <3>2, <2>2
  <2> QED BY <2>1, <2>2
<1> DEFINE B(j) == <<run[((j - 1) \div PacketLen) + 1], ((j - 1) % PacketLen) + 1>>
<1>2. Bytes(run, n) = [j \in 1 .. total |-> B(j)]
  BY <1>1 DEF Bytes
<1>3. ASSUME NEW j \in 1 .. total PROVE B(j) \in S \X Nat
  <2>1. run # <<>> /\ total = (Len(run) - 1) * PacketLen + n /\ Len(run) - 1 \in Nat
    BY <1>1, EmptySeq
  <2>2. PICK c \in Nat : c = j - 1
    OBVIOUS
  <2>3. /\ c \div PacketLen \in Nat /\ (c \div PacketLen) * PacketLen <= c
        /\ c % PacketLen = c - (c \div PacketLen) * PacketLen
    BY <1>0, Division
  <2>4. PICK q \in Nat : q = c \div PacketLen
    BY <2>3
  <2>5. q * PacketLen \in Nat /\ (Len(run) - 1) * PacketLen \in Nat
    BY <1>0, <2>1
  <2>6. q < Len(run)
    <3>1. CASE Len(run) - 1 < q
      <4>1. (Len(run) - 1) * PacketLen + PacketLen <= q * PacketLen
        BY <3>1, <2>1, <1>0, Multiples
      <4> QED BY <4>1, <2>1, <2>2, <2>3, <2>4, <2>5, <1>0
    <3> QED BY <3>1, <1>0
  <2>7. (c % PacketLen) + 1 \in Nat
    BY <2>3, <2>4, <2>5
  <2>8. run[q + 1] \in S
    BY <2>6, <1>0, ElementOfSeq
  <2> QED BY <2>2, <2>4, <2>7, <2>8
<1>4. Bytes(run, n) \in Seq(S \X Nat) /\ Len(Bytes(run, n)) = total
  <2> HIDE DEF B
  <2> QED BY <1>2, <1>3
<1>5. ASSUME NEW i \in 1 .. Len(run), NEW x \in 1 .. PacketLen, i < Len(run) \/ x <= n
      PROVE  /\ (i - 1) * PacketLen + x \in 1 .. total
             /\ Bytes(run, n)[(i - 1) * PacketLen + x] = <<run[i], x>>
  <2>1. run # <<>> /\ total = (Len(run) - 1) * PacketLen + n /\ Len(run) - 1 \in Nat
    BY <1>0, <1>1, EmptySeq
  <2>2. PICK h \in Nat : h = i - 1
    OBVIOUS
  <2>3. /\ h * PacketLen \in Nat
        /\ (h * PacketLen + x - 1) \div PacketLen = h
        /\ (h * PacketLen + x - 1) % PacketLen = x - 1
    BY <2>2, ByteOf
  <2>4. (Len(run) - 1) * PacketLen \in Nat
    BY <2>1, <1>0
  <2>5. h * PacketLen + x <= total
    <3>1. CASE i = Len(run)
      <4>1. h = Len(run) - 1 /\ x <= n
        BY <3>1, <2>2, <1>5, <1>0
      <4> QED BY <4>1, <2>1, <2>4, <1>0
    <3>2. CASE i < Len(run)
      <4>1. h < Len(run) - 1
        BY <3>2, <2>2, <1>0
      <4>2. h * PacketLen + PacketLen <= (Len(run) - 1) * PacketLen
        BY <4>1, <2>1, <1>0, Multiples
      <4> QED BY <4>2, <2>1, <2>3, <2>4, <1>0
    <3> QED BY <3>1, <3>2, <1>0
  <2>6. PICK j \in 1 .. total : j = h * PacketLen + x
    BY <2>3, <2>5, <1>0
  <2>7. Bytes(run, n)[j] = B(j)
    <3> HIDE DEF B
    <3> QED BY <1>2
  <2>8. ((j - 1) \div PacketLen) + 1 = i /\ ((j - 1) % PacketLen) + 1 = x
    <3>1. j - 1 = h * PacketLen + x - 1
      BY <2>3, <2>6
    <3>2. (j - 1) \div PacketLen = h /\ (j - 1) % PacketLen = x - 1
      BY <3>1, <2>3, Zenon
    <3> QED BY <3>2, <2>2
  <2>9. B(j) = <<run[i], x>>
    BY <2>8, Zenon
  <2> QED BY <2>2, <2>6, <2>7, <2>9
<1> QED BY <1>1, <1>4, <1>5

\* Fed packet by packet, on_data's way, a file gives the digest of its bytes.
LEMMA PacketsAre ==
    ASSUME NEW S, NEW run \in Seq(S), NEW n \in 1 .. PacketLen
    PROVE  ByPackets(PayloadRun(run, n)) = Reference(Bytes(run, n))
<1>m. PICK m : m = Bytes(run, n)
  OBVIOUS
<1>v. PICK V : V = S \X Nat
  OBVIOUS
<1>N. PICK N \in Nat : N = Len(run) /\ DOMAIN run = 1 .. N
  BY LenProperties
<1>0. PacketLen \in Nat /\ PacketLen >= 1 /\ n \in Nat /\ 1 <= n /\ n <= PacketLen
  BY LenAssumption
<1>1. /\ m \in Seq(V) /\ Len(m) \in Nat
      /\ N = 0 => Len(m) = 0
      /\ N # 0 => Len(m) = (N - 1) * PacketLen + n
      /\ \A i \in 1 .. N, x \in 1 .. PacketLen :
            (i < N \/ x <= n) => m[(i - 1) * PacketLen + x] = <<run[i], x>>
  <2>1. N = 0 <=> run = <<>>
    BY <1>N, EmptySeq
  <2>2. m \in Seq(V) /\ Len(m) = IF run = <<>> THEN 0 ELSE (Len(run) - 1) * PacketLen + n
    BY <1>m, <1>v, BytesAre
  <2>3. \A i \in 1 .. N, x \in 1 .. PacketLen :
            (i < N \/ x <= n) => m[(i - 1) * PacketLen + x] = <<run[i], x>>
    <3>1. \A i \in 1 .. Len(run), x \in 1 .. PacketLen :
              (i < Len(run) \/ x <= n) => Bytes(run, n)[(i - 1) * PacketLen + x] = <<run[i], x>>
      BY BytesAre
    <3> QED BY <3>1, <1>m, <1>N, Zenon
  <2> QED BY <2>1, <2>2, <2>3, <1>N, LenProperties
<1> DEFINE cut    == [i \in 0 .. N |-> IF i < N THEN i * PacketLen ELSE Len(m)]
           Size(i) == IF i = N THEN n ELSE PacketLen
           pieces == [i \in 1 .. N |-> [j \in 1 .. Size(i) |-> <<run[i], j>>]]
<1>2. PayloadRun(run, n) = pieces
  BY <1>N DEF PayloadRun
<1>3. ASSUME NEW i \in 1 .. N
      PROVE  /\ cut[i - 1] = (i - 1) * PacketLen /\ cut[i - 1] \in Nat
             /\ cut[i] = cut[i - 1] + Size(i)
             /\ Size(i) \in 1 .. PacketLen
             /\ cut[i] <= Len(m) /\ cut[i] \in Nat
  <2>1. i - 1 \in 0 .. N /\ i - 1 < N /\ i \in 0 .. N /\ N # 0 /\ i - 1 \in Nat
    OBVIOUS
  <2>2. cut[i - 1] = (i - 1) * PacketLen /\ (i - 1) * PacketLen \in Nat
    BY <2>1, <1>0
  <2>3. Size(i) \in 1 .. PacketLen
    BY <1>0
  <2>4. CASE i = N
    <3>1. cut[i] = Len(m) /\ Len(m) = (i - 1) * PacketLen + n
      BY <2>1, <2>4, <1>1
    <3>2. Size(i) = n
      BY <2>4
    <3> HIDE DEF cut, Size
    <3> QED BY <3>1, <3>2, <2>2, <2>3, <1>1
  <2>5. CASE i < N
    <3>1. cut[i] = i * PacketLen /\ Size(i) = PacketLen
      BY <2>1, <2>5
    <3>2. i * PacketLen = (i - 1) * PacketLen + PacketLen
      BY <2>1, <1>0
    <3>3. i - 1 < N - 1 /\ N - 1 \in Nat
      BY <2>5
    <3>4. (i - 1) * PacketLen + PacketLen <= (N - 1) * PacketLen /\ (N - 1) * PacketLen \in Nat
      BY <3>3, <2>1, <1>0, Multiples
    <3>5. Len(m) = (N - 1) * PacketLen + n
      BY <2>1, <1>1
    <3> HIDE DEF cut, Size
    <3> QED BY <3>1, <3>2, <3>4, <3>5, <2>2, <2>3, <1>0
  <2> QED BY <2>4, <2>5
<1>4. ASSUME NEW i \in 1 .. N PROVE pieces[i] = SubSeq(m, cut[i - 1] + 1, cut[i])
  <2> HIDE DEF cut
  <2>1. PICK a \in Nat, b \in Nat, z \in 1 .. PacketLen :
            a = cut[i - 1] /\ b = cut[i] /\ z = Size(i) /\ a = (i - 1) * PacketLen
    <3> HIDE DEF Size
    <3> QED BY <1>3
  <2>2. b = a + z /\ b <= Len(m) /\ (i < N \/ z <= n)
    <3>1. i < N \/ z <= n
      BY <2>1, <1>0
    <3> HIDE DEF Size
    <3> QED BY <3>1, <2>1, <1>3
  <2>3. /\ SubSeq(m, a + 1, b) \in Seq(V) /\ Len(SubSeq(m, a + 1, b)) = z
        /\ \A j \in 1 .. z : SubSeq(m, a + 1, b)[j] = m[a + j]
    <3>1. b - a = z /\ a <= b
      BY <2>2
    <3> QED BY <3>1, <2>2, <1>1, PartIs
  <2>4. \A j \in 1 .. z : m[a + j] = <<run[i], j>>
    <3> SUFFICES ASSUME NEW j \in 1 .. z PROVE m[a + j] = <<run[i], j>>
      OBVIOUS
    <3>1. j \in 1 .. PacketLen /\ (i < N \/ j <= n)
      BY <2>2, <1>0
    <3>2. m[(i - 1) * PacketLen + j] = <<run[i], j>>
      BY <3>1, <1>1
    <3> QED BY <3>2, <2>1
  <2>5. pieces[i] = [j \in 1 .. z |-> <<run[i], j>>]
    BY <2>1
  <2>6. SubSeq(m, a + 1, b) = [j \in 1 .. z |-> <<run[i], j>>]
    <3>1. PICK s \in Seq(V) : s = SubSeq(m, a + 1, b)
      BY <2>3
    <3>2. Len(s) = z /\ \A j \in 1 .. z : s[j] = <<run[i], j>>
      BY <3>1, <2>3, <2>4
    <3>3. s = [j \in 1 .. z |-> s[j]]
      BY <3>2, LenProperties
    <3> QED BY <3>1, <3>2, <3>3
  <2> QED BY <2>1, <2>5, <2>6, Zenon
<1>5. cut[0] = 0 /\ cut[N] = Len(m)
  <2>1. CASE N = 0
    BY <2>1, <1>1
  <2>2. CASE N # 0
    BY <2>2, <1>0
  <2> QED BY <2>1, <2>2
<1>6. \A i \in 0 .. N : cut[i] \in Nat /\ cut[i] <= Len(m)
  <2> SUFFICES ASSUME NEW i \in 0 .. N PROVE cut[i] \in Nat /\ cut[i] <= Len(m)
    OBVIOUS
  <2>1. CASE i = 0
    BY <2>1, <1>1, <1>5
  <2>2. CASE i # 0
    <3>1. i \in 1 .. N
      BY <2>2
    <3> HIDE DEF cut
    <3> QED BY <3>1, <1>3
  <2> QED BY <2>1, <2>2
<1>7. \A i \in 1 .. N : cut[i - 1] < cut[i]
  <2> HIDE DEF cut
  <2> QED BY <1>3
<1>8. Len(pieces) = N
  OBVIOUS
<1> HIDE DEF pieces, cut
<1>9. ByPackets(pieces) = Reference(m)
  <2>1. \A i \in 1 .. N : pieces[i] = SubSeq(m, cut[i - 1] + 1, cut[i])
    BY <1>4
  <2>2. PICK c, p : c = cut /\ p = pieces
    OBVIOUS
  <2>3. m \in Seq(V)
    BY <1>1
  <2>4. /\ \A i \in 0 .. N : c[i] \in Nat /\ c[i] <= Len(m)
        /\ c[0] = 0 /\ c[N] = Len(m) /\ \A i \in 1 .. N : c[i - 1] < c[i]
        /\ Len(p) = N
        /\ \A i \in 1 .. N : p[i] = SubSeq(m, c[i - 1] + 1, c[i])
    BY <2>1, <2>2, <1>5, <1>6, <1>7, <1>8, Zenon
  <2>5. ByPackets(p) = Reference(m)
    BY <2>3, <2>4, DigestInPieces
  <2> QED BY <2>2, <2>5
<1> QED BY <1>2, <1>9, <1>m

\* A byte of a message, found in its blocks.
LEMMA BlockTells ==
    ASSUME NEW V, NEW m \in Seq(V), NEW f \in Nat, f * BlockLen <= Len(m),
           NEW x \in Nat, 1 <= x, x <= f * BlockLen
    PROVE  m[x] = Blocks(m, f)[((x - 1) \div BlockLen) + 1]
                              [x - ((x - 1) \div BlockLen) * BlockLen]
<1>0. BlockLen \in Nat /\ BlockLen >= 1 /\ Len(m) \in Nat /\ f * BlockLen \in Nat
  BY BlockLenIs, LenProperties
<1>c. PICK c \in Nat : c = x - 1
  OBVIOUS
<1>1. /\ c \div BlockLen \in Nat /\ (c \div BlockLen) * BlockLen <= c
      /\ c < (c \div BlockLen) * BlockLen + BlockLen
  BY <1>0, Division
<1>q. PICK q \in Nat : q = c \div BlockLen
  BY <1>1
<1>p. PICK qb \in Nat : qb = q * BlockLen
  BY <1>0
<1>2. qb < x /\ x <= qb + BlockLen
  BY <1>0, <1>1, <1>c, <1>q, <1>p
<1>3. q < f
  <2>1. CASE q = f
    BY <2>1, <1>2, <1>p
  <2>2. CASE f < q
    <3>1. f * BlockLen + BlockLen <= q * BlockLen
      BY <2>2, <1>0, Multiples
    <3> QED BY <3>1, <1>0, <1>2, <1>p
  <2> QED BY <2>1, <2>2
<1>4. q + 1 \in 1 .. f /\ (q + 1) - 1 = q
  BY <1>3
<1>5. /\ Blocks(m, f)[q + 1] = SubSeq(m, ((q + 1) - 1) * BlockLen + 1, (q + 1) * BlockLen)
      /\ (q + 1) * BlockLen <= Len(m)
      /\ (q + 1) * BlockLen = ((q + 1) - 1) * BlockLen + BlockLen
  BY <1>4, BlocksAre
<1>6. Blocks(m, f)[q + 1] = SubSeq(m, qb + 1, qb + BlockLen) /\ qb + BlockLen <= Len(m)
  BY <1>4, <1>5, <1>p
<1>7. /\ \A i \in 1 .. (qb + BlockLen) - qb : SubSeq(m, qb + 1, qb + BlockLen)[i] = m[qb + i]
  BY <1>0, <1>6, PartIs
<1>8. x - qb \in 1 .. (qb + BlockLen) - qb /\ qb + (x - qb) = x
  BY <1>0, <1>2
<1>9. SubSeq(m, qb + 1, qb + BlockLen)[x - qb] = m[x]
  BY <1>7, <1>8
<1> QED BY <1>6, <1>9, <1>c, <1>q, <1>p

\* The digest of a message, with the cipher taken for perfect, tells it from any other.
LEMMA ReferenceTells ==
    ASSUME NEW V, NEW m \in Seq(V), NEW w \in Seq(V), Reference(m) = Reference(w)
    PROVE  m = w
<1>0. Len(m) \in Nat /\ Len(w) \in Nat /\ BlockLen \in Nat
  BY LenProperties, BlockLenIs
<1>f. PICK f \in Nat, h \in Nat : f = Whole(Len(m)) /\ h = Whole(Len(w))
  BY <1>0, WholeIs
<1>1. /\ f * BlockLen \in Nat /\ f * BlockLen <= Len(m)
      /\ h * BlockLen \in Nat /\ h * BlockLen <= Len(w)
  BY <1>0, <1>f, WholeIs
<1>2. CmacFinal(Fed(m, Len(m))) = CmacFinal(Fed(w, Len(w)))
  BY FinalIs
<1>3. /\ Blocks(m, f) = Blocks(w, h)
      /\ SubSeq(m, f * BlockLen + 1, Len(m)) = SubSeq(w, h * BlockLen + 1, Len(w))
  BY <1>2, <1>f DEF CmacFinal, Fed
<1>4. h = f
  BY <1>1, <1>3, BlocksAre
<1>b. PICK fb \in Nat : fb = f * BlockLen
  BY <1>1
<1>5. /\ Len(SubSeq(m, fb + 1, Len(m))) = Len(m) - fb
      /\ \A i \in 1 .. Len(m) - fb : SubSeq(m, fb + 1, Len(m))[i] = m[fb + i]
  <2>1. PICK n \in Nat : n = Len(m)
    BY <1>0
  <2>2. fb <= n /\ n <= Len(m)
    BY <2>1, <1>1, <1>b
  <2>3. /\ Len(SubSeq(m, fb + 1, n)) = n - fb
        /\ \A i \in 1 .. n - fb : SubSeq(m, fb + 1, n)[i] = m[fb + i]
    BY <2>2, PartIs
  <2> QED BY <2>1, <2>3, Zenon
<1>6. /\ Len(SubSeq(w, fb + 1, Len(w))) = Len(w) - fb
      /\ \A i \in 1 .. Len(w) - fb : SubSeq(w, fb + 1, Len(w))[i] = w[fb + i]
  <2>1. PICK n \in Nat : n = Len(w)
    BY <1>0
  <2>2. fb <= n /\ n <= Len(w)
    BY <2>1, <1>1, <1>4, <1>b
  <2>3. /\ Len(SubSeq(w, fb + 1, n)) = n - fb
        /\ \A i \in 1 .. n - fb : SubSeq(w, fb + 1, n)[i] = w[fb + i]
    BY <2>2, PartIs
  <2> QED BY <2>1, <2>3, Zenon
<1>7. SubSeq(m, fb + 1, Len(m)) = SubSeq(w, fb + 1, Len(w)) /\ Len(m) = Len(w)
  <2>1. SubSeq(m, fb + 1, Len(m)) = SubSeq(w, fb + 1, Len(w))
    BY <1>3, <1>4, <1>b
  <2>2. Len(m) - fb = Len(w) - fb
    BY <2>1, <1>5, <1>6
  <2> QED BY <2>1, <2>2, <1>0
<1>8. ASSUME NEW x \in 1 .. Len(m) PROVE m[x] = w[x]
  <2>1. CASE x <= fb
    <3>1. x \in Nat /\ 1 <= x /\ x <= f * BlockLen /\ f * BlockLen <= Len(w)
      BY <2>1, <1>1, <1>4, <1>b
    <3>2. m[x] = Blocks(m, f)[((x - 1) \div BlockLen) + 1]
                             [x - ((x - 1) \div BlockLen) * BlockLen]
      BY <3>1, <1>1, BlockTells
    <3>3. w[x] = Blocks(w, f)[((x - 1) \div BlockLen) + 1]
                             [x - ((x - 1) \div BlockLen) * BlockLen]
      BY <3>1, BlockTells
    <3> QED BY <3>2, <3>3, <1>3, <1>4, Zenon
  <2>2. CASE x > fb
    <3>1. PICK i \in 1 .. Len(m) - fb : fb + i = x
      <4>1. x - fb \in 1 .. Len(m) - fb /\ fb + (x - fb) = x
        BY <2>2, <1>0
      <4> QED BY <4>1
    <3>2. i \in 1 .. Len(w) - fb
      BY <1>7
    <3> QED BY <3>1, <3>2, <1>5, <1>6, <1>7
  <2> QED BY <2>1, <2>2
<1> QED BY <1>7, <1>8, SeqEqual

\* The bytes tell the blocks they come from.
LEMMA BytesTell ==
    ASSUME NEW S, NEW r \in Seq(S), NEW w \in Seq(S), NEW n \in 1 .. PacketLen,
           Bytes(r, n) = Bytes(w, n)
    PROVE  r = w
<1>0. PacketLen \in Nat /\ PacketLen >= 1 /\ n \in Nat /\ 1 <= n
      /\ Len(r) \in Nat /\ Len(w) \in Nat
  BY LenAssumption, LenProperties
<1>1. Len(Bytes(r, n)) = IF r = <<>> THEN 0 ELSE (Len(r) - 1) * PacketLen + n
  BY BytesAre
<1>2. Len(Bytes(w, n)) = IF w = <<>> THEN 0 ELSE (Len(w) - 1) * PacketLen + n
  BY BytesAre
<1>3. CASE r = <<>> \/ w = <<>>
  <2>1. \A u \in Seq(S) : u # <<>> => (Len(u) - 1) * PacketLen + n # 0
    <3> SUFFICES ASSUME NEW u \in Seq(S), u # <<>> PROVE (Len(u) - 1) * PacketLen + n # 0
      OBVIOUS
    <3>1. Len(u) - 1 \in Nat
      BY EmptySeq
    <3>2. (Len(u) - 1) * PacketLen \in Nat
      BY <3>1, <1>0
    <3> QED BY <3>2, <1>0
  <2>2. (r = <<>>) <=> (w = <<>>)
    BY <2>1, <1>1, <1>2
  <2> QED BY <2>2, <1>3
<1>4. CASE r # <<>> /\ w # <<>>
  <2>1. Len(r) - 1 \in Nat /\ Len(w) - 1 \in Nat
    BY <1>4, EmptySeq
  <2>2. (Len(r) - 1) * PacketLen + n = (Len(w) - 1) * PacketLen + n
    BY <1>1, <1>2, <1>4
  <2>3. PICK a \in Nat, b \in Nat : a = Len(r) - 1 /\ b = Len(w) - 1
    BY <2>1
  <2>4. a * PacketLen = b * PacketLen
    <3>1. a * PacketLen \in Nat /\ b * PacketLen \in Nat
      BY <1>0
    <3> QED BY <3>1, <2>2, <2>3, <1>0
  <2>5. a = b
    <3>1. CASE a < b
      <4>1. a * PacketLen + PacketLen <= b * PacketLen /\ b * PacketLen \in Nat
        BY <3>1, <1>0, Multiples
      <4> QED BY <4>1, <2>4, <1>0
    <3>2. CASE b < a
      <4>1. b * PacketLen + PacketLen <= a * PacketLen /\ a * PacketLen \in Nat
        BY <3>2, <1>0, Multiples
      <4> QED BY <4>1, <2>4, <1>0
    <3> QED BY <3>1, <3>2
  <2>6. Len(r) = Len(w)
    BY <2>3, <2>5, <1>0
  <2>7. ASSUME NEW i \in 1 .. Len(r) PROVE r[i] = w[i]
    <3>1. 1 \in 1 .. PacketLen /\ 1 <= n /\ i \in 1 .. Len(w)
      BY <1>0, <2>6
    <3>2. \A u \in Seq(S) : \A j \in 1 .. Len(u), x \in 1 .. PacketLen :
              (j < Len(u) \/ x <= n) => Bytes(u, n)[(j - 1) * PacketLen + x] = <<u[j], x>>
      BY BytesAre
    <3>3. Bytes(r, n)[(i - 1) * PacketLen + 1] = <<r[i], 1>>
      BY <3>1, <3>2, Zenon
    <3>4. Bytes(w, n)[(i - 1) * PacketLen + 1] = <<w[i], 1>>
      BY <3>1, <3>2, Zenon
    <3> QED BY <3>3, <3>4
  <2> QED BY <2>6, <2>7, SeqEqual
<1> QED BY <1>3, <1>4

\* The verdict is given on the digests that the verdict in Bootload stands for.
LEMMA VerdictOfDigests == TypeOK /\ VerdictStands => VerdictIsDigest
<1> SUFFICES ASSUME TypeOK, VerdictStands, result # "none",
                    NEW n \in 1 .. PacketLen, NEW page \in PageLens
             PROVE  /\ ByPackets(PayloadRun(mic, n)) = Reference(Bytes(mic, n))
                    /\ ByPages(Bytes(flash, n), page) = Reference(Bytes(flash, n))
                    /\ result = "ok" <=> ByPackets(PayloadRun(mic, n))
                                            = ByPages(Bytes(flash, n), page)
  BY DEF VerdictIsDigest
<1> DEFINE S == Payloads \cup {"worn"}
<1>1. flash \in Seq(S) /\ mic \in Seq(S)
  <2>1. mic \in Seq(Payloads) /\ flash \in Seq(S)
    BY DEF TypeOK
  <2>2. Payloads \subseteq S
    OBVIOUS
  <2> HIDE DEF S
  <2> QED BY <2>1, <2>2
<1> HIDE DEF S
<1>2. page \in Nat /\ page >= 1
  BY LenAssumption
<1>3. Bytes(mic, n) \in Seq(S \X Nat) /\ Bytes(flash, n) \in Seq(S \X Nat)
  BY <1>1, BytesAre
<1>4. ByPackets(PayloadRun(mic, n)) = Reference(Bytes(mic, n))
  BY <1>1, PacketsAre
<1>5. ByPages(Bytes(flash, n), page) = Reference(Bytes(flash, n))
  BY <1>2, <1>3, PagesAre
<1>6. flash = mic <=> Reference(Bytes(mic, n)) = Reference(Bytes(flash, n))
  <2>1. ASSUME Reference(Bytes(mic, n)) = Reference(Bytes(flash, n)) PROVE flash = mic
    <3>1. Bytes(mic, n) = Bytes(flash, n)
      BY <2>1, <1>3, ReferenceTells
    <3> QED BY <3>1, <1>1, BytesTell
  <2> QED BY <2>1
<1>7. result = "ok" <=> flash = mic
  BY DEF VerdictStands
<1> QED BY <1>4, <1>5, <1>6, <1>7, Zenon

----------------------------------------------------------------------------
\* The invariant holds throughout.
THEOREM UpgradeInvariance == Spec => []IInv
  BY InvariantInit, InvariantStep, PTL DEF Spec

\* The application is never started in the middle of a transfer, however the
\* line and the sender behave.
THEOREM NeverCutOff == Spec => []NotCutOff
<1>1. IInv => NotCutOff
  BY DEF IInv
<1>. QED
  BY UpgradeInvariance, <1>1, PTL

\* What end_callback(TRUE) vouched for stays so: no block, erasure or second
\* verdict comes after it.
THEOREM VerdictHolds == Spec => []VerdictStands
<1>1. IInv => VerdictStands
  BY DEF IInv
<1>. QED
  BY UpgradeInvariance, <1>1, PTL

\* The semaphore is never counted down below zero.
THEOREM SemaphoreSound == Spec => []NoUnderflow
<1>1. IInv => NoUnderflow
  BY DEF IInv
<1>. QED
  BY UpgradeInvariance, <1>1, PTL

\* Everything is of its type whatever the line does, and the semaphore counts no more
\* releases than runs were sent and split.
THEOREM UpgradeTypeCorrect == Spec => []TypeOK
  BY TypedInit, TypedStep, TypedIsTypeOK, PTL DEF Spec

\* The two digests that on_end compares, one fed as packets came, one read back by pages,
\* are the digests of what came and of what is stored, whatever the lengths of blocks,
\* packets and pages, so that the verdict is on the bytes themselves.
THEOREM VerdictOnBytes == Spec => []VerdictIsDigest
  BY UpgradeTypeCorrect, VerdictHolds, VerdictOfDigests, PTL

\* On a plain line sender and receiver stay in order.
THEOREM PlainInvariance == PlainLine /\ Spec => []Orderly
  BY OrderlyInit, OrderlyStep, PTL DEF Spec

\* On a plain line an acknowledged block came in whole and was programmed in its place:
\* k - 1 of them when the sender is at block k, all and no more when it sends EOT.
THEOREM AcknowledgedIsProgrammed == PlainLine /\ Spec => []AckedIsProgrammed
<1>1. Init => Typed /\ Burnt
  BY TypedInit, EmptySeq DEF Init, BootInit, Burnt
<1>2. Typed /\ Burnt /\ [Next]_vars => Typed' /\ Burnt'
  BY TypedStep, BurntStep
<1>3. Spec => []Burnt
  BY <1>1, <1>2, PTL DEF Spec
<1>. QED
  BY <1>3, PlainInvariance, OrderlyIsProgrammed, PTL

\* On a plain line end_callback(TRUE) means that bank 2 holds the file that was sent,
\* whatever was lost, spoilt, sent again or begun again on the way.
THEOREM VerifiedIsFile == PlainLine /\ Spec => []VerifiedImageIsFile
  BY PlainInvariance, UpgradeInvariance, VerdictOfFile, PTL

\* On a plain line the upgrade implements Transfer: the blocks are programmed in order and
\* each once after an erasure, the one verdict is given on a whole image and is about the
\* file, and the application is not started in between.
THEOREM UpgradeIsTransfer == PlainLine /\ Spec => TransferSpec
  BY PlainInvariance, UpgradeInvariance, TransferInit, TransferStep, PTL
     DEF Spec, TransferSpec, T!Spec
============================================================================
