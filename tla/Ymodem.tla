------------------------------- MODULE Ymodem -------------------------------
(***************************************************************************)
(* The YMODEM receiver of User/lib/bootload/ymodem.c.  The receive         *)
(* interrupt appends what arrives to rym_sqqueue and releases msg_sem; the *)
(* main loop calls rym_process, which resumes one of three flows according *)
(* to `stage`, and asks rym_timeout whether to jump to the application.    *)
(*                                                                         *)
(* Bytes are grouped into units.  A packet is its start byte and the n     *)
(* units of its body (number, complement, payload, CRC): SohBody of them   *)
(* for a 128-byte packet, StxBody for a 1K one.  The queue holds one 1K    *)
(* packet, as _RYM_PKG_SZ does.  A CRC agrees exactly when the units read  *)
(* are the unspoilt body of one packet.                                    *)
(*                                                                         *)
(* The queue is the FIFO that SqQueue implements.  A run of the main loop  *)
(* is cut where an interrupt matters: in the semaphore macros, and between *)
(* the start byte and the length test for the body.  Elsewhere a run that  *)
(* arrives in the middle of a step has the effect it has before or after.  *)
(***************************************************************************)
EXTENDS Flow, Bootload

CONSTANTS SohBody, StxBody,   \* units of a body (128 and 1024 bytes)
          TimeoutLimit,       \* the 5 of `tran_timeout++ >= 5`
          tm_sec,             \* BOOTLOAD_TIMEOUT
          BodyCodes           \* what a body unit read as a start byte may be

ASSUME FlowAssumption    == Flow = {"hs", "trans", "fin"}
ASSUME BodyAssumption    == /\ SohBody \in Nat \ {0}
                            /\ StxBody \in Nat /\ SohBody < StxBody
ASSUME TimeoutAssumption == TimeoutLimit \in Nat /\ tm_sec \in Nat \ {0}
ASSUME CodesAssumption   == BodyCodes \subseteq {"SOH", "STX", "EOT", "JUNK"}

VARIABLES stage,
          rym_tm_sec,       \* seconds of handshake left; -1 for any below 0
          rym_sqqueue,      \* the units received and not yet read
          start,            \* the start byte just read
          trans_timeout, finish_timeout,  \* the two static tran_timeout
          tx,               \* codes transmitted and not yet seen by the sender
          jumped            \* the application has been started

rymvars == <<stage, rym_tm_sec, rym_sqqueue, start,
             trans_timeout, finish_timeout, tx, jumped>>

Stages == {"NONE", "ESTABLISHING", "ESTABLISHED", "TRANSMITTING", "FINISHING",
           "FINISHED"}
Codes  == {"C", "ACK", "NAK", "CAN"}

RymInit == /\ stage = "NONE" /\ rym_tm_sec = 0
           /\ rym_sqqueue = <<>> /\ start = "NONE"
           /\ trans_timeout = 0 /\ finish_timeout = 0
           /\ tx = <<>> /\ jumped = FALSE

Capacity == 1 + StxBody       \* _RYM_PKG_SZ

----------------------------------------------------------------------------
\* A packet p is [seq, data, size, n, ok]: its number, payload, the file size
\* a header announces, the units of its body, and whether it is unspoilt.
Unit(code, p, i) == [c |-> code, p |-> p, i |-> i]
Body(p) == [i \in 1..p.n |-> Unit("BODY", p, i)]
PacketRun(p) == <<Unit(IF p.n = SohBody THEN "SOH" ELSE "STX", p, 0)>> \o Body(p)

\* rym_sqqueue_read: n units if they are there, otherwise nothing, but then
\* the queue has been drained all the same.
Enough(n)  == Len(rym_sqqueue) >= n
Taken(n)   == SubSeq(rym_sqqueue, 1, n)
RymRead(n) == rym_sqqueue' = IF Enough(n)
                             THEN SubSeq(rym_sqqueue, n + 1, Len(rym_sqqueue))
                             ELSE <<>>

\* What the number, complement and CRC checks let pass.
Intact(n) == /\ Enough(n)
             /\ Taken(n)[1].c = "BODY" /\ Taken(n)[1].p.ok
             /\ Taken(n) = Body(Taken(n)[1].p)
Packet    == rym_sqqueue[1].p

Transmit(codes) == tx' = tx \o codes

\* rym_process_params_init.
ParamsInit(st) ==
    /\ stage' = st
    /\ rym_tm_sec' = tm_sec
    /\ IF st = "ESTABLISHING" THEN rym_sqqueue' = <<>> ELSE UNCHANGED rym_sqqueue

----------------------------------------------------------------------------
\* slip: the run is entered without asking for room
RymReceiveBlind(run) ==
    /\ rym_sqqueue' = rym_sqqueue \o run
    /\ SemRelease
    /\ UNCHANGED <<line, age, mpc, reg, stage, rym_tm_sec, start,
                   trans_timeout, finish_timeout, tx, jumped, bootvars>>

\* rym_receive in the interrupt: all of the run or, unnoticed, none of it; the
\* semaphore is released either way.
RymReceive(run) ==
    /\ rym_sqqueue' = IF Len(rym_sqqueue) + Len(run) <= Capacity
                      THEN rym_sqqueue \o run ELSE rym_sqqueue
    /\ SemRelease
    /\ UNCHANGED <<line, age, mpc, reg, stage, rym_tm_sec, start,
                   trans_timeout, finish_timeout, tx, jumped, bootvars>>

----------------------------------------------------------------------------
\* rym_process calls the flow of the stage.
Current(f) == \/ f = "hs"    /\ stage = "ESTABLISHING"
              \/ f = "trans" /\ stage = "TRANSMITTING"
              \/ f = "fin"   /\ stage = "FINISHING"

At(f, l) == Current(f) /\ line[f] = l

\* A flow's first call runs to its first wait, and so does the call that finds
\* a second's delay over.
ToWait(f) ==
    /\ \/ At(f, "start") /\ mpc = "call"
       \/ At(f, "delay") /\ Elapsed(f, Sec)
    /\ Suspend(f, "wait")
    /\ UNCHANGED <<rymvars, bootvars>>

Acquire(f) == /\ At(f, "wait") \/ At(f, "wait2")
              /\ SemAcquire(f)
              /\ UNCHANGED <<rymvars, bootvars>>

Store == SemStore /\ UNCHANGED <<rymvars, bootvars>>

\* A release and something to read: the start byte.  A flow that counts
\* timeouts starts its count again.
ReadStart(f) ==
    /\ At(f, "wait") \/ At(f, "wait2")
    /\ mpc = "test" /\ SemIsRelease(f)
    /\ trans_timeout'  = IF At("trans", "wait") THEN 0 ELSE trans_timeout
    /\ finish_timeout' = IF At("fin", "wait") THEN 0 ELSE finish_timeout
    /\ \/ /\ rym_sqqueue = <<>>
          /\ Suspend(f, "wait")
          /\ UNCHANGED <<rym_sqqueue, start>>
       \/ /\ rym_sqqueue # <<>>
          /\ LET u == Head(rym_sqqueue)
             IN  start' \in IF u.c = "BODY" THEN BodyCodes ELSE {u.c}
          /\ rym_sqqueue' = Tail(rym_sqqueue)
          /\ mpc' = "run"
          /\ UNCHANGED <<line, age, count, reg>>
    /\ UNCHANGED <<stage, rym_tm_sec, tx, jumped, bootvars>>

\* Back to waiting, the start byte dealt with.
Again(f) == Suspend(f, "wait") /\ start' = "NONE"

----------------------------------------------------------------------------
\* rym_do_handshake_process.  It reads the body of a 1K packet, whichever start
\* byte it has seen.
HandshakeRun == At("hs", "wait") /\ mpc = "run"
IsHeader     == /\ start \in {"SOH", "STX"}
                /\ Intact(StxBody) /\ Packet.seq = 0

HandshakeTimeout ==
    /\ At("hs", "wait") /\ mpc = "test" /\ ~SemIsRelease("hs")
    /\ Transmit(<<"C">>)
    /\ rym_tm_sec' = IF rym_tm_sec >= 0 THEN rym_tm_sec - 1 ELSE rym_tm_sec
    /\ Suspend("hs", "wait")
    /\ UNCHANGED <<stage, rym_sqqueue, start, trans_timeout, finish_timeout,
                   jumped, bootvars>>

HandshakeIgnore ==
    /\ HandshakeRun /\ ~IsHeader
    /\ IF start \in {"SOH", "STX"} THEN RymRead(StxBody)
                                   ELSE UNCHANGED rym_sqqueue
    /\ Again("hs")
    /\ UNCHANGED <<stage, rym_tm_sec, trans_timeout, finish_timeout, tx, jumped,
                   bootvars>>

HandshakeRefuse ==
    /\ HandshakeRun /\ IsHeader /\ Refuses(Packet.size)
    /\ RymRead(StxBody)
    /\ Transmit(<<"CAN", "CAN", "CAN">>)
    /\ Again("hs")
    /\ UNCHANGED <<stage, rym_tm_sec, trans_timeout, finish_timeout, jumped,
                   bootvars>>

HandshakeBegin ==
    /\ HandshakeRun /\ IsHeader /\ ~Refuses(Packet.size)
    /\ RymRead(StxBody)
    /\ OnBegin
    /\ Transmit(<<"ACK">>)
    /\ Suspend("hs", "ack") /\ start' = "NONE"
    /\ UNCHANGED <<stage, rym_tm_sec, trans_timeout, finish_timeout, jumped>>

\* Half a second after the ACK.
HandshakeC ==
    /\ At("hs", "ack") /\ Elapsed("hs", Half)
    /\ Transmit(<<"C">>)
    /\ ParamsInit("TRANSMITTING")
    /\ Suspend("hs", "delay")
    /\ UNCHANGED <<start, trans_timeout, finish_timeout, jumped, bootvars>>

----------------------------------------------------------------------------
\* slip: the timeout of the transfer counts the handshake time down as well
TransTimeoutCounts ==
    /\ At("trans", "wait") /\ mpc = "test" /\ ~SemIsRelease("trans")
    /\ rym_tm_sec' = IF rym_tm_sec >= 0 THEN rym_tm_sec - 1 ELSE rym_tm_sec
    /\ Suspend("trans", "wait")
    /\ UNCHANGED <<stage, rym_sqqueue, start, trans_timeout, finish_timeout, tx,
                   jumped, bootvars>>

\* The timeout branch of rym_do_trans_process and rym_do_finish_process:
\* after more than TimeoutLimit of them in a row the handshake starts again.
\* The semaphore keeps the releases of what is cleared.
TransTimeout ==
    /\ At("trans", "wait") /\ mpc = "test" /\ ~SemIsRelease("trans")
    /\ \/ /\ trans_timeout >= TimeoutLimit
          /\ trans_timeout' = 0
          /\ ParamsInit("ESTABLISHING")
          /\ Suspend("trans", "delay")
       \/ /\ trans_timeout < TimeoutLimit
          /\ trans_timeout' = trans_timeout + 1
          /\ Suspend("trans", "wait")
          /\ UNCHANGED <<stage, rym_tm_sec, rym_sqqueue>>
    /\ UNCHANGED <<start, finish_timeout, tx, jumped, bootvars>>

FinishTimeout ==
    /\ At("fin", "wait") /\ mpc = "test" /\ ~SemIsRelease("fin")
    /\ \/ /\ finish_timeout >= TimeoutLimit
          /\ finish_timeout' = 0
          /\ ParamsInit("ESTABLISHING")
          /\ Suspend("fin", "delay")
       \/ /\ finish_timeout < TimeoutLimit
          /\ finish_timeout' = finish_timeout + 1
          /\ Suspend("fin", "wait")
          /\ UNCHANGED <<stage, rym_tm_sec, rym_sqqueue>>
    /\ UNCHANGED <<start, trans_timeout, tx, jumped, bootvars>>

----------------------------------------------------------------------------
\* rym_do_trans_process, behind the start byte.
TransRun == At("trans", "wait") /\ mpc = "run"
DataSize == IF start = "SOH" THEN SohBody ELSE StxBody

\* slip: a spoilt packet is answered like a good one
TransBadAcks ==
    /\ TransRun /\ start \in {"SOH", "STX"} /\ ~Intact(DataSize)
    /\ RymRead(DataSize)
    /\ Transmit(<<"ACK">>)
    /\ Again("trans")
    /\ UNCHANGED <<stage, rym_tm_sec, trans_timeout, finish_timeout, jumped,
                   bootvars>>

\* rym_tran_data fails: too short, so the queue is drained, or spoilt.  Nothing
\* is transmitted.
TransBad ==
    /\ TransRun /\ start \in {"SOH", "STX"} /\ ~Intact(DataSize)
    /\ RymRead(DataSize)
    /\ Again("trans")
    /\ UNCHANGED <<stage, rym_tm_sec, trans_timeout, finish_timeout, tx, jumped,
                   bootvars>>

\* Any packet that is intact is data: its number is not compared with anything,
\* and the stage that would tell a header apart is never entered.
TransData ==
    /\ TransRun /\ start \in {"SOH", "STX"} /\ Intact(DataSize)
    /\ RymRead(DataSize)
    /\ OnData(Packet.data)
    /\ Transmit(IF stage = "ESTABLISHED" /\ Packet.seq = 0 THEN <<>>
                                                           ELSE <<"ACK">>)
    /\ Again("trans")
    /\ UNCHANGED <<stage, rym_tm_sec, trans_timeout, finish_timeout, jumped>>

TransEot ==
    /\ TransRun /\ start = "EOT"
    /\ Transmit(<<"NAK">>)
    /\ ParamsInit("FINISHING")
    /\ Suspend("trans", "delay") /\ start' = "NONE"
    /\ UNCHANGED <<trans_timeout, finish_timeout, jumped, bootvars>>

TransOther ==
    /\ TransRun /\ start = "JUNK"
    /\ ParamsInit("ESTABLISHING")
    /\ Suspend("trans", "delay") /\ start' = "NONE"
    /\ UNCHANGED <<trans_timeout, finish_timeout, tx, jumped, bootvars>>

----------------------------------------------------------------------------
\* rym_do_finish_process, behind the start byte: the second EOT ...
FinishEot ==
    /\ At("fin", "wait") /\ mpc = "run" /\ start = "EOT"
    /\ Transmit(<<"ACK">>)
    /\ Suspend("fin", "ack") /\ start' = "NONE"
    /\ UNCHANGED <<stage, rym_tm_sec, rym_sqqueue, trans_timeout, finish_timeout,
                   jumped, bootvars>>

FinishOther ==
    /\ At("fin", "wait") /\ mpc = "run" /\ start # "EOT"
    /\ Again("fin")
    /\ UNCHANGED <<stage, rym_tm_sec, rym_sqqueue, trans_timeout, finish_timeout,
                   tx, jumped, bootvars>>

FinishC ==
    /\ At("fin", "ack") /\ Elapsed("fin", Half)
    /\ Transmit(<<"C">>)
    /\ Suspend("fin", "wait2")
    /\ UNCHANGED <<stage, rym_tm_sec, rym_sqqueue, start, trans_timeout,
                   finish_timeout, jumped, bootvars>>

\* ... and the closing packet, waited for once.
FinishNoNull ==
    /\ At("fin", "wait2") /\ mpc = "test" /\ ~SemIsRelease("fin")
    /\ Suspend("fin", "wait")
    /\ UNCHANGED <<rymvars, bootvars>>

IsNull == start = "SOH" /\ Intact(SohBody) /\ Packet.seq = 0

FinishNotNull ==
    /\ At("fin", "wait2") /\ mpc = "run" /\ ~IsNull
    /\ IF start = "SOH" THEN RymRead(SohBody) ELSE UNCHANGED rym_sqqueue
    /\ Again("fin")
    /\ UNCHANGED <<stage, rym_tm_sec, trans_timeout, finish_timeout, tx, jumped,
                   bootvars>>

FinishNull ==
    /\ At("fin", "wait2") /\ mpc = "run" /\ IsNull
    /\ RymRead(SohBody)
    /\ stage' = "FINISHED"
    /\ Transmit(<<"ACK">>)
    /\ OnEnd
    /\ Again("fin")
    /\ UNCHANGED <<rym_tm_sec, trans_timeout, finish_timeout, jumped>>

----------------------------------------------------------------------------
\* rym_process in the stages that have no flow.
ProcessNone ==
    /\ stage = "NONE" /\ mpc = "call"
    /\ ParamsInit("ESTABLISHING")
    /\ UNCHANGED <<flowvars, start, trans_timeout, finish_timeout, tx, jumped,
                   bootvars>>

ProcessFinished ==
    /\ stage = "FINISHED" /\ mpc = "call"
    /\ rym_tm_sec' = 0
    /\ UNCHANGED <<flowvars, stage, rym_sqqueue, start, trans_timeout,
                   finish_timeout, tx, jumped, bootvars>>

RymProcess ==
    \/ ProcessNone \/ ProcessFinished \/ Store
    \/ \E f \in Flow : ToWait(f) \/ Acquire(f) \/ ReadStart(f)
    \/ HandshakeTimeout \/ HandshakeIgnore \/ HandshakeRefuse
    \/ HandshakeBegin \/ HandshakeC
    \/ TransTimeout \/ TransBad \/ TransData \/ TransEot \/ TransOther
    \/ FinishTimeout \/ FinishEot \/ FinishOther \/ FinishC
    \/ FinishNoNull \/ FinishNotNull \/ FinishNull

\* The application's loop calls bootload_inspection, then bootload_timeout,
\* and jumps if that says so.  It gets to ask only when rym_process returns: a
\* flow that may go on does so, even with the time already at zero.
Asked == \/ stage = "FINISHED"
         \/ \E f \in Flow : Current(f) /\ Blocked(f)

Jump == /\ Asked /\ rym_tm_sec = 0
        /\ jumped' = TRUE
        /\ UNCHANGED <<flowvars, stage, rym_tm_sec, rym_sqqueue, start,
                       trans_timeout, finish_timeout, tx, bootvars>>
============================================================================
