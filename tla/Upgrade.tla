------------------------------ MODULE Upgrade ------------------------------
(***************************************************************************)
(* A firmware upgrade: the receiver of Ymodem, the tick interrupt, a line  *)
(* that may lose or spoil what it carries, and a YMODEM sender on the      *)
(* other end.  Sender and line are not part of the repository: the sender  *)
(* sends one thing at a time and repeats it on NAK and on timeout.         *)
(***************************************************************************)
EXTENDS Ymodem, Cmac, FiniteSets

CONSTANTS File,         \* the blocks sent
          FileSizes,    \* the sizes a sender may announce
          HeaderBody,   \* units of the header packet's body
          ShortBlocks,  \* the indices of the blocks sent as 128-byte packets
          Faults,       \* what may go wrong on the line
          ResendOnC,    \* a sender that takes a C for a NAK
          PacketLen,    \* bytes in a packet's payload
          PageLens,     \* LL_FLASH_PAGE_SIZE of the part, in bytes
          MaxFaults, MaxSends, MaxRestarts, MaxTx    \* bounds

ASSUME FileAssumption   == File \in Seq(STRING) \ {<<>>} /\ FileSizes \subseteq Nat
ASSUME BlockAssumption  == /\ HeaderBody \in {SohBody, StxBody}
                           /\ ShortBlocks \subseteq 1..Len(File)
ASSUME FaultAssumption  == /\ Faults \subseteq {"loss", "crc", "start", "split",
                                                "reply"}
                           /\ ResendOnC \in BOOLEAN
ASSUME LenAssumption    == PacketLen \in Nat \ {0} /\ PageLens \subseteq Nat \ {0}
ASSUME BoundsAssumption == /\ MaxFaults \in Nat /\ MaxSends \in Nat
                           /\ MaxRestarts \in Nat /\ MaxTx \in Nat \ {0}
\* Fewer ticks to a second would leave no tick between a suspension and the
\* last tick of the second.
ASSUME TickAssumption   == Sec >= 2

VARIABLES ss,       \* what the sender waits for, or has come to
          k,        \* the block it is sending
          wire,     \* the runs on their way, oldest first
          announced, \* the size in its header packet
          sends, faults, restarts

sendervars == <<ss, k, wire, announced, sends, faults, restarts>>
vars == <<flowvars, bootvars, rymvars, sendervars>>

SenderStates == {"waitC", "header", "waitC1", "data", "eot", "waitC2", "null",
                 "done", "cancelled", "gaveup"}

Init == /\ FlowInit /\ BootInit /\ RymInit
        /\ ss = "waitC" /\ k = 1 /\ wire = <<>>
        /\ announced \in FileSizes
        /\ sends = 0 /\ faults = 0 /\ restarts = 0

----------------------------------------------------------------------------
\* Blocks are numbered from 1; files stay below the 256 blocks at which the
\* number wraps.
NoPacket == [seq |-> 0, data |-> "none", size |-> 0, n |-> 0, ok |-> TRUE]
Header   == [seq |-> 0, data |-> "header", size |-> announced,
             n |-> HeaderBody, ok |-> TRUE]
Block(i) == [seq |-> i, data |-> File[i], size |-> 0,
             n |-> IF i \in ShortBlocks THEN SohBody ELSE StxBody, ok |-> TRUE]
Null     == [seq |-> 0, data |-> "null", size |-> 0, n |-> SohBody, ok |-> TRUE]

\* The run for what the sender is at when it comes to state s with block i.
RunOf(s, i) == CASE s = "header" -> PacketRun(Header)
                 [] s = "data"   -> PacketRun(Block(i))
                 [] s = "eot"    -> <<Unit("EOT", NoPacket, 0)>>
                 [] s = "null"   -> PacketRun(Null)

Sending == {"header", "data", "eot", "null"}

Send(s, i) == /\ sends < MaxSends
              /\ ss' = s /\ k' = i
              /\ wire' = Append(wire, RunOf(s, i))
              /\ sends' = sends + 1

\* What a code makes the sender do: the state and block it sends next.
Answer(code) ==
    CASE code = "C" /\ ss = "waitC"                -> <<"header", 1>>
      [] code = "C" /\ ss = "header" /\ ResendOnC  -> <<"header", 1>>
      [] code = "C" /\ ss = "waitC1"               -> <<"data", 1>>
      [] code = "C" /\ ss = "waitC2"               -> <<"null", k>>
      [] code = "NAK" /\ ss \in Sending            -> <<ss, k>>
      [] code = "ACK" /\ ss = "header"             -> <<"waitC1", 1>>
      [] code = "ACK" /\ ss = "data" /\ k < Len(File) -> <<"data", k + 1>>
      [] code = "ACK" /\ ss = "data" /\ k = Len(File) -> <<"eot", k>>
      [] code = "ACK" /\ ss = "eot"                -> <<"waitC2", k>>
      [] code = "ACK" /\ ss = "null"               -> <<"done", k>>
      [] code = "CAN"                              -> <<"cancelled", k>>
      [] OTHER                                     -> <<"ignore", k>>

\* The sender sees the next code.
See == /\ ~jumped /\ tx # <<>>
       /\ tx' = Tail(tx)
       /\ LET a == Answer(Head(tx))
          IN  \/ a[1] \in Sending /\ Send(a[1], a[2])
              \/ /\ a[1] \in Sending /\ sends = MaxSends
                 /\ ss' = "gaveup" /\ UNCHANGED <<k, wire, sends>>
              \/ /\ a[1] \notin Sending /\ a[1] # "ignore"
                 /\ ss' = a[1] /\ k' = a[2] /\ UNCHANGED <<wire, sends>>
              \/ a[1] = "ignore" /\ UNCHANGED <<ss, k, wire, sends>>
       /\ UNCHANGED <<flowvars, bootvars, stage, rym_tm_sec, rym_sqqueue, start,
                      trans_timeout, finish_timeout, jumped, announced, faults,
                      restarts>>

\* The sender's timeout is longer than an answer takes: nothing is under way,
\* and the receiver has nothing left to do but wait.
Quiet == /\ ~jumped /\ wire = <<>> /\ tx = <<>>
         /\ count = 0 /\ mpc = "call"
         /\ ~ \E f \in Flow : At(f, "ack")

SenderTimeout ==
    /\ Quiet /\ ss \in Sending
    /\ Send(ss, k)
    /\ UNCHANGED <<flowvars, bootvars, rymvars, announced, faults, restarts>>

GiveUp ==
    /\ Quiet /\ ss \in Sending \cup {"waitC1", "waitC2"}
    /\ ss' = "gaveup"
    /\ UNCHANGED <<flowvars, bootvars, rymvars, k, wire, announced, sends, faults,
                   restarts>>

Restart ==
    /\ ss \in {"gaveup", "cancelled"} /\ Quiet /\ restarts < MaxRestarts
    /\ ss' = "waitC" /\ k' = 1 /\ restarts' = restarts + 1
    /\ UNCHANGED <<flowvars, bootvars, rymvars, wire, announced, sends, faults>>

Sender == See \/ SenderTimeout \/ GiveUp \/ Restart

----------------------------------------------------------------------------
\* The receive interrupt.
Deliver == /\ ~jumped /\ wire # <<>>
           /\ RymReceive(Head(wire))
           /\ wire' = Tail(wire)
           /\ UNCHANGED <<ss, k, announced, sends, faults, restarts>>

Spoil(u)    == [u EXCEPT !.p.ok = FALSE]
Garble(run) == [run EXCEPT ![1].c = "JUNK"]

Strike(kind) == /\ ~jumped /\ kind \in Faults /\ faults < MaxFaults
                /\ faults' = faults + 1
                /\ UNCHANGED <<flowvars, bootvars, stage, rym_tm_sec, rym_sqqueue,
                               start, trans_timeout, finish_timeout, jumped, ss, k,
                               announced, sends, restarts>>

Lose     == /\ Strike("loss") /\ wire # <<>>
            /\ wire' = Tail(wire) /\ UNCHANGED tx

SpoilCrc == /\ Strike("crc") /\ wire # <<>> /\ Len(Head(wire)) > 1
            /\ wire' = [wire EXCEPT ![1] = [i \in DOMAIN @ |-> Spoil(@[i])]]
            /\ UNCHANGED tx

SpoilStart == /\ Strike("start") /\ wire # <<>>
              /\ wire' = [wire EXCEPT ![1] = Garble(@)]
              /\ UNCHANGED tx

\* One run reaches rym_receive in two calls.
Split == /\ Strike("split") /\ wire # <<>> /\ Len(Head(wire)) > 1
         /\ \E i \in 1..(Len(Head(wire)) - 1) :
               wire' = <<SubSeq(Head(wire), 1, i),
                         SubSeq(Head(wire), i + 1, Len(Head(wire)))>> \o Tail(wire)
         /\ UNCHANGED tx

LoseReply == /\ Strike("reply") /\ tx # <<>>
             /\ tx' = Tail(tx) /\ UNCHANGED wire

Line == Lose \/ SpoilCrc \/ SpoilStart \/ Split \/ LoseReply

----------------------------------------------------------------------------
\* The timer interrupt.  A step of the main loop is short against a second, and
\* the application's loop asks within a tick of rym_process returning.  So of
\* the ticks that meet the main loop at work only the one that ends the second
\* can change what it does.  MaxTx bounds the codes a slow sender lets pile up.
TimeMatters == \E f \in Flow :
                  \/ Current(f) /\ Blocked(f) /\ rym_tm_sec # 0
                  \/ /\ At(f, "wait") \/ At(f, "wait2")
                     /\ mpc \in {"call", "store", "test"} /\ age[f] = Sec - 1
                     /\ ~Blocked(f)

Tick == /\ ~jumped /\ TimeMatters /\ Len(tx) < MaxTx
        /\ FlowTick
        /\ UNCHANGED <<bootvars, rymvars, sendervars>>

Mcu  == ~jumped /\ RymProcess /\ UNCHANGED sendervars
Poll == ~jumped /\ Jump /\ UNCHANGED sendervars

\* After the jump the receiver is gone.
Booted == jumped /\ UNCHANGED vars

Next == Mcu \/ Poll \/ Tick \/ Deliver \/ Sender \/ Line \/ Booted

\* The main loop and the timer run, and the sender looks at what it is sent.
\* Nothing obliges it to send, or the line to deliver.
Fairness == WF_vars(Mcu) /\ WF_vars(Poll) /\ WF_vars(Tick) /\ WF_vars(See)

Spec == Init /\ [][Next]_vars /\ Fairness
----------------------------------------------------------------------------
Payloads == {File[i] : i \in 1..Len(File)} \cup {"none", "header", "null"}
Packets  == [seq : Nat, data : Payloads, size : Nat, n : Nat, ok : BOOLEAN]
Units    == [c : {"SOH", "STX", "EOT", "JUNK", "BODY"}, p : Packets, i : Nat]

TypeOK == /\ FlowTypeOK
          /\ flash \in Seq(Payloads \cup {"worn"}) /\ mic \in Seq(Payloads)
          /\ begun \in BOOLEAN /\ result \in {"none", "ok", "bad"}
          /\ stage \in Stages \ {"ESTABLISHED"}
          /\ rym_tm_sec \in -1..tm_sec
          /\ rym_sqqueue \in Seq(Units) /\ Len(rym_sqqueue) <= Capacity
          /\ start \in {"NONE", "SOH", "STX", "EOT", "JUNK"}
          /\ trans_timeout \in 0..TimeoutLimit
          /\ finish_timeout \in 0..TimeoutLimit
          /\ tx \in Seq(Codes) /\ wire \in Seq(Seq(Units))
          /\ jumped \in BOOLEAN
          /\ ss \in SenderStates /\ k \in 1..Len(File) /\ announced \in FileSizes
          /\ sends \in 0..MaxSends /\ faults \in 0..MaxFaults
          /\ restarts \in 0..MaxRestarts
          /\ count <= sends + faults

\* The upgrade programs the blocks of the file in order, each once, gives its
\* verdict on a whole image only, says "ok" of the right one only, and does not
\* jump to the application while blocks are coming in.
T == INSTANCE Transfer WITH
        phase   <- CASE stage \in {"TRANSMITTING", "FINISHING"} -> "receiving"
                     [] stage = "FINISHED"                      -> "closed"
                     [] OTHER                                   -> "idle",
        image   <- flash,
        verdict <- result,
        booted  <- jumped

TransferSpec == T!Spec

\* How many blocks the sender has seen acknowledged.
Confirmed == CASE ss = "data"                      -> k - 1
               [] ss \in {"eot", "waitC2", "null"} -> Len(File)
               [] OTHER                            -> 0

\* An acknowledged block came in whole and was programmed in its place: the digest has
\* it there, and the flash has it or, where a write may fail, what such a write leaves,
\* which on_data does not look at (bootload.c:91).  With the last block acknowledged no
\* other lies behind it.
AckedIsProgrammed ==
    /\ \A i \in 1..Confirmed : /\ i <= Len(mic) /\ i <= Len(flash)
                               /\ mic[i] = File[i] /\ flash[i] \in Programmed(File[i])
    /\ Confirmed = Len(File) => Len(flash) = Len(File)

\* A transfer is not cut off: the application is not started while blocks are
\* being received or the end is being settled, whatever the line does.
NotCutOff == jumped => stage \notin {"TRANSMITTING", "FINISHING"}

\* The verdict stands: nothing is programmed or erased after it, so what
\* end_callback(TRUE) vouched for, that the flash holds what was received, is
\* still so when the application starts, and what end_callback(FALSE) denied
\* is not.
VerdictStands == result # "none" => (result = "ok" <=> flash = mic)

\* The main loop never takes a release that is not there: --count (flow_sem.h:32)
\* has something to count down when it stores, though the interrupts have gone on
\* counting since it was loaded.
NoUnderflow == /\ count \in Nat /\ reg \in Nat
               /\ mpc = "store" => reg >= 1

\* The handshake time does not run during a transfer, and a verdict ends it.
HandshakeTimeKept == /\ rym_tm_sec \in Int
                     /\ stage \in {"TRANSMITTING", "FINISHING"}
                           => rym_tm_sec = tm_sec
VerdictIsFinal    == result # "none" => stage = "FINISHED"

\* The inductive invariant behind NotCutOff and VerdictStands.
IInv == /\ NoUnderflow /\ HandshakeTimeKept /\ VerdictIsFinal
        /\ NotCutOff /\ VerdictStands

\* end_callback(TRUE) means that the flash holds the file.
VerifiedImageIsFile == result = "ok" => flash = File

\* The bytes behind a run of blocks, the last packet cut off after n of them: as
\* packets come in, and as they lie in the flash.
PayloadRun(run, n) == [i \in DOMAIN run |->
                          [j \in 1 .. IF i = Len(run) THEN n ELSE PacketLen |-> <<run[i], j>>]]
Bytes(run, n) ==
    [j \in 1 .. IF run = <<>> THEN 0 ELSE (Len(run) - 1) * PacketLen + n |->
        <<run[((j - 1) \div PacketLen) + 1], ((j - 1) % PacketLen) + 1>>]

\* The digest fed packet by packet and the one read back page by page are both the
\* digest of the bytes, wherever the file ends in its last packet, so that they
\* agree exactly when the runs of blocks do, as OnEnd has it (on_data, on_end,
\* AES_CMAC_Update).
VerdictIsDigest ==
    result # "none" =>
        \A n \in 1 .. PacketLen, page \in PageLens :
            LET received == ByPackets(PayloadRun(mic, n))
                stored   == ByPages(Bytes(flash, n), page)
            IN  /\ received = Reference(Bytes(mic, n))
                /\ stored = Reference(Bytes(flash, n))
                /\ result = "ok" <=> received = stored

\* However the line behaves the device comes up: the handshake runs out of time,
\* or the transfer ends.
BootEnds == <>jumped
============================================================================
