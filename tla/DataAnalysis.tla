---------------------------- MODULE DataAnalysis ----------------------------
(***************************************************************************)
(* The frame parser of User/lib/src/data_analysis.c for one data_id.  The  *)
(* receive interrupt feeds it a character at a time; what may belong to a  *)
(* frame goes into the receive queue and is revoked if it turns out not    *)
(* to.  At the end of a frame the parser calls the function registered,    *)
(* which takes the frame out with data_read, head first, and all of that   *)
(* happens before the interrupt returns: the handlers are those of         *)
(* User/lib/examples/simple_data_analysis.c, the parser's only user.       *)
(*                                                                         *)
(* The queue is the FIFO that SqQueue implements, one item per character.  *)
(***************************************************************************)
EXTENDS Integers, Sequences

CONSTANTS Capacity,   \* DATA_BUF_RECV_SQQ_LEN
          Radix,      \* values of a character in a length: 256 in the code
          ByteLimit,  \* values of a uint8_t that counts items: also 256
          Formats     \* what may be registered with data_reg

LdMax == 2            \* DATA_LD_LEN_MAX
Char  == 0 .. Radix - 1

\* sd: start delimiter, <<>> if sd is not valid; ldLen bytes of length, most
\* significant first, which counts `pos` more than the body; ed: end delimiter as
\* a sequence, <<>> if not valid.
FormatType == [sd : Seq(Char), ldLen : 1..LdMax, pos : Nat, lenMin : Nat,
               lenMax : Nat, ed : Seq(Char)]

ASSUME SizeAssumption   == /\ Capacity \in Nat \ {0}
                           /\ Radix \in Nat \ {0} /\ ByteLimit \in Nat \ {0}
\* A frame that has the length it gives fits into the queue, and its head has fewer
\* items than the uint8_t of the revoking loops can count.
ASSUME FormatAssumption ==
    \A f \in Formats : /\ f \in FormatType /\ Len(f.ed) <= 1
                       /\ Len(f.sd) + f.ldLen + f.lenMax <= Capacity
                       /\ Len(f.sd) + f.ldLen < ByteLimit

VARIABLES fmt,        \* the format registered
          state,      \* fsm[].current_state, or what has become of the interrupt
          sd_index, ld_index, ld_data, frm_len, payload_len,
          last,       \* last_enter_q_num
          locked,
          q,          \* data_recv_sqq
          got,        \* ghost: what the handler made of this character's frame
          lapsed      \* ghost: the parser has locked the data

vars == <<fmt, state, sd_index, ld_index, ld_data, frm_len, payload_len, last,
          locked, q, got, lapsed>>

Init == /\ fmt \in Formats                           \* data_fsm_init, data_reg
        /\ state = "sd" /\ sd_index = 0 /\ ld_index = 0
        /\ ld_data = [i \in 1..LdMax |-> 0]
        /\ frm_len = 0 /\ payload_len = 0 /\ last = 0 /\ locked = FALSE
        /\ q = <<>> /\ got = "none" /\ lapsed = FALSE

----------------------------------------------------------------------------
HasRoomLate == Len(q) <= Capacity  \* slip
HasRoom     == Len(q) < Capacity

\* `for (uint8_t i = 0; i < last_enter_q_num; i++) revoke(...)` ends only if the
\* bound is within i's range; on an empty queue revoke does nothing.
Endless == last >= ByteLimit

\* slip: one item too many
RevokedTooMany == SubSeq(q, 1, IF last + 1 < Len(q) THEN Len(q) - last - 1 ELSE 0)

Revoked       == SubSeq(q, 1, IF last < Len(q) THEN Len(q) - last ELSE 0)

\* lock_data, for a character that finds the queue full.  The index into the
\* length field is not among what it resets.
LockData ==
    /\ locked' = TRUE /\ lapsed' = TRUE
    /\ q' = Revoked /\ got' = "none"
    /\ IF Endless
       THEN state' = "hung" /\ UNCHANGED <<sd_index, frm_len, payload_len, last>>
       ELSE /\ state' = "sd" /\ last' = 0
            /\ sd_index' = 0 /\ frm_len' = 0 /\ payload_len' = 0

\* ch enters and belongs to the frame under way, which goes on in state s.
Goes(ch, s) == /\ q' = Append(q, ch) /\ last' = last + 1 /\ state' = s
               /\ got' = "none" /\ UNCHANGED <<locked, lapsed>>

\* ch does not belong to a frame, and so neither does what has entered of it.
Rejected == /\ q' = Revoked /\ last' = 0 /\ state' = "sd"
            /\ got' = "none" /\ UNCHANGED <<payload_len, locked, lapsed>>

----------------------------------------------------------------------------
Number(d) == IF fmt.ldLen = 1 THEN d[1] ELSE d[1] * Radix + d[2]

HeadLen == Len(fmt.sd) + fmt.ldLen

\* data_read(n): the first n items, or what there is.
Without(items, n) == SubSeq(items, n + 1, Len(items))

BodyLen(head) == Number(SubSeq(head, Len(fmt.sd) + 1, HeadLen))
                     - (IF fmt.ed = <<>> THEN 0 ELSE fmt.pos)

\* data_analysis_event1 and 2 called with the queue at `items`.  A head of which
\* the length is too long, or wraps below zero, gives lock_data, unlock_data and
\* no body; a body that comes short, or whose CRC is wrong, is dropped.
Event(items) ==
    LET n    == BodyLen(SubSeq(items, 1, HeadLen))
        rest == Without(items, HeadLen)
    IN  IF n \notin 0 .. fmt.lenMax
        THEN q' = rest /\ got' = "refused"
        ELSE /\ q' = Without(rest, n)
             /\ got' = IF Len(rest) < n THEN "short" ELSE "whole"

\* slip: the items of the finished frame still count as revocable
EndStateKeeps(items) ==
    /\ state' = "sd"
    /\ frm_len' = 0 /\ payload_len' = 0 /\ last' = last
    /\ Event(items)
    /\ locked' = FALSE
    /\ UNCHANGED <<sd_index, lapsed>>

\* end_state_handle.  Reading unlocks the data if it is locked; what unlock_data
\* resets is reset already.
EndState(items) ==
    /\ state' = "sd"
    /\ frm_len' = 0 /\ payload_len' = 0 /\ last' = 0
    /\ Event(items)
    /\ locked' = FALSE
    /\ UNCHANGED <<sd_index, lapsed>>

----------------------------------------------------------------------------
\* A format without start delimiter has its length read in this state.
InSd == state = "sd" /\ fmt.sd # <<>>
InLd == state = "ld" \/ (state = "sd" /\ fmt.sd = <<>>)

WaitSd(ch) ==
    /\ InSd
    /\ \/ /\ fmt.sd[sd_index + 1] # ch
          /\ Rejected /\ sd_index' = 0 /\ UNCHANGED frm_len
       \/ /\ fmt.sd[sd_index + 1] = ch /\ HasRoom
          /\ IF sd_index + 1 = Len(fmt.sd)
             THEN sd_index' = 0 /\ Goes(ch, "ld")
             ELSE sd_index' = sd_index + 1 /\ Goes(ch, "sd")
          /\ UNCHANGED <<frm_len, payload_len>>
       \/ /\ fmt.sd[sd_index + 1] = ch /\ ~HasRoom
          /\ LockData
    /\ UNCHANGED <<ld_index, ld_data>>

WaitLd(ch) ==
    /\ InLd /\ ld_index < LdMax
    /\ ld_data' = [ld_data EXCEPT ![ld_index + 1] = ch]
    /\ \/ /\ ~HasRoom
          /\ ld_index' = ld_index + 1
          /\ LockData
       \/ /\ HasRoom /\ ld_index + 1 # fmt.ldLen
          /\ ld_index' = ld_index + 1
          /\ Goes(ch, "ld")
          /\ UNCHANGED <<sd_index, frm_len, payload_len>>
       \/ /\ HasRoom /\ ld_index + 1 = fmt.ldLen
          /\ ld_index' = 0
          /\ LET n == Number(ld_data')
             IN  IF n \in fmt.lenMin .. fmt.lenMax
                 THEN frm_len' = n /\ Goes(ch, "end") /\ UNCHANGED payload_len
                 ELSE frm_len' = 0 /\ Rejected
          /\ UNCHANGED sd_index

\* ld.data[ld.index++] beyond the array: nothing is said of what follows.
WaitLdBeyond == /\ InLd /\ ld_index >= LdMax
                /\ state' = "wild"
                /\ UNCHANGED <<sd_index, ld_index, ld_data, frm_len, payload_len,
                               last, locked, q, got, lapsed>>

\* slip: one character late
CompleteLate(ch) == IF fmt.ed = <<>> THEN payload_len = frm_len
                    ELSE /\ fmt.ed[1] = ch
                         /\ frm_len = 0 \/ payload_len >= frm_len - fmt.pos

\* With ch entered, is the frame complete?
Complete(ch) == IF fmt.ed = <<>> THEN payload_len + 1 = frm_len
                ELSE /\ fmt.ed[1] = ch
                     /\ frm_len = 0 \/ payload_len + 1 >= frm_len - fmt.pos

\* A frame of length 0 without end delimiter ends with the character after it,
\* which is dropped; the loop that is to revoke finds last_enter_q_num at 0.
WaitEnd(ch) ==
    /\ state = "end"
    /\ \/ /\ fmt.ed = <<>> /\ frm_len = 0
          /\ EndState(q)
       \/ /\ fmt.ed # <<>> \/ frm_len # 0
          /\ HasRoom /\ Complete(ch)
          /\ EndState(Append(q, ch))
       \/ /\ fmt.ed # <<>> \/ frm_len # 0
          /\ HasRoom /\ ~Complete(ch)
          /\ payload_len' = IF frm_len = 0 THEN payload_len ELSE payload_len + 1
          /\ Goes(ch, "end")
          /\ UNCHANGED <<sd_index, frm_len>>
       \/ /\ fmt.ed # <<>> \/ frm_len # 0
          /\ ~HasRoom
          /\ LockData
    /\ UNCHANGED <<ld_index, ld_data>>

\* data_char_handle in the receive interrupt.  Whether the data is locked no state
\* asks.
CharHandle(ch) == (WaitSd(ch) \/ WaitLd(ch) \/ WaitLdBeyond \/ WaitEnd(ch)) /\ UNCHANGED fmt

Lost == state \in {"hung", "wild"} /\ UNCHANGED vars

Next == Lost \/ \E ch \in Char : CharHandle(ch)

Spec == Init /\ [][Next]_vars
----------------------------------------------------------------------------
TypeOK == /\ fmt \in Formats
          /\ state \in {"sd", "ld", "end", "hung", "wild"}
          /\ sd_index \in 0..Len(fmt.sd)
          /\ ld_index \in 0..LdMax /\ ld_data \in [1..LdMax -> Char]
          /\ frm_len \in 0..fmt.lenMax
          /\ payload_len \in Nat /\ last \in 0..Capacity
          /\ q \in Seq(Char) /\ Len(q) <= Capacity
          /\ locked \in BOOLEAN /\ lapsed \in BOOLEAN
          /\ got \in {"none", "whole", "short", "refused"}

\* What has entered of the frame under way, and what was in the queue before it.
Own    == SubSeq(q, Len(q) - last + 1, Len(q))
Before == SubSeq(q, 1, Len(q) - last)

\* Until the queue has been full once, the items that would be revoked are
\* exactly those of the frame under way: its start delimiter as far as it has
\* come, its length field, its body (wait_sd_state, wait_ld_state,
\* wait_end_state count them in last_enter_q_num one by one).
OwnIsFrame ==
    ~lapsed /\ state # "wild" =>
        /\ last <= Len(q)
        /\ state = "sd" /\ fmt.sd # <<>> => Own = SubSeq(fmt.sd, 1, sd_index)
        /\ state \in {"ld", "end"} => SubSeq(Own, 1, Len(fmt.sd)) = fmt.sd
        /\ state = "ld" => last = Len(fmt.sd) + ld_index
        /\ state = "end" => /\ Number(SubSeq(Own, Len(fmt.sd) + 1, HeadLen)) = frm_len
                            /\ frm_len # 0 => last = HeadLen + payload_len

\* A character that completes no frame leaves alone what was in the queue before
\* the frame under way, full or not: neither the revoking loops nor lock_data
\* take back an item that is not the frame's.
BeforeKept == [][got' = "none" /\ state' \notin {"hung", "wild"} => Before' = Before]_vars

\* In a format without end delimiter every frame handed over is read whole and
\* nothing is left of it, whatever the input: the handler never takes one frame's
\* items for another's (data_analysis_event2), and the data is never locked.
UntailedInStep ==
    fmt.ed = <<>> /\ fmt.lenMin > 0 =>
        /\ got \notin {"short", "refused"} /\ ~locked
        /\ state \notin {"hung", "wild"} /\ Len(q) = last

\* A queue that is full brings the parser back to the start delimiter, with
\* everything that had entered of the frame deleted (data_analysis.c:68-79).
FullStartsOver ==
    [][~HasRoom /\ HasRoom' /\ got' = "none" => state' = "sd" /\ last' = 0]_vars
=============================================================================
