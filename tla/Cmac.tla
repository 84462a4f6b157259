-------------------------------- MODULE Cmac --------------------------------
(***************************************************************************)
(* The AES-CMAC of src/User/lib/src/cmac.c as far as it is bookkeeping:    *)
(* which blocks are enciphered, in which order, and which one is held back *)
(* as the last.  X is the blocks it was chained over; the cipher and the   *)
(* subkeys K1 and K2 stand for functions that tell all of these apart.     *)
(***************************************************************************)
EXTENDS Integers, Sequences

CONSTANT BlockLen    \* 16

ASSUME BlockLenAssumption == BlockLen \in Nat \ {0}

CmacInit == [X |-> <<>>, last |-> <<>>]

\* The first k blocks of a run of bytes, and the bytes from the i-th on.
Blocks(bytes, k) == [i \in 1 .. k |-> SubSeq(bytes, (i - 1) * BlockLen + 1, i * BlockLen)]
From(bytes, i)   == SubSeq(bytes, i, Len(bytes))

\* while (len > 16): the blocks that something follows.
BeforeLast(bytes) == IF bytes = <<>> THEN 0 ELSE (Len(bytes) - 1) \div BlockLen

\* What is left of a run of bytes when M_last is empty or has just been used.
Chained(X, bytes) == LET k == BeforeLast(bytes)
                     IN  [X |-> X \o Blocks(bytes, k), last |-> From(bytes, k * BlockLen + 1)]

\* slip: the block held back is forgotten when more follows
CmacUpdateForgets(ctx, data) ==
    IF ctx.last = <<>> \/ Len(ctx.last) = BlockLen THEN Chained(ctx.X, data)
    ELSE [ctx EXCEPT !.last = @ \o data]

\* AES_CMAC_Update fills M_last first; it is enciphered only if more follows.
CmacUpdate(ctx, data) ==
    LET room  == BlockLen - Len(ctx.last)
        mlen  == IF room < Len(data) THEN room ELSE Len(data)
        block == ctx.last \o SubSeq(data, 1, mlen)
    IN  IF ctx.last = <<>> THEN Chained(ctx.X, data)
        ELSE IF Len(block) < BlockLen \/ Len(data) = mlen THEN [X |-> ctx.X, last |-> block]
        ELSE Chained(Append(ctx.X, block), From(data, mlen + 1))

\* AES_CMAC_Final: a complete last block takes K1, any other is padded and takes K2.
CmacFinal(ctx) == <<ctx.X, ctx.last, IF Len(ctx.last) = BlockLen THEN "K1" ELSE "K2">>

\* A message in pieces, the packets on_data gets; and a message as on_end reads it
\* back, by pages of LL_FLASH_PAGE_SIZE and then what remains.
ByPackets(pieces) ==
    LET ctx[i \in 0 .. Len(pieces)] ==
            IF i = 0 THEN CmacInit ELSE CmacUpdate(ctx[i - 1], pieces[i])
    IN  CmacFinal(ctx[Len(pieces)])

ByPages(m, PageLen) ==
    LET num    == Len(m) \div PageLen
        pages  == [i \in 1 .. num |-> SubSeq(m, (i - 1) * PageLen + 1, i * PageLen)]
        remain == From(m, num * PageLen + 1)
    IN  ByPackets(IF remain = <<>> THEN pages ELSE Append(pages, remain))

\* The digest of a message as RFC 4493 has it.
Reference(m) ==
    LET n == IF m = <<>> THEN 1 ELSE (Len(m) + BlockLen - 1) \div BlockLen
    IN  <<Blocks(m, n - 1), From(m, (n - 1) * BlockLen + 1),
          IF m # <<>> /\ Len(m) % BlockLen = 0 THEN "K1" ELSE "K2">>
=============================================================================
