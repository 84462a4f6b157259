------------------------------ MODULE Bootload ------------------------------
(***************************************************************************)
(* The callbacks with which User/lib/bootload/bootload.c stores an image   *)
(* received over YMODEM in the second flash bank and checks it there.      *)
(* A block of payload is one value; the CMAC of a run of blocks is the run *)
(* itself, so two digests agree exactly when the runs do.                  *)
(***************************************************************************)
EXTENDS Integers, Sequences

CONSTANTS SizeLimit,    \* BOOTLOAD_APP_END_ADDRESS, an address
          FlashFaults   \* TRUE: a flash write may store something else

ASSUME SizeLimitAssumption   == SizeLimit \in Nat
ASSUME FlashFaultsAssumption == FlashFaults \in BOOLEAN

VARIABLES flash,        \* bank 2 up to flashdestination
          mic,          \* what upgrade_ctx has been fed
          begun,        \* bank 2 has been erased for this image
          result        \* what end_callback was told: "none", "ok", "bad"

bootvars == <<flash, mic, begun, result>>

BootInit == /\ flash = <<>> /\ mic = <<>>
            /\ begun = FALSE /\ result = "none"

\* on_begin refuses only a size above an address of the flash.
Refuses(size) == size > SizeLimit

\* slip: the destination is not set back, the new image lands behind the old
OnBeginKeeps == /\ mic' = <<>> /\ begun' = TRUE
                /\ UNCHANGED <<flash, result>>

\* on_begin: destination to the start of bank 2, erase it, restart the digest.
OnBegin == /\ flash' = <<>> /\ mic' = <<>> /\ begun' = TRUE
           /\ UNCHANGED result

\* What a write of block d leaves in the flash.
Programmed(d) == {d} \cup (IF FlashFaults THEN {"worn"} ELSE {})

\* on_data: program the block, feed the digest, advance the destination.
OnData(d) == /\ \E w \in Programmed(d) : flash' = Append(flash, w)
             /\ mic' = Append(mic, d)
             /\ UNCHANGED <<begun, result>>

\* slip: both digests are taken from what was received
OnEndUnread == /\ result' = IF mic = mic THEN "ok" ELSE "bad"
               /\ UNCHANGED <<flash, mic, begun>>

\* on_end: the digest of what the flash holds against that of what came in.
OnEnd == /\ result' = IF flash = mic THEN "ok" ELSE "bad"
         /\ UNCHANGED <<flash, mic, begun>>
============================================================================
