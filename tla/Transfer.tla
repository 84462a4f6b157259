------------------------------ MODULE Transfer ------------------------------
(***************************************************************************)
(* What the upgrade promises, with no protocol in it: the bank is erased,  *)
(* the blocks of the file are programmed in order and each once, and when  *)
(* the last is there one verdict is given.  The application is not booted  *)
(* in the middle.                                                          *)
(***************************************************************************)
EXTENDS Integers, Sequences

CONSTANTS File,          \* the blocks of the image sent
          Programmed(_)  \* what programming a block may leave behind

VARIABLES phase,    \* "idle", "receiving", "closed"
          image,    \* what is in the bank
          verdict,  \* "none", "ok", "bad"
          booted

vars == <<phase, image, verdict, booted>>

Init == /\ phase = "idle" /\ image = <<>>
        /\ verdict = "none" /\ booted = FALSE

Erase == /\ phase = "idle"
         /\ image' = <<>>
         /\ UNCHANGED <<phase, verdict, booted>>

Open == /\ phase = "idle" /\ image = <<>>
        /\ phase' = "receiving"
        /\ UNCHANGED <<image, verdict, booted>>

Program == /\ phase = "receiving"
           /\ Len(image) < Len(File)
           /\ \E w \in Programmed(File[Len(image) + 1]) :
                 image' = Append(image, w)
           /\ UNCHANGED <<phase, verdict, booted>>

Abandon == /\ phase = "receiving"
           /\ phase' = "idle"
           /\ UNCHANGED <<image, verdict, booted>>

Close == /\ phase = "receiving"
         /\ Len(image) = Len(File)
         /\ phase' = "closed"
         /\ verdict' = IF image = File THEN "ok" ELSE "bad"
         /\ UNCHANGED <<image, booted>>

Boot == /\ phase # "receiving"
        /\ booted' = TRUE
        /\ UNCHANGED <<phase, image, verdict>>

Next == Erase \/ Open \/ Program \/ Abandon \/ Close \/ Boot

Spec == Init /\ [][Next]_vars
============================================================================
