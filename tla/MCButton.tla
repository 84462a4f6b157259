------------------------------ MODULE MCButton ------------------------------
(* Three buttons, of which one is followed and the others run callbacks; one *)
(* press in a row more than repeat can count; and times cut down to two       *)
(* samples of bounce and three ticks of a short and of a long press.          *)
EXTENDS Button, TLC

CONSTANTS b1, b2, b3
=============================================================================
