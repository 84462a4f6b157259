----------------------------- MODULE MCUpgrade -----------------------------
(* Upgrade with a file of two blocks.  A CMAC block has two bytes, a packet     *)
(* two such blocks, a page one or two packets: a file is one page and a rest,   *)
(* two pages, one page, or less than a page.                                    *)
EXTENDS Upgrade

MCFile == <<"d1", "d2">>
============================================================================
