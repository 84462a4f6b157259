------------------------------ MODULE MCMemory ------------------------------
(***************************************************************************)
(* A small pool for CList: four blocks of two bytes, two values, requests  *)
(* for no byte, part of a block, more than one block and more than half    *)
(* the pool.  A client writes a cell that looks like a node.               *)
(***************************************************************************)
EXTENDS CList

MCCell    == [data : Data \cup {NULL}, Next : 0 .. N - 1 \cup {NULL}]
MCZero    == [data |-> NULL, Next |-> NULL]
MCWritten == {[data |-> 1, Next |-> 0]}
MCSizes   == {0, 1, 3, 5}
=============================================================================
