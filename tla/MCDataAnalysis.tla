--------------------------- MODULE MCDataAnalysis ---------------------------
(* The two formats of simple_data_analysis.c, scaled down: one start byte and *)
(* an end delimiter, two start bytes and none.  Of the options that neither   *)
(* uses, Bare has no start delimiter and a length of one byte, Empty a least  *)
(* length of 0.                                                               *)
EXTENDS DataAnalysis

Tailed   == [sd |-> <<1>>, ldLen |-> 2, pos |-> 2, lenMin |-> 2, lenMax |-> 4,
             ed |-> <<2>>]
Untailed == [sd |-> <<1, 2>>, ldLen |-> 2, pos |-> 2, lenMin |-> 2, lenMax |-> 4,
             ed |-> <<>>]
Bare     == [sd |-> <<>>, ldLen |-> 1, pos |-> 1, lenMin |-> 1, lenMax |-> 2,
             ed |-> <<>>]
Empty    == [sd |-> <<1>>, ldLen |-> 1, pos |-> 0, lenMin |-> 0, lenMax |-> 2,
             ed |-> <<>>]

MCFormats == {Tailed, Untailed, Bare, Empty}
=============================================================================
