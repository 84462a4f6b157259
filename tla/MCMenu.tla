------------------------------- MODULE MCMenu -------------------------------
(* A menu of three levels below the main one, one more than fit: the item with *)
(* window 5 leads from the third level to a fourth.  One item has no window    *)
(* number, one is a single page.                                               *)
EXTENDS Menu

Item(no, single, sub) == [window_no |-> no, single_page |-> single, sub |-> sub]

MCItems == [main |-> <<Item(1, FALSE, "a"), Item(2, TRUE, "b"), Item(0, FALSE, None)>>,
            a    |-> <<Item(3, FALSE, None), Item(4, FALSE, "c")>>,
            b    |-> <<Item(6, FALSE, None)>>,
            c    |-> <<Item(5, FALSE, "b")>>]
=============================================================================
