-------------------------------- MODULE Menu --------------------------------
(***************************************************************************)
(* The menu engine of User/lib/menu/menu.c: a stack of menus in an array   *)
(* of control blocks, each with the list of items bound to it, the item    *)
(* selected and the first item shown.  An operation is one action; only    *)
(* menu_enter_with_window_no, which searches the tree by entering and      *)
(* leaving menus, is taken step by step.                                   *)
(*                                                                         *)
(* The application's callbacks bind the lists, as menu.h intends: either   *)
(* all in the callbacks run on entering, or all in those run by the next   *)
(* menu_task.  Every item has a callback for entering and one for leaving. *)
(***************************************************************************)
EXTENDS Integers, Sequences

CONSTANTS MaxDepth,   \* MENU_MAX_DEPTH
          Byte,       \* values of menusize_t: 256 in the code
          ShowNum,    \* items on a page
          MaxWindow,  \* bound of the window numbers searched for
          MaxDropped, \* bound of the items dropped
          Items,      \* the application's lists: for each menu its items
          Main,       \* the main menu
          None        \* no menu, no list, no callback

Menus    == DOMAIN Items
ItemType == [window_no : Nat, single_page : BOOLEAN, sub : Menus \cup {None}]

ASSUME MenuAssumption ==
    /\ MaxDepth \in Nat \ {0} /\ ShowNum \in Nat \ {0} /\ Byte \in Nat
    /\ MaxWindow \in Nat /\ MaxDropped \in Nat
    /\ Main \in Menus /\ None \notin Menus
    /\ \A m \in Menus : Items[m] \in Seq(ItemType) /\ Len(Items[m]) \in 1 .. Byte - 1

VARIABLES cur,      \* p_menu_ctrl: an index of the array, 0 for NULL
          depth,    \* sg_curr_menu_depth
          ctrl,     \* sg_arr_menu_ctrl
          entered,  \* is_enter_main_menu
          pending,  \* the manager's pfn_load_call_fun: the menu it will bind
          look,     \* menu_enter_with_window_no under way: i in each of its calls
          lost,     \* what has become of the engine
          bindIn,   \* where the application binds its lists
          open,     \* ghost: items entered whose level is in use, by their callbacks
          dropped   \* ghost: how many were entered and lost their level without being left

vars == <<cur, depth, ctrl, entered, pending, look, lost, bindIn, open, dropped>>

Level == 0 .. MaxDepth
Idle  == [no |-> 0, at |-> <<>>, from |-> 0, opened |-> <<>>]

\* A block not in use.  What menu_enter will overwrite is forgotten at once;
\* show_base_item it does not touch.
Unused(b) == [list |-> None, select_item |-> 0, show_base_item |-> b,
              parent |-> 0, load |-> None]
Freed(k)  == [ctrl EXCEPT ![k] = Unused(ctrl[k].show_base_item)]

Init == /\ cur = 0 /\ depth = 0 /\ entered = FALSE /\ pending = None
        /\ ctrl = [k \in 1..MaxDepth |-> Unused(0)]
        /\ look = Idle /\ lost = "no" /\ open = <<>> /\ dropped = 0
        /\ bindIn \in {"enter", "load"}

NumItems(m) == IF m = None THEN 0 ELSE Len(Items[m])
Here        == ctrl[cur]
items_num   == NumItems(Here.list)
Ready       == cur # 0 /\ entered
Called      == lost = "no" /\ look = Idle
ItemOf(c)   == Items[c.list][c.select_item + 1]
HasItem(c)  == c.select_item < NumItems(c.list)

\* What a callback in the place p does for the menu m, if it binds there.
Binding(m, p) == IF bindIn = p THEN m ELSE None

\* slip: a list takes the place of another
BoundAgain(c, k, m) == [c EXCEPT ![k].list = m]

\* menu_bind on block k: a list that is bound stays.
Bound(c, k, m) == IF c[k].list = None THEN [c EXCEPT ![k].list = m] ELSE c

----------------------------------------------------------------------------
\* menu_init.
MenuInit ==
    /\ Called /\ cur = 0
    /\ cur' = 1 /\ depth' = 1 /\ entered' = FALSE
    /\ ctrl' = [ctrl EXCEPT ![1] = [Unused(0) EXCEPT !.load = Binding(Main, "load")]]
    /\ pending' = Binding(Main, "load")
    /\ UNCHANGED <<look, lost, bindIn, open, dropped>>

MainEnter ==
    /\ Called /\ cur # 0 /\ ~entered
    /\ entered' = TRUE
    /\ ctrl' = Bound(ctrl, cur, Binding(Main, "enter"))
    /\ pending' = ctrl[cur].load
    /\ UNCHANGED <<cur, depth, look, lost, bindIn, open, dropped>>

\* menu_enter with item i selected, the stack not being at its limit.
EnterItem(i) ==
    LET item == Items[Here.list][i + 1]
        k    == depth + 1
    IN  /\ ctrl' = [ctrl EXCEPT ![cur].select_item = i,
                                ![k] = [list |-> Binding(item.sub, "enter"),
                                        select_item |-> 0,
                                        show_base_item |-> @.show_base_item,
                                        parent |-> cur,
                                        load |-> Binding(item.sub, "load")]]
        /\ cur' = k /\ depth' = k
        /\ pending' = Binding(item.sub, "load")
        /\ open' = Append(open, <<Here.list, i>>)

Enter == /\ Called /\ Ready /\ depth < MaxDepth
         /\ IF HasItem(Here)
            THEN EnterItem(Here.select_item) /\ UNCHANGED lost
            ELSE \* no list, or an item beyond it
                 lost' = "wild" /\ UNCHANGED <<cur, depth, ctrl, pending, open>>
         /\ UNCHANGED <<entered, look, bindIn, dropped>>

\* delete_menu.
DeletedNone(d) == d                                       \* slip
Deleted(d)     == IF d > 0 THEN d - 1 ELSE d

RestartedMain(c, p) == [c EXCEPT ![1].select_item = 0]    \* slip: in the main menu
Restarted(c, p)     == [c EXCEPT ![p].select_item = 0]

\* menu_exit below the main menu.
Leave(is_reset) ==
    LET p == Here.parent
    IN  /\ ctrl' = IF is_reset THEN Restarted(Freed(cur), p) ELSE Freed(cur)
        /\ cur' = p /\ depth' = Deleted(depth)
        /\ pending' = ctrl[p].load
        /\ open' = SubSeq(open, 1, Len(open) - 1)

Exit == /\ Called /\ Ready /\ Here.parent # 0
        /\ \E is_reset \in BOOLEAN : Leave(is_reset)
        /\ UNCHANGED <<entered, look, lost, bindIn, dropped>>

\* menu_main_exit: `while (menu_exit(1) == 0)` leaves one level, or loops for ever.
Hang == /\ lost' = "hung"
        /\ UNCHANGED <<cur, depth, ctrl, entered, pending, open>>

MainExit ==
    /\ Called /\ Ready
    /\ IF Here.parent = 0 THEN Hang
       ELSE Leave(TRUE) /\ entered' = FALSE /\ UNCHANGED lost
    /\ UNCHANGED <<look, bindIn, dropped>>

\* n items more whose level goes while the callback for leaving does not run.
Dropped(n) == dropped' = dropped + n /\ dropped' <= MaxDropped

\* menu_de_init: menu_main_exit, which does nothing if the menu has not been entered, and
\* then p_menu_ctrl is NULL, whatever level that has left current.
DeInit ==
    /\ Called /\ cur # 0
    /\ IF entered /\ Here.parent = 0 THEN Hang /\ UNCHANGED dropped
       ELSE /\ cur' = 0 /\ entered' = FALSE /\ pending' = None
            /\ depth' = Deleted(IF entered THEN Deleted(depth) ELSE depth)
            /\ ctrl' = [k \in 1..MaxDepth |-> Unused(ctrl[k].show_base_item)]
            /\ open' = <<>>
            /\ Dropped(IF entered THEN Len(open) - 1 ELSE Len(open))
            /\ UNCHANGED lost
    /\ UNCHANGED <<look, bindIn>>

\* menu_reset, up the chain of parents (DepthAgrees) to the main menu, without the
\* callbacks for leaving (menu.c:238) and without the load callback.
Reset ==
    /\ Called /\ Ready
    /\ cur' = 1 /\ depth' = depth - (cur - 1)
    /\ ctrl' = [k \in 1..MaxDepth |->
                   IF k = 1 THEN [ctrl[1] EXCEPT !.select_item = 0]
                   ELSE Unused(ctrl[k].show_base_item)]
    /\ open' = <<>> /\ Dropped(Len(open))
    /\ UNCHANGED <<entered, pending, look, lost, bindIn>>

----------------------------------------------------------------------------
\* The selection.  Arithmetic is int, and division truncates; what is stored is a
\* menusize_t.
Quotient(a, n) == IF a < 0 THEN -((-a) \div n) ELSE a \div n

Select(i) == /\ ctrl' = [ctrl EXCEPT ![cur].select_item = i % Byte]
             /\ UNCHANGED <<cur, depth, entered, pending, look, lost, bindIn, open, dropped>>

SelectPage(i) == /\ ctrl' = [ctrl EXCEPT ![cur].select_item = i % Byte,
                                         ![cur].show_base_item = 0]
                 /\ UNCHANGED <<cur, depth, entered, pending, look, lost, bindIn, open, dropped>>

SelectPrevious ==
    /\ Called /\ Ready
    /\ \E is_allow_roll \in BOOLEAN :
          Select(IF Here.select_item > 0 THEN Here.select_item - 1
                 ELSE IF is_allow_roll THEN items_num - 1 ELSE 0)

SelectNext ==
    /\ Called /\ Ready
    /\ \E is_allow_roll \in BOOLEAN :
          Select(IF Here.select_item < items_num - 1 THEN Here.select_item + 1
                 ELSE IF is_allow_roll THEN 0 ELSE items_num - 1)

page_no  == Here.select_item \div ShowNum
LastPageCounted == Quotient(items_num, ShowNum)      \* slip: the items, not the last one
LastPage        == Quotient(items_num - 1, ShowNum)

SelectPreviousPage ==
    /\ Called /\ Ready
    /\ SelectPage((IF page_no > 0 THEN page_no - 1 ELSE LastPage) * ShowNum)

SelectNextPage ==
    /\ Called /\ Ready
    /\ SelectPage(IF page_no < LastPage THEN (page_no + 1) * ShowNum ELSE 0)

\* menu_jump_item, for an item of the list.
JumpItem == /\ Called /\ Ready
            /\ \E index \in 0 .. items_num - 1 : SelectPage(index)

----------------------------------------------------------------------------
Smaller(a, b) == IF a < b THEN a ELSE b

\* slip: one item too few brought into view
LimitedLate(c) ==
    LET num == Smaller(ShowNum, NumItems(c.list))
    IN  IF c.select_item < c.show_base_item THEN c.select_item
        ELSE IF c.select_item - c.show_base_item > num THEN c.select_item - num + 1
        ELSE c.show_base_item

\* menu_limit_show_list_num, called by the callback that shows the menu.
Limited(c) ==
    LET num == Smaller(ShowNum, NumItems(c.list))
    IN  IF c.select_item < c.show_base_item THEN c.select_item
        ELSE IF c.select_item - c.show_base_item >= num THEN c.select_item - num + 1
        ELSE c.show_base_item

\* menu_task: the load callback once, then the menu is shown.
Task ==
    /\ Called /\ Ready
    /\ ctrl' = LET c == Bound(ctrl, cur, pending)
               IN  IF c[cur].list = None THEN c
                   ELSE [c EXCEPT ![cur].show_base_item = Limited(c[cur]) % Byte]
    /\ pending' = None
    /\ UNCHANGED <<cur, depth, entered, look, lost, bindIn, open, dropped>>

----------------------------------------------------------------------------
\* menu_enter_with_window_no(no): each of its calls looks through the menu it finds
\* current, and calls itself where an item leads further.
LookBegin ==
    /\ Called /\ cur # 0 /\ items_num > 0
    /\ \E no \in 1 .. MaxWindow :
          look' = [no |-> no, at |-> <<0>>, from |-> cur, opened |-> open]
    /\ UNCHANGED <<cur, depth, ctrl, entered, pending, lost, bindIn, open, dropped>>

Looking  == lost = "no" /\ look # Idle
LookAt   == look.at[Len(look.at)]
LookItem == Items[Here.list][LookAt + 1]
CanEnterAlways == entered       \* slip
CanEnter       == entered /\ depth < MaxDepth
\* slip: an item is passed over
OnwardsTwice(at) == [at EXCEPT ![Len(at)] = @ + 2]
Onwards(at)      == [at EXCEPT ![Len(at)] = @ + 1]

Selected == [ctrl EXCEPT ![cur].select_item = LookAt]

\* The item is selected and entered, and all calls return TRUE, whether menu_enter has
\* entered it or not.
LookFound ==
    /\ Looking /\ LookAt < items_num /\ LookItem.window_no = look.no
    /\ look' = Idle
    /\ IF CanEnter THEN EnterItem(LookAt)
       ELSE ctrl' = Selected /\ UNCHANGED <<cur, depth, pending, open>>
    /\ UNCHANGED <<entered, lost, bindIn, dropped>>

LeadsOn(item) == item.window_no # 0 /\ ~item.single_page

LookInto ==
    /\ Looking /\ LookAt < items_num /\ LookItem.window_no # look.no
    /\ LeadsOn(LookItem) /\ CanEnter
    /\ EnterItem(LookAt)
    /\ look' = [look EXCEPT !.at = Append(@, 0)]
    /\ UNCHANGED <<entered, lost, bindIn, dropped>>

\* menu_enter refuses: the call for what should be the next level looks through the
\* same menu again, and calls itself again.
LookHang ==
    /\ Looking /\ LookAt < items_num /\ LookItem.window_no # look.no
    /\ LeadsOn(LookItem) /\ ~CanEnter
    /\ Hang
    /\ UNCHANGED <<look, bindIn, dropped>>

LookPast ==
    /\ Looking /\ LookAt < items_num /\ LookItem.window_no # look.no
    /\ ~LeadsOn(LookItem)
    /\ look' = [look EXCEPT !.at = Onwards(@)]
    /\ UNCHANGED <<cur, depth, ctrl, entered, pending, lost, bindIn, open, dropped>>

LookOut ==
    /\ Looking /\ LookAt >= items_num /\ Len(look.at) > 1
    /\ Leave(FALSE)
    /\ look' = [look EXCEPT !.at = Onwards(SubSeq(@, 1, Len(@) - 1))]
    /\ UNCHANGED <<entered, lost, bindIn, dropped>>

LookEnd ==
    /\ Looking /\ LookAt >= items_num /\ Len(look.at) = 1
    /\ look' = Idle
    /\ UNCHANGED <<cur, depth, ctrl, entered, pending, lost, bindIn, open, dropped>>

Gone == lost # "no" /\ UNCHANGED vars

Next == \/ MenuInit \/ MainEnter \/ MainExit \/ DeInit \/ Reset \/ Enter \/ Exit
        \/ SelectPrevious \/ SelectNext \/ SelectPreviousPage \/ SelectNextPage
        \/ JumpItem \/ Task
        \/ LookBegin \/ LookFound \/ LookInto \/ LookHang \/ LookPast \/ LookOut \/ LookEnd
        \/ Gone

Spec == Init /\ [][Next]_vars
----------------------------------------------------------------------------
BlockType == [list : Menus \cup {None}, select_item : 0 .. Byte - 1,
              show_base_item : 0 .. Byte - 1, parent : Level,
              load : Menus \cup {None}]

StackTypeOK == /\ cur \in Level /\ depth \in Level
               /\ ctrl \in [1..MaxDepth -> BlockType]
               /\ pending \in Menus \cup {None}
               /\ open \in Seq((Menus \cup {None}) \X Nat)

LookType == [no : Nat, at : Seq(Nat), from : Level, opened : Seq((Menus \cup {None}) \X Nat)]

TypeOK == /\ StackTypeOK
          /\ entered \in BOOLEAN /\ look \in LookType
          /\ lost \in {"no", "hung", "wild"} /\ bindIn \in {"enter", "load"}
          /\ dropped \in 0 .. MaxDropped

\* The level counted by new_menu and delete_menu is that of the current menu, and each
\* block's parent is the block before it: whatever has been entered, left, reset,
\* searched and initialised again, menu_enter never takes a block that is in use.
DepthAgrees == cur # 0 => /\ depth = cur
                          /\ \A k \in 1..cur : ctrl[k].parent = k - 1

\* Of the items whose callback for entering has run, those that have neither been left
\* by their callback nor dropped by menu_reset or menu_de_init are the ones selected on
\* the way to the current menu, outermost first: leaving runs the callback of the item
\* that was entered (menu.c:383-387), no item is left twice, and out of the menu none is
\* still there to be left.  What the two operations drop is in `dropped`.
OpenIsPath == /\ Len(open) = IF cur = 0 THEN 0 ELSE cur - 1
              /\ \A k \in 1..cur-1 : open[k] = <<ctrl[k].list, ctrl[k].select_item>>

\* The list bound on a level is that of the item selected on the level above, however
\* late menu_task comes to run the load callback.
ListFitsPath == cur # 0 =>
    /\ ctrl[1].list \in {Main, None}
    /\ \A k \in 2..cur : ctrl[k].list \in {ItemOf(ctrl[k - 1]).sub, None}

\* Where the lists are bound on entering, the item selected is one of the list, on every
\* level and after every kind of selection.
SelectionInList == bindIn = "enter" /\ cur # 0 =>
    \A k \in 1..cur : ctrl[k].list # None => HasItem(ctrl[k])

\* Whatever has been selected, and whoever used the block before, the page that menu_task
\* would show now contains the item selected.
SelectionShown == Ready /\ HasItem(Here) =>
    LET base == Limited(Here)
    IN  base <= Here.select_item /\ Here.select_item < base + Smaller(ShowNum, items_num)

\* Windows to be found below the menus, in at most so many levels.
Windows[d \in Level] ==
    [m \in Menus \cup {None} |->
        IF m = None THEN {}
        ELSE LET items == {Items[m][i] : i \in 1..Len(Items[m])}
             IN  {it.window_no : it \in items}
                 \cup (IF d = 0 THEN {}
                       ELSE UNION {Windows[d - 1][it.sub] : it \in {x \in items : LeadsOn(x)}})]

\* A search that fails has left every menu it entered, callbacks included, and, where
\* lists are bound on entering, there was nothing to be found.
SearchSound ==
    [][LookEnd => /\ cur = look.from /\ open = look.opened
                  /\ bindIn = "enter" => look.no \notin Windows[MaxDepth][Here.list]]_vars

\* menu_main_exit and menu_de_init leave level by level to the main menu, running the
\* functions for leaving (menu.c:287, 162): outside the menu nothing is still entered.
AllLeft == ~entered => open = <<>>
=============================================================================
