----------------------------- MODULE MenuProofs -----------------------------
(* What holds of the menu engine for every depth of the stack and every tree  *)
(* of menus: the invariant is that the stack, the count of levels, the        *)
(* callbacks run and the search under way agree on where the engine is.       *)
EXTENDS Menu, LeastNumber, TLAPS

\* While a search is under way, each call has entered one menu.
LookLevels == look # Idle => /\ look.from \in 1..cur /\ Len(look.at) >= 1
                             /\ cur = look.from + Len(look.at) - 1

Stack == StackTypeOK /\ DepthAgrees /\ OpenIsPath
IInv  == TypeOK /\ DepthAgrees /\ OpenIsPath /\ LookLevels

LEMMA Constants ==
    /\ MaxDepth \in Nat /\ MaxDepth >= 1 /\ ShowNum \in Nat /\ ShowNum >= 1
    /\ Byte \in Nat /\ Byte >= 2 /\ Main \in Menus
    /\ \A m \in Menus : Items[m] \in Seq(ItemType) /\ Len(Items[m]) \in 1..Byte - 1
BY MenuAssumption

LEMMA UnusedType == \A b \in 0..Byte - 1 : Unused(b) \in BlockType
BY Constants DEF Unused, BlockType, Level

\* menu_enter takes the block above the current one and leaves those below alone.
LEMMA EnterStep ==
    ASSUME Stack, cur # 0, depth < MaxDepth, bindIn \in {"enter", "load"},
           NEW i \in Nat, i < items_num, EnterItem(i)
    PROVE  Stack' /\ cur' = cur + 1
<1> DEFINE item == Items[Here.list][i + 1]
<1>0. MaxDepth \in Nat /\ Byte \in Nat /\ Byte >= 2
  BY Constants
<1>1. /\ cur \in 1..MaxDepth /\ depth = cur /\ ctrl[cur] \in BlockType
      /\ Here.list \in Menus /\ item \in ItemType /\ i \in 0..Byte - 1
  <2>1. cur \in 1..MaxDepth /\ depth = cur /\ ctrl[cur] \in BlockType
    BY <1>0 DEF Stack, StackTypeOK, DepthAgrees, Level
  <2>2. Here.list \in Menus \cup {None}
    BY <2>1 DEF Here, BlockType
  <2>3. Here.list \in Menus /\ i < Len(Items[Here.list])
    BY <2>2 DEF items_num, NumItems
  <2>4. Items[Here.list] \in Seq(ItemType) /\ Len(Items[Here.list]) \in 1..Byte - 1
    BY <2>3, Constants
  <2>5. item \in ItemType
    BY <2>3, <2>4
  <2> QED BY <1>0, <2>1, <2>3, <2>4, <2>5
<1>2. Binding(item.sub, "enter") \in Menus \cup {None} /\ Binding(item.sub, "load") \in Menus \cup {None}
  BY <1>1 DEF Binding, ItemType
<1> DEFINE new == [list |-> Binding(item.sub, "enter"), select_item |-> 0,
                   show_base_item |-> ctrl[cur + 1].show_base_item,
                   parent |-> cur, load |-> Binding(item.sub, "load")]
           picked == [ctrl[cur] EXCEPT !.select_item = i]
<1>3. cur + 1 \in 1..MaxDepth /\ cur \in 1..MaxDepth /\ cur # cur + 1
  BY <1>0, <1>1
<1>4. ctrl \in [1..MaxDepth -> BlockType] /\ ctrl[cur + 1] \in BlockType
  BY <1>3 DEF Stack, StackTypeOK
<1>5. /\ cur' = cur + 1 /\ depth' = cur + 1 /\ pending' = Binding(item.sub, "load")
      /\ open' = Append(open, <<Here.list, i>>)
      /\ ctrl' = [ctrl EXCEPT ![cur].select_item = i, ![cur + 1] = new]
  BY <1>1, <1>3, <1>4 DEF EnterItem
<1>6. new \in BlockType /\ new.parent = cur
  BY <1>0, <1>1, <1>2, <1>3, <1>4, SMTT(20) DEF BlockType, Level
<1>7. /\ picked \in BlockType /\ picked.parent = ctrl[cur].parent
      /\ picked.list = ctrl[cur].list /\ picked.select_item = i
  BY <1>1 DEF BlockType
<1> HIDE DEF new, picked
<1>8. ctrl' = [k \in 1..MaxDepth |-> IF k = cur + 1 THEN new
                                     ELSE IF k = cur THEN picked ELSE ctrl[k]]
  BY <1>3, <1>4, <1>5 DEF picked
<1>9. ctrl' \in [1..MaxDepth -> BlockType]
  BY <1>4, <1>6, <1>7, <1>8
<1>10. /\ \A k \in 1..cur - 1 : ctrl'[k] = ctrl[k]
       /\ ctrl'[cur] = picked /\ ctrl'[cur + 1] = new
  BY <1>0, <1>3, <1>8
<1>11. StackTypeOK'
  <2>1. open' \in Seq((Menus \cup {None}) \X Nat)
    BY <1>1, <1>5 DEF Stack, StackTypeOK
  <2>2. cur' \in Level /\ depth' \in Level
    BY <1>0, <1>3, <1>5 DEF Level
  <2> QED BY <1>2, <1>5, <1>9, <2>1, <2>2 DEF StackTypeOK
<1>12. DepthAgrees'
  <2>1. ASSUME NEW k \in 1..cur + 1 PROVE ctrl'[k].parent = k - 1
    <3>1. CASE k = cur + 1
      BY <3>1, <1>3, <1>6, <1>10
    <3>2. CASE k = cur
      BY <3>2, <1>3, <1>7, <1>10 DEF Stack, DepthAgrees
    <3>3. CASE k \in 1..cur - 1
      BY <3>3, <1>3, <1>10 DEF Stack, DepthAgrees
    <3> QED BY <3>1, <3>2, <3>3, <1>3
  <2> QED BY <1>5, <2>1 DEF DepthAgrees
<1>13. OpenIsPath'
  <2>1. /\ open \in Seq((Menus \cup {None}) \X Nat) /\ Len(open) = cur - 1
        /\ \A k \in 1..cur-1 : open[k] = <<ctrl[k].list, ctrl[k].select_item>>
    BY DEF Stack, StackTypeOK, OpenIsPath
  <2>2. <<Here.list, i>> \in (Menus \cup {None}) \X Nat
    BY <1>1
  <2>3. /\ Len(open') = cur /\ open'[cur] = <<Here.list, i>>
        /\ \A k \in 1..cur-1 : open'[k] = open[k]
    BY <2>1, <2>2, <1>3, <1>5
  <2>4. ASSUME NEW k \in 1..cur PROVE open'[k] = <<ctrl'[k].list, ctrl'[k].select_item>>
    <3>1. CASE k = cur
      BY <3>1, <2>3, <1>7, <1>10 DEF Here
    <3>2. CASE k \in 1..cur - 1
      BY <3>2, <2>1, <2>3, <1>10
    <3> QED BY <3>1, <3>2, <1>3
  <2>5. cur' - 1 = cur
    BY <1>3, <1>5
  <2> QED BY <2>3, <2>4, <2>5 DEF OpenIsPath
<1> QED BY <1>5, <1>11, <1>12, <1>13 DEF Stack

\* menu_exit goes back to the block below, and its callback is that of the item entered.
LEMMA LeaveStep ==
    ASSUME Stack, cur # 0, Here.parent # 0, NEW r \in BOOLEAN, Leave(r)
    PROVE  Stack' /\ cur' = cur - 1 /\ cur' # 0
<1>0. MaxDepth \in Nat /\ Byte \in Nat /\ Byte >= 2
  BY Constants
<1>1. /\ cur \in 2..MaxDepth /\ depth = cur /\ Here.parent = cur - 1
      /\ \A k \in 1..cur : ctrl[k].parent = k - 1
  BY <1>0 DEF Stack, StackTypeOK, DepthAgrees, Level, Here
<1>2. cur - 1 \in 1..MaxDepth /\ cur \in 1..MaxDepth /\ cur - 1 # cur
  BY <1>0, <1>1
<1>3. ctrl \in [1..MaxDepth -> BlockType] /\ ctrl[cur] \in BlockType /\ ctrl[cur - 1] \in BlockType
  BY <1>2 DEF Stack, StackTypeOK
<1> DEFINE free == Unused(ctrl[cur].show_base_item)
           back == IF r THEN [ctrl[cur - 1] EXCEPT !.select_item = 0] ELSE ctrl[cur - 1]
<1>4. free \in BlockType
  <2>1. ctrl[cur].show_base_item \in 0..Byte - 1
    BY <1>3 DEF BlockType
  <2> QED BY <2>1, UnusedType DEF free
<1>5. back \in BlockType /\ back.parent = ctrl[cur - 1].parent
  <2>1. ctrl[cur - 1] \in BlockType /\ 0 \in 0..Byte - 1
    BY <1>0, <1>3
  <2>3. [ctrl[cur - 1] EXCEPT !.select_item = 0] \in BlockType
    BY <2>1 DEF BlockType
  <2>2. [ctrl[cur - 1] EXCEPT !.select_item = 0].parent = ctrl[cur - 1].parent
    BY <1>3 DEF BlockType
  <2> QED BY <1>3, <2>2, <2>3
<1>6. /\ cur' = cur - 1 /\ depth' = cur - 1 /\ pending' = ctrl[cur - 1].load
      /\ open' = SubSeq(open, 1, Len(open) - 1)
      /\ ctrl' = IF r THEN [[ctrl EXCEPT ![cur] = free] EXCEPT ![cur - 1].select_item = 0]
                 ELSE [ctrl EXCEPT ![cur] = free]
  BY <1>1 DEF Leave, Deleted, Restarted, Freed
<1> HIDE DEF free
<1>7. ctrl' = [k \in 1..MaxDepth |-> IF k = cur THEN free ELSE IF k = cur - 1 THEN back ELSE ctrl[k]]
  <2>1. CASE r
    BY <2>1, <1>2, <1>3, <1>6
  <2>2. CASE ~r
    BY <2>2, <1>2, <1>3, <1>6
  <2> QED BY <2>1, <2>2
<1> HIDE DEF back
<1>8. ctrl' \in [1..MaxDepth -> BlockType]
  BY <1>3, <1>4, <1>5, <1>7
<1>9. (\A k \in 1..cur - 2 : ctrl'[k] = ctrl[k]) /\ ctrl'[cur - 1] = back
  BY <1>0, <1>1, <1>2, <1>7
<1>10. /\ open \in Seq((Menus \cup {None}) \X Nat) /\ Len(open) = cur - 1
       /\ \A k \in 1..cur-1 : open[k] = <<ctrl[k].list, ctrl[k].select_item>>
  BY <1>1 DEF Stack, StackTypeOK, OpenIsPath
<1>11. /\ open' \in Seq((Menus \cup {None}) \X Nat) /\ Len(open') = cur - 2
       /\ \A k \in 1..cur-2 : open'[k] = open[k]
  BY <1>1, <1>6, <1>10
<1>12. StackTypeOK'
  <2>1. pending' \in Menus \cup {None}
    BY <1>3, <1>6 DEF BlockType
  <2>2. cur' \in Level /\ depth' \in Level
    BY <1>0, <1>2, <1>6 DEF Level
  <2> QED BY <1>8, <1>11, <2>1, <2>2 DEF StackTypeOK
<1>13. DepthAgrees'
  <2>1. ASSUME NEW k \in 1..cur - 1 PROVE ctrl'[k].parent = k - 1
    <3>1. CASE k = cur - 1
      BY <3>1, <1>1, <1>2, <1>5, <1>9
    <3>2. CASE k \in 1..cur - 2
      BY <3>2, <1>1, <1>9
    <3> QED BY <3>1, <3>2, <1>1
  <2> QED BY <1>6, <2>1 DEF DepthAgrees
<1>14. OpenIsPath'
  <2>1. ASSUME NEW k \in 1..cur - 2 PROVE open'[k] = <<ctrl'[k].list, ctrl'[k].select_item>>
    <3>1. k \in 1..cur - 1 /\ ctrl'[k] = ctrl[k] /\ open'[k] = open[k]
      BY <1>1, <1>9, <1>11
    <3>2. open[k] = <<ctrl[k].list, ctrl[k].select_item>>
      BY <3>1, <1>10
    <3> QED BY <3>1, <3>2
  <2>2. cur' - 1 = cur - 2
    BY <1>1, <1>6
  <2> QED BY <1>11, <2>1, <2>2 DEF OpenIsPath
<1> QED BY <1>1, <1>6, <1>12, <1>13, <1>14 DEF Stack

\* A change of the current block that leaves its parent alone.
LEMMA TopStep ==
    ASSUME Stack, cur # 0, NEW b \in BlockType, b.parent = ctrl[cur].parent,
           ctrl' = [ctrl EXCEPT ![cur] = b],
           cur' = cur, depth' = depth, open' = open, pending' \in Menus \cup {None}
    PROVE  Stack'
<1>0. MaxDepth \in Nat
  BY Constants
<1>1. cur \in 1..MaxDepth /\ ctrl \in [1..MaxDepth -> BlockType]
  BY <1>0 DEF Stack, StackTypeOK, Level
<1>2. ctrl' \in [1..MaxDepth -> BlockType]
  BY <1>1
<1>3. (\A k \in 1..cur - 1 : ctrl'[k] = ctrl[k]) /\ ctrl'[cur] = b
  BY <1>0, <1>1
<1>4. StackTypeOK'
  BY <1>2 DEF Stack, StackTypeOK
<1>5. DepthAgrees'
  <2>1. ASSUME NEW k \in 1..cur PROVE ctrl'[k].parent = k - 1
    <3>1. CASE k = cur
      BY <3>1, <1>1, <1>3 DEF Stack, DepthAgrees
    <3>2. CASE k \in 1..cur - 1
      BY <3>2, <1>1, <1>3 DEF Stack, DepthAgrees
    <3> QED BY <3>1, <3>2, <1>1
  <2> QED BY <2>1 DEF Stack, DepthAgrees
<1>6. OpenIsPath'
  BY <1>3 DEF Stack, OpenIsPath
<1> QED BY <1>4, <1>5, <1>6 DEF Stack

\* What the callbacks bind.
LEMMA BoundStep ==
    ASSUME Stack, cur # 0, NEW m \in Menus \cup {None}
    PROVE  \E b \in BlockType : /\ Bound(ctrl, cur, m) = [ctrl EXCEPT ![cur] = b]
                                /\ b.parent = ctrl[cur].parent
<1>1. cur \in 1..MaxDepth /\ ctrl \in [1..MaxDepth -> BlockType] /\ ctrl[cur] \in BlockType
  BY Constants DEF Stack, StackTypeOK, Level
<1> DEFINE b == IF ctrl[cur].list = None THEN [ctrl[cur] EXCEPT !.list = m] ELSE ctrl[cur]
<1>2. b \in BlockType /\ b.parent = ctrl[cur].parent
  BY <1>1 DEF BlockType
<1>3. Bound(ctrl, cur, m) = [ctrl EXCEPT ![cur] = b]
  BY <1>1 DEF Bound
<1> QED BY <1>2, <1>3

LEMMA Remainder == \A i \in Int : i % Byte \in 0..Byte - 1
<1>1. \A i \in Int, n \in Nat \ {0} : i % n \in 0..n - 1
  OBVIOUS
<1>2. Byte \in Nat \ {0}
  BY Constants
<1> QED BY <1>1, <1>2

\* The selection functions change what is selected in the current menu, no more.
LEMMA SelectStep ==
    ASSUME Stack, cur # 0, NEW i \in Int, Select(i) \/ SelectPage(i)
    PROVE  Stack'
<1>1. cur \in 1..MaxDepth /\ ctrl \in [1..MaxDepth -> BlockType] /\ ctrl[cur] \in BlockType
  BY Constants DEF Stack, StackTypeOK, Level
<1>2. 0 \in 0..Byte - 1
  BY Constants
<1>3. PICK r \in 0..Byte - 1 : r = i % Byte
  BY Remainder, Zenon
<1>4. CASE Select(i)
  <2> DEFINE b == [ctrl[cur] EXCEPT !.select_item = r]
  <2>1. b \in BlockType /\ b.parent = ctrl[cur].parent
    BY <1>1, <1>3 DEF BlockType
  <2>2. ctrl' = [ctrl EXCEPT ![cur] = b] /\ pending' \in Menus \cup {None}
    BY <1>1, <1>3, <1>4 DEF Select, Stack, StackTypeOK
  <2>3. cur' = cur /\ depth' = depth /\ open' = open
    BY <1>4 DEF Select
  <2> HIDE DEF b
  <2> QED BY <2>1, <2>2, <2>3, TopStep
<1>5. CASE SelectPage(i)
  <2> DEFINE b == [ctrl[cur] EXCEPT !.select_item = r, !.show_base_item = 0]
  <2>1. b \in BlockType /\ b.parent = ctrl[cur].parent
    BY <1>1, <1>2, <1>3 DEF BlockType
  <2>2. ctrl' = [ctrl EXCEPT ![cur] = b] /\ pending' \in Menus \cup {None}
    BY <1>1, <1>3, <1>5 DEF SelectPage, Stack, StackTypeOK
  <2>3. cur' = cur /\ depth' = depth /\ open' = open
    BY <1>5 DEF SelectPage
  <2> HIDE DEF b
  <2> QED BY <2>1, <2>2, <2>3, TopStep
<1> QED BY <1>4, <1>5

LEMMA SameStack ==
    ASSUME Stack, UNCHANGED <<cur, depth, ctrl, pending, open>>
    PROVE  Stack'
BY DEF Stack, StackTypeOK, DepthAgrees, OpenIsPath

\* What every operation but the search leaves as it is.
LEMMA Operation ==
    ASSUME TypeOK, Called, Stack', look' = look, entered' \in BOOLEAN,
           lost' \in {"no", "hung", "wild"}, bindIn' = bindIn, dropped' \in 0..MaxDropped
    PROVE  IInv'
<1>1. TypeOK'
  BY DEF TypeOK, Stack, LookType, Level
<1>2. LookLevels'
  BY DEF Called, LookLevels, Idle
<1> QED BY <1>1, <1>2 DEF IInv, Stack

\* Only what is on the stack can be dropped.
LEMMA DroppedStep == ASSUME IInv, [Next]_vars PROVE dropped' \in 0..MaxDropped
<1>1. /\ dropped \in Nat /\ MaxDropped \in Nat /\ dropped <= MaxDropped
      /\ cur \in Nat /\ MaxDepth \in Nat
  BY MenuAssumption DEF IInv, TypeOK, StackTypeOK, Level
<1>2. ASSUME NEW n \in Nat, Dropped(n) PROVE dropped' \in 0..MaxDropped
  BY <1>1, <1>2 DEF Dropped
<1>3. Len(open) \in Nat /\ (cur # 0 => Len(open) = cur - 1)
  BY DEF IInv, TypeOK, StackTypeOK, OpenIsPath
<1>4. CASE Reset
  BY <1>2, <1>3, <1>4 DEF Reset
<1>5. CASE DeInit
  <2>1. CASE entered /\ Here.parent = 0
    BY <1>1, <1>5, <2>1 DEF DeInit
  <2>2. CASE entered /\ Here.parent # 0
    <3>1. cur # 0 /\ Dropped(Len(open) - 1)
      BY <1>5, <2>2 DEF DeInit
    <3>2. ctrl[cur].parent = cur - 1
      BY <1>1, <3>1 DEF IInv, DepthAgrees
    <3>3. Len(open) - 1 \in Nat
      BY <1>1, <1>3, <2>2, <3>1, <3>2 DEF Here
    <3> QED BY <1>2, <3>1, <3>3
  <2>3. CASE ~entered
    BY <1>2, <1>3, <1>5, <2>3 DEF DeInit
  <2> QED BY <2>1, <2>2, <2>3
<1>6. CASE ~(Reset \/ DeInit)
  <2>1. dropped' = dropped
    BY <1>6 DEF Next, MenuInit, MainEnter, MainExit, Enter, Exit, SelectPrevious, SelectNext,
       SelectPreviousPage, SelectNextPage, JumpItem, Select, SelectPage, Task, LookBegin,
       LookFound, LookInto, LookHang, LookPast, LookOut, LookEnd, Gone, vars
  <2> QED BY <1>1, <2>1
<1> QED BY <1>4, <1>5, <1>6

----------------------------------------------------------------------------
LEMMA BoundKeeps ==
    ASSUME Stack, cur # 0, NEW m \in Menus \cup {None}, ctrl' = Bound(ctrl, cur, m),
           UNCHANGED <<cur, depth, open>>, pending' \in Menus \cup {None}
    PROVE  Stack'
<1>1. PICK b \in BlockType : /\ Bound(ctrl, cur, m) = [ctrl EXCEPT ![cur] = b]
                             /\ b.parent = ctrl[cur].parent
  BY BoundStep
<1> QED BY <1>1, TopStep

\* Starting, entering and ending the main menu, and the return to it.
LEMMA MenuInitStep == ASSUME IInv, MenuInit PROVE Stack'
<1>0. MaxDepth \in Nat /\ MaxDepth >= 1 /\ Byte \in Nat /\ Byte >= 2 /\ Main \in Menus
  BY Constants
<1>1. Binding(Main, "load") \in Menus \cup {None}
  BY <1>0 DEF Binding
<1> DEFINE new == [Unused(0) EXCEPT !.load = Binding(Main, "load")]
<1>2. new \in BlockType /\ new.parent = 0
  BY <1>0, <1>1 DEF Unused, BlockType, Level
<1>3. ctrl' = [ctrl EXCEPT ![1] = new] /\ cur' = 1 /\ depth' = 1 /\ open' = open
      /\ pending' = Binding(Main, "load")
  BY DEF MenuInit
<1> HIDE DEF new
<1>4. ctrl \in [1..MaxDepth -> BlockType] /\ 1 \in 1..MaxDepth
  BY <1>0 DEF IInv, TypeOK, StackTypeOK
<1>5. ctrl' \in [1..MaxDepth -> BlockType] /\ ctrl'[1] = new
  BY <1>2, <1>3, <1>4
<1>6. open' \in Seq((Menus \cup {None}) \X Nat) /\ Len(open') = 0
  BY <1>3 DEF MenuInit, IInv, TypeOK, StackTypeOK, OpenIsPath
<1>7. StackTypeOK'
  BY <1>0, <1>1, <1>3, <1>5, <1>6 DEF StackTypeOK, Level
<1>8. DepthAgrees' /\ OpenIsPath'
  BY <1>2, <1>3, <1>5, <1>6 DEF DepthAgrees, OpenIsPath
<1> QED BY <1>7, <1>8 DEF Stack

LEMMA ResetStep == ASSUME IInv, Reset PROVE Stack'
<1>0. MaxDepth \in Nat /\ MaxDepth >= 1 /\ Byte \in Nat /\ Byte >= 2
  BY Constants
<1>1. /\ cur \in 1..MaxDepth /\ depth = cur /\ ctrl[1].parent = 0
      /\ ctrl \in [1..MaxDepth -> BlockType] /\ ctrl[1] \in BlockType
  BY <1>0 DEF Reset, Ready, IInv, TypeOK, StackTypeOK, DepthAgrees, Level
<1> DEFINE top == [ctrl[1] EXCEPT !.select_item = 0]
<1>2. top \in BlockType /\ top.parent = 0
  BY <1>0, <1>1, SMTT(20) DEF BlockType
<1>3. \A k \in 1..MaxDepth : Unused(ctrl[k].show_base_item) \in BlockType
  <2> SUFFICES ASSUME NEW k \in 1..MaxDepth PROVE Unused(ctrl[k].show_base_item) \in BlockType
    OBVIOUS
  <2>1. ctrl[k].show_base_item \in 0..Byte - 1
    BY <1>1 DEF BlockType
  <2> QED BY <2>1, UnusedType
<1>4. /\ ctrl' = [k \in 1..MaxDepth |-> IF k = 1 THEN top ELSE Unused(ctrl[k].show_base_item)]
      /\ cur' = 1 /\ depth' = 1 /\ open' = <<>> /\ pending' = pending
  BY <1>1 DEF Reset
<1> HIDE DEF top
<1>5. ctrl' \in [1..MaxDepth -> BlockType] /\ ctrl'[1] = top
  BY <1>0, <1>2, <1>3, <1>4
<1>6. open' \in Seq((Menus \cup {None}) \X Nat) /\ Len(open') = 0
  BY <1>4
<1>7. StackTypeOK'
  BY <1>0, <1>4, <1>5, <1>6 DEF IInv, TypeOK, StackTypeOK, Level
<1>8. DepthAgrees' /\ OpenIsPath'
  BY <1>2, <1>4, <1>5, <1>6 DEF DepthAgrees, OpenIsPath
<1> QED BY <1>7, <1>8 DEF Stack

LEMMA DeInitStep == ASSUME IInv, DeInit PROVE Stack'
<1>0. MaxDepth \in Nat /\ MaxDepth >= 1
  BY Constants
<1>1. /\ cur \in 1..MaxDepth /\ depth = cur /\ ctrl[cur].parent = cur - 1
      /\ ctrl \in [1..MaxDepth -> BlockType]
      /\ open \in Seq((Menus \cup {None}) \X Nat) /\ Len(open) = cur - 1
  BY <1>0 DEF DeInit, IInv, TypeOK, StackTypeOK, DepthAgrees, OpenIsPath, Level
<1>2. CASE entered /\ Here.parent = 0
  BY <1>2, SameStack DEF DeInit, Hang, IInv, TypeOK, Stack
<1>3. CASE ~(entered /\ Here.parent = 0)
  <2>1. \A k \in 1..MaxDepth : Unused(ctrl[k].show_base_item) \in BlockType
    <3> SUFFICES ASSUME NEW k \in 1..MaxDepth PROVE Unused(ctrl[k].show_base_item) \in BlockType
      OBVIOUS
    <3>1. ctrl[k].show_base_item \in 0..Byte - 1
      BY <1>1 DEF BlockType
    <3> QED BY <3>1, UnusedType
  <2>2. ctrl' = [k \in 1..MaxDepth |-> Unused(ctrl[k].show_base_item)]
    BY <1>3 DEF DeInit
  <2>3. ctrl' \in [1..MaxDepth -> BlockType]
    BY <2>1, <2>2
  <2>4. depth' \in Level /\ cur' = 0 /\ pending' = None
    BY <1>0, <1>1, <1>3 DEF DeInit, Deleted, Level
  <2>5. open' \in Seq((Menus \cup {None}) \X Nat) /\ Len(open') = 0
    <3>1. open' = <<>>
      BY <1>3, Zenon DEF DeInit
    <3> QED BY <3>1
  <2> QED BY <1>0, <2>3, <2>4, <2>5 DEF Stack, StackTypeOK, DepthAgrees, OpenIsPath, Level
<1> QED BY <1>2, <1>3

\* The selection functions compute an int, whatever the list and the selection are.
LEMMA SelectionInt ==
    ASSUME IInv, SelectPrevious \/ SelectNext \/ SelectPreviousPage \/ SelectNextPage \/ JumpItem
    PROVE  cur # 0 /\ Stack /\ \E i \in Int : Select(i) \/ SelectPage(i)
<1>0. MaxDepth \in Nat /\ Byte \in Nat /\ Byte >= 2 /\ ShowNum \in Nat /\ ShowNum >= 1
  BY Constants
<1>1. cur # 0 /\ Stack
  BY DEF SelectPrevious, SelectNext, SelectPreviousPage, SelectNextPage, JumpItem, Ready,
         IInv, TypeOK, Stack
<1>2. Here \in BlockType
  BY <1>0, <1>1 DEF Stack, StackTypeOK, Level, Here
<1>3. Here.select_item \in Int
  BY <1>0, <1>2 DEF BlockType
<1>4. items_num \in Int
  <2>1. Here.list \in Menus \cup {None}
    BY <1>2 DEF BlockType
  <2>2. CASE Here.list = None
    BY <2>2 DEF items_num, NumItems
  <2>3. CASE Here.list # None
    <3>1. Len(Items[Here.list]) \in 1..Byte - 1
      BY <2>1, <2>3, Constants
    <3> QED BY <1>0, <2>3, <3>1 DEF items_num, NumItems
  <2> QED BY <2>2, <2>3
<1>5. \A a \in Int, n \in Nat \ {0} : a \div n \in Int
  OBVIOUS
<1>6. page_no \in Int
  BY <1>0, <1>3, <1>5 DEF page_no
<1>7. LastPage \in Int
  <2>1. items_num - 1 \in Int /\ -(items_num - 1) \in Int /\ ShowNum \in Nat \ {0}
    BY <1>0, <1>4
  <2>2. (items_num - 1) \div ShowNum \in Int /\ (-(items_num - 1)) \div ShowNum \in Int
    BY <1>5, <2>1, Zenon
  <2>3. PICK x \in Int, y \in Int : x = (items_num - 1) \div ShowNum
                                    /\ y = (-(items_num - 1)) \div ShowNum
    BY <2>2, Zenon
  <2>4. LastPage = IF items_num - 1 < 0 THEN -y ELSE x
    BY <2>3, Zenon DEF LastPage, Quotient
  <2> QED BY <2>3, <2>4
<1>8. \E i \in Int : Select(i) \/ SelectPage(i)
  <2>1. CASE SelectPrevious
    <3>1. PICK roll \in BOOLEAN :
             Select(IF Here.select_item > 0 THEN Here.select_item - 1
                    ELSE IF roll THEN items_num - 1 ELSE 0)
      BY <2>1 DEF SelectPrevious
    <3>2. (IF Here.select_item > 0 THEN Here.select_item - 1
           ELSE IF roll THEN items_num - 1 ELSE 0) \in Int
      BY <1>3, <1>4
    <3> QED BY <3>1, <3>2, Zenon
  <2>2. CASE SelectNext
    <3>1. PICK roll \in BOOLEAN :
             Select(IF Here.select_item < items_num - 1 THEN Here.select_item + 1
                    ELSE IF roll THEN 0 ELSE items_num - 1)
      BY <2>2 DEF SelectNext
    <3>2. (IF Here.select_item < items_num - 1 THEN Here.select_item + 1
           ELSE IF roll THEN 0 ELSE items_num - 1) \in Int
      BY <1>3, <1>4
    <3> QED BY <3>1, <3>2, Zenon
  <2>3. CASE SelectPreviousPage
    <3>1. ((IF page_no > 0 THEN page_no - 1 ELSE LastPage) * ShowNum) \in Int
      BY <1>0, <1>6, <1>7
    <3> QED BY <2>3, <3>1, Zenon DEF SelectPreviousPage
  <2>4. CASE SelectNextPage
    <3>1. (IF page_no < LastPage THEN (page_no + 1) * ShowNum ELSE 0) \in Int
      BY <1>0, <1>6, <1>7
    <3> QED BY <2>4, <3>1, Zenon DEF SelectNextPage
  <2>5. CASE JumpItem
    <3>1. PICK index \in 0 .. items_num - 1 : SelectPage(index)
      BY <2>5 DEF JumpItem
    <3>2. index \in Int
      BY <1>4
    <3> QED BY <3>1, <3>2
  <2> QED BY <2>1, <2>2, <2>3, <2>4, <2>5
<1> QED BY <1>1, <1>8

LEMMA SelectionStep ==
    ASSUME IInv, SelectPrevious \/ SelectNext \/ SelectPreviousPage \/ SelectNextPage \/ JumpItem
    PROVE  Stack'
BY SelectionInt, SelectStep

\* menu_task binds the list it was asked to and moves the page, no more.
LEMMA TaskStep == ASSUME IInv, Task PROVE Stack'
<1>0. Byte \in Nat /\ Byte >= 2 /\ MaxDepth \in Nat /\ ShowNum \in Nat
  BY Constants
<1>1. cur # 0 /\ Stack /\ pending \in Menus \cup {None}
  BY DEF Task, Ready, IInv, TypeOK, Stack, StackTypeOK
<1>2. cur \in 1..MaxDepth /\ ctrl \in [1..MaxDepth -> BlockType] /\ ctrl[cur] \in BlockType
  BY <1>0, <1>1 DEF Stack, StackTypeOK, Level
<1>3. PICK b \in BlockType : /\ Bound(ctrl, cur, pending) = [ctrl EXCEPT ![cur] = b]
                             /\ b.parent = ctrl[cur].parent
  BY <1>1, BoundStep
<1> DEFINE c == [ctrl EXCEPT ![cur] = b]
<1>4. cur' = cur /\ depth' = depth /\ open' = open /\ pending' \in Menus \cup {None}
  BY DEF Task
<1>5. c[cur] = b
  BY <1>2
<1>6. ctrl' = IF b.list = None THEN c ELSE [c EXCEPT ![cur].show_base_item = Limited(b) % Byte]
  BY <1>3, <1>5, Zenon DEF Task
<1>7. CASE b.list = None
  BY <1>1, <1>3, <1>4, <1>6, <1>7, TopStep
<1>8. CASE b.list # None
  <2>1. Limited(b) \in Int
    <3>1. b.select_item \in Int /\ b.show_base_item \in Int /\ b.list \in Menus
      BY <1>0, <1>8 DEF BlockType
    <3>2. NumItems(b.list) \in Int
      <4>1. Len(Items[b.list]) \in 1..Byte - 1
        BY <3>1, Constants
      <4> QED BY <1>0, <1>8, <4>1 DEF NumItems
    <3> QED BY <1>0, <3>1, <3>2 DEF Limited, Smaller
  <2>2. PICK r \in 0..Byte - 1 : r = Limited(b) % Byte
    BY <2>1, Remainder, Zenon
  <2> DEFINE d == [b EXCEPT !.show_base_item = r]
  <2>3. d \in BlockType /\ d.parent = ctrl[cur].parent
    BY <1>3 DEF BlockType
  <2>4. ctrl' = [c EXCEPT ![cur].show_base_item = r]
    BY <1>6, <1>8, <2>2
  <2>5. ctrl' = [ctrl EXCEPT ![cur] = d]
    BY <1>2, <2>4
  <2> HIDE DEF d
  <2> QED BY <1>1, <1>4, <2>3, <2>5, TopStep
<1> QED BY <1>7, <1>8

----------------------------------------------------------------------------
\* The search: a call more is a level more.
LEMMA LookStep ==
    ASSUME IInv,
           LookFound \/ LookInto \/ LookHang \/ LookPast \/ LookOut \/ LookEnd
    PROVE  Stack' /\ look' \in LookType /\ LookLevels' /\ lost' \in {"no", "hung", "wild"}
<1>0. MaxDepth \in Nat /\ Byte \in Nat /\ Byte >= 2
  BY Constants
<1>1. Looking /\ lost = "no" /\ look # Idle
  BY DEF LookFound, LookInto, LookHang, LookPast, LookOut, LookEnd, Looking
<1>2. /\ look.no \in Nat /\ look.at \in Seq(Nat) /\ look.from \in Level
      /\ look.opened \in Seq((Menus \cup {None}) \X Nat)
      /\ look = [no |-> look.no, at |-> look.at, from |-> look.from, opened |-> look.opened]
  BY DEF IInv, TypeOK, LookType
<1>3. /\ look.from \in 1..cur /\ Len(look.at) >= 1 /\ cur = look.from + Len(look.at) - 1
      /\ cur \in 1..MaxDepth /\ look.from \in Int
  BY <1>0, <1>1 DEF IInv, TypeOK, StackTypeOK, LookLevels, Level
<1>4. Stack /\ cur # 0 /\ bindIn \in {"enter", "load"}
  BY <1>3 DEF IInv, TypeOK, Stack
<1>5. LookAt \in Nat
  BY <1>2, <1>3 DEF LookAt
<1>6. Idle \in LookType
  BY <1>0 DEF Idle, LookType, Level
<1>7. ASSUME look' = Idle, Stack', lost' = lost
      PROVE  Stack' /\ look' \in LookType /\ LookLevels' /\ lost' \in {"no", "hung", "wild"}
  BY <1>1, <1>6, <1>7 DEF LookLevels, Idle
<1>8. CASE LookFound
  <2>1. LookAt < items_num /\ look' = Idle /\ lost' = lost
    BY <1>8 DEF LookFound
  <2>2. CASE CanEnter
    <3>1. EnterItem(LookAt) /\ depth < MaxDepth
      BY <1>8, <2>2 DEF LookFound, CanEnter
    <3> QED BY <1>4, <1>5, <1>7, <2>1, <3>1, EnterStep
  <2>3. CASE ~CanEnter
    <3>1. ctrl' = Selected /\ UNCHANGED <<cur, depth, pending, open>>
      BY <1>8, <2>3 DEF LookFound
    <3>2. LookAt \in 0..Byte - 1
      <4>1. ctrl[cur] \in BlockType /\ Here.list \in Menus \cup {None}
        BY <1>3, <1>4 DEF Stack, StackTypeOK, Here, BlockType
      <4>2. Here.list # None
        BY <1>5, <2>1 DEF items_num, NumItems
      <4>3. Len(Items[Here.list]) \in 1..Byte - 1
        BY <4>1, <4>2, Constants
      <4> QED BY <1>0, <1>5, <2>1, <4>2, <4>3 DEF items_num, NumItems
    <3> DEFINE b == [ctrl[cur] EXCEPT !.select_item = LookAt]
    <3>3. b \in BlockType /\ b.parent = ctrl[cur].parent
      BY <1>3, <1>4, <3>2 DEF Stack, StackTypeOK, BlockType
    <3>4. ctrl' = [ctrl EXCEPT ![cur] = b]
      BY <1>3, <1>4, <3>1 DEF Selected, Stack, StackTypeOK
    <3>5. pending' \in Menus \cup {None}
      BY <1>4, <3>1 DEF Stack, StackTypeOK
    <3> HIDE DEF b
    <3>6. Stack'
      BY <1>4, <3>1, <3>3, <3>4, <3>5, TopStep
    <3> QED BY <1>7, <2>1, <3>6
  <2> QED BY <2>2, <2>3
<1>9. CASE LookInto
  <2>1. LookAt < items_num /\ EnterItem(LookAt) /\ depth < MaxDepth /\ lost' = lost
        /\ look' = [look EXCEPT !.at = Append(@, 0)]
    BY <1>9 DEF LookInto, CanEnter
  <2>2. Stack' /\ cur' = cur + 1
    BY <1>4, <1>5, <2>1, EnterStep
  <2>3. Append(look.at, 0) \in Seq(Nat) /\ Len(Append(look.at, 0)) = Len(look.at) + 1
    BY <1>2
  <2>4. look' = [no |-> look.no, at |-> Append(look.at, 0), from |-> look.from, opened |-> look.opened]
    BY <1>2, <2>1
  <2>5. look' \in LookType
    BY <1>2, <2>3, <2>4 DEF LookType
  <2>6. LookLevels'
    <3>1. look'.from = look.from /\ look'.at = Append(look.at, 0)
      BY <2>4
    <3>2. Len(look.at) \in Nat /\ Len(look'.at) = Len(look.at) + 1
      BY <1>2, <2>3, <3>1
    <3> QED BY <1>3, <2>2, <3>1, <3>2 DEF LookLevels
  <2> QED BY <1>1, <2>1, <2>2, <2>5, <2>6
<1>10. CASE LookHang
  <2>1. UNCHANGED <<cur, depth, ctrl, pending, open, look>> /\ lost' = "hung"
    BY <1>10 DEF LookHang, Hang
  <2> QED BY <1>4, <2>1, SameStack DEF IInv, TypeOK, LookLevels
<1>11. CASE LookPast
  <2>1. UNCHANGED <<cur, depth, ctrl, pending, open, lost>>
        /\ look' = [look EXCEPT !.at = Onwards(@)]
    BY <1>11 DEF LookPast
  <2>2. Onwards(look.at) \in Seq(Nat) /\ Len(Onwards(look.at)) = Len(look.at)
    <3>1. [look.at EXCEPT ![Len(look.at)] = @ + 1] \in Seq(Nat)
          /\ Len([look.at EXCEPT ![Len(look.at)] = @ + 1]) = Len(look.at)
      BY <1>2, <1>3
    <3> QED BY <3>1 DEF Onwards
  <2>3. look' = [no |-> look.no, at |-> Onwards(look.at), from |-> look.from, opened |-> look.opened]
    BY <1>2, <2>1
  <2>4. look' \in LookType /\ LookLevels'
    <3>1. look'.from = look.from /\ look'.at = Onwards(look.at)
      BY <2>3
    <3>2. look' \in LookType
      BY <1>2, <2>2, <2>3 DEF LookType
    <3> QED BY <1>3, <2>1, <2>2, <3>1, <3>2 DEF LookLevels
  <2> QED BY <1>1, <1>4, <2>1, <2>4, SameStack
<1>12. CASE LookOut
  <2>1. Len(look.at) > 1 /\ Leave(FALSE) /\ lost' = lost
        /\ look' = [look EXCEPT !.at = Onwards(SubSeq(@, 1, Len(@) - 1))]
    BY <1>12 DEF LookOut
  <2>2. Here.parent # 0
    <3>1. cur >= 2
      BY <1>2, <1>3, <2>1
    <3>2. ctrl[cur].parent = cur - 1
      BY <1>3, <1>4 DEF Stack, DepthAgrees
    <3> QED BY <3>1, <3>2 DEF Here
  <2>3. Stack' /\ cur' = cur - 1
    BY <1>4, <2>1, <2>2, LeaveStep
  <2> DEFINE rest == SubSeq(look.at, 1, Len(look.at) - 1)
  <2>4. rest \in Seq(Nat) /\ Len(rest) = Len(look.at) - 1
    BY <1>2, <2>1
  <2> HIDE DEF rest
  <2>5. Onwards(rest) \in Seq(Nat) /\ Len(Onwards(rest)) = Len(rest)
    <3>1. [rest EXCEPT ![Len(rest)] = @ + 1] \in Seq(Nat)
          /\ Len([rest EXCEPT ![Len(rest)] = @ + 1]) = Len(rest)
      BY <1>2, <2>1, <2>4
    <3> QED BY <3>1 DEF Onwards
  <2>6. look' = [no |-> look.no, at |-> Onwards(rest), from |-> look.from, opened |-> look.opened]
    BY <1>2, <2>1 DEF rest
  <2>7. look' \in LookType
    BY <1>2, <2>5, <2>6 DEF LookType
  <2>8. LookLevels'
    <3>1. look'.from = look.from /\ look'.at = Onwards(rest)
      BY <2>6
    <3>2. Len(look.at) \in Nat /\ Len(look'.at) = Len(look.at) - 1
      BY <1>2, <2>4, <2>5, <3>1
    <3>3. /\ look'.from \in 1..cur' /\ Len(look'.at) >= 1
          /\ cur' = look'.from + Len(look'.at) - 1
      BY <1>3, <2>1, <2>3, <3>1, <3>2
    <3> QED BY <3>3 DEF LookLevels
  <2> QED BY <1>1, <2>1, <2>3, <2>7, <2>8
<1>13. CASE LookEnd
  <2>1. UNCHANGED <<cur, depth, ctrl, pending, open, lost>> /\ look' = Idle
    BY <1>13 DEF LookEnd
  <2> QED BY <1>4, <1>7, <2>1, SameStack
<1> QED BY <1>8, <1>9, <1>10, <1>11, <1>12, <1>13

LEMMA LookBeginStep == ASSUME IInv, LookBegin PROVE IInv'
<1>1. /\ cur # 0 /\ UNCHANGED <<cur, depth, ctrl, entered, pending, lost, bindIn, open, dropped>>
      /\ \E no \in 1 .. MaxWindow : look' = [no |-> no, at |-> <<0>>, from |-> cur, opened |-> open]
  BY DEF LookBegin
<1>2. Stack'
  BY <1>1, SameStack DEF IInv, TypeOK, Stack
<1>3. cur \in 1..MaxDepth /\ MaxDepth \in Nat
  BY <1>1, Constants DEF IInv, TypeOK, StackTypeOK, Level
<1>4. PICK no \in 1..MaxWindow : look' = [no |-> no, at |-> <<0>>, from |-> cur, opened |-> open]
  BY <1>1
<1>5. no \in Nat
  BY MenuAssumption
<1>6. <<0>> \in Seq(Nat) /\ Len(<<0>>) = 1
  OBVIOUS
<1>7. look' \in LookType
  BY <1>3, <1>4, <1>5, <1>6 DEF LookType, Level, IInv, TypeOK, StackTypeOK
<1>8. LookLevels'
  BY <1>1, <1>3, <1>4, <1>6 DEF LookLevels
<1> QED BY <1>1, <1>2, <1>7, <1>8 DEF IInv, TypeOK, Stack

LEMMA Initially == Init => IInv
<1> SUFFICES ASSUME Init PROVE IInv
  OBVIOUS
<1>0. MaxDepth \in Nat /\ Byte \in Nat /\ Byte >= 2
  BY Constants
<1>1. Unused(0) \in BlockType
  BY <1>0, UnusedType
<1>2. ctrl \in [1..MaxDepth -> BlockType]
  BY <1>1 DEF Init
<1>3. Idle \in LookType
  BY <1>0 DEF Idle, LookType, Level
<1>4. <<>> \in Seq((Menus \cup {None}) \X Nat)
  OBVIOUS
<1>5. StackTypeOK
  BY <1>0, <1>2, <1>4 DEF Init, StackTypeOK, Level
<1>6. TypeOK
  <2>1. MaxDropped \in Nat
    BY MenuAssumption
  <2>2. dropped \in 0..MaxDropped
    BY <2>1 DEF Init
  <2> QED BY <1>3, <1>5, <2>2 DEF Init, TypeOK
<1>7. DepthAgrees /\ OpenIsPath /\ LookLevels
  BY DEF Init, DepthAgrees, OpenIsPath, LookLevels
<1> QED BY <1>6, <1>7 DEF IInv

\* Every operation keeps the invariant, and so does every step of the search.
LEMMA EveryStep == IInv /\ [Next]_vars => IInv'
<1> SUFFICES ASSUME IInv, [Next]_vars PROVE IInv'
  OBVIOUS
<1>0. dropped' \in 0..MaxDropped
  BY DroppedStep
<1>1. /\ Stack /\ TypeOK /\ bindIn \in {"enter", "load"} /\ entered \in BOOLEAN
      /\ lost \in {"no", "hung", "wild"} /\ pending \in Menus \cup {None}
  BY DEF IInv, TypeOK, Stack, StackTypeOK
<1>2. CASE MenuInit
  BY <1>0, <1>1, <1>2, MenuInitStep, Operation DEF MenuInit
<1>3. CASE MainEnter
  <2>1. Binding(Main, "enter") \in Menus \cup {None}
    BY Constants DEF Binding
  <2>2. cur # 0 /\ ctrl' = Bound(ctrl, cur, Binding(Main, "enter"))
        /\ pending' = ctrl[cur].load /\ UNCHANGED <<cur, depth, open>>
    BY <1>3 DEF MainEnter
  <2>3. pending' \in Menus \cup {None}
    BY <1>1, <2>2, Constants DEF Stack, StackTypeOK, Level, BlockType
  <2>4. Stack'
    BY <1>1, <2>1, <2>2, <2>3, BoundKeeps
  <2> QED BY <1>0, <1>1, <1>3, <2>4, Operation DEF MainEnter
<1>4. CASE Enter
  <2>1. CASE HasItem(Here)
    <3>1. EnterItem(Here.select_item) /\ depth < MaxDepth /\ cur # 0
      BY <1>4, <2>1 DEF Enter, Ready
    <3>2. Here.select_item < items_num
      BY <2>1 DEF HasItem, items_num
    <3>3. Here.select_item \in Nat
      <4>1. cur \in 1..MaxDepth /\ ctrl \in [1..MaxDepth -> BlockType]
        BY <1>1, <3>1, Constants DEF Stack, StackTypeOK, Level
      <4>2. ctrl[cur].select_item \in 0..Byte - 1
        BY <4>1 DEF BlockType
      <4> QED BY <4>2, Constants DEF Here
    <3>4. Stack'
      BY <1>1, <3>1, <3>2, <3>3, EnterStep
    <3> QED BY <1>0, <1>1, <1>4, <2>1, <3>4, Operation DEF Enter
  <2>2. CASE ~HasItem(Here)
    <3>1. Stack'
      BY <1>1, <1>4, <2>2, SameStack DEF Enter
    <3> QED BY <1>0, <1>1, <1>4, <2>2, <3>1, Operation DEF Enter
  <2> QED BY <2>1, <2>2
<1>5. CASE Exit
  <2>1. PICK r \in BOOLEAN : Leave(r)
    BY <1>5 DEF Exit
  <2>2. Stack'
    BY <1>1, <1>5, <2>1, LeaveStep DEF Exit, Ready
  <2> QED BY <1>0, <1>1, <1>5, <2>2, Operation DEF Exit
<1>6. CASE MainExit
  <2>1. CASE Here.parent = 0
    <3>1. Stack'
      BY <1>1, <1>6, <2>1, SameStack DEF MainExit, Hang
    <3> QED BY <1>0, <1>1, <1>6, <2>1, <3>1, Operation DEF MainExit, Hang
  <2>2. CASE Here.parent # 0
    <3>1. Leave(TRUE) /\ cur # 0
      BY <1>6, <2>2 DEF MainExit, Ready
    <3>2. Stack'
      BY <1>1, <2>2, <3>1, LeaveStep
    <3> QED BY <1>0, <1>1, <1>6, <2>2, <3>2, Operation DEF MainExit
  <2> QED BY <2>1, <2>2
<1>7. CASE DeInit
  <2>1. Stack'
    BY <1>7, DeInitStep
  <2>2. Called /\ look' = look /\ bindIn' = bindIn /\ entered' \in BOOLEAN
        /\ lost' \in {"no", "hung", "wild"}
    BY <1>1, <1>7 DEF DeInit, Hang
  <2> QED BY <1>0, <1>1, <2>1, <2>2, Operation
<1>8. CASE Reset
  BY <1>0, <1>1, <1>8, ResetStep, Operation DEF Reset
<1>9. CASE SelectPrevious \/ SelectNext \/ SelectPreviousPage \/ SelectNextPage \/ JumpItem
  <2>1. Stack'
    BY <1>9, SelectionStep
  <2>2. Called /\ look' = look /\ bindIn' = bindIn /\ entered' = entered /\ lost' = lost
    BY <1>9, Zenon DEF SelectPrevious, SelectNext, SelectPreviousPage, SelectNextPage, JumpItem,
                       Select, SelectPage
  <2> QED BY <1>0, <1>1, <2>1, <2>2, Operation
<1>10. CASE Task
  BY <1>0, <1>1, <1>10, TaskStep, Operation DEF Task
<1>11. CASE LookBegin
  BY <1>11, LookBeginStep
<1>12. CASE LookFound \/ LookInto \/ LookHang \/ LookPast \/ LookOut \/ LookEnd
  <2>1. Stack' /\ look' \in LookType /\ LookLevels' /\ lost' \in {"no", "hung", "wild"}
    BY <1>12, LookStep
  <2>2. entered' = entered /\ bindIn' = bindIn
    BY <1>12 DEF LookFound, LookInto, LookHang, LookPast, LookOut, LookEnd, Hang
  <2> QED BY <1>0, <1>1, <2>1, <2>2 DEF IInv, TypeOK, Stack
<1>13. CASE Gone \/ UNCHANGED vars
  <2>1. UNCHANGED vars
    BY <1>13 DEF Gone
  <2>2. Stack'
    BY <1>1, <2>1, SameStack DEF vars
  <2> QED BY <1>0, <1>1, <2>1, <2>2 DEF vars, IInv, TypeOK, Stack, LookLevels
<1> QED BY <1>2, <1>3, <1>4, <1>5, <1>6, <1>7, <1>8, <1>9, <1>10, <1>11, <1>12, <1>13 DEF Next

----------------------------------------------------------------------------
\* The engine always knows where it is: the stack, the count of levels, the callbacks
\* run and the levels of a search agree, for every depth and every tree of menus.
THEOREM MenuInvariance == Spec => []IInv
<1> QED BY Initially, EveryStep, PTL DEF Spec

\* The variables of the engine keep their types: no index leaves the array of blocks.
THEOREM MenuTypeCorrect == Spec => []TypeOK
<1>1. IInv => TypeOK
  BY DEF IInv
<1> QED BY <1>1, MenuInvariance, PTL

\* The level counted is that of the current menu, and each block's parent the one below:
\* menu_enter never takes a block in use.
THEOREM DepthCorrect == Spec => []DepthAgrees
<1>1. IInv => DepthAgrees
  BY DEF IInv
<1> QED BY <1>1, MenuInvariance, PTL

\* Callbacks nest: the items entered that were neither left nor dropped by menu_reset or
\* menu_de_init are those selected on the way to the current menu, outermost first, and
\* there are none out of the menu (menu.c:383-387).
THEOREM CallbacksNest == Spec => []OpenIsPath
<1>1. IInv => OpenIsPath
  BY DEF IInv
<1> QED BY <1>1, MenuInvariance, PTL
----------------------------------------------------------------------------
(* What the lists and the selections have to do with each other, level by level.  The    *)
(* item entered on a level exists, and the block above it holds its list or will be      *)
(* given it by its load callback; the other two parts say the same of the block on top,  *)
(* whose list and selection still change.                                                *)
PathEntered == cur # 0 =>
    /\ ctrl[1].list \in {Main, None} /\ ctrl[1].load = Binding(Main, "load")
    /\ \A k \in 2..cur : /\ ctrl[k - 1].list # None /\ HasItem(ctrl[k - 1])
                         /\ ctrl[k].load = Binding(ItemOf(ctrl[k - 1]).sub, "load")
                         /\ ctrl[k].list \in {ItemOf(ctrl[k - 1]).sub, None}
                         /\ bindIn = "enter" => ctrl[k].list = ItemOf(ctrl[k - 1]).sub

\* The load callback that is pending may be that of a menu left by menu_reset: then the
\* list is bound and the callback changes nothing.
TopBinding == cur # 0 =>
    /\ Here.list = None => pending \in {Here.load, None}
    /\ ~entered /\ cur > 1 => Here.list # None

TopSelection == bindIn = "enter" /\ cur # 0 =>
    /\ Here.list # None => HasItem(Here)
    /\ entered => ctrl[1].list # None
    /\ ctrl[1].list = None => ctrl[1].select_item = 0

Path == PathEntered /\ TopBinding /\ TopSelection

LEMMA ListLength == \A m \in Menus : m # None /\ NumItems(m) \in 1..Byte - 1
BY Constants, MenuAssumption DEF NumItems

\* Where the engine is while a menu is current.
LEMMA Current ==
    ASSUME Stack, cur # 0
    PROVE  /\ cur \in 1..MaxDepth /\ MaxDepth \in Nat /\ depth = cur
           /\ ctrl \in [1..MaxDepth -> BlockType]
           /\ Here.list \in Menus \cup {None} /\ Here.select_item \in 0..Byte - 1
           /\ Here.parent = cur - 1
<1>1. cur \in 1..MaxDepth /\ MaxDepth \in Nat /\ depth = cur /\ ctrl[cur].parent = cur - 1
  BY Constants DEF Stack, StackTypeOK, DepthAgrees, Level
<1>2. ctrl \in [1..MaxDepth -> BlockType] /\ ctrl[cur] \in BlockType
  BY <1>1 DEF Stack, StackTypeOK
<1> QED BY <1>1, <1>2 DEF Here, BlockType

\* What entering item i does to the blocks.
LEMMA EnterFrame ==
    ASSUME Stack, cur # 0, depth < MaxDepth, NEW i \in Nat, i < items_num, EnterItem(i)
    PROVE  /\ cur' = cur + 1 /\ Here.list \in Menus
           /\ \A k \in 1..cur - 1 : ctrl'[k] = ctrl[k]
           /\ \A k \in 1..cur : ctrl'[k].list = ctrl[k].list /\ ctrl'[k].load = ctrl[k].load
           /\ ctrl'[cur].select_item = i
           /\ ItemOf(ctrl'[cur]) = Items[Here.list][i + 1] /\ HasItem(ctrl'[cur])
           /\ ctrl'[cur + 1].list = Binding(ItemOf(ctrl'[cur]).sub, "enter")
           /\ ctrl'[cur + 1].load = Binding(ItemOf(ctrl'[cur]).sub, "load")
           /\ ctrl'[cur + 1].select_item = 0
           /\ pending' = ctrl'[cur + 1].load
           /\ ItemOf(ctrl'[cur]) \in ItemType
           /\ open' = Append(open, <<Here.list, i>>)
<1> DEFINE item == Items[Here.list][i + 1]
           new == [list |-> Binding(item.sub, "enter"), select_item |-> 0,
                   show_base_item |-> ctrl[cur + 1].show_base_item,
                   parent |-> cur, load |-> Binding(item.sub, "load")]
           picked == [ctrl[cur] EXCEPT !.select_item = i]
<1>1. /\ cur \in 1..MaxDepth /\ cur + 1 \in 1..MaxDepth /\ MaxDepth \in Nat /\ depth = cur
      /\ ctrl \in [1..MaxDepth -> BlockType] /\ ctrl[cur] \in BlockType
      /\ Here.list \in Menus \cup {None}
  BY Current
<1>2. Here.list \in Menus /\ i < Len(Items[Here.list]) /\ item \in ItemType
  <2>1. Here.list \in Menus /\ i < Len(Items[Here.list])
    BY <1>1 DEF items_num, NumItems
  <2>2. Items[Here.list] \in Seq(ItemType)
    BY <2>1, Constants
  <2> QED BY <2>1, <2>2
<1>3. /\ cur' = cur + 1 /\ pending' = Binding(item.sub, "load")
      /\ open' = Append(open, <<Here.list, i>>)
      /\ ctrl' = [ctrl EXCEPT ![cur].select_item = i, ![cur + 1] = new]
  BY <1>1 DEF EnterItem
<1>4. new.list = Binding(item.sub, "enter") /\ new.load = Binding(item.sub, "load")
      /\ new.select_item = 0
  OBVIOUS
<1>5. picked.list = Here.list /\ picked.load = ctrl[cur].load /\ picked.select_item = i
  BY <1>1 DEF BlockType, Here
<1> HIDE DEF new, picked
<1>6. /\ \A k \in 1..cur - 1 : ctrl'[k] = ctrl[k]
      /\ ctrl'[cur] = picked /\ ctrl'[cur + 1] = new
  <2>1. ctrl' = [k \in 1..MaxDepth |-> IF k = cur + 1 THEN new
                                       ELSE IF k = cur THEN picked ELSE ctrl[k]]
    BY <1>1, <1>3 DEF picked
  <2> QED BY <1>1, <2>1
<1>7. ItemOf(picked) = item /\ HasItem(picked)
  BY <1>2, <1>5, ListLength DEF ItemOf, HasItem, items_num
<1>8. \A k \in 1..cur : ctrl'[k].list = ctrl[k].list /\ ctrl'[k].load = ctrl[k].load
  <2> SUFFICES ASSUME NEW k \in 1..cur
               PROVE  ctrl'[k].list = ctrl[k].list /\ ctrl'[k].load = ctrl[k].load
    OBVIOUS
  <2>1. CASE k = cur
    BY <2>1, <1>5, <1>6 DEF Here
  <2>2. CASE k \in 1..cur - 1
    BY <2>2, <1>6
  <2> QED BY <1>1, <2>1, <2>2
<1> QED BY <1>2, <1>3, <1>4, <1>5, <1>6, <1>7, <1>8

\* What leaving a menu does to the blocks below it.
LEMMA LeaveFrame ==
    ASSUME Stack, cur # 0, Here.parent # 0, NEW r \in BOOLEAN, Leave(r)
    PROVE  /\ cur \in 2..MaxDepth /\ cur' = cur - 1
           /\ \A k \in 1..cur - 2 : ctrl'[k] = ctrl[k]
           /\ \A k \in 1..cur - 1 : ctrl'[k].list = ctrl[k].list /\ ctrl'[k].load = ctrl[k].load
           /\ ctrl'[cur - 1].select_item = IF r THEN 0 ELSE ctrl[cur - 1].select_item
           /\ pending' = ctrl[cur - 1].load
           /\ open' = SubSeq(open, 1, Len(open) - 1)
<1>1. /\ cur \in 2..MaxDepth /\ MaxDepth \in Nat /\ Here.parent = cur - 1
      /\ ctrl \in [1..MaxDepth -> BlockType]
  BY Current
<1>2. ctrl[cur - 1] \in BlockType /\ cur - 1 \in 1..MaxDepth /\ cur \in 1..MaxDepth
  BY <1>1
<1> DEFINE free == Unused(ctrl[cur].show_base_item)
           back == IF r THEN [ctrl[cur - 1] EXCEPT !.select_item = 0] ELSE ctrl[cur - 1]
<1>3. /\ cur' = cur - 1 /\ pending' = ctrl[cur - 1].load
      /\ open' = SubSeq(open, 1, Len(open) - 1)
      /\ ctrl' = IF r THEN [[ctrl EXCEPT ![cur] = free] EXCEPT ![cur - 1].select_item = 0]
                 ELSE [ctrl EXCEPT ![cur] = free]
  BY <1>1 DEF Leave, Restarted, Freed
<1>4. /\ back.list = ctrl[cur - 1].list /\ back.load = ctrl[cur - 1].load
      /\ back.select_item = IF r THEN 0 ELSE ctrl[cur - 1].select_item
  BY <1>2 DEF BlockType
<1> HIDE DEF free
<1>5. ctrl' = [k \in 1..MaxDepth |-> IF k = cur THEN free ELSE IF k = cur - 1 THEN back ELSE ctrl[k]]
  <2> DEFINE mid == [ctrl EXCEPT ![cur] = free]
  <2>1. mid = [k \in 1..MaxDepth |-> IF k = cur THEN free ELSE ctrl[k]]
    BY <1>1, <1>2
  <2>2. mid[cur - 1] = ctrl[cur - 1] /\ cur - 1 # cur
    BY <1>1, <1>2, <2>1
  <2>3. ctrl' = IF r THEN [mid EXCEPT ![cur - 1].select_item = 0] ELSE mid
    BY <1>3
  <2> HIDE DEF mid
  <2>4. CASE r
    BY <1>2, <2>1, <2>2, <2>3, <2>4
  <2>5. CASE ~r
    BY <2>1, <2>2, <2>3, <2>5
  <2> QED BY <2>4, <2>5
<1> HIDE DEF back
<1>6. (\A k \in 1..cur - 2 : ctrl'[k] = ctrl[k]) /\ ctrl'[cur - 1] = back
  BY <1>1, <1>2, <1>5
<1>7. \A k \in 1..cur - 1 : ctrl'[k].list = ctrl[k].list /\ ctrl'[k].load = ctrl[k].load
  <2> SUFFICES ASSUME NEW k \in 1..cur - 1
               PROVE  ctrl'[k].list = ctrl[k].list /\ ctrl'[k].load = ctrl[k].load
    OBVIOUS
  <2>1. CASE k = cur - 1
    BY <2>1, <1>4, <1>6
  <2>2. CASE k \in 1..cur - 2
    BY <2>2, <1>6
  <2> QED BY <1>1, <2>1, <2>2
<1> QED BY <1>1, <1>3, <1>4, <1>6, <1>7

\* menu_enter binds the item's list, or leaves that to the load callback it makes pending.
LEMMA EnterPath ==
    ASSUME Stack, Path, cur # 0, depth < MaxDepth, bindIn \in {"enter", "load"},
           NEW i \in Nat, i < items_num, EnterItem(i), entered, entered' = entered,
           bindIn' = bindIn
    PROVE  Path'
<1>1. cur \in 1..MaxDepth /\ MaxDepth \in Nat /\ cur + 1 > 1
  BY Current
<1>2. /\ cur' = cur + 1 /\ Here.list \in Menus
      /\ \A k \in 1..cur - 1 : ctrl'[k] = ctrl[k]
      /\ \A k \in 1..cur : ctrl'[k].list = ctrl[k].list /\ ctrl'[k].load = ctrl[k].load
      /\ HasItem(ctrl'[cur])
      /\ ctrl'[cur + 1].list = Binding(ItemOf(ctrl'[cur]).sub, "enter")
      /\ ctrl'[cur + 1].load = Binding(ItemOf(ctrl'[cur]).sub, "load")
      /\ ctrl'[cur + 1].select_item = 0
      /\ pending' = ctrl'[cur + 1].load
      /\ ItemOf(ctrl'[cur]) \in ItemType
  BY EnterFrame
<1> DEFINE sub == ItemOf(ctrl'[cur]).sub
<1>3. sub \in Menus \cup {None}
  BY <1>2 DEF ItemType
<1>4. /\ ctrl'[cur + 1].list \in {sub, None}
      /\ bindIn = "enter" => ctrl'[cur + 1].list = sub
  BY <1>2 DEF Binding
<1>5. ctrl'[cur].list # None
  <2>1. ctrl'[cur].list = Here.list
    BY <1>1, <1>2 DEF Here
  <2> QED BY <1>2, <2>1, ListLength
<1>6. PathEntered'
  <2>1. ctrl'[1].list \in {Main, None} /\ ctrl'[1].load = Binding(Main, "load")
    BY <1>1, <1>2 DEF Path, PathEntered
  <2>2. ASSUME NEW k \in 2..cur + 1
        PROVE  /\ ctrl'[k - 1].list # None /\ HasItem(ctrl'[k - 1])
               /\ ctrl'[k].load = Binding(ItemOf(ctrl'[k - 1]).sub, "load")
               /\ ctrl'[k].list \in {ItemOf(ctrl'[k - 1]).sub, None}
               /\ bindIn = "enter" => ctrl'[k].list = ItemOf(ctrl'[k - 1]).sub
    <3>1. CASE k = cur + 1
      <4>1. k - 1 = cur
        BY <3>1, <1>1
      <4> QED BY <3>1, <4>1, <1>2, <1>4, <1>5
    <3>2. CASE k # cur + 1
      <4>1. k \in 2..cur /\ k - 1 \in 1..cur - 1 /\ k \in 1..cur
        BY <3>2, <1>1
      <4>2. ctrl'[k - 1] = ctrl[k - 1] /\ ctrl'[k].list = ctrl[k].list
            /\ ctrl'[k].load = ctrl[k].load
        BY <4>1, <1>2
      <4> QED BY <1>1, <4>1, <4>2 DEF Path, PathEntered
    <3> QED BY <3>1, <3>2
  <2>3. Binding(Main, "load")' = Binding(Main, "load")
    BY DEF Binding
  <2>4. \A m : Binding(m, "load")' = Binding(m, "load")
    BY DEF Binding
  <2> QED BY <1>1, <1>2, <2>1, <2>2, <2>4 DEF PathEntered, Binding
<1>7. TopBinding'
  BY <1>2 DEF TopBinding, Here
<1>8. TopSelection'
  <2> SUFFICES ASSUME bindIn = "enter" PROVE TopSelection'
    BY DEF TopSelection
  <2>1. ctrl'[cur + 1].list # None => HasItem(ctrl'[cur + 1])
    BY <1>2, <1>3, <1>4, ListLength DEF HasItem
  <2>2. ctrl'[1].list # None
    BY <1>1, <1>2 DEF Path, TopSelection
  <2> QED BY <1>2, <2>1, <2>2 DEF TopSelection, Here
<1> QED BY <1>6, <1>7, <1>8 DEF Path

LEMMA LeavePath ==
    ASSUME Stack, Path, cur # 0, Here.parent # 0, NEW r \in BOOLEAN, Leave(r),
           bindIn' = bindIn
    PROVE  Path'
<1>1. /\ cur \in 2..MaxDepth /\ MaxDepth \in Nat /\ cur' = cur - 1
      /\ \A k \in 1..cur - 2 : ctrl'[k] = ctrl[k]
      /\ \A k \in 1..cur - 1 : ctrl'[k].list = ctrl[k].list /\ ctrl'[k].load = ctrl[k].load
      /\ ctrl'[cur - 1].select_item = IF r THEN 0 ELSE ctrl[cur - 1].select_item
      /\ pending' = ctrl[cur - 1].load
  BY LeaveFrame, Current
<1>2. /\ ctrl[cur - 1].list # None /\ HasItem(ctrl[cur - 1])
      /\ ctrl[cur - 1].list \in Menus
  <2>1. ctrl[cur - 1].list # None /\ HasItem(ctrl[cur - 1])
    BY <1>1 DEF Path, PathEntered
  <2>2. ctrl[cur - 1] \in BlockType
    BY <1>1 DEF Stack, StackTypeOK
  <2> QED BY <2>1, <2>2 DEF BlockType
<1>3. HasItem(ctrl'[cur - 1])
  <2>1. NumItems(ctrl[cur - 1].list) \in 1..Byte - 1
    BY <1>2, ListLength
  <2>2. ctrl'[cur - 1].list = ctrl[cur - 1].list
    BY <1>1
  <2> QED BY <1>1, <1>2, <2>1, <2>2, Constants DEF HasItem
<1>4. PathEntered'
  <2>1. ctrl'[1].list \in {Main, None} /\ ctrl'[1].load = Binding(Main, "load")
    BY <1>1 DEF Path, PathEntered
  <2>2. ASSUME NEW k \in 2..cur - 1
        PROVE  /\ ctrl'[k - 1].list # None /\ HasItem(ctrl'[k - 1])
               /\ ctrl'[k].load = Binding(ItemOf(ctrl'[k - 1]).sub, "load")
               /\ ctrl'[k].list \in {ItemOf(ctrl'[k - 1]).sub, None}
               /\ bindIn = "enter" => ctrl'[k].list = ItemOf(ctrl'[k - 1]).sub
    <3>1. k \in 2..cur /\ k - 1 \in 1..cur - 2 /\ k \in 1..cur - 1
      BY <1>1
    <3>2. ctrl'[k - 1] = ctrl[k - 1] /\ ctrl'[k].list = ctrl[k].list
          /\ ctrl'[k].load = ctrl[k].load
      BY <1>1, <3>1
    <3> QED BY <1>1, <3>1, <3>2 DEF Path, PathEntered
  <2> QED BY <1>1, <2>1, <2>2 DEF PathEntered, Binding
<1>5. TopBinding'
  BY <1>1, <1>2 DEF TopBinding, Here
<1>6. TopSelection'
  <2> SUFFICES ASSUME bindIn = "enter" PROVE TopSelection'
    BY <1>1 DEF TopSelection
  <2>1. ctrl[2 - 1].list # None
    BY <1>1 DEF Path, PathEntered
  <2>2. ctrl'[1].list # None
    BY <1>1, <2>1
  <2> QED BY <1>1, <1>3, <2>2 DEF TopSelection, Here
<1> QED BY <1>4, <1>5, <1>6 DEF Path

\* A change of the block on top that keeps its list, or binds the one due.
LEMMA TopPath ==
    ASSUME Stack, PathEntered, cur # 0, cur' = cur, bindIn' = bindIn,
           \A k \in 1..cur - 1 : ctrl'[k] = ctrl[k],
           ctrl'[cur].load = ctrl[cur].load,
           \/ ctrl'[cur].list = ctrl[cur].list
           \/ ctrl[cur].list = None /\ cur = 1 /\ ctrl'[1].list \in {Main, None}
           \/ /\ ctrl[cur].list = None /\ bindIn # "enter" /\ cur > 1
              /\ ctrl'[cur].list \in {ItemOf(ctrl[cur - 1]).sub, None}
    PROVE  PathEntered'
<1>1. cur \in 1..MaxDepth /\ MaxDepth \in Nat
  BY Current
<1>2. ctrl'[1].list \in {Main, None} /\ ctrl'[1].load = Binding(Main, "load")
  <2>1. CASE cur = 1
    BY <2>1, <1>1 DEF PathEntered
  <2>2. CASE cur # 1
    <3>1. 1 \in 1..cur - 1
      BY <2>2, <1>1
    <3> QED BY <3>1, <1>1 DEF PathEntered
  <2> QED BY <2>1, <2>2
<1>3. ASSUME NEW k \in 2..cur
      PROVE  /\ ctrl'[k - 1].list # None /\ HasItem(ctrl'[k - 1])
             /\ ctrl'[k].load = Binding(ItemOf(ctrl'[k - 1]).sub, "load")
             /\ ctrl'[k].list \in {ItemOf(ctrl'[k - 1]).sub, None}
             /\ bindIn = "enter" => ctrl'[k].list = ItemOf(ctrl'[k - 1]).sub
  <2>1. k - 1 \in 1..cur - 1 /\ ctrl'[k - 1] = ctrl[k - 1]
    BY <1>1
  <2>2. /\ ctrl[k - 1].list # None /\ HasItem(ctrl[k - 1])
        /\ ctrl[k].load = Binding(ItemOf(ctrl[k - 1]).sub, "load")
        /\ ctrl[k].list \in {ItemOf(ctrl[k - 1]).sub, None}
        /\ bindIn = "enter" => ctrl[k].list = ItemOf(ctrl[k - 1]).sub
    BY <1>1 DEF PathEntered
  <2>3. CASE k = cur
    BY <2>1, <2>2, <2>3
  <2>4. CASE k # cur
    <3>1. ctrl'[k] = ctrl[k]
      BY <1>1, <2>4
    <3> QED BY <2>1, <2>2, <3>1
  <2> QED BY <2>3, <2>4
<1> QED BY <1>1, <1>2, <1>3 DEF PathEntered, Binding

\* A selection in the menu on top, which is one of its list where lists are bound on
\* entering.
LEMMA SelectPath ==
    ASSUME Stack, Path, cur # 0, bindIn' = bindIn, entered' = entered, cur' = cur,
           pending' = pending,
           NEW b \in BlockType, b.list = Here.list, b.load = Here.load,
           ctrl' = [ctrl EXCEPT ![cur] = b],
           bindIn = "enter" => /\ Here.list # None => HasItem(b)
                               /\ ctrl[1].list # None
    PROVE  Path'
<1>1. /\ cur \in 1..MaxDepth /\ MaxDepth \in Nat /\ ctrl \in [1..MaxDepth -> BlockType]
  BY Current
<1>2. ctrl'[cur] = b /\ \A k \in 1..cur - 1 : ctrl'[k] = ctrl[k]
  BY <1>1
<1>3. PathEntered'
  BY <1>1, <1>2, TopPath DEF Path, Here
<1>4. TopBinding'
  BY <1>2 DEF Path, TopBinding, Here
<1>5. TopSelection'
  <2> SUFFICES ASSUME bindIn = "enter" PROVE TopSelection'
    BY DEF TopSelection
  <2>1. ctrl'[1].list # None
    <3>1. CASE cur = 1
      BY <3>1, <1>2 DEF Here
    <3>2. CASE cur # 1
      BY <3>2, <1>1, <1>2
    <3> QED BY <3>1, <3>2
  <2> QED BY <1>2, <2>1 DEF TopSelection, Here
<1> QED BY <1>3, <1>4, <1>5 DEF Path

\* The first item of a page comes no later than any item of it.
LEMMA PageStart ==
    ASSUME NEW a \in Nat, NEW n \in Nat \ {0}
    PROVE  a \div n \in Nat /\ (a \div n) * n <= a
OBVIOUS

LEMMA EarlierPage ==
    ASSUME NEW p \in Nat, NEW q \in Nat, NEW n \in Nat, p <= q
    PROVE  p * n \in Nat /\ p * n <= q * n
OBVIOUS

\* With an item of the list selected, the selection functions select one of the list.
LEMMA SelectionRange ==
    ASSUME Stack, cur # 0, Here.list # None, HasItem(Here),
           SelectPrevious \/ SelectNext \/ SelectPreviousPage \/ SelectNextPage \/ JumpItem
    PROVE  \E i \in 0..items_num - 1 : Select(i) \/ SelectPage(i)
<1> DEFINE n == items_num
           s == Here.select_item
<1>0. Byte \in Nat /\ ShowNum \in Nat \ {0} /\ ShowNum \in Nat
  BY Constants
<1>1. n \in Nat /\ n >= 1 /\ s \in Nat /\ s < n
  <2>1. Here.list \in Menus /\ s \in 0..Byte - 1
    BY Current
  <2>2. n \in 1..Byte - 1
    BY <2>1, ListLength DEF items_num
  <2> QED BY <1>0, <2>1, <2>2 DEF HasItem, items_num
<1>2. page_no \in Nat /\ page_no * ShowNum <= s
  BY <1>0, <1>1, PageStart DEF page_no
<1>3. LastPage \in Nat /\ LastPage * ShowNum <= n - 1
  <2>1. n - 1 \in Nat /\ ~(n - 1 < 0)
    BY <1>1
  <2>2. LastPage = (n - 1) \div ShowNum
    BY <2>1, Zenon DEF LastPage, Quotient
  <2>3. (n - 1) \div ShowNum \in Nat /\ ((n - 1) \div ShowNum) * ShowNum <= n - 1
    BY <1>0, <2>1, PageStart
  <2> QED BY <2>2, <2>3
<1> HIDE DEF n, s
<1>4. CASE SelectPrevious
  <2>1. PICK roll \in BOOLEAN : Select(IF s > 0 THEN s - 1 ELSE IF roll THEN n - 1 ELSE 0)
    BY <1>4 DEF SelectPrevious, n, s
  <2>2. (IF s > 0 THEN s - 1 ELSE IF roll THEN n - 1 ELSE 0) \in 0..n - 1
    BY <1>1
  <2> QED BY <2>1, <2>2 DEF n
<1>5. CASE SelectNext
  <2>1. PICK roll \in BOOLEAN : Select(IF s < n - 1 THEN s + 1 ELSE IF roll THEN 0 ELSE n - 1)
    BY <1>5 DEF SelectNext, n, s
  <2>2. (IF s < n - 1 THEN s + 1 ELSE IF roll THEN 0 ELSE n - 1) \in 0..n - 1
    BY <1>1
  <2> QED BY <2>1, <2>2 DEF n
<1>6. CASE SelectPreviousPage
  <2>1. page_no > 0 => (page_no - 1) * ShowNum \in Nat /\ (page_no - 1) * ShowNum <= page_no * ShowNum
    <3> SUFFICES ASSUME page_no > 0
                 PROVE  /\ (page_no - 1) * ShowNum \in Nat
                        /\ (page_no - 1) * ShowNum <= page_no * ShowNum
      OBVIOUS
    <3>1. page_no - 1 \in Nat /\ page_no - 1 <= page_no
      BY <1>2
    <3> QED BY <3>1, <1>0, <1>2, EarlierPage
  <2>2. page_no * ShowNum \in Nat /\ LastPage * ShowNum \in Nat
    BY <1>0, <1>2, <1>3, EarlierPage
  <2> DEFINE to == (IF page_no > 0 THEN page_no - 1 ELSE LastPage) * ShowNum
  <2>3. to \in 0..n - 1
    <3>1. CASE page_no > 0
      BY <3>1, <2>1, <2>2, <1>1, <1>2
    <3>2. CASE ~(page_no > 0)
      BY <3>2, <2>2, <1>1, <1>3
    <3> QED BY <3>1, <3>2
  <2>4. SelectPage(to)
    BY <1>6, Zenon DEF SelectPreviousPage
  <2> HIDE DEF to
  <2> QED BY <2>3, <2>4 DEF n
<1>7. CASE SelectNextPage
  <2> DEFINE to == IF page_no < LastPage THEN (page_no + 1) * ShowNum ELSE 0
  <2>1. to \in 0..n - 1
    <3>1. CASE page_no < LastPage
      <4>1. page_no + 1 \in Nat /\ page_no + 1 <= LastPage
        BY <3>1, <1>2, <1>3
      <4>2. (page_no + 1) * ShowNum \in Nat /\ (page_no + 1) * ShowNum <= LastPage * ShowNum
            /\ LastPage * ShowNum \in Nat
        BY <4>1, <1>0, <1>3, EarlierPage
      <4> QED BY <3>1, <4>2, <1>1, <1>3
    <3>2. CASE ~(page_no < LastPage)
      BY <3>2, <1>1
    <3> QED BY <3>1, <3>2
  <2>2. SelectPage(to)
    BY <1>7, Zenon DEF SelectNextPage
  <2> HIDE DEF to
  <2> QED BY <2>1, <2>2 DEF n
<1>8. CASE JumpItem
  BY <1>8 DEF JumpItem
<1> QED BY <1>4, <1>5, <1>6, <1>7, <1>8

\* Below its range the menusize_t keeps what it is given.
LEMMA SmallRemainder == \A i \in Nat : i < Byte => i % Byte = i
<1>1. Byte \in Nat \ {0}
  BY Constants
<1>2. \A i \in Nat, n \in Nat \ {0} : i < n => i % n = i
  OBVIOUS
<1> QED BY <1>1, <1>2

LEMMA SelectionPath ==
    ASSUME IInv, Path,
           SelectPrevious \/ SelectNext \/ SelectPreviousPage \/ SelectNextPage \/ JumpItem
    PROVE  Path'
<1>1. Stack /\ cur # 0 /\ entered
  BY DEF SelectPrevious, SelectNext, SelectPreviousPage, SelectNextPage, JumpItem, Ready,
         IInv, TypeOK, Stack
<1>2. /\ cur \in 1..MaxDepth /\ MaxDepth \in Nat /\ ctrl \in [1..MaxDepth -> BlockType]
      /\ Here.list \in Menus \cup {None}
  BY <1>1, Current
<1>3. ctrl[cur] \in BlockType /\ 0 \in 0..Byte - 1
  BY <1>2, Constants
<1>4. \E i \in Int : Select(i) \/ SelectPage(i)
  BY SelectionInt
<1>5. Here.list # None /\ HasItem(Here) => \E i \in 0..items_num - 1 : Select(i) \/ SelectPage(i)
  BY <1>1, SelectionRange
<1>6. ASSUME NEW i \in Int, Select(i) \/ SelectPage(i),
             Here.list # None /\ HasItem(Here) => i \in 0..items_num - 1
      PROVE  Path'
  <2>1. PICK r \in 0..Byte - 1 : r = i % Byte
    BY Remainder, Zenon
  <2> DEFINE b == [ctrl[cur] EXCEPT !.select_item = r]
             d == [ctrl[cur] EXCEPT !.select_item = r, !.show_base_item = 0]
  <2>2. /\ b \in BlockType /\ b.list = Here.list /\ b.load = Here.load /\ b.select_item = r
        /\ d \in BlockType /\ d.list = Here.list /\ d.load = Here.load /\ d.select_item = r
    BY <1>3 DEF BlockType, Here
  <2>3. bindIn = "enter" => /\ Here.list # None => r < NumItems(Here.list)
                            /\ ctrl[1].list # None
    <3> SUFFICES ASSUME bindIn = "enter"
                 PROVE  /\ Here.list # None => r < NumItems(Here.list)
                        /\ ctrl[1].list # None
      OBVIOUS
    <3>1. ctrl[1].list # None /\ (Here.list # None => HasItem(Here))
      BY <1>1 DEF Path, TopSelection
    <3>2. ASSUME Here.list # None PROVE r < NumItems(Here.list)
      <4>1. i \in 0..items_num - 1 /\ items_num = NumItems(Here.list)
        BY <1>6, <3>1, <3>2 DEF items_num
      <4>2. NumItems(Here.list) \in 1..Byte - 1
        BY <1>2, <3>2, ListLength
      <4>3. i \in Nat /\ i < Byte /\ i < NumItems(Here.list)
        BY <4>1, <4>2, Constants
      <4> QED BY <2>1, <4>3, SmallRemainder, Zenon
    <3> QED BY <3>1, <3>2
  <2>4. /\ cur' = cur /\ entered' = entered /\ bindIn' = bindIn /\ pending' = pending
    BY <1>6 DEF Select, SelectPage
  <2>5. ctrl' = [ctrl EXCEPT ![cur] = b] \/ ctrl' = [ctrl EXCEPT ![cur] = d]
    BY <1>2, <1>6, <2>1 DEF Select, SelectPage
  <2> HIDE DEF b, d
  <2>6. CASE ctrl' = [ctrl EXCEPT ![cur] = b]
    <3>1. bindIn = "enter" => /\ Here.list # None => HasItem(b)
                              /\ ctrl[1].list # None
      BY <2>2, <2>3 DEF HasItem
    <3> QED BY <1>1, <2>2, <2>4, <2>6, <3>1, SelectPath
  <2>7. CASE ctrl' = [ctrl EXCEPT ![cur] = d]
    <3>1. bindIn = "enter" => /\ Here.list # None => HasItem(d)
                              /\ ctrl[1].list # None
      BY <2>2, <2>3 DEF HasItem
    <3> QED BY <1>1, <2>2, <2>4, <2>7, <3>1, SelectPath
  <2> QED BY <2>5, <2>6, <2>7
<1>7. CASE Here.list # None /\ HasItem(Here)
  <2>1. PICK i \in 0..items_num - 1 : Select(i) \/ SelectPage(i)
    BY <1>5, <1>7
  <2>2. i \in Int
    <3>1. items_num \in Int
      BY <1>2, <1>7, ListLength DEF items_num
    <3> QED BY <3>1
  <2> QED BY <1>6, <2>1, <2>2
<1>8. CASE ~(Here.list # None /\ HasItem(Here))
  BY <1>4, <1>6, <1>8
<1> QED BY <1>7, <1>8

LEMMA MenuInitPath == ASSUME IInv, MenuInit PROVE Path'
<1>1. MaxDepth \in Nat /\ MaxDepth >= 1 /\ ctrl \in [1..MaxDepth -> BlockType]
  BY Constants DEF IInv, TypeOK, StackTypeOK
<1> DEFINE new == [Unused(0) EXCEPT !.load = Binding(Main, "load")]
<1>2. /\ new.list = None /\ new.select_item = 0 /\ new.load = Binding(Main, "load")
  BY DEF Unused
<1>3. /\ cur' = 1 /\ ctrl' = [ctrl EXCEPT ![1] = new] /\ entered' = FALSE
      /\ pending' = Binding(Main, "load") /\ bindIn' = bindIn
  BY DEF MenuInit
<1> HIDE DEF new
<1>4. ctrl'[1] = new
  BY <1>1, <1>3
<1>5. PathEntered'
  BY <1>2, <1>3, <1>4 DEF PathEntered, Binding
<1>6. TopBinding'
  BY <1>2, <1>3, <1>4 DEF TopBinding, Here
<1>7. TopSelection'
  BY <1>2, <1>3, <1>4 DEF TopSelection, Here
<1> QED BY <1>5, <1>6, <1>7 DEF Path

\* The main menu is entered again where menu_main_exit left it, on whatever level: its
\* list is bound there only if none is.
LEMMA MainEnterPath == ASSUME IInv, Path, MainEnter PROVE Path'
<1>1. /\ Stack /\ cur # 0 /\ ~entered /\ entered' = TRUE /\ cur' = cur /\ bindIn' = bindIn
      /\ ctrl' = Bound(ctrl, cur, Binding(Main, "enter")) /\ pending' = ctrl[cur].load
  BY DEF MainEnter, IInv, TypeOK, Stack
<1>2. /\ cur \in 1..MaxDepth /\ MaxDepth \in Nat /\ ctrl \in [1..MaxDepth -> BlockType]
  BY <1>1, Current
<1>3. ctrl[cur] \in BlockType
  BY <1>2
<1> DEFINE b == IF ctrl[cur].list = None THEN [ctrl[cur] EXCEPT !.list = Binding(Main, "enter")]
                                         ELSE ctrl[cur]
<1>4. /\ b.list = IF ctrl[cur].list = None THEN Binding(Main, "enter") ELSE ctrl[cur].list
      /\ b.load = ctrl[cur].load /\ b.select_item = ctrl[cur].select_item
  BY <1>3 DEF BlockType
<1>5. ctrl' = [ctrl EXCEPT ![cur] = b]
  BY <1>1, <1>2 DEF Bound
<1> HIDE DEF b
<1>6. ctrl'[cur] = b /\ \A k \in 1..cur - 1 : ctrl'[k] = ctrl[k]
  BY <1>2, <1>5
<1>7. cur > 1 => ctrl[cur].list # None
  BY <1>1 DEF Path, TopBinding, Here
<1>8. \/ ctrl'[cur].list = ctrl[cur].list
      \/ ctrl[cur].list = None /\ cur = 1 /\ ctrl'[1].list \in {Main, None}
  BY <1>2, <1>4, <1>6, <1>7 DEF Binding
<1>9. PathEntered'
  BY <1>1, <1>4, <1>6, <1>8, TopPath DEF Path
<1>10. TopBinding'
  BY <1>1, <1>4, <1>6 DEF TopBinding, Here
<1>11. TopSelection'
  <2> SUFFICES ASSUME bindIn = "enter" PROVE TopSelection'
    BY <1>1 DEF TopSelection
  <2>1. Binding(Main, "enter") = Main /\ Main \in Menus /\ Main # None
    BY ListLength, Constants DEF Binding
  <2>2. CASE ctrl[cur].list = None
    <3>1. cur = 1 /\ b.list = Main /\ b.select_item = 0
      BY <1>2, <1>4, <1>7, <2>1, <2>2 DEF Path, TopSelection
    <3>2. HasItem(b)
      <4>1. NumItems(Main) \in 1..Byte - 1
        BY <2>1, ListLength
      <4> QED BY <3>1, <4>1, Constants DEF HasItem
    <3> QED BY <1>1, <1>6, <2>1, <3>1, <3>2 DEF TopSelection, Here
  <2>3. CASE ctrl[cur].list # None
    <3>1. HasItem(b) /\ b.list # None
      BY <1>1, <1>4, <2>3 DEF Path, TopSelection, Here, HasItem
    <3>2. ctrl'[1].list # None
      <4>1. CASE cur = 1
        BY <4>1, <1>6, <3>1
      <4>2. CASE cur # 1
        <5>1. ctrl[1].list # None
          <6>1. 2 \in 2..cur
            BY <4>2, <1>2
          <6>2. ctrl[2 - 1].list # None
            BY <6>1, <1>1 DEF Path, PathEntered
          <6> QED BY <6>2
        <5>2. 1 \in 1..cur - 1
          BY <4>2, <1>2
        <5> QED BY <5>1, <5>2, <1>6
      <4> QED BY <4>1, <4>2
    <3> QED BY <1>1, <1>6, <3>1, <3>2 DEF TopSelection, Here
  <2> QED BY <2>2, <2>3
<1> QED BY <1>9, <1>10, <1>11 DEF Path

\* The load callback binds the list of the menu on top, or none.
LEMMA TaskPath == ASSUME IInv, Path, Task PROVE Path'
<1>1. /\ Stack /\ cur # 0 /\ entered /\ entered' = entered /\ cur' = cur /\ bindIn' = bindIn
      /\ pending' = None
  BY DEF Task, Ready, IInv, TypeOK, Stack
<1>2. /\ cur \in 1..MaxDepth /\ MaxDepth \in Nat /\ ctrl \in [1..MaxDepth -> BlockType]
  BY <1>1, Current
<1>3. ctrl[cur] \in BlockType
  BY <1>2
<1> DEFINE b == IF ctrl[cur].list = None THEN [ctrl[cur] EXCEPT !.list = pending] ELSE ctrl[cur]
           c == [ctrl EXCEPT ![cur] = b]
           r == Limited(b) % Byte
           d == IF b.list = None THEN b ELSE [b EXCEPT !.show_base_item = r]
<1>4. /\ b.list = IF ctrl[cur].list = None THEN pending ELSE ctrl[cur].list
      /\ b.load = ctrl[cur].load /\ b.select_item = ctrl[cur].select_item
  BY <1>3 DEF BlockType
<1>5. Bound(ctrl, cur, pending) = c /\ c[cur] = b
  BY <1>2 DEF Bound
<1>6. /\ d.list = b.list /\ d.load = b.load /\ d.select_item = b.select_item
  <2>1. DOMAIN b = {"list", "select_item", "show_base_item", "parent", "load"}
    BY <1>3 DEF BlockType
  <2> HIDE DEF b, r
  <2> QED BY <2>1
<1>7. ctrl' = [ctrl EXCEPT ![cur] = d]
  <2> HIDE DEF b, c
  <2>1. ctrl' = IF b.list = None THEN c ELSE [c EXCEPT ![cur].show_base_item = r]
    BY <1>5, Zenon DEF Task
  <2> HIDE DEF r
  <2>2. CASE b.list = None
    BY <2>1, <2>2 DEF c
  <2>3. CASE b.list # None
    <3>1. [c EXCEPT ![cur].show_base_item = r] = [ctrl EXCEPT ![cur] = [b EXCEPT !.show_base_item = r]]
      BY <1>2 DEF c
    <3> QED BY <2>1, <2>3, <3>1
  <2> QED BY <2>2, <2>3
<1> HIDE DEF b, c, d
<1>8. ctrl'[cur] = d /\ \A k \in 1..cur - 1 : ctrl'[k] = ctrl[k]
  BY <1>2, <1>7
<1>9. ctrl[cur].list = None => pending \in {ctrl[cur].load, None}
  BY <1>1 DEF Path, TopBinding, Here
<1>10. /\ cur = 1 => ctrl[1].load = Binding(Main, "load")
       /\ cur > 1 => ctrl[cur].load = Binding(ItemOf(ctrl[cur - 1]).sub, "load")
  BY <1>1, <1>2 DEF Path, PathEntered
<1>11. bindIn = "enter" => d.list = ctrl[cur].list
  BY <1>2, <1>4, <1>6, <1>9, <1>10 DEF Binding
<1>12. PathEntered'
  <2>1. \/ ctrl'[cur].list = ctrl[cur].list
        \/ ctrl[cur].list = None /\ cur = 1 /\ ctrl'[1].list \in {Main, None}
        \/ /\ ctrl[cur].list = None /\ bindIn # "enter" /\ cur > 1
           /\ ctrl'[cur].list \in {ItemOf(ctrl[cur - 1]).sub, None}
    BY <1>2, <1>4, <1>6, <1>8, <1>9, <1>10, <1>11 DEF Binding
  <2>2. ctrl'[cur].load = ctrl[cur].load
    BY <1>4, <1>6, <1>8
  <2> QED BY <1>1, <1>8, <2>1, <2>2, TopPath DEF Path
<1>13. TopBinding'
  BY <1>1 DEF TopBinding
<1>14. TopSelection'
  <2> SUFFICES ASSUME bindIn = "enter" PROVE TopSelection'
    BY <1>1 DEF TopSelection
  <2>1. d.list # None => HasItem(d)
    BY <1>1, <1>4, <1>6, <1>11 DEF Path, TopSelection, Here, HasItem
  <2>2. ctrl'[1].list # None
    <3>1. ctrl[1].list # None
      BY <1>1 DEF Path, TopSelection
    <3>2. CASE cur = 1
      BY <3>1, <3>2, <1>8, <1>11
    <3>3. CASE cur # 1
      BY <3>1, <3>3, <1>2, <1>8
    <3> QED BY <3>2, <3>3
  <2> QED BY <1>1, <1>8, <2>1, <2>2 DEF TopSelection, Here
<1> QED BY <1>12, <1>13, <1>14 DEF Path

LEMMA ResetPath == ASSUME IInv, Path, Reset PROVE Path'
<1>1. /\ Stack /\ cur # 0 /\ entered /\ entered' = entered /\ cur' = 1 /\ bindIn' = bindIn
      /\ pending' = pending
      /\ ctrl' = [k \in 1..MaxDepth |->
                    IF k = 1 THEN [ctrl[1] EXCEPT !.select_item = 0]
                    ELSE Unused(ctrl[k].show_base_item)]
  BY DEF Reset, Ready, IInv, TypeOK, Stack
<1>2. /\ cur \in 1..MaxDepth /\ MaxDepth \in Nat /\ ctrl \in [1..MaxDepth -> BlockType]
  BY <1>1, Current
<1>3. ctrl[1] \in BlockType /\ 1 \in 1..MaxDepth
  BY <1>2
<1>4. /\ ctrl'[1].list = ctrl[1].list /\ ctrl'[1].load = ctrl[1].load
      /\ ctrl'[1].select_item = 0
  <2> DEFINE top == [ctrl[1] EXCEPT !.select_item = 0]
  <2>1. top.list = ctrl[1].list /\ top.load = ctrl[1].load /\ top.select_item = 0
    BY <1>3 DEF BlockType
  <2> HIDE DEF top
  <2>2. ctrl'[1] = top
    BY <1>1, <1>3 DEF top
  <2> QED BY <2>1, <2>2
<1>5. PathEntered'
  BY <1>1, <1>4 DEF Path, PathEntered, Binding
<1>6. TopBinding'
  <2>1. CASE cur = 1
    BY <2>1, <1>1, <1>4 DEF Path, TopBinding, Here
  <2>2. CASE cur # 1
    <3>1. 2 \in 2..cur
      BY <2>2, <1>2
    <3>2. ctrl[2 - 1].list # None
      BY <3>1, <1>1 DEF Path, PathEntered
    <3> QED BY <3>2, <1>1, <1>4 DEF TopBinding, Here
  <2> QED BY <2>1, <2>2
<1>7. TopSelection'
  <2> SUFFICES ASSUME bindIn = "enter" PROVE TopSelection'
    BY <1>1 DEF TopSelection
  <2>1. ctrl[1].list # None /\ ctrl[1].list \in Menus
    BY <1>1, <1>3 DEF Path, TopSelection, BlockType
  <2>2. NumItems(ctrl[1].list) \in 1..Byte - 1
    BY <2>1, ListLength
  <2>3. HasItem(ctrl'[1])
    BY <1>4, <2>2, Constants DEF HasItem
  <2> QED BY <1>1, <1>4, <2>1, <2>3 DEF TopSelection, Here
<1> QED BY <1>5, <1>6, <1>7 DEF Path

LEMMA SamePath ==
    ASSUME Path, UNCHANGED <<cur, ctrl, entered, pending, bindIn>>
    PROVE  Path'
BY DEF Path, PathEntered, TopBinding, TopSelection, Here, Binding

\* The search enters and leaves menus as the user does, and selects what it finds.
LEMMA LookFoundPath == ASSUME IInv, Path, LookFound PROVE Path'
<1>1. /\ Stack /\ cur # 0 /\ entered' = entered /\ bindIn' = bindIn /\ LookAt \in Nat
      /\ LookAt < items_num /\ bindIn \in {"enter", "load"}
  <2>1. /\ Stack /\ look # Idle /\ entered' = entered /\ bindIn' = bindIn
        /\ LookAt < items_num /\ bindIn \in {"enter", "load"}
    BY DEF LookFound, Looking, IInv, TypeOK, Stack
  <2>2. look.at \in Seq(Nat) /\ Len(look.at) >= 1 /\ cur # 0
    BY <2>1, Constants DEF IInv, TypeOK, StackTypeOK, LookType, LookLevels, Level
  <2>3. LookAt \in Nat
    BY <2>2 DEF LookAt
  <2> QED BY <2>1, <2>2, <2>3
<1>2. CASE CanEnter
  <2>1. EnterItem(LookAt) /\ depth < MaxDepth /\ entered
    BY <1>2 DEF LookFound, CanEnter
  <2> QED BY <1>1, <2>1, EnterPath
<1>3. CASE ~CanEnter
  <2>1. ctrl' = Selected /\ UNCHANGED <<cur, pending>>
    BY <1>3 DEF LookFound
  <2>2. /\ cur \in 1..MaxDepth /\ ctrl \in [1..MaxDepth -> BlockType]
        /\ Here.list \in Menus \cup {None} /\ ctrl[cur] \in BlockType
    BY <1>1, Current
  <2>3. Here.list # None
    BY <1>1 DEF items_num, NumItems
  <2>4. NumItems(Here.list) \in 1..Byte - 1 /\ LookAt < NumItems(Here.list)
    BY <1>1, <2>2, <2>3, ListLength DEF items_num
  <2>5. LookAt \in 0..Byte - 1
    BY <1>1, <2>4, Constants
  <2> DEFINE b == [ctrl[cur] EXCEPT !.select_item = LookAt]
  <2>6. /\ b \in BlockType /\ b.list = Here.list /\ b.load = Here.load
        /\ b.select_item = LookAt
    BY <2>2, <2>5 DEF BlockType, Here
  <2>7. ctrl' = [ctrl EXCEPT ![cur] = b]
    BY <2>1, <2>2 DEF Selected
  <2> HIDE DEF b
  <2>8. HasItem(b)
    BY <2>4, <2>6 DEF HasItem
  <2>9. ctrl[1].list # None
    <3>1. CASE cur = 1
      BY <3>1, <2>3 DEF Here
    <3>2. CASE cur # 1
      <4>1. 2 \in 2..cur
        BY <3>2, <2>2, Constants
      <4>2. ctrl[2 - 1].list # None
        BY <1>1, <4>1 DEF Path, PathEntered
      <4> QED BY <4>2
    <3> QED BY <3>1, <3>2
  <2> QED BY <1>1, <2>1, <2>6, <2>7, <2>8, <2>9, SelectPath
<1> QED BY <1>2, <1>3

LEMMA LookPath ==
    ASSUME IInv, Path, LookInto \/ LookHang \/ LookPast \/ LookOut \/ LookEnd
    PROVE  Path'
<1>1. /\ Stack /\ look # Idle /\ bindIn \in {"enter", "load"}
      /\ entered' = entered /\ bindIn' = bindIn
  BY DEF LookInto, LookHang, LookPast, LookOut, LookEnd, Looking, Hang, IInv, TypeOK, Stack
<1>2. /\ look.at \in Seq(Nat) /\ Len(look.at) >= 1 /\ cur \in Nat /\ cur # 0
      /\ look.from \in 1..cur /\ cur = look.from + Len(look.at) - 1
  BY <1>1, Constants DEF IInv, TypeOK, StackTypeOK, LookType, LookLevels, Level
<1>3. CASE LookInto
  <2>1. EnterItem(LookAt) /\ depth < MaxDepth /\ entered /\ LookAt < items_num
    BY <1>3 DEF LookInto, CanEnter
  <2>2. LookAt \in Nat
    BY <1>2 DEF LookAt
  <2> QED BY <1>1, <1>2, <2>1, <2>2, EnterPath
<1>4. CASE LookOut
  <2>1. Len(look.at) > 1 /\ Leave(FALSE)
    BY <1>4 DEF LookOut
  <2>2. Here.parent # 0
    <3>1. cur >= 2
      BY <1>2, <2>1
    <3> QED BY <1>1, <3>1, Current
  <2> QED BY <1>1, <1>2, <2>1, <2>2, LeavePath
<1>5. CASE LookHang \/ LookPast \/ LookEnd
  BY <1>5, SamePath DEF LookHang, Hang, LookPast, LookEnd
<1> QED BY <1>3, <1>4, <1>5

\* Every operation, and every step of the search, keeps lists and selections in line.
LEMMA PathStep == IInv /\ Path /\ [Next]_vars => Path'
<1> SUFFICES ASSUME IInv, Path, [Next]_vars PROVE Path'
  OBVIOUS
<1>1. Stack /\ bindIn \in {"enter", "load"}
  BY DEF IInv, TypeOK, Stack
<1>2. CASE Enter
  <2>1. /\ cur # 0 /\ entered /\ entered' = entered /\ bindIn' = bindIn /\ depth < MaxDepth
    BY <1>2 DEF Enter, Ready
  <2>2. CASE HasItem(Here)
    <3>1. EnterItem(Here.select_item) /\ Here.select_item < items_num
      BY <1>2, <2>2 DEF Enter, HasItem, items_num
    <3>2. Here.select_item \in Nat
      BY <1>1, <2>1, Current, Constants
    <3> QED BY <1>1, <2>1, <3>1, <3>2, EnterPath
  <2>3. CASE ~HasItem(Here)
    BY <1>2, <2>3, SamePath DEF Enter
  <2> QED BY <2>2, <2>3
<1>3. CASE Exit
  <2>1. PICK r \in BOOLEAN : Leave(r)
    BY <1>3 DEF Exit
  <2> QED BY <1>1, <1>3, <2>1, LeavePath DEF Exit, Ready
<1>4. CASE MainExit
  <2>1. CASE Here.parent = 0
    BY <1>4, <2>1, SamePath DEF MainExit, Hang
  <2>2. CASE Here.parent # 0
    BY <1>1, <1>4, <2>2, LeavePath DEF MainExit, Ready
  <2> QED BY <2>1, <2>2
<1>5. CASE DeInit
  <2>1. CASE entered /\ Here.parent = 0
    BY <1>5, <2>1, SamePath DEF DeInit, Hang
  <2>2. CASE ~(entered /\ Here.parent = 0)
    BY <1>5, <2>2 DEF DeInit, Path, PathEntered, TopBinding, TopSelection
  <2> QED BY <2>1, <2>2
<1>6. CASE LookBegin
  BY <1>6, SamePath DEF LookBegin
<1>7. CASE Gone \/ UNCHANGED vars
  BY <1>7, SamePath DEF Gone, vars
<1> QED BY <1>2, <1>3, <1>4, <1>5, <1>6, <1>7, MenuInitPath, MainEnterPath, ResetPath,
           SelectionPath, TaskPath, LookFoundPath, LookPath DEF Next

LEMMA PathInitially == Init => Path
BY DEF Init, Path, PathEntered, TopBinding, TopSelection

LEMMA PathThroughout == Spec => []Path
BY PathInitially, PathStep, MenuInvariance, PTL DEF Spec

\* The list bound on a level is that of the item selected above it, however late the load
\* callback runs, for every tree of menus.
THEOREM ListsFollowPath == Spec => []ListFitsPath
<1>1. Path => ListFitsPath
  BY DEF Path, PathEntered, ListFitsPath
<1> QED BY <1>1, PathThroughout, PTL

\* Where lists are bound on entering, no selection function, no return to a menu and no
\* search leaves an item selected that the list does not have.
THEOREM SelectionStaysInList == Spec => []SelectionInList
<1>1. IInv /\ Path => SelectionInList
  <2> SUFFICES ASSUME IInv, Path, bindIn = "enter", cur # 0, NEW k \in 1..cur,
                      ctrl[k].list # None
               PROVE  HasItem(ctrl[k])
    BY DEF SelectionInList
  <2>1. cur \in Nat
    BY Constants DEF IInv, TypeOK, StackTypeOK, Level
  <2>2. CASE k = cur
    BY <2>2 DEF Path, TopSelection, Here
  <2>3. CASE k # cur
    <3>1. k + 1 \in 2..cur /\ (k + 1) - 1 = k
      BY <2>1, <2>3
    <3>2. HasItem(ctrl[(k + 1) - 1])
      BY <3>1 DEF Path, PathEntered
    <3> QED BY <3>1, <3>2
  <2> QED BY <2>2, <2>3
<1> QED BY <1>1, PathThroughout, MenuInvariance, PTL

\* The page that menu_task would show contains the item selected, whatever the block held
\* before and however long the list is.
THEOREM SelectionOnPage == Spec => []SelectionShown
<1>1. IInv => SelectionShown
  <2> SUFFICES ASSUME IInv, Ready, HasItem(Here)
               PROVE  /\ Limited(Here) <= Here.select_item
                      /\ Here.select_item < Limited(Here) + Smaller(ShowNum, items_num)
    BY DEF SelectionShown
  <2>1. Stack /\ cur # 0
    BY DEF Ready, IInv, TypeOK, Stack
  <2>2. /\ Here.list \in Menus \cup {None} /\ Here.select_item \in Nat
        /\ Here.show_base_item \in Int
    <3>1. ctrl[cur] \in BlockType
      BY <2>1, Current
    <3> QED BY <3>1, Constants DEF Here, BlockType
  <2>3. Here.list # None
    BY <2>2 DEF HasItem, NumItems
  <2>4. NumItems(Here.list) \in Nat /\ NumItems(Here.list) >= 1
    BY <2>2, <2>3, ListLength, Constants
  <2>5. ShowNum \in Nat /\ ShowNum >= 1
    BY Constants
  <2> QED BY <2>2, <2>4, <2>5 DEF Limited, Smaller, items_num
<1> QED BY <1>1, MenuInvariance, PTL

----------------------------------------------------------------------------
(* The search.  What is below a menu is defined by recursion on the levels; that there is *)
(* such a function is proved level by level.                                              *)
Below(w, d) ==
    [m \in Menus \cup {None} |->
        IF m = None THEN {}
        ELSE LET items == {Items[m][i] : i \in 1..Len(Items[m])}
             IN  {it.window_no : it \in items}
                 \cup (IF d = 0 THEN {}
                       ELSE UNION {w[it.sub] : it \in {x \in items : LeadsOn(x)}})]

LEMMA WindowsDefined == \A d \in Level : Windows[d] = Below(Windows[d - 1], d)
<1> DEFINE T == {n \in Nat : \E g : g = [d \in 0..n |-> Below(g[d - 1], d)]}
<1>0. MaxDepth \in Nat
  BY Constants
<1>1. \A v, w : Below(v, 0) = Below(w, 0)
  BY Zenon DEF Below
<1>2. 0 \in T
  <2> DEFINE g == [d \in 0..0 |-> Below({}, 0)]
  <2>1. \A d \in 0..0 : d = 0
    OBVIOUS
  <2>2. g = [d \in 0..0 |-> Below(g[d - 1], d)]
    <3> HIDE DEF g
    <3>1. \A d \in 0..0 : Below({}, 0) = Below(g[d - 1], d)
      BY <1>1, <2>1, Zenon
    <3> QED BY <3>1, Zenon DEF g
  <2> HIDE DEF g
  <2> QED BY <2>2
<1>3. ASSUME NEW n \in Nat, n < MaxDepth, n \in T PROVE n + 1 \in T
  <2>1. PICK g : g = [d \in 0..n |-> Below(g[d - 1], d)]
    BY <1>3
  <2> DEFINE h == [d \in 0..n + 1 |-> IF d = n + 1 THEN Below(g[n], n + 1) ELSE g[d]]
  <2>2. ASSUME NEW d \in 0..n + 1 PROVE h[d] = Below(h[d - 1], d)
    <3>1. CASE d = n + 1
      <4>1. d - 1 \in 0..n + 1 /\ d - 1 # n + 1 /\ d - 1 = n
        BY <3>1
      <4>2. h[d - 1] = g[n] /\ h[d] = Below(g[n], n + 1)
        BY <3>1, <4>1
      <4> HIDE DEF h
      <4> QED BY <3>1, <4>2
    <3>2. CASE d # n + 1
      <4>1. d \in 0..n /\ h[d] = g[d]
        BY <3>2
      <4>2. g[d] = Below(g[d - 1], d)
        BY <2>1, <4>1
      <4>3. CASE d = 0
        <5> HIDE DEF h
        <5> QED BY <1>1, <4>1, <4>2, <4>3, Zenon
      <4>4. CASE d # 0
        <5>1. d - 1 \in 0..n + 1 /\ d - 1 # n + 1
          BY <4>1, <4>4
        <5>2. h[d - 1] = g[d - 1]
          BY <5>1
        <5> HIDE DEF h
        <5> QED BY <4>1, <4>2, <5>2
      <4> QED BY <4>3, <4>4
    <3> QED BY <3>1, <3>2
  <2>3. h = [d \in 0..n + 1 |-> h[d]]
    OBVIOUS
  <2> HIDE DEF h
  <2>4. h = [d \in 0..n + 1 |-> Below(h[d - 1], d)]
    BY <2>2, <2>3, Zenon
  <2> QED BY <2>4
<1>4. MaxDepth \in T
  <2> HIDE DEF T
  <2> QED BY <1>0, <1>2, <1>3, InductionUpTo
<1>5. \E g : g = [d \in Level |-> Below(g[d - 1], d)]
  BY <1>4 DEF Level
<1>6. Windows = [d \in Level |-> Below(Windows[d - 1], d)]
  BY <1>5, Zenon DEF Windows, Below
<1> QED BY <1>6, Zenon

\* A window that no item of a menu has, nor anything below those that lead on, is not
\* below the menu.
LEMMA NotBelow ==
    ASSUME NEW no, NEW m \in Menus,
           \A i \in 1..Len(Items[m]) :
              /\ Items[m][i].window_no # no
              /\ LeadsOn(Items[m][i]) => \A e \in Level : no \notin Windows[e][Items[m][i].sub]
    PROVE  \A d \in Level : no \notin Windows[d][m]
<1> SUFFICES ASSUME NEW d \in Level PROVE no \notin Windows[d][m]
  OBVIOUS
<1> DEFINE items == {Items[m][i] : i \in 1..Len(Items[m])}
<1>1. m # None
  BY ListLength
<1>2. Windows[d][m] = {it.window_no : it \in items}
                      \cup (IF d = 0 THEN {}
                            ELSE UNION {Windows[d - 1][it.sub] : it \in {x \in items : LeadsOn(x)}})
  <2>1. Windows[d] = Below(Windows[d - 1], d)
    BY WindowsDefined
  <2> QED BY <1>1, <2>1, Zenon DEF Below
<1>3. \A it \in items : it.window_no # no
  OBVIOUS
<1>4. d # 0 => d - 1 \in Level
  BY Constants DEF Level
<1>5. d # 0 => \A it \in items : LeadsOn(it) => no \notin Windows[d - 1][it.sub]
  BY <1>4, Zenon
<1> HIDE DEF items
<1> QED BY <1>2, <1>3, <1>5, Zenon

LEMMA NothingBelowNone == \A d \in Level : Windows[d][None] = {}
<1> SUFFICES ASSUME NEW d \in Level PROVE Windows[d][None] = {}
  OBVIOUS
<1>1. Windows[d] = Below(Windows[d - 1], d)
  BY WindowsDefined
<1> QED BY <1>1, Zenon DEF Below

\* Neither the item itself nor anything it leads to is what the search looks for.
Absent(it, no) == /\ it.window_no # no
                  /\ LeadsOn(it) => \A d \in Level : no \notin Windows[d][it.sub]

LevelOf(from, j) == from + j - 1      \* where call j of the search looks

\* What was open when the search began still is; each call but the last has entered the
\* item it looks at; and what a call has passed is absent, where lists are bound on entering.
SearchOpened == look # Idle =>
    /\ Len(look.opened) = look.from - 1
    /\ \A k \in 1..look.from - 1 : open[k] = look.opened[k]

SearchPath == look # Idle =>
    \A j \in 1..Len(look.at) - 1 :
       /\ ctrl[LevelOf(look.from, j)].select_item = look.at[j]
       /\ ItemOf(ctrl[LevelOf(look.from, j)]).window_no # look.no

SearchPassed == look # Idle /\ bindIn = "enter" =>
    \A j \in 1..Len(look.at) :
       \A i \in 1..NumItems(ctrl[LevelOf(look.from, j)].list) :
          i <= look.at[j] => Absent(Items[ctrl[LevelOf(look.from, j)].list][i], look.no)

Searched == SearchOpened /\ SearchPath /\ SearchPassed

\* Where a search is.
LEMMA Search ==
    ASSUME IInv, look # Idle
    PROVE  /\ Stack /\ cur \in Nat /\ cur # 0
           /\ look.at \in Seq(Nat) /\ Len(look.at) \in Nat /\ Len(look.at) >= 1
           /\ LookAt \in Nat /\ LookAt = look.at[Len(look.at)]
           /\ look.from \in Nat /\ look.from >= 1
           /\ cur = look.from + Len(look.at) - 1
           /\ look.opened \in Seq((Menus \cup {None}) \X Nat)
           /\ open \in Seq((Menus \cup {None}) \X Nat) /\ Len(open) = cur - 1
           /\ look = [no |-> look.no, at |-> look.at, from |-> look.from, opened |-> look.opened]
<1>1. Stack /\ cur \in Nat
  BY Constants DEF IInv, TypeOK, Stack, StackTypeOK, Level
<1>2. /\ look.at \in Seq(Nat) /\ Len(look.at) >= 1 /\ look.from \in 1..cur
      /\ cur = look.from + Len(look.at) - 1
      /\ look.opened \in Seq((Menus \cup {None}) \X Nat)
      /\ look = [no |-> look.no, at |-> look.at, from |-> look.from, opened |-> look.opened]
  BY DEF IInv, TypeOK, LookType, LookLevels
<1>3. cur # 0
  BY <1>1, <1>2
<1>4. open \in Seq((Menus \cup {None}) \X Nat) /\ Len(open) = cur - 1
  BY <1>1, <1>3 DEF Stack, StackTypeOK, OpenIsPath
<1> QED BY <1>1, <1>2, <1>3, <1>4, SMTT(20) DEF LookAt

LEMMA SearchBegins == ASSUME IInv, LookBegin PROVE Searched'
<1>1. PICK no \in 1..MaxWindow : look' = [no |-> no, at |-> <<0>>, from |-> cur, opened |-> open]
  BY DEF LookBegin
<1>2. cur # 0 /\ open' = open /\ Len(open) = cur - 1
  BY DEF LookBegin, IInv, OpenIsPath
<1>3. look'.at = <<0>> /\ look'.from = cur /\ look'.opened = open
  BY <1>1
<1>4. SearchOpened'
  BY <1>2, <1>3 DEF SearchOpened
<1>5. SearchPath'
  BY <1>3 DEF SearchPath
<1>6. SearchPassed'
  <2>1. Len(look'.at) = 1 /\ look'.at[1] = 0
    BY <1>3
  <2>2. \A n : \A i \in 1..n : ~(i <= 0)
    OBVIOUS
  <2> QED BY <2>1, <2>2 DEF SearchPassed
<1> QED BY <1>4, <1>5, <1>6 DEF Searched

\* Into a menu: its call begins with the first item.
LEMMA SearchInto == ASSUME IInv, Searched, LookInto PROVE Searched'
<1>1. /\ look # Idle /\ EnterItem(LookAt) /\ depth < MaxDepth /\ LookAt < items_num
      /\ LookItem.window_no # look.no /\ bindIn' = bindIn
      /\ look' = [look EXCEPT !.at = Append(@, 0)]
  BY DEF LookInto, Looking, CanEnter
<1> DEFINE L == Len(look.at)
<1>2. /\ Stack /\ cur \in Nat /\ cur # 0
      /\ look.at \in Seq(Nat) /\ L \in Nat /\ L >= 1
      /\ LookAt \in Nat /\ LookAt = look.at[L]
      /\ look.from \in Nat /\ look.from >= 1 /\ cur = look.from + L - 1
      /\ open \in Seq((Menus \cup {None}) \X Nat) /\ Len(open) = cur - 1
      /\ look = [no |-> look.no, at |-> look.at, from |-> look.from, opened |-> look.opened]
  BY <1>1, Search
<1>3. /\ cur' = cur + 1 /\ Here.list \in Menus
      /\ \A k \in 1..cur - 1 : ctrl'[k] = ctrl[k]
      /\ \A k \in 1..cur : ctrl'[k].list = ctrl[k].list
      /\ ctrl'[cur].select_item = LookAt
      /\ ItemOf(ctrl'[cur]) = Items[Here.list][LookAt + 1]
      /\ open' = Append(open, <<Here.list, LookAt>>)
  BY <1>1, <1>2, EnterFrame
<1>4. /\ look'.no = look.no /\ look'.from = look.from /\ look'.opened = look.opened
      /\ look'.at = Append(look.at, 0)
  <2>1. look' = [no |-> look.no, at |-> Append(look.at, 0), from |-> look.from, opened |-> look.opened]
    BY <1>1, <1>2
  <2> QED BY <2>1
<1>5. /\ Len(look'.at) = L + 1 /\ look'.at[L + 1] = 0
      /\ \A j \in 1..L : look'.at[j] = look.at[j]
  BY <1>2, <1>4
<1>6. ASSUME NEW j \in 1..L
      PROVE  /\ LevelOf(look.from, j) \in 1..cur
             /\ j = L => LevelOf(look.from, j) = cur
             /\ j # L => LevelOf(look.from, j) \in 1..cur - 1 /\ j \in 1..L - 1
  <2>1. look.from \in Nat /\ look.from >= 1 /\ L \in Nat /\ cur = look.from + L - 1
    BY <1>2
  <2> HIDE DEF L
  <2> QED BY <2>1 DEF LevelOf
<1>7. SearchOpened'
  <2>1. \A k \in 1..look.from - 1 : open'[k] = open[k]
    <3>1. \A k \in 1..look.from - 1 : k \in 1..Len(open)
      <4>1. /\ look.from \in Nat /\ L \in Nat /\ L >= 1
            /\ cur = look.from + L - 1 /\ Len(open) = cur - 1
        BY <1>2
      <4> HIDE DEF L
      <4> QED BY <4>1
    <3>2. <<Here.list, LookAt>> \in (Menus \cup {None}) \X Nat
      BY <1>2, <1>3
    <3>3. \A k \in 1..Len(open) : Append(open, <<Here.list, LookAt>>)[k] = open[k]
      BY <1>2, <3>2
    <3> QED BY <1>3, <3>1, <3>3, Zenon
  <2> QED BY <1>1, <1>4, <2>1 DEF Searched, SearchOpened
<1>8. SearchPath'
  <2>1. ASSUME NEW j \in 1..L
        PROVE  /\ ctrl'[LevelOf(look.from, j)].select_item = look.at[j]
               /\ ItemOf(ctrl'[LevelOf(look.from, j)]).window_no # look.no
    <3>1. CASE j = L
      BY <3>1, <1>1, <1>2, <1>3, <1>6 DEF LookItem
    <3>2. CASE j # L
      <4>1. LevelOf(look.from, j) \in 1..cur - 1 /\ j \in 1..L - 1
        BY <3>2, <1>6
      <4> QED BY <1>1, <1>3, <4>1 DEF Searched, SearchPath
    <3> QED BY <3>1, <3>2
  <2>2. Len(look'.at) - 1 = L
    BY <1>2, <1>5
  <2> QED BY <1>4, <1>5, <2>1, <2>2 DEF SearchPath
<1>9. SearchPassed'
  <2> SUFFICES ASSUME bindIn = "enter", NEW j \in 1..L + 1,
                      NEW i \in 1..NumItems(ctrl'[LevelOf(look.from, j)].list), i <= look'.at[j]
               PROVE  Absent(Items[ctrl'[LevelOf(look.from, j)].list][i], look.no)
    BY <1>1, <1>4, <1>5 DEF SearchPassed
  <2>1. j \in 1..L
    <3>1. i >= 1
      OBVIOUS
    <3>2. j # L + 1
      BY <1>5, <3>1
    <3> QED BY <1>2, <3>2
  <2>2. ctrl'[LevelOf(look.from, j)].list = ctrl[LevelOf(look.from, j)].list
    BY <1>3, <1>6, <2>1
  <2>3. Absent(Items[ctrl[LevelOf(look.from, j)].list][i], look.no)
    BY <1>1, <1>5, <2>1, <2>2 DEF Searched, SearchPassed
  <2> QED BY <2>2, <2>3
<1> QED BY <1>7, <1>8, <1>9 DEF Searched

\* Past an item that has another window and leads nowhere.
LEMMA SearchPast == ASSUME IInv, Searched, LookPast PROVE Searched'
<1>1. /\ look # Idle /\ LookAt < items_num /\ LookItem.window_no # look.no
      /\ ~LeadsOn(LookItem) /\ look' = [look EXCEPT !.at = Onwards(@)]
      /\ UNCHANGED <<cur, ctrl, bindIn, open>>
  BY DEF LookPast, Looking
<1> DEFINE L == Len(look.at)
<1>2. /\ cur \in Nat /\ look.at \in Seq(Nat) /\ L \in Nat /\ L >= 1
      /\ LookAt \in Nat /\ LookAt = look.at[L]
      /\ look.from \in Nat /\ cur = look.from + L - 1
      /\ look = [no |-> look.no, at |-> look.at, from |-> look.from, opened |-> look.opened]
  BY <1>1, Search
<1>3. /\ look'.no = look.no /\ look'.from = look.from /\ look'.opened = look.opened
      /\ look'.at = [look.at EXCEPT ![L] = @ + 1]
  <2>1. look' = [no |-> look.no, at |-> Onwards(look.at), from |-> look.from, opened |-> look.opened]
    BY <1>1, <1>2
  <2> QED BY <2>1 DEF Onwards
<1>4. /\ Len(look'.at) = L /\ look'.at[L] = LookAt + 1
      /\ \A j \in 1..L - 1 : look'.at[j] = look.at[j]
  BY <1>2, <1>3
<1>5. SearchOpened'
  BY <1>1, <1>3 DEF Searched, SearchOpened
<1>6. SearchPath'
  BY <1>1, <1>3, <1>4 DEF Searched, SearchPath
<1>7. SearchPassed'
  <2> SUFFICES ASSUME bindIn = "enter", NEW j \in 1..L,
                      NEW i \in 1..NumItems(ctrl[LevelOf(look.from, j)].list), i <= look'.at[j]
               PROVE  Absent(Items[ctrl[LevelOf(look.from, j)].list][i], look.no)
    BY <1>1, <1>3, <1>4 DEF SearchPassed
  <2>1. CASE i <= look.at[j]
    BY <1>1, <2>1 DEF Searched, SearchPassed
  <2>2. CASE ~(i <= look.at[j])
    <3>1. j = L
      <4>1. j # L => j \in 1..L - 1
        <5>1. L \in Nat
          BY <1>2
        <5> HIDE DEF L
        <5> QED BY <5>1
      <4> QED BY <1>4, <2>2, <4>1
    <3>2. i = LookAt + 1
      <4>1. LookAt \in Nat /\ i \in Int /\ i <= LookAt + 1 /\ ~(i <= LookAt)
        BY <1>2, <1>4, <2>2, <3>1
      <4> QED BY <4>1
    <3>3. LevelOf(look.from, j) = cur
      BY <1>2, <3>1 DEF LevelOf
    <3>4. Items[ctrl[LevelOf(look.from, j)].list][i] = LookItem
      BY <3>2, <3>3 DEF LookItem, Here
    <3> QED BY <1>1, <3>4 DEF Absent
  <2> QED BY <2>1, <2>2
<1> QED BY <1>5, <1>6, <1>7 DEF Searched

LEMMA LastDropped ==
    ASSUME NEW S, NEW s \in Seq(S), Len(s) >= 1
    PROVE  /\ SubSeq(s, 1, Len(s) - 1) \in Seq(S)
           /\ Len(SubSeq(s, 1, Len(s) - 1)) = Len(s) - 1
           /\ \A j \in 1..Len(s) - 1 : SubSeq(s, 1, Len(s) - 1)[j] = s[j]
<1> PICK n \in Nat : n = Len(s) - 1
  OBVIOUS
<1>1. \A j \in 1..n : j \in 1..Len(s) /\ s[j] \in S
  OBVIOUS
<1> DEFINE r == [j \in 1..n |-> s[j]]
<1>2. SubSeq(s, 1, n) = r
  OBVIOUS
<1>3. r \in Seq(S) /\ Len(r) = n /\ \A j \in 1..n : r[j] = s[j]
  BY <1>1
<1> QED BY <1>2, <1>3

LEMMA OnwardsStep ==
    ASSUME NEW s \in Seq(Nat), Len(s) >= 1
    PROVE  /\ Len(Onwards(s)) = Len(s) /\ Onwards(s)[Len(s)] = s[Len(s)] + 1
           /\ \A j \in 1..Len(s) - 1 : Onwards(s)[j] = s[j]
BY DEF Onwards

LEMMA Levels ==
    \A from, L \in Nat : from >= 1 /\ L >= 2 =>
       /\ \A j \in 1..L - 1 :
             /\ LevelOf(from, j) \in 1..(from + L - 1) - 1
             /\ j = L - 1 => LevelOf(from, j) = (from + L - 1) - 1
             /\ j # L - 1 => LevelOf(from, j) \in 1..(from + L - 1) - 2 /\ j \in 1..L - 2
       /\ \A k \in 1..from - 1 : k \in 1..((from + L - 1) - 1) - 1
       /\ LevelOf(from, L) = from + L - 1
BY DEF LevelOf

\* Out of a menu that has been looked through: the item that led to it is passed, and
\* nothing below it is what the search looks for.
LEMMA SearchOut == ASSUME IInv, Path, Searched, LookOut PROVE Searched'
<1>1. /\ look # Idle /\ LookAt >= items_num /\ Len(look.at) > 1 /\ Leave(FALSE)
      /\ look' = [look EXCEPT !.at = Onwards(SubSeq(@, 1, Len(@) - 1))]
      /\ bindIn' = bindIn
  BY DEF LookOut, Looking
<1>0. /\ Stack /\ cur \in Nat /\ cur # 0
      /\ look.at \in Seq(Nat) /\ Len(look.at) \in Nat
      /\ LookAt \in Nat /\ LookAt = look.at[Len(look.at)]
      /\ look.from \in Nat /\ look.from >= 1 /\ cur = look.from + Len(look.at) - 1
      /\ open \in Seq((Menus \cup {None}) \X Nat) /\ Len(open) = cur - 1
  BY <1>1, Search
<1> PICK L \in Nat : L = Len(look.at)
  BY <1>0
<1>2. /\ L = Len(look.at) /\ L >= 2 /\ LookAt = look.at[L] /\ cur = look.from + L - 1
  BY <1>0, <1>1
<1>3. cur >= 2 /\ Here.parent # 0
  <2>1. cur >= 2
    BY <1>0, <1>2
  <2> QED BY <1>0, <2>1, Current
<1>4. /\ cur' = cur - 1
      /\ \A k \in 1..cur - 2 : ctrl'[k] = ctrl[k]
      /\ \A k \in 1..cur - 1 : ctrl'[k].list = ctrl[k].list
      /\ open' = SubSeq(open, 1, Len(open) - 1)
  BY <1>0, <1>1, <1>3, LeaveFrame
<1>5. PICK rest \in Seq(Nat) : /\ rest = SubSeq(look.at, 1, L - 1)
                              /\ Len(rest) = L - 1 /\ \A j \in 1..L - 1 : rest[j] = look.at[j]
  <2>1. look.at \in Seq(Nat) /\ Len(look.at) >= 1 /\ L = Len(look.at)
    BY <1>0, <1>2
  <2>2. /\ SubSeq(look.at, 1, Len(look.at) - 1) \in Seq(Nat)
        /\ Len(SubSeq(look.at, 1, Len(look.at) - 1)) = Len(look.at) - 1
        /\ \A j \in 1..Len(look.at) - 1 : SubSeq(look.at, 1, Len(look.at) - 1)[j] = look.at[j]
    BY <2>1, LastDropped
  <2> QED BY <2>1, <2>2, Zenon
<1>6. /\ look'.no = look.no /\ look'.from = look.from /\ look'.opened = look.opened
      /\ look'.at = Onwards(rest)
  <2>1. look' = [no |-> look.no, at |-> Onwards(rest), from |-> look.from, opened |-> look.opened]
    BY <1>1, <1>2, <1>5, Search
  <2> QED BY <2>1
<1>7. /\ Len(look'.at) = L - 1 /\ look'.at[L - 1] = look.at[L - 1] + 1
      /\ \A j \in 1..L - 2 : look'.at[j] = look.at[j]
      /\ \A j \in 1..L - 1 : look.at[j] \in Nat
  <2>1. L - 1 >= 1 /\ L - 1 \in 1..L - 1 /\ \A j \in 1..L - 2 : j \in 1..L - 1
        /\ (L - 1) - 1 = L - 2
    BY <1>2
  <2>2. /\ Len(Onwards(rest)) = L - 1 /\ Onwards(rest)[L - 1] = rest[L - 1] + 1
        /\ \A j \in 1..L - 2 : Onwards(rest)[j] = rest[j]
    <3>1. Len(rest) = L - 1 /\ Len(rest) >= 1 /\ Len(rest) - 1 = L - 2
      BY <1>5, <2>1
    <3>2. /\ Len(Onwards(rest)) = Len(rest) /\ Onwards(rest)[Len(rest)] = rest[Len(rest)] + 1
          /\ \A j \in 1..Len(rest) - 1 : Onwards(rest)[j] = rest[j]
      BY <3>1, OnwardsStep, Zenon
    <3> QED BY <3>1, <3>2, Zenon
  <2>3. \A j \in 1..L - 1 : look.at[j] \in Nat
    <3>1. \A j \in 1..L : look.at[j] \in Nat
      <4>1. look.at \in Seq(Nat) /\ L = Len(look.at)
        BY <1>0, <1>2
      <4> QED BY <4>1
    <3> QED BY <3>1
  <2> QED BY <1>5, <1>6, <2>1, <2>2, <2>3
<1>8. ASSUME NEW j \in 1..L - 1
      PROVE  /\ LevelOf(look.from, j) \in 1..cur - 1
             /\ j = L - 1 => LevelOf(look.from, j) = cur - 1
             /\ j # L - 1 => LevelOf(look.from, j) \in 1..cur - 2 /\ j \in 1..L - 2
  <2>1. look.from \in Nat /\ look.from >= 1 /\ L \in Nat /\ L >= 2 /\ cur = look.from + L - 1
    BY <1>0, <1>2
  <2>2. \A k \in 1..L - 1 : /\ LevelOf(look.from, k) \in 1..cur - 1
                            /\ k = L - 1 => LevelOf(look.from, k) = cur - 1
                            /\ k # L - 1 => LevelOf(look.from, k) \in 1..cur - 2 /\ k \in 1..L - 2
    BY <2>1, Levels, Zenon
  <2> QED BY <2>2, Zenon
<1>9. SearchOpened'
  <2>1. \A k \in 1..look.from - 1 : open'[k] = open[k]
    <3>1. Len(open) >= 1 /\ \A k \in 1..look.from - 1 : k \in 1..Len(open) - 1
      <4>1. look.from \in Nat /\ look.from >= 1 /\ L >= 2 /\ cur = look.from + L - 1
        BY <1>0, <1>2
      <4>2. Len(open) = cur - 1 /\ cur >= 2
        BY <1>0, <1>3
      <4>3. \A k \in 1..look.from - 1 : k \in 1..(cur - 1) - 1
        BY <4>1, Levels, Zenon
      <4>4. Len(open) >= 1
        BY <1>0, <4>2
      <4> QED BY <4>2, <4>3, <4>4
    <3>2. \A k \in 1..Len(open) - 1 : SubSeq(open, 1, Len(open) - 1)[k] = open[k]
      BY <1>0, <3>1, LastDropped
    <3> QED BY <1>4, <3>1, <3>2
  <2> QED BY <1>1, <1>6, <2>1 DEF Searched, SearchOpened
<1>10. SearchPath'
  <2> SUFFICES ASSUME NEW j \in 1..L - 2
               PROVE  /\ ctrl'[LevelOf(look.from, j)].select_item = look.at[j]
                      /\ ItemOf(ctrl'[LevelOf(look.from, j)]).window_no # look.no
    <3>1. Len(look'.at) - 1 = L - 2
      BY <1>2, <1>7
    <3> QED BY <1>6, <1>7, <3>1 DEF SearchPath
  <2>1. j \in 1..L - 1 /\ j # L - 1
    OBVIOUS
  <2>2. ctrl'[LevelOf(look.from, j)] = ctrl[LevelOf(look.from, j)]
    BY <1>4, <1>8, <2>1
  <2> QED BY <1>1, <1>2, <2>1, <2>2 DEF Searched, SearchPath
<1>11. SearchPassed'
  <2> DEFINE M(j) == ctrl[LevelOf(look.from, j)].list
  <2> SUFFICES ASSUME bindIn = "enter", NEW j \in 1..L - 1,
                      NEW i \in 1..NumItems(M(j)), i <= look'.at[j]
               PROVE  Absent(Items[M(j)][i], look.no)
    <3>1. \A j \in 1..L - 1 : ctrl'[LevelOf(look.from, j)].list = M(j)
      BY <1>4, <1>8
    <3> QED BY <1>1, <1>6, <1>7, <3>1 DEF SearchPassed
  <2>0. j \in 1..L /\ look.at[j] \in Nat
    BY <1>7
  <2>1. CASE i <= look.at[j]
    BY <1>1, <1>2, <2>0, <2>1 DEF Searched, SearchPassed
  <2>2. CASE ~(i <= look.at[j])
    <3>1. j = L - 1
      BY <1>7, <1>8, <2>0, <2>2
    <3>2. i = look.at[j] + 1
      BY <1>7, <2>0, <2>2, <3>1, SMTT(20)
    <3>3. LevelOf(look.from, j) = cur - 1 /\ cur - 1 \in 1..cur - 1
      BY <1>0, <1>3, <1>8, <3>1
    <3> DEFINE up == ctrl[cur - 1]
               below == ctrl[cur].list
    <3>4. up.select_item = look.at[j] /\ ItemOf(up).window_no # look.no
      BY <1>1, <1>2, <3>3 DEF Searched, SearchPath
    <3>5. Items[M(j)][i] = ItemOf(up)
      BY <3>2, <3>3, <3>4 DEF ItemOf
    <3>6. below = ItemOf(up).sub
      <4>1. cur \in 2..cur
        BY <1>0, <1>3
      <4> QED BY <1>0, <4>1 DEF Path, PathEntered
    <3>7. \A d \in Level : look.no \notin Windows[d][below]
      <4>1. CASE below = None
        BY <4>1, NothingBelowNone
      <4>2. CASE below # None
        <5>1. below \in Menus /\ NumItems(below) = Len(Items[below])
          <6>1. below \in Menus
            BY <1>0, <4>2, Current DEF Here
          <6> QED BY <6>1, <4>2 DEF NumItems
        <5>2. LevelOf(look.from, L) = cur
          <6>1. look.from \in Nat /\ look.from >= 1 /\ L >= 2 /\ cur = look.from + L - 1
            BY <1>0, <1>2
          <6> QED BY <6>1, Levels, Zenon
        <5>3. \A k \in 1..Len(Items[below]) : Absent(Items[below][k], look.no)
          <6> SUFFICES ASSUME NEW k \in 1..Len(Items[below]) PROVE Absent(Items[below][k], look.no)
            OBVIOUS
          <6>1. Len(Items[below]) \in Nat /\ items_num = Len(Items[below])
            BY <5>1, Constants DEF items_num, Here
          <6>2. k <= look.at[L]
            <7>1. LookAt \in Nat /\ LookAt = look.at[L] /\ LookAt >= items_num
              BY <1>0, <1>1, <1>2
            <7>2. k \in Nat /\ k <= Len(Items[below])
              BY <6>1
            <7> HIDE DEF below
            <7> QED BY <6>1, <7>1, <7>2
          <6>3. L \in 1..L
            BY <1>2
          <6> QED BY <1>1, <1>2, <5>1, <5>2, <6>2, <6>3 DEF Searched, SearchPassed
        <5> HIDE DEF below
        <5> QED BY <5>1, <5>3, NotBelow, Zenon DEF Absent
      <4> QED BY <4>1, <4>2
    <3> HIDE DEF up, below, M
    <3> QED BY <3>4, <3>5, <3>6, <3>7 DEF Absent
  <2> QED BY <2>1, <2>2
<1> QED BY <1>9, <1>10, <1>11 DEF Searched

\* Everything but the search leaves no search behind, and finds none.
LEMMA NoSearch ==
    ASSUME look' = Idle
    PROVE  Searched'
BY DEF Searched, SearchOpened, SearchPath, SearchPassed

LEMMA SameSearch ==
    ASSUME Searched, UNCHANGED <<ctrl, look, open, bindIn>>
    PROVE  Searched'
BY DEF Searched, SearchOpened, SearchPath, SearchPassed, ItemOf

LEMMA SearchStep == IInv /\ Path /\ Searched /\ [Next]_vars => Searched'
<1> SUFFICES ASSUME IInv, Path, Searched, [Next]_vars PROVE Searched'
  OBVIOUS
<1>1. CASE LookFound \/ LookEnd
  BY <1>1, NoSearch DEF LookFound, LookEnd
<1>2. CASE LookHang
  BY <1>2, SameSearch DEF LookHang, Hang
<1>3. CASE Gone \/ UNCHANGED vars
  BY <1>3, SameSearch DEF Gone, vars
<1>4. CASE \/ MenuInit \/ MainEnter \/ MainExit \/ DeInit \/ Reset \/ Enter \/ Exit \/ Task
  BY <1>4, NoSearch DEF MenuInit, MainEnter, MainExit, DeInit, Reset, Enter, Exit, Task, Called
<1>5. CASE \/ SelectPrevious \/ SelectNext \/ SelectPreviousPage \/ SelectNextPage \/ JumpItem
  BY <1>5, NoSearch DEF SelectPrevious, SelectNext, SelectPreviousPage, SelectNextPage, JumpItem,
     Select, SelectPage, Called
<1> QED BY <1>1, <1>2, <1>3, <1>4, <1>5, SearchBegins, SearchInto, SearchPast, SearchOut DEF Next

LEMMA SearchThroughout == Spec => []Searched
<1>1. Init => Searched
  BY DEF Init, Searched, SearchOpened, SearchPath, SearchPassed
<1> QED BY <1>1, SearchStep, MenuInvariance, PathThroughout, PTL DEF Spec

LEMMA SameItems ==
    ASSUME NEW S, NEW s \in Seq(S), NEW t \in Seq(S), Len(s) = Len(t),
           \A k \in 1..Len(s) : s[k] = t[k]
    PROVE  s = t
OBVIOUS

\* A search that finds nothing ends where it began, having run the callback for leaving
\* of every menu it entered; and there was nothing to be found, on any level below.
THEOREM SearchFindsOrRestores == Spec => SearchSound
<1>1. IInv /\ Searched /\ [Next]_vars =>
          [LookEnd => /\ cur = look.from /\ open = look.opened
                      /\ bindIn = "enter" => look.no \notin Windows[MaxDepth][Here.list]]_vars
  <2> SUFFICES ASSUME IInv, Searched, LookEnd
               PROVE  /\ cur = look.from /\ open = look.opened
                      /\ bindIn = "enter" => look.no \notin Windows[MaxDepth][Here.list]
    OBVIOUS
  <2>1. look # Idle /\ LookAt >= items_num /\ Len(look.at) = 1
    BY DEF LookEnd, Looking
  <2>2. /\ Stack /\ cur \in Nat /\ cur # 0 /\ LookAt \in Nat /\ LookAt = look.at[1]
        /\ look.from \in Nat /\ look.from >= 1
        /\ cur = look.from + Len(look.at) - 1
        /\ look.opened \in Seq((Menus \cup {None}) \X Nat)
        /\ open \in Seq((Menus \cup {None}) \X Nat) /\ Len(open) = cur - 1
    BY <2>1, Search
  <2>3. cur = look.from /\ LevelOf(look.from, 1) = cur
    <3>1. look.from \in Nat /\ cur = look.from + 1 - 1
      BY <2>1, <2>2
    <3> QED BY <3>1 DEF LevelOf
  <2>4. open = look.opened
    <3>1. Len(look.opened) = Len(open) /\ \A k \in 1..Len(open) : open[k] = look.opened[k]
      BY <2>1, <2>2, <2>3 DEF Searched, SearchOpened
    <3> QED BY <2>2, <3>1, SameItems
  <2>5. ASSUME bindIn = "enter" PROVE look.no \notin Windows[MaxDepth][Here.list]
    <3>1. MaxDepth \in Level
      BY Constants DEF Level
    <3>2. CASE Here.list = None
      BY <3>1, <3>2, NothingBelowNone
    <3>3. CASE Here.list # None
      <4>1. Here.list \in Menus /\ items_num = Len(Items[Here.list])
        BY <2>2, <3>3, Current DEF items_num, NumItems
      <4>2. Len(Items[Here.list]) \in Nat
        BY <4>1, Constants
      <4>3. \A i \in 1..Len(Items[Here.list]) : Absent(Items[Here.list][i], look.no)
        <5> SUFFICES ASSUME NEW i \in 1..Len(Items[Here.list])
                     PROVE  Absent(Items[Here.list][i], look.no)
          OBVIOUS
        <5>1. i <= look.at[1]
          <6>1. LookAt \in Nat /\ LookAt >= Len(Items[Here.list]) /\ i <= Len(Items[Here.list])
            BY <2>1, <2>2, <4>1, <4>2
          <6>2. i <= LookAt
            BY <4>2, <6>1
          <6> QED BY <2>2, <6>2
        <5>2. 1 \in 1..Len(look.at) /\ i \in 1..NumItems(ctrl[LevelOf(look.from, 1)].list)
          BY <2>1, <2>3, <4>1 DEF items_num, Here
        <5> QED BY <2>1, <2>3, <5>1, <5>2, <2>5 DEF Searched, SearchPassed, Here
      <4> QED BY <3>1, <4>1, <4>3, NotBelow, Zenon DEF Absent
    <3> QED BY <3>2, <3>3
  <2> QED BY <2>3, <2>4, <2>5
<1> QED BY <1>1, SearchThroughout, MenuInvariance, PTL DEF Spec, SearchSound
=============================================================================
