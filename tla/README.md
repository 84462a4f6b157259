# A verification of the firmware-upgrade core of GD32F407VET6

The repository is a bare-metal project for a GD32F407 board: RT-Thread Nano, the vendors' drivers and, in
`src/User`, a library of the author's own: a YMODEM boot loader, stackless coroutines ("flows"), a ring queue, a
frame parser, a menu engine, button handling, allocators and some arithmetic. `main.c` itself only toggles a LED;
what can go wrong lives in the library, where interrupt handlers and one main loop share state without locks.

## 1. Inventory

| Part (source) | State | Operations | Who calls whom |
|---|---|---|---|
| Ring queue (`lib/src/sqqueue.c`) | slots, `front`, `rear` | enter, string_enter, revoke in the interrupt; get_len, del, clear, remove in the main loop | used by the YMODEM receiver and the frame parser |
| Flows (`lib/flow`) | per flow: where it resumes, when it was suspended; the semaphore's count; `flow_tick` | suspend, delay, wait for the semaphore with timeout, release, tick | the timer interrupt ticks, the receive interrupt releases, the main loop resumes |
| YMODEM receiver (`lib/bootload/ymodem.c`) | `stage`, `rym_tm_sec`, the receive queue, the timeout counts, three flows | `rym_receive` (interrupt), `rym_process`, `rym_timeout` (main loop) | calls back into bootload.c, transmits codes to the sender |
| Firmware store (`lib/bootload/bootload.c`) | bank 2 of the flash, `flashdestination`, the running CMAC | on_begin, on_data, on_end, jump | called by the receiver; tells the application with `end_callback` |
| Frame parser (`lib/src/data_analysis.c`) | the recogniser's state and indices, the queue, `locked` | one character in the interrupt, `data_read`, lock, unlock, register | the frame's handler runs in the interrupt and reads the frame there |
| Menu engine (`lib/menu/menu.c`) | the stack of menus, selection, callbacks | init, bind, enter, exit, select, main enter and exit, task | application callbacks run inside its operations |
| Buttons (`system/src/btn.c`) | per button debounce count, click automaton, `next`; the head of the list of started buttons | ticks (main loop), init, start, stop | runs the application's event callbacks in the middle of its walk along the list; they may call start and stop |
| Block allocator (`lib/src/malloc.c`) | per bank: ready, the table of block counts, the pool | malloc, free, realloc, and the set-up on first use | the list below and any other client share a bank |
| List (`lib/src/clist.c`) | the pointer to the first node; nodes in the pool | push, pop, insert, erase, remove, remove_all, destroy | allocates and frees a block per node |
| CMAC (`lib/src/cmac.c`) | the chained block, the block held back | init, update, final | fed by on_data packet by packet, by on_end page by page |
| Packet buffers, command table, AES, filters, PID | pools; none; none; histories in floats | | not in the build; sequential |

What is hard in this code: the receive and timer interrupts run between any two instructions of the main loop; the
semaphore is a plain `--count` against `++count`; the YMODEM line loses, spoils and fragments what it carries and the
sender repeats; timeouts, a handshake that runs out and a jump that ends everything race with packets; and several
indices are narrower than what they count. `PROJECT.json` lists the hazards at their lines.

What makes each part correct:

* ring queue: a bounded FIFO for one writer in an interrupt and one reader, with the item handed to the reader left alone;
* flows: no release taken twice or out of nothing, a wait that ends, and a truthful answer to "was there a release?";
* receiver and store: the bank holds the blocks of the file, in order and each once; what was acknowledged came
  in whole and was written in its place; the verdict given to the application is true and stays true; no jump in mid-transfer; the device always comes up;
* frame parser: what it would revoke is the frame under way and nothing else; the handler reads each frame whole;
* menu: the selection stays inside the bound list, the depth count agrees with the stack, leaving gets to the main menu;
* buttons: what is reported is in step with the level, a press sequence gets one name, and a pass of `button_ticks` gives each
  button one turn and ends, whatever the callbacks do to the list;
* allocator: ranges held are disjoint and keep their contents, no block leaks, free memory is zero;
* list: the linked nodes are a sequence, next to other clients of the pool;
* CMAC: the digest does not depend on how the bytes come in.

## 2. Plan

Done in this version: 1 to 12. Each step added its module, an MC module, its runs and, where it pays, its theorems.

1. `Fifo`, `SqQueue`: the abstract queue and the ring that implements it, interrupt by interrupt.
2. `Flow`, `Bootload`, `Ymodem`: the receiver, component by component.
3. `Transfer`, `Upgrade`: what an upgrade promises, and the composition of receiver, timer, line and sender.
4. `SqQueueProofs`, `UpgradeProofs`, `MenuProofs`: the first theorems.
5. `DataAnalysis`: the frame parser and its handlers; alignment of frames, revoking, locking.
6. `Menu`, with `menu_main_exit` against its doc.
7. `Button`: debouncing, the click automaton, and the list that callbacks change under the walk.
8. `Heap`, `Malloc`, `Listing`, `CList`: the allocator with the list on it, each against its abstract specification; `Cmac`
   under the verdict of `Upgrade`.
9. `MallocProofs` and `ButtonProofs`: the allocator is a heap, and the click automaton keeps its promises, for every instance.
10. `LeastNumber`, `CListProofs`, `DataAnalysisProofs` and more in `SqQueueProofs`, `MenuProofs` and `ButtonProofs`: the ring implements
   `Fifo`, the list implements `Listing` next to the allocator's other clients, the frame parser's promises, lists, selection and search
   of the menu, the list of buttons and its walk.
11. More in `UpgradeProofs`: the types of the whole composition; on a plain line (section 6) the upgrade implements `Transfer`, what is
   acknowledged was received and programmed, and a positive verdict is true of the file.
12. `VerdictIsDigest` of the composition with `Cmac`, for every length of blocks, packets and pages.

## 3. Modules and how they correspond to the code

**Fifo** is the abstract queue: a sequence and the item in the reader's hands.

**SqQueue** is `sqqueue.c`. `base`, `front` and `rear` are the fields of the same name; the ring has one slot more than
its capacity, as `sqqueue_init` makes it. An operation called in the interrupt is one action (`Enter`, `StringEnter`,
`Revoke`); one called in the main loop is cut at its accesses to `front` and `rear` (`ReadBegin`, `DelCheck`,
`DelPublish`, `CopyOut`, `ClearFront`, `ClearRear`), so that an interrupt can fall between the moment a slot is given up
and the moment the caller copies from it. `entry_size` is 1. `HalfRange` is the number of values of the `uint8_t half`,
scaled with the ring: 256 in the code. `qremove` is one action (it has no user that runs beside an interrupt). That
`Revoke` never takes an item a read in progress was promised is its clients' contract and appears as a guard.

**Flow** is `lib/flow`: `line[f]` is where flow f resumes and `age[f]` is `flow_tick - time`, cut off at a second because
the code only ever compares it with at most that. `SemAcquire` and `SemStore` are the load and the store of `--count`;
`mpc` says between which of the macros' instructions the main loop is.

**Bootload** is the callbacks of `bootload.c`: `flash` and `mic` are the blocks programmed and the blocks the running
CMAC has been fed; the digest of a run of blocks is the run itself, which `VerdictIsDigest` justifies (section 6). With `FlashFaults` a write may leave something else.

**Ymodem** is `ymodem.c`. A packet is a start byte and `SohBody` or `StxBody` units; the queue holds units, and one 1K
packet at most. Each flow's code from one suspension to the next is one action named after stage and branch
(`HandshakeBegin`, `TransBad`, `FinishNull`, ...), cut further where an interrupt makes a difference: in the semaphore
macros, and between the start byte and the length test for the rest of the packet. A run that arrives elsewhere in a step
has the effect it has before the step or after it, since the step then touches nothing the interrupt touches. A body unit
that is read as a start byte may be any of `BodyCodes`. CRC collisions are left out.

**Upgrade** composes the receiver with the timer interrupt (`Tick`), the receive interrupt (`Deliver`), the line (`Lose`,
`SpoilCrc`, `SpoilStart`, `Split`, `LoseReply`) and a stop-and-wait YMODEM sender. Sender and line are not in the
repository; they are modelled from what `ymodem.c` sends and expects and are marked external. The application's loop is
taken to call `bootload_inspection` and then `bootload_timeout`, as their docs intend, and jumps when told to (`Poll`).

**DataAnalysis** is `data_analysis.c` for one `data_id`, with the handlers of `simple_data_analysis.c`, its only user. One
action per state of the recogniser (`WaitSd`, `WaitLd`, `WaitEnd`), each a whole call of `data_char_handle`: at the end of a
frame the interrupt calls the handler, and the handler reads head and body out of the queue before it returns
(`EndState`, `Event`). The queue is a sequence, which is what `sqqueue` shows the ring to be. A state that hands a
character on to the next one (no start delimiter) is a disjunct of that one's guard. `state = "hung"` is the endless loop of
`lock_data`, `"wild"` the write past `ld.data`; nothing is said of what follows either. CRC errors change no state. Formats have
a length field, most significant byte first, as both registered ones have.

**Menu** is `menu.c`: the array of control blocks with `p_menu_ctrl` as an index into it, and the fields of a block. Each
operation is one action, the callbacks it runs included; where the application's callbacks bind their lists, all on
entering or all when loaded by `menu_task`, is chosen in `Init` (`bindIn`). `menu_enter_with_window_no` calls itself and runs
`menu_enter` and `menu_exit` on the way, so it is taken step by step: `look.at` has the loop variable of each of its calls
(`LookInto`, `LookPast`, `LookOut`, `LookFound`, `LookEnd`). `open` is a ghost: the items whose callback for entering has run
and that have neither been left by their callback nor lost their level without one: to `menu_reset`, which runs none (menu.c:238), or to
`menu_de_init`, which leaves one level and drops the others (menu.c:172-174). How many were dropped is in `dropped`. So `OpenIsPath` says of
every other operation that it leaves what it entered, and of these two that they drop what is above the main menu and no more. `lost = "hung"` is a loop or a recursion that does not end, `"wild"` a read beyond
the list; nothing is said of what follows. `select_item` and `show_base_item` are a `menusize_t`, so what is stored
is taken modulo `Byte`, while what is computed is an int. `menu_jump_item` is called for items of the list only.

**Cmac** is `cmac.c` as bookkeeping: the context is the list of blocks enciphered and the bytes of `M_last`; the digest is both
and which subkey was used. `ByPackets` and `ByPages` are the calls on_data and on_end make. `Upgrade` puts bytes behind the blocks of
`Bootload` (`Bytes`, `PayloadRun`) and states `VerdictIsDigest` of the composition. A message is only taken apart by the CMAC, so the cipher and the
subkeys stand for functions that keep different inputs apart; collisions of the real CMAC are not modelled.

**Button** is `btn.c`. `handle[b]` is the `struct Button` without `next`, which is a function of its own, with `Head` for
`head_handle`. One call of `button_handler` is one action (`TicksStep`); its disjuncts are the cases of the switch (`AtRest`,
`FirstPress`, `LetGo`, `PressedAgain`, `LongPress`), after `Counted` and `Debounced`. A callback starts or stops any one
button, or does neither, inside the action (`Callback`; `TwoCallbacks` where PRESS_DOWN and PRESS_REPEAT follow each other), and the walk goes on from the
`next` this leaves (`Advance`). A button taken off keeps its `next`, as in the code. Buttons outside `Tracked` may report
anything at any turn, which is only that their callbacks run. `told`, `clicks`, `pressed`, `ticked`, `stayed` and `rejoined` are
ghosts; `rejoined` says that in this pass a callback has put a button back on the list that lay ahead of the walk (`Ahead`: on the list
or taken off it with its `next` as it was). `repeat` and `ticks` wrap at their width.

**Malloc** is one bank of `malloc.c`: `memmap` is the table, `mem` what the blocks hold, `raw` what clients hold. `Table` and
`Pool` are the two as a call finds them once `my_mem_init` has run. `Found` is the loop from the last block down. `Realloc` has the
order of the code: take, copy as many bytes as were asked for (upwards, so that it may read what it has written, and past the old
range), free. What a client writes, and what a copy reads outside the pool, is one of `Written`. Clients free what they hold, once, and
write inside it.

**CList** is `clist.c`, in the same pool as the clients of `Malloc`: `first` is the list, a node is a block with `data` and
`Next`. `Link` is CreateNode and the pointer surgery of an insertion, `Unlink` that of a removal; `clist_remove_all`, which follows pointers
while it frees, is its loop (`Look`, `DropFirst`, `DropInner`). `lost` is a call that does not come back: a NULL followed, or a
DBG_ASSERT. Nothing is said of what follows.

**Heap** and **Listing** are the abstract specifications: ranges that keep apart and keep their contents; a sequence,
with what each call is to do to it, `RemoveAll` as clist.h has it. `ListSteps` holds each call of `CList` to its action in `Listing`; where
`clist_remove_all` skips a node (`Skips`) only `AllRemoved` speaks, which the code violates.

**LeastNumber** has the two lemmas of induction that the proofs use, and what they need of division; the modules named `...Proofs` have the theorems of section 6.

**Transfer** is the abstract upgrade: erase, open, program the next block, abandon, close with a verdict, boot.

## 4. Runs

| Run | Expect | Question |
|---|---|---|
| `sqqueue` | pass | Is the ring a bounded FIFO (`FifoSpec`), does a batch never read NULL (`NoNullRead`), is the slot in the reader's hands left alone (`HandedSlotUntouched`), does a run arrive whole (`StringEnterAppends`)? |
| `sqqueue_half` | violation | The same with `half` too narrow for the ring, as with the 1030 slots of the YMODEM queue. |
| `upgrade` | pass | Does the receiver implement `Transfer`, did each acknowledged block come in whole and go to its place in the bank (`AckedIsProgrammed`), is a positive verdict true of the file (`VerifiedImageIsFile`), and do the two digests it compares agree exactly when they should (`VerdictIsDigest`)? |
| `upgrade_boots` | pass | Is there no jump in mid-transfer (`NotCutOff`), does either verdict stand (`VerdictStands`), is the semaphore never counted below zero (`NoUnderflow`), and does the device come up (`BootEnds`)? |
| `ack_loss` | violation | One lost ACK. |
| `data_analysis` | pass | Are the items that would be revoked exactly the frame under way (`OwnIsFrame`), is nothing queued before it ever taken back (`BeforeKept`), and does the handler of a format without end delimiter read every frame whole, whatever the input (`UntailedInStep`)? |
| `data_hang` | violation | A queue full of one frame of more items than a `uint8_t` counts. |
| `menu` | pass | Do the level counted and the stack agree, so that no block in use is taken (`DepthAgrees`), do the callbacks for entering and leaving nest (`OpenIsPath`), is each list that of the item above (`ListFitsPath`), is the selection in the list and on the page shown (`SelectionInList`, `SelectionShown`), and does a failed search leave everything as it was (`SearchSound`)? |
| `menu_exit` | violation | `menu_main_exit` against its doc: everything left, level by level. |
| `button` | pass | Are states, levels and reports in step (`StateFits`, `EdgesReported`), does a row of presses get one name (`OneVerdict`) and the right count (`ClicksCounted`), does the list end (`ListEnds`), does a pass miss no button (`NoneMissed`), repeat none (`OneTurn`) and end (`PassEnds`), and does a button let go come to rest (`ComesToRest`)? |
| `memory` | pass | Is every block free or in one range or node (`Accounted`), is free memory zero (`FreeIsZero`), do the clients' ranges keep what is in them (`HeapSpec`), and does each call of the list do to its values what its user is told, and nothing to the clients' (`ListSteps`)? |
| `list_remove_all` | violation | `clist_remove_all` against its doc: every node with the value removed. |

**Bounds.** `sqqueue`: five slots, runs of up to three, two element values: every position of `front` against `rear`, every
length, every wrap; 16,640 states. `upgrade`: a file of two blocks, so that there is a first, a middle and a last
acknowledgement; a second is two ticks, so that the last tick of a second is not also the first; `TimeoutLimit` 1 in place
of 5, so that a timeout that is counted and one that gives up both occur; at most two faults, one restart, nine
sends and two codes under way; 627,886 states. `upgrade_boots`: all five faults, one of them at a time, a header that
announces too large a size and a sender that repeats its header on a second C as well; 331,025 states. `MaxSends`, `MaxFaults`, `MaxRestarts` and `MaxTx` are the bounds in the
guards; only the sender, the line and the timer have them, never the receiver. The `MaxTx` guard on `Tick` says that the
sender sees two codes before the third is due.

`data_analysis`: three character values, of which two are delimiters, so that every position of a format is met by a
right and a wrong character; lengths up to 4; a queue of 9 for frames of up to 8, so that a frame with a lost end delimiter fills
it; `ByteLimit` 6 in place of 256, between the two as 256 is between the 255 items of the longest frame with a tail and
the queue's 650; 13,777 states. The formats are the two of the example and two that use the options they leave out.

`menu`: a tree with one level more than the stack has (4 in place of 5), so that entering is refused; lists of one to three
items, so that with pages of 2 there is a full, a partial and a single page and a roll over either end; an item without
window number, one that is a single page, window numbers up to 6, some of them found only beyond the refused level;
`Byte` 6, above every list as 256 is; 1,998,294 states. The bounds in the guards are `MaxWindow` and `MaxDropped`,
how many items `menu_reset` and `menu_de_init` may drop in a run (3).

`button`: three buttons, since a callback must be able to move a second one past a third; one of them is followed, the others
only run callbacks. Two samples of bounce (3), a short and a long press of three ticks (10 and 50), `TicksLimit` 5 and `RepeatLimit` 3
in place of 2^16 and 16, both above what they are compared with; four presses in a row (`MaxClicks`), one more than `RepeatLimit`, so that `repeat`
wraps; 154,301 states. `MaxClicks` is the only bound in a guard.

`memory`: four blocks, two values; requests of no byte, part of a block, two blocks and more than half the pool, so that
a range grows, shrinks, moves over the one it had, and is refused; a list of up to four nodes with equal values first, in the middle
and last; a pool that is not zero at first; 4,826 states. There is no bound in a guard.

`VerdictIsDigest` has a CMAC block of two bytes, packets of two blocks, pages of one and of two packets, and every length of the last
packet: less than a page, a page, a page and a rest, two pages.

`upgrade` leaves out lost answers, fragmented runs, senders that repeat on C and blocks sent as 128-byte packets, because there the
code does break its promise, as `ack_loss` shows for the first; `upgrade_boots` has lost answers, fragmentation and the repeated header. With 128-byte
blocks it takes a tick between the wait that takes a release and `FL_SEM_IS_RELEASE`: the block is left in the queue, the one that is
sent again fits behind it, and both are programmed (bodies of 1 and 3 units, `Sec` 3).
A file has at least one block; what is exchanged for an empty one is not modelled.

**Fairness.** `BootEnds` needs the main loop (`Mcu`), the poll (`Poll`) and the timer (`Tick`) to go on, which they do on the
device, and a sender that looks at the codes it is sent (`See`). Nothing obliges the sender to send or the line to deliver.
`PassEnds` and `ComesToRest`
need `button_ticks` to be called again and again, as btn.h:26-36 has it, and a pass to go on; no button is obliged to be let go. The safety
properties use no fairness.

**Time.** A step of the main loop is short against a second. A tick therefore happens only while the main loop waits,
or, to have the race at the end of the second, as the last tick of a second while the main loop is in the semaphore
macros. `Sec >= 2` is assumed by name.

## 5. What the runs found

1. `sqqueue.c:173`: `uint8_t half` breaks every run that wraps with more than 255 slots left; the queue of the boot loader
   has 1030. An upgrade with a fragmented or misaligned 1K packet can be affected at any wrap.
2. `ymodem.c:415`: a block sent again because its ACK was lost is programmed twice, and the verdict is still TRUE.
3. `data_analysis.c:68`: the loop that revokes counts with a `uint8_t`; a frame whose end delimiter is lost fills the queue and
   keeps the receive interrupt for ever.
4. `menu.c:297`: `menu_main_exit` repeats while `menu_exit` fails, so that it leaves one level and stops; in the main menu,
   where `menu_exit` always fails, it does not return.
5. `clist.c:287`: `clist_remove_all`, which is to remove all nodes of a value (clist.h:43, clist.c:265), does not look at the node that becomes first when
   the first one goes, and leaves the value there.

Seen in the models, with no run of its own: a header the sender repeats because it takes the second C for a NAK is not ignored, as the comment at
`ymodem.c:337` says, but programmed as block 1, with a positive verdict (`upgrade` with `ResendOnC` TRUE and no faults: `VerifiedImageIsFile`). `FL_SEM_IS_RELEASE` reads the tick again after the wait has taken a release, so that a
tick in between reports it as not having been there (`flow_sem.h:38`; `flow.h:99` says otherwise). `locked` keeps no interrupt out, since no state asks for it (`data_analysis.c:363`); a frame with end delimiter may be longer than its length
says, the handler reads by the length, and what is left shifts all later frames (`data_analysis.c:204`). In the menu,
`menu_enter` leaves `show_base_item` as the block's last user had it, which the next `menu_task` mends (`SelectionShown`), and a
search that is refused a level does not end (`LookHang`; `menu.c:735`). The character that breaks a start delimiter is dropped even if
it begins one (`data_analysis.c:334`).

In the buttons: a repeated press held too long puts the automaton at rest with the button down (`btn.c:168`), so that PRESS_DOWN
is reported twice for it, or its release not at all, where btn.h:65-66 has every press and every release reported; the 17th press
in a row is a single click; a second press released exactly at SHORT_TICKS drops the click before it (`btn.c:158`);
`get_button_event` never returns PRESS_REPEAT; a callback that stops and restarts its own button sends the walk back to the front,
and a button that others keep moving to the front in their turns gets no turn.

In the list: `clist_remove_all` follows NULL when the list had
only one node, with the value; `cListErase` with the length of the list for a place links a word of the vector table behind the last
node; `CreateNode` does not ask whether it got a block. `myrealloc` to a larger size copies whatever lies behind the old range.

## 6. Theorems

All proofs are checked by TLAPS; they assume only the named assumptions on the constants.

**Induction.** The prover cannot instantiate a theorem that takes an operator as a parameter, such as the usual rules of induction. It can use
that a relation is well founded, so `LeastNumber` proves that a set of numbers that is not empty has a least element, and from this that a
*set* of numbers with 0 and with every successor has every number (`Induction`, `InductionUpTo`). Whatever is shown by induction below is stated as a
set of numbers. The walks of the code are recursive functions, whose unfolding is proved the same way; `Listing` says what is kept of a list
as such a function too (`Kept`).

*Ring queue* (`SqQueueProofs`). The invariant is `TypeOK /\ NoNullRead /\ ReaderClaim`. `NoNullRead` is not inductive by
itself: that the queue is not empty when the batch goes on follows from `ReaderClaim`, which says that what get_len
entitled the reader to stays in the queue until it is taken, and that the handed-out slot is the one just before `front`. Lemmas
about `LengthOf` and `Wrap` (how the length changes when an end moves by one) carry the arithmetic. From the invariant,
for every capacity: `TypeCorrect`, `NeverNull` and `HandedSlotSafe` (the slot before `front` is
the spare one whenever the ring is full, so the writer never gets there). `AppendSafe` says what `string_enter` does
for every ring and every width of `half`: what was queued stays, the queue is longer by the run, and the run is what was added if it stays
clear of the end of the ring or `half` can hold the number of slots before it (`HalfHolds`, a condition on the call). For the 1030
slots of the receiver `StringEnterAppends` itself does not hold, as `sqqueue_half` shows.
`RingRefinesFifo` is the refinement: `Contents` is the slots from `front` on, and each action is a step of `Fifo` or none: entering appends, `DelPublish` takes
the first item into the reader's hands, `CopyOut` lets go of it, the two stores of `clear_sqq` drop what was there. It holds for any range of `half`: a
run that `half` spoils still changes only the free slots and `rear`, and so still enters some items.

*Menu* (`MenuProofs`). The invariant is `TypeOK /\ DepthAgrees /\ OpenIsPath /\ LookLevels`. `OpenIsPath` needs `DepthAgrees`:
leaving takes away the last open item, which is the one selected in the parent only because the parent is the block
below. `LookLevels` ties the calls of a search to the levels they entered, so that leaving one of them never
starts from the main menu. `EnterStep`, `LeaveStep` and `TopStep` say what entering, leaving and a change of the current block
do to the stack; every operation and every step of the search is one of these. For every depth of the stack, every
tree of menus and every width of `menusize_t`: `MenuTypeCorrect`, `DepthCorrect`, `CallbacksNest`.
On top of it `Path` says of every level below the current one that its list is bound, that its selection is in it and that the list of the level
above is that item's, or will be once loaded (`PathEntered`); what is bound on the current level, or will be by the load callback that is pending (`TopBinding`); and that, where lists are bound on
entering, the current selection is in the list (`TopSelection`). The property about the current level alone is not inductive: after leaving, what is
current is what was below. This gives `ListsFollowPath`, `SelectionStaysInList` and `SelectionOnPage`.
`SearchFindsOrRestores` carries three things through a search: levels below the one it began on and callbacks run before it are untouched
(`SearchOpened`), each call's loop variable is the item selected on its level (`SearchPath`), and everything passed is absent
with all below it (`SearchPassed`, where a submenu left counts as passed). Without the second, leaving a submenu would not be known to return to the item the loop goes on from.

*Frame parser* (`DataAnalysisProofs`). The invariant joins the bounds (`Bounded`: the items counted are in the queue, the index into a
delimiter is inside it), what the last `last` items of the queue are in each state (`InHead`, `InLength`, `InBody`), and, for formats without
end delimiter, that they are all the queue holds (`Alone`). The second part stops at the first full queue (`lapsed`), because
`lock_data` leaves `ld_index` as it was; the first does not. `OwnIsFrame` is stated with `SubSeq` on the queue; the invariant says it item by item, which
is what an append or a revoke preserves. `Alone` is what makes the handler right: with nothing before the frame, the head it reads is the frame's. For
every format the assumption admits and every input: `ParserTypeCorrect`, `RevocableIsFrame`, `UntailedNeverSlips`, and the action property `EarlierItemsKept`.

*Upgrade* (`UpgradeProofs`). The invariant joins `NoUnderflow`, `HandshakeTimeKept` (the handshake time stands still
during a transfer), `VerdictIsFinal` (a verdict means stage FINISHED), `NotCutOff` and `VerdictStands`. `NotCutOff` needs
`HandshakeTimeKept` (a jump needs a time of zero), `VerdictStands` needs `VerdictIsFinal` (nothing is programmed in
FINISHED). For every file, fault set and bound: `NeverCutOff`, `VerdictHolds`, `SemaphoreSound`.
The types are a second invariant, `Typed`; with `Released`, that every release stands for a run that was sent or for a half of one, it
gives `UpgradeTypeCorrect` for the whole composition, whatever the line does.
The third, `Orderly`, is what sender and receiver know of each other, and it needs `PlainLine`: runs are lost and spoilt but answers are not,
no run comes in pieces, the sender does not take a C for a NAK and sends its blocks as 1K packets. Without any of the four TLC finds the
code breaking what is proved here. `OneTurn` says that at most one run is between sender and receiver (on the wire, released,
or taken by the main loop: `Pending`), and none when an answer is under way; `OneReply` the same of answers; `Book` that what has come in is the
file up to where it has come, and all of it once the end is being settled; `Agree` how far the receiver is for each thing the sender
may be at. A run that a timeout has left in the queue is the hard part: the receiver has let go of the release, so that `Pending` does
not count it, but the units are still there. Of these `BlocksOnly` says that they are of the block that is due, with its start byte in front; since
a 1K packet fills the queue, the one sent again does not fit behind them and is dropped, and its release reads the old one.
Hence on a plain line, for every file, every length of the second and every number of faults, repetitions and restarts: `AcknowledgedIsProgrammed`,
`VerifiedIsFile`, and `UpgradeIsTransfer`, that the receiver implements `Transfer`. `Program` needs that the block read is the
next one, `Open` that the bank is empty half a second after the header was taken, `Close` that all of the file has come in.
`AcknowledgedIsProgrammed` needs beside `Orderly`, which says what the digest was fed, that the flash has block for block what a write of it may leave
(`Burnt`); that holds on every line.
TLC has found `Orderly` to hold on the instance of `upgrade` and on one with longer seconds, longer packets and three faults.

`VerdictIsDigest` is where the abstraction of `Bootload` is discharged. `Fed(m, n)` says in closed form what the context of the CMAC is after n bytes of
a message m: the blocks that something follows, and the rest. `UpdateOn` shows that a call of `AES_CMAC_Update` with the bytes from a to b takes
`Fed(m, a)` to `Fed(m, b)`, whichever of its three ways it goes, and `FinalIs` that what `AES_CMAC_Final` makes of all of it is the digest of RFC 4493.
`DigestInPieces` follows for every message and every cut of it into pieces, by the closed form and `InductionUpTo`; packets (`PacketsAre`) and pages with a
rest (`PagesAre`) are two such cuts. `ReferenceTells` and `BytesTell` go back from the digest to the bytes and from these to the blocks, so that with
`VerdictStands` the digests agree exactly when the verdict is "ok": `VerdictOnBytes`, for every length of block, packet, page and last packet.

*Buttons* (`ButtonProofs`). The invariant is `TypeOK` and, for each button, what its automaton knows of what was
reported: `Level` (state and level), `Named` (which events may have been reported in each state, so that no second name can
follow) and `Counts` (`repeat` is the number of presses modulo its width, while presses are being counted). `OneVerdict` and `ClicksCounted` speak of
the moment a name is given; only `Named` and `Counts` carry what the automaton must remember until then. `Turn` says that a
turn of a button changes nothing of another, whatever its callbacks do to the list; one lemma per state of `button_handler`
shows that the turn keeps `Knows`. `WrapsCounting` carries the wrap of `repeat`. For every set of buttons, every time and
every width of the counters: `ButtonTypeCorrect`, `LevelsFit`, `OneVerdictGiven`, `ClicksRight` and the action property
`EdgesTold`.
The list has an invariant of its own, `ListsFine`: the list is a way (`Way`: distinct buttons linked from `Head` to NULL), every button that has been on it all
along and has had no turn is ahead of the walk, and, unless one has rejoined, none that is ahead has had its turn. `button_start` and `button_stop` are shown to
keep a way a way, and to change what is ahead only as stated. For every number of buttons: `ListAlwaysEnds`, `NoButtonMissed`, `NoSecondTurn`.
The proof corrected the model: with four buttons, one that a callback has taken off still leads to where it led, a second one taken off and put
back at the front while the walk stands on the first sends the walk to the front, and buttons get a second turn. `rejoined` did not count that
case, which three buttons do not have; it now counts every button put back that lay ahead of the walk, on the list or not.

*Allocator* (`MallocProofs`). `MInv` says that the ranges held lie in the pool and are disjoint, that the table has in every block of a
range the length of that range, and that free memory is zero. `TakeAgrees` and `GiveAgrees` show that taking and giving back a range keep
this; `myrealloc` is one after the other, and its copy is right because a new range below or above the old one never
overlaps it (`CopiesRange`). For every pool, block size and sizes asked for: `FreeStaysZero`, and `MallocIsHeap`, that the allocator with any
such clients implements `Heap`. They are theorems of `MallocSpec`, in which the clients are not known.

*List* (`CListProofs`), next to such clients. `LInv` adds to `MInv` that from `first` on a row of n distinct blocks is linked up to NULL (`Linked`), that each is
marked 1 in the table and in no client's range, and that every other marked block is a client's (`Shared`). The row is unique, and what the calls walk
along (`Node`, a recursive function) is this row (`NodesHere`), which has no more nodes than the pool has blocks. `NodeMore` and `NodeLess` put a node
into the row and take one out; the insertions are the first, popping, erasing and removing the second, `Destroy` takes all.
`clist_remove_all` follows pointers while it frees: `Between` says that the row is sound after each turn of its loop, and where in it `p` and `prev` stand
(`prev` is one behind `p`, except after a removal of the first node, where the node that became first is not looked at); `Reached` says which values have been passed and
which of them kept. Each turn gets further or is at the end (`TurnGoesOn`), so after as many turns as there are blocks it is through. Hence
for every pool, all values and every sequence of calls: `BlocksAccounted` (no leak, no sharing), `ListLeavesZero`, `ListSparesClients` (`Heap` still holds for the
other clients, and no call of the list is what changes a range of theirs), and `ListIsListing`, that every call does what `Listing` has it do. For
`clist_remove_all` what the code keeps (`Stays`) is what `Listing` keeps unless it skips a node; the calls that do not come back are part of it.

Model-checked only: `BootEnds`, `PassEnds` and `ComesToRest`, because liveness and ENABLED are beyond the prover. No module declares a RECURSIVE operator.

## 7. Not modelled

Vendored and generated code; the PID controllers and `filter.c` (floats); the rounds of AES
(arithmetic without branches); the delay,
debug and register helpers; bytes inside a packet (file name, size text, the position of the CRC), flash
addresses, the software timers of `flow_core.c`, which nothing uses, the frame parser's options named above, `menu_unbind` (nothing calls it), the languages of the menu and
`menu_shortcut_enter`, which the build leaves out. `pbuf.c`: it does not
compile for the board, whose critical section takes a member of a char, and is not in the build; with it `mlist.c`. Bytes inside a block of the
allocator, `my_mem_perused`, callbacks that initialise a button.
