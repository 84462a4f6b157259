------------------------------- MODULE Button -------------------------------
(***************************************************************************)
(* The buttons of User/system/src/btn.c: for each a debouncer and an       *)
(* automaton that makes clicks and long presses of the levels it samples,  *)
(* and the linked list of the buttons at work, which button_ticks walks.   *)
(* The application's callbacks run inside that walk and may put any button *)
(* on the list or take it off.  One call of button_handler is one step.    *)
(***************************************************************************)
EXTENDS Integers, FiniteSets

CONSTANTS Buttons,
          Tracked,      \* those whose automaton is followed: any other may
                        \* report anything, that is run callbacks, at any turn
          NULL, Head,   \* no button; where head_handle is kept
          DEBOUNCE_TICKS, SHORT_TICKS, LONG_TICKS,
          RepeatLimit,  \* values of the 4-bit repeat: 16
          TicksLimit,   \* values of the uint16_t ticks
          MaxClicks     \* bound: presses in a row

ASSUME ButtonAssumption ==
    /\ IsFiniteSet(Buttons) /\ NULL \notin Buttons /\ Head \notin Buttons /\ Head # NULL
    /\ Tracked \subseteq Buttons
    /\ DEBOUNCE_TICKS \in Nat \ {0} /\ SHORT_TICKS \in Nat
    /\ LONG_TICKS \in Nat /\ TicksLimit \in Nat
    /\ SHORT_TICKS < TicksLimit - 1 /\ LONG_TICKS < TicksLimit - 1
    /\ RepeatLimit \in Nat \ {0, 1, 2} /\ MaxClicks \in Nat

VARIABLES handle,   \* struct Button, but for its next
          next,     \* the next of each button, and of Head
          target,   \* the button whose turn it is in button_ticks
          told,     \* ghost: events reported since a button was last at rest
          clicks,   \* ghost: presses since then
          pressed,  \* ghost: reported pressed, and not reported released since
          ticked,   \* ghost: turns each button has had in this pass, 2 for more
          stayed,   \* ghost: on the list ever since the pass began
          rejoined  \* ghost: one has come back on the list that the walk was on, or
                    \* had still to meet

vars == <<handle, next, target, told, clicks, pressed, ticked, stayed, rejoined>>

Events == {"PRESS_DOWN", "PRESS_UP", "PRESS_REPEAT", "SINGLE_CLICK", "DOUBLE_CLICK",
           "LONG_PRESS_START", "LONG_PRESS_HOLD", "NONE_PRESS"}

\* level: the debounced level is the active one.
HandleType == [level : BOOLEAN, debounce_cnt : 0 .. DEBOUNCE_TICKS - 1,
               state : {0, 1, 2, 3, 5}, ticks : 0 .. TicksLimit - 1,
               repeat : 0 .. RepeatLimit - 1, event : Events]

\* button_init, with the pin at `read`.
Fresh(read) == [level |-> read, debounce_cnt |-> 0, state |-> 0, ticks |-> 0,
                repeat |-> 0, event |-> "NONE_PRESS"]

Init == /\ handle \in [Buttons -> {Fresh(FALSE)}]
        /\ next = [b \in Buttons \cup {Head} |-> NULL] /\ target = NULL
        /\ told = [b \in Buttons |-> {}] /\ clicks = [b \in Buttons |-> 0]
        /\ pressed = [b \in Buttons |-> FALSE]
        /\ ticked = [b \in Buttons |-> 1] /\ stayed = Buttons /\ rejoined = FALSE

----------------------------------------------------------------------------
(* The list of the buttons at work.                                        *)

\* What is met on the way along the list l, step by step.
Walk(l) == LET at[i \in 0 .. Cardinality(Buttons)] ==
                   LET b == IF i = 0 THEN Head ELSE at[i - 1]
                   IN  IF b = NULL THEN NULL ELSE l[b]
           IN  at
Listed(l) == LET at == Walk(l) IN Buttons \cap {at[i] : i \in DOMAIN at}

\* slip: not looked for on the list first
StartedBlind(l, on, b) == [l EXCEPT ![b] = l[Head], ![Head] = b]

\* slip: what is taken off loses its successor
StoppedAlone(l, on, b) ==
    IF b \notin on THEN l
    ELSE [l EXCEPT ![CHOOSE p \in on \cup {Head} : l[p] = b] = l[b], ![b] = NULL]

\* button_start and button_stop, the buttons `on` being on the list l.  A button
\* taken off keeps its next.
Started(l, on, b) == IF b \in on THEN l ELSE [l EXCEPT ![b] = l[Head], ![Head] = b]
Stopped(l, on, b) ==
    IF b \notin on THEN l
    ELSE [l EXCEPT ![CHOOSE p \in on \cup {Head} : l[p] = b] = l[b]]

\* The list after a callback of the application.
After(l) == LET on == Listed(l)
            IN  {l} \cup {Started(l, on, b) : b \in Buttons}
                    \cup {Stopped(l, on, b) : b \in Buttons}

\* The ghosts of the last pass are of no more use, and say nothing.
Forgotten == ticked' = [b \in Buttons |-> 1] /\ stayed' = Buttons /\ rejoined' = FALSE

\* button_start, button_stop and button_init outside button_ticks.
Start(b) == /\ target = NULL
            /\ next' = Started(next, Listed(next), b) /\ Forgotten
            /\ UNCHANGED <<handle, target, told, clicks, pressed>>

Stop(b) == /\ target = NULL
           /\ next' = Stopped(next, Listed(next), b) /\ Forgotten
           /\ UNCHANGED <<handle, target, told, clicks, pressed>>

\* A button on the list is not initialised again: its next would be lost.
ButtonInit(b, read) ==
    /\ target = NULL /\ b \notin Listed(next)
    /\ handle' = [handle EXCEPT ![b] = Fresh(read /\ b \in Tracked)]
    /\ next' = [next EXCEPT ![b] = NULL]
    /\ told' = [told EXCEPT ![b] = {}] /\ clicks' = [clicks EXCEPT ![b] = 0]
    /\ Forgotten
    /\ UNCHANGED <<target, pressed>>

----------------------------------------------------------------------------
(* button_handler.                                                         *)

Debounced(h, read) ==
    IF read = h.level THEN [h EXCEPT !.debounce_cnt = 0]
    ELSE IF h.debounce_cnt + 1 >= DEBOUNCE_TICKS
         THEN [h EXCEPT !.level = read, !.debounce_cnt = 0]
         ELSE [h EXCEPT !.debounce_cnt = @ + 1]

CountedWide(h) == IF h.state > 0 THEN [h EXCEPT !.ticks = @ + 1] ELSE h    \* slip
Counted(h)     == IF h.state > 0 THEN [h EXCEPT !.ticks = (@ + 1) % TicksLimit] ELSE h

\* Button b becomes h, and nothing is reported.
Quiet(b, h) == /\ handle' = [handle EXCEPT ![b] = h]
               /\ UNCHANGED <<next, told, clicks, pressed, stayed, rejoined>>

\* What the walk would meet from b on: the smallest set with b and all successors.
Ahead(b, l) == {x \in Buttons : \A met \in SUBSET Buttons :
                   b \in met /\ (\A y \in met : l[y] \in met \cup {NULL}) => x \in met}

\* A button comes back on the list that lay ahead of the walk.
Rejoins(b, from, to) ==
    \E x \in Listed(to) \ Listed(from) : x \in Ahead(b, from)

\* One callback of b runs, or one after the other.
Callback(b) ==
    /\ next' \in After(next)
    /\ stayed' = stayed \cap Listed(next')
    /\ rejoined' = (rejoined \/ Rejoins(b, next, next'))

TwoCallbacks(b) ==
    \E l \in After(next) :
        /\ next' \in After(l)
        /\ stayed' = stayed \cap Listed(l) \cap Listed(next')
        /\ rejoined' = (rejoined \/ Rejoins(b, next, l) \/ Rejoins(b, l, next'))

\* b becomes h, and the callback of its event runs.
Report(b, h) ==
    /\ handle' = [handle EXCEPT ![b] = h]
    /\ Callback(b)
    /\ told' = [told EXCEPT ![b] = (IF handle[b].state = 0 THEN {} ELSE @) \cup {h.event}]
    /\ clicks' = [clicks EXCEPT ![b] = IF handle[b].state = 0 THEN 1 ELSE @]
    /\ pressed' = [pressed EXCEPT ![b] = IF h.event = "PRESS_DOWN" THEN TRUE
                                         ELSE IF h.event = "PRESS_UP" THEN FALSE ELSE @]

\* b is pressed again: the callbacks of PRESS_DOWN and PRESS_REPEAT both run, with
\* the event at PRESS_DOWN.
ReportRepeat(b, h) ==
    /\ handle' = [handle EXCEPT ![b] = h]
    /\ TwoCallbacks(b)
    /\ told' = [told EXCEPT ![b] = @ \cup {"PRESS_DOWN", "PRESS_REPEAT"}]
    /\ clicks' = [clicks EXCEPT ![b] = @ + 1]
    /\ pressed' = [pressed EXCEPT ![b] = TRUE]

AtRest(b, h) ==
    /\ h.state = 0
    /\ \/ /\ h.level
          /\ Report(b, [h EXCEPT !.event = "PRESS_DOWN", !.ticks = 0, !.repeat = 1, !.state = 1])
       \/ /\ ~h.level
          /\ handle' = [handle EXCEPT ![b] = [h EXCEPT !.event = "NONE_PRESS"]]
          /\ told' = [told EXCEPT ![b] = {}] /\ clicks' = [clicks EXCEPT ![b] = 0]
          /\ UNCHANGED <<next, pressed, stayed, rejoined>>

FirstPress(b, h) ==
    /\ h.state = 1
    /\ \/ /\ ~h.level
          /\ Report(b, [h EXCEPT !.event = "PRESS_UP", !.ticks = 0, !.state = 2])
       \/ /\ h.level /\ h.ticks > LONG_TICKS
          /\ Report(b, [h EXCEPT !.event = "LONG_PRESS_START", !.state = 5])
       \/ /\ h.level /\ h.ticks <= LONG_TICKS
          /\ Quiet(b, h)

RepeatedOnce(h) == [h EXCEPT !.event = "PRESS_DOWN", !.ticks = 0, !.state = 3]  \* slip
Repeated(h)     == [h EXCEPT !.event = "PRESS_DOWN", !.ticks = 0, !.state = 3,
                             !.repeat = (@ + 1) % RepeatLimit]

\* A row of clicks for which there is no event.
UnnamedStays(h) == h                                                       \* slip
Unnamed(h)      == [h EXCEPT !.state = 0]

LetGo(b, h) ==
    /\ h.state = 2
    /\ \/ /\ h.level
          /\ ReportRepeat(b, Repeated(h))
       \/ /\ ~h.level /\ h.ticks > SHORT_TICKS /\ h.repeat = 1
          /\ Report(b, [h EXCEPT !.event = "SINGLE_CLICK", !.state = 0])
       \/ /\ ~h.level /\ h.ticks > SHORT_TICKS /\ h.repeat = 2
          /\ Report(b, [h EXCEPT !.event = "DOUBLE_CLICK", !.state = 0])
       \/ /\ ~h.level /\ h.ticks > SHORT_TICKS /\ h.repeat \notin {1, 2}
          /\ Quiet(b, Unnamed(h))
       \/ /\ ~h.level /\ h.ticks <= SHORT_TICKS
          /\ Quiet(b, h)

\* A repeated press that lasts drops what was clicked before, and the automaton is
\* at rest with the button down.
GivenUpForClick(h) == [h EXCEPT !.state = 2]                               \* slip
GivenUp(h)         == [h EXCEPT !.state = 0]

PressedAgain(b, h) ==
    /\ h.state = 3
    /\ \/ /\ ~h.level /\ h.ticks < SHORT_TICKS
          /\ Report(b, [h EXCEPT !.event = "PRESS_UP", !.ticks = 0, !.state = 2])
       \/ /\ ~h.level /\ h.ticks >= SHORT_TICKS
          /\ Report(b, [h EXCEPT !.event = "PRESS_UP", !.state = 0])
       \/ /\ h.level /\ h.ticks > SHORT_TICKS
          /\ Quiet(b, GivenUp(h))
       \/ /\ h.level /\ h.ticks <= SHORT_TICKS
          /\ Quiet(b, h)

\* slips: it may be a click still, nobody is told
EndedAsClick(h) == [h EXCEPT !.event = "PRESS_UP", !.ticks = 0, !.state = 2]
EndedUntold(h)  == [h EXCEPT !.state = 0]
Ended(h)        == [h EXCEPT !.event = "PRESS_UP", !.state = 0]

LongPress(b, h) ==
    /\ h.state = 5
    /\ \/ /\ h.level
          /\ Report(b, [h EXCEPT !.event = "LONG_PRESS_HOLD"])
       \/ /\ ~h.level
          /\ Report(b, Ended(h))

\* Presses in a row are bounded.
Reads(b) == IF handle[b].level \/ handle[b].state = 0 \/ clicks[b] < MaxClicks
            THEN BOOLEAN ELSE {FALSE}

Handler(b) ==
    /\ b \in Tracked
    /\ \E read \in Reads(b) :
           LET h == Debounced(Counted(handle[b]), read)
           IN  AtRest(b, h) \/ FirstPress(b, h) \/ LetGo(b, h) \/ PressedAgain(b, h)
                   \/ LongPress(b, h)

\* The same, of which only the callbacks are kept.
Untracked(b) ==
    /\ b \notin Tracked
    /\ TwoCallbacks(b)
    /\ UNCHANGED <<handle, told, clicks, pressed>>

----------------------------------------------------------------------------
(* button_ticks: the timer's call, from the first button to the last.      *)

TicksBegin ==
    /\ target = NULL /\ next[Head] # NULL
    /\ target' = next[Head]
    /\ ticked' = [b \in Buttons |-> 0] /\ stayed' = Listed(next) /\ rejoined' = FALSE
    /\ UNCHANGED <<handle, next, told, clicks, pressed>>

\* slip: the successor is read before the callbacks can change it
AdvanceEarly(b) == target' = next[b]
Advance(b)      == target' = next'[b]

TicksStep ==
    \E b \in Buttons :
        /\ target = b
        /\ Handler(b) \/ Untracked(b)
        /\ Advance(b)
        /\ ticked' = [ticked EXCEPT ![b] = IF @ = 2 THEN 2 ELSE @ + 1]

Next == \/ TicksBegin \/ TicksStep
        \/ \E b \in Buttons : Start(b) \/ Stop(b) \/ \E read \in BOOLEAN : ButtonInit(b, read)

\* The main loop calls button_ticks again and again, and a pass goes on.
Spec == Init /\ [][Next]_vars /\ WF_vars(TicksBegin) /\ WF_vars(TicksStep)
----------------------------------------------------------------------------
TypeOK == /\ handle \in [Buttons -> HandleType]
          /\ next \in [Buttons \cup {Head} -> Buttons \cup {NULL}]
          /\ target \in Buttons \cup {NULL}
          /\ told \in [Buttons -> SUBSET Events] /\ clicks \in [Buttons -> Nat]
          /\ pressed \in [Buttons -> BOOLEAN]
          /\ ticked \in [Buttons -> 0..2] /\ stayed \in SUBSET Buttons
          /\ rejoined \in BOOLEAN

\* The application hears of no release, long press or click out of turn: between
\* samples the automaton is in a pressed state only with the button down and
\* reported down, and waits for a further click only with it up and reported up
\* (the states of button_handler).
StateFits ==
    \A b \in Buttons : /\ handle[b].state \in {1, 3, 5} => handle[b].level /\ pressed[b]
                       /\ handle[b].state = 2 => ~handle[b].level /\ ~pressed[b]

\* What is done with a button between two times at rest gets one name: a long
\* press is not also a click, a single click not also a double one, and what is
\* held on has been a long press first (button_handler).
OneVerdict ==
    \A b \in Buttons :
        /\ Cardinality(told[b] \cap {"SINGLE_CLICK", "DOUBLE_CLICK", "LONG_PRESS_START"}) <= 1
        /\ "LONG_PRESS_HOLD" \in told[b] => "LONG_PRESS_START" \in told[b]
        /\ "LONG_PRESS_START" \in told[b] => "PRESS_REPEAT" \notin told[b]

\* A click is reported as single or double for as many presses, up to the width of
\* repeat: a 17th press in a row starts over at one.
ClicksCounted ==
    \A b \in Buttons :
        /\ handle[b].event = "SINGLE_CLICK" => clicks[b] % RepeatLimit = 1
        /\ handle[b].event = "DOUBLE_CLICK" => clicks[b] % RepeatLimit = 2

\* A debounced press is reported by the very call that sees it, and so is a
\* release, except of a button that was held when initialised or whose repeated
\* press has just been given up for too long (button_handler).
EdgesReported ==
    [][\A b \in Buttons : target = b =>
           /\ ~handle[b].level /\ handle'[b].level => handle'[b].event = "PRESS_DOWN"
           /\ handle[b].level /\ ~handle'[b].level /\ handle[b].state # 0
                  => handle'[b].event = "PRESS_UP"]_vars

\* The list ends: whatever callbacks put on it and take off it during a walk, no
\* button comes to stand behind itself (button_start, button_stop).
ListEnds == Walk(next)[Cardinality(Buttons)] = NULL

\* A pass of button_ticks leaves out no button that is on the list all along,
\* however the callbacks rearrange the others under it.
NoneMissed == target = NULL => \A b \in stayed : ticked[b] > 0

\* And it gives none a second turn, unless callbacks took a button off the list
\* and put it back in front within its own turn, or while the walk had still to meet
\* it: the next of a button taken off still leads there.
OneTurn == ~rejoined => \A b \in Buttons : ticked[b] <= 1

\* Every pass comes to its end, unless callbacks put a button back like that.
PassEnds == target # NULL ~> target = NULL \/ rejoined

\* A button let go for good, on a list which it stays on, comes to rest: a click
\* that was begun is decided.  (One that the callbacks of others keep taking off and
\* putting back in front, where the walk has passed, gets no turn at all.)
LeftAlone(b) == b \in stayed \cap Listed(next) /\ ~handle[b].level /\ ~rejoined
ComesToRest == \A b \in Tracked : <>[]LeftAlone(b) => []<>(handle[b].state = 0)
=============================================================================
