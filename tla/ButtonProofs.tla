---------------------------- MODULE ButtonProofs ----------------------------
(* What holds of the buttons for every set of buttons, every debouncing and   *)
(* press time, and every width of the counters: state, level and what was     *)
(* reported of a button agree, whatever the callbacks do to the list; and the *)
(* list they do it to stays one, which every walk goes along as it should.    *)
EXTENDS Button, FiniteSetTheorems, LeastNumber, TLAPS

Names == {"SINGLE_CLICK", "DOUBLE_CLICK", "LONG_PRESS_START"}

\* What the automaton h of a button knows of the events t reported since it was
\* last at rest, of the number c of presses since then, and of whether it was
\* reported pressed.
Level(h, p) == /\ h.state \in {1, 3, 5} => h.level /\ p
               /\ h.state = 2 => ~h.level /\ ~p

OneName(t) == /\ \A x, y \in t \cap Names : x = y
              /\ "LONG_PRESS_HOLD" \in t => "LONG_PRESS_START" \in t
              /\ "LONG_PRESS_START" \in t => "PRESS_REPEAT" \notin t

Named(h, t) == /\ OneName(t)
               /\ h.state = 1 => t \subseteq {"PRESS_DOWN"}
               /\ h.state \in {2, 3} => t \subseteq {"PRESS_DOWN", "PRESS_UP", "PRESS_REPEAT"}
               /\ h.state = 5 => /\ t \subseteq {"PRESS_DOWN", "LONG_PRESS_START", "LONG_PRESS_HOLD"}
                                 /\ "LONG_PRESS_START" \in t

Counts(h, c) == /\ h.state \in {1, 2, 3} => h.repeat = c % RepeatLimit
                /\ h.state # 0 => h.event \notin {"SINGLE_CLICK", "DOUBLE_CLICK"}
                /\ h.event = "SINGLE_CLICK" => c % RepeatLimit = 1
                /\ h.event = "DOUBLE_CLICK" => c % RepeatLimit = 2

Knows(h, t, c, p) == Level(h, p) /\ Named(h, t) /\ Counts(h, c)

IInv == TypeOK /\ \A b \in Buttons : Knows(handle[b], told[b], clicks[b], pressed[b])

-----------------------------------------------------------------------------
LEMMA Quotient ==
    ASSUME NEW n \in Nat, n >= 1, NEW c \in Nat
    PROVE  c % n \in 0 .. n - 1 /\ c \div n \in Int /\ c = n * (c \div n) + (c % n)
OBVIOUS

LEMMA Remainder ==
    ASSUME NEW n \in Nat, n >= 1, NEW q \in Int, NEW r \in 0 .. n - 1
    PROVE  (n * q + r) % n = r
OBVIOUS

\* A counter that wraps counts modulo its width.
LEMMA WrapsCounting ==
    ASSUME NEW n \in Nat, n >= 1, NEW c \in Nat
    PROVE  ((c % n) + 1) % n = (c + 1) % n
<1> DEFINE q == c \div n
<1>1. q \in Int /\ c = n * q + (c % n)
  BY Quotient
<1>2. c % n \in 0 .. n - 1
  BY Quotient
<1> DEFINE r == c % n
<1>3. CASE r + 1 < n
  <2>1. r + 1 \in 0 .. n - 1 /\ c + 1 = n * q + (r + 1)
    BY <1>1, <1>2, <1>3
  <2>2. (c + 1) % n = r + 1
    BY <2>1, Remainder
  <2>3. (r + 1) % n = r + 1
    BY <2>1
  <2> QED BY <2>2, <2>3
<1>4. CASE r + 1 = n
  <2>1. c + 1 = n * (q + 1) + 0 /\ q + 1 \in Int /\ 0 \in 0 .. n - 1
    BY <1>1, <1>2, <1>4
  <2>2. (c + 1) % n = 0
    BY <2>1, Remainder
  <2> QED BY <2>2, <1>4
<1> QED BY <1>2, <1>3, <1>4

LEMMA SmallRemainders == RepeatLimit \in Nat /\ 1 % RepeatLimit = 1 /\ RepeatLimit >= 3
<1>1. RepeatLimit \in Nat /\ RepeatLimit >= 3
  BY ButtonAssumption
<1> QED BY <1>1

-----------------------------------------------------------------------------
NextType == [Buttons \cup {Head} -> Buttons \cup {NULL}]

LEMMA ListedType == ASSUME NEW l PROVE Listed(l) \subseteq Buttons
BY DEF Listed

LEMMA StartedType ==
    ASSUME NEW l \in NextType, NEW on, NEW b \in Buttons
    PROVE  Started(l, on, b) \in NextType /\ Stopped(l, on, b) \in NextType
BY DEF Started, Stopped, NextType

\* Callbacks leave the list a list of buttons.
LEMMA AfterType == ASSUME NEW l \in NextType PROVE After(l) \subseteq NextType
BY StartedType DEF After

LEMMA CallbackType ==
    ASSUME next \in NextType, stayed \in SUBSET Buttons, NEW b \in Buttons,
           Callback(b) \/ TwoCallbacks(b)
    PROVE  next' \in NextType /\ stayed' \in SUBSET Buttons /\ rejoined' \in BOOLEAN
<1>1. CASE Callback(b)
  <2>1. next' \in NextType
    BY <1>1, AfterType DEF Callback
  <2> QED BY <1>1, <2>1, Zenon DEF Callback
<1>2. CASE TwoCallbacks(b)
  <2>1. PICK l \in After(next) : /\ next' \in After(l)
                                 /\ stayed' = stayed \cap Listed(l) \cap Listed(next')
                                 /\ rejoined' = (rejoined \/ Rejoins(b, next, l)
                                                          \/ Rejoins(b, l, next'))
    BY <1>2 DEF TwoCallbacks
  <2>2. l \in NextType
    BY AfterType
  <2>3. next' \in NextType
    BY <2>1, <2>2, AfterType
  <2> QED BY <2>1, <2>3, Zenon
<1> QED BY <1>1, <1>2

-----------------------------------------------------------------------------
\* A turn of b is of b alone.
Turn(b) == /\ handle' \in [Buttons -> HandleType]
           /\ told' \in [Buttons -> SUBSET Events]
           /\ clicks' \in [Buttons -> Nat]
           /\ pressed' \in [Buttons -> BOOLEAN]
           /\ \A x \in Buttons \ {b} : /\ handle'[x] = handle[x] /\ told'[x] = told[x]
                                       /\ clicks'[x] = clicks[x] /\ pressed'[x] = pressed[x]
           /\ next' \in NextType /\ stayed' \in SUBSET Buttons /\ rejoined' \in BOOLEAN

\* And it leaves what is known of b true.
TurnFine(b) == Turn(b) /\ Knows(handle'[b], told'[b], clicks'[b], pressed'[b])

\* The samples leave the automaton where it was.
LEMMA Sampled ==
    ASSUME NEW g \in HandleType, NEW read \in BOOLEAN
    PROVE  LET h == Debounced(Counted(g), read) IN
           /\ h \in HandleType
           /\ h.state = g.state /\ h.repeat = g.repeat /\ h.event = g.event
<1>0. /\ DEBOUNCE_TICKS \in Nat \ {0} /\ TicksLimit \in Nat /\ TicksLimit >= 2
  BY ButtonAssumption
<1> DEFINE m == Counted(g)
<1>1. \A x \in 0 .. TicksLimit - 1 : (x + 1) % TicksLimit \in 0 .. TicksLimit - 1
  BY <1>0
<1>2. /\ m \in HandleType
      /\ m.state = g.state /\ m.repeat = g.repeat /\ m.event = g.event
  <2>1. g.ticks \in 0 .. TicksLimit - 1
    BY DEF HandleType
  <2>2. (g.ticks + 1) % TicksLimit \in 0 .. TicksLimit - 1
    BY <1>1, <2>1
  <2> QED BY <2>2 DEF Counted, HandleType
<1> HIDE DEF m
<1>3. /\ Debounced(m, read) \in HandleType
      /\ Debounced(m, read).state = m.state
      /\ Debounced(m, read).repeat = m.repeat
      /\ Debounced(m, read).event = m.event
  <2>1. m.debounce_cnt \in 0 .. DEBOUNCE_TICKS - 1
    BY <1>2 DEF HandleType
  <2>2. CASE read = m.level
    BY <1>0, <1>2, <2>2 DEF Debounced, HandleType
  <2>3. CASE read # m.level /\ m.debounce_cnt + 1 >= DEBOUNCE_TICKS
    <3>1. 0 \in 0 .. DEBOUNCE_TICKS - 1
      BY <1>0
    <3>2. Debounced(m, read) = [m EXCEPT !.level = read, !.debounce_cnt = 0]
      BY <2>3 DEF Debounced
    <3> QED BY <1>2, <3>1, <3>2 DEF HandleType
  <2>4. CASE read # m.level /\ m.debounce_cnt + 1 < DEBOUNCE_TICKS
    <3>1. m.debounce_cnt + 1 \in 0 .. DEBOUNCE_TICKS - 1
      BY <1>0, <2>1, <2>4
    <3>2. Debounced(m, read) = [m EXCEPT !.debounce_cnt = @ + 1]
      BY <1>0, <2>1, <2>4 DEF Debounced
    <3> QED BY <1>2, <3>1, <3>2 DEF HandleType
  <2>5. m.debounce_cnt + 1 >= DEBOUNCE_TICKS \/ m.debounce_cnt + 1 < DEBOUNCE_TICKS
    BY <1>0, <2>1
  <2> QED BY <2>2, <2>3, <2>4, <2>5, Zenon
<1> QED BY <1>2, <1>3 DEF m

\* A report is a turn.
LEMMA ReportTurn ==
    ASSUME TypeOK, NEW b \in Buttons, NEW h \in HandleType, Report(b, h)
    PROVE  /\ Turn(b) /\ handle'[b] = h
           /\ told'[b] = (IF handle[b].state = 0 THEN {} ELSE told[b]) \cup {h.event}
           /\ clicks'[b] = IF handle[b].state = 0 THEN 1 ELSE clicks[b]
           /\ h.event = "PRESS_DOWN" => pressed'[b] = TRUE
           /\ h.event = "PRESS_UP" => pressed'[b] = FALSE
           /\ h.event \notin {"PRESS_DOWN", "PRESS_UP"} => pressed'[b] = pressed[b]
<1>0. h.event \in Events
  BY DEF HandleType
<1>1. next \in NextType /\ stayed \in SUBSET Buttons
  BY DEF TypeOK, NextType
<1>2. next' \in NextType /\ stayed' \in SUBSET Buttons /\ rejoined' \in BOOLEAN
  BY <1>1, CallbackType DEF Report
<1>3. handle' = [handle EXCEPT ![b] = h] /\ handle \in [Buttons -> HandleType]
  BY DEF Report, TypeOK
<1>4. /\ told' = [told EXCEPT ![b] = (IF handle[b].state = 0 THEN {} ELSE told[b]) \cup {h.event}]
      /\ told \in [Buttons -> SUBSET Events]
  BY DEF Report, TypeOK
<1>5. /\ clicks' = [clicks EXCEPT ![b] = IF handle[b].state = 0 THEN 1 ELSE clicks[b]]
      /\ clicks \in [Buttons -> Nat]
  BY DEF Report, TypeOK
<1>6. pressed \in [Buttons -> BOOLEAN]
  BY DEF TypeOK
<1>7. CASE h.event = "PRESS_DOWN"
  <2>1. pressed' = [pressed EXCEPT ![b] = TRUE]
    BY <1>7 DEF Report
  <2> QED BY <1>0, <1>2, <1>3, <1>4, <1>5, <1>6, <1>7, <2>1 DEF Turn
<1>8. CASE h.event = "PRESS_UP"
  <2>1. pressed' = [pressed EXCEPT ![b] = FALSE]
    BY <1>8 DEF Report
  <2> QED BY <1>0, <1>2, <1>3, <1>4, <1>5, <1>6, <1>8, <2>1 DEF Turn
<1>9. CASE h.event \notin {"PRESS_DOWN", "PRESS_UP"}
  <2>1. pressed' = [pressed EXCEPT ![b] = pressed[b]]
    BY <1>9 DEF Report
  <2> QED BY <1>0, <1>2, <1>3, <1>4, <1>5, <1>6, <1>9, <2>1 DEF Turn
<1> QED BY <1>7, <1>8, <1>9

\* A report while the automaton is not at rest.
LEMMA ReportOn ==
    ASSUME TypeOK, NEW b \in Buttons, NEW h \in HandleType, Report(b, h),
           handle[b].state # 0, NEW e, h.event = e
    PROVE  /\ Turn(b) /\ handle'[b] = h
           /\ told'[b] = told[b] \cup {e} /\ clicks'[b] = clicks[b]
           /\ e = "PRESS_UP" => ~pressed'[b]
           /\ e \notin {"PRESS_DOWN", "PRESS_UP"} => pressed'[b] = pressed[b]
<1>1. Turn(b) /\ handle'[b] = h
  BY ReportTurn
<1>2. told'[b] = (IF handle[b].state = 0 THEN {} ELSE told[b]) \cup {h.event}
  BY ReportTurn
<1>3. clicks'[b] = IF handle[b].state = 0 THEN 1 ELSE clicks[b]
  BY ReportTurn
<1>4. /\ h.event = "PRESS_UP" => pressed'[b] = FALSE
      /\ h.event \notin {"PRESS_DOWN", "PRESS_UP"} => pressed'[b] = pressed[b]
  BY ReportTurn
<1>5. told'[b] = told[b] \cup {e} /\ clicks'[b] = clicks[b]
  BY <1>2, <1>3
<1> QED BY <1>1, <1>4, <1>5

\* So is a turn without one.
LEMMA QuietTurn ==
    ASSUME TypeOK, NEW b \in Buttons, NEW h \in HandleType, Quiet(b, h)
    PROVE  /\ Turn(b) /\ handle'[b] = h /\ told'[b] = told[b]
           /\ clicks'[b] = clicks[b] /\ pressed'[b] = pressed[b]
<1>1. /\ handle' = [handle EXCEPT ![b] = h] /\ next' = next /\ told' = told
      /\ clicks' = clicks /\ pressed' = pressed /\ stayed' = stayed /\ rejoined' = rejoined
  BY DEF Quiet
<1> QED BY <1>1 DEF TypeOK, Turn, NextType

\* What is known of b before its turn, with the samples taken.
Ready(b, h) == /\ h \in HandleType /\ h.state = handle[b].state
               /\ clicks[b] \in Nat /\ told[b] \subseteq Events /\ pressed[b] \in BOOLEAN
               /\ h.state \in {1, 3, 5} => pressed[b]
               /\ h.state = 2 => ~pressed[b]
               /\ Named(h, told[b]) /\ Counts(h, clicks[b])

LEMMA Before ==
    ASSUME IInv, NEW b \in Buttons, NEW read \in BOOLEAN
    PROVE  Ready(b, Debounced(Counted(handle[b]), read))
<1> DEFINE h == Debounced(Counted(handle[b]), read)
<1>1. /\ handle[b] \in HandleType /\ told[b] \subseteq Events
      /\ clicks[b] \in Nat /\ pressed[b] \in BOOLEAN
  BY DEF IInv, TypeOK
<1>2. /\ h \in HandleType
      /\ h.state = handle[b].state /\ h.repeat = handle[b].repeat /\ h.event = handle[b].event
  BY <1>1, Sampled
<1> HIDE DEF h
<1>3. Knows(handle[b], told[b], clicks[b], pressed[b])
  BY DEF IInv
<1>4. /\ h.state \in {1, 3, 5} => pressed[b]
      /\ h.state = 2 => ~pressed[b]
  BY <1>2, <1>3 DEF Knows, Level
<1>5. Named(h, told[b])
  BY <1>2, <1>3 DEF Knows, Named
<1>6. Counts(h, clicks[b])
  BY <1>2, <1>3 DEF Knows, Counts
<1>7. Ready(b, h)
  BY <1>1, <1>2, <1>4, <1>5, <1>6 DEF Ready
<1> QED BY <1>7 DEF h

LEMMA AtRestFine ==
    ASSUME TypeOK, NEW b \in Buttons, NEW h, Ready(b, h), AtRest(b, h)
    PROVE  TurnFine(b)
<1>0. RepeatLimit \in Nat /\ 1 % RepeatLimit = 1 /\ RepeatLimit >= 3 /\ TicksLimit \in Nat /\ TicksLimit >= 2
  BY SmallRemainders, ButtonAssumption
<1>1. CASE /\ h.level
           /\ Report(b, [h EXCEPT !.event = "PRESS_DOWN", !.ticks = 0, !.repeat = 1, !.state = 1])
  <2> DEFINE g == [h EXCEPT !.event = "PRESS_DOWN", !.ticks = 0, !.repeat = 1, !.state = 1]
  <2>1. /\ g \in HandleType /\ g.event = "PRESS_DOWN" /\ g.state = 1 /\ g.repeat = 1 /\ g.level
    <3>1. 0 \in 0 .. TicksLimit - 1 /\ 1 \in 0 .. RepeatLimit - 1
      BY <1>0
    <3> QED BY <1>1, <3>1 DEF Ready, HandleType, Events
  <2> HIDE DEF g
  <2>2. Report(b, g) /\ handle[b].state = 0
    BY <1>1 DEF g, AtRest, Ready
  <2>3. Turn(b) /\ handle'[b] = g /\ told'[b] = {"PRESS_DOWN"} /\ clicks'[b] = 1 /\ pressed'[b]
    <3>1. /\ Turn(b) /\ handle'[b] = g
          /\ told'[b] = (IF handle[b].state = 0 THEN {} ELSE told[b]) \cup {g.event}
          /\ clicks'[b] = (IF handle[b].state = 0 THEN 1 ELSE clicks[b])
          /\ g.event = "PRESS_DOWN" => pressed'[b] = TRUE
      BY <2>1, <2>2, ReportTurn, Zenon
    <3>2. told'[b] = {} \cup {"PRESS_DOWN"}
      BY <2>1, <2>2, <3>1, Zenon
    <3> QED BY <2>1, <2>2, <3>1, <3>2
  <2>4. Level(g, TRUE) /\ Named(g, {"PRESS_DOWN"}) /\ Counts(g, 1)
    BY <1>0, <2>1 DEF Level, Named, OneName, Names, Counts
  <2> QED BY <2>3, <2>4 DEF TurnFine, Knows, Level
<1>2. CASE /\ ~h.level
           /\ handle' = [handle EXCEPT ![b] = [h EXCEPT !.event = "NONE_PRESS"]]
           /\ told' = [told EXCEPT ![b] = {}] /\ clicks' = [clicks EXCEPT ![b] = 0]
           /\ UNCHANGED <<next, pressed, stayed, rejoined>>
  <2> DEFINE g == [h EXCEPT !.event = "NONE_PRESS"]
  <2>1. g \in HandleType /\ g.event = "NONE_PRESS" /\ g.state = 0
    BY DEF Ready, HandleType, Events, AtRest
  <2> HIDE DEF g
  <2>2. handle' = [handle EXCEPT ![b] = g]
    BY <1>2 DEF g
  <2>3. Turn(b) /\ handle'[b] = g /\ told'[b] = {} /\ clicks'[b] = 0
    BY <1>2, <2>1, <2>2 DEF TypeOK, Turn, NextType
  <2>4. Named(g, {}) /\ Counts(g, 0)
    BY <2>1 DEF Named, OneName, Counts
  <2> QED BY <2>1, <2>3, <2>4 DEF TurnFine, Knows, Level
<1> QED BY <1>1, <1>2 DEF AtRest

\* Without a name yet, with the one just given, or with a long press's.
LEMMA NamesGiven ==
    /\ \A t : t \subseteq {"PRESS_DOWN", "PRESS_UP", "PRESS_REPEAT"} => OneName(t)
    /\ \A t : \A e \in {"SINGLE_CLICK", "DOUBLE_CLICK"} :
           t \subseteq {"PRESS_DOWN", "PRESS_UP", "PRESS_REPEAT"} => OneName(t \cup {e})
    /\ \A t : /\ t \subseteq {"PRESS_DOWN", "PRESS_UP", "LONG_PRESS_START", "LONG_PRESS_HOLD"}
             /\ "LONG_PRESS_START" \in t
             => OneName(t)
<1>1. ASSUME NEW t, t \subseteq {"PRESS_DOWN", "PRESS_UP", "PRESS_REPEAT"}
      PROVE  OneName(t)
  <2>1. /\ t \cap Names = {} /\ "LONG_PRESS_HOLD" \notin t /\ "LONG_PRESS_START" \notin t
    BY <1>1 DEF Names
  <2> QED BY <2>1 DEF OneName
<1>2. ASSUME NEW t, NEW e \in {"SINGLE_CLICK", "DOUBLE_CLICK"},
             t \subseteq {"PRESS_DOWN", "PRESS_UP", "PRESS_REPEAT"}
      PROVE  OneName(t \cup {e})
  <2>1. \A x \in (t \cup {e}) \cap Names : x = e
    BY <1>2 DEF Names
  <2>2. "LONG_PRESS_HOLD" \notin t \cup {e} /\ "LONG_PRESS_START" \notin t \cup {e}
    BY <1>2
  <2> QED BY <2>1, <2>2 DEF OneName
<1>3. ASSUME NEW t, "LONG_PRESS_START" \in t,
             t \subseteq {"PRESS_DOWN", "PRESS_UP", "LONG_PRESS_START", "LONG_PRESS_HOLD"}
      PROVE  OneName(t)
  <2>1. \A x \in t \cap Names : x = "LONG_PRESS_START"
    BY <1>3 DEF Names
  <2>2. "PRESS_REPEAT" \notin t
    BY <1>3
  <2> QED BY <1>3, <2>1, <2>2 DEF OneName
<1> QED BY <1>1, <1>2, <1>3

LEMMA FirstPressFine ==
    ASSUME TypeOK, NEW b \in Buttons, NEW h, Ready(b, h), FirstPress(b, h)
    PROVE  TurnFine(b)
<1>0. TicksLimit \in Nat /\ TicksLimit >= 2
  BY ButtonAssumption
<1>1. /\ h \in HandleType /\ h.state = 1 /\ handle[b].state = 1 /\ pressed[b] /\ clicks[b] \in Nat
      /\ told[b] \subseteq {"PRESS_DOWN"} /\ h.repeat = clicks[b] % RepeatLimit
      /\ h.event \notin {"SINGLE_CLICK", "DOUBLE_CLICK"}
  BY DEF FirstPress, Ready, Named, Counts
<1>3. CASE ~h.level /\ Report(b, [h EXCEPT !.event = "PRESS_UP", !.ticks = 0, !.state = 2])
  <2> DEFINE g == [h EXCEPT !.event = "PRESS_UP", !.ticks = 0, !.state = 2]
  <2>1. /\ g \in HandleType /\ g.event = "PRESS_UP" /\ g.state = 2
        /\ g.repeat = h.repeat /\ ~g.level
    <3>1. 0 \in 0 .. TicksLimit - 1
      BY <1>0
    <3> QED BY <1>1, <1>3, <3>1 DEF HandleType, Events
  <2> HIDE DEF g
  <2>2. Report(b, g)
    BY <1>3 DEF g
  <2>3. /\ Turn(b) /\ handle'[b] = g /\ told'[b] = told[b] \cup {"PRESS_UP"}
        /\ clicks'[b] = clicks[b] /\ ~pressed'[b]
    BY <1>1, <2>1, <2>2, ReportOn
  <2>4. told'[b] \subseteq {"PRESS_DOWN", "PRESS_UP", "PRESS_REPEAT"}
    BY <1>1, <2>3
  <2>5. Named(g, told'[b])
    BY <2>1, <2>4, NamesGiven DEF Named
  <2>6. Counts(g, clicks'[b])
    BY <1>1, <2>1, <2>3 DEF Counts
  <2> QED BY <2>1, <2>3, <2>5, <2>6 DEF TurnFine, Knows, Level
<1>4. CASE h.level /\ Report(b, [h EXCEPT !.event = "LONG_PRESS_START", !.state = 5])
  <2> DEFINE g == [h EXCEPT !.event = "LONG_PRESS_START", !.state = 5]
  <2>1. /\ g \in HandleType /\ g.event = "LONG_PRESS_START" /\ g.state = 5 /\ g.level
    BY <1>1, <1>4 DEF HandleType, Events
  <2> HIDE DEF g
  <2>2. Report(b, g)
    BY <1>4 DEF g
  <2>3. /\ Turn(b) /\ handle'[b] = g /\ told'[b] = told[b] \cup {"LONG_PRESS_START"}
        /\ clicks'[b] = clicks[b] /\ pressed'[b] = pressed[b]
    <3>1. handle[b].state # 0 /\ "LONG_PRESS_START" \notin {"PRESS_DOWN", "PRESS_UP"}
      BY <1>1
    <3> QED BY <2>1, <2>2, <3>1, ReportOn
  <2>4. /\ told'[b] \subseteq {"PRESS_DOWN", "LONG_PRESS_START", "LONG_PRESS_HOLD"}
        /\ "LONG_PRESS_START" \in told'[b]
    BY <1>1, <2>3
  <2>5. OneName(told'[b])
    BY <2>4, NamesGiven
  <2>6. Named(g, told'[b])
    BY <2>1, <2>4, <2>5 DEF Named
  <2>7. Counts(g, clicks'[b])
    BY <2>1 DEF Counts
  <2> QED BY <1>1, <2>1, <2>3, <2>6, <2>7 DEF TurnFine, Knows, Level
<1>5. CASE h.level /\ Quiet(b, h)
  <2>1. /\ Turn(b) /\ handle'[b] = h /\ told'[b] = told[b]
        /\ clicks'[b] = clicks[b] /\ pressed'[b] = pressed[b]
    BY <1>1, <1>5, QuietTurn
  <2> QED BY <1>1, <1>5, <2>1 DEF TurnFine, Knows, Level, Ready
<1> QED BY <1>3, <1>4, <1>5 DEF FirstPress

\* A press once more is a turn.
LEMMA RepeatTurn ==
    ASSUME TypeOK, NEW b \in Buttons, NEW h \in HandleType, ReportRepeat(b, h)
    PROVE  /\ Turn(b) /\ handle'[b] = h
           /\ told'[b] = told[b] \cup {"PRESS_DOWN", "PRESS_REPEAT"}
           /\ clicks'[b] = clicks[b] + 1 /\ pressed'[b] = TRUE
<1>1. next \in NextType /\ stayed \in SUBSET Buttons
  BY DEF TypeOK, NextType
<1>2. next' \in NextType /\ stayed' \in SUBSET Buttons /\ rejoined' \in BOOLEAN
  BY <1>1, CallbackType DEF ReportRepeat
<1>3. handle' = [handle EXCEPT ![b] = h] /\ handle \in [Buttons -> HandleType]
  BY DEF ReportRepeat, TypeOK
<1>4. /\ told' = [told EXCEPT ![b] = told[b] \cup {"PRESS_DOWN", "PRESS_REPEAT"}]
      /\ told \in [Buttons -> SUBSET Events]
      /\ {"PRESS_DOWN", "PRESS_REPEAT"} \subseteq Events
  BY DEF ReportRepeat, TypeOK, Events
<1>5. /\ clicks' = [clicks EXCEPT ![b] = clicks[b] + 1] /\ clicks \in [Buttons -> Nat]
      /\ clicks[b] + 1 \in Nat
  BY DEF ReportRepeat, TypeOK
<1>6. pressed' = [pressed EXCEPT ![b] = TRUE] /\ pressed \in [Buttons -> BOOLEAN]
  BY DEF ReportRepeat, TypeOK
<1>7. told' \in [Buttons -> SUBSET Events]
  BY <1>4
<1> QED BY <1>2, <1>3, <1>4, <1>5, <1>6, <1>7 DEF Turn

LEMMA LetGoFine ==
    ASSUME TypeOK, NEW b \in Buttons, NEW h, Ready(b, h), LetGo(b, h)
    PROVE  TurnFine(b)
<1>0. TicksLimit \in Nat /\ TicksLimit >= 2 /\ RepeatLimit \in Nat /\ RepeatLimit >= 3
  BY ButtonAssumption, SmallRemainders
<1>1. /\ h \in HandleType /\ h.state = 2 /\ handle[b].state = 2 /\ ~pressed[b] /\ clicks[b] \in Nat
      /\ told[b] \subseteq {"PRESS_DOWN", "PRESS_UP", "PRESS_REPEAT"}
      /\ h.repeat = clicks[b] % RepeatLimit /\ h.event \notin {"SINGLE_CLICK", "DOUBLE_CLICK"}
  BY DEF LetGo, Ready, Named, Counts
<1>2. CASE h.level /\ ReportRepeat(b, Repeated(h))
  <2> DEFINE g == Repeated(h)
  <2>1. /\ g.event = "PRESS_DOWN" /\ g.state = 3 /\ g.level
        /\ g.repeat = (h.repeat + 1) % RepeatLimit /\ g \in HandleType
    <3>1. 0 \in 0 .. TicksLimit - 1
      BY <1>0
    <3>2. h.repeat \in 0 .. RepeatLimit - 1
      BY <1>1 DEF HandleType
    <3>3. (h.repeat + 1) % RepeatLimit \in 0 .. RepeatLimit - 1
      BY <1>0, <3>2
    <3> QED BY <1>1, <1>2, <3>1, <3>3 DEF Repeated, HandleType, Events
  <2> HIDE DEF g
  <2>2. ReportRepeat(b, g)
    BY <1>2 DEF g
  <2>3. /\ Turn(b) /\ handle'[b] = g
        /\ told'[b] = told[b] \cup {"PRESS_DOWN", "PRESS_REPEAT"}
        /\ clicks'[b] = clicks[b] + 1 /\ pressed'[b] = TRUE
    BY <2>1, <2>2, RepeatTurn
  <2>4. told'[b] \subseteq {"PRESS_DOWN", "PRESS_UP", "PRESS_REPEAT"}
    BY <1>1, <2>3
  <2>5. Named(g, told'[b])
    BY <2>1, <2>4, NamesGiven DEF Named
  <2>6. g.repeat = (clicks[b] + 1) % RepeatLimit
    BY <1>0, <1>1, <2>1, WrapsCounting
  <2>7. Counts(g, clicks'[b])
    BY <2>1, <2>3, <2>6 DEF Counts
  <2> QED BY <2>1, <2>3, <2>5, <2>7 DEF TurnFine, Knows, Level
<1>3. ASSUME NEW e \in {"SINGLE_CLICK", "DOUBLE_CLICK"},
             e = "SINGLE_CLICK" => h.repeat = 1, e = "DOUBLE_CLICK" => h.repeat = 2,
             Report(b, [h EXCEPT !.event = e, !.state = 0])
      PROVE  TurnFine(b)
  <2> DEFINE g == [h EXCEPT !.event = e, !.state = 0]
  <2>1. g \in HandleType /\ g.event = e /\ g.state = 0
    BY <1>1 DEF HandleType, Events
  <2> HIDE DEF g
  <2>2. Report(b, g)
    BY <1>3 DEF g
  <2>3. /\ Turn(b) /\ handle'[b] = g /\ told'[b] = told[b] \cup {e} /\ clicks'[b] = clicks[b]
    BY <1>1, <2>1, <2>2, ReportOn
  <2>4. OneName(told'[b])
    <3>1. told[b] \subseteq {"PRESS_DOWN", "PRESS_UP", "PRESS_REPEAT"}
      BY <1>1
    <3>2. OneName(told[b] \cup {e})
      BY <3>1, NamesGiven, Zenon
    <3> QED BY <2>3, <3>2, Zenon
  <2>5. Named(g, told'[b])
    BY <2>1, <2>4 DEF Named
  <2>6. Counts(g, clicks'[b])
    BY <1>1, <1>3, <2>1, <2>3 DEF Counts
  <2> QED BY <2>1, <2>3, <2>5, <2>6 DEF TurnFine, Knows, Level
<1>4. CASE Quiet(b, Unnamed(h))
  <2> DEFINE g == Unnamed(h)
  <2>1. g \in HandleType /\ g.event = h.event /\ g.state = 0
    BY <1>1 DEF HandleType, Unnamed
  <2> HIDE DEF g
  <2>2. Quiet(b, g)
    BY <1>4 DEF g
  <2>3. Turn(b) /\ handle'[b] = g /\ told'[b] = told[b] /\ clicks'[b] = clicks[b]
    BY <2>1, <2>2, QuietTurn
  <2>4. OneName(told'[b])
    BY <1>1, <2>3, NamesGiven, Zenon
  <2>5. Named(g, told'[b]) /\ Counts(g, clicks'[b])
    BY <1>1, <2>1, <2>4 DEF Named, Counts
  <2> QED BY <2>1, <2>3, <2>5 DEF TurnFine, Knows, Level
<1>5. CASE ~h.level /\ Quiet(b, h)
  <2>1. /\ Turn(b) /\ handle'[b] = h /\ told'[b] = told[b]
        /\ clicks'[b] = clicks[b] /\ pressed'[b] = pressed[b]
    BY <1>1, <1>5, QuietTurn
  <2> QED BY <1>1, <1>5, <2>1 DEF TurnFine, Knows, Level, Ready
<1>6. CASE h.repeat = 1 /\ Report(b, [h EXCEPT !.event = "SINGLE_CLICK", !.state = 0])
  BY <1>3, <1>6
<1>7. CASE h.repeat = 2 /\ Report(b, [h EXCEPT !.event = "DOUBLE_CLICK", !.state = 0])
  BY <1>3, <1>7
<1> QED BY <1>2, <1>4, <1>5, <1>6, <1>7 DEF LetGo

LEMMA PressedAgainFine ==
    ASSUME TypeOK, NEW b \in Buttons, NEW h, Ready(b, h), PressedAgain(b, h)
    PROVE  TurnFine(b)
<1>0. TicksLimit \in Nat /\ TicksLimit >= 2
  BY ButtonAssumption
<1>1. /\ h \in HandleType /\ h.state = 3 /\ handle[b].state = 3 /\ pressed[b] /\ clicks[b] \in Nat
      /\ told[b] \subseteq {"PRESS_DOWN", "PRESS_UP", "PRESS_REPEAT"}
      /\ h.repeat = clicks[b] % RepeatLimit /\ h.event \notin {"SINGLE_CLICK", "DOUBLE_CLICK"}
  BY DEF PressedAgain, Ready, Named, Counts
<1>2. ASSUME NEW g \in HandleType, ~g.level, g.event = "PRESS_UP", g.state \in {0, 2},
             g.repeat = h.repeat, Report(b, g)
      PROVE  TurnFine(b)
  <2>1. /\ Turn(b) /\ handle'[b] = g /\ told'[b] = told[b] \cup {"PRESS_UP"}
        /\ clicks'[b] = clicks[b] /\ ~pressed'[b]
    BY <1>1, <1>2, ReportOn
  <2>2. told'[b] \subseteq {"PRESS_DOWN", "PRESS_UP", "PRESS_REPEAT"}
    BY <1>1, <2>1
  <2>3. Named(g, told'[b])
    BY <1>2, <2>2, NamesGiven DEF Named
  <2>4. Counts(g, clicks'[b])
    BY <1>1, <1>2, <2>1 DEF Counts
  <2> QED BY <1>2, <2>1, <2>3, <2>4 DEF TurnFine, Knows, Level
<1>3. CASE ~h.level /\ Report(b, [h EXCEPT !.event = "PRESS_UP", !.ticks = 0, !.state = 2])
  <2> DEFINE g == [h EXCEPT !.event = "PRESS_UP", !.ticks = 0, !.state = 2]
  <2>1. 0 \in 0 .. TicksLimit - 1
    BY <1>0
  <2>2. /\ g \in HandleType /\ g.event = "PRESS_UP" /\ g.state = 2
        /\ g.repeat = h.repeat /\ ~g.level
    BY <1>1, <1>3, <2>1 DEF HandleType, Events
  <2> QED BY <1>2, <1>3, <2>2
<1>4. CASE ~h.level /\ Report(b, [h EXCEPT !.event = "PRESS_UP", !.state = 0])
  <2> DEFINE g == [h EXCEPT !.event = "PRESS_UP", !.state = 0]
  <2>1. /\ g \in HandleType /\ g.event = "PRESS_UP" /\ g.state = 0
        /\ g.repeat = h.repeat /\ ~g.level
    BY <1>1, <1>4 DEF HandleType, Events
  <2> QED BY <1>2, <1>4, <2>1
<1>5. CASE Quiet(b, GivenUp(h))
  <2> DEFINE g == GivenUp(h)
  <2>1. g \in HandleType /\ g.event = h.event /\ g.state = 0
    BY <1>1 DEF HandleType, GivenUp
  <2> HIDE DEF g
  <2>2. Quiet(b, g)
    BY <1>5 DEF g
  <2>3. Turn(b) /\ handle'[b] = g /\ told'[b] = told[b] /\ clicks'[b] = clicks[b]
    BY <2>1, <2>2, QuietTurn
  <2>4. OneName(told'[b])
    BY <1>1, <2>3, NamesGiven, Zenon
  <2>5. Named(g, told'[b]) /\ Counts(g, clicks'[b])
    BY <1>1, <2>1, <2>4 DEF Named, Counts
  <2> QED BY <2>1, <2>3, <2>5 DEF TurnFine, Knows, Level
<1>6. CASE h.level /\ Quiet(b, h)
  <2>1. /\ Turn(b) /\ handle'[b] = h /\ told'[b] = told[b]
        /\ clicks'[b] = clicks[b] /\ pressed'[b] = pressed[b]
    BY <1>1, <1>6, QuietTurn
  <2> QED BY <1>1, <1>6, <2>1 DEF TurnFine, Knows, Level, Ready
<1> QED BY <1>3, <1>4, <1>5, <1>6 DEF PressedAgain

LEMMA LongPressFine ==
    ASSUME TypeOK, NEW b \in Buttons, NEW h, Ready(b, h), LongPress(b, h)
    PROVE  TurnFine(b)
<1>1. /\ h \in HandleType /\ h.state = 5 /\ handle[b].state = 5 /\ pressed[b] /\ clicks[b] \in Nat
      /\ told[b] \subseteq {"PRESS_DOWN", "LONG_PRESS_START", "LONG_PRESS_HOLD"}
      /\ "LONG_PRESS_START" \in told[b]
  BY DEF LongPress, Ready, Named
<1>2. CASE h.level /\ Report(b, [h EXCEPT !.event = "LONG_PRESS_HOLD"])
  <2> DEFINE g == [h EXCEPT !.event = "LONG_PRESS_HOLD"]
  <2>1. g \in HandleType /\ g.event = "LONG_PRESS_HOLD" /\ g.state = 5 /\ g.level
    BY <1>1, <1>2 DEF HandleType, Events
  <2> HIDE DEF g
  <2>2. Report(b, g)
    BY <1>2 DEF g
  <2>3. /\ Turn(b) /\ handle'[b] = g /\ told'[b] = told[b] \cup {"LONG_PRESS_HOLD"}
        /\ clicks'[b] = clicks[b] /\ pressed'[b] = pressed[b]
    <3>1. handle[b].state # 0 /\ "LONG_PRESS_HOLD" \notin {"PRESS_DOWN", "PRESS_UP"}
      BY <1>1
    <3> QED BY <2>1, <2>2, <3>1, ReportOn
  <2>4. /\ told'[b] \subseteq {"PRESS_DOWN", "LONG_PRESS_START", "LONG_PRESS_HOLD"}
        /\ "LONG_PRESS_START" \in told'[b]
    BY <1>1, <2>3
  <2>5. OneName(told'[b])
    BY <2>4, NamesGiven
  <2>6. Named(g, told'[b]) /\ Counts(g, clicks'[b])
    BY <2>1, <2>4, <2>5 DEF Named, Counts
  <2> QED BY <1>1, <2>1, <2>3, <2>6 DEF TurnFine, Knows, Level
<1>3. CASE Report(b, Ended(h))
  <2> DEFINE g == Ended(h)
  <2>1. g \in HandleType /\ g.event = "PRESS_UP" /\ g.state = 0
    BY <1>1 DEF HandleType, Events, Ended
  <2> HIDE DEF g
  <2>2. Report(b, g)
    BY <1>3 DEF g
  <2>3. /\ Turn(b) /\ handle'[b] = g /\ told'[b] = told[b] \cup {"PRESS_UP"}
        /\ clicks'[b] = clicks[b]
    BY <1>1, <2>1, <2>2, ReportOn
  <2>4. /\ told'[b] \subseteq {"PRESS_DOWN", "PRESS_UP", "LONG_PRESS_START", "LONG_PRESS_HOLD"}
        /\ "LONG_PRESS_START" \in told'[b]
    BY <1>1, <2>3
  <2>5. OneName(told'[b])
    BY <2>4, NamesGiven
  <2>6. Named(g, told'[b]) /\ Counts(g, clicks'[b])
    BY <2>1, <2>5 DEF Named, Counts
  <2> QED BY <2>1, <2>3, <2>6 DEF TurnFine, Knows, Level
<1> QED BY <1>2, <1>3 DEF LongPress

-----------------------------------------------------------------------------
\* The steps.
LEMMA InitFine == ASSUME Init PROVE IInv
<1>0. /\ DEBOUNCE_TICKS \in Nat \ {0} /\ TicksLimit \in Nat /\ TicksLimit >= 2
      /\ RepeatLimit \in Nat \ {0} /\ NULL \notin Buttons /\ Head \notin Buttons
  BY ButtonAssumption
<1>1. \A r \in BOOLEAN : Fresh(r) \in HandleType
  <2>1. 0 \in 0 .. DEBOUNCE_TICKS - 1 /\ 0 \in 0 .. TicksLimit - 1 /\ 0 \in 0 .. RepeatLimit - 1
    BY <1>0
  <2> QED BY <2>1 DEF Fresh, HandleType, Events
<1>2. TypeOK
  <2>1. handle \in [Buttons -> HandleType]
    BY <1>1 DEF Init
  <2>2. next \in [Buttons \cup {Head} -> Buttons \cup {NULL}] /\ target \in Buttons \cup {NULL}
    BY DEF Init
  <2>3. /\ told \in [Buttons -> SUBSET Events] /\ clicks \in [Buttons -> Nat]
        /\ pressed \in [Buttons -> BOOLEAN]
    BY DEF Init
  <2>4. 1 \in 0..2
    OBVIOUS
  <2>5. ticked \in [Buttons -> 0..2] /\ stayed \in SUBSET Buttons /\ rejoined \in BOOLEAN
    BY <2>4 DEF Init
  <2> QED BY <2>1, <2>2, <2>3, <2>5 DEF TypeOK
<1>3. ASSUME NEW b \in Buttons
      PROVE  Knows(handle[b], told[b], clicks[b], pressed[b])
  <2>1. handle[b] = Fresh(FALSE) /\ told[b] = {}
    BY DEF Init
  <2>2. handle[b].state = 0 /\ handle[b].event = "NONE_PRESS"
    BY <2>1 DEF Fresh
  <2>3. Level(handle[b], pressed[b]) /\ Counts(handle[b], clicks[b])
    BY <2>2 DEF Level, Counts
  <2>4. OneName(told[b])
    BY <2>1, NamesGiven
  <2>5. Named(handle[b], told[b])
    BY <2>2, <2>4 DEF Named
  <2> QED BY <2>3, <2>5 DEF Knows
<1> QED BY <1>2, <1>3 DEF IInv

\* The ghosts of a pass do not matter to what is known of the buttons.
LEMMA SameButtons ==
    ASSUME IInv, UNCHANGED <<handle, told, clicks, pressed>>, TypeOK' PROVE IInv'
BY DEF IInv

LEMMA ForgottenType ==
    ASSUME Forgotten
    PROVE  ticked' \in [Buttons -> 0..2] /\ stayed' \in SUBSET Buttons /\ rejoined' \in BOOLEAN
<1>1. 1 \in 0..2
  OBVIOUS
<1> QED BY <1>1 DEF Forgotten

LEMMA StartFine ==
    ASSUME IInv, NEW b \in Buttons, Start(b) \/ Stop(b) PROVE IInv'
<1>1. next \in NextType
  BY DEF IInv, TypeOK, NextType
<1>2. /\ next' \in NextType
      /\ Forgotten /\ UNCHANGED <<handle, target, told, clicks, pressed>>
  BY <1>1, StartedType DEF Start, Stop
<1>3. TypeOK'
  BY <1>2, ForgottenType DEF IInv, TypeOK, NextType
<1> QED BY <1>2, <1>3, SameButtons

LEMMA ButtonInitFine ==
    ASSUME IInv, NEW b \in Buttons, NEW read \in BOOLEAN, ButtonInit(b, read) PROVE IInv'
<1>0. /\ DEBOUNCE_TICKS \in Nat \ {0} /\ TicksLimit \in Nat /\ TicksLimit >= 2
      /\ RepeatLimit \in Nat \ {0}
  BY ButtonAssumption
<1> DEFINE g == Fresh(read /\ b \in Tracked)
<1>1. g \in HandleType /\ g.state = 0 /\ g.event = "NONE_PRESS"
  <2>1. 0 \in 0 .. DEBOUNCE_TICKS - 1 /\ 0 \in 0 .. TicksLimit - 1 /\ 0 \in 0 .. RepeatLimit - 1
    BY <1>0
  <2>2. (read /\ b \in Tracked) \in BOOLEAN
    OBVIOUS
  <2> QED BY <2>1, <2>2 DEF Fresh, HandleType, Events
<1> HIDE DEF g
<1>2. /\ handle' = [handle EXCEPT ![b] = g] /\ next' = [next EXCEPT ![b] = NULL]
      /\ told' = [told EXCEPT ![b] = {}] /\ clicks' = [clicks EXCEPT ![b] = 0]
      /\ Forgotten /\ UNCHANGED <<target, pressed>>
  BY DEF ButtonInit, g
<1>3. TypeOK'
  BY <1>1, <1>2, ForgottenType DEF IInv, TypeOK
<1>4. ASSUME NEW x \in Buttons
      PROVE  Knows(handle'[x], told'[x], clicks'[x], pressed'[x])
  <2>1. CASE x = b
    <3>1. handle'[x] = g /\ told'[x] = {} /\ clicks'[x] = 0
      BY <1>2, <2>1 DEF IInv, TypeOK
    <3> QED BY <1>1, <3>1 DEF Knows, Level, Named, OneName, Counts
  <2>2. CASE x # b
    <3>1. /\ handle'[x] = handle[x] /\ told'[x] = told[x]
          /\ clicks'[x] = clicks[x] /\ pressed'[x] = pressed[x]
      BY <1>2, <2>2 DEF IInv, TypeOK
    <3> QED BY <3>1 DEF IInv
  <2> QED BY <2>1, <2>2
<1> QED BY <1>3, <1>4 DEF IInv

LEMMA TicksBeginFine == ASSUME IInv, TicksBegin PROVE IInv'
<1>1. next[Head] \in Buttons \cup {NULL} /\ Listed(next) \subseteq Buttons
  BY ListedType DEF IInv, TypeOK
<1>2. 0 \in 0..2
  OBVIOUS
<1>3. ticked' \in [Buttons -> 0..2] /\ stayed' \in SUBSET Buttons /\ rejoined' \in BOOLEAN
  BY <1>1, <1>2 DEF TicksBegin
<1>4. target' \in Buttons \cup {NULL}
  BY <1>1 DEF TicksBegin
<1>5. TypeOK'
  BY <1>3, <1>4 DEF IInv, TypeOK, TicksBegin
<1> QED BY <1>5, SameButtons DEF TicksBegin

LEMMA HandlerFine == ASSUME IInv, NEW b \in Buttons, Handler(b) PROVE TurnFine(b)
<1>1. PICK read \in Reads(b) :
          LET h == Debounced(Counted(handle[b]), read)
          IN  AtRest(b, h) \/ FirstPress(b, h) \/ LetGo(b, h) \/ PressedAgain(b, h)
                  \/ LongPress(b, h)
  BY DEF Handler
<1>2. read \in BOOLEAN
  BY DEF Reads
<1> DEFINE h == Debounced(Counted(handle[b]), read)
<1>3. Ready(b, h) /\ TypeOK
  BY <1>2, Before DEF IInv
<1>4. AtRest(b, h) \/ FirstPress(b, h) \/ LetGo(b, h) \/ PressedAgain(b, h) \/ LongPress(b, h)
  BY <1>1
<1> HIDE DEF h
<1> QED BY <1>3, <1>4, AtRestFine, FirstPressFine, LetGoFine, PressedAgainFine, LongPressFine

LEMMA TicksStepFine == ASSUME IInv, TicksStep PROVE IInv'
<1>1. PICK b \in Buttons :
          /\ target = b /\ (Handler(b) \/ Untracked(b))
          /\ Advance(b)
          /\ ticked' = [ticked EXCEPT ![b] = IF @ = 2 THEN 2 ELSE @ + 1]
  BY DEF TicksStep
<1>2. ticked' \in [Buttons -> 0..2]
  <2>1. ticked \in [Buttons -> 0..2]
    BY DEF IInv, TypeOK
  <2>2. (IF ticked[b] = 2 THEN 2 ELSE ticked[b] + 1) \in 0..2
    BY <2>1
  <2> QED BY <1>1, <2>1, <2>2
<1>3. CASE Handler(b)
  <2>1. TurnFine(b)
    BY <1>3, HandlerFine
  <2>2. target' \in Buttons \cup {NULL}
    BY <1>1, <2>1 DEF Advance, TurnFine, Turn, NextType
  <2>3. TypeOK'
    BY <1>2, <2>1, <2>2 DEF TypeOK, TurnFine, Turn, NextType
  <2>4. ASSUME NEW x \in Buttons
        PROVE  Knows(handle'[x], told'[x], clicks'[x], pressed'[x])
    <3>1. CASE x = b
      BY <2>1, <3>1 DEF TurnFine
    <3>2. CASE x # b
      <4>1. /\ handle'[x] = handle[x] /\ told'[x] = told[x]
            /\ clicks'[x] = clicks[x] /\ pressed'[x] = pressed[x]
        BY <2>1, <3>2 DEF TurnFine, Turn
      <4> QED BY <4>1 DEF IInv
    <3> QED BY <3>1, <3>2
  <2> QED BY <2>3, <2>4 DEF IInv
<1>4. CASE Untracked(b)
  <2>1. /\ TwoCallbacks(b) /\ UNCHANGED <<handle, told, clicks, pressed>>
        /\ next \in NextType /\ stayed \in SUBSET Buttons
    BY <1>4 DEF Untracked, IInv, TypeOK, NextType
  <2>2. next' \in NextType /\ stayed' \in SUBSET Buttons /\ rejoined' \in BOOLEAN
    BY <2>1, CallbackType
  <2>3. target' \in Buttons \cup {NULL}
    BY <1>1, <2>2 DEF Advance, NextType
  <2>4. TypeOK'
    BY <1>2, <2>1, <2>2, <2>3 DEF IInv, TypeOK, NextType
  <2> QED BY <2>1, <2>4, SameButtons
<1> QED BY <1>1, <1>3, <1>4

LEMMA NextFine == ASSUME IInv, [Next]_vars PROVE IInv'
<1>1. CASE TicksBegin
  BY <1>1, TicksBeginFine
<1>2. CASE TicksStep
  BY <1>2, TicksStepFine
<1>3. ASSUME NEW b \in Buttons, Start(b) \/ Stop(b) PROVE IInv'
  BY <1>3, StartFine
<1>4. ASSUME NEW b \in Buttons, NEW read \in BOOLEAN, ButtonInit(b, read) PROVE IInv'
  BY <1>4, ButtonInitFine
<1>5. CASE UNCHANGED vars
  BY <1>5 DEF IInv, TypeOK, vars
<1> QED BY <1>1, <1>2, <1>3, <1>4, <1>5 DEF Next

\* What the automaton of a button knows of it stays true, for every set of buttons
\* and whatever the callbacks do to the list (button_handler, button_ticks).
THEOREM ButtonInvariance == Spec => []IInv
<1>1. Init => IInv
  BY InitFine
<1>2. IInv /\ [Next]_vars => IInv'
  BY NextFine
<1> QED BY <1>1, <1>2, PTL DEF Spec

\* Every field of a button keeps to its width, and the list is one of buttons
\* (struct Button).
THEOREM ButtonTypeCorrect == Spec => []TypeOK
<1>1. IInv => TypeOK
  BY DEF IInv
<1> QED BY <1>1, ButtonInvariance, PTL

\* A button that is in a pressed state is down and was reported down, one waiting
\* for a further click is up and was reported up (the states of button_handler).
THEOREM LevelsFit == Spec => []StateFits
<1>1. IInv => StateFits
  BY DEF IInv, Knows, Level, StateFits
<1> QED BY <1>1, ButtonInvariance, PTL

\* What is done with a button between two times at rest gets one name: a long press
\* is not also a click, a single click not also a double one (button_handler).
THEOREM OneVerdictGiven == Spec => []OneVerdict
<1>1. IInv => OneVerdict
  <2>1. SUFFICES ASSUME IInv, NEW b \in Buttons
                 PROVE  /\ Cardinality(told[b] \cap Names) <= 1
                        /\ "LONG_PRESS_HOLD" \in told[b] => "LONG_PRESS_START" \in told[b]
                        /\ "LONG_PRESS_START" \in told[b] => "PRESS_REPEAT" \notin told[b]
    BY DEF OneVerdict, Names
  <2>2. OneName(told[b])
    BY <2>1 DEF IInv, Knows, Named
  <2>3. CASE told[b] \cap Names = {}
    <3>1. Cardinality(told[b] \cap Names) = 0
      BY <2>3, FS_EmptySet
    <3> QED BY <2>2, <3>1 DEF OneName
  <2>4. CASE told[b] \cap Names # {}
    <3>1. PICK x : told[b] \cap Names = {x}
      BY <2>2, <2>4 DEF OneName
    <3>2. Cardinality(told[b] \cap Names) = 1
      BY <3>1, FS_Singleton
    <3> QED BY <2>2, <3>2 DEF OneName
  <2> QED BY <2>3, <2>4
<1> QED BY <1>1, ButtonInvariance, PTL

\* A click is reported as single or double for as many presses, modulo what the
\* width of repeat can count (button_handler).
THEOREM ClicksRight == Spec => []ClicksCounted
<1>1. IInv => ClicksCounted
  BY DEF IInv, Knows, Counts, ClicksCounted
<1> QED BY <1>1, ButtonInvariance, PTL

-----------------------------------------------------------------------------
\* What a button's turn tells of the level it saw last: a press or a release.
Edge(b) == /\ ~handle[b].level /\ handle'[b].level => handle'[b].event = "PRESS_DOWN"
           /\ handle[b].level /\ ~handle'[b].level /\ handle[b].state # 0
                  => handle'[b].event = "PRESS_UP"

LEMMA HandlerTells == ASSUME IInv, NEW b \in Buttons, Handler(b) PROVE Edge(b)
<1>1. PICK read \in Reads(b) :
          LET h == Debounced(Counted(handle[b]), read)
          IN  AtRest(b, h) \/ FirstPress(b, h) \/ LetGo(b, h) \/ PressedAgain(b, h)
                  \/ LongPress(b, h)
  BY DEF Handler
<1>2. read \in BOOLEAN
  BY DEF Reads
<1> DEFINE h == Debounced(Counted(handle[b]), read)
<1>3. h \in HandleType /\ h.state = handle[b].state
  BY <1>2, Before DEF Ready
<1>4. AtRest(b, h) \/ FirstPress(b, h) \/ LetGo(b, h) \/ PressedAgain(b, h) \/ LongPress(b, h)
  BY <1>1
<1> HIDE DEF h
<1>5. /\ handle[b].state \in {1, 3, 5} => handle[b].level
      /\ handle[b].state = 2 => ~handle[b].level
      /\ handle \in [Buttons -> HandleType]
  BY DEF IInv, TypeOK, Knows, Level
<1>6. \A g : Report(b, g) \/ ReportRepeat(b, g) \/ Quiet(b, g) => handle'[b] = g
  BY <1>5 DEF Report, ReportRepeat, Quiet
<1>7. CASE AtRest(b, h)
  <2>1. /\ h.state = 0
        /\ \/ handle'[b] = [h EXCEPT !.event = "PRESS_DOWN", !.ticks = 0, !.repeat = 1, !.state = 1]
           \/ ~h.level /\ handle'[b] = [h EXCEPT !.event = "NONE_PRESS"]
    BY <1>5, <1>6, <1>7 DEF AtRest
  <2> QED BY <1>3, <2>1 DEF Edge, HandleType
<1>8. CASE FirstPress(b, h)
  <2>1. /\ h.state = 1
        /\ \/ handle'[b] = [h EXCEPT !.event = "PRESS_UP", !.ticks = 0, !.state = 2]
           \/ h.level /\ handle'[b] = [h EXCEPT !.event = "LONG_PRESS_START", !.state = 5]
           \/ h.level /\ handle'[b] = h
    BY <1>6, <1>8 DEF FirstPress
  <2> QED BY <1>3, <1>5, <2>1 DEF Edge, HandleType
<1>9. CASE LetGo(b, h)
  <2>1. /\ h.state = 2
        /\ \/ handle'[b] = Repeated(h)
           \/ ~h.level /\ handle'[b] = [h EXCEPT !.event = "SINGLE_CLICK", !.state = 0]
           \/ ~h.level /\ handle'[b] = [h EXCEPT !.event = "DOUBLE_CLICK", !.state = 0]
           \/ ~h.level /\ handle'[b] = Unnamed(h)
           \/ ~h.level /\ handle'[b] = h
    BY <1>6, <1>9 DEF LetGo
  <2> QED BY <1>3, <1>5, <2>1 DEF Edge, HandleType, Repeated, Unnamed
<1>10. CASE PressedAgain(b, h)
  <2>1. /\ h.state = 3
        /\ \/ handle'[b] = [h EXCEPT !.event = "PRESS_UP", !.ticks = 0, !.state = 2]
           \/ handle'[b] = [h EXCEPT !.event = "PRESS_UP", !.state = 0]
           \/ h.level /\ handle'[b] = GivenUp(h)
           \/ h.level /\ handle'[b] = h
    BY <1>6, <1>10 DEF PressedAgain
  <2> QED BY <1>3, <1>5, <2>1 DEF Edge, HandleType, GivenUp
<1>11. CASE LongPress(b, h)
  <2>1. /\ h.state = 5
        /\ \/ h.level /\ handle'[b] = [h EXCEPT !.event = "LONG_PRESS_HOLD"]
           \/ handle'[b] = Ended(h)
    BY <1>6, <1>11 DEF LongPress
  <2> QED BY <1>3, <1>5, <2>1 DEF Edge, HandleType, Ended
<1> QED BY <1>4, <1>7, <1>8, <1>9, <1>10, <1>11

LEMMA NextTells ==
    ASSUME IInv, [Next]_vars, NEW b \in Buttons, target = b PROVE Edge(b)
<1>0. target # NULL
  BY ButtonAssumption
<1>1. CASE TicksStep
  <2>1. Handler(b) \/ Untracked(b)
    BY <1>1 DEF TicksStep
  <2>2. CASE Untracked(b)
    BY <2>2 DEF Untracked, Edge
  <2> QED BY <2>1, <2>2, HandlerTells
<1>2. CASE UNCHANGED vars
  BY <1>2 DEF vars, Edge
<1> QED BY <1>0, <1>1, <1>2 DEF Next, TicksBegin, Start, Stop, ButtonInit

\* The call of button_handler that sees a debounced press or release reports it,
\* unless the automaton was at rest with the button down.
THEOREM EdgesTold == Spec => EdgesReported
<1>1. IInv /\ [Next]_vars
          => [\A b \in Buttons : target = b =>
                  /\ ~handle[b].level /\ handle'[b].level => handle'[b].event = "PRESS_DOWN"
                  /\ handle[b].level /\ ~handle'[b].level /\ handle[b].state # 0
                         => handle'[b].event = "PRESS_UP"]_vars
  BY NextTells DEF Edge
<1> QED BY <1>1, ButtonInvariance, PTL DEF Spec, EdgesReported

-----------------------------------------------------------------------------
(* The list, and the walk along it.                                           *)

\* A way along the list l: from Head over n buttons, each once, to the last.
Way(l, n, p) ==
    /\ n \in Nat /\ p \in [0..n -> Buttons \cup {Head}] /\ p[0] = Head
    /\ \A i \in 1..n : p[i] \in Buttons /\ l[p[i - 1]] = p[i]
    /\ l[p[n]] = NULL
    /\ \A i, j \in 0..n : p[i] = p[j] => i = j

Ends(l) == \E n, p : Way(l, n, p)

On(n, p) == {p[i] : i \in 1..n}

\* A way is no longer than there are buttons.
LEMMA WayShort ==
    ASSUME NEW l, NEW n, NEW p, Way(l, n, p)
    PROVE  n <= Cardinality(Buttons) /\ Cardinality(Buttons) \in Nat
<1>1. n \in Nat /\ IsFiniteSet(Buttons) /\ Cardinality(Buttons) \in Nat
  BY FS_CardinalityType, ButtonAssumption DEF Way
<1> DEFINE f == [i \in 1..n |-> p[i]]
<1>2. f \in [1..n -> Buttons] /\ \A i, j \in 1..n : f[i] = f[j] => i = j
  <2>1. \A i \in 1..n : i \in 0..n
    BY <1>1
  <2> QED BY <2>1 DEF Way
<1>3. f \in Injection(1..n, Buttons)
  <2> HIDE DEF f
  <2> QED BY <1>2 DEF Injection, IsInjective
<1>4. Cardinality(1..n) <= Cardinality(Buttons)
  <2> HIDE DEF f
  <2> QED BY <1>1, <1>3, FS_Injection
<1>5. Cardinality(1..n) = n
  <2>1. Cardinality(1..n) = IF 1 > n THEN 0 ELSE n - 1 + 1
    BY <1>1, FS_Interval
  <2> QED BY <1>1, <2>1
<1> QED BY <1>1, <1>4, <1>5

LEMMA StepOfWalk ==
    ASSUME NEW l, NEW n, NEW p, Way(l, n, p)
    PROVE  LET C == Cardinality(Buttons)
               g == [i \in 0..C |-> IF i < n THEN p[i + 1] ELSE NULL]
           IN  g = [i \in 0..C |-> LET b == IF i = 0 THEN Head ELSE g[i - 1]
                                   IN  IF b = NULL THEN NULL ELSE l[b]]
<1> DEFINE C == Cardinality(Buttons)
           At(f) == [i \in 0..C |-> LET b == IF i = 0 THEN Head ELSE f[i - 1]
                                    IN  IF b = NULL THEN NULL ELSE l[b]]
           g == [i \in 0..C |-> IF i < n THEN p[i + 1] ELSE NULL]
<1>0. /\ n \in Nat /\ C \in Nat /\ Head # NULL /\ NULL \notin Buttons /\ p[0] = Head
      /\ l[p[n]] = NULL
      /\ \A i \in 1..n : p[i] \in Buttons /\ l[p[i - 1]] = p[i]
  BY WayShort, ButtonAssumption DEF Way
<1>1. g = At(g)
  <2>1. ASSUME NEW i \in 0..C
        PROVE  g[i] = LET b == IF i = 0 THEN Head ELSE g[i - 1]
                      IN  IF b = NULL THEN NULL ELSE l[b]
    <3>1. i = 0 \/ (i # 0 /\ i - 1 \in 0..C)
      BY <1>0, <2>1
    <3>2. CASE i = 0
      <4>1. CASE n = 0
        BY <1>0, <3>2, <4>1
      <4>2. CASE n # 0
        <5>1. 1 \in 1..n /\ 0 < n /\ 0 + 1 = 1 /\ 1 - 1 = 0
          BY <1>0, <4>2
        <5>2. l[p[0]] = p[1]
          BY <1>0, <5>1
        <5> QED BY <1>0, <3>2, <5>1, <5>2
      <4> QED BY <4>1, <4>2
    <3>3. CASE i # 0
      <4>1. i - 1 \in 0..C /\ i \in Nat
        BY <1>0, <3>1, <3>3
      <4>2. CASE i < n
        <5>1. i - 1 < n /\ (i - 1) + 1 = i /\ i \in 1..n /\ i + 1 \in 1..n /\ (i + 1) - 1 = i
          BY <1>0, <3>3, <4>1, <4>2
        <5>2. g[i - 1] = p[i] /\ p[i] # NULL /\ l[p[i]] = p[i + 1] /\ g[i] = p[i + 1]
          BY <1>0, <4>1, <4>2, <5>1
        <5> HIDE DEF g
        <5> QED BY <3>3, <5>2
      <4>3. CASE i = n
        <5>1. i - 1 < n /\ (i - 1) + 1 = i /\ i \in 1..n /\ ~(i < n)
          BY <1>0, <3>3, <4>1, <4>3
        <5>2. g[i - 1] = p[i] /\ p[i] # NULL /\ l[p[i]] = NULL /\ g[i] = NULL
          BY <1>0, <4>1, <4>3, <5>1
        <5> HIDE DEF g
        <5> QED BY <3>3, <5>2
      <4>4. CASE i > n
        <5>1. ~(i - 1 < n) /\ ~(i < n)
          BY <1>0, <4>1, <4>4
        <5>2. g[i - 1] = NULL /\ g[i] = NULL
          BY <4>1, <5>1
        <5> HIDE DEF g
        <5> QED BY <3>3, <5>2
      <4> QED BY <1>0, <4>1, <4>2, <4>3, <4>4
    <3> QED BY <3>2, <3>3
  <2> HIDE DEF C
  <2>2. g = [i \in 0..C |-> g[i]]
    OBVIOUS
  <2> HIDE DEF g
  <2> QED BY <2>1, <2>2, Zenon
<1> QED BY <1>1

\* What Walk meets: the buttons of the way in their order, then nothing.
LEMMA WalkIs ==
    ASSUME NEW l, NEW n, NEW p, Way(l, n, p)
    PROVE  \A i \in 0..Cardinality(Buttons) : Walk(l)[i] = IF i < n THEN p[i + 1] ELSE NULL
<1> DEFINE C == Cardinality(Buttons)
           At(f) == [i \in 0..C |-> LET b == IF i = 0 THEN Head ELSE f[i - 1]
                                    IN  IF b = NULL THEN NULL ELSE l[b]]
           g == [i \in 0..C |-> IF i < n THEN p[i + 1] ELSE NULL]
<1>0. /\ n \in Nat /\ C \in Nat /\ Head # NULL /\ NULL \notin Buttons /\ p[0] = Head
      /\ l[p[n]] = NULL
      /\ \A i \in 1..n : p[i] \in Buttons /\ l[p[i - 1]] = p[i]
  BY WayShort, ButtonAssumption DEF Way
<1>1. g = At(g)
  BY StepOfWalk
<1>2. Walk(l) = At(Walk(l))
  <2> HIDE DEF g
  <2> QED BY <1>1, Zenon DEF Walk
<1> DEFINE T == {i \in Nat : Walk(l)[i] = g[i]}
<1>3. 0 \in T
  <2>1. 0 \in 0..C
    BY <1>0
  <2>2. Walk(l)[0] = l[Head]
    <3> HIDE DEF C
    <3>1. Walk(l)[0] = At(Walk(l))[0]
      BY <1>2, Zenon
    <3> QED BY <1>0, <2>1, <3>1
  <2>3. g[0] = l[Head]
    <3> HIDE DEF C
    <3>1. g[0] = At(g)[0]
      BY <1>1, Zenon
    <3> HIDE DEF g
    <3> QED BY <1>0, <2>1, <3>1
  <2> HIDE DEF g, C
  <2> QED BY <2>2, <2>3
<1>4. \A i \in Nat : i < C /\ i \in T => i + 1 \in T
  <2> SUFFICES ASSUME NEW i \in Nat, i < C, i \in T PROVE i + 1 \in T
    OBVIOUS
  <2> HIDE DEF C
  <2>0. Walk(l)[i] = g[i]
    OBVIOUS
  <2>1. i + 1 \in 0..C /\ i + 1 # 0 /\ (i + 1) - 1 = i
    BY <1>0
  <2>2. Walk(l)[i + 1] = At(Walk(l))[i + 1]
    BY <1>2, Zenon
  <2>3. g[i + 1] = At(g)[i + 1]
    <3> HIDE DEF g
    <3> QED BY <1>1, Zenon
  <2> HIDE DEF g
  <2> QED BY <2>0, <2>1, <2>2, <2>3
<1>5. \A i \in 0..C : i \in T
  <2> HIDE DEF T, C
  <2> QED BY <1>0, <1>3, <1>4, InductionUpTo
<1> HIDE DEF C
<1>6. \A i \in 0..C : g[i] = IF i < n THEN p[i + 1] ELSE NULL
  OBVIOUS
<1> HIDE DEF g
<1> QED BY <1>5, <1>6 DEF C

LEMMA ListedIs ==
    ASSUME NEW l, NEW n, NEW p, Way(l, n, p)
    PROVE  Listed(l) = On(n, p) /\ Walk(l)[Cardinality(Buttons)] = NULL
<1> DEFINE C == Cardinality(Buttons)
           at == Walk(l)
<1>0. /\ n \in Nat /\ C \in Nat /\ n <= C /\ NULL \notin Buttons
      /\ \A i \in 1..n : p[i] \in Buttons
  BY WayShort, ButtonAssumption DEF Way
<1>1. \A i \in 0..C : at[i] = IF i < n THEN p[i + 1] ELSE NULL
  BY WalkIs
<1>2. DOMAIN at = 0..C
  <2> DEFINE At(f) == [i \in 0..C |-> LET b == IF i = 0 THEN Head ELSE f[i - 1]
                                      IN  IF b = NULL THEN NULL ELSE l[b]]
             g == [i \in 0..C |-> IF i < n THEN p[i + 1] ELSE NULL]
  <2>1. g = At(g)
    BY StepOfWalk
  <2>2. at = At(at)
    <3> HIDE DEF g
    <3> QED BY <2>1, Zenon DEF Walk
  <2> HIDE DEF C
  <2>3. DOMAIN At(at) = 0..C
    BY Zenon
  <2> HIDE DEF At, at
  <2> QED BY <2>2, <2>3
<1>3. Listed(l) = Buttons \cap {at[i] : i \in 0..C}
  BY <1>2, Zenon DEF Listed
<1> HIDE DEF at, C
<1>4. \A i \in 0..C : at[i] \in Buttons => at[i] \in On(n, p)
  <2> SUFFICES ASSUME NEW i \in 0..C, at[i] \in Buttons PROVE at[i] \in On(n, p)
    OBVIOUS
  <2>1. i < n
    BY <1>0, <1>1
  <2>2. i + 1 \in 1..n /\ at[i] = p[i + 1]
    BY <1>0, <1>1, <2>1
  <2> QED BY <2>2 DEF On
<1>5. \A j \in 1..n : p[j] \in Buttons /\ \E i \in 0..C : p[j] = at[i]
  <2> SUFFICES ASSUME NEW j \in 1..n PROVE \E i \in 0..C : p[j] = at[i]
    BY <1>0
  <2>1. j - 1 \in 0..C /\ j - 1 < n /\ (j - 1) + 1 = j
    BY <1>0
  <2>2. at[j - 1] = p[j]
    BY <1>1, <2>1
  <2> QED BY <2>1, <2>2
<1>6. C \in 0..C /\ ~(C < n)
  BY <1>0
<1>7. at[C] = NULL
  BY <1>1, <1>6
<1> QED BY <1>3, <1>4, <1>5, <1>7 DEF On, at, C

\* A button put in front of a way.
LEMMA StartedWay ==
    ASSUME NEW l \in NextType, NEW n, NEW p, Way(l, n, p),
           NEW b \in Buttons, b \notin On(n, p),
           NEW m, m = [l EXCEPT ![b] = l[Head], ![Head] = b],
           NEW q, q = [i \in 0..n + 1 |-> IF i = 0 THEN Head ELSE IF i = 1 THEN b ELSE p[i - 1]]
    PROVE  Way(m, n + 1, q) /\ On(n + 1, q) = On(n, p) \cup {b}
<1>0. /\ n \in Nat /\ p[0] = Head /\ l[p[n]] = NULL
      /\ \A i \in 0..n : p[i] \in Buttons \cup {Head}
      /\ \A i \in 1..n : p[i] \in Buttons /\ l[p[i - 1]] = p[i]
      /\ \A i, j \in 0..n : p[i] = p[j] => i = j
  BY DEF Way
<1>1. Head \notin Buttons
  BY ButtonAssumption
<1>2. m[b] = l[Head] /\ m[Head] = b /\ \A x \in Buttons : x # b => m[x] = l[x]
  BY <1>1 DEF NextType
<1>3. \A i \in 1..n : p[i] # b
  BY DEF On
<1>4. q[0] = Head /\ q[1] = b /\ \A i \in 1..n : i + 1 \in 0..n + 1 /\ q[i + 1] = p[i]
  BY <1>0
<1>5. \A i \in 2..n + 1 : i - 1 \in 1..n /\ i \in 0..n + 1 /\ q[i] = p[i - 1]
  BY <1>0
<1>6. \A i \in 1..n + 1 : i = 1 \/ (i \in 2..n + 1 /\ i - 1 \in 1..n)
  BY <1>0
<1>7. \A i \in 0..n + 1 : i = 0 \/ i \in 1..n + 1
  BY <1>0
<1>8. q \in [0..n + 1 -> Buttons \cup {Head}]
  <2>1. ASSUME NEW i \in 0..n + 1
        PROVE  (IF i = 0 THEN Head ELSE IF i = 1 THEN b ELSE p[i - 1]) \in Buttons \cup {Head}
    <3>1. i = 0 \/ i = 1 \/ i - 1 \in 1..n
      BY <1>6, <1>7
    <3> QED BY <1>0, <3>1
  <2> QED BY <2>1
<1>9. \A i \in 1..n + 1 : q[i] \in Buttons /\ m[q[i - 1]] = q[i]
  <2> SUFFICES ASSUME NEW i \in 1..n + 1 PROVE q[i] \in Buttons /\ m[q[i - 1]] = q[i]
    OBVIOUS
  <2>1. CASE i = 1
    <3>1. q[i] = b /\ q[i - 1] = Head
      BY <1>4, <2>1
    <3> QED BY <1>2, <3>1
  <2>2. CASE i = 2 /\ 1 \in 1..n
    <3>1. q[i] = p[1] /\ q[i - 1] = b
      BY <1>4, <1>5, <2>2
    <3>2. l[Head] = p[1] /\ p[1] \in Buttons
      <4>1. 1 - 1 = 0
        OBVIOUS
      <4> QED BY <1>0, <2>2, <4>1
    <3> QED BY <1>2, <3>1, <3>2
  <2>3. CASE i - 1 \in 2..n
    <3>1. i \in 2..n + 1 /\ i - 1 \in 2..n + 1 /\ i - 1 \in 1..n /\ (i - 1) - 1 \in 1..n
      BY <1>0, <2>3
    <3>2. q[i] = p[i - 1] /\ q[i - 1] = p[(i - 1) - 1]
      BY <1>5, <3>1
    <3>3. p[(i - 1) - 1] \in Buttons /\ p[(i - 1) - 1] # b
          /\ l[p[(i - 1) - 1]] = p[i - 1] /\ p[i - 1] \in Buttons
      BY <1>0, <1>3, <3>1
    <3> QED BY <1>2, <3>2, <3>3
  <2>4. i = 1 \/ (i = 2 /\ 1 \in 1..n) \/ i - 1 \in 2..n
    BY <1>0
  <2> QED BY <2>1, <2>2, <2>3, <2>4
<1>10. m[q[n + 1]] = NULL
  <2>1. CASE n = 0
    <3>1. q[n + 1] = b
      BY <1>4, <2>1
    <3> QED BY <1>0, <1>2, <2>1, <3>1
  <2>2. CASE n # 0
    <3>1. n \in 1..n
      BY <1>0, <2>2
    <3>2. q[n + 1] = p[n] /\ p[n] \in Buttons /\ p[n] # b
      BY <1>0, <1>3, <1>4, <3>1
    <3> QED BY <1>0, <1>2, <3>2
  <2> QED BY <2>1, <2>2
<1>11. ASSUME NEW i \in 0..n + 1, NEW j \in 0..n + 1, q[i] = q[j] PROVE i = j
  <2>1. \A k \in 0..n + 1 : k = 0 \/ k = 1 \/ (k \in 2..n + 1 /\ k - 1 \in 1..n /\ k - 1 \in 0..n)
    BY <1>0
  <2>2. \A k \in 2..n + 1 : q[k] # Head /\ q[k] # b
    BY <1>0, <1>1, <1>3, <1>5
  <2>3. CASE i \in {0, 1} \/ j \in {0, 1}
    BY <1>1, <1>4, <1>11, <2>1, <2>2, <2>3
  <2>4. CASE i \in 2..n + 1 /\ j \in 2..n + 1
    <3>1. p[i - 1] = p[j - 1]
      BY <1>5, <1>11, <2>4
    <3>2. i - 1 = j - 1
      BY <1>0, <2>1, <2>4, <3>1
    <3> QED BY <2>4, <3>2
  <2> QED BY <2>1, <2>3, <2>4
<1>12. On(n + 1, q) = On(n, p) \cup {b}
  <2>1. ASSUME NEW i \in 1..n + 1 PROVE q[i] = b \/ \E j \in 1..n : q[i] = p[j]
    BY <1>4, <1>5, <1>6
  <2>2. ASSUME NEW j \in 1..n PROVE \E i \in 1..n + 1 : q[i] = p[j]
    <3>1. j + 1 \in 1..n + 1
      BY <1>0
    <3> QED BY <1>4, <3>1
  <2>3. \E i \in 1..n + 1 : q[i] = b
    <3>1. 1 \in 1..n + 1
      BY <1>0
    <3> QED BY <1>4, <3>1
  <2>4. ASSUME NEW y \in On(n + 1, q) PROVE y \in On(n, p) \cup {b}
    <3>1. PICK i \in 1..n + 1 : y = q[i]
      BY DEF On
    <3> QED BY <2>1, <3>1 DEF On
  <2>5. \A y \in On(n, p) \cup {b} : y \in On(n + 1, q)
    <3>1. b \in On(n + 1, q)
      BY <2>3, Zenon DEF On
    <3>2. \A j \in 1..n : p[j] \in On(n + 1, q)
      BY <2>2, Zenon DEF On
    <3>3. \A y \in On(n, p) : y \in On(n + 1, q)
      BY <3>2, Zenon DEF On
    <3> QED BY <3>1, <3>3, Zenon
  <2> QED BY <2>4, <2>5
<1>13. n + 1 \in Nat
  BY <1>0
<1> QED BY <1>4, <1>8, <1>9, <1>10, <1>11, <1>12, <1>13 DEF Way

\* The one before a button on a way.
LEMMA OneBefore ==
    ASSUME NEW l, NEW n, NEW p, Way(l, n, p), NEW k \in 1..n
    PROVE  (CHOOSE x \in On(n, p) \cup {Head} : l[x] = p[k]) = p[k - 1]
<1>0. /\ n \in Nat /\ p[0] = Head /\ l[p[n]] = NULL
      /\ \A i \in 1..n : p[i] \in Buttons /\ l[p[i - 1]] = p[i]
      /\ \A i, j \in 0..n : p[i] = p[j] => i = j
  BY DEF Way
<1>1. p[k - 1] \in On(n, p) \cup {Head} /\ l[p[k - 1]] = p[k]
  <2>1. k - 1 = 0 \/ k - 1 \in 1..n
    BY <1>0
  <2> QED BY <1>0, <2>1 DEF On
<1>2. ASSUME NEW x \in On(n, p) \cup {Head}, l[x] = p[k] PROVE x = p[k - 1]
  <2>1. PICK j \in 0..n : x = p[j]
    <3>1. 0 \in 0..n /\ \A i \in 1..n : i \in 0..n
      BY <1>0
    <3> QED BY <1>0, <3>1 DEF On
  <2>2. j # n
    BY <1>0, <1>2, <2>1, ButtonAssumption
  <2>3. j + 1 \in 1..n /\ (j + 1) - 1 = j /\ j + 1 \in 0..n /\ k \in 0..n
    BY <1>0, <2>2
  <2>4. p[j + 1] = p[k]
    BY <1>0, <1>2, <2>1, <2>3
  <2>5. j + 1 = k
    BY <1>0, <2>3, <2>4
  <2> QED BY <2>1, <2>3, <2>5
<1> QED BY <1>1, <1>2

\* A button taken out of a way.
LEMMA StoppedWay ==
    ASSUME NEW l \in NextType, NEW n, NEW p, Way(l, n, p), NEW b \in On(n, p),
           NEW m, m = Stopped(l, On(n, p), b)
    PROVE  /\ m \in NextType
           /\ \E i, q : Way(m, i, q) /\ On(i, q) = On(n, p) \ {b}
           /\ \E c \in Buttons \cup {Head} :
                  /\ c # b /\ l[c] = b /\ m[c] = l[b]
                  /\ \A x \in Buttons : x # c => m[x] = l[x]
<1>a. PICK k \in 1..n : b = p[k]
  BY DEF On
<1> DEFINE q == [i \in 0..n - 1 |-> IF i < k THEN p[i] ELSE p[i + 1]]
<1>0. /\ n \in Nat /\ k \in Nat /\ k >= 1 /\ k <= n /\ p[0] = Head /\ l[p[n]] = NULL
      /\ \A i \in 0..n : p[i] \in Buttons \cup {Head}
      /\ \A i \in 1..n : p[i] \in Buttons /\ l[p[i - 1]] = p[i]
      /\ \A i, j \in 0..n : p[i] = p[j] => i = j
  BY DEF Way
<1>1. k - 1 \in 0..n /\ p[k - 1] \in Buttons \cup {Head}
  BY <1>0
<1>b. m = [l EXCEPT ![p[k - 1]] = l[p[k]]]
  <2>1. (CHOOSE x \in On(n, p) \cup {Head} : l[x] = b) = p[k - 1]
    BY <1>a, OneBefore
  <2> QED BY <1>a, <2>1 DEF Stopped
<1>2. m[p[k - 1]] = l[p[k]] /\ \A i \in 0..n : i # k - 1 => m[p[i]] = l[p[i]]
  BY <1>0, <1>1, <1>b DEF NextType
<1>3. \A i \in 0..n - 1 : (i < k => q[i] = p[i]) /\ (~(i < k) => q[i] = p[i + 1])
  BY <1>0
<1>4. q \in [0..n - 1 -> Buttons \cup {Head}]
  <2>1. ASSUME NEW i \in 0..n - 1
        PROVE  (IF i < k THEN p[i] ELSE p[i + 1]) \in Buttons \cup {Head}
    <3>1. i \in 0..n /\ i + 1 \in 0..n
      BY <1>0
    <3> QED BY <1>0, <3>1
  <2> QED BY <2>1
<1> HIDE DEF q
<1>5. q[0] = Head
  <2>1. 0 \in 0..n - 1 /\ 0 < k
    BY <1>0
  <2> QED BY <1>0, <1>3, <2>1
<1>6. \A i \in 1..n - 1 : q[i] \in Buttons /\ m[q[i - 1]] = q[i]
  <2> SUFFICES ASSUME NEW i \in 1..n - 1 PROVE q[i] \in Buttons /\ m[q[i - 1]] = q[i]
    OBVIOUS
  <2>0. i - 1 \in 0..n - 1 /\ i \in 0..n - 1 /\ i \in 1..n /\ i + 1 \in 1..n /\ (i + 1) - 1 = i
        /\ i - 1 \in 0..n /\ i \in 0..n /\ (i - 1) + 1 = i
    BY <1>0
  <2>1. CASE i < k
    <3>1. i - 1 < k /\ i - 1 # k - 1
      BY <1>0, <2>0, <2>1
    <3>2. q[i] = p[i] /\ q[i - 1] = p[i - 1]
      BY <1>3, <2>0, <2>1, <3>1
    <3>3. m[p[i - 1]] = l[p[i - 1]]
      BY <1>2, <2>0, <3>1
    <3> QED BY <1>0, <2>0, <3>2, <3>3
  <2>2. CASE i = k
    <3>1. i - 1 < k /\ ~(i < k)
      BY <1>0, <2>0, <2>2
    <3>2. q[i] = p[i + 1] /\ q[i - 1] = p[k - 1]
      BY <1>3, <2>0, <2>2, <3>1
    <3>3. l[p[k]] = p[i + 1] /\ p[i + 1] \in Buttons
      BY <1>0, <2>0, <2>2
    <3> QED BY <1>2, <3>2, <3>3
  <2>3. CASE i > k
    <3>1. ~(i - 1 < k) /\ ~(i < k) /\ i # k - 1
      BY <1>0, <2>0, <2>3
    <3>2. q[i] = p[i + 1] /\ q[i - 1] = p[i]
      BY <1>3, <2>0, <3>1
    <3>3. l[p[i]] = p[i + 1] /\ p[i + 1] \in Buttons
      BY <1>0, <2>0
    <3>4. m[p[i]] = l[p[i]]
      BY <1>2, <2>0, <3>1
    <3> QED BY <3>2, <3>3, <3>4
  <2> QED BY <1>0, <2>0, <2>1, <2>2, <2>3
<1>7. m[q[n - 1]] = NULL
  <2>0. n - 1 \in 0..n - 1 /\ (n - 1) + 1 = n /\ n \in 0..n
    BY <1>0
  <2>1. CASE k = n
    <3>1. q[n - 1] = p[k - 1]
      BY <1>0, <1>3, <2>0, <2>1
    <3> QED BY <1>0, <1>2, <2>1, <3>1
  <2>2. CASE k < n
    <3>1. ~(n - 1 < k) /\ n # k - 1
      BY <1>0, <2>2
    <3>2. q[n - 1] = p[n]
      BY <1>3, <2>0, <3>1
    <3> QED BY <1>0, <1>2, <2>0, <3>1, <3>2
  <2> QED BY <1>0, <2>1, <2>2
<1>8. \A i \in 0..n - 1 : \E j \in 0..n : q[i] = p[j] /\ j # k /\ (j = i \/ j = i + 1)
                                   /\ (j = i => i < k) /\ (j = i + 1 => i >= k)
  <2> SUFFICES ASSUME NEW i \in 0..n - 1
               PROVE  \E j \in 0..n : q[i] = p[j] /\ j # k /\ (j = i \/ j = i + 1)
                                   /\ (j = i => i < k) /\ (j = i + 1 => i >= k)
    OBVIOUS
  <2>1. CASE i < k
    <3>1. i \in 0..n /\ i # k /\ i # i + 1 /\ q[i] = p[i]
      BY <1>0, <1>3, <2>1
    <3> QED BY <2>1, <3>1
  <2>2. CASE ~(i < k)
    <3>1. i + 1 \in 0..n /\ i + 1 # k /\ i # i + 1 /\ i >= k /\ q[i] = p[i + 1]
      BY <1>0, <1>3, <2>2
    <3> QED BY <3>1
  <2> QED BY <2>1, <2>2
<1>9. ASSUME NEW i \in 0..n - 1, NEW j \in 0..n - 1, q[i] = q[j] PROVE i = j
  <2>1. PICK a \in 0..n : q[i] = p[a] /\ (a = i \/ a = i + 1)
                          /\ (a = i => i < k) /\ (a = i + 1 => i >= k)
    BY <1>8
  <2>2. PICK c \in 0..n : q[j] = p[c] /\ (c = j \/ c = j + 1)
                          /\ (c = j => j < k) /\ (c = j + 1 => j >= k)
    BY <1>8
  <2>3. a = c
    BY <1>0, <1>9, <2>1, <2>2
  <2>4. \A x, y, z \in Int : (z = x => x < k) /\ (z = x + 1 => x >= k) /\ (z = y => y < k)
            /\ (z = y + 1 => y >= k) /\ (z = x \/ z = x + 1) /\ (z = y \/ z = y + 1) => x = y
    BY <1>0
  <2>5. i \in Int /\ j \in Int /\ a \in Int
    OBVIOUS
  <2> QED BY <2>1, <2>2, <2>3, <2>4, <2>5, Zenon
<1>10. On(n - 1, q) = On(n, p) \ {p[k]}
  <2>1. \A i \in 1..n - 1 : q[i] # p[k] /\ \E j \in 1..n : q[i] = p[j]
    <3> SUFFICES ASSUME NEW i \in 1..n - 1 PROVE q[i] # p[k] /\ \E j \in 1..n : q[i] = p[j]
      OBVIOUS
    <3>1. i \in 0..n - 1
      BY <1>0
    <3>2. PICK j \in 0..n : q[i] = p[j] /\ j # k /\ (j = i \/ j = i + 1)
      BY <1>8, <3>1
    <3>3. j \in 1..n /\ k \in 0..n
      BY <1>0, <3>1, <3>2
    <3> QED BY <1>0, <3>2, <3>3
  <2>2. \A j \in 1..n : p[j] # p[k] => \E i \in 1..n - 1 : q[i] = p[j]
    <3> SUFFICES ASSUME NEW j \in 1..n, p[j] # p[k] PROVE \E i \in 1..n - 1 : q[i] = p[j]
      OBVIOUS
    <3>1. j < k \/ j > k
      BY <1>0
    <3>2. CASE j < k
      <4>1. j \in 1..n - 1 /\ j \in 0..n - 1
        BY <1>0, <3>2
      <4> QED BY <1>3, <3>2, <4>1
    <3>3. CASE j > k
      <4>1. j - 1 \in 1..n - 1 /\ j - 1 \in 0..n - 1 /\ (j - 1) + 1 = j /\ ~(j - 1 < k)
        BY <1>0, <3>3
      <4>2. q[j - 1] = p[j]
        BY <1>3, <4>1
      <4> QED BY <4>1, <4>2
    <3> QED BY <3>1, <3>2, <3>3
  <2>3. \A y \in On(n - 1, q) : y \in On(n, p) \ {p[k]}
    BY <2>1, Zenon DEF On
  <2>4. \A y \in On(n, p) \ {p[k]} : y \in On(n - 1, q)
    <3>1. \A j \in 1..n : p[j] # p[k] => p[j] \in On(n - 1, q)
      BY <2>2, Zenon DEF On
    <3> QED BY <3>1, Zenon DEF On
  <2> QED BY <2>3, <2>4
<1>11. n - 1 \in Nat
  BY <1>0
<1>12. Way(m, n - 1, q)
  BY <1>4, <1>5, <1>6, <1>7, <1>9, <1>11 DEF Way
<1>13. /\ p[k - 1] # b /\ l[p[k - 1]] = b /\ m[p[k - 1]] = l[b]
       /\ \A x \in Buttons : x # p[k - 1] => m[x] = l[x]
  <2>1. k - 1 # k /\ k \in 0..n
    BY <1>0
  <2> QED BY <1>0, <1>1, <1>2, <1>a, <1>b, <2>1 DEF NextType
<1>14. m \in NextType
  <2>1. l[p[k]] \in Buttons \cup {NULL}
    BY <1>0 DEF NextType
  <2> QED BY <1>1, <1>b, <2>1 DEF NextType
<1>15. \E i, r : Way(m, i, r) /\ On(i, r) = On(n, p) \ {b}
  BY <1>10, <1>12, <1>a, Zenon
<1> QED BY <1>1, <1>13, <1>14, <1>15

-----------------------------------------------------------------------------
LEMMA StartedIs ==
    ASSUME NEW l \in NextType, Ends(l), NEW b \in Buttons, b \notin Listed(l),
           NEW m, m = Started(l, Listed(l), b)
    PROVE  /\ m \in NextType /\ Ends(m) /\ Listed(m) = Listed(l) \cup {b}
           /\ m[b] = l[Head] /\ \A x \in Buttons : x # b => m[x] = l[x]
<1>0. PICK n, p : Way(l, n, p)
  BY DEF Ends
<1>1. Listed(l) = On(n, p)
  BY <1>0, ListedIs
<1>2. m = [l EXCEPT ![b] = l[Head], ![Head] = b]
  BY DEF Started
<1> DEFINE q == [i \in 0..n + 1 |-> IF i = 0 THEN Head ELSE IF i = 1 THEN b ELSE p[i - 1]]
<1>3. Way(m, n + 1, q) /\ On(n + 1, q) = On(n, p) \cup {b}
  BY <1>0, <1>1, <1>2, StartedWay
<1> HIDE DEF q
<1>4. Ends(m)
  BY <1>3, Zenon DEF Ends
<1>5. Listed(m) = On(n + 1, q)
  BY <1>3, ListedIs
<1>6. m \in NextType /\ m[b] = l[Head] /\ \A x \in Buttons : x # b => m[x] = l[x]
  BY <1>2, ButtonAssumption DEF NextType
<1> QED BY <1>1, <1>3, <1>4, <1>5, <1>6

LEMMA StoppedIs ==
    ASSUME NEW l \in NextType, Ends(l), NEW b \in Listed(l),
           NEW m, m = Stopped(l, Listed(l), b)
    PROVE  /\ m \in NextType /\ Ends(m) /\ Listed(m) = Listed(l) \ {b}
           /\ \E c \in Buttons \cup {Head} :
                  /\ c # b /\ l[c] = b /\ m[c] = l[b]
                  /\ \A x \in Buttons : x # c => m[x] = l[x]
<1>0. PICK n, p : Way(l, n, p)
  BY DEF Ends
<1>1. Listed(l) = On(n, p)
  BY <1>0, ListedIs
<1>2. /\ m \in NextType
      /\ \E c \in Buttons \cup {Head} :
             /\ c # b /\ l[c] = b /\ m[c] = l[b]
             /\ \A x \in Buttons : x # c => m[x] = l[x]
  BY <1>0, <1>1, StoppedWay
<1>3. PICK i, q : Way(m, i, q) /\ On(i, q) = On(n, p) \ {b}
  BY <1>0, <1>1, StoppedWay
<1>4. Ends(m)
  BY <1>3, Zenon DEF Ends
<1>5. Listed(m) = On(i, q)
  BY <1>3, ListedIs
<1> QED BY <1>1, <1>2, <1>3, <1>4, <1>5

-----------------------------------------------------------------------------
Closed(met, l) == met \subseteq Buttons /\ \A y \in met : l[y] \in met \cup {NULL}

LEMMA AheadIsClosed ==
    ASSUME NEW l \in NextType, NEW b \in Buttons
    PROVE  Closed(Ahead(b, l), l) /\ b \in Ahead(b, l)
BY DEF Ahead, Closed, NextType

\* Ahead is within every closed set with b in it.
LEMMA AheadWithin ==
    ASSUME NEW l, NEW b, NEW met, Closed(met, l), b \in met
    PROVE  Ahead(b, l) \subseteq met
BY DEF Ahead, Closed

LEMMA AheadFrom ==
    ASSUME NEW l, NEW b, NEW x \in Buttons,
           \A met : Closed(met, l) /\ b \in met => x \in met
    PROVE  x \in Ahead(b, l)
BY DEF Ahead, Closed

LEMMA AheadOfNext ==
    ASSUME NEW l \in NextType, NEW b \in Buttons, NEW y \in Ahead(b, l), l[y] # NULL
    PROVE  /\ y \in Buttons /\ l[y] \in Buttons /\ l[y] \in Ahead(b, l)
           /\ Ahead(l[y], l) \subseteq Ahead(b, l)
<1>1. Closed(Ahead(b, l), l)
  BY AheadIsClosed
<1>2. y \in Buttons /\ l[y] \in Ahead(b, l) /\ l[y] \in Buttons
  BY <1>1 DEF Closed
<1> QED BY <1>1, <1>2, AheadWithin

\* A closed set that meets the list in its first button has it all.
LEMMA WholeList ==
    ASSUME NEW l, Ends(l), NEW met, Closed(met, l), l[Head] \in met \cup {NULL}
    PROVE  Listed(l) \subseteq met
<1>0. PICK n, p : Way(l, n, p)
  BY DEF Ends
<1>1. /\ n \in Nat /\ p[0] = Head /\ NULL \notin Buttons
      /\ \A i \in 1..n : p[i] \in Buttons /\ l[p[i - 1]] = p[i]
  BY <1>0, ButtonAssumption DEF Way
<1> DEFINE T == {i \in Nat : i >= 1 => p[i] \in met}
<1>2. 0 \in T
  OBVIOUS
<1>3. \A i \in Nat : i < n /\ i \in T => i + 1 \in T
  <2> SUFFICES ASSUME NEW i \in Nat, i < n, i \in T PROVE p[i + 1] \in met
    OBVIOUS
  <2>1. i + 1 \in 1..n /\ (i + 1) - 1 = i
    BY <1>1
  <2>2. p[i + 1] \in Buttons /\ l[p[i]] = p[i + 1] /\ p[i + 1] # NULL
    BY <1>1, <2>1
  <2>3. CASE i = 0
    BY <1>1, <2>2, <2>3
  <2>4. CASE i >= 1
    <3>1. p[i] \in met
      BY <2>4
    <3> QED BY <2>2, <3>1 DEF Closed
  <2> QED BY <2>3, <2>4
<1>4. \A i \in 0..n : i \in T
  <2> HIDE DEF T
  <2> QED BY <1>1, <1>2, <1>3, InductionUpTo
<1>5. \A i \in 1..n : p[i] \in met
  BY <1>1, <1>4
<1> QED BY <1>0, <1>5, ListedIs DEF On

\* The walk that begins at the first button has the list ahead of it, and no
\* button twice.
LEMMA FromTheFirst ==
    ASSUME NEW l \in NextType, Ends(l), l[Head] # NULL
    PROVE  /\ Listed(l) \subseteq Ahead(l[Head], l)
           /\ \A x \in Ahead(l[Head], l) : l[x] # NULL => x \notin Ahead(l[x], l)
<1>0. l[Head] \in Buttons
  BY DEF NextType
<1>1. Listed(l) \subseteq Ahead(l[Head], l)
  BY <1>0, AheadIsClosed, WholeList
<1>2. PICK n, p : Way(l, n, p)
  BY DEF Ends
<1>3. /\ n \in Nat /\ p[0] = Head /\ NULL \notin Buttons /\ l[p[n]] = NULL
      /\ \A i \in 1..n : p[i] \in Buttons /\ l[p[i - 1]] = p[i]
      /\ \A i, j \in 0..n : p[i] = p[j] => i = j
  BY <1>2, ButtonAssumption DEF Way
<1>4. ASSUME NEW k \in 1..n PROVE Closed({p[j] : j \in k..n}, l)
  <2> DEFINE met == {p[j] : j \in k..n}
  <2>1. \A j \in k..n : j \in 1..n /\ (j = n \/ (j + 1 \in k..n /\ j + 1 \in 1..n /\ (j + 1) - 1 = j))
    BY <1>3
  <2>2. \A j \in k..n : p[j] \in Buttons /\ (l[p[j]] = NULL \/ \E i \in k..n : l[p[j]] = p[i])
    BY <1>3, <2>1
  <2> QED BY <2>2 DEF Closed
<1>5. ASSUME NEW x \in Ahead(l[Head], l), l[x] # NULL PROVE x \notin Ahead(l[x], l)
  <2>0. n >= 1
    <3>1. n # 0
      BY <1>3
    <3> QED BY <1>3, <3>1
  <2>1. 1 \in 1..n /\ p[1] = l[Head]
    <3>1. 1 \in 1..n /\ 1 - 1 = 0
      BY <1>3, <2>0
    <3> QED BY <1>3, <3>1
  <2>2. Ahead(l[Head], l) \subseteq {p[j] : j \in 1..n}
    <3>1. p[1] \in {p[j] : j \in 1..n}
      BY <2>1
    <3>2. Closed({p[j] : j \in 1..n}, l) /\ l[Head] \in {p[j] : j \in 1..n}
      BY <1>4, <2>1, <3>1, Zenon
    <3> QED BY <3>2, AheadWithin, Zenon
  <2>3. PICK i \in 1..n : x = p[i]
    BY <2>2
  <2>4. i # n
    BY <1>3, <1>5, <2>3
  <2>5. i + 1 \in 1..n /\ (i + 1) - 1 = i /\ i + 1 \in i + 1..n /\ i \in 0..n
    BY <1>3, <2>4
  <2>6. l[x] = p[i + 1]
    BY <1>3, <2>3, <2>5
  <2>7. Ahead(l[x], l) \subseteq {p[j] : j \in i + 1..n}
    <3> DEFINE met == {p[j] : j \in i + 1..n}
    <3>1. p[i + 1] \in met
      BY <2>5
    <3>2. Closed(met, l)
      BY <1>4, <2>5
    <3> HIDE DEF met
    <3>3. Ahead(l[x], l) \subseteq met
      BY <2>6, <3>1, <3>2, AheadWithin
    <3> QED BY <3>3 DEF met
  <2>8. \A j \in i + 1..n : j \in 0..n /\ j # i
    BY <1>3
  <2>9. \A j \in i + 1..n : p[j] # p[i]
    BY <1>3, <2>5, <2>8
  <2> QED BY <2>3, <2>7, <2>9
<1> QED BY <1>1, <1>5

-----------------------------------------------------------------------------
\* What is true of the walk with the turn at b, along the list l: the buttons s,
\* there all along, that had no turn yet, t being the turns, are ahead; and unless
\* one came back in its way, r, it has met none that are ahead, and it will meet
\* none of them again.
Unmissed(l, b, s, t) == s \subseteq Listed(l) /\ \A x \in s : t[x] = 0 => x \in Ahead(b, l)

Straight(l, b, t) ==
    \A x \in Ahead(b, l) : t[x] = 0 /\ (l[x] # NULL => x \notin Ahead(l[x], l))

Walked(l, b, s, t, r) == Ends(l) /\ Unmissed(l, b, s, t) /\ (r \/ Straight(l, b, t))

LEMMA StartKeeps ==
    ASSUME NEW l \in NextType, NEW b \in Buttons, NEW s, NEW t, NEW r \in BOOLEAN,
           Walked(l, b, s, t, r), NEW c \in Buttons, c \notin Listed(l),
           NEW m, m = Started(l, Listed(l), c)
    PROVE  Walked(m, b, s \cap Listed(m), t, r \/ Rejoins(b, l, m))
<1>1. /\ m \in NextType /\ Ends(m) /\ Listed(m) = Listed(l) \cup {c}
      /\ m[c] = l[Head] /\ \A x \in Buttons : x # c => m[x] = l[x]
  BY StartedIs DEF Walked
<1>2. ASSUME NEW x \in s \cap Listed(m), t[x] = 0 PROVE x \in Ahead(b, m)
  <2>1. x \in Listed(l) /\ x \in Ahead(b, l) /\ x \in Buttons
    BY <1>2 DEF Walked, Unmissed, Listed
  <2>2. ASSUME NEW met, Closed(met, m), b \in met PROVE x \in met
    <3>1. CASE c \notin met
      <4>1. Closed(met, l)
        BY <1>1, <2>2, <3>1 DEF Closed
      <4> QED BY <2>1, <2>2, <4>1, AheadWithin
    <3>2. CASE c \in met
      <4>1. Listed(m) \subseteq met
        <5>1. m[Head] = c
          BY ButtonAssumption DEF Started, NextType
        <5> QED BY <1>1, <2>2, <3>2, <5>1, WholeList
      <4> QED BY <1>2, <4>1
    <3> QED BY <3>1, <3>2
  <2> QED BY <2>1, <2>2, AheadFrom
<1>3. Unmissed(m, b, s \cap Listed(m), t)
  BY <1>2 DEF Unmissed
<1>4. ASSUME ~r, ~Rejoins(b, l, m) PROVE Straight(m, b, t)
  <2>1. Straight(l, b, t)
    BY <1>4 DEF Walked
  <2>2. c \notin Ahead(b, l)
    BY <1>1, <1>4 DEF Rejoins
  <2>3. Closed(Ahead(b, l), l) /\ b \in Ahead(b, l)
    BY AheadIsClosed
  <2>4. Ahead(b, m) \subseteq Ahead(b, l)
    <3>1. Closed(Ahead(b, l), m)
      BY <1>1, <2>2, <2>3 DEF Closed
    <3> QED BY <2>3, <3>1, AheadWithin
  <2>5. ASSUME NEW x \in Ahead(b, m) PROVE t[x] = 0 /\ (m[x] # NULL => x \notin Ahead(m[x], m))
    <3>1. x \in Ahead(b, l) /\ x \in Buttons /\ x # c /\ m[x] = l[x]
      BY <1>1, <2>2, <2>3, <2>4 DEF Closed
    <3>2. t[x] = 0 /\ (l[x] # NULL => x \notin Ahead(l[x], l))
      BY <2>1, <3>1 DEF Straight
    <3>3. ASSUME l[x] # NULL PROVE Ahead(l[x], m) \subseteq Ahead(l[x], l)
      <4>1. l[x] \in Buttons /\ Ahead(l[x], l) \subseteq Ahead(b, l)
        BY <3>1, <3>3, AheadOfNext
      <4>2. Closed(Ahead(l[x], l), l) /\ l[x] \in Ahead(l[x], l)
        BY <4>1, AheadIsClosed
      <4>3. Closed(Ahead(l[x], l), m)
        BY <1>1, <2>2, <4>1, <4>2 DEF Closed
      <4> QED BY <4>2, <4>3, AheadWithin
    <3> QED BY <3>1, <3>2, <3>3
  <2> QED BY <2>5 DEF Straight
<1> QED BY <1>1, <1>3, <1>4 DEF Walked

LEMMA StopKeeps ==
    ASSUME NEW l \in NextType, NEW b \in Buttons, NEW s, NEW t, NEW r \in BOOLEAN,
           Walked(l, b, s, t, r), NEW c \in Listed(l),
           NEW m, m = Stopped(l, Listed(l), c)
    PROVE  Walked(m, b, s \cap Listed(m), t, r \/ Rejoins(b, l, m))
<1>1. /\ m \in NextType /\ Ends(m) /\ Listed(m) = Listed(l) \ {c}
      /\ \E d \in Buttons \cup {Head} :
             /\ d # c /\ l[d] = c /\ m[d] = l[c]
             /\ \A x \in Buttons : x # d => m[x] = l[x]
  BY StoppedIs DEF Walked
<1>2. PICK d \in Buttons \cup {Head} : /\ d # c /\ l[d] = c /\ m[d] = l[c]
                                      /\ \A x \in Buttons : x # d => m[x] = l[x]
  BY <1>1
<1>3. c \in Buttons
  BY DEF Listed
<1>4. ASSUME NEW x \in s \cap Listed(m), t[x] = 0 PROVE x \in Ahead(b, m)
  <2>1. x \in Ahead(b, l) /\ x \in Buttons /\ x # c
    BY <1>1, <1>4 DEF Walked, Unmissed, Listed
  <2>2. ASSUME NEW met, Closed(met, m), b \in met PROVE x \in met
    <3>1. CASE d \notin met
      <4>1. Closed(met, l)
        BY <1>2, <2>2, <3>1 DEF Closed
      <4> QED BY <2>1, <2>2, <4>1, AheadWithin
    <3>2. CASE d \in met
      <4>1. Closed(met \cup {c}, l)
        <5>1. ASSUME NEW y \in met \cup {c} PROVE l[y] \in met \cup {c} \cup {NULL}
          <6>1. CASE y = d
            BY <1>2, <6>1
          <6>2. CASE y = c
            BY <1>2, <2>2, <3>2, <6>2 DEF Closed
          <6>3. CASE y # d /\ y # c
            BY <1>2, <2>2, <6>3 DEF Closed
          <6> QED BY <6>1, <6>2, <6>3
        <5> QED BY <1>3, <2>2, <5>1 DEF Closed
      <4>2. x \in met \cup {c}
        BY <2>1, <2>2, <4>1, AheadWithin
      <4> QED BY <2>1, <4>2
    <3> QED BY <3>1, <3>2
  <2> QED BY <2>1, <2>2, AheadFrom
<1>5. Unmissed(m, b, s \cap Listed(m), t)
  BY <1>4 DEF Unmissed
<1>6. ASSUME NEW y \in Buttons PROVE Ahead(y, m) \subseteq Ahead(y, l)
  <2>1. Closed(Ahead(y, l), l) /\ y \in Ahead(y, l)
    BY AheadIsClosed
  <2>2. ASSUME NEW x \in Ahead(y, l) PROVE m[x] \in Ahead(y, l) \cup {NULL}
    <3>1. x \in Buttons /\ l[x] \in Ahead(y, l) \cup {NULL}
      BY <2>1 DEF Closed
    <3>2. CASE x = d
      <4>1. c \in Ahead(y, l)
        BY <1>2, <1>3, <3>1, <3>2, ButtonAssumption
      <4> QED BY <1>2, <2>1, <3>2, <4>1 DEF Closed
    <3>3. CASE x # d
      BY <1>2, <3>1, <3>3
    <3> QED BY <3>2, <3>3
  <2>3. Closed(Ahead(y, l), m)
    BY <2>1, <2>2 DEF Closed
  <2> QED BY <2>1, <2>3, AheadWithin
<1>7. ASSUME Straight(l, b, t) PROVE Straight(m, b, t)
  <2>1. ASSUME NEW x \in Ahead(b, m) PROVE t[x] = 0 /\ (m[x] # NULL => x \notin Ahead(m[x], m))
    <3>1. x \in Ahead(b, l)
      BY <1>6
    <3>2. x \in Buttons
      BY <3>1, AheadIsClosed DEF Closed
    <3>3. t[x] = 0 /\ (l[x] # NULL => x \notin Ahead(l[x], l))
      BY <1>7, <3>1 DEF Straight
    <3>4. CASE x # d
      <4>1. m[x] = l[x]
        BY <1>2, <3>2, <3>4
      <4>2. l[x] # NULL => l[x] \in Buttons
        BY <3>1, AheadOfNext
      <4> QED BY <1>6, <3>3, <4>1, <4>2
    <3>5. CASE x = d
      <4>1. l[x] # NULL /\ l[x] = c /\ m[x] = l[c]
        BY <1>2, <1>3, <3>5, ButtonAssumption
      <4>2. x \notin Ahead(c, l)
        BY <3>3, <4>1
      <4>3. ASSUME l[c] # NULL PROVE l[c] \in Buttons /\ Ahead(l[c], l) \subseteq Ahead(c, l)
        BY <1>3, <4>3, AheadIsClosed, AheadOfNext
      <4> QED BY <1>6, <3>3, <4>1, <4>2, <4>3
    <3> QED BY <3>4, <3>5
  <2> QED BY <2>1 DEF Straight
<1> QED BY <1>1, <1>5, <1>7 DEF Walked

\* Whatever a callback does to the list.
LEMMA EditKeeps ==
    ASSUME NEW l \in NextType, NEW b \in Buttons, NEW s, NEW t, NEW r \in BOOLEAN,
           Walked(l, b, s, t, r), NEW m \in After(l)
    PROVE  m \in NextType /\ Walked(m, b, s \cap Listed(m), t, r \/ Rejoins(b, l, m))
<1>1. CASE m = l
  <2>1. s \cap Listed(l) = s
    BY DEF Walked, Unmissed
  <2> QED BY <1>1, <2>1 DEF Walked
<1>2. ASSUME NEW c \in Buttons, m = Started(l, Listed(l), c), m # l
      PROVE  m \in NextType /\ Walked(m, b, s \cap Listed(m), t, r \/ Rejoins(b, l, m))
  <2>1. c \notin Listed(l)
    BY <1>2 DEF Started
  <2>2. m \in NextType
    BY <1>2, <2>1, StartedIs DEF Walked
  <2> QED BY <1>2, <2>1, <2>2, StartKeeps
<1>3. ASSUME NEW c \in Buttons, m = Stopped(l, Listed(l), c), m # l
      PROVE  m \in NextType /\ Walked(m, b, s \cap Listed(m), t, r \/ Rejoins(b, l, m))
  <2>1. c \in Listed(l)
    BY <1>3 DEF Stopped
  <2>2. m \in NextType
    BY <1>3, <2>1, StoppedIs DEF Walked
  <2> QED BY <1>3, <2>1, <2>2, StopKeeps
<1> QED BY <1>1, <1>2, <1>3 DEF After

-----------------------------------------------------------------------------
\* Between the steps: the list ends, and the walk, if there is one, is as it should.
ListsFine ==
    /\ Ends(next)
    /\ target # NULL => Walked(next, target, stayed, ticked, rejoined)
    /\ target = NULL => \A x \in stayed : ticked[x] > 0
    /\ rejoined \/ \A x \in Buttons : ticked[x] <= 1

\* A turn edits the list by one callback after the other, or not at all.
LEMMA TurnEdits ==
    ASSUME NEW b \in Buttons, Handler(b) \/ Untracked(b)
    PROVE  \/ UNCHANGED <<next, stayed, rejoined>>
           \/ Callback(b) \/ TwoCallbacks(b)
<1>1. ASSUME NEW h, AtRest(b, h) \/ FirstPress(b, h) \/ LetGo(b, h) \/ PressedAgain(b, h)
                        \/ LongPress(b, h)
      PROVE  UNCHANGED <<next, stayed, rejoined>> \/ Callback(b) \/ TwoCallbacks(b)
  <2>1. \A g : Report(b, g) => Callback(b)
    BY DEF Report
  <2>2. \A g : ReportRepeat(b, g) => TwoCallbacks(b)
    BY DEF ReportRepeat
  <2>3. \A g : Quiet(b, g) => UNCHANGED <<next, stayed, rejoined>>
    BY DEF Quiet
  <2>4. CASE AtRest(b, h)
    BY <2>1, <2>4 DEF AtRest
  <2>5. CASE FirstPress(b, h)
    BY <2>1, <2>3, <2>5 DEF FirstPress
  <2>6. CASE LetGo(b, h)
    BY <2>1, <2>2, <2>3, <2>6 DEF LetGo
  <2>7. CASE PressedAgain(b, h)
    BY <2>1, <2>3, <2>7 DEF PressedAgain
  <2>8. CASE LongPress(b, h)
    BY <2>1, <2>8 DEF LongPress
  <2> QED BY <1>1, <2>4, <2>5, <2>6, <2>7, <2>8
<1>2. CASE Handler(b)
  <2>1. PICK read \in Reads(b) :
            LET h == Debounced(Counted(handle[b]), read)
            IN  AtRest(b, h) \/ FirstPress(b, h) \/ LetGo(b, h) \/ PressedAgain(b, h)
                    \/ LongPress(b, h)
    BY <1>2 DEF Handler
  <2> DEFINE h == Debounced(Counted(handle[b]), read)
  <2>2. AtRest(b, h) \/ FirstPress(b, h) \/ LetGo(b, h) \/ PressedAgain(b, h) \/ LongPress(b, h)
    BY <2>1
  <2> HIDE DEF h
  <2> QED BY <1>1, <2>2
<1>3. CASE Untracked(b)
  BY <1>3 DEF Untracked
<1> QED BY <1>2, <1>3

LEMMA TurnKeepsWalk ==
    ASSUME next \in NextType, rejoined \in BOOLEAN, NEW b \in Buttons,
           Walked(next, b, stayed, ticked, rejoined), Handler(b) \/ Untracked(b)
    PROVE  /\ next' \in NextType /\ rejoined' \in BOOLEAN
           /\ Walked(next', b, stayed', ticked, rejoined')
<1>1. UNCHANGED <<next, stayed, rejoined>> \/ Callback(b) \/ TwoCallbacks(b)
  BY TurnEdits
<1>2. CASE UNCHANGED <<next, stayed, rejoined>>
  BY <1>2
<1>3. CASE Callback(b)
  <2>1. /\ next' \in After(next) /\ stayed' = stayed \cap Listed(next')
        /\ rejoined' = (rejoined \/ Rejoins(b, next, next'))
    BY <1>3 DEF Callback
  <2>2. /\ next' \in NextType
        /\ Walked(next', b, stayed \cap Listed(next'), ticked, rejoined \/ Rejoins(b, next, next'))
    BY <2>1, EditKeeps
  <2> QED BY <2>1, <2>2
<1>4. CASE TwoCallbacks(b)
  <2>1. PICK l \in After(next) :
            /\ next' \in After(l) /\ stayed' = stayed \cap Listed(l) \cap Listed(next')
            /\ rejoined' = (rejoined \/ Rejoins(b, next, l) \/ Rejoins(b, l, next'))
    BY <1>4 DEF TwoCallbacks
  <2> DEFINE s == stayed \cap Listed(l)
             r == rejoined \/ Rejoins(b, next, l)
  <2>2. l \in NextType /\ Walked(l, b, s, ticked, r) /\ r \in BOOLEAN
    BY EditKeeps
  <2>3. stayed' = s \cap Listed(next') /\ rejoined' = (r \/ Rejoins(b, l, next'))
    BY <2>1
  <2> HIDE DEF s, r
  <2>4. next' \in NextType /\ Walked(next', b, s \cap Listed(next'), ticked, r \/ Rejoins(b, l, next'))
    BY <2>1, <2>2, EditKeeps
  <2> QED BY <2>2, <2>3, <2>4
<1> QED BY <1>1, <1>2, <1>3, <1>4

\* The walk goes on to the next of the button whose turn it was, or ends.
LEMMA AdvanceKeeps ==
    ASSUME NEW l \in NextType, NEW b \in Buttons, NEW s, NEW r \in BOOLEAN,
           NEW t \in [Buttons -> 0..2], Walked(l, b, s, t, r),
           r \/ \A x \in Buttons : t[x] <= 1,
           NEW u \in [Buttons -> 0..2], u[b] > 0, t[b] = 0 => u[b] = 1, \A x \in Buttons : x # b => u[x] = t[x]
    PROVE  /\ l[b] # NULL => Walked(l, l[b], s, u, r)
           /\ l[b] = NULL => \A x \in s : u[x] > 0
           /\ r \/ \A x \in Buttons : u[x] <= 1
<1>1. u[b] > 0 /\ (t[b] = 0 => u[b] = 1) /\ \A x \in Buttons : x # b => u[x] = t[x]
  OBVIOUS
<1>2. b \in Ahead(b, l) /\ s \subseteq Buttons
  BY AheadIsClosed DEF Walked, Unmissed, Listed
<1>3. \A x \in s : x # b /\ u[x] = 0 => x \in Ahead(b, l)
  BY <1>1, <1>2 DEF Walked, Unmissed
<1>4. ASSUME l[b] # NULL PROVE Unmissed(l, l[b], s, u)
  <2>1. ASSUME NEW x \in s, u[x] = 0, NEW met, Closed(met, l), l[b] \in met PROVE x \in met
    <3>1. x # b /\ x \in Ahead(b, l)
      BY <1>1, <1>3, <2>1
    <3>2. Closed(met \cup {b}, l)
      BY <2>1 DEF Closed
    <3> QED BY <3>1, <3>2, AheadWithin
  <2>2. \A x \in s : u[x] = 0 => x \in Ahead(l[b], l)
    BY <1>2, <2>1, AheadFrom
  <2> QED BY <2>2 DEF Unmissed, Walked
<1>5. ASSUME l[b] = NULL, NEW x \in s PROVE u[x] > 0
  <2>1. x \in Buttons /\ t[x] \in 0..2 /\ u[x] \in Nat
    BY <1>1, <1>2
  <2>2. CASE x = b
    BY <1>1, <2>2
  <2>3. CASE x # b
    <3>1. x \notin Ahead(b, l)
      <4>1. Closed({b}, l)
        BY <1>5 DEF Closed
      <4> QED BY <2>3, <4>1, AheadWithin
    <3> QED BY <1>3, <2>1, <2>3, <3>1
  <2> QED BY <2>2, <2>3
<1>6. ASSUME ~r, l[b] # NULL PROVE Straight(l, l[b], u)
  <2>1. Straight(l, b, t)
    BY <1>6 DEF Walked
  <2>2. Ahead(l[b], l) \subseteq Ahead(b, l) /\ b \notin Ahead(l[b], l)
    BY <1>2, <1>6, <2>1, AheadOfNext DEF Straight
  <2>3. Ahead(b, l) \subseteq Buttons
    BY AheadIsClosed DEF Closed
  <2> QED BY <1>1, <2>1, <2>2, <2>3 DEF Straight
<1>7. ASSUME ~r, NEW x \in Buttons PROVE u[x] <= 1
  <2>1. t[b] = 0
    BY <1>2, <1>7 DEF Walked, Straight
  <2> QED BY <1>1, <1>7, <2>1
<1> QED BY <1>4, <1>5, <1>6, <1>7 DEF Walked

\* Outside a pass a button is put on the list or taken off it.
LEMMA OutsideFine ==
    ASSUME TypeOK, ListsFine, NEW b \in Buttons, Start(b) \/ Stop(b) PROVE ListsFine'
<1>1. next \in NextType /\ Ends(next) /\ target' = NULL /\ Forgotten
  BY DEF TypeOK, NextType, ListsFine, Start, Stop
<1>2. Ends(next')
  <2>1. CASE next' = next
    BY <1>1, <2>1
  <2>2. CASE next' # next /\ next' = Started(next, Listed(next), b)
    <3>1. b \notin Listed(next)
      BY <2>2 DEF Started
    <3> QED BY <1>1, <2>2, <3>1, StartedIs
  <2>3. CASE next' # next /\ next' = Stopped(next, Listed(next), b)
    <3>1. b \in Listed(next)
      BY <2>3 DEF Stopped
    <3> QED BY <1>1, <2>3, <3>1, StoppedIs
  <2> QED BY <2>1, <2>2, <2>3 DEF Start, Stop
<1> QED BY <1>1, <1>2 DEF ListsFine, Forgotten

LEMMA InitialisedFine ==
    ASSUME TypeOK, ListsFine, NEW b \in Buttons, NEW read \in BOOLEAN, ButtonInit(b, read)
    PROVE  ListsFine'
<1>1. /\ next \in NextType /\ Ends(next) /\ target' = NULL /\ Forgotten
      /\ b \notin Listed(next) /\ next' = [next EXCEPT ![b] = NULL]
  BY DEF TypeOK, NextType, ListsFine, ButtonInit
<1>2. PICK n, p : Way(next, n, p)
  BY <1>1 DEF Ends
<1>3. b \notin On(n, p) /\ b # Head
  BY <1>1, <1>2, ListedIs, ButtonAssumption
<1>4. \A i \in 0..n : p[i] # b /\ next'[p[i]] = next[p[i]]
  <2> SUFFICES ASSUME NEW i \in 0..n PROVE p[i] # b /\ next'[p[i]] = next[p[i]]
    OBVIOUS
  <2>1. p[i] # b
    <3>1. i = 0 \/ i \in 1..n
      BY <1>2 DEF Way
    <3> QED BY <1>2, <1>3, <3>1 DEF Way, On
  <2>2. p[i] \in Buttons \cup {Head}
    BY <1>2 DEF Way
  <2> QED BY <1>1, <2>1, <2>2 DEF NextType
<1>5. Way(next', n, p)
  <2>1. n \in Nat /\ n \in 0..n /\ \A i \in 1..n : i - 1 \in 0..n
    BY <1>2 DEF Way
  <2> QED BY <1>2, <1>4, <2>1 DEF Way
<1>6. Ends(next')
  BY <1>5, Zenon DEF Ends
<1> QED BY <1>1, <1>6 DEF ListsFine, Forgotten

LEMMA PassBeginsFine == ASSUME TypeOK, ListsFine, TicksBegin PROVE ListsFine'
<1>1. /\ next \in NextType /\ Ends(next) /\ next[Head] # NULL /\ next' = next
      /\ target' = next[Head] /\ ticked' = [x \in Buttons |-> 0]
      /\ stayed' = Listed(next) /\ rejoined' = FALSE
  BY DEF TypeOK, NextType, ListsFine, TicksBegin
<1>2. /\ Listed(next) \subseteq Ahead(next[Head], next)
      /\ \A x \in Ahead(next[Head], next) : next[x] # NULL => x \notin Ahead(next[x], next)
  BY <1>1, FromTheFirst
<1>3. \A x \in Ahead(next[Head], next) : x \in Buttons
  BY <1>1, AheadIsClosed DEF Closed, NextType
<1>4. Walked(next, next[Head], Listed(next), ticked', FALSE)
  BY <1>1, <1>2, <1>3 DEF Walked, Unmissed, Straight
<1>5. Walked(next', target', stayed', ticked', rejoined') /\ Ends(next') /\ target' # NULL
  BY <1>1, <1>4
<1>6. \A x \in Buttons : ticked'[x] <= 1
  BY <1>1
<1> QED BY <1>5, <1>6 DEF ListsFine

LEMMA PassGoesOnFine == ASSUME TypeOK, ListsFine, TicksStep PROVE ListsFine'
<1>1. PICK b \in Buttons :
          /\ target = b /\ (Handler(b) \/ Untracked(b)) /\ target' = next'[b]
          /\ ticked' = [ticked EXCEPT ![b] = IF @ = 2 THEN 2 ELSE @ + 1]
  BY DEF TicksStep, Advance
<1>2. /\ next \in NextType /\ rejoined \in BOOLEAN /\ ticked \in [Buttons -> 0..2]
      /\ Walked(next, b, stayed, ticked, rejoined)
      /\ rejoined \/ \A x \in Buttons : ticked[x] <= 1
  BY <1>1, ButtonAssumption DEF TypeOK, NextType, ListsFine
<1>3. /\ next' \in NextType /\ rejoined' \in BOOLEAN
      /\ Walked(next', b, stayed', ticked, rejoined')
  BY <1>1, <1>2, TurnKeepsWalk
<1>4. rejoined' \/ \A x \in Buttons : ticked[x] <= 1
  <2>1. rejoined => rejoined'
    BY <1>1, TurnEdits DEF Callback, TwoCallbacks
  <2> QED BY <1>2, <2>1
<1>5. /\ next'[b] # NULL => Walked(next', next'[b], stayed', ticked', rejoined')
      /\ next'[b] = NULL => \A x \in stayed' : ticked'[x] > 0
      /\ rejoined' \/ \A x \in Buttons : ticked'[x] <= 1
  <2>1. /\ ticked'[b] > 0 /\ (ticked[b] = 0 => ticked'[b] = 1)
        /\ \A x \in Buttons : x # b => ticked'[x] = ticked[x]
    <3>1. ticked[b] \in 0..2
      BY <1>2
    <3> QED BY <1>1, <1>2, <3>1
  <2>2. ticked' \in [Buttons -> 0..2]
    <3>1. (IF ticked[b] = 2 THEN 2 ELSE ticked[b] + 1) \in 0..2
      BY <1>2
    <3> QED BY <1>1, <1>2, <3>1
  <2>3. ticked \in [Buttons -> 0..2]
    BY <1>2
  <2>4. ASSUME NEW l \in NextType, NEW s, NEW r \in BOOLEAN,
               NEW t \in [Buttons -> 0..2], Walked(l, b, s, t, r),
               r \/ \A x \in Buttons : t[x] <= 1,
               NEW u \in [Buttons -> 0..2], u[b] > 0, t[b] = 0 => u[b] = 1,
               \A x \in Buttons : x # b => u[x] = t[x]
        PROVE  /\ l[b] # NULL => Walked(l, l[b], s, u, r)
               /\ l[b] = NULL => \A x \in s : u[x] > 0
               /\ r \/ \A x \in Buttons : u[x] <= 1
    BY <2>4, AdvanceKeeps
  <2> QED BY <1>3, <1>4, <2>1, <2>2, <2>3, <2>4
<1>6. Ends(next')
  BY <1>3 DEF Walked
<1> QED BY <1>1, <1>5, <1>6 DEF ListsFine

LEMMA ListsBegin == ASSUME Init PROVE ListsFine
<1>1. /\ next = [b \in Buttons \cup {Head} |-> NULL] /\ target = NULL
      /\ ticked = [b \in Buttons |-> 1] /\ stayed = Buttons
  BY DEF Init
<1> DEFINE p == [i \in 0..0 |-> Head]
<1>2. Way(next, 0, p)
  BY <1>1 DEF Way
<1>3. Ends(next)
  BY <1>2 DEF Ends
<1> QED BY <1>1, <1>3 DEF ListsFine

LEMMA ListsStay == ASSUME TypeOK, ListsFine, [Next]_vars PROVE ListsFine'
<1>1. CASE UNCHANGED vars
  BY <1>1 DEF vars, ListsFine
<1>2. ASSUME NEW b \in Buttons, NEW read \in BOOLEAN, ButtonInit(b, read) PROVE ListsFine'
  BY <1>2, InitialisedFine
<1>3. ASSUME NEW b \in Buttons, Start(b) \/ Stop(b) PROVE ListsFine'
  BY <1>3, OutsideFine
<1> QED BY <1>1, <1>2, <1>3, PassBeginsFine, PassGoesOnFine DEF Next

\* What each of the three theorems below needs of the list and of the walk: the list
\* is a way, the walk has met none that is ahead of it, and has what it must meet
\* ahead (button_start, button_stop, button_ticks).
THEOREM ListsInvariance == Spec => []ListsFine
<1>1. Init => ListsFine
  BY ListsBegin
<1>2. TypeOK /\ ListsFine /\ [Next]_vars => ListsFine'
  BY ListsStay
<1> QED BY <1>1, <1>2, ButtonTypeCorrect, PTL DEF Spec

\* The list ends, whatever callbacks put on it and take off it during a walk, for
\* every number of buttons (button_start, button_stop).
THEOREM ListAlwaysEnds == Spec => []ListEnds
<1>1. ListsFine => ListEnds
  <2> SUFFICES ASSUME ListsFine PROVE ListEnds
    OBVIOUS
  <2>1. PICK n, p : Way(next, n, p)
    BY DEF ListsFine, Ends
  <2> QED BY <2>1, ListedIs DEF ListEnds
<1> QED BY <1>1, ListsInvariance, PTL

\* A pass of button_ticks leaves out no button that is on the list all along, however
\* the callbacks rearrange the others under it.
THEOREM NoButtonMissed == Spec => []NoneMissed
<1>1. ListsFine => NoneMissed
  BY DEF ListsFine, NoneMissed
<1> QED BY <1>1, ListsInvariance, PTL

\* It gives none a second turn, unless callbacks put one back on the list that the
\* walk was on or had still to meet (button_ticks).
THEOREM NoSecondTurn == Spec => []OneTurn
<1>1. ListsFine => OneTurn
  BY DEF ListsFine, OneTurn
<1> QED BY <1>1, ListsInvariance, PTL
=============================================================================
