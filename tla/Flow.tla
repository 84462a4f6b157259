-------------------------------- MODULE Flow --------------------------------
(***************************************************************************)
(* The coroutines and the counting semaphore of User/lib/flow.  A flow is  *)
(* the place where it will resume (`line`) and the tick at which it was    *)
(* suspended (`time`); the tick interrupt advances flow_tick, a receive    *)
(* interrupt releases the semaphore, and the one main loop runs every flow *)
(* from suspension to suspension.                                          *)
(*                                                                         *)
(* flow_tick - time is only ever compared with a delay of at most Sec, so  *)
(* the module keeps that difference, cut off at Sec, in `age`.             *)
(***************************************************************************)
EXTENDS Integers

CONSTANTS Flow,      \* the flows
          Sec,       \* FL_CLOCK_SEC in ticks (100 in the code)
          Half       \* FL_CLOCK_100MSEC * 5 in ticks (50 in the code)

ASSUME SecAssumption  == Sec \in Nat \ {0}
ASSUME HalfAssumption == Half \in 1..Sec

VARIABLES line,      \* where each flow resumes
          age,       \* flow_tick - time of each flow, at most Sec
          count,     \* the semaphore
          mpc,       \* the main loop: "call" at a suspension point, "store"
                     \* and "test" in the semaphore macros, "run" behind them
          reg        \* the register --count works in

flowvars == <<line, age, count, mpc, reg>>

Lines == {"start", "wait", "wait2", "ack", "delay"}
MPC   == {"call", "store", "test", "run"}

FlowTypeOK == /\ line \in [Flow -> Lines]
              /\ age \in [Flow -> 0..Sec]
              /\ count \in Nat /\ reg \in Nat
              /\ mpc \in MPC

FlowInit == /\ line = [f \in Flow |-> "start"]
            /\ age = [f \in Flow |-> 0]
            /\ count = 0 /\ reg = 0 /\ mpc = "call"

----------------------------------------------------------------------------
\* FLOW_TICK_UPDATE in the timer interrupt.
FlowTick == /\ age' = [f \in Flow |-> IF age[f] < Sec THEN age[f] + 1 ELSE Sec]
            /\ UNCHANGED <<line, count, mpc, reg>>

\* FLOW_SEM_RELEASE: ++count, in an interrupt.
SemRelease == count' = count + 1

----------------------------------------------------------------------------
\* The flow notes the tick and gives up the processor at label l; the opening
\* of FLOW_LOCK_DELAY and of FLOW_LOCK_WAIT_SEM_OR_TIMEOUT.
Suspend(f, l) == /\ line' = [line EXCEPT ![f] = l]
                 /\ age' = [age EXCEPT ![f] = 0]
                 /\ mpc' = "call"
                 /\ UNCHANGED <<count, reg>>

\* FLOW_LOCK_DELAY lets the flow go on.
Elapsed(f, t) == mpc = "call" /\ age[f] >= t

\* slip: a wait that has timed out takes a release as well
SemAcquireBlind(f) ==
    /\ mpc = "call"
    /\ count > 0 \/ age[f] >= Sec
    /\ reg' = count /\ mpc' = "store"
    /\ UNCHANGED <<line, age, count>>

\* FLOW_LOCK_WAIT_SEM_OR_TIMEOUT passes on a release or after a second.  Only
\* in the first case, and only if the second is not over, it takes the release,
\* by a load here and a store in SemStore: an interrupt may come in between.
SemAcquire(f) ==
    /\ mpc = "call"
    /\ \/ /\ count > 0 /\ age[f] < Sec
          /\ reg' = count /\ mpc' = "store"
       \/ /\ age[f] >= Sec
          /\ mpc' = "test" /\ UNCHANGED reg
    /\ UNCHANGED <<line, age, count>>

\* slip: the decrement is left out
SemStoreKeeps == /\ mpc = "store"
                 /\ count' = reg
                 /\ mpc' = "test" /\ reg' = 0
                 /\ UNCHANGED <<line, age>>

SemStore == /\ mpc = "store"
            /\ count' = reg - 1
            /\ mpc' = "test" /\ reg' = 0
            /\ UNCHANGED <<line, age>>

\* Neither lets the flow go on: rym_process returns to its caller.
Blocked(f) == /\ mpc = "call"
              /\ \/ line[f] \in {"wait", "wait2"} /\ count = 0 /\ age[f] < Sec
                 \/ line[f] = "delay" /\ age[f] < Sec
                 \/ line[f] = "ack" /\ age[f] < Half

\* FLOW_SEM_IS_RELEASE: evaluated later, on a later flow_tick.
SemIsRelease(f) == age[f] < Sec
============================================================================
