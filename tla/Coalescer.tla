----------------------------- MODULE Coalescer ------------------------------
(***************************************************************************)
(* linkd/internal/staticinfo/coalesce.go: the wrapper that collapses the   *)
(* calls of linkd's OnChange into a leading and a trailing run of regen    *)
(* per window.  Its goroutines are the HTTP handlers that call it and the  *)
(* ones the runtime starts when a timer expires.                           *)
(***************************************************************************)
EXTENDS Integers, FiniteSets

CONSTANTS Callers,      \* goroutines that call the wrapper
          Timers,       \* goroutines of expired timers; bounds the trailing
                        \* runs of f that are in progress at once
          Window        \* the duration d, in ticks of the clock

ASSUME CoalescerAssumption ==
    /\ Callers \intersect Timers = {}
    /\ Window \in Nat

VARIABLES timer,        \* Off, or the time since the pending timer was armed
          dirty,        \* a call came while the timer was pending
          run,          \* what each goroutine does about f
          owed,         \* history: a call was made and f has not begun since
          ages          \* history: the time since the latest trigger of f and
                        \* since the one before it, neither beyond Window

coalescerVars == <<timer, dirty, run, owed, ages>>

Workers == Callers \union Timers
Off == -1

Older(t) == IF t < Window THEN t + 1 ELSE t

\* f is due: goroutine w runs it once it is scheduled.
Trigger(w) ==
    /\ run[w] = "idle"
    /\ run' = [run EXCEPT ![w] = "start"]
    /\ ages' = [last |-> 0, prev |-> ages.last]

CoalescerInit ==
    /\ timer = Off
    /\ dirty = FALSE
    /\ run = [w \in Workers |-> "idle"]
    /\ owed = FALSE
    /\ ages = [last |-> Window, prev |-> Window]

\* Mutant of CallLeading: opens the window but leaves f to its end.
CallLeadingDefers(c) ==
    /\ run[c] = "idle" /\ timer = Off
    /\ timer' = 0
    /\ owed' = TRUE
    /\ UNCHANGED <<dirty, run, ages>>

\* call() in a quiescent period: arm the timer and run f in the caller.
CallLeading(c) ==
    /\ timer = Off
    /\ timer' = 0
    /\ Trigger(c)
    /\ owed' = TRUE
    /\ UNCHANGED dirty

\* Mutants of CallWithinWindow: it runs f as well; it does not mark dirty.
CallWithinWindowRuns(c) ==
    /\ timer # Off
    /\ dirty' = TRUE
    /\ Trigger(c)
    /\ owed' = TRUE
    /\ UNCHANGED timer

CallWithinWindowDropped(c) ==
    /\ run[c] = "idle" /\ timer # Off
    /\ owed' = TRUE
    /\ UNCHANGED <<timer, dirty, run, ages>>

\* call() within a window: leave it to the trailing run.
CallWithinWindow(c) ==
    /\ run[c] = "idle"
    /\ timer # Off
    /\ dirty' = TRUE
    /\ owed' = TRUE
    /\ UNCHANGED <<timer, run, ages>>

Call(c) == CallLeading(c) \/ CallWithinWindow(c)

\* Mutant of Fire: it reads dirty after it has reset it.
FireForgets ==
    /\ timer = Window
    /\ timer' = Off
    /\ dirty' = FALSE
    /\ UNCHANGED <<run, ages, owed>>

\* fire(), in the goroutine of the expired timer.  A timer may expire late.
Fire ==
    /\ timer = Window
    /\ timer' = Off
    /\ dirty' = FALSE
    /\ IF dirty THEN \E t \in Timers : Trigger(t)
                ELSE UNCHANGED <<run, ages>>
    /\ UNCHANGED owed

\* The goroutine enters f, outside the coalescer's lock.
Begin(w) ==
    /\ run[w] = "start"
    /\ run' = [run EXCEPT ![w] = "running"]
    /\ owed' = FALSE
    /\ UNCHANGED <<timer, dirty, ages>>

End(w) ==
    /\ run[w] = "running"
    /\ run' = [run EXCEPT ![w] = "idle"]
    /\ UNCHANGED <<timer, dirty, owed, ages>>

Tick ==
    /\ timer' = IF timer = Off THEN Off ELSE Older(timer)
    /\ ages' = [last |-> Older(ages.last), prev |-> Older(ages.prev)]
    /\ UNCHANGED <<dirty, run, owed>>

\* linkd restarts: the wrapper is built anew by main, which has run f itself.
Restart ==
    /\ timer' = Off
    /\ dirty' = FALSE
    /\ run' = [w \in Workers |-> "idle"]
    /\ owed' = FALSE
    /\ ages' = [last |-> Window, prev |-> Window]

CoalescerNext ==
    \/ \E c \in Callers : Call(c)
    \/ \E w \in Workers : Begin(w) \/ End(w)
    \/ Fire \/ Tick \/ Restart

\* The runtime schedules goroutines and lets timers expire, and f returns:
\* regen's only wait without a bound of its own is for a mutex whose holder
\* is bounded by signalTimeout.  Callers need never call.
CoalescerFairness ==
    /\ \A w \in Workers : WF_coalescerVars(Begin(w)) /\ WF_coalescerVars(End(w))
    /\ WF_coalescerVars(Tick) /\ WF_coalescerVars(Fire)

CoalescerSpec ==
    CoalescerInit /\ [][CoalescerNext]_coalescerVars /\ CoalescerFairness

-----------------------------------------------------------------------------
CoalescerTypeOK ==
    /\ dirty \in BOOLEAN /\ owed \in BOOLEAN
    /\ timer \in {Off} \union 0..Window
    /\ run \in [Workers -> {"idle", "start", "running"}]
    /\ ages \in [last : 0..Window, prev : 0..Window]

\* No call is lost between the lock, the timer and the goroutines: as long as
\* no run of f began after a call, the dirty flag of a pending timer or a
\* goroutine about to enter f still stands for it (coalesce.go call, fire).
NoLostCall ==
    owed => \/ dirty /\ timer # Off
            \/ \E w \in Workers : run[w] = "start"

\* "at most two invocations of f per window of duration d": between a trigger
\* and the second one after it at least Window elapses, wherever the window
\* is placed and whichever goroutines run f.
AtMostTwoPerWindow ==
    [][ (\E w \in Workers : run[w] = "idle" /\ run'[w] = "start")
            => ages.prev = Window ]_coalescerVars

Contract == INSTANCE Requests
                WITH active <- {w \in Workers : run[w] = "running"}

\* The wrapper keeps the promise its callers rely on: after every call f
\* begins once more, whatever windows, late timers and overlapping runs do.
KeepsContract == Contract!Spec

=============================================================================
