------------------------------ MODULE Requests ------------------------------
(***************************************************************************)
(* What a caller of a coalescing wrapper is promised: a request made at    *)
(* some moment is served by an activation of the wrapped function that     *)
(* begins after that moment.  Nothing is said of how many requests one     *)
(* activation serves, nor of when it begins.                               *)
(***************************************************************************)
CONSTANT Workers        \* the goroutines that may run the function

VARIABLES owed,         \* a request was made and no activation began since
          active        \* the workers inside the function

vars == <<owed, active>>

Init == owed = FALSE /\ active = {}

Request == owed' = TRUE /\ UNCHANGED active

\* An activation reads the state of the world after it begins, so it serves
\* every request made before.
Begin(w) ==
    /\ w \in Workers \ active
    /\ active' = active \union {w}
    /\ owed' = FALSE

End(w) ==
    /\ w \in active
    /\ active' = active \ {w}
    /\ UNCHANGED owed

\* The process restarts; its successor runs the function at startup.
Restart == owed' = FALSE /\ active' = {}

Serve == owed /\ \E w \in Workers : Begin(w)

Next ==
    \/ Request \/ Restart
    \/ \E w \in Workers : Begin(w) \/ End(w)

Spec == Init /\ [][Next]_vars /\ WF_vars(Serve)

=============================================================================
