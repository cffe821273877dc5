----------------------------- MODULE TraceView ------------------------------
(***************************************************************************)
(* What a viewer of the path inspector is promised: nothing while no       *)
(* session is set; from the moment one is set, that session and no other,  *)
(* first without a path, later with a path that answers it.  A failure     *)
(* takes nothing away that was shown.                                      *)
(***************************************************************************)
CONSTANTS Sessions,     \* what a viewer can ask for
          Fits(_),      \* the paths that answer a session
          Nil           \* no path yet

VARIABLES session,      \* {} or the session that is set, as a singleton
          path,         \* the path on display, Nil if there is none
          ok            \* the latest probe succeeded

vars == <<session, path, ok>>

Init == session = {} /\ path = Nil /\ ok = TRUE

Choose(s) == session' = {s} /\ path' = Nil /\ ok' = TRUE

Stop == session' = {} /\ path' = Nil /\ ok' = TRUE

Show(p) ==
    /\ \E s \in session : p \in Fits(s)
    /\ path' = p /\ ok' = TRUE
    /\ UNCHANGED session

Fail ==
    /\ session # {}
    /\ ok' = FALSE
    /\ UNCHANGED <<session, path>>

Next ==
    \/ \E s \in Sessions : Choose(s) \/ \E p \in Fits(s) : Show(p)
    \/ Stop \/ Fail

Spec == Init /\ [][Next]_vars

=============================================================================
