----------------------------- MODULE LinkdApply -----------------------------
(***************************************************************************)
(* The dashboard's requests to shape or reset links: fabricd's handlers    *)
(* (internal/api/api.go) call the linkds of the ends one after the other   *)
(* (Apply in internal/linkdclient/client.go).  A call may be refused, its  *)
(* answer may be lost, and a linkd may act on it after fabricd has given   *)
(* it up.                                                                  *)
(***************************************************************************)
EXTENDS Fabric

CONSTANTS Requests,     \* the goroutines that handle them
          Asked,        \* the links and directions users ask for
          MaxLate       \* bounds the calls that linkds have yet to act on

VARIABLES req,          \* what each request does
          late          \* calls given up by fabricd that a linkd is to act on

applyVars == <<shape, req, late>>

ASSUME ApplyAssumption ==
    /\ Asked \subseteq LinkSet \X {"a_to_b", "b_to_a", "both"}
    /\ MaxLate \in Nat

Idle == [pc |-> "idle"]

ApplyInit ==
    /\ shape = [e \in Ends |-> Nominal]
    /\ req = [r \in Requests |-> Idle]
    /\ late = {}

-----------------------------------------------------------------------------
(* Mutant of Endpoints: both directions are those of side A.               *)
EndpointsOfA(l, direction) ==
    IF direction = "b_to_a" THEN << <<l, "B">> >> ELSE << <<l, "A">> >>

\* The ends whose egress a direction is.
Endpoints(l, direction) ==
    (IF direction = "b_to_a" THEN <<>> ELSE << <<l, "A">> >>)
    \o (IF direction = "a_to_b" THEN <<>> ELSE << <<l, "B">> >>)

\* meant is history: the ends the user has in mind; alone says that nobody else
\* has changed an end since the request began.
Begin(r, todo, to, meant) ==
    /\ req[r] = Idle
    /\ req' = [req EXCEPT ![r] = [pc |-> "calls", todo |-> todo, to |-> to, ok |-> {},
                                  failed |-> {}, meant |-> meant, alone |-> TRUE]]
    /\ UNCHANGED <<shape, late>>

\* handleShaping and handleReset
Ask(r) ==
    \E a \in Asked, to \in Shapings \cup {Nominal} :
        Begin(r, Endpoints(a[1], a[2]), to,
              {a[1]} \X CASE a[2] = "a_to_b" -> {"A"} [] a[2] = "b_to_a" -> {"B"}
                          [] a[2] = "both" -> Sides)

\* Both ends of each link in turn.
ResetAll(r) ==
    Begin(r, [i \in 1 .. 2 * Len(Links) |-> <<Links[(i + 1) \div 2], IF i % 2 = 1 THEN "A" ELSE "B">>],
          Nominal, Ends)

Calling(r) == req[r].pc = "calls" /\ req[r].todo # <<>>

\* A result is noted, and whoever else is under way is not alone if the end changed.
Note(r, ok, changed) ==
    LET end == Head(req[r].todo)
    IN  req' = [q \in Requests |->
                  IF q = r THEN [pc |-> "calls", todo |-> Tail(req[r].todo), to |-> req[r].to,
                                 ok |-> req[r].ok \cup (IF ok THEN {end} ELSE {}),
                                 failed |-> req[r].failed \cup (IF ok THEN {} ELSE {end}),
                                 meant |-> req[r].meant, alone |-> req[r].alone]
                  ELSE IF changed /\ req[q] # Idle THEN [req[q] EXCEPT !.alone = FALSE]
                  ELSE req[q]]

Changes(r) == shape' = [shape EXCEPT ![Head(req[r].todo)] = req[r].to]

\* The linkd acts on the call and says so.
CallOk(r) ==
    /\ Calling(r) /\ Changes(r) /\ Note(r, TRUE, TRUE)
    /\ UNCHANGED late

\* The linkd is not there, or refuses.
CallFails(r) ==
    /\ Calling(r) /\ Note(r, FALSE, FALSE)
    /\ UNCHANGED <<shape, late>>

\* Mutant of CallLost: no answer is taken for a good one.
CallLostOk(r) ==
    /\ Calling(r) /\ Note(r, TRUE, FALSE)
    /\ UNCHANGED <<shape, late>>

\* The linkd acts, and its answer does not arrive in time.
CallLost(r) ==
    /\ Calling(r) /\ Changes(r) /\ Note(r, FALSE, TRUE)
    /\ UNCHANGED late

\* The time is up before the linkd acts.
CallLate(r) ==
    /\ Calling(r) /\ Note(r, FALSE, FALSE)
    /\ Cardinality(late) < MaxLate
    /\ late' = late \cup {[end |-> Head(req[r].todo), to |-> req[r].to]}
    /\ UNCHANGED shape

Disturbed == [q \in Requests |-> IF req[q] = Idle THEN Idle ELSE [req[q] EXCEPT !.alone = FALSE]]

\* The linkd acts on it after all.
Late(c) ==
    /\ c \in late
    /\ late' = late \ {c}
    /\ shape' = [shape EXCEPT ![c.end] = c.to]
    /\ req' = Disturbed

\* Another dashboard, or a user of the AS, shapes an end.
Another(e, to) ==
    /\ shape' = [shape EXCEPT ![e] = to]
    /\ req' = Disturbed
    /\ UNCHANGED late

\* 502 Bad Gateway is answered, not 200.
AllFailed(r) == req[r].failed # {} /\ req[r].ok = {}

\* Mutant of Answer: the ends that failed are called again until none does.
AnswerRetries(r) ==
    LET end == CHOOSE e \in req[r].failed : TRUE
    IN  /\ req[r].pc = "calls" /\ req[r].todo = <<>>
        /\ req' = [req EXCEPT ![r] = IF @.failed = {} THEN Idle
                                     ELSE [@ EXCEPT !.todo = <<end>>, !.failed = @ \ {end}]]
        /\ UNCHANGED <<shape, late>>

Answer(r) ==
    /\ req[r].pc = "calls" /\ req[r].todo = <<>>
    /\ req' = [req EXCEPT ![r] = Idle]
    /\ UNCHANGED <<shape, late>>

Call(r) == CallOk(r) \/ CallFails(r) \/ CallLost(r) \/ CallLate(r)

ApplyNext ==
    \/ \E r \in Requests : Ask(r) \/ ResetAll(r) \/ Call(r) \/ Answer(r)
    \/ \E c \in late : Late(c)

\* Every call ends, with the client's timeout if not before.
ApplyFairness == \A r \in Requests : WF_applyVars(Call(r) \/ Answer(r))

-----------------------------------------------------------------------------
ApplyTypeOK ==
    /\ shape \in [Ends -> Shapings \cup {Nominal}]
    /\ \A r \in Requests : req[r] # Idle =>
          /\ \A i \in 1 .. Len(req[r].todo) : req[r].todo[i] \in Ends
          /\ req[r].ok \subseteq Ends /\ req[r].failed \subseteq Ends
          /\ req[r].to \in Shapings \cup {Nominal}
    /\ late \subseteq [end : Ends, to : Shapings \cup {Nominal}]

\* What differs from what was asked is named in the results, so that "502 when
\* every endpoint failed, 200 otherwise" (api.go, applyShaping) never hides a half.
HalfIsNamed ==
    [][\A r \in Requests :
          Answer(r) /\ req[r].alone =>
             /\ {e \in req[r].meant : shape[e] # req[r].to} \subseteq req[r].failed
             /\ AllFailed(r) => req[r].meant = req[r].failed]_applyVars

\* Every request is answered, however the linkds behave.
Answered == \A r \in Requests : (req[r] # Idle) ~> (req[r] = Idle)
=============================================================================
