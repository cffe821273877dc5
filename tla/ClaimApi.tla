------------------------------ MODULE ClaimApi ------------------------------
(***************************************************************************)
(* POST /api/join/claim (internal/api/join.go): the rate limiter, the      *)
(* checks of the request and the pool, in the order of the handler.        *)
(***************************************************************************)
EXTENDS WgPool, RateLimit

VARIABLE gate           \* the requests that are through the checks, before Claim

claimVars == <<vars, limiter, gate>>

CInit == Init /\ LimitInit /\ gate = [r \in Requests |-> FALSE]

Waiting(r) == up /\ req[r] = Idle /\ ~gate[r]

\* "rate limited"
Refused(r, c) ==
    /\ Waiting(r) /\ Refuse(c)
    /\ UNCHANGED <<vars, gate>>

\* The limiter lets the request in; then its body, the booth code and the AS
\* are in order, or one is not.
Admitted(r, c) ==
    /\ Waiting(r) /\ Grant(c)
    /\ \E ok \in BOOLEAN : gate' = [gate EXCEPT ![r] = ok]
    /\ UNCHANGED vars

CTake(r) ==
    /\ gate[r] /\ Take(r)
    /\ gate' = [gate EXCEPT ![r] = FALSE]
    /\ UNCHANGED limiter

\* ErrExhausted
Exhausted(r) ==
    /\ gate[r] /\ Saving = {} /\ Slots \subseteq Taken(mem)
    /\ gate' = [gate EXCEPT ![r] = FALSE]
    /\ UNCHANGED <<vars, limiter>>

\* The limiter and the requests are gone with the process.
CStop ==
    /\ Stop
    /\ hits' = [c \in Clients |-> None]
    /\ granted' = [c \in Clients |-> None]
    /\ gate' = [r \in Requests |-> FALSE]

CTick == LimitTick /\ UNCHANGED <<vars, gate>>

CNext ==
    \/ \E r \in Requests, c \in Clients : Refused(r, c) \/ Admitted(r, c)
    \/ \E r \in Requests : CTake(r) \/ Exhausted(r)
    \/ /\ \/ \E r \in Requests : Save(r) \/ SaveFails(r) \/ Answer(r) \/ Drop(r)
          \/ Start \/ OpenEditor
          \/ \E s \in Slots : Burn(s)
       /\ UNCHANGED <<limiter, gate>>
    \/ CStop
    \/ CTick

CSpec == CInit /\ [][CNext]_claimVars

-----------------------------------------------------------------------------
ClaimTypeOK ==
    /\ TypeOK /\ LimitTypeOK
    /\ gate \in [Requests -> BOOLEAN]
=============================================================================
