----------------------------- MODULE MCControl ------------------------------
(***************************************************************************)
(* Control for TLC: ASes 1 - 2 - 3 in a line, and a trace to AS 1.  All     *)
(* that requests do to a poll is to reshape one end at a time, as others   *)
(* may, and a poll only reads.  So in each behaviour one kind of change     *)
(* goes on: two requests, polls while ends are reshaped, or polls while    *)
(* BGP converges.                                                          *)
(***************************************************************************)
EXTENDS Control, TLC

CONSTANTS shaped, nominal,
          r1, r2,
          MaxMoves      \* bounds the changes under the polls' feet

MCASes == 1 .. 3
MCLinks == <<"12", "23">>
MCAsOf == <<"12", "A">> :> 1 @@ <<"12", "B">> :> 2 @@ <<"23", "A">> :> 2 @@ <<"23", "B">> :> 3
MCShapings == {shaped}
MCRequests == {r1, r2}
Requesters == Permutations(MCRequests)
MCAsked == {<<"23", "both">>}

Bgp(up, fresh, down, via) ==
    [session |-> [e \in up \cup fresh \cup down |->
                     IF e \in up THEN "up" ELSE IF e \in fresh THEN "fresh" ELSE "down"],
     via |-> via]
MCReports ==
    LET a == <<"12", "A">>  b == <<"12", "B">>  c == <<"23", "A">>  d == <<"23", "B">>
    IN  [as \in MCASes |->
            CASE as = 1 -> {Bgp({a}, {}, {}, NoRoute), Bgp({}, {a}, {}, NoRoute)}
              [] as = 2 -> {Bgp({b, c}, {}, {}, b), Bgp({c}, {}, {b}, c), Bgp({}, {}, {}, NoRoute)}
              [] as = 3 -> {Bgp({d}, {}, {}, d), Bgp({}, {}, {d}, <<"stub", "A">>)}]

VARIABLES scene, moves

vars == <<controlVars, scene, moves>>

Init ==
    /\ ControlInit
    /\ scene \in {"requests", "reshaping", "routing"}
    /\ \A as \in ASes : bgp[as] = CHOOSE r \in Reports[as] : TRUE
    /\ moves = 0

Moved == moves < MaxMoves /\ moves' = moves + 1 /\ UNCHANGED scene
Stays == UNCHANGED <<scene, moves>>

Reshapes == scene = "reshaping" /\ \E e \in Ends, to \in Shapings \cup {Nominal} : Reshaped(e, to) /\ Moved
Converges == scene = "routing" /\ \E as \in ASes : \E r \in Reports[as] : Converged(as, r) /\ Moved
Applies == scene = "requests" /\ Requested /\ Stays
Polls == scene # "requests" /\ Polled /\ Stays

Next == Reshapes \/ Converges \/ Applies \/ Polls

Spec == Init /\ [][Next]_vars /\ ApplyFairness /\ (scene # "requests" => PollFairness)

\* Once the linkds are left alone and all answer, what they hold is what is shown.
SettledIsShown ==
    <>[][~Reshapes /\ \A as \in ASes : ~FetchFails(as)]_vars /\ scene # "requests"
        => <>[]ShownIsTrue
=============================================================================
