----------------------------- MODULE LinkdPoll ------------------------------
(***************************************************************************)
(* How the dashboard learns what the linkds hold.  A poll asks all of them *)
(* at once for their links, then all of them for their BGP sessions and    *)
(* routes (Poll and PollBGP in internal/linkdclient/client.go, started by  *)
(* RunBroadcast in internal/api/api.go), and what it has joined replaces   *)
(* what was shown; frames draw the AS path of the active trace from the    *)
(* routes (internal/bgppath).                                              *)
(***************************************************************************)
EXTENDS Fabric

CONSTANTS Reports,      \* for each AS, what its BIRD may say of BGP
          Dst           \* the destination of the active trace

NoRoute == <<>>
Sessions == {"up", "fresh", "down"}     \* fresh: up for less than the flap window

ASSUME PollAssumption ==
    /\ Dst \in ASes
    /\ NoRoute \notin Ends
    /\ \A as \in ASes : \A r \in Reports[as] :
          DOMAIN r.session \subseteq EndsOf(as) /\ \A e \in DOMAIN r.session : r.session[e] \in Sessions

VARIABLES bgp,          \* what each AS's BIRD says
          poll,         \* the poll under way
          shown,        \* the shaping shown, by link
          joined        \* the sessions and routes last joined

pollVars == <<shape, bgp, poll, shown, joined>>

Nothing == [x \in {} |-> x]

\* moved is history: the ASes that changed since the answers were first asked for,
\* which is all of them as long as none was.
PollInit ==
    /\ bgp \in [ASes -> UNION {Reports[as] : as \in ASes}]
    /\ \A as \in ASes : bgp[as] \in Reports[as]
    /\ poll = [pc |-> "idle", got |-> Nothing, failed |-> {}, moved |-> ASes]
    /\ shown = [links |-> Nothing, moved |-> ASes]
    /\ joined = [side |-> Nothing, via |-> Nothing, moved |-> ASes]

-----------------------------------------------------------------------------
(* The linkds change while they are polled.                                *)

Moves(as) ==
    /\ poll' = [poll EXCEPT !.moved = @ \cup {as}]
    /\ shown' = [shown EXCEPT !.moved = @ \cup {as}]
    /\ joined' = [joined EXCEPT !.moved = @ \cup {as}]

\* A request of this dashboard, another one, or a user of the AS.
Reshape(e, to) ==
    /\ to # shape[e]
    /\ shape' = [shape EXCEPT ![e] = to]
    /\ Moves(AsOf[e])
    /\ UNCHANGED bgp

Converge(as, r) ==
    /\ r # bgp[as]
    /\ bgp' = [bgp EXCEPT ![as] = r]
    /\ Moves(as)
    /\ UNCHANGED shape

-----------------------------------------------------------------------------
(* The poll.                                                               *)

Answers(as) ==
    IF poll.pc = "links" THEN [e \in EndsOf(as) |-> shape[e]] ELSE bgp[as]

Replied == DOMAIN poll.got

Awaited(as) == poll.pc # "idle" /\ as \notin Replied \cup poll.failed

\* fetchLinks and fetchBGP
Fetch(as) ==
    /\ Awaited(as)
    /\ poll' = [poll EXCEPT !.got = [a \in Replied \cup {as} |-> IF a = as THEN Answers(a) ELSE @[a]]]
    /\ UNCHANGED <<shape, bgp, shown, joined>>

\* The linkd is not there, does not answer in time, or has no BIRD.
FetchFails(as) ==
    /\ Awaited(as)
    /\ poll' = [poll EXCEPT !.failed = @ \cup {as}]
    /\ UNCHANGED <<shape, bgp, shown, joined>>

AllIn(pc) == poll.pc = pc /\ Replied \cup poll.failed = ASes

\* At a tick, if no poll is under way.
PollStarts ==
    /\ poll.pc = "idle"
    /\ poll' = [pc |-> "links", got |-> Nothing, failed |-> {}, moved |-> {}]
    /\ UNCHANGED <<shape, bgp, shown, joined>>

\* Mutant of ShownEnd: an AS that does not answer keeps what it said before.
ShownEndSticky(l) ==
    IF AsOf[<<l, "A">>] \in Replied THEN poll.got[AsOf[<<l, "A">>]][<<l, "A">>]
    ELSE IF l \in DOMAIN shown.links THEN shown.links[l] ELSE Nominal

\* Mutant of ShownEnd: what was shown is overwritten only by another shaping.
ShownEndMerges(l) ==
    IF AsOf[<<l, "A">>] \in Replied /\ poll.got[AsOf[<<l, "A">>]][<<l, "A">>] # Nominal
    THEN poll.got[AsOf[<<l, "A">>]][<<l, "A">>]
    ELSE IF l \in DOMAIN shown.links THEN shown.links[l] ELSE Nominal

\* What the end at side A says; a link whose AS did not answer passes for unshaped.
ShownEnd(l) ==
    IF AsOf[<<l, "A">>] \in Replied THEN poll.got[AsOf[<<l, "A">>]][<<l, "A">>] ELSE Nominal

\* SetShaping, and on to PollBGP
LinksJoin ==
    /\ AllIn("links")
    /\ shown' = [links |-> [l \in LinkSet |-> ShownEnd(l)], moved |-> poll.moved]
    /\ poll' = [pc |-> "bgp", got |-> Nothing, failed |-> {}, moved |-> {}]
    /\ UNCHANGED <<shape, bgp, joined>>

\* What an end's AS says of the session over it, if anything.
SideOf(e) == IF AsOf[e] \in Replied /\ e \in DOMAIN poll.got[AsOf[e]].session
             THEN poll.got[AsOf[e]].session[e] ELSE "none"

\* Mutant of Rest: the flag is cleared only after a poll that everybody answered.
RestIfAll == IF Replied = ASes THEN "idle" ELSE "stuck"

\* The flag pollInFlight is cleared however the poll went.
Rest == "idle"

\* SetBGP, and the routes stored: an AS that did not answer has none.
BGPJoin ==
    /\ AllIn("bgp")
    /\ joined' = [side |-> [e \in Ends |-> SideOf(e)],
                  via |-> [as \in Replied |-> poll.got[as].via], moved |-> poll.moved]
    /\ poll' = [pc |-> Rest, got |-> Nothing, failed |-> {}, moved |-> {}]
    /\ UNCHANGED <<shape, bgp, shown>>

PollNext ==
    \/ PollStarts \/ LinksJoin \/ BGPJoin
    \/ \E as \in ASes : Fetch(as) \/ FetchFails(as)

\* The ticker ticks on, the HTTP client gives up in the end, and no goroutine is
\* starved; a poll has finitely many steps, so that each of them is taken.
PollFairness == WF_pollVars(PollNext)

-----------------------------------------------------------------------------
(* What frames make of it.                                                 *)

\* Mutant of Badge: a side that says nothing is not held against the link.
BadgeLenient(l) ==
    LET said == {joined.side[<<l, s>>] : s \in Sides}
    IN  IF "down" \in said THEN "down" ELSE IF "fresh" \in said THEN "degraded" ELSE "up"

\* bgpBadge
Badge(l) ==
    LET said == {joined.side[<<l, s>>] : s \in Sides}
    IN  IF "none" \in said THEN "unknown"
        ELSE IF "down" \in said THEN "down"
        ELSE IF "fresh" \in said THEN "degraded"
        ELSE "up"

Last(path) == path[Len(path)]
Visited(path) == {path[i] : i \in 1 .. Len(path)}

\* Mutant of Hop: an AS may be visited again.
HopAgain(path) ==
    LET cur == Last(path)
    IN  IF cur = Dst \/ cur \notin DOMAIN joined.via \/ joined.via[cur] \notin EndsOf(cur)
        THEN path
        ELSE Append(path, Peer(joined.via[cur]))

\* One turn of Walk's loop: it ends where there is no route, where the interface is
\* unknown, and where it would close a circle.
Hop(path) ==
    LET cur == Last(path)
    IN  IF \/ cur = Dst \/ cur \notin DOMAIN joined.via \/ joined.via[cur] \notin EndsOf(cur)
           \/ Peer(joined.via[cur]) \in Visited(path)
        THEN path
        ELSE Append(path, Peer(joined.via[cur]))

\* Mutant of Walk: it is given one turn too few to reach the destination.
WalkShort(src) ==
    LET walk[n \in 0 .. Cardinality(ASes)] == IF n = 0 THEN <<src>> ELSE Hop(walk[n - 1])
    IN  walk[Cardinality(ASes) - 2]

\* An AS is visited once, so that many turns are enough.
Walk(src) ==
    LET walk[n \in 0 .. Cardinality(ASes)] == IF n = 0 THEN <<src>> ELSE Hop(walk[n - 1])
    IN  walk[Cardinality(ASes)]

Complete(src) == Last(Walk(src)) = Dst

-----------------------------------------------------------------------------
PollTypeOK ==
    /\ \A as \in ASes : bgp[as] \in Reports[as]
    /\ poll.pc \in {"idle", "links", "bgp"}
    /\ Replied \cup poll.failed \subseteq ASes
    /\ DOMAIN shown.links \subseteq LinkSet /\ DOMAIN joined.via \subseteq ASes
    /\ poll.moved \cup shown.moved \cup joined.moved \subseteq ASes

\* The linkds answer one by one, and may be reshaped in between: a link is never
\* shown shaped in a way that its end at side A has not been since the poll began.
ShownWasTrue ==
    \A l \in DOMAIN shown.links :
        AsOf[<<l, "A">>] \in shown.moved \/ shown.links[l] \in {shape[<<l, "A">>], Nominal}

\* "a nil side means that AS reported nothing" (derive.go, BGPLink): a link is
\* badged for what both its ends say, each of its own session.
BadgeIsAgreed ==
    joined.side # Nothing =>
        \A l \in LinkSet :
            LET Says(e) == IF e \in DOMAIN bgp[AsOf[e]].session THEN bgp[AsOf[e]].session[e]
                           ELSE "none"
                own == {Says(<<l, s>>) : s \in Sides}
            IN  {AsOf[<<l, s>>] : s \in Sides} \cap joined.moved = {} =>
                   /\ Badge(l) = "up" => own = {"up"}
                   /\ Badge(l) = "degraded" => "fresh" \in own /\ own \subseteq {"up", "fresh"}
                   /\ Badge(l) = "down" => "down" \in own

\* "all degradation truncates the walk and clears Complete" (bgppath.go).  The routes
\* are polled AS by AS while BGP converges: the path drawn never visits an AS twice, and
\* every AS on it that has not changed its mind since does route that way; with every
\* AS's answer, none of it outdated, it is complete exactly if packets that follow the
\* routes arrive.
PathIsRouted ==
    \A src \in ASes :
        LET path == Walk(src)
            Onto(as) == {Peer(e) : e \in {bgp[as].via} \cap EndsOf(as)}
            Closed(S) == \A as \in S \ {Dst} : Onto(as) \subseteq S
        IN  /\ \A i, j \in 1 .. Len(path) : path[i] = path[j] => i = j
            /\ \A i \in 1 .. Len(path) - 1 :
                  path[i] \in joined.moved \/ path[i + 1] \in Onto(path[i])
            /\ DOMAIN joined.via = ASes /\ joined.moved = {} =>
                  (Complete(src) <=> \A S \in SUBSET ASes : src \in S /\ Closed(S) => Dst \in S)

ShownIsTrue == \A l \in LinkSet : l \in DOMAIN shown.links /\ shown.links[l] = shape[<<l, "A">>]
=============================================================================
