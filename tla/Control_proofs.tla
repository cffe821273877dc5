--------------------------- MODULE Control_proofs ---------------------------
(***************************************************************************)
(* What the dashboard's requests report and what its polls show, for any   *)
(* topology, requests and routes.                                          *)
(***************************************************************************)
EXTENDS Control, SequenceTheorems, FiniteSetTheorems, TLAPS

USE FabricAssumption, ApplyAssumption, PollAssumption

-----------------------------------------------------------------------------
(* The poll.                                                               *)

\* What is typed of the linkds, the poll and what it has joined.
Typed ==
    /\ shape \in [Ends -> Shapings \cup {Nominal}]
    /\ bgp \in [ASes -> UNION {Reports[as] : as \in ASes}]
    /\ \A as \in ASes : bgp[as] \in Reports[as]
    /\ poll = [pc |-> poll.pc, got |-> poll.got, failed |-> poll.failed, moved |-> poll.moved]
    /\ poll.pc \in {"idle", "links", "bgp"}
    /\ poll.got = [as \in Replied |-> poll.got[as]]
    /\ Replied \subseteq ASes /\ poll.failed \subseteq ASes /\ poll.moved \subseteq ASes
    /\ shown = [links |-> shown.links, moved |-> shown.moved]
    /\ DOMAIN shown.links \subseteq LinkSet /\ shown.moved \subseteq ASes
    /\ joined = [side |-> joined.side, via |-> joined.via, moved |-> joined.moved]
    /\ joined.via = [as \in DOMAIN joined.via |-> joined.via[as]]
    /\ DOMAIN joined.via \subseteq ASes /\ joined.moved \subseteq ASes

\* What a linkd has answered is what it holds, unless that has changed since the poll
\* began to ask (Client.Poll, PollBGP).
AnswersHold ==
    /\ poll.pc = "links" =>
          \A e \in Ends : AsOf[e] \in Replied \ poll.moved => poll.got[AsOf[e]][e] = shape[e]
    /\ poll.pc = "bgp" => \A as \in Replied \ poll.moved : poll.got[as] = bgp[as]

\* An answer about BGP is one the linkd may give, whenever it was asked.
AnswersReport ==
    poll.pc = "bgp" => \A as \in Replied : poll.got[as] \in Reports[as]

\* What an end's AS says of the session over it.
Says(e) == IF e \in DOMAIN bgp[AsOf[e]].session THEN bgp[AsOf[e]].session[e] ELSE "none"

\* What was joined of the sessions and routes is what the AS said, and still does if it
\* has not changed (Client.PollBGP).
JoinHolds ==
    /\ joined.side # Nothing =>
          /\ joined.side \in [Ends -> Sessions \cup {"none"}]
          /\ \A e \in Ends : AsOf[e] \in joined.moved \/ joined.side[e] \in {"none", Says(e)}
    /\ \A as \in DOMAIN joined.via \ joined.moved : joined.via[as] = bgp[as].via

PollInv == Typed /\ AnswersHold /\ AnswersReport /\ ShownWasTrue /\ JoinHolds

\* The other end of a link is an end, of the AS at the other side.
LEMMA Across ==
    ASSUME NEW e \in Ends
    PROVE  /\ e[1] \in LinkSet /\ e[2] \in Sides /\ e = <<e[1], e[2]>>
           /\ Other(e[2]) \in Sides /\ <<e[1], Other(e[2])>> \in Ends
           /\ Peer(e) \in ASes /\ AsOf[e] \in ASes
<1>1. e[1] \in LinkSet /\ e[2] \in Sides /\ e = <<e[1], e[2]>>
  BY DEF Ends
<1>2. Other(e[2]) \in Sides
  BY <1>1 DEF Other, Sides
<1>3. <<e[1], Other(e[2])>> \in Ends
  BY <1>1, <1>2 DEF Ends
<1> QED BY <1>1, <1>2, <1>3 DEF Peer

\* Before the first poll nothing is shown (RunBroadcast).
LEMMA InitPoll == PollInit /\ shape \in [Ends -> Shapings \cup {Nominal}] => PollInv
<1> SUFFICES ASSUME PollInit, shape \in [Ends -> Shapings \cup {Nominal}] PROVE PollInv
  OBVIOUS
<1>1. DOMAIN Nothing = {}
  BY DEF Nothing
<1>2. Typed
  BY <1>1 DEF PollInit, Typed, Replied, Nothing
<1>3. AnswersHold /\ AnswersReport /\ ShownWasTrue /\ JoinHolds
  BY <1>1 DEF PollInit, AnswersHold, AnswersReport, ShownWasTrue, JoinHolds, Replied
<1> QED BY <1>2, <1>3 DEF PollInv

\* A change of what an AS holds or routes spoils no answer, as it is noticed of that
\* AS (Moves).
LEMMA MovesKeep ==
    ASSUME PollInv, NEW x \in ASes, Moves(x),
           shape' \in [Ends -> Shapings \cup {Nominal}],
           \A e \in Ends : AsOf[e] # x => shape'[e] = shape[e],
           bgp' \in [ASes -> UNION {Reports[a] : a \in ASes}],
           \A a \in ASes : bgp'[a] \in Reports[a],
           \A a \in ASes \ {x} : bgp'[a] = bgp[a]
    PROVE  PollInv'
<1> USE DEF PollInv
<1>1. /\ poll' = [pc |-> poll.pc, got |-> poll.got, failed |-> poll.failed, moved |-> poll.moved \cup {x}]
      /\ shown' = [links |-> shown.links, moved |-> shown.moved \cup {x}]
      /\ joined' = [side |-> joined.side, via |-> joined.via, moved |-> joined.moved \cup {x}]
  BY DEF Typed, Moves
<1>2. Typed'
  BY <1>1 DEF Typed, Replied
<1>3. AnswersHold'
  <2>1. Replied' = Replied /\ poll'.got = poll.got /\ poll'.pc = poll.pc /\ poll'.moved = poll.moved \cup {x}
    BY <1>1 DEF Replied
  <2>2. \A e \in Ends : AsOf[e] \notin poll'.moved => shape'[e] = shape[e]
    BY <2>1
  <2>3. \A a \in Replied \ poll'.moved : bgp'[a] = bgp[a]
    BY <2>1 DEF Typed
  <2> QED BY <2>1, <2>2, <2>3 DEF AnswersHold
<1>4. AnswersReport'
  BY <1>1 DEF AnswersReport, Replied
<1>5. ShownWasTrue'
  <2> SUFFICES ASSUME NEW l \in DOMAIN shown.links, AsOf[<<l, "A">>] \notin shown'.moved
               PROVE  shown.links[l] \in {shape'[<<l, "A">>], Nominal}
    BY <1>1 DEF ShownWasTrue
  <2>1. <<l, "A">> \in Ends
    BY DEF Typed, Ends, Sides
  <2>2. shape'[<<l, "A">>] = shape[<<l, "A">>]
    BY <1>1, <2>1
  <2> QED BY <1>1, <2>2 DEF ShownWasTrue
<1>6. JoinHolds'
  <2>1. \A e \in Ends : AsOf[e] \notin joined'.moved => Says(e)' = Says(e)
    BY <1>1 DEF Says
  <2>2. \A a \in DOMAIN joined.via \ joined'.moved : bgp'[a] = bgp[a]
    BY <1>1 DEF Typed
  <2> QED BY <1>1, <2>1, <2>2 DEF JoinHolds
<1> QED BY <1>2, <1>3, <1>4, <1>5, <1>6

\* Nothing moves.
LEMMA PollRests == PollInv /\ UNCHANGED pollVars => PollInv'
<1> SUFFICES ASSUME PollInv, UNCHANGED pollVars PROVE PollInv'
  OBVIOUS
<1> USE DEF PollInv, pollVars
<1>1. Typed'
  BY DEF Typed, Replied
<1>2. AnswersHold'
  BY DEF AnswersHold, Replied
<1>3. AnswersReport'
  BY DEF AnswersReport, Replied
<1>4. ShownWasTrue'
  BY DEF ShownWasTrue
<1>5. JoinHolds'
  <2>1. \A e \in Ends : Says(e)' = Says(e)
    BY DEF Says
  <2> QED BY <2>1 DEF JoinHolds
<1> QED BY <1>1, <1>2, <1>3, <1>4, <1>5

\* A step by which one end may change, and which is noticed (LinkdApply, Reshape).
LEMMA ShapeKeeps ==
    ASSUME PollInv, Noticed, UNCHANGED bgp,
           NEW e \in Ends, NEW to \in Shapings \cup {Nominal},
           shape' = [shape EXCEPT ![e] = to]
    PROVE  PollInv'
<1>1. CASE shape' = shape
  BY <1>1, PollRests DEF Noticed, pollVars
<1>2. CASE shape' # shape
  <2>1. PICK f \in Ends : shape'[f] # shape[f] /\ Moves(AsOf[f])
    BY <1>2 DEF Noticed
  <2>2. f = e
    BY <2>1 DEF PollInv, Typed
  <2>3. shape' \in [Ends -> Shapings \cup {Nominal}] /\ \A g \in Ends \ {e} : shape'[g] = shape[g]
    BY DEF PollInv, Typed
  <2> QED BY <2>1, <2>2, <2>3, MovesKeep, Across DEF PollInv, Typed
<1> QED BY <1>1, <1>2

\* BGP converges (BIRD).
LEMMA ConvergeKeeps ==
    ASSUME PollInv, NEW x \in ASes, NEW r \in Reports[x], Converge(x, r)
    PROVE  PollInv'
<1>1. bgp' \in [ASes -> UNION {Reports[a] : a \in ASes}]
  BY DEF PollInv, Typed, Converge
<1>2. \A a \in ASes : bgp'[a] = IF a = x THEN r ELSE bgp[a]
  BY DEF PollInv, Typed, Converge
<1>3. \A a \in ASes : bgp'[a] \in Reports[a]
  BY <1>2 DEF PollInv, Typed
<1> QED BY <1>1, <1>2, <1>3, MovesKeep DEF Converge, PollInv, Typed

\* A poll begins to ask (RunBroadcast).
LEMMA StartKeeps == PollInv /\ PollStarts => PollInv'
<1> SUFFICES ASSUME PollInv, PollStarts PROVE PollInv'
  OBVIOUS
<1> USE DEF PollInv, PollStarts
<1>1. DOMAIN Nothing = {} /\ Nothing = [a \in {} |-> Nothing[a]]
  BY DEF Nothing
<1>2. Typed'
  BY <1>1 DEF Typed, Replied
<1>3. AnswersHold' /\ AnswersReport'
  BY <1>1 DEF AnswersHold, AnswersReport, Replied
<1>4. ShownWasTrue'
  BY DEF ShownWasTrue
<1>5. JoinHolds'
  <2>1. \A e \in Ends : Says(e)' = Says(e)
    BY DEF Says
  <2> QED BY <2>1 DEF JoinHolds
<1> QED BY <1>2, <1>3, <1>4, <1>5

\* An answer arrives, or does not (fetchLinks, fetchBGP).
LEMMA FetchKeeps ==
    ASSUME PollInv, NEW x \in ASes, Fetch(x) \/ FetchFails(x)
    PROVE  PollInv'
<1> USE DEF PollInv
<1>1. UNCHANGED <<shape, bgp, shown, joined>> /\ poll.pc # "idle"
  BY DEF Fetch, FetchFails, Awaited
<1>2. ShownWasTrue'
  BY <1>1 DEF ShownWasTrue
<1>3. JoinHolds'
  <2>1. \A e \in Ends : Says(e)' = Says(e)
    BY <1>1 DEF Says
  <2> QED BY <1>1, <2>1 DEF JoinHolds
<1>4. CASE FetchFails(x)
  <2>1. poll' = [pc |-> poll.pc, got |-> poll.got, failed |-> poll.failed \cup {x}, moved |-> poll.moved]
    BY <1>4 DEF FetchFails, Typed
  <2>2. Typed'
    BY <1>1, <2>1 DEF Typed, Replied
  <2>3. AnswersHold' /\ AnswersReport'
    BY <1>1, <2>1 DEF AnswersHold, AnswersReport, Replied
  <2> QED BY <1>2, <1>3, <2>2, <2>3
<1>5. CASE Fetch(x)
  <2> DEFINE got == [a \in Replied \cup {x} |-> IF a = x THEN Answers(a) ELSE poll.got[a]]
  <2>1. poll' = [pc |-> poll.pc, got |-> got, failed |-> poll.failed, moved |-> poll.moved]
    BY <1>5 DEF Fetch, Typed
  <2>2. /\ DOMAIN got = Replied \cup {x} /\ got = [a \in DOMAIN got |-> got[a]]
        /\ got[x] = Answers(x) /\ \A a \in Replied \ {x} : got[a] = poll.got[a]
    OBVIOUS
  <2> HIDE DEF got
  <2>3. poll.pc \in {"links", "bgp"} /\ Answers(x) = IF poll.pc = "links" THEN [e \in EndsOf(x) |-> shape[e]] ELSE bgp[x]
    BY <1>1 DEF Typed, Answers
  <2>4. Typed'
    BY <1>1, <2>1, <2>2 DEF Typed, Replied
  <2>5. AnswersReport'
    BY <1>1, <2>1, <2>2, <2>3 DEF AnswersReport, Replied, Typed
  <2>6. AnswersHold'
    <3>1. Replied' = Replied \cup {x} /\ poll'.got = got /\ poll'.pc = poll.pc /\ poll'.moved = poll.moved
      BY <2>1, <2>2 DEF Replied
    <3>2. ASSUME poll.pc = "links", NEW e \in Ends, AsOf[e] \in (Replied \cup {x}) \ poll.moved
          PROVE  got[AsOf[e]][e] = shape[e]
      <4>1. CASE AsOf[e] = x
        BY <2>2, <2>3, <3>2, <4>1 DEF EndsOf
      <4>2. CASE AsOf[e] # x
        BY <2>2, <3>2, <4>2 DEF AnswersHold
      <4> QED BY <4>1, <4>2
    <3>3. ASSUME poll.pc = "bgp", NEW a \in (Replied \cup {x}) \ poll.moved
          PROVE  got[a] = bgp[a]
      BY <2>2, <2>3, <3>3 DEF AnswersHold
    <3> QED BY <1>1, <3>1, <3>2, <3>3 DEF AnswersHold
  <2> QED BY <1>2, <1>3, <2>4, <2>5, <2>6
<1> QED BY <1>4, <1>5

\* The links are joined (topo.Graph.SetShaping).
LEMMA LinksJoinKeeps == PollInv /\ LinksJoin => PollInv'
<1> SUFFICES ASSUME PollInv, LinksJoin PROVE PollInv'
  OBVIOUS
<1> USE DEF PollInv
<1>1. /\ UNCHANGED <<shape, bgp, joined>> /\ poll.pc = "links"
      /\ shown' = [links |-> [l \in LinkSet |-> ShownEnd(l)], moved |-> poll.moved]
      /\ poll' = [pc |-> "bgp", got |-> Nothing, failed |-> {}, moved |-> {}]
  BY DEF LinksJoin, AllIn
<1>2. DOMAIN Nothing = {} /\ Nothing = [a \in {} |-> Nothing[a]]
  BY DEF Nothing
<1>3. Typed'
  BY <1>1, <1>2 DEF Typed, Replied
<1>4. AnswersHold' /\ AnswersReport'
  BY <1>1, <1>2 DEF AnswersHold, AnswersReport, Replied
<1>5. ShownWasTrue'
  <2> SUFFICES ASSUME NEW l \in LinkSet, AsOf[<<l, "A">>] \notin poll.moved
               PROVE  ShownEnd(l) \in {shape[<<l, "A">>], Nominal}
    BY <1>1 DEF ShownWasTrue
  <2>1. <<l, "A">> \in Ends
    BY DEF Ends, Sides
  <2> QED BY <1>1, <2>1 DEF ShownEnd, AnswersHold
<1>6. JoinHolds'
  <2>1. \A e \in Ends : Says(e)' = Says(e)
    BY <1>1 DEF Says
  <2> QED BY <1>1, <2>1 DEF JoinHolds
<1> QED BY <1>3, <1>4, <1>5, <1>6

\* The sessions and the routes are joined (topo.Graph.SetBGP).
LEMMA BGPJoinKeeps == PollInv /\ BGPJoin => PollInv'
<1> SUFFICES ASSUME PollInv, BGPJoin PROVE PollInv'
  OBVIOUS
<1> USE DEF PollInv
<1>1. /\ UNCHANGED <<shape, bgp, shown>> /\ poll.pc = "bgp"
      /\ joined' = [side |-> [e \in Ends |-> SideOf(e)],
                    via |-> [as \in Replied |-> poll.got[as].via], moved |-> poll.moved]
      /\ poll' = [pc |-> "idle", got |-> Nothing, failed |-> {}, moved |-> {}]
  BY DEF BGPJoin, AllIn, Rest
<1>2. DOMAIN Nothing = {} /\ Nothing = [a \in {} |-> Nothing[a]]
  BY DEF Nothing
<1>3. Typed'
  BY <1>1, <1>2 DEF Typed, Replied
<1>4. AnswersHold' /\ AnswersReport'
  BY <1>1, <1>2 DEF AnswersHold, AnswersReport, Replied
<1>5. ShownWasTrue'
  BY <1>1 DEF ShownWasTrue
<1>6. JoinHolds'
  <2>1. \A e \in Ends : Says(e)' = Says(e)
    BY <1>1 DEF Says
  <2>2. ASSUME NEW e \in Ends
        PROVE  /\ SideOf(e) \in Sessions \cup {"none"}
               /\ AsOf[e] \in poll.moved \/ SideOf(e) \in {"none", Says(e)}
    <3>1. AsOf[e] \in ASes
      BY Across
    <3>2. SideOf(e) \in Sessions \cup {"none"}
      BY <1>1, <3>1 DEF SideOf, AnswersReport
    <3>3. AsOf[e] \notin poll.moved => SideOf(e) \in {"none", Says(e)}
      BY <1>1, <3>1 DEF SideOf, AnswersHold, Says
    <3> QED BY <3>2, <3>3
  <2>3. \A as \in Replied \ poll.moved : poll.got[as].via = bgp[as].via
    BY <1>1 DEF AnswersHold
  <2> DEFINE side == [e \in Ends |-> SideOf(e)]
             via == [as \in Replied |-> poll.got[as].via]
  <2>4. side \in [Ends -> Sessions \cup {"none"}] /\ \A e \in Ends : side[e] = SideOf(e)
    BY <2>2
  <2>5. DOMAIN via = Replied /\ \A as \in Replied : via[as] = poll.got[as].via
    OBVIOUS
  <2>6. joined'.side = side /\ joined'.via = via /\ joined'.moved = poll.moved
    BY <1>1
  <2> HIDE DEF side, via
  <2> QED BY <1>1, <2>1, <2>2, <2>3, <2>4, <2>5, <2>6 DEF JoinHolds
<1> QED BY <1>3, <1>4, <1>5, <1>6

-----------------------------------------------------------------------------
(* The requests.                                                           *)

Shaping == Shapings \cup {Nominal}
Members(s) == {s[i] : i \in 1 .. Len(s)}

RequestTyped(r) ==
    req[r] # Idle =>
        req[r] \in [pc : {"calls"}, todo : Seq(Ends), to : Shaping, ok : SUBSET Ends,
                    failed : SUBSET Ends, meant : SUBSET Ends, alone : BOOLEAN]

\* The ends meant are those that are to be called and those whose result is noted; of
\* these, those whose call did not fail are shaped as asked, unless somebody else
\* changed one (Client.Apply).
RequestHolds(r) ==
    req[r] # Idle =>
        /\ req[r].meant = Members(req[r].todo) \cup req[r].ok \cup req[r].failed
        /\ req[r].alone => \A e \in req[r].ok \ (req[r].failed \cup Members(req[r].todo)) : shape[e] = req[r].to

ApplyInv ==
    /\ shape \in [Ends -> Shaping]
    /\ req = [r \in Requests |-> req[r]]
    /\ late \subseteq [end : Ends, to : Shaping]
    /\ \A r \in Requests : RequestTyped(r) /\ RequestHolds(r)

\* The head of a queue and what follows it are all of it (Client.Apply).
LEMMA HeadAndRest ==
    ASSUME NEW S, NEW s \in Seq(S), s # <<>>
    PROVE  /\ Head(s) \in S /\ Tail(s) \in Seq(S)
           /\ Members(s) = {Head(s)} \cup Members(Tail(s))
<1>1. /\ Len(s) \in Nat \ {0} /\ Head(s) = s[1] /\ Head(s) \in S /\ Tail(s) \in Seq(S)
      /\ Len(Tail(s)) = Len(s) - 1 /\ \A i \in 1 .. Len(Tail(s)) : Tail(s)[i] = s[i + 1]
  BY EmptySeq, HeadTailProperties
<1>2. ASSUME NEW i \in 1 .. Len(s) PROVE s[i] \in {Head(s)} \cup Members(Tail(s))
  <2>1. CASE i = 1
    BY <1>1, <2>1
  <2>2. CASE i # 1
    <3>1. i - 1 \in 1 .. Len(Tail(s)) /\ Tail(s)[i - 1] = s[i]
      BY <1>1, <2>2
    <3> QED BY <3>1 DEF Members
  <2> QED BY <2>1, <2>2
<1>3. ASSUME NEW i \in 1 .. Len(Tail(s)) PROVE Tail(s)[i] \in Members(s)
  <2>1. i + 1 \in 1 .. Len(s) /\ Tail(s)[i] = s[i + 1]
    BY <1>1
  <2> QED BY <2>1 DEF Members
<1>4. Head(s) \in Members(s)
  BY <1>1 DEF Members
<1> QED BY <1>1, <1>2, <1>3, <1>4 DEF Members

\* A direction's ends are those the user has in mind (Client.Apply).
LEMMA EndpointsMeant ==
    ASSUME NEW l \in LinkSet, NEW d \in {"a_to_b", "b_to_a", "both"}
    PROVE  /\ Endpoints(l, d) \in Seq(Ends)
           /\ Members(Endpoints(l, d)) =
                 {l} \X CASE d = "a_to_b" -> {"A"} [] d = "b_to_a" -> {"B"} [] d = "both" -> Sides
<1>1. <<l, "A">> \in Ends /\ <<l, "B">> \in Ends
  BY DEF Ends, Sides
<1>2. \A x : Members(<<x>>) = {x}
  BY DEF Members
<1>3. CASE d = "a_to_b"
  <2>1. Endpoints(l, d) = << <<l, "A">> >>
    BY <1>3 DEF Endpoints
  <2>2. (CASE d = "a_to_b" -> {"A"} [] d = "b_to_a" -> {"B"} [] d = "both" -> Sides) = {"A"}
    BY <1>3
  <2>3. {l} \X {"A"} = {<<l, "A">>}
    OBVIOUS
  <2>4. << <<l, "A">> >> \in Seq(Ends)
    BY <1>1
  <2> QED BY <1>2, <2>1, <2>2, <2>3, <2>4
<1>4. CASE d = "b_to_a"
  <2>1. Endpoints(l, d) = << <<l, "B">> >>
    BY <1>4 DEF Endpoints
  <2>2. (CASE d = "a_to_b" -> {"A"} [] d = "b_to_a" -> {"B"} [] d = "both" -> Sides) = {"B"}
    BY <1>4
  <2>3. {l} \X {"B"} = {<<l, "B">>}
    OBVIOUS
  <2>4. << <<l, "B">> >> \in Seq(Ends)
    BY <1>1
  <2> QED BY <1>2, <2>1, <2>2, <2>3, <2>4
<1>5. CASE d = "both"
  <2> DEFINE a == << <<l, "A">> >>
             b == << <<l, "B">> >>
  <2>1. Endpoints(l, d) = a \o b
    BY <1>5 DEF Endpoints
  <2>2. a \in Seq(Ends) /\ b \in Seq(Ends) /\ Len(a) = 1 /\ Len(b) = 1 /\ a[1] = <<l, "A">> /\ b[1] = <<l, "B">>
    BY <1>1
  <2> HIDE DEF a, b
  <2>3. /\ a \o b \in Seq(Ends) /\ Len(a \o b) = Len(a) + Len(b)
        /\ \A i \in 1 .. Len(a) + Len(b) : (a \o b)[i] = IF i <= Len(a) THEN a[i] ELSE b[i - Len(a)]
    <3>1. a \in Seq(Ends) /\ b \in Seq(Ends)
      BY <2>2
    <3> QED BY <3>1, ConcatProperties
  <2>4. \A e : e \in Members(a \o b) <=> e = <<l, "A">> \/ e = <<l, "B">>
    <3>1. Len(a \o b) = 2 /\ (a \o b)[1] = <<l, "A">> /\ (a \o b)[2] = <<l, "B">> /\ 1 .. 2 = {1, 2}
      BY <2>2, <2>3
    <3> QED BY <3>1 DEF Members
  <2>5. (CASE d = "a_to_b" -> {"A"} [] d = "b_to_a" -> {"B"} [] d = "both" -> Sides) = Sides
    BY <1>5
  <2>6. \A e : e \in {l} \X Sides <=> e = <<l, "A">> \/ e = <<l, "B">>
    BY DEF Sides
  <2> QED BY <2>1, <2>3, <2>4, <2>5, <2>6
<1> QED BY <1>3, <1>4, <1>5

\* Reset-all goes through both ends of every link (handleResetAll).
LEMMA AllEndsQueued ==
    LET queue == [i \in 1 .. 2 * Len(Links) |-> <<Links[(i + 1) \div 2], IF i % 2 = 1 THEN "A" ELSE "B">>]
    IN  queue \in Seq(Ends) /\ Members(queue) = Ends
<1> DEFINE end(i) == <<Links[(i + 1) \div 2], IF i % 2 = 1 THEN "A" ELSE "B">>
           queue == [i \in 1 .. 2 * Len(Links) |-> end(i)]
<1>1. Len(Links) \in Nat
  BY LenProperties
<1>2. ASSUME NEW i \in 1 .. 2 * Len(Links) PROVE end(i) \in Ends
  <2>1. (i + 1) \div 2 \in 1 .. Len(Links)
    BY <1>1
  <2> QED BY <2>1 DEF Ends, LinkSet, Sides
<1>3. queue \in Seq(Ends)
  BY <1>1, <1>2, IsASeq
<1>4. Len(queue) = 2 * Len(Links) /\ \A i \in 1 .. 2 * Len(Links) : queue[i] = end(i)
  BY <1>1, <1>3, LenProperties
<1>5. ASSUME NEW e \in Ends PROVE \E i \in 1 .. 2 * Len(Links) : e = end(i)
  <2>1. PICK k \in 1 .. Len(Links) : e = <<Links[k], e[2]>>
    BY DEF Ends, LinkSet
  <2>2. CASE e[2] = "A"
    <3>1. 2 * k - 1 \in 1 .. 2 * Len(Links) /\ ((2 * k - 1) + 1) \div 2 = k /\ (2 * k - 1) % 2 = 1
      BY <1>1
    <3> QED BY <2>1, <2>2, <3>1
  <2>3. CASE e[2] = "B"
    <3>1. 2 * k \in 1 .. 2 * Len(Links) /\ (2 * k + 1) \div 2 = k /\ (2 * k) % 2 # 1
      BY <1>1
    <3> QED BY <2>1, <2>3, <3>1
  <2> QED BY <2>2, <2>3 DEF Ends, Sides
<1> HIDE DEF queue, end
<1>6. Members(queue) = Ends
  BY <1>2, <1>4, <1>5 DEF Members
<1> QED BY <1>3, <1>6 DEF queue, end

\* A request begins with every end it means in its queue (applyShaping, handleResetAll).
LEMMA BeginKeeps ==
    ASSUME ApplyInv, NEW r \in Requests, NEW todo \in Seq(Ends), NEW to \in Shaping,
           Begin(r, todo, to, Members(todo))
    PROVE  ApplyInv'
<1> USE DEF ApplyInv
<1>1. /\ UNCHANGED <<shape, late>>
      /\ req' = [q \in Requests |->
                    IF q = r THEN [pc |-> "calls", todo |-> todo, to |-> to, ok |-> {}, failed |-> {},
                                   meant |-> Members(todo), alone |-> TRUE]
                    ELSE req[q]]
  BY DEF Begin
<1>2. Members(todo) \subseteq Ends
  BY ElementOfSeq DEF Members
<1>3. ASSUME NEW q \in Requests PROVE RequestTyped(q)' /\ RequestHolds(q)'
  <2>1. CASE q = r
    BY <1>1, <1>2, <2>1 DEF RequestTyped, RequestHolds
  <2>2. CASE q # r
    BY <1>1, <2>2 DEF RequestTyped, RequestHolds, Members
  <2> QED BY <2>1, <2>2
<1> QED BY <1>1, <1>3

\* Whoever is disturbed is not alone any more.
LEMMA NotAlone ==
    ASSUME ApplyInv, NEW q \in Requests, req[q] # Idle, req'[q] = [req[q] EXCEPT !.alone = FALSE]
    PROVE  RequestTyped(q)' /\ RequestHolds(q)'
<1>1. req[q] \in [pc : {"calls"}, todo : Seq(Ends), to : Shaping, ok : SUBSET Ends,
                  failed : SUBSET Ends, meant : SUBSET Ends, alone : BOOLEAN]
  BY DEF ApplyInv, RequestTyped
<1>2. req'[q] = [pc |-> "calls", todo |-> req[q].todo, to |-> req[q].to, ok |-> req[q].ok,
                 failed |-> req[q].failed, meant |-> req[q].meant, alone |-> FALSE]
  BY <1>1
<1>3. RequestTyped(q)'
  BY <1>1, <1>2 DEF RequestTyped
<1>4. RequestHolds(q)'
  BY <1>2 DEF RequestHolds, ApplyInv, Members
<1> QED BY <1>3, <1>4

\* A result is noted, whatever the linkd did (Client.Apply, call).
LEMMA NoteKeeps ==
    ASSUME ApplyInv, NEW r \in Requests, Calling(r), NEW ok \in BOOLEAN, NEW changed \in BOOLEAN,
           Note(r, ok, changed), late' \subseteq [end : Ends, to : Shaping],
           IF changed THEN Changes(r) ELSE shape' = shape, ok => changed
    PROVE  ApplyInv'
<1> USE DEF ApplyInv
<1> DEFINE e == Head(req[r].todo)
           rest == Tail(req[r].todo)
<1>1. req[r] # Idle
  BY DEF Calling, Idle
<1>2. /\ req[r] \in [pc : {"calls"}, todo : Seq(Ends), to : Shaping, ok : SUBSET Ends,
                      failed : SUBSET Ends, meant : SUBSET Ends, alone : BOOLEAN]
      /\ req[r].todo # <<>>
  BY <1>1 DEF Calling, RequestTyped
<1>3. e \in Ends /\ rest \in Seq(Ends) /\ Members(req[r].todo) = {e} \cup Members(rest)
  BY <1>2, HeadAndRest
<1> DEFINE noted == [pc |-> "calls", todo |-> rest, to |-> req[r].to,
                     ok |-> req[r].ok \cup (IF ok THEN {e} ELSE {}),
                     failed |-> req[r].failed \cup (IF ok THEN {} ELSE {e}),
                     meant |-> req[r].meant, alone |-> req[r].alone]
<1>4. req' = [q \in Requests |-> IF q = r THEN noted
                                 ELSE IF changed /\ req[q] # Idle THEN [req[q] EXCEPT !.alone = FALSE]
                                 ELSE req[q]]
  BY Zenon DEF Note
<1> HIDE DEF e, rest
<1>5. shape' \in [Ends -> Shaping] /\ \A f \in Ends : shape'[f] = IF changed /\ f = e THEN req[r].to ELSE shape[f]
  BY <1>2, <1>3 DEF Changes, e
<1>6. ASSUME NEW q \in Requests PROVE RequestTyped(q)' /\ RequestHolds(q)'
  <2>1. CASE q = r
    <3>1. req'[q] = noted
      BY <1>4, <2>1
    <3>2. RequestTyped(q)'
      BY <1>2, <1>3, <3>1 DEF RequestTyped
    <3>3. noted.meant = Members(rest) \cup noted.ok \cup noted.failed
      BY <1>1, <1>3 DEF RequestHolds
    <3>4. ASSUME noted.alone, NEW f \in noted.ok \ (noted.failed \cup Members(rest))
          PROVE  shape'[f] = noted.to
      <4>1. CASE f = e
        BY <1>3, <1>5, <3>4, <4>1
      <4>2. CASE f # e
        <5>1. f \in req[r].ok \ (req[r].failed \cup Members(req[r].todo)) /\ f \in Ends
          BY <1>2, <1>3, <3>4, <4>2
        <5> QED BY <1>1, <1>5, <3>4, <4>2, <5>1 DEF RequestHolds
      <4> QED BY <4>1, <4>2
    <3>5. RequestHolds(q)'
      BY <3>1, <3>3, <3>4 DEF RequestHolds, Members
    <3> QED BY <3>2, <3>5
  <2>2. CASE q # r /\ changed /\ req[q] # Idle
    <3>1. req'[q] = [req[q] EXCEPT !.alone = FALSE]
      BY <1>4, <2>2
    <3> QED BY <2>2, <3>1, NotAlone
  <2>3. CASE q # r /\ ~changed
    <3>1. req'[q] = req[q] /\ shape' = shape
      BY <1>4, <2>3
    <3> QED BY <3>1 DEF RequestTyped, RequestHolds, Members
  <2>4. CASE q # r /\ req[q] = Idle
    <3>1. req'[q] = Idle
      BY <1>4, <2>4
    <3> QED BY <3>1 DEF RequestTyped, RequestHolds
  <2> QED BY <2>1, <2>2, <2>3, <2>4
<1> QED BY <1>4, <1>5, <1>6

\* An end changes by another's hand (a late call, another dashboard, a user of the AS).
LEMMA AnotherKeeps ==
    ASSUME ApplyInv, NEW e \in Ends, NEW to \in Shaping, shape' = [shape EXCEPT ![e] = to],
           req' = Disturbed, late' \subseteq late
    PROVE  ApplyInv'
<1> USE DEF ApplyInv
<1>1. shape' \in [Ends -> Shaping] /\ late' \subseteq [end : Ends, to : Shaping]
  OBVIOUS
<1>2. req' = [q \in Requests |-> IF req[q] = Idle THEN Idle ELSE [req[q] EXCEPT !.alone = FALSE]]
  BY DEF Disturbed
<1>3. ASSUME NEW q \in Requests PROVE RequestTyped(q)' /\ RequestHolds(q)'
  <2>1. CASE req[q] = Idle
    <3>1. req'[q] = Idle
      BY <1>2, <2>1
    <3> QED BY <3>1 DEF RequestTyped, RequestHolds
  <2>2. CASE req[q] # Idle
    <3>1. req'[q] = [req[q] EXCEPT !.alone = FALSE]
      BY <1>2, <2>2
    <3> QED BY <2>2, <3>1, NotAlone
  <2> QED BY <2>1, <2>2
<1> QED BY <1>1, <1>2, <1>3

\* The queue of a request, while it calls.
LEMMA NextCall ==
    ASSUME ApplyInv, NEW r \in Requests, Calling(r)
    PROVE  Head(req[r].todo) \in Ends /\ req[r].to \in Shaping
<1>1. req[r] # Idle
  BY DEF Calling, Idle
<1>2. req[r].todo \in Seq(Ends) /\ req[r].todo # <<>> /\ req[r].to \in Shaping
  BY <1>1 DEF ApplyInv, RequestTyped, Calling
<1> QED BY <1>2, HeadAndRest

\* A handler's step keeps what is known of the requests, and changes one end at most
\* (applyShaping, handleResetAll, Client.Apply).
LEMMA ApplyKeeps ==
    ASSUME ApplyInv, ApplyNext
    PROVE  /\ ApplyInv'
           /\ shape' = shape \/ \E e \in Ends, to \in Shaping : shape' = [shape EXCEPT ![e] = to]
<1>1. ASSUME NEW r \in Requests, Ask(r) PROVE ApplyInv' /\ shape' = shape
  <2>1. PICK a \in Asked, to \in Shaping :
          Begin(r, Endpoints(a[1], a[2]), to,
                {a[1]} \X CASE a[2] = "a_to_b" -> {"A"} [] a[2] = "b_to_a" -> {"B"} [] a[2] = "both" -> Sides)
    BY <1>1 DEF Ask, Shaping
  <2>2. a[1] \in LinkSet /\ a[2] \in {"a_to_b", "b_to_a", "both"}
    OBVIOUS
  <2>3. Begin(r, Endpoints(a[1], a[2]), to, Members(Endpoints(a[1], a[2])))
    BY <2>1, <2>2, EndpointsMeant
  <2> QED BY <2>2, <2>3, EndpointsMeant, BeginKeeps DEF Begin
<1>2. ASSUME NEW r \in Requests, ResetAll(r) PROVE ApplyInv' /\ shape' = shape
  <2> DEFINE queue == [i \in 1 .. 2 * Len(Links) |-> <<Links[(i + 1) \div 2], IF i % 2 = 1 THEN "A" ELSE "B">>]
  <2>1. queue \in Seq(Ends) /\ Members(queue) = Ends
    BY AllEndsQueued
  <2>2. Begin(r, queue, Nominal, Ends)
    BY <1>2 DEF ResetAll
  <2> HIDE DEF queue
  <2>3. Begin(r, queue, Nominal, Members(queue)) /\ Nominal \in Shaping
    BY <2>1, <2>2 DEF Shaping
  <2> QED BY <2>1, <2>3, BeginKeeps DEF Begin
<1>3. ASSUME NEW r \in Requests, CallOk(r) PROVE ApplyInv' /\ Changes(r) /\ Calling(r)
  <2>1. Calling(r) /\ Changes(r) /\ Note(r, TRUE, TRUE) /\ late' \subseteq [end : Ends, to : Shaping]
    BY <1>3 DEF CallOk, ApplyInv
  <2> QED BY <2>1, NoteKeeps
<1>4. ASSUME NEW r \in Requests, CallFails(r) PROVE ApplyInv' /\ shape' = shape
  <2>1. Calling(r) /\ shape' = shape /\ Note(r, FALSE, FALSE) /\ late' \subseteq [end : Ends, to : Shaping]
    BY <1>4 DEF CallFails, ApplyInv
  <2> QED BY <2>1, NoteKeeps
<1>5. ASSUME NEW r \in Requests, CallLost(r) PROVE ApplyInv' /\ Changes(r) /\ Calling(r)
  <2>1. Calling(r) /\ Changes(r) /\ Note(r, FALSE, TRUE) /\ late' \subseteq [end : Ends, to : Shaping]
    BY <1>5 DEF CallLost, ApplyInv
  <2> QED BY <2>1, NoteKeeps
<1>6. ASSUME NEW r \in Requests, CallLate(r) PROVE ApplyInv' /\ shape' = shape
  <2>1. Calling(r) /\ shape' = shape /\ Note(r, FALSE, FALSE)
    BY <1>6 DEF CallLate
  <2>2. late' \subseteq [end : Ends, to : Shaping]
    BY <1>6, <2>1, NextCall DEF CallLate, ApplyInv
  <2> QED BY <2>1, <2>2, NoteKeeps
<1>7. ASSUME NEW r \in Requests, Answer(r) PROVE ApplyInv' /\ shape' = shape
  <2>1. req' = [req EXCEPT ![r] = Idle] /\ UNCHANGED <<shape, late>>
    BY <1>7 DEF Answer
  <2>2. ASSUME NEW q \in Requests PROVE RequestTyped(q)' /\ RequestHolds(q)'
    BY <2>1 DEF ApplyInv, RequestTyped, RequestHolds, Members
  <2> QED BY <2>1, <2>2 DEF ApplyInv
<1>8. ASSUME NEW c \in late, Late(c)
      PROVE  ApplyInv' /\ \E e \in Ends, to \in Shaping : shape' = [shape EXCEPT ![e] = to]
  <2>1. c.end \in Ends /\ c.to \in Shaping
    BY DEF ApplyInv
  <2> QED BY <1>8, <2>1, AnotherKeeps DEF Late
<1>9. ASSUME NEW r \in Requests, Changes(r), Calling(r)
      PROVE  \E e \in Ends, to \in Shaping : shape' = [shape EXCEPT ![e] = to]
  BY <1>9, NextCall DEF Changes
<1> QED BY <1>1, <1>2, <1>3, <1>4, <1>5, <1>6, <1>7, <1>8, <1>9 DEF ApplyNext, Call

-----------------------------------------------------------------------------
(* Requests and polls beside each other.                                   *)

ControlInv == ApplyInv /\ PollInv

\* Nothing is asked or shown yet (Broadcast).
LEMMA InitControl == ControlInit => ControlInv
<1> SUFFICES ASSUME ControlInit PROVE ControlInv
  OBVIOUS
<1>1. ApplyInv
  BY DEF ControlInit, ApplyInit, ApplyInv, RequestTyped, RequestHolds, Shaping
<1>2. PollInv
  BY <1>1, InitPoll DEF ControlInit, ApplyInv, Shaping
<1> QED BY <1>1, <1>2 DEF ControlInv

\* No step spoils what is known of the requests and of the polls (api.go, client.go).
LEMMA StepControl == ControlInv /\ [ControlNext]_controlVars => ControlInv'
<1> SUFFICES ASSUME ControlInv, [ControlNext]_controlVars PROVE ControlInv'
  OBVIOUS
<1> USE DEF ControlInv
<1>1. ASSUME UNCHANGED <<shape, req, late>> PROVE ApplyInv'
  BY <1>1 DEF ApplyInv, RequestTyped, RequestHolds, Members
<1>2. CASE Requested
  <2>1. ApplyInv' /\ (shape' = shape \/ \E e \in Ends, to \in Shaping : shape' = [shape EXCEPT ![e] = to])
    BY <1>2, ApplyKeeps DEF Requested
  <2>2. CASE shape' = shape
    BY <1>2, <2>1, <2>2, PollRests DEF Requested, Noticed, pollVars
  <2>3. ASSUME NEW e \in Ends, NEW to \in Shaping, shape' = [shape EXCEPT ![e] = to] PROVE PollInv'
    BY <1>2, <2>3, ShapeKeeps DEF Requested, Shaping
  <2> QED BY <2>1, <2>2, <2>3
<1>3. CASE Polled
  <2>1. ApplyInv'
    BY <1>1, <1>3 DEF Polled, PollNext, PollStarts, LinksJoin, BGPJoin, Fetch, FetchFails, requestVars
  <2>2. PollInv'
    BY <1>3, StartKeeps, FetchKeeps, LinksJoinKeeps, BGPJoinKeeps DEF Polled, PollNext
  <2> QED BY <2>1, <2>2
<1>4. ASSUME NEW e \in Ends, NEW to \in Shaping, Reshaped(e, to) PROVE ControlInv'
  <2>1. ApplyInv'
    BY <1>4, AnotherKeeps DEF Reshaped, Another
  <2>2. shape' \in [Ends -> Shaping] /\ \A f \in Ends : AsOf[f] # AsOf[e] => shape'[f] = shape[f]
    BY <1>4 DEF Reshaped, Another, ApplyInv
  <2>3. PollInv'
    BY <1>4, <2>2, MovesKeep, Across DEF Reshaped, Reshape, PollInv, Typed, Shaping
  <2> QED BY <2>1, <2>3
<1>5. ASSUME NEW x \in ASes, NEW r \in Reports[x], Converged(x, r) PROVE ControlInv'
  BY <1>1, <1>5, ConvergeKeeps DEF Converged, Converge, requestVars
<1>6. CASE UNCHANGED controlVars
  BY <1>1, <1>6, PollRests DEF controlVars, requestVars, pollerVars, pollVars
<1> QED BY <1>2, <1>3, <1>4, <1>5, <1>6 DEF ControlNext, Shaping

\* What is known holds in every state (api.go, client.go).
LEMMA ControlHolds == ControlSpec => []ControlInv
<1> QED BY InitControl, StepControl, PTL DEF ControlSpec

\* Requests, polls and what is shown stay well-formed: calls go to ends only, and what
\* was joined is of links and ASes that exist (Client.Apply, Poll, PollBGP).
THEOREM ControlTyped == ControlSpec => []ControlTypeOK
<1>1. ControlInv => ControlTypeOK
  <2> SUFFICES ASSUME ControlInv PROVE ControlTypeOK
    OBVIOUS
  <2>1. ApplyTypeOK
    <3>1. ASSUME NEW r \in Requests, req[r] # Idle
          PROVE  /\ \A i \in 1 .. Len(req[r].todo) : req[r].todo[i] \in Ends
                 /\ req[r].ok \subseteq Ends /\ req[r].failed \subseteq Ends /\ req[r].to \in Shaping
      <4>1. req[r] \in [pc : {"calls"}, todo : Seq(Ends), to : Shaping, ok : SUBSET Ends,
                        failed : SUBSET Ends, meant : SUBSET Ends, alone : BOOLEAN]
        BY <3>1 DEF ControlInv, ApplyInv, RequestTyped
      <4> QED BY <4>1, ElementOfSeq
    <3> QED BY <3>1 DEF ControlInv, ApplyInv, ApplyTypeOK, Shaping
  <2>2. PollTypeOK
    BY DEF ControlInv, PollInv, Typed, PollTypeOK
  <2> QED BY <2>1, <2>2 DEF ControlTypeOK
<1> QED BY <1>1, ControlHolds, PTL

\* A link is never shown shaped in a way that its end at side A has not been since the
\* poll began to ask (Client.Poll, topo.Graph.SetShaping).
THEOREM WhatIsShownWasTrue == ControlSpec => []ShownWasTrue
<1>1. ControlInv => ShownWasTrue
  BY DEF ControlInv, PollInv
<1> QED BY <1>1, ControlHolds, PTL

\* Whatever the calls came to, an end that differs from what was asked is named in the
\* answer of a request that nobody interfered with (applyShaping, allFailed).
THEOREM HalvesAreNamed == ControlSpec => HalfIsNamed
<1> DEFINE Named == \A r \in Requests :
                      Answer(r) /\ req[r].alone =>
                         /\ {e \in req[r].meant : shape[e] # req[r].to} \subseteq req[r].failed
                         /\ AllFailed(r) => req[r].meant = req[r].failed
<1>1. ControlInv => Named
  <2> SUFFICES ASSUME ControlInv, NEW r \in Requests, req[r].pc = "calls", req[r].todo = <<>>, req[r].alone
               PROVE  /\ {e \in req[r].meant : shape[e] # req[r].to} \subseteq req[r].failed
                      /\ AllFailed(r) => req[r].meant = req[r].failed
    BY DEF Answer
  <2>1. req[r] # Idle
    BY DEF Idle
  <2>2. Members(req[r].todo) = {}
    BY DEF Members
  <2>3. /\ req[r].meant = req[r].ok \cup req[r].failed
        /\ \A e \in req[r].ok \ req[r].failed : shape[e] = req[r].to
    BY <2>1, <2>2 DEF ControlInv, ApplyInv, RequestHolds
  <2> QED BY <2>3 DEF AllFailed
<1> QED BY <1>1, ControlHolds, PTL DEF HalfIsNamed

-----------------------------------------------------------------------------
(* What frames make of the polls.                                          *)

\* A badge says of a link what both its ends say, as long as neither's AS has changed
\* (bgpBadge).
THEOREM BadgesAreAgreed == ControlSpec => []BadgeIsAgreed
<1>1. ControlInv => BadgeIsAgreed
  <2> SUFFICES ASSUME ControlInv, joined.side # Nothing, NEW l \in LinkSet,
                      \A s \in Sides : AsOf[<<l, s>>] \notin joined.moved
               PROVE  LET own == {Says(<<l, s>>) : s \in Sides}
                      IN  /\ Badge(l) = "up" => own = {"up"}
                          /\ Badge(l) = "degraded" => "fresh" \in own /\ own \subseteq {"up", "fresh"}
                          /\ Badge(l) = "down" => "down" \in own
    BY DEF BadgeIsAgreed, Says
  <2> DEFINE a == <<l, "A">>
             b == <<l, "B">>
  <2>1. a \in Ends /\ b \in Ends /\ AsOf[a] \notin joined.moved /\ AsOf[b] \notin joined.moved
    BY DEF Ends, Sides
  <2>2. /\ joined.side[a] \in Sessions \cup {"none"} /\ joined.side[a] \in {"none", Says(a)}
        /\ joined.side[b] \in Sessions \cup {"none"} /\ joined.side[b] \in {"none", Says(b)}
    BY <2>1 DEF ControlInv, PollInv, JoinHolds
  <2>3. /\ {Says(<<l, s>>) : s \in Sides} = {Says(a), Says(b)}
        /\ {joined.side[<<l, s>>] : s \in Sides} = {joined.side[a], joined.side[b]}
    BY DEF Sides
  <2>4. Badge(l) = IF "none" \in {joined.side[a], joined.side[b]} THEN "unknown"
                   ELSE IF "down" \in {joined.side[a], joined.side[b]} THEN "down"
                   ELSE IF "fresh" \in {joined.side[a], joined.side[b]} THEN "degraded"
                   ELSE "up"
    BY <2>3 DEF Badge
  <2> HIDE DEF a, b
  <2> QED BY <2>2, <2>3, <2>4 DEF Sessions
<1> QED BY <1>1, ControlHolds, PTL

\* What holds of 0, and of n + 1 if of n, holds of all numbers.
LEMMA Counting ==
    ASSUME NEW T, 0 \in T, \A n \in Nat : n \in T => n + 1 \in T
    PROVE  \A n \in Nat : n \in T
<1> DEFINE Others == {n \in Nat : n \notin T}  R == OpToRel(<, Nat)
<1>1. R = {ss \in Nat \X Nat : ss[1] < ss[2]}
  BY Zenon DEF OpToRel
<1>2. IsWellFoundedOn(R, Nat)
  BY NatLessThanWellFounded
<1> HIDE DEF R
<1>3. ASSUME Others # {} PROVE FALSE
  <2>1. \E x \in Others : \A y \in Others : ~(<<y, x>> \in R)
    <3>1. Others \subseteq Nat
      OBVIOUS
    <3> HIDE DEF Others
    <3> QED BY <1>2, <1>3, <3>1, WFMin
  <2>2. PICK n \in Others : \A y \in Others : ~(<<y, n>> \in R)
    BY <2>1
  <2>3. n \in Nat /\ n # 0 /\ n \notin T
    OBVIOUS
  <2>4. n - 1 \in Nat /\ n - 1 < n /\ (n - 1) + 1 = n
    BY <2>3
  <2>5. <<n - 1, n>> \in R
    BY <1>1, <2>3, <2>4
  <2>6. n - 1 \in T
    BY <2>2, <2>4, <2>5
  <2>7. (n - 1) + 1 \in T
    BY <2>4, <2>6
  <2> QED BY <2>3, <2>4, <2>7
<1> QED BY <1>3

Turns == Cardinality(ASes)

\* The paths that Walk's loop goes through, from src on.
Paths(src, walk) == walk = [n \in 0 .. Turns |-> IF n = 0 THEN <<src>> ELSE Hop(walk[n - 1])]

LEMMA TurnsAreFinite == Turns \in Nat
BY FS_CardinalityType DEF Turns

\* Walk's loop goes through some paths (bgppath.Walk).
LEMMA WalkGoes == ASSUME NEW src PROVE \E walk : Paths(src, walk) /\ Walk(src) = walk[Turns]
<1> DEFINE Upto(k, g) == g = [n \in 0 .. k |-> IF n = 0 THEN <<src>> ELSE Hop(g[n - 1])]
           T == {k \in Nat : \E g : Upto(k, g)}
<1>1. 0 \in T
  <2> DEFINE g == [n \in 0 .. 0 |-> <<src>>]
  <2>1. Upto(0, g)
    OBVIOUS
  <2> QED BY <2>1
<1>2. ASSUME NEW k \in Nat, k \in T PROVE k + 1 \in T
  <2>1. PICK g : Upto(k, g)
    BY <1>2
  <2> DEFINE h == [n \in 0 .. k + 1 |-> IF n = k + 1 THEN Hop(g[k]) ELSE g[n]]
  <2>2. ASSUME NEW n \in 0 .. k + 1 PROVE h[n] = IF n = 0 THEN <<src>> ELSE Hop(h[n - 1])
    <3>1. CASE n = 0
      BY <2>1, <3>1
    <3>2. CASE n = k + 1
      BY <3>2
    <3>3. CASE n # 0 /\ n # k + 1
      <4>1. n \in 0 .. k /\ n - 1 \in 0 .. k + 1 /\ n - 1 # k + 1
        BY <3>3
      <4>2. h[n] = g[n] /\ h[n - 1] = g[n - 1] /\ g[n] = Hop(g[n - 1])
        BY <2>1, <3>3, <4>1
      <4> QED BY <3>3, <4>2
    <3> QED BY <3>1, <3>2, <3>3
  <2>3. Upto(k + 1, h)
    <3>1. h = [n \in 0 .. k + 1 |-> h[n]]
      OBVIOUS
    <3> HIDE DEF h
    <3> QED BY <2>2, <3>1
  <2> HIDE DEF h, Upto
  <2> QED BY <2>3
<1>3. Turns \in T
  <2> HIDE DEF T
  <2> QED BY <1>1, <1>2, Counting, TurnsAreFinite
<1>4. \E walk : Paths(src, walk)
  BY <1>3 DEF Paths
<1> DEFINE W == CHOOSE walk : walk = [n \in 0 .. Turns |-> IF n = 0 THEN <<src>> ELSE Hop(walk[n - 1])]
<1>5. Walk(src) = W[Turns]
  BY DEF Walk, Turns
<1>6. Paths(src, W)
  BY <1>4 DEF Paths
<1> QED BY <1>5, <1>6

\* A path drawn so far: it begins at its source, visits no AS twice, and leaves each AS
\* but the last by the interface its route names (bgppath.Walk).
Drawn(src, path) ==
    /\ path \in Seq(ASes) /\ Len(path) >= 1 /\ path[1] = src
    /\ \A i, j \in 1 .. Len(path) : path[i] = path[j] => i = j
    /\ \A i \in 1 .. Len(path) - 1 :
          /\ path[i] # Dst /\ path[i] \in DOMAIN joined.via
          /\ joined.via[path[i]] \in EndsOf(path[i])
          /\ path[i + 1] = Peer(joined.via[path[i]])

\* A turn of the loop draws on, by one AS that was not visited (bgppath.Walk).
LEMMA HopDraws ==
    ASSUME NEW src \in ASes, NEW path, Drawn(src, path)
    PROVE  /\ Drawn(src, Hop(path))
           /\ Hop(path) = path \/ Len(Hop(path)) = Len(path) + 1
<1> DEFINE cur == Last(path)
           next == Peer(joined.via[cur])
<1>1. CASE Hop(path) = path
  BY <1>1
<1>2. CASE Hop(path) # path
  <2>1. /\ cur # Dst /\ cur \in DOMAIN joined.via /\ joined.via[cur] \in EndsOf(cur)
        /\ next \notin Visited(path) /\ Hop(path) = Append(path, next)
    BY <1>2 DEF Hop
  <2>2. next \in ASes
    BY <2>1, Across DEF EndsOf
  <2>3. Len(path) \in Nat /\ path \in Seq(ASes) /\ Len(path) >= 1 /\ cur = path[Len(path)]
    BY LenProperties DEF Drawn, Last
  <2> HIDE DEF next, cur
  <2>4. /\ Append(path, next) \in Seq(ASes) /\ Len(Append(path, next)) = Len(path) + 1
        /\ \A i \in 1 .. Len(path) : Append(path, next)[i] = path[i]
        /\ Append(path, next)[Len(path) + 1] = next
    BY <2>2, <2>3
  <2> DEFINE longer == Append(path, next)
  <2> HIDE DEF longer
  <2>5. \A i \in 1 .. Len(path) : path[i] # next
    BY <2>1 DEF Visited, next
  <2>6. \A i, j \in 1 .. Len(longer) : longer[i] = longer[j] => i = j
    <3> SUFFICES ASSUME NEW i \in 1 .. Len(longer), NEW j \in 1 .. Len(longer), longer[i] = longer[j]
                 PROVE  i = j
      OBVIOUS
    <3>1. CASE i \in 1 .. Len(path) /\ j \in 1 .. Len(path)
      BY <2>3, <2>4, <3>1 DEF Drawn, longer
    <3>2. CASE i = Len(path) + 1 /\ j = Len(path) + 1
      BY <3>2
    <3>3. CASE i \in 1 .. Len(path) /\ j = Len(path) + 1
      BY <2>4, <2>5, <3>3 DEF longer
    <3>4. CASE i = Len(path) + 1 /\ j \in 1 .. Len(path)
      BY <2>4, <2>5, <3>4 DEF longer
    <3> QED BY <2>3, <2>4, <3>1, <3>2, <3>3, <3>4 DEF longer
  <2>7. ASSUME NEW i \in 1 .. Len(longer) - 1
        PROVE  /\ longer[i] # Dst /\ longer[i] \in DOMAIN joined.via
               /\ joined.via[longer[i]] \in EndsOf(longer[i])
               /\ longer[i + 1] = Peer(joined.via[longer[i]])
    <3>1. CASE i = Len(path)
      BY <2>1, <2>3, <2>4, <3>1 DEF longer, next
    <3>2. CASE i # Len(path)
      <4>1. i \in 1 .. Len(path) - 1 /\ i \in 1 .. Len(path) /\ i + 1 \in 1 .. Len(path)
        BY <2>3, <2>4, <3>2 DEF longer
      <4>2. longer[i] = path[i] /\ longer[i + 1] = path[i + 1]
        BY <2>4, <4>1 DEF longer
      <4> QED BY <4>1, <4>2 DEF Drawn
    <3> QED BY <3>1, <3>2
  <2>8. longer \in Seq(ASes) /\ Len(longer) = Len(path) + 1 /\ longer[1] = src
    BY <2>3, <2>4 DEF longer, Drawn
  <2>9. Drawn(src, longer)
    BY <2>3, <2>6, <2>7, <2>8 DEF Drawn
  <2> QED BY <2>1, <2>8, <2>9 DEF longer
<1> QED BY <1>1, <1>2

\* The path drawn is one, and the loop has nothing to add to it: no AS is visited twice,
\* so that as many turns as there are ASes are enough (bgppath.Walk).
LEMMA WalkIsDrawn ==
    ASSUME NEW src \in ASes
    PROVE  Drawn(src, Walk(src)) /\ Hop(Walk(src)) = Walk(src)
<1>1. PICK walk : Paths(src, walk) /\ Walk(src) = walk[Turns]
  BY WalkGoes
<1>2. Turns \in Nat
  BY TurnsAreFinite
<1>3. walk[0] = <<src>> /\ \A n \in 1 .. Turns : walk[n] = Hop(walk[n - 1])
  BY <1>1, <1>2 DEF Paths
<1> DEFINE T == {n \in Nat : n <= Turns =>
                    /\ Drawn(src, walk[n])
                    /\ Hop(walk[n]) = walk[n] \/ Len(walk[n]) = n + 1}
<1>4. 0 \in T
  <2>1. <<src>> \in Seq(ASes) /\ Len(<<src>>) = 1 /\ <<src>>[1] = src
    OBVIOUS
  <2>2. Drawn(src, <<src>>)
    BY <2>1 DEF Drawn
  <2> QED BY <1>3, <2>1, <2>2
<1>5. ASSUME NEW n \in Nat, n \in T PROVE n + 1 \in T
  <2> SUFFICES ASSUME n + 1 <= Turns
               PROVE  /\ Drawn(src, walk[n + 1])
                      /\ Hop(walk[n + 1]) = walk[n + 1] \/ Len(walk[n + 1]) = (n + 1) + 1
    OBVIOUS
  <2>1. Drawn(src, walk[n]) /\ (Hop(walk[n]) = walk[n] \/ Len(walk[n]) = n + 1)
    BY <1>2, <1>5
  <2>2. walk[n + 1] = Hop(walk[n])
    BY <1>2, <1>3
  <2>3. Drawn(src, Hop(walk[n])) /\ (Hop(walk[n]) = walk[n] \/ Len(Hop(walk[n])) = Len(walk[n]) + 1)
    BY <2>1, HopDraws
  <2> QED BY <2>1, <2>2, <2>3
<1>6. Turns \in T
  <2> HIDE DEF T
  <2> QED BY <1>2, <1>4, <1>5, Counting
<1> DEFINE path == walk[Turns]
<1>7. Drawn(src, path) /\ (Hop(path) = path \/ Len(path) = Turns + 1)
  BY <1>2, <1>6
<1> HIDE DEF path
<1>8. Len(path) # Turns + 1
  <2> SUFFICES ASSUME Len(path) = Turns + 1 PROVE FALSE
    OBVIOUS
  <2>1. path \in [1 .. Turns + 1 -> ASes]
    BY <1>7, LenProperties DEF Drawn
  <2>2. IsFiniteSet(1 .. Turns + 1) /\ Cardinality(1 .. Turns + 1) = Turns + 1
    BY <1>2, FS_Interval
  <2>3. IsFiniteSet(ASes) /\ Cardinality(ASes) < Cardinality(1 .. Turns + 1)
    BY <1>2, <2>2 DEF Turns
  <2>4. \E i, j \in 1 .. Turns + 1 : i # j /\ path[i] = path[j]
    BY <2>1, <2>2, <2>3, FS_PigeonHole
  <2> QED BY <1>7, <2>4 DEF Drawn
<1> QED BY <1>1, <1>7, <1>8 DEF path

\* The path is drawn as the ASes on it route, as far as they have not changed; with
\* every AS's answer, none outdated, it ends at the destination exactly if packets that
\* follow the routes get there (bgppath.Walk, Complete).
THEOREM PathsAreRouted == ControlSpec => []PathIsRouted
<1>1. ASSUME ControlInv PROVE PathIsRouted
  <2> DEFINE Onto(a) == {Peer(e) : e \in {bgp[a].via} \cap EndsOf(a)}
             Closed(S) == \A a \in S \ {Dst} : Onto(a) \subseteq S
  <2> SUFFICES ASSUME NEW src \in ASes
               PROVE  LET path == Walk(src)
                      IN  /\ \A i, j \in 1 .. Len(path) : path[i] = path[j] => i = j
                          /\ \A i \in 1 .. Len(path) - 1 :
                                path[i] \in joined.moved \/ path[i + 1] \in Onto(path[i])
                          /\ DOMAIN joined.via = ASes /\ joined.moved = {} =>
                                (Complete(src) <=> \A S \in SUBSET ASes : src \in S /\ Closed(S) => Dst \in S)
    BY DEF PathIsRouted
  <2> DEFINE path == Walk(src)
  <2>1. Drawn(src, path) /\ Hop(path) = path
    BY WalkIsDrawn
  <2>2. Complete(src) <=> path[Len(path)] = Dst
    BY DEF Complete, Last
  <2> HIDE DEF path
  <2>3. Len(path) \in Nat /\ Len(path) >= 1 /\ path[1] = src /\ \A i \in 1 .. Len(path) : path[i] \in ASes
    BY <2>1, LenProperties, ElementOfSeq DEF Drawn
  <2>4. ASSUME NEW i \in 1 .. Len(path) - 1, path[i] \notin joined.moved
        PROVE  path[i + 1] \in Onto(path[i])
    <3>1. /\ path[i] \in DOMAIN joined.via /\ joined.via[path[i]] \in EndsOf(path[i])
          /\ path[i + 1] = Peer(joined.via[path[i]])
      BY <2>1 DEF Drawn
    <3>2. joined.via[path[i]] = bgp[path[i]].via
      BY <1>1, <2>4, <3>1 DEF ControlInv, PollInv, JoinHolds
    <3> QED BY <3>1, <3>2
  <2>5. ASSUME joined.moved = {}, path[Len(path)] = Dst, NEW S \in SUBSET ASes, src \in S, Closed(S)
        PROVE  Dst \in S
    <3> DEFINE T == {n \in Nat : n + 1 <= Len(path) => path[n + 1] \in S}
    <3>1. 0 \in T
      BY <2>3, <2>5
    <3>2. ASSUME NEW n \in Nat, n \in T PROVE n + 1 \in T
      <4> SUFFICES ASSUME (n + 1) + 1 <= Len(path) PROVE path[(n + 1) + 1] \in S
        OBVIOUS
      <4>1. n + 1 \in 1 .. Len(path) - 1 /\ path[n + 1] \in S
        BY <2>3, <3>2
      <4>2. path[n + 1] # Dst
        BY <2>1, <4>1 DEF Drawn
      <4>3. path[(n + 1) + 1] \in Onto(path[n + 1])
        BY <2>4, <2>5, <4>1
      <4> HIDE DEF Onto
      <4> QED BY <2>5, <4>1, <4>2, <4>3
    <3> HIDE DEF T
    <3>3. Len(path) - 1 \in T
      BY <2>3, <3>1, <3>2, Counting
    <3> QED BY <2>3, <2>5, <3>3 DEF T
  <2>6. ASSUME DOMAIN joined.via = ASes, joined.moved = {}, path[Len(path)] # Dst
        PROVE  \E S \in SUBSET ASes : src \in S /\ Closed(S) /\ Dst \notin S
    <3> DEFINE V == Visited(path)
    <3>1. V \in SUBSET ASes /\ src \in V
      BY <2>3 DEF Visited
    <3>2. Dst \notin V
      <4> SUFFICES ASSUME NEW i \in 1 .. Len(path), path[i] = Dst PROVE FALSE
        BY DEF Visited
      <4>1. i \in 1 .. Len(path) - 1
        BY <2>3, <2>6
      <4> QED BY <2>1, <4>1 DEF Drawn
    <3>3. ASSUME NEW a \in V, NEW b \in Onto(a) PROVE b \in V
      <4>1. PICK i \in 1 .. Len(path) : path[i] = a
        BY DEF Visited
      <4>2. a \in ASes /\ bgp[a].via \in EndsOf(a) /\ b = Peer(bgp[a].via) /\ joined.via[a] = bgp[a].via
        BY <1>1, <2>3, <2>6, <4>1 DEF ControlInv, PollInv, JoinHolds
      <4>3. CASE i = Len(path)
        <5>1. Hop(path) = path /\ a = Last(path) /\ a # Dst /\ a \in DOMAIN joined.via
          BY <2>1, <2>6, <4>1, <4>2, <4>3 DEF Last
        <5>2. ASSUME b \notin V PROVE FALSE
          <6>1. Hop(path) = Append(path, b)
            BY <4>2, <5>1, <5>2 DEF Hop
          <6>2. Len(Append(path, b)) = Len(path) + 1
            BY <2>1 DEF Drawn
          <6> QED BY <2>3, <5>1, <6>1, <6>2
        <5> QED BY <5>2
      <4>4. CASE i # Len(path)
        <5>1. i \in 1 .. Len(path) - 1 /\ i + 1 \in 1 .. Len(path)
          BY <2>3, <4>4
        <5>2. path[i + 1] = b
          BY <2>1, <4>1, <4>2, <5>1 DEF Drawn
        <5> QED BY <5>1, <5>2 DEF Visited
      <4> QED BY <4>3, <4>4
    <3> HIDE DEF V, Onto
    <3>4. Closed(V)
      BY <3>3
    <3> QED BY <3>1, <3>2, <3>4
  <2>7. \A i, j \in 1 .. Len(path) : path[i] = path[j] => i = j
    BY <2>1 DEF Drawn
  <2> HIDE DEF Closed, Onto
  <2> QED BY <2>2, <2>4, <2>5, <2>6, <2>7 DEF path
<1> QED BY <1>1, ControlHolds, PTL
=============================================================================
