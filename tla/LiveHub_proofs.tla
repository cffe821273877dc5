---------------------------- MODULE LiveHub_proofs ---------------------------
(***************************************************************************)
(* What the hub and the poller keep for any number of pages.               *)
(*                                                                         *)
(* The broadcast writes to clients whose handlers have registered them,    *)
(* and to those that have left meanwhile: none of the pages in todo is on  *)
(* its way in.  That, what a handler has done by each of its steps, and    *)
(* how far the one poll under way has come, make the invariants inductive. *)
(***************************************************************************)
EXTENDS LiveHub, TLAPS

ConnStates ==
    [pc : {"off", "build", "greet", "add", "live"}, sock : {"open", "stuck", "closed"},
     lag : 0 .. Beyond, greeted : BOOLEAN, fed : BOOLEAN]

ClientsTyped ==
    /\ bc \in [pc : {"idle", "built", "stored", "sending"}, todo : SUBSET Conns]
    /\ stored \in BOOLEAN
    /\ conn \in [Conns -> ConnStates]
    /\ hub \subseteq Conns
    /\ page \in [Conns -> BOOLEAN]

PollerTyped ==
    /\ polls \subseteq [step : 1..5, age : 0 .. Beyond]
    /\ \A p, q \in polls : p = q
    /\ inFlight \in BOOLEAN
    /\ age \in [Values -> 0 .. Beyond]

\* What each step of a handler has behind it.
HandlersFit ==
    \A c \in Conns :
        /\ conn[c].pc = "off" => conn[c].sock = "closed"
        /\ conn[c].pc \in {"off", "build", "greet", "add"} => ~conn[c].fed
        /\ conn[c].pc \in {"add", "live"} => conn[c].greeted

\* Whom the broadcast may still write to.
TodoFits ==
    /\ \A c \in bc.todo : conn[c].pc \in {"off", "live"}
    /\ bc.pc # "sending" => bc.todo = {}

\* What the poll under way has set, it has set in order.
PollFits ==
    /\ inFlight <=> polls # {}
    /\ \A p \in polls : /\ p.age = 0
                        /\ \A i \in 1..4 : age[Items[i]] = IF i < p.step THEN 0 ELSE 1
    /\ ~inFlight => \A v \in Values : age[v] = 0

ClientInv == ClientsTyped /\ HandlersFit /\ TodoFits /\ RegisteredIsGreeted /\ NoFrameMissed
PollerInv == PollerTyped /\ PollFits

-----------------------------------------------------------------------------
(* The values a poll sets.                                                 *)

\* The four setters of pollLinkd are four different ones.
LEMMA ItemsDiffer ==
    /\ \A i \in 1..4 : Items[i] \in Values
    /\ \A i, j \in 1..4 : Items[i] = Items[j] => i = j
    /\ \A v \in Values : \E i \in 1..4 : v = Items[i]
    /\ Items[1] = "shaping" /\ Items[4] = "routes"
BY DEF Items, Values

\* A poll that is one of few enough is the only one (pollInFlight).
LEMMA PollerKept ==
    ASSUME PollerInv, PollTick \/ Polling \/ UNCHANGED poller
    PROVE  PollerInv'
<1> USE DEF PollerInv, Beyond
<1>1. CASE PollTick
  <2>1. polls = {} /\ \A v \in Values : age[v] = 0
    BY <1>1 DEF PollTick, PollFits
  <2>2. polls' = {[step |-> 1, age |-> 0]} /\ inFlight' = TRUE
    BY <1>1, <2>1 DEF PollTick
  <2>3. age' = [v \in Values |-> 1]
    BY <1>1, <2>1 DEF PollTick, Older
  <2>4. PollerTyped'
    BY <2>2, <2>3 DEF PollerTyped
  <2>5. PollFits'
    BY <2>2, <2>3, ItemsDiffer DEF PollFits
  <2> QED BY <2>4, <2>5
<1>2. ASSUME NEW p \in polls, SetNext(p)
      PROVE  PollerInv'
  <2> DEFINE q == [p EXCEPT !.step = @ + 1]
  <2>1. /\ p \in [step : 1..5, age : 0 .. Beyond] /\ p.step \in 1..4 /\ p.age = 0
        /\ polls = {p} /\ inFlight /\ inFlight' = inFlight
    BY <1>2 DEF SetNext, PollerTyped, PollFits
  <2>2. polls' = {q} /\ age' = [age EXCEPT ![Items[p.step]] = 0]
    BY <1>2, <2>1 DEF SetNext
  <2>3. q \in [step : 1..5, age : 0 .. Beyond] /\ q.step = p.step + 1 /\ q.age = 0
    BY <2>1
  <2> HIDE DEF q
  <2>4. PollerTyped'
    BY <2>1, <2>2, <2>3, ItemsDiffer DEF PollerTyped
  <2>5. \A i \in 1..4 : age'[Items[i]] = IF i < q.step THEN 0 ELSE 1
    <3> TAKE i \in 1..4
    <3>1. age[Items[i]] = IF i < p.step THEN 0 ELSE 1
      BY <2>1 DEF PollFits
    <3>2. CASE i = p.step
      BY <3>2, <2>1, <2>2, <2>3, ItemsDiffer DEF PollerTyped
    <3>3. CASE i # p.step
      <4>1. Items[i] # Items[p.step]
        BY <3>3, <2>1, ItemsDiffer
      <4>2. age'[Items[i]] = age[Items[i]]
        BY <4>1, <2>2, ItemsDiffer DEF PollerTyped
      <4> QED BY <4>2, <3>1, <3>3, <2>1, <2>3
    <3> QED BY <3>2, <3>3
  <2>6. PollFits'
    BY <2>1, <2>2, <2>3, <2>5 DEF PollFits
  <2> QED BY <2>4, <2>6
<1>3. ASSUME NEW p \in polls, PollEnds(p)
      PROVE  PollerInv'
  <2>1. p.step = 5 /\ polls = {p} /\ polls' = {} /\ ~inFlight' /\ inFlight' \in BOOLEAN
        /\ age' = age
    BY <1>3 DEF PollEnds, PollerTyped
  <2>2. \A i \in 1..4 : age[Items[i]] = 0
    BY <2>1 DEF PollFits
  <2>3. \A v \in Values : age[v] = 0
    BY <2>2, ItemsDiffer
  <2> QED BY <2>1, <2>3 DEF PollerTyped, PollFits
<1>4. CASE UNCHANGED poller
  BY <1>4 DEF poller, PollerTyped, PollFits
<1> QED BY <1>1, <1>2, <1>3, <1>4 DEF Polling

\* The order in which the setters run shows in the values at every moment.
LEMMA PollerOrdered ==
    ASSUME PollerInv
    PROVE  PollsInOrder
<1>1. CASE ~inFlight
  BY <1>1, ItemsDiffer DEF PollerInv, PollFits, PollsInOrder
<1>2. CASE inFlight
  <2> PICK p \in polls : TRUE
    BY <1>2 DEF PollerInv, PollFits
  <2>1. p.step \in 1..5 /\ \A i \in 1..4 : age[Items[i]] = IF i < p.step THEN 0 ELSE 1
    BY DEF PollerInv, PollerTyped, PollFits
  <2> QED BY <1>2, <2>1, ItemsDiffer DEF PollsInOrder
<1> QED BY <1>1, <1>2

-----------------------------------------------------------------------------
(* The broadcast and the handlers.                                         *)

\* A frame that has just been written or built lacks none (Beyond).
LEMMA ZeroFits == 0 \in 0 .. Beyond
BY DEF Beyond

\* Each way the broadcaster goes on leaves the clients it has passed with the frame,
\* and none but those it has yet to reach without (RunBroadcast, broadcast).
LEMMA BroadcastKeeps ==
    ASSUME ClientInv, Broadcast
    PROVE  ClientInv'
<1> USE DEF ClientInv
<1>1. CASE Tick
  BY <1>1 DEF Tick, clients, ClientsTyped, HandlersFit, TodoFits, RegisteredIsGreeted,
              NoFrameMissed
<1>2. CASE Store
  <2>1. /\ bc.pc = "built" /\ bc' = [bc EXCEPT !.pc = "stored"] /\ stored' = TRUE
        /\ hub' = hub /\ page' = page
        /\ conn' = [c \in Conns |-> IF conn[c].pc = "off" THEN conn[c]
                                    ELSE [conn[c] EXCEPT !.lag = Older(@)]]
    BY <1>2 DEF Store
  <2>2. \A n \in 0 .. Beyond : Older(n) \in 0 .. Beyond /\ (n = 0 => Older(n) = 1)
    BY DEF Older, Beyond
  <2>3. \A c \in Conns : /\ conn'[c] \in ConnStates
                         /\ conn'[c].pc = conn[c].pc /\ conn'[c].sock = conn[c].sock
                         /\ conn'[c].greeted = conn[c].greeted /\ conn'[c].fed = conn[c].fed
                         /\ conn[c].pc # "off" => conn'[c].lag = Older(conn[c].lag)
    BY <2>1, <2>2 DEF ClientsTyped, ConnStates
  <2>4. ClientsTyped'
    BY <2>1, <2>3 DEF ClientsTyped
  <2>5. HandlersFit' /\ TodoFits' /\ RegisteredIsGreeted'
    BY <2>1, <2>3 DEF HandlersFit, TodoFits, RegisteredIsGreeted, ClientsTyped
  <2>6. ASSUME NEW c \in hub, conn'[c].fed
        PROVE  conn'[c].lag = 1
    <3>1. c \in Conns /\ conn[c].pc = "live" /\ conn[c].fed
      BY <2>3, <2>6 DEF ClientsTyped, RegisteredIsGreeted
    <3>2. conn[c].lag = 0
      BY <2>1, <3>1 DEF NoFrameMissed, TodoFits
    <3> QED BY <2>2, <2>3, <3>1, <3>2 DEF Beyond
  <2>7. NoFrameMissed'
    BY <2>1, <2>6 DEF NoFrameMissed, ClientsTyped
  <2> QED BY <2>4, <2>5, <2>7
<1>3. CASE Copy
  BY <1>3 DEF Copy, clients, ClientsTyped, HandlersFit, TodoFits, RegisteredIsGreeted,
              NoFrameMissed
<1>4. CASE Sent
  BY <1>4 DEF Sent, clients, ClientsTyped, HandlersFit, TodoFits, RegisteredIsGreeted,
              NoFrameMissed
<1>5. ASSUME NEW c \in Conns, SendOk(c)
      PROVE  ClientInv'
  <2>1. /\ bc.pc = "sending" /\ c \in bc.todo /\ conn[c].sock = "open"
        /\ conn' = [conn EXCEPT ![c].lag = 0, ![c].fed = TRUE]
        /\ bc' = [bc EXCEPT !.todo = @ \ {c}]
        /\ stored' = stored /\ hub' = hub /\ page' = page
    BY <1>5 DEF SendOk
  <2>2. conn[c].pc = "live" /\ conn[c].greeted
    BY <2>1 DEF HandlersFit, TodoFits
  <2>3. /\ conn'[c] \in ConnStates /\ conn'[c].pc = "live" /\ conn'[c].greeted
        /\ conn'[c].lag = 0
        /\ \A d \in Conns : d # c => conn'[d] = conn[d]
    <3> DEFINE r == [conn[c] EXCEPT !.lag = 0, !.fed = TRUE]
    <3>1. conn' = [conn EXCEPT ![c] = r] /\ conn[c] \in ConnStates
      BY <2>1 DEF ClientsTyped
    <3>2. r \in ConnStates /\ r.pc = conn[c].pc /\ r.lag = 0 /\ r.greeted = conn[c].greeted
      BY <3>1, ZeroFits DEF ConnStates
    <3> QED BY <2>2, <3>1, <3>2 DEF ClientsTyped
  <2>4. ClientsTyped'
    BY <2>1, <2>3 DEF ClientsTyped
  <2>5. HandlersFit' /\ TodoFits' /\ RegisteredIsGreeted'
    BY <2>1, <2>2, <2>3 DEF HandlersFit, TodoFits, RegisteredIsGreeted, ClientsTyped
  <2>6. NoFrameMissed'
    BY <2>1, <2>3 DEF NoFrameMissed, ClientsTyped
  <2> QED BY <2>4, <2>5, <2>6
<1>6. ASSUME NEW c \in Conns, SendFails(c)
      PROVE  ClientInv'
  <2>1. /\ bc.pc = "sending" /\ c \in bc.todo
        /\ conn' = [conn EXCEPT ![c].sock = "closed"]
        /\ bc' = [bc EXCEPT !.todo = @ \ {c}]
        /\ stored' = stored /\ hub' = hub \ {c} /\ page' = page
    BY <1>6 DEF SendFails
  <2>2. /\ conn'[c] \in ConnStates /\ conn'[c].pc = conn[c].pc
        /\ conn'[c].sock = "closed" /\ conn'[c].lag = conn[c].lag
        /\ conn'[c].greeted = conn[c].greeted /\ conn'[c].fed = conn[c].fed
        /\ \A d \in Conns : d # c => conn'[d] = conn[d]
    BY <2>1 DEF ClientsTyped, ConnStates
  <2>3. ClientsTyped'
    BY <2>1, <2>2 DEF ClientsTyped
  <2>4. HandlersFit' /\ TodoFits' /\ RegisteredIsGreeted'
    BY <2>1, <2>2 DEF HandlersFit, TodoFits, RegisteredIsGreeted, ClientsTyped
  <2>5. NoFrameMissed'
    BY <2>1, <2>2 DEF NoFrameMissed, ClientsTyped
  <2> QED BY <2>3, <2>4, <2>5
<1> QED BY <1>1, <1>2, <1>3, <1>4, <1>5, <1>6 DEF Broadcast

\* A step of c's own that registers it only as a greeted client, and while it is on its
\* way in only if the broadcast does not have it in hand, disturbs no other client
\* (handleLive).
LEMMA HandlerStep ==
    ASSUME ClientInv, NEW c \in Conns, NEW r \in ConnStates,
           conn' = [conn EXCEPT ![c] = r],
           UNCHANGED <<bc, stored>>, page' \in [Conns -> BOOLEAN],
           hub' \in {hub, hub \cup {c}, hub \ {c}},
           c \in hub' => r.pc = "live" /\ (r.fed => r.lag = conn[c].lag /\ conn[c].fed /\ c \in hub),
           r.pc = "off" => r.sock = "closed",
           r.pc \in {"off", "build", "greet", "add"} => ~r.fed,
           r.pc \in {"add", "live"} => r.greeted,
           c \in bc.todo => r.pc \in {"off", "live"}
    PROVE  ClientInv'
<1> USE DEF ClientInv
<1>1. conn'[c] = r /\ \A d \in Conns : d # c => conn'[d] = conn[d]
  BY DEF ClientsTyped
<1>2. ClientsTyped'
  BY DEF ClientsTyped
<1>3. HandlersFit'
  BY <1>1 DEF HandlersFit
<1>4. TodoFits'
  BY <1>1 DEF TodoFits, ClientsTyped
<1>5. RegisteredIsGreeted'
  <2>1. \A d \in hub' : conn'[d].pc = "live"
    BY <1>1 DEF RegisteredIsGreeted, ClientsTyped
  <2>2. \A d \in Conns : conn'[d].fed => conn'[d].greeted
    BY <1>1 DEF RegisteredIsGreeted, ConnStates
  <2> QED BY <2>1, <2>2 DEF RegisteredIsGreeted
<1>6. NoFrameMissed'
  BY <1>1 DEF NoFrameMissed, ClientsTyped
<1> QED BY <1>2, <1>3, <1>4, <1>5, <1>6

\* A handler greets its client before it registers it, and what becomes of its
\* connection or its page does not change that (handleLive, connectLive).
LEMMA HandlersKeep ==
    ASSUME ClientInv, NEW c \in Conns,
           \/ Connect(c) \/ Handler(c) \/ Leave(c)
           \/ Open(c) \/ Dispose(c) \/ Break(c)
    PROVE  ClientInv'
<1>1. /\ conn[c] \in ConnStates /\ hub \subseteq Conns /\ page \in [Conns -> BOOLEAN]
      /\ conn \in [Conns -> ConnStates]
  BY DEF ClientInv, ClientsTyped
<1>2. /\ conn[c].pc = "off" => conn[c].sock = "closed"
      /\ conn[c].pc \in {"off", "build", "greet", "add"} => ~conn[c].fed
      /\ conn[c].pc \in {"add", "live"} => conn[c].greeted
      /\ c \in bc.todo => conn[c].pc \in {"off", "live"}
      /\ c \in hub => conn[c].pc = "live"
  BY DEF ClientInv, HandlersFit, TodoFits, RegisteredIsGreeted
<1>3. CASE Connect(c)
  <2> DEFINE r == [Off EXCEPT !.pc = IF stored THEN "greet" ELSE "build", !.sock = "open"]
  <2>1. /\ c \notin bc.todo /\ conn[c].pc = "off" /\ conn' = [conn EXCEPT ![c] = r]
        /\ UNCHANGED <<bc, stored>> /\ hub' = hub /\ page' = page
    BY <1>3 DEF Connect, At
  <2>2. r \in ConnStates /\ r.pc \in {"greet", "build"} /\ ~r.fed
    BY ZeroFits DEF Off, ConnStates
  <2> QED BY <1>1, <1>2, <2>1, <2>2, HandlerStep
<1>4. CASE BuildOwn(c)
  <2> DEFINE r == [conn[c] EXCEPT !.pc = "greet", !.lag = 0]
  <2>1. /\ conn[c].pc = "build" /\ conn' = [conn EXCEPT ![c] = r]
        /\ UNCHANGED <<bc, stored>> /\ hub' = hub /\ page' = page
    BY <1>1, <1>4 DEF BuildOwn, At
  <2>2. r \in ConnStates /\ r.pc = "greet" /\ r.fed = conn[c].fed
    BY <1>1, ZeroFits DEF ConnStates
  <2> QED BY <1>1, <1>2, <2>1, <2>2, HandlerStep
<1>5. CASE Greet(c)
  <2> DEFINE r == [conn[c] EXCEPT !.pc = "add", !.greeted = TRUE]
  <2>1. /\ conn[c].pc = "greet" /\ conn' = [conn EXCEPT ![c] = r]
        /\ UNCHANGED <<bc, stored>> /\ hub' = hub /\ page' = page
    BY <1>1, <1>5 DEF Greet, At
  <2>2. r \in ConnStates /\ r.pc = "add" /\ ~r.fed /\ r.greeted
    BY <1>1, <1>2, <2>1 DEF ConnStates
  <2> QED BY <1>1, <1>2, <2>1, <2>2, HandlerStep
<1>6. CASE GreetFails(c) \/ Leave(c)
  <2>1. /\ conn' = [conn EXCEPT ![c] = Off] /\ UNCHANGED <<bc, stored>> /\ page' = page
        /\ hub' \in {hub, hub \ {c}} /\ c \notin hub'
    BY <1>2, <1>6 DEF GreetFails, Leave, At
  <2>2. Off \in ConnStates /\ Off.pc = "off" /\ Off.sock = "closed" /\ ~Off.fed
    BY ZeroFits DEF Off, ConnStates
  <2> QED BY <1>1, <2>1, <2>2, HandlerStep
<1>7. CASE Add(c)
  <2> DEFINE r == [conn[c] EXCEPT !.pc = "live"]
  <2>1. /\ conn[c].pc = "add" /\ conn' = [conn EXCEPT ![c] = r]
        /\ UNCHANGED <<bc, stored>> /\ hub' = hub \cup {c} /\ page' = page
    BY <1>1, <1>7 DEF Add, At
  <2>2. r \in ConnStates /\ r.pc = "live" /\ ~r.fed /\ r.greeted
    BY <1>1, <1>2, <2>1 DEF ConnStates
  <2> QED BY <1>1, <1>2, <2>1, <2>2, HandlerStep
<1>8. CASE Open(c)
  <2>1. conn' = [conn EXCEPT ![c] = conn[c]] /\ page' = [page EXCEPT ![c] = TRUE]
        /\ UNCHANGED <<bc, stored>> /\ hub' = hub
    BY <1>1, <1>8 DEF Open
  <2> QED BY <1>1, <1>2, <2>1, HandlerStep
<1>9. CASE Dispose(c) \/ Break(c)
  <2> DEFINE r == [conn[c] EXCEPT !.sock = IF @ = "open" THEN "stuck" ELSE @]
  <2>1. conn' = [conn EXCEPT ![c] = r] /\ page' \in [Conns -> BOOLEAN]
        /\ UNCHANGED <<bc, stored>> /\ hub' = hub
    BY <1>1, <1>9 DEF Dispose, Break, Cut
  <2>2. /\ r \in ConnStates /\ r.pc = conn[c].pc /\ r.fed = conn[c].fed
        /\ r.greeted = conn[c].greeted /\ r.lag = conn[c].lag
        /\ conn[c].sock = "closed" => r.sock = "closed"
    BY <1>1 DEF ConnStates
  <2> QED BY <1>1, <1>2, <2>1, <2>2, HandlerStep
<1> QED BY <1>3, <1>4, <1>5, <1>6, <1>7, <1>8, <1>9 DEF Handler

-----------------------------------------------------------------------------
(* The theorems.                                                           *)

\* fabricd starts with no client and no frame (New).
LEMMA InitClients == Init => ClientInv
<1> SUFFICES ASSUME Init PROVE ClientInv
  OBVIOUS
<1>1. Off \in ConnStates /\ Off.pc = "off" /\ Off.sock = "closed" /\ ~Off.fed
  BY ZeroFits DEF Off, ConnStates
<1>2. /\ bc = [pc |-> "idle", todo |-> {}] /\ stored = FALSE /\ hub = {}
      /\ conn = [c \in Conns |-> Off] /\ page = [c \in Conns |-> FALSE]
  BY DEF Init
<1>3. ClientsTyped
  BY <1>1, <1>2 DEF ClientsTyped
<1> QED BY <1>1, <1>2, <1>3 DEF ClientInv, HandlersFit, TodoFits, RegisteredIsGreeted,
                                NoFrameMissed

\* fabricd starts with no poll under way (New).
LEMMA InitPoller == Init => PollerInv
BY ZeroFits DEF Init, PollerInv, PollerTyped, PollFits

\* The clients' state and the poller's are kept apart: a step is of one of them.
LEMMA StepsKeep == ClientInv /\ PollerInv /\ [Next]_vars => ClientInv' /\ PollerInv'
<1> SUFFICES ASSUME ClientInv, PollerInv, [Next]_vars
             PROVE  ClientInv' /\ PollerInv'
  OBVIOUS
<1>1. ASSUME UNCHANGED <<bc, stored, clients>>
      PROVE  ClientInv'
  BY <1>1 DEF clients, ClientInv, ClientsTyped, HandlersFit, TodoFits, RegisteredIsGreeted,
              NoFrameMissed
<1>2. CASE Broadcast
  <2>1. UNCHANGED poller
    BY <1>2 DEF Broadcast, Tick, Store, Copy, Sent, SendOk, SendFails
  <2> QED BY <1>2, <2>1, BroadcastKeeps, PollerKept
<1>3. ASSUME NEW c \in Conns,
             \/ Connect(c) \/ Handler(c) \/ Leave(c)
             \/ Open(c) \/ Dispose(c) \/ Break(c)
      PROVE  ClientInv' /\ PollerInv'
  <2>1. UNCHANGED poller
    BY <1>3 DEF Connect, Handler, BuildOwn, Greet, GreetFails, Add, Leave, Open, Dispose, Break
  <2> QED BY <1>3, <2>1, HandlersKeep, PollerKept
<1>4. CASE PollTick \/ Polling
  <2>1. UNCHANGED <<bc, stored, clients>>
    BY <1>4 DEF PollTick, Polling, SetNext, PollEnds
  <2> QED BY <1>1, <1>4, <2>1, PollerKept
<1>5. CASE UNCHANGED vars
  <2>1. UNCHANGED <<bc, stored, clients>> /\ UNCHANGED poller
    BY <1>5 DEF vars
  <2> QED BY <1>1, <2>1, PollerKept
<1> QED BY <1>2, <1>3, <1>4, <1>5 DEF Next

\* The two invariants together are inductive (RunBroadcast, handleLive, pollLinkd).
THEOREM HubInvariant == Spec => [](ClientInv /\ PollerInv)
BY InitClients, InitPoller, StepsKeep, PTL DEF Spec

\* Type correctness of the hub, its clients, their pages and the poller (api.go).
THEOREM HubTyped == Spec => []TypeOK
<1>1. ClientInv /\ PollerInv => TypeOK
  BY DEF ClientInv, ClientsTyped, ConnStates, PollerInv, PollerTyped, TypeOK
<1> QED BY <1>1, HubInvariant, PTL

\* Whoever is registered has had its snapshot and has a handler that will take it out
\* again, for any number of clients that come, fail and leave (api.go, handleLive).
THEOREM GreetedBeforeRegistered == Spec => []RegisteredIsGreeted
<1>1. ClientInv => RegisteredIsGreeted
  BY DEF ClientInv
<1> QED BY <1>1, HubInvariant, PTL

\* A registered client misses no frame after its first, whatever happens to the others
\* and wherever they stand in the broadcast (api.go, broadcast).
THEOREM FramesReachAll == Spec => []NoFrameMissed
<1>1. ClientInv => NoFrameMissed
  BY DEF ClientInv
<1> QED BY <1>1, HubInvariant, PTL

\* No older poll overwrites a newer one, and a frame mixes at most two (api.go,
\* pollInFlight).
THEOREM PollsStayInOrder == Spec => []PollsInOrder
<1>1. PollerInv => PollsInOrder
  BY PollerOrdered
<1> QED BY <1>1, HubInvariant, PTL
=============================================================================
