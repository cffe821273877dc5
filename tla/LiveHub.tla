------------------------------ MODULE LiveHub -------------------------------
(***************************************************************************)
(* fabricd's live view (internal/api/api.go): the broadcaster that builds a *)
(* frame a second and writes it to every registered client, the handlers   *)
(* that greet a client and register it, and the poller that refreshes what *)
(* the frames are annotated with; and the page in the browser that keeps   *)
(* reconnecting (web/src/api.ts).                                          *)
(*                                                                         *)
(* Frames are told apart by their distance: lag counts the stored frames   *)
(* that are newer than the one a client has, age the polls begun since the *)
(* one a value is of.  Both are cut off at Beyond, which is too far        *)
(* anyway.                                                                 *)
(***************************************************************************)
EXTENDS Integers

CONSTANT Conns          \* the pages, each with one connection at a time

VARIABLES bc,           \* RunBroadcast: where it is, and whom it has yet to write to
          stored,       \* lastFrame is set
          conn,         \* what each client's handler does and has written
          hub,          \* hub.conns
          page,         \* connectLive runs in the page
          polls,        \* the goroutines that poll
          inFlight,     \* pollInFlight
          age           \* of the values the poller sets

clients == <<conn, hub, page>>
poller == <<polls, inFlight, age>>
vars == <<bc, stored, clients, poller>>

Beyond == 2
Older(n) == IF n = Beyond THEN Beyond ELSE n + 1

Items == <<"shaping", "declared", "bgp", "routes">>
Values == {Items[i] : i \in 1..4}

Off == [pc |-> "off", sock |-> "closed", lag |-> 0, greeted |-> FALSE, fed |-> FALSE]

Init ==
    /\ bc = [pc |-> "idle", todo |-> {}]
    /\ stored = FALSE
    /\ conn = [c \in Conns |-> Off]
    /\ hub = {}
    /\ page = [c \in Conns |-> FALSE]
    /\ polls = {} /\ inFlight = FALSE
    /\ age = [v \in Values |-> 0]

-----------------------------------------------------------------------------
(* The broadcaster.                                                        *)

Tick ==
    /\ bc.pc = "idle"
    /\ bc' = [bc EXCEPT !.pc = "built"]
    /\ UNCHANGED <<stored, clients, poller>>

Store ==
    /\ bc.pc = "built"
    /\ bc' = [bc EXCEPT !.pc = "stored"]
    /\ stored' = TRUE
    /\ conn' = [c \in Conns |->
                  IF conn[c].pc = "off" THEN conn[c] ELSE [conn[c] EXCEPT !.lag = Older(@)]]
    /\ UNCHANGED <<hub, page, poller>>

\* broadcast copies the clients under the hub's lock.
Copy ==
    /\ bc.pc = "stored"
    /\ bc' = [pc |-> "sending", todo |-> hub]
    /\ UNCHANGED <<stored, clients, poller>>

SendOk(c) ==
    /\ bc.pc = "sending" /\ c \in bc.todo
    /\ conn[c].sock = "open"
    /\ conn' = [conn EXCEPT ![c].lag = 0, ![c].fed = TRUE]
    /\ bc' = [bc EXCEPT !.todo = @ \ {c}]
    /\ UNCHANGED <<stored, hub, page, poller>>

\* Mutant of SendFails: one failed write ends the broadcast.
SendFailsEnds(c) ==
    /\ bc.pc = "sending" /\ c \in bc.todo
    /\ conn[c].sock # "open"
    /\ hub' = hub \ {c}
    /\ conn' = [conn EXCEPT ![c].sock = "closed"]
    /\ bc' = [bc EXCEPT !.todo = {}]
    /\ UNCHANGED <<stored, page, poller>>

\* Mutant of SendFails: the client is skipped.
SendFailsKeeps(c) ==
    /\ bc.pc = "sending" /\ c \in bc.todo
    /\ conn[c].sock # "open"
    /\ bc' = [bc EXCEPT !.todo = @ \ {c}]
    /\ UNCHANGED <<stored, clients, poller>>

\* Mutant of SendFails: a write has no deadline.
SendFailsIfClosed(c) ==
    /\ bc.pc = "sending" /\ c \in bc.todo
    /\ conn[c].sock = "closed"
    /\ hub' = hub \ {c}
    /\ bc' = [bc EXCEPT !.todo = @ \ {c}]
    /\ UNCHANGED <<stored, conn, page, poller>>

\* The write misses its deadline or finds the connection closed.
SendFails(c) ==
    /\ bc.pc = "sending" /\ c \in bc.todo
    /\ conn[c].sock # "open"
    /\ hub' = hub \ {c}
    /\ conn' = [conn EXCEPT ![c].sock = "closed"]
    /\ bc' = [bc EXCEPT !.todo = @ \ {c}]
    /\ UNCHANGED <<stored, page, poller>>

Sent ==
    /\ bc.pc = "sending" /\ bc.todo = {}
    /\ bc' = [bc EXCEPT !.pc = "idle"]
    /\ UNCHANGED <<stored, clients, poller>>

-----------------------------------------------------------------------------
(* A client's handler, handleLive.                                         *)

At(c, pc) == conn[c].pc = pc

\* Mutant of Connect: the client is registered before it is greeted.
ConnectRegisters(c) ==
    /\ page[c] /\ At(c, "off") /\ c \notin bc.todo
    /\ conn' = [conn EXCEPT ![c] =
                  [Off EXCEPT !.pc = IF stored THEN "greet" ELSE "build", !.sock = "open"]]
    /\ hub' = hub \cup {c}
    /\ UNCHANGED <<bc, stored, page, poller>>

\* The page connects, at once or after its backoff; the upgrade and lastFrame.Load.
Connect(c) ==
    /\ page[c] /\ At(c, "off") /\ c \notin bc.todo
    /\ conn' = [conn EXCEPT ![c] =
                  [Off EXCEPT !.pc = IF stored THEN "greet" ELSE "build", !.sock = "open"]]
    /\ UNCHANGED <<bc, stored, hub, page, poller>>

\* There was no frame to load: the handler builds one.
BuildOwn(c) ==
    /\ At(c, "build")
    /\ conn' = [conn EXCEPT ![c].pc = "greet", ![c].lag = 0]
    /\ UNCHANGED <<bc, stored, hub, page, poller>>

Greet(c) ==
    /\ At(c, "greet") /\ conn[c].sock = "open"
    /\ conn' = [conn EXCEPT ![c].pc = "add", ![c].greeted = TRUE]
    /\ UNCHANGED <<bc, stored, hub, page, poller>>

GreetFails(c) ==
    /\ At(c, "greet") /\ conn[c].sock # "open"
    /\ conn' = [conn EXCEPT ![c] = Off]
    /\ UNCHANGED <<bc, stored, hub, page, poller>>

Add(c) ==
    /\ At(c, "add")
    /\ conn' = [conn EXCEPT ![c].pc = "live"]
    /\ hub' = hub \cup {c}
    /\ UNCHANGED <<bc, stored, page, poller>>

\* Mutant of Leave: only the broadcast takes clients out of the hub.
LeaveHub(c) ==
    /\ At(c, "live") /\ conn[c].sock # "open"
    /\ conn' = [conn EXCEPT ![c] = Off]
    /\ UNCHANGED <<bc, stored, hub, page, poller>>

\* ReadMessage fails: the handler unregisters the client and closes it.
Leave(c) ==
    /\ At(c, "live") /\ conn[c].sock # "open"
    /\ conn' = [conn EXCEPT ![c] = Off]
    /\ hub' = hub \ {c}
    /\ UNCHANGED <<bc, stored, page, poller>>

-----------------------------------------------------------------------------
(* The page, connectLive.                                                  *)

Open(c) ==
    /\ ~page[c]
    /\ page' = [page EXCEPT ![c] = TRUE]
    /\ UNCHANGED <<bc, stored, conn, hub, poller>>

Cut(c) == conn' = [conn EXCEPT ![c].sock = IF @ = "open" THEN "stuck" ELSE @]

\* The page is left: it does not come back by itself.
Dispose(c) ==
    /\ page[c]
    /\ page' = [page EXCEPT ![c] = FALSE]
    /\ Cut(c)
    /\ UNCHANGED <<bc, stored, hub, poller>>

\* The connection breaks, or the page does not keep up with it.
Break(c) ==
    /\ conn[c].sock = "open"
    /\ Cut(c)
    /\ UNCHANGED <<bc, stored, hub, page, poller>>

-----------------------------------------------------------------------------
(* The poller.                                                             *)

\* Mutant of PollTick: polls are not kept apart.
PollTickAnyway ==
    /\ bc.pc = "idle"
    /\ inFlight' = TRUE
    /\ polls' = {[p EXCEPT !.age = Older(@)] : p \in polls} \cup {[step |-> 1, age |-> 0]}
    /\ age' = [v \in Values |-> Older(age[v])]
    /\ UNCHANGED <<bc, stored, clients>>

\* The broadcaster's select takes the other ticker; no poll may be under way.
PollTick ==
    /\ bc.pc = "idle" /\ ~inFlight
    /\ inFlight' = TRUE
    /\ polls' = {[p EXCEPT !.age = Older(@)] : p \in polls} \cup {[step |-> 1, age |-> 0]}
    /\ age' = [v \in Values |-> Older(age[v])]
    /\ UNCHANGED <<bc, stored, clients>>

\* linkd has answered or timed out, and the next value is set.
SetNext(p) ==
    /\ p \in polls /\ p.step <= 4
    /\ age' = [age EXCEPT ![Items[p.step]] = p.age]
    /\ polls' = (polls \ {p}) \cup {[p EXCEPT !.step = @ + 1]}
    /\ UNCHANGED <<bc, stored, clients, inFlight>>

\* Mutant of PollEnds: the guard stays set.
PollEndsSilently(p) ==
    /\ p \in polls /\ p.step = 5
    /\ polls' = polls \ {p}
    /\ UNCHANGED <<bc, stored, clients, inFlight, age>>

PollEnds(p) ==
    /\ p \in polls /\ p.step = 5
    /\ polls' = polls \ {p}
    /\ inFlight' = FALSE
    /\ UNCHANGED <<bc, stored, clients, age>>

-----------------------------------------------------------------------------
Broadcast == Tick \/ Store \/ Copy \/ Sent \/ \E c \in Conns : SendOk(c) \/ SendFails(c)
Handler(c) == BuildOwn(c) \/ Greet(c) \/ GreetFails(c) \/ Add(c)
Polling == \E p \in polls : SetNext(p) \/ PollEnds(p)

Next ==
    \/ Broadcast
    \/ \E c \in Conns : Connect(c) \/ Handler(c) \/ Leave(c)
    \/ \E c \in Conns : Open(c) \/ Dispose(c) \/ Break(c)
    \/ PollTick \/ Polling

Spec == Init /\ [][Next]_vars

\* Goroutines run and tickers tick.  A write ends within its deadline, a call
\* of linkd within its timeout.  A read need not end before its socket is closed.
\* A page that has lost its connection tries again.
Fairness ==
    /\ WF_vars(Broadcast)
    /\ SF_vars(PollTick)
    /\ WF_vars(Polling)
    /\ \A c \in Conns : /\ WF_vars(Connect(c))
                        /\ WF_vars(Handler(c))
                        /\ WF_vars(conn[c].sock = "closed" /\ Leave(c))

FairSpec == Spec /\ Fairness

-----------------------------------------------------------------------------
TypeOK ==
    /\ bc \in [pc : {"idle", "built", "stored", "sending"}, todo : SUBSET Conns]
    /\ stored \in BOOLEAN
    /\ conn \in [Conns -> [pc : {"off", "build", "greet", "add", "live"},
                           sock : {"open", "stuck", "closed"}, lag : 0 .. Beyond,
                           greeted : BOOLEAN, fed : BOOLEAN]]
    /\ hub \subseteq Conns
    /\ page \in [Conns -> BOOLEAN]
    /\ polls \subseteq [step : 1..5, age : 0 .. Beyond]
    /\ \A p, q \in polls : p = q
    /\ inFlight \in BOOLEAN
    /\ age \in [Values -> 0 .. Beyond]

\* "the connection's first bytes are always the snapshot" (api.go, handleLive),
\* and whoever is registered has a handler that will take it out again.
RegisteredIsGreeted ==
    /\ \A c \in hub : conn[c].pc = "live"
    /\ \A c \in Conns : conn[c].fed => conn[c].greeted

\* From the first frame a registered client is written it misses none, however
\* many others fail ("so one slow client cannot stall the rest", api.go): it
\* lacks at most the frame that is being broadcast and has yet to reach it.
NoFrameMissed ==
    \A c \in hub : conn[c].fed /\ conn[c].lag # 0 =>
        /\ conn[c].lag = 1
        /\ bc.pc = "stored" \/ c \in bc.todo

\* The values that annotate a frame are those of one poll, or of one and the poll
\* before it: never does an older poll overwrite a newer one (api.go, RunBroadcast).
PollsInOrder ==
    /\ \A i \in 1..3 : age[Items[i]] <= age[Items[i+1]]
    /\ age["routes"] <= age["shaping"] + 1
    /\ ~inFlight => \A v \in Values : age[v] = 0

\* A page that stays open and whose connection stops breaking is shown frame after
\* frame again ("On disconnect it reconnects", api.ts), whatever other pages do.
PageComesBack ==
    \A c \in Conns : <>[]page[c] /\ <>[][~Break(c)]_vars => []<><<SendOk(c)>>_vars

\* A client that is gone or does not read leaves the hub.
BrokenLeaves == \A c \in Conns : (c \in hub /\ conn[c].sock # "open") ~> (c \notin hub)

\* Polling never stops.
PollsGoOn == []<>(polls # {})
=============================================================================
