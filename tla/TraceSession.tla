---------------------------- MODULE TraceSession ----------------------------
(***************************************************************************)
(* fabricd's shared trace session (internal/idint/idint.go, http.go) and   *)
(* the idint-probed sidecars it asks (idint-probed/server/server.go).  A   *)
(* tick probes outside the manager's lock while viewers set and clear the  *)
(* session; a sidecar serves one probe at a time, also one that nobody     *)
(* waits for any more.                                                     *)
(*                                                                         *)
(* A session and the view of it are kept apart by the manager, and so they *)
(* are here: that they agree is to be checked.                             *)
(***************************************************************************)
EXTENDS Naturals, FiniteSets

CONSTANTS Ases, Paths,
          Ends,         \* [Paths -> the AS pair a path connects]
          Nil,          \* the empty fingerprint: follow the fastest path
          Ticks,        \* the goroutines a ticker starts
          MaxSets       \* bounds the sessions that are set

ASSUME TraceAssumption ==
    /\ Ends \in [Paths -> [src : Ases, dst : Ases]]
    /\ Nil \notin Paths
    /\ MaxSets \in Nat

VARIABLES sess,         \* the session and, as history, its number
          vm, latest,   \* the view model; the path of the last probe result
          inFlight,     \* the overlap guard of Run
          tick,         \* what each goroutine does, with its copy of the session
          busy,         \* each sidecar's probeMu
          late,         \* given-up requests are still on their way to the sidecar
          sets          \* history: sessions set so far

managerVars == <<sess, vm, latest, sets>>
proberVars == <<busy, late>>
vars == <<managerVars, inFlight, tick, proberVars>>

Sessions == {s \in [src : Ases, dst : Ases, pin : Paths \union {Nil}] : s.src # s.dst}

\* The paths a probe of session s may use.
Fits(s) == {p \in Paths : Ends[p] = [src |-> s.src, dst |-> s.dst] /\ s.pin \in {Nil, p}}

NoSession == [id |-> 0]
NoView == [on |-> FALSE]
Idle == [pc |-> "idle"]

Shown(s, p, good) ==
    [on |-> TRUE, src |-> s.src, dst |-> s.dst, auto |-> s.pin = Nil,
     path |-> p, ok |-> good]

Waiting(g) == tick[g].pc \in {"sent", "asked"}
Back(g, res) == [pc |-> "back", of |-> tick[g].of, res |-> res]
Become(g, t) == tick' = [tick EXCEPT ![g] = t]

Init ==
    /\ sess = NoSession /\ vm = NoView /\ latest = Nil /\ sets = 0
    /\ inFlight = FALSE
    /\ tick = [g \in Ticks |-> Idle]
    /\ busy = [a \in Ases |-> FALSE]
    /\ late = [a \in Ases |-> FALSE]

-----------------------------------------------------------------------------
(* The viewers.                                                            *)

Set(s) ==
    /\ sets < MaxSets
    /\ sets' = sets + 1
    /\ sess' = [id |-> sets + 1, of |-> s]
    /\ vm' = Shown(s, Nil, TRUE)
    /\ latest' = Nil
    /\ UNCHANGED <<inFlight, tick, proberVars>>

Clear ==
    /\ sess' = NoSession /\ vm' = NoView /\ latest' = Nil
    /\ UNCHANGED <<sets, inFlight, tick, proberVars>>

-----------------------------------------------------------------------------
(* The ticks.                                                              *)

\* Mutant of Tick: the ticker does not look at inFlight.
TickUnguarded(g) ==
    /\ sess # NoSession
    /\ tick[g] = Idle
    /\ inFlight' = TRUE
    /\ Become(g, [pc |-> "start"])
    /\ UNCHANGED <<managerVars, proberVars>>

\* Run's ticker fires; a tick still in flight makes it skip.
Tick(g) ==
    /\ sess # NoSession
    /\ ~inFlight
    /\ tick[g] = Idle
    /\ inFlight' = TRUE
    /\ Become(g, [pc |-> "start"])
    /\ UNCHANGED <<managerVars, proberVars>>

\* TickOnce copies the session, if there still is one.
ReadSession(g) ==
    /\ tick[g].pc = "start"
    /\ Become(g, IF sess = NoSession THEN [pc |-> "done"]
                 ELSE [pc |-> "sent", of |-> sess.of])
    /\ UNCHANGED <<managerVars, inFlight, proberVars>>

\* The request comes to the sidecar, which starts the probe or answers that
\* one is in flight.
Arrive(g) ==
    /\ tick[g].pc = "sent"
    /\ LET a == tick[g].of.src
       IN IF busy[a] THEN Become(g, Back(g, Nil)) /\ UNCHANGED busy
          ELSE /\ busy' = [busy EXCEPT ![a] = TRUE]
               /\ Become(g, [tick[g] EXCEPT !.pc = "asked"])
    /\ UNCHANGED <<managerVars, inFlight, late>>

\* The engine is through: a path of the session, or one of its errors.
Answer(g) ==
    /\ tick[g].pc = "asked"
    /\ busy' = [busy EXCEPT ![tick[g].of.src] = FALSE]
    /\ \E res \in Fits(tick[g].of) \union {Nil} : Become(g, Back(g, res))
    /\ UNCHANGED <<managerVars, inFlight, late>>

\* The connection fails or the client's timeout ends the call; the sidecar
\* may not have seen the request yet, or goes on with it.
GiveUp(g) ==
    /\ Waiting(g)
    /\ Become(g, Back(g, Nil))
    /\ late' = [late EXCEPT ![tick[g].of.src] = @ \/ tick[g].pc = "sent"]
    /\ UNCHANGED <<managerVars, inFlight, busy>>

\* The session that is set has the value of the one the tick copied.
Current(g) == sess \in [id : 1..MaxSets, of : {tick[g].of}]

\* TickOnce, under the lock again, with a result it discards, cannot use, or
\* shows.  (buildVM fails on telemetry that does not match the path.)
Discard(g) ==
    /\ ~Current(g)
    /\ UNCHANGED <<vm, latest>>

\* Mutant of ShowFailure: the failure wipes what is shown.
ShowFailureBlank(g) ==
    /\ Current(g)
    /\ vm' = Shown(tick[g].of, Nil, FALSE)
    /\ UNCHANGED latest

ShowFailure(g) ==
    /\ Current(g)
    /\ vm' = IF vm = NoView THEN Shown(tick[g].of, Nil, FALSE)
             ELSE [vm EXCEPT !.ok = FALSE]
    /\ UNCHANGED latest

\* Mutant of ShowResult: any session will do.
ShowResultUnchecked(g) ==
    /\ sess # NoSession
    /\ tick[g].res # Nil
    /\ vm' = Shown(tick[g].of, tick[g].res, TRUE)
    /\ latest' = tick[g].res

ShowResult(g) ==
    /\ Current(g)
    /\ tick[g].res # Nil
    /\ vm' = Shown(tick[g].of, tick[g].res, TRUE)
    /\ latest' = tick[g].res

Land(g) ==
    /\ tick[g].pc = "back"
    /\ Discard(g) \/ ShowFailure(g) \/ ShowResult(g)
    /\ Become(g, [pc |-> "done"])
    /\ UNCHANGED <<sess, sets, inFlight, proberVars>>

\* Mutant of Finish: the guard stays set.
FinishForgets(g) ==
    /\ tick[g].pc = "done"
    /\ Become(g, Idle)
    /\ UNCHANGED <<managerVars, inFlight, proberVars>>

\* The goroutine's deferred reset.
Finish(g) ==
    /\ tick[g].pc = "done"
    /\ inFlight' = FALSE
    /\ Become(g, Idle)
    /\ UNCHANGED <<managerVars, proberVars>>

-----------------------------------------------------------------------------
(* The sidecars without a client, and restarts.                            *)

Attended(a) == \E g \in Ticks : tick[g].pc = "asked" /\ tick[g].of.src = a

LateArrives(a) ==
    /\ late[a]
    /\ \E more \in BOOLEAN : late' = [late EXCEPT ![a] = more]
    /\ busy' = [busy EXCEPT ![a] = TRUE]
    /\ UNCHANGED <<managerVars, inFlight, tick>>

OrphanEnds(a) ==
    /\ busy[a] /\ ~Attended(a)
    /\ busy' = [busy EXCEPT ![a] = FALSE]
    /\ UNCHANGED <<managerVars, inFlight, tick, late>>

SidecarRestarts(a) ==
    /\ busy' = [busy EXCEPT ![a] = FALSE]
    /\ late' = [late EXCEPT ![a] = FALSE]
    /\ tick' = [g \in Ticks |->
                  IF Waiting(g) /\ tick[g].of.src = a THEN Back(g, Nil) ELSE tick[g]]
    /\ UNCHANGED <<managerVars, inFlight>>

FabricdRestarts ==
    /\ sess' = NoSession /\ vm' = NoView /\ latest' = Nil
    /\ inFlight' = FALSE
    /\ late' = [a \in Ases |->
                  \/ late[a]
                  \/ \E g \in Ticks : tick[g].pc = "sent" /\ tick[g].of.src = a]
    /\ tick' = [g \in Ticks |-> Idle]
    /\ UNCHANGED <<sets, busy>>

Next ==
    \/ \E s \in Sessions : Set(s)
    \/ Clear
    \/ \E g \in Ticks :
          \/ Tick(g) \/ ReadSession(g)
          \/ Arrive(g) \/ Answer(g) \/ GiveUp(g)
          \/ Land(g) \/ Finish(g)
    \/ \E a \in Ases : LateArrives(a) \/ OrphanEnds(a) \/ SidecarRestarts(a)
    \/ FabricdRestarts

Spec == Init /\ [][Next]_vars

\* The ticker ticks, goroutines are scheduled, and the HTTP client's timeout
\* ends every call.  Nothing is asked of viewers, sidecars and restarts.
Fairness ==
    /\ WF_vars(\E g \in Ticks : Tick(g))
    /\ \A g \in Ticks : /\ WF_vars(ReadSession(g)) /\ WF_vars(GiveUp(g))
                        /\ WF_vars(Land(g)) /\ WF_vars(Finish(g))

FairSpec == Spec /\ Fairness

-----------------------------------------------------------------------------
Views == [on : {TRUE}, src : Ases, dst : Ases, auto : BOOLEAN,
          path : Paths \union {Nil}, ok : BOOLEAN]

TickStates ==
    [pc : {"idle", "start", "done"}]
    \union [pc : {"sent", "asked"}, of : Sessions]
    \union [pc : {"back"}, of : Sessions, res : Paths \union {Nil}]

TypeOK ==
    /\ sess \in {NoSession} \union [id : 1..MaxSets, of : Sessions]
    /\ vm \in {NoView} \union Views
    /\ latest \in Paths \union {Nil}
    /\ sets \in 0..MaxSets
    /\ inFlight \in BOOLEAN
    /\ tick \in [Ticks -> TickStates]
    /\ busy \in [Ases -> BOOLEAN] /\ late \in [Ases -> BOOLEAN]

\* "a slow response for a stale session can never clobber a newer one"
\* (idint.go TickOnce): whenever a probe comes back, what is on display is the
\* pair and the pin of the session that is set, with a path that answers them
\* and the raw result of the same probe.
ShownBelongsToSession ==
    IF sess = NoSession THEN vm = NoView /\ latest = Nil
    ELSE /\ vm = Shown(sess.of, latest, vm.ok)
         /\ latest \in Fits(sess.of) \union {Nil}

\* "a tick that is still in flight when the next one fires is skipped, not
\* queued" (idint.go Run): two goroutines never probe, or land, at a time, and
\* the guard is set exactly while one of them is at work.
OneTickAtATime ==
    /\ inFlight <=> \E g \in Ticks : tick[g] # Idle
    /\ \A g, h \in Ticks : tick[g] # Idle /\ tick[h] # Idle => g = h

View == INSTANCE TraceView
          WITH session <- IF sess = NoSession THEN {} ELSE {sess.of},
               path <- IF vm = NoView THEN Nil ELSE vm.path,
               ok <- IF vm = NoView THEN TRUE ELSE vm.ok

\* The manager keeps what a viewer is promised.
KeepsView == View!Spec

\* A session is eventually answered, by a result or an error, unless it is
\* replaced: no guard, conflict or lost reply keeps it pending for good.
Pending(n) == sess.id = n /\ vm = Shown(sess.of, Nil, TRUE)
SessionAnswered == \A n \in 1..MaxSets : Pending(n) ~> ~Pending(n)

=============================================================================
