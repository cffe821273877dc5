------------------------ MODULE TraceSession_proofs -------------------------
(***************************************************************************)
(* What the trace session keeps for any ASes, paths and goroutines: the    *)
(* view belongs to the session, ticks never overlap, and the manager       *)
(* implements TraceView.                                                   *)
(*                                                                         *)
(* One fact is needed beside the invariants the runs check: a result on    *)
(* its way back answers the copy of the session its tick has made.         *)
(***************************************************************************)
EXTENDS TraceSession, TLAPS

ResultsFit ==
    \A g \in Ticks : tick[g].pc = "back" => tick[g].res \in Fits(tick[g].of) \union {Nil}

Inv == TypeOK /\ ResultsFit /\ ShownBelongsToSession

\* The records of a session, a view and a tick are what they are named for.
LEMMA SessionKinds ==
    ASSUME NEW n \in 1..MaxSets, NEW s \in Sessions
    PROVE /\ [id |-> n, of |-> s] # NoSession
          /\ [id |-> n, of |-> s] \in [id : 1..MaxSets, of : Sessions]
BY DEF NoSession

\* What Set and TickOnce put on display is a view, and not the absent one.
LEMMA ShownIsView ==
    ASSUME NEW s \in Sessions, NEW p \in Paths \union {Nil}, NEW good \in BOOLEAN
    PROVE /\ Shown(s, p, good) \in Views
          /\ Shown(s, p, good) # NoView
BY DEF Shown, Views, NoView, Sessions

\* Back, the return of Probe, keeps a tick's copy of the session.
LEMMA BackTyped ==
    ASSUME NEW g \in Ticks, tick \in [Ticks -> TickStates], Waiting(g),
           NEW res \in Paths \union {Nil}
    PROVE /\ Back(g, res) \in TickStates
          /\ Back(g, res).pc = "back"
          /\ Back(g, res).of = tick[g].of /\ tick[g].of \in Sessions
          /\ Back(g, res).res = res
<1>1. tick[g] \in [pc : {"sent", "asked"}, of : Sessions]
  BY DEF TickStates, Waiting
<1>2. tick[g].of \in Sessions
  BY <1>1
<1>3. Back(g, res) \in [pc : {"back"}, of : Sessions, res : Paths \union {Nil}]
  BY <1>2 DEF Back
<1> QED
  BY <1>2, <1>3 DEF Back, TickStates

\* A tick that has a session's value in hand finds it set only as that value.
LEMMA CurrentIsSession ==
    ASSUME NEW g \in Ticks, Inv, Current(g)
    PROVE /\ sess # NoSession /\ sess.of = tick[g].of /\ sess.of \in Sessions
          /\ vm # NoView /\ vm = Shown(sess.of, latest, vm.ok)
          /\ latest \in Fits(sess.of) \union {Nil}
<1>1. sess # NoSession /\ sess.of = tick[g].of
  BY DEF Current, NoSession
<1>2. sess.of \in Sessions
  BY <1>1 DEF Inv, TypeOK
<1>3. vm = Shown(sess.of, latest, vm.ok) /\ latest \in Fits(sess.of) \union {Nil}
  BY <1>1 DEF Inv, ShownBelongsToSession
<1>4. vm # NoView
  BY <1>3 DEF Shown, NoView
<1> QED
  BY <1>1, <1>2, <1>3, <1>4

\* The guard on the result leaves the display to the session that is set: each
\* way a probe can land keeps the two together.
LEMMA LandKeeps ==
    ASSUME NEW g \in Ticks, Inv, Land(g)
    PROVE Inv'
<1> USE DEF Inv
<1>1. tick' = [tick EXCEPT ![g] = [pc |-> "done"]]
  BY DEF Land, Become
<1>2. [pc |-> "done"] \in TickStates
  BY DEF TickStates
<1>3. ResultsFit'
  BY <1>1 DEF ResultsFit, TypeOK
<1>4. tick' \in [Ticks -> TickStates]
  BY <1>1, <1>2 DEF TypeOK
<1>5. sess' = sess /\ UNCHANGED <<sets, inFlight, busy, late>>
  BY DEF Land, proberVars
<1>6. (vm' \in {NoView} \union Views /\ latest' \in Paths \union {Nil} /\ ShownBelongsToSession')
  <2>1. CASE Discard(g)
    BY <2>1, <1>5 DEF Discard, TypeOK, ShownBelongsToSession
  <2>2. CASE ShowFailure(g)
    <3>1. /\ sess # NoSession /\ sess.of = tick[g].of /\ sess.of \in Sessions
          /\ vm # NoView /\ vm = Shown(sess.of, latest, vm.ok)
          /\ latest \in Fits(sess.of) \union {Nil}
      BY <2>2, CurrentIsSession DEF ShowFailure
    <3>2. latest' = latest /\ latest \in Paths \union {Nil}
      BY <2>2 DEF ShowFailure, TypeOK
    <3>3. vm' = [vm EXCEPT !.ok = FALSE]
      BY <2>2, <3>1 DEF ShowFailure
    <3> PICK good : vm = Shown(sess.of, latest, good)
      BY <3>1
    <3>4. vm' = Shown(sess.of, latest, FALSE)
      BY <3>3 DEF Shown
    <3>5. vm'.ok = FALSE
      BY <3>4 DEF Shown
    <3>6. vm' \in Views
      BY <3>4, <3>1, <3>2, ShownIsView
    <3>7. /\ (sess # NoSession)' /\ (vm = Shown(sess.of, latest, vm.ok))'
          /\ (latest \in Fits(sess.of) \union {Nil})'
      BY <1>5, <3>1, <3>2, <3>4, <3>5 DEF Shown, Fits
    <3> QED
      BY <3>2, <3>6, <3>7 DEF ShownBelongsToSession
  <2>3. CASE ShowResult(g)
    <3>1. sess # NoSession /\ sess.of = tick[g].of /\ sess.of \in Sessions
      BY <2>3, CurrentIsSession DEF ShowResult
    <3>2. tick[g].pc = "back" /\ tick[g].res # Nil
      BY <2>3 DEF Land, ShowResult
    <3>3. tick[g].res \in Fits(sess.of) /\ tick[g].res \in Paths
      BY <3>1, <3>2 DEF ResultsFit, Fits
    <3>4. vm' = Shown(sess.of, latest', TRUE) /\ latest' = tick[g].res
      BY <2>3, <3>1 DEF ShowResult
    <3>5. vm'.ok = TRUE
      BY <3>4 DEF Shown
    <3>6. vm' \in Views
      BY <3>1, <3>3, <3>4, ShownIsView
    <3>7. /\ (sess # NoSession)' /\ (vm = Shown(sess.of, latest, vm.ok))'
          /\ (latest \in Fits(sess.of) \union {Nil})'
      BY <1>5, <3>1, <3>3, <3>4, <3>5 DEF Shown, Fits
    <3> QED
      BY <3>3, <3>4, <3>6, <3>7 DEF ShownBelongsToSession
  <2> QED
    BY <2>1, <2>2, <2>3 DEF Land
<1> QED
  BY <1>3, <1>4, <1>5, <1>6 DEF TypeOK

\* A step that leaves the manager alone and gives the ticks sound states keeps
\* the invariant.
LEMMA ManagerUntouched ==
    ASSUME Inv, UNCHANGED managerVars,
           tick' \in [Ticks -> TickStates], ResultsFit', inFlight' \in BOOLEAN,
           busy' \in [Ases -> BOOLEAN], late' \in [Ases -> BOOLEAN]
    PROVE Inv'
BY DEF Inv, TypeOK, ShownBelongsToSession, managerVars

LEMMA InvStep == Inv /\ [Next]_vars => Inv'
<1> SUFFICES ASSUME Inv, [Next]_vars PROVE Inv'
  OBVIOUS
<1> USE TraceAssumption
<1>t. /\ tick \in [Ticks -> TickStates] /\ inFlight \in BOOLEAN
      /\ busy \in [Ases -> BOOLEAN] /\ late \in [Ases -> BOOLEAN]
      /\ sess \in {NoSession} \union [id : 1..MaxSets, of : Sessions]
      /\ sets \in 0..MaxSets /\ ResultsFit
  BY DEF Inv, TypeOK
<1>p. [pc |-> "start"] \in TickStates /\ [pc |-> "done"] \in TickStates /\ Idle \in TickStates
  BY DEF TickStates, Idle
<1>1. ASSUME NEW s \in Sessions, Set(s) PROVE Inv'
  <2>1. sess' = [id |-> sets + 1, of |-> s] /\ sets + 1 \in 1..MaxSets /\ sets' = sets + 1
    BY <1>1, <1>t DEF Set
  <2>2. sess' # NoSession /\ sess' \in [id : 1..MaxSets, of : Sessions]
    BY <2>1, SessionKinds
  <2>3. vm' = Shown(s, Nil, TRUE) /\ vm' \in Views /\ latest' = Nil /\ vm'.ok = TRUE
    BY <1>1, ShownIsView DEF Set, Shown
  <2>4. sess'.of = s
    BY <2>1
  <2>5. ShownBelongsToSession'
    BY <2>2, <2>3, <2>4 DEF ShownBelongsToSession, Shown, Fits
  <2>6. UNCHANGED <<inFlight, tick, busy, late>>
    BY <1>1 DEF Set, proberVars
  <2>7. sets' \in 0..MaxSets
    BY <2>1
  <2>8. TypeOK'
    BY <1>t, <2>2, <2>3, <2>6, <2>7 DEF TypeOK
  <2>9. ResultsFit'
    BY <1>t, <2>6 DEF ResultsFit
  <2> QED
    BY <2>5, <2>8, <2>9 DEF Inv
<1>2. CASE Clear
  BY <1>2, <1>t DEF Clear, proberVars, Inv, TypeOK, ResultsFit, ShownBelongsToSession
<1>3. CASE FabricdRestarts
  <2>1. tick' \in [Ticks -> TickStates] /\ ResultsFit'
    BY <1>3, <1>p DEF FabricdRestarts, ResultsFit, Idle
  <2>2. late' \in [Ases -> BOOLEAN]
    BY <1>3 DEF FabricdRestarts
  <2> QED
    BY <1>3, <1>t, <2>1, <2>2 DEF FabricdRestarts, Inv, TypeOK, ShownBelongsToSession
<1>4. ASSUME NEW g \in Ticks,
             Tick(g) \/ ReadSession(g) \/ Arrive(g) \/ Answer(g) \/ GiveUp(g)
                \/ Land(g) \/ Finish(g)
      PROVE Inv'
  <2>1. CASE Tick(g)
    <3>1. tick' \in [Ticks -> TickStates] /\ ResultsFit' /\ inFlight' \in BOOLEAN
      BY <2>1, <1>t, <1>p DEF Tick, Become, ResultsFit
    <3> QED
      BY <2>1, <3>1, <1>t, ManagerUntouched DEF Tick, proberVars
  <2>2. CASE ReadSession(g)
    <3>1. CASE sess = NoSession
      BY <2>2, <3>1, <1>t, <1>p, ManagerUntouched DEF ReadSession, Become, ResultsFit, proberVars
    <3>2. CASE sess # NoSession
      <4>1. sess.id \in 1..MaxSets /\ sess.of \in Sessions
        BY <3>2, <1>t
      <4>2. [pc |-> "sent", of |-> sess.of] \in TickStates
        BY <4>1 DEF TickStates
      <4>3. tick' \in [Ticks -> TickStates] /\ ResultsFit'
        BY <2>2, <3>2, <4>2, <1>t DEF ReadSession, Become, ResultsFit
      <4> QED
        BY <2>2, <4>3, <1>t, ManagerUntouched DEF ReadSession, proberVars
    <3> QED
      BY <3>1, <3>2
  <2>3. ASSUME NEW res \in Fits(tick[g].of) \union {Nil}, Waiting(g), Become(g, Back(g, res))
        PROVE tick' \in [Ticks -> TickStates] /\ ResultsFit'
    <3>1. res \in Paths \union {Nil}
      BY <2>3 DEF Fits
    <3>2. Back(g, res) \in TickStates /\ Back(g, res).of = tick[g].of /\ Back(g, res).res = res
      BY <1>t, <2>3, <3>1, BackTyped
    <3> QED
      BY <2>3, <3>2, <1>t DEF Become, ResultsFit
  <2>4. CASE Arrive(g)
    <3>1. tick[g] \in [pc : {"sent", "asked"}, of : Sessions] /\ Waiting(g)
      BY <2>4, <1>t DEF Arrive, TickStates, Waiting
    <3>2. CASE busy[tick[g].of.src]
      <4>1. tick' \in [Ticks -> TickStates] /\ ResultsFit' /\ busy' = busy
        BY <2>4, <3>1, <3>2, <2>3 DEF Arrive
      <4> QED
        BY <2>4, <4>1, <1>t, ManagerUntouched DEF Arrive
    <3>3. CASE ~busy[tick[g].of.src]
      <4>1. [tick[g] EXCEPT !.pc = "asked"] \in TickStates
            /\ [tick[g] EXCEPT !.pc = "asked"].pc = "asked"
        BY <3>1 DEF TickStates
      <4>2. tick' \in [Ticks -> TickStates] /\ ResultsFit' /\ busy' \in [Ases -> BOOLEAN]
        BY <2>4, <3>3, <4>1, <1>t DEF Arrive, Become, ResultsFit
      <4> QED
        BY <2>4, <4>2, <1>t, ManagerUntouched DEF Arrive
    <3> QED
      BY <3>2, <3>3
  <2>5. CASE Answer(g)
    <3>1. tick' \in [Ticks -> TickStates] /\ ResultsFit'
      BY <2>5, <2>3 DEF Answer, Waiting
    <3> QED
      BY <2>5, <3>1, <1>t, ManagerUntouched DEF Answer
  <2>6. CASE GiveUp(g)
    <3>1. tick' \in [Ticks -> TickStates] /\ ResultsFit'
      BY <2>6, <2>3 DEF GiveUp
    <3>2. late' \in [Ases -> BOOLEAN]
      BY <2>6, <1>t DEF GiveUp
    <3> QED
      BY <2>6, <3>1, <3>2, <1>t, ManagerUntouched DEF GiveUp
  <2>7. CASE Land(g)
    BY <2>7, LandKeeps
  <2>8. CASE Finish(g)
    <3>1. tick' \in [Ticks -> TickStates] /\ ResultsFit' /\ inFlight' \in BOOLEAN
      BY <2>8, <1>t, <1>p DEF Finish, Become, ResultsFit, Idle
    <3> QED
      BY <2>8, <3>1, <1>t, ManagerUntouched DEF Finish, proberVars
  <2> QED
    BY <1>4, <2>1, <2>2, <2>4, <2>5, <2>6, <2>7, <2>8
<1>5. ASSUME NEW a \in Ases, LateArrives(a) \/ OrphanEnds(a) PROVE Inv'
  BY <1>5, <1>t, ManagerUntouched DEF LateArrives, OrphanEnds, ResultsFit
<1>6. ASSUME NEW a \in Ases, SidecarRestarts(a) PROVE Inv'
  <2>1. ASSUME NEW g \in Ticks
        PROVE /\ tick'[g] \in TickStates
              /\ tick'[g].pc = "back" => tick'[g].res \in Fits(tick'[g].of) \union {Nil}
    <3>1. CASE Waiting(g) /\ tick[g].of.src = a
      <4>1. tick'[g] = Back(g, Nil)
        BY <1>6, <3>1 DEF SidecarRestarts
      <4> QED
        BY <4>1, <3>1, <1>t, BackTyped
    <3>2. CASE ~(Waiting(g) /\ tick[g].of.src = a)
      BY <1>6, <3>2, <1>t DEF SidecarRestarts, ResultsFit
    <3> QED
      BY <3>1, <3>2
  <2>2. tick' \in [Ticks -> TickStates] /\ ResultsFit'
    BY <1>6, <2>1 DEF SidecarRestarts, ResultsFit
  <2> QED
    BY <1>6, <2>2, <1>t, ManagerUntouched DEF SidecarRestarts
<1>7. CASE UNCHANGED vars
  BY <1>7, <1>t, ManagerUntouched DEF vars, managerVars, proberVars, ResultsFit
<1> QED
  BY <1>1, <1>2, <1>3, <1>4, <1>5, <1>6, <1>7 DEF Next

-----------------------------------------------------------------------------
(* One tick at a time.                                                     *)

\* A tick at work that goes on working changes nothing for the guard.
LEMMA StillAtWork ==
    ASSUME OneTickAtATime, tick \in [Ticks -> TickStates],
           NEW g \in Ticks, tick[g] # Idle,
           NEW t, t # Idle, Become(g, t), UNCHANGED inFlight
    PROVE OneTickAtATime'
BY DEF OneTickAtATime, Become

LEMMA OneTickStep == OneTickAtATime /\ Inv /\ [Next]_vars => OneTickAtATime'
<1> SUFFICES ASSUME OneTickAtATime, Inv, [Next]_vars PROVE OneTickAtATime'
  OBVIOUS
<1>t. tick \in [Ticks -> TickStates]
  BY DEF Inv, TypeOK
<1>s. ASSUME UNCHANGED <<inFlight, tick>> PROVE OneTickAtATime'
  BY <1>s DEF OneTickAtATime
<1>1. CASE \/ \E s \in Sessions : Set(s)
           \/ Clear
           \/ \E a \in Ases : LateArrives(a) \/ OrphanEnds(a)
           \/ UNCHANGED vars
  BY <1>1, <1>s DEF Set, Clear, LateArrives, OrphanEnds, vars
<1>2. CASE FabricdRestarts
  BY <1>2 DEF FabricdRestarts, OneTickAtATime
<1>3. ASSUME NEW a \in Ases, SidecarRestarts(a) PROVE OneTickAtATime'
  <2>1. ASSUME NEW g \in Ticks PROVE tick'[g] # Idle <=> tick[g] # Idle
    BY <1>3 DEF SidecarRestarts, Waiting, Back, Idle
  <2> QED
    BY <1>3, <2>1 DEF SidecarRestarts, OneTickAtATime
<1>4. ASSUME NEW g \in Ticks, Tick(g) PROVE OneTickAtATime'
  <2>1. [pc |-> "start"] # Idle
    BY DEF Idle
  <2>2. \A h \in Ticks : tick[h] = Idle
    BY <1>4 DEF Tick, OneTickAtATime
  <2> QED
    BY <1>4, <1>t, <2>1, <2>2 DEF Tick, Become, OneTickAtATime
<1>5. ASSUME NEW g \in Ticks, Finish(g) PROVE OneTickAtATime'
  <2>1. tick[g] # Idle
    BY <1>5 DEF Finish, Idle
  <2>2. \A h \in Ticks : h # g => tick[h] = Idle
    BY <2>1 DEF OneTickAtATime
  <2> QED
    BY <1>5, <1>t, <2>2 DEF Finish, Become, OneTickAtATime
<1>6. ASSUME NEW g \in Ticks,
             ReadSession(g) \/ Arrive(g) \/ Answer(g) \/ GiveUp(g) \/ Land(g)
      PROVE OneTickAtATime'
  <2>1. tick[g] # Idle /\ UNCHANGED inFlight
    BY <1>6 DEF ReadSession, Arrive, Answer, GiveUp, Waiting, Land, Idle
  <2>2. \E t : Become(g, t) /\ t # Idle
    <3>1. \A res : Back(g, res) # Idle
      BY DEF Back, Idle
    <3>2. [pc |-> "done"] # Idle /\ (\A s : [pc |-> "sent", of |-> s] # Idle)
      BY DEF Idle
    <3>3. CASE ReadSession(g)
      BY <3>2, <3>3 DEF ReadSession
    <3>4. CASE Arrive(g)
      <4>1. tick[g] \in [pc : {"sent", "asked"}, of : Sessions]
        BY <3>4, <1>t DEF Arrive, TickStates
      <4>2. [tick[g] EXCEPT !.pc = "asked"] # Idle
        BY <4>1 DEF Idle
      <4> QED
        BY <3>1, <3>4, <4>2 DEF Arrive
    <3>5. CASE Answer(g) \/ GiveUp(g)
      BY <3>1, <3>5 DEF Answer, GiveUp
    <3>6. CASE Land(g)
      BY <3>2, <3>6 DEF Land
    <3> QED
      BY <1>6, <3>3, <3>4, <3>5, <3>6
  <2> QED
    BY <1>t, <2>1, <2>2, StillAtWork
<1> QED
  BY <1>1, <1>2, <1>3, <1>4, <1>5, <1>6 DEF Next

-----------------------------------------------------------------------------

LEMMA InvInit == Init => Inv /\ OneTickAtATime
<1> SUFFICES ASSUME Init PROVE Inv /\ OneTickAtATime
  OBVIOUS
<1>1. Idle \in TickStates
  BY DEF Idle, TickStates
<1>2. 0 \in 0..MaxSets
  BY TraceAssumption
<1>3. TypeOK
  BY <1>1, <1>2 DEF Init, TypeOK
<1>4. ResultsFit /\ ShownBelongsToSession /\ OneTickAtATime
  BY DEF Init, Idle, ResultsFit, ShownBelongsToSession, OneTickAtATime
<1> QED
  BY <1>3, <1>4 DEF Inv

LEMMA Invariants == Spec => [](Inv /\ OneTickAtATime)
<1>1. (Inv /\ OneTickAtATime) /\ [Next]_vars => (Inv /\ OneTickAtATime)'
  BY InvStep, OneTickStep
<1> QED
  BY InvInit, <1>1, PTL DEF Spec

\* Every variable of the trace session keeps its type.
THEOREM TraceTyped == Spec => []TypeOK
<1>1. Inv => TypeOK
  BY DEF Inv
<1> QED
  BY Invariants, <1>1, PTL

\* Whatever a probe brings back, and whenever, the display and the raw result
\* are those of the session that is set (idint.go Set, Clear, TickOnce).
THEOREM DisplayBelongs == Spec => []ShownBelongsToSession
<1>1. Inv => ShownBelongsToSession
  BY DEF Inv
<1> QED
  BY Invariants, <1>1, PTL

\* inFlight is set exactly while a tick is at work, and one is at most
\* (idint.go Run).
THEOREM TicksDoNotOverlap == Spec => []OneTickAtATime
BY Invariants, PTL

-----------------------------------------------------------------------------
(* The refinement of TraceView.                                            *)

\* How a probe lands is what a viewer is promised: nothing, a failure, or a
\* path of the session.
LEMMA LandImplements ==
    ASSUME NEW g \in Ticks, Inv, Land(g)
    PROVE [View!Next]_View!vars
<1>1. CASE Discard(g)
  BY <1>1 DEF Land, Discard, View!vars
<1>2. CASE ShowFailure(g)
  <2>1. /\ sess # NoSession /\ sess.of = tick[g].of /\ sess.of \in Sessions
        /\ vm # NoView /\ vm = Shown(sess.of, latest, vm.ok)
    BY <1>2, CurrentIsSession DEF ShowFailure
  <2> PICK good : vm = Shown(sess.of, latest, good)
    BY <2>1
  <2>2. vm' = Shown(sess.of, latest, FALSE)
    BY <1>2, <2>1 DEF ShowFailure, Shown
  <2>3. vm'.path = vm.path /\ vm'.ok = FALSE /\ vm' # NoView /\ sess' = sess
    BY <2>2, <1>2 DEF Shown, NoView, Land
  <2>4. View!Fail
    BY <2>1, <2>3 DEF View!Fail
  <2> QED
    BY <2>4 DEF View!Next
<1>3. CASE ShowResult(g)
  <2>1. sess # NoSession /\ sess.of = tick[g].of /\ sess.of \in Sessions
    BY <1>3, CurrentIsSession DEF ShowResult
  <2>2. tick[g].res \in Fits(sess.of)
    BY <1>3, <2>1 DEF Land, ShowResult, Inv, ResultsFit
  <2>3. vm' = Shown(sess.of, tick[g].res, TRUE) /\ sess' = sess
    BY <1>3, <2>1 DEF ShowResult, Land
  <2>4. vm' # NoView /\ vm'.path = tick[g].res /\ vm'.ok = TRUE
    BY <2>3 DEF Shown, NoView
  <2>5. View!Show(tick[g].res)
    BY <2>1, <2>2, <2>3, <2>4 DEF View!Show
  <2> QED
    BY <2>1, <2>2, <2>5 DEF View!Next
<1> QED
  BY <1>1, <1>2, <1>3 DEF Land

LEMMA StepImplements == Inv /\ [Next]_vars => [View!Next]_View!vars
<1> SUFFICES ASSUME Inv, [Next]_vars PROVE [View!Next]_View!vars
  OBVIOUS
<1>s. ASSUME UNCHANGED <<sess, vm>> PROVE [View!Next]_View!vars
  BY <1>s DEF View!vars
<1>1. ASSUME NEW s \in Sessions, Set(s) PROVE [View!Next]_View!vars
  <2>1. sess' # NoSession /\ sess'.of = s
    BY <1>1 DEF Set, NoSession
  <2>2. vm' # NoView /\ vm'.path = Nil /\ vm'.ok = TRUE
    BY <1>1 DEF Set, Shown, NoView
  <2>3. View!Choose(s)
    BY <2>1, <2>2 DEF View!Choose
  <2> QED
    BY <2>3 DEF View!Next
<1>2. CASE Clear \/ FabricdRestarts
  <2>1. View!Stop
    BY <1>2 DEF Clear, FabricdRestarts, View!Stop
  <2> QED
    BY <2>1 DEF View!Next
<1>3. ASSUME NEW g \in Ticks, Land(g) PROVE [View!Next]_View!vars
  BY <1>3, LandImplements
<1>4. CASE \/ \E g \in Ticks : \/ Tick(g) \/ ReadSession(g) \/ Arrive(g) \/ Answer(g)
                               \/ GiveUp(g) \/ Finish(g)
           \/ \E a \in Ases : LateArrives(a) \/ OrphanEnds(a) \/ SidecarRestarts(a)
           \/ UNCHANGED vars
  BY <1>4, <1>s DEF Tick, ReadSession, Arrive, Answer, GiveUp, Finish, LateArrives,
       OrphanEnds, SidecarRestarts, vars, managerVars
<1> QED
  BY <1>1, <1>2, <1>3, <1>4 DEF Next

\* The manager implements what a viewer is promised: TraceView, for any
\* interleaving of viewers, ticks, sidecars and restarts.
THEOREM ManagerImplementsView == Spec => KeepsView
<1>1. Init => View!Init
  BY DEF Init, View!Init
<1>2. Spec => [](Inv /\ OneTickAtATime)
  BY Invariants
<1> QED
  BY <1>1, <1>2, StepImplements, PTL DEF Spec, KeepsView, View!Spec

=============================================================================
