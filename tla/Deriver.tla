------------------------------- MODULE Deriver ------------------------------
(***************************************************************************)
(* The deriver of fabricd as a whole (internal/derive/derive.go): every    *)
(* frame, whether the broadcaster asks for it or a client's handler that   *)
(* finds none, updates the baselines (Baselines) and, measured by them,    *)
(* steps the hysteresis of every link (Derive).                            *)
(***************************************************************************)
EXTENDS Baselines, Derive

CONSTANTS Links,
          Wires,        \* what the gauges of a link other than the RTTs may say
          Declared      \* the RTTs linkd may declare for a link; 0 for none

ASSUME DeriverAssumption ==
    /\ IsFiniteSet(Links)
    /\ Keys = Links \X Ends
    /\ Wires \subseteq [Ends -> [sent : Nat, got : Nat, up : BOOLEAN, alive : BOOLEAN]]
    /\ Declared \subseteq Nat

VARIABLES link,         \* Deriver.state
          kpi,          \* the links the last frame counts as up
          run           \* history: each link's last raw band, how often in a row,
                        \* and the band its RTTs asked for

derived == <<link, kpi, run>>
allVars == <<vars, derived>>

Fresh == [raw |-> "nominal", n |-> Hysteresis, due |-> "nominal"]

DInit ==
    /\ Init
    /\ link = [l \in Links |-> NewLink]
    /\ kpi = Links
    /\ run = [l \in Links |-> Fresh]

\* What the frame reads of an end: the latest RTT, nought before the first, and
\* the baseline that this frame itself has brought up to date.
Report(k, wire) ==
    [rtt |-> IF ring[k].count = 0 THEN 0 ELSE RingLast(ring[k]),
     low |-> Baseline(low'[k]),
     sent |-> wire.sent, got |-> wire.got, up |-> wire.up, alive |-> wire.alive]

Reading(l, wire) == [e \in Ends |-> Report(<<l, e>>, wire[e])]

Ran(r, see) ==
    [raw |-> see.raw, due |-> see.due,
     n |-> IF r.raw # see.raw THEN 1 ELSE IF r.n < Hysteresis THEN r.n + 1 ELSE r.n]

\* History: the least RTT of a series that this process or the saves of earlier
\* ones know of.
Known(k) == LeastMeasured({seen'[k]} \cup (IF life = "cold" THEN {} ELSE {kept[k]}))

\* The worst band that the latest RTTs ask for, measured by what is known.
Due(l, declared) ==
    Worst({RttBand(RingLast(ring[k]), Base(declared, Baseline(Known(k)))) :
              k \in {k \in {l} \X Ends : ring[k].count > 0}} \cup {"nominal"})

\* What a frame may make of the links.
Seen ==
    {[l \in Links |-> [raw |-> Raw(r[l], declared[l]), up |-> Up(r[l]), due |-> Due(l, declared[l])]] :
        r \in {[l \in Links |-> Reading(l, wire[l])] : wire \in [Links -> Wires]},
        declared \in [Links -> Declared]}

DFrame ==
    /\ Frame
    /\ \E see \in Seen :
          /\ link' = [l \in Links |-> Commit(link[l], see[l].raw)]
          /\ kpi' = {l \in Links : see[l].up}
          /\ run' = [l \in Links |-> Ran(run[l], see[l])]

\* A new process starts from nominal.
DGone ==
    /\ link' = [l \in Links |-> NewLink]
    /\ kpi' = Links
    /\ run' = [l \in Links |-> Fresh]

\* What else happens to the baselines does nothing to the links, unless it ends
\* the process.
DOther ==
    /\ \/ \E k \in Keys : \E v \in Reported[k] : Put(k, v)
       \/ Start \/ Seed \/ Copy \/ Save \/ SaveFails \/ Crash
       \/ Reset \/ Damage
    /\ IF life # "down" /\ life' = "down" THEN DGone ELSE UNCHANGED derived

DNext == DFrame \/ DOther

DSpec == DInit /\ [][DNext]_allVars

-----------------------------------------------------------------------------
DeriverTypeOK ==
    /\ TypeOK
    /\ link \in [Links -> LinkStates]
    /\ kpi \subseteq Links
    /\ run \in [Links -> [raw : Bands, n : 1 .. Hysteresis, due : Graded]]

\* "a candidate band must be seen on three consecutive frames before it replaces
\* the committed band" (derive.go, commit), whoever asks for the frames; and then
\* it does replace it.
BandSettles == \A l \in Links : run[l].n = Hysteresis => link[l].band = run[l].raw
BandIsSteady ==
    [][Running /\ life' # "down" =>
          \A l \in Links : link'[l].band # link[l].band => run'[l].n = Hysteresis]_allVars

\* Once three frames have agreed the KPI strip counts those links up that the map
\* does not grey out (derive.go, Frame, on the gauge of an AS that is dead).
KpiMatchesMap ==
    (\A l \in Links : run[l].n = Hysteresis) =>
        kpi = {l \in Links : link[l].band \notin {"down", "stale"}}

\* A link that is held shaped does not decay to nominal, neither when its ring has
\* rolled over nor after a restart (derive.go, baseline): a frame grades no link
\* better than the latest RTTs ask for, measured by what linkd declares or else by
\* the least RTT that is known.
ShapedStaysShaped ==
    \A l \in Links : run[l].raw \in Graded => Severity[run[l].due] <= Severity[run[l].raw]
=============================================================================
