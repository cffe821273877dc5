------------------------------- MODULE Derive -------------------------------
(***************************************************************************)
(* How fabricd derives a link's band from what the store says of it        *)
(* (internal/derive/derive.go).  A reading is the newest of every gauge of *)
(* the link's two ends, in the units in which all thresholds are whole:    *)
(* RTTs in half milliseconds, rates in units of LossMin.                   *)
(***************************************************************************)
EXTENDS Integers, FiniteSets

Ends == {"A", "B"}
Far(e) == CHOOSE f \in Ends : f # e

Graded == {"nominal", "elevated", "degraded", "critical"}
Bands == Graded \cup {"down", "stale"}

Severity == [b \in Graded |->
    CASE b = "nominal" -> 0 [] b = "elevated" -> 1
      [] b = "degraded" -> 2 [] b = "critical" -> 3]

Worst(S) == CHOOSE b \in S : \A c \in S : Severity[c] <= Severity[b]

Floor == 1      \* baselineFloor
LossMin == 1    \* lossMinMbit
Hysteresis == 3

\* What an end reports: its RTT and the baseline of that RTT, the rates at which
\* it sends and receives, that its interface is not down, that its border router
\* answers scrapes.
Reports == [rtt : Nat, low : Nat, sent : Nat, got : Nat, up : BOOLEAN, alive : BOOLEAN]

-----------------------------------------------------------------------------
(* The band of one reading.                                                *)

\* The ratios count only from an absolute increase on.
RttBand(rtt, base) ==
    LET added == rtt - base
        Risen(much, times, some) == added >= much \/ (rtt >= times * base /\ added >= some)
    IN  IF Risen(300, 25, 120) THEN "critical"
        ELSE IF Risen(80, 8, 30) THEN "degraded"
        ELSE IF Risen(20, 3, 8) THEN "elevated"
        ELSE "nominal"

\* Loss is not graded "elevated".
LossBand(out, in) ==
    LET lost == 100 * (out - in)
    IN  IF out <= LossMin THEN "nominal"
        ELSE IF lost >= 5 * out THEN "critical"
        ELSE IF lost >= out THEN "degraded"
        ELSE "nominal"

\* linkd's declared delay, there and back, is preferred to what was observed.
Base(declared, low) == IF declared >= Floor THEN declared ELSE low

Down(r) == \E e \in Ends : ~r[e].up
Stale(r) == \E e \in Ends : ~r[e].alive

\* Mutant of Raw: a router that does not answer leaves the last values standing.
RawTrusting(r, declared) ==
    IF Down(r) THEN "down"
    ELSE Worst({RttBand(r[e].rtt, Base(declared, r[e].low)) : e \in Ends}
               \cup {LossBand(r[e].sent, r[Far(e)].got) : e \in Ends})

Raw(r, declared) ==
    IF Down(r) THEN "down"
    ELSE IF Stale(r) THEN "stale"
    ELSE Worst({RttBand(r[e].rtt, Base(declared, r[e].low)) : e \in Ends}
               \cup {LossBand(r[e].sent, r[Far(e)].got) : e \in Ends})

\* Mutant of Up: the gauge of an interface outlives its router.
UpByGauge(r) == ~Down(r)

\* What the KPI strip counts as up.
Up(r) == ~Down(r) /\ ~Stale(r)

-----------------------------------------------------------------------------
(* The hysteresis.                                                         *)

NewLink == [band |-> "nominal", pend |-> "none", n |-> 0]

LinkStates == [band : Bands, pend : Bands \cup {"none"}, n : 0 .. Hysteresis]

\* Mutant of Commit: the count goes on over a change of the candidate.
CommitAnyChange(s, raw) ==
    IF raw = s.band THEN [s EXCEPT !.pend = "none", !.n = 0]
    ELSE LET n == s.n + 1
         IN  [band |-> IF n >= Hysteresis THEN raw ELSE s.band, pend |-> raw,
              n |-> IF n > Hysteresis THEN Hysteresis ELSE n]

\* Mutant of Commit: a frame in the committed band does not reset the count.
CommitNoReset(s, raw) ==
    IF raw = s.band THEN s
    ELSE LET n == IF s.pend = raw THEN s.n + 1 ELSE 1
         IN  [band |-> IF n >= Hysteresis THEN raw ELSE s.band, pend |-> raw,
              n |-> IF n > Hysteresis THEN Hysteresis ELSE n]

\* Mutant of Commit: one frame more is asked for.
CommitLate(s, raw) ==
    IF raw = s.band THEN [s EXCEPT !.pend = "none", !.n = 0]
    ELSE LET n == IF s.pend = raw THEN s.n + 1 ELSE 1
         IN  [band |-> IF n > Hysteresis THEN raw ELSE s.band, pend |-> raw, n |-> n]

\* A candidate replaces the band when Hysteresis frames in a row say so.
Commit(s, raw) ==
    IF raw = s.band THEN [s EXCEPT !.pend = "none", !.n = 0]
    ELSE LET n == IF s.pend = raw THEN s.n + 1 ELSE 1
         IN  [band |-> IF n >= Hysteresis THEN raw ELSE s.band, pend |-> raw, n |-> n]

=============================================================================
