------------------------------ MODULE MCLinkd -------------------------------
(***************************************************************************)
(* Coalescer and ShapingApi for TLC.  What the handlers do to an interface *)
(* does not depend on the coalescer, nor the coalescer on what changed, so *)
(* in each behaviour one of the two moves; MetadataSync joins them.        *)
(***************************************************************************)
EXTENDS Coalescer, ShapingApi

CONSTANTS h1, h2, t1, t2, i1, i2

MCHandlers == {h1, h2}
MCTimers == {t1, t2}
TwoIfaces == {i1, i2}

MCBaseline == i1 :> ("delay" :> 3 @@ "rate" :> 1)

\* Delay and jitter are 0, below a microsecond, one microsecond, or whole
\* milliseconds; 4 is out of every range, as is a rate of 0.
MCLegal == [delay |-> 0..3, jitter |-> 0..3, loss |-> 0..1, rate |-> {1}]

\* Apply truncates to microseconds, the kernel to ticks of 1/15.625 of one.  So
\* a microsecond reads back as 0.96 of one, which the next merge applies.
Truncated == <<0, 1, 3, 4>>
MCKept == [f \in Fields |-> [v \in 0..MaxUnits |->
              IF f \in {"delay", "jitter"} /\ v > 0 THEN Truncated[v] ELSE v]]

MCUpdates ==
    { "delay" :> 0, "delay" :> 1, "delay" :> 2, "delay" :> 4,
      "jitter" :> 3, "rate" :> 0, "loss" :> 1,
      "delay" :> 3 @@ "jitter" :> 3,
      "delay" :> 0 @@ "jitter" :> 0 }

VARIABLE scene

vars == <<coalescerVars, apiVars, scene>>

Init ==
    /\ CoalescerInit /\ ApiInit
    /\ scene \in {"calls", "requests"}

Next ==
    /\ \/ scene = "calls" /\ CoalescerNext /\ UNCHANGED apiVars
       \/ scene = "requests" /\ ApiNext /\ UNCHANGED coalescerVars
    /\ UNCHANGED scene

Spec == Init /\ [][Next]_vars /\ CoalescerFairness

=============================================================================
