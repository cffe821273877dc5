------------------------------- MODULE Fabric -------------------------------
(***************************************************************************)
(* What the dashboard knows of the fabric's topology                       *)
(* (dashboard/backend/internal/topo), and what the linkds make of it: each *)
(* link joins two ASes, and the linkd of an AS shapes the AS's end of it.  *)
(***************************************************************************)
EXTENDS Integers, FiniteSets, Sequences

CONSTANTS ASes,
          Links,        \* the links, in the order of the topology
          AsOf,         \* the AS at each end of a link
          Shapings,     \* what a dashboard may ask for
          Nominal       \* what linkd's story profile says, or no shaping

Sides == {"A", "B"}
Other(s) == CHOOSE t \in Sides : t # s

LinkSet == {Links[i] : i \in 1 .. Len(Links)}
Ends == LinkSet \X Sides

ASSUME FabricAssumption ==
    /\ IsFiniteSet(ASes)
    /\ Links \in Seq(LinkSet)
    /\ AsOf \in [Ends -> ASes]
    /\ Nominal \notin Shapings

EndsOf(as) == {e \in Ends : AsOf[e] = as}
Peer(e) == AsOf[<<e[1], Other(e[2])>>]

VARIABLE shape          \* what the linkds hold, end by end
=============================================================================
