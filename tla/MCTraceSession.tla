--------------------------- MODULE MCTraceSession ---------------------------
(***************************************************************************)
(* TraceSession for TLC: three ASes with two paths between one pair of     *)
(* them and one path between another.                                      *)
(***************************************************************************)
EXTENDS TraceSession, TLC

CONSTANTS a1, a2, a3, fast, slow, other, g1, g2

MCAses == {a1, a2, a3}
MCPaths == {fast, slow, other}
MCEnds == fast :> [src |-> a1, dst |-> a2] @@ slow :> [src |-> a1, dst |-> a2]
          @@ other :> [src |-> a2, dst |-> a3]
MCTicks == {g1, g2}

=============================================================================
