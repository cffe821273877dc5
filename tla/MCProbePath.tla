---------------------------- MODULE MCProbePath -----------------------------
(***************************************************************************)
(* ProbePath for TLC: a path of one segment that the dashboard's topology  *)
(* does not have, one of three segments, and one over a peering link whose *)
(* latency is not known at one hop.                                        *)
(***************************************************************************)
EXTENDS ProbePath

MCPaths == 1..3
Three(x, y, z) == [i \in 1..3 |-> IF i = 1 THEN x ELSE IF i = 2 THEN y ELSE z]

MCShape == [p \in MCPaths |->
    CASE p = 1 -> [len |-> Three(2, 0, 0), peer |-> FALSE]
      [] p = 2 -> [len |-> Three(2, 2, 2), peer |-> FALSE]
      [] p = 3 -> [len |-> Three(1, 2, 0), peer |-> TRUE]]
MCLatency == [p \in MCPaths |->
    CASE p = 1 -> <<9>> [] p = 2 -> <<2, 0, 3, 0, 2>> [] p = 3 -> <<1, Unset, 2>>]
MCKnown == {2, 3}
=============================================================================
