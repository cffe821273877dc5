----------------------------- MODULE MCDeriver ------------------------------
(***************************************************************************)
(* Deriver for TLC: one link.  Its end A measures 1 ms, at times is shaped  *)
(* to 20 ms, and at times has no measurement; its end B has no BFD.  Its    *)
(* router falls silent, and two percent are lost on the way to A.  At times *)
(* linkd declares the shaped RTT to be the link's own.                     *)
(***************************************************************************)
EXTENDS Deriver

CONSTANT l

MCLinks == {l}
MCKeys == MCLinks \X Ends
MCReported == [k \in MCKeys |-> IF k[2] = "A" THEN {0, 2, 40} ELSE {}]

Well == [sent |-> 100, got |-> 100, up |-> TRUE, alive |-> TRUE]
Of(a, b) == [e \in Ends |-> IF e = "A" THEN a ELSE b]
MCWires == {Of(Well, Well),
            Of(Well, [Well EXCEPT !.alive = FALSE]),
            Of([Well EXCEPT !.got = 98], Well)}
MCDeclared == {0, 40}
=============================================================================
