----------------------------- MODULE MCLiveHub ------------------------------
(* LiveHub for TLC. *)
EXTENDS LiveHub

CONSTANTS c, d

MCConns == {c, d}
=============================================================================
