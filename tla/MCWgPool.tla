------------------------------ MODULE MCWgPool ------------------------------
(***************************************************************************)
(* WgPool for TLC: four slots, numbered from two as the generator does,    *)
(* and two requests at a time.                                             *)
(***************************************************************************)
EXTENDS WgPool

MCSlots == 2..5

=============================================================================
