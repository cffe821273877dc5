----------------------------- MODULE MCClaimApi -----------------------------
(***************************************************************************)
(* ClaimApi for TLC: three slots, numbered from two as the generator does, *)
(* three requests at a time and two clients.                               *)
(***************************************************************************)
EXTENDS ClaimApi

MCSlots == 2..4
=============================================================================
