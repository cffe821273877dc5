------------------------------ MODULE HopIndex ------------------------------
(***************************************************************************)
(* Which AS of a path a hop field belongs to                               *)
(* (idint-probed/prober/convert.go).  A path is made of up to three        *)
(* segments of len[1], len[2], len[3] hop fields.  Where two segments meet *)
(* an AS has two hop fields, one of each segment, unless they meet over a  *)
(* peering link.  Every hop field but those stands for two interfaces of   *)
(* the path, of which the metadata list all, from the source on.           *)
(***************************************************************************)
EXTENDS Integers

Shapes ==
    {s \in [len : [1..3 -> Nat], peer : BOOLEAN] :
        LET len == s.len
        IN  \/ ~s.peer /\ len[1] >= 2 /\ len[2] = 0 /\ len[3] = 0
            \/ ~s.peer /\ len[1] >= 2 /\ len[2] >= 2 /\ (len[3] = 0 \/ len[3] >= 2)
            \/ s.peer /\ len[1] >= 1 /\ len[2] >= 1 /\ len[3] = 0}

HopFields(s) == s.len[1] + s.len[2] + s.len[3]

-----------------------------------------------------------------------------
(* What a hop field stands for, as SCION defines it.                       *)

\* The place of its AS on the path, counted from the source, 0.
AsAt(s, i) ==
    i - (IF ~s.peer /\ s.len[2] > 0 /\ i >= s.len[1] THEN 1 ELSE 0)
      - (IF s.len[3] > 0 /\ i >= s.len[1] + s.len[2] THEN 1 ELSE 0)

LastAs(s) == AsAt(s, HopFields(s) - 1)

\* The path lists the far and the near interface of every link.
Interfaces(s) == 2 * LastAs(s)
AsOfInterface(j) == (j + 1) \div 2

-----------------------------------------------------------------------------
(* What the code makes of it.                                              *)

Reversed(s) ==
    [s EXCEPT !.len = IF @[3] > 0 THEN [i \in 1..3 |-> @[4 - i]]
                      ELSE IF @[2] > 0 THEN [i \in 1..3 |-> IF i = 3 THEN 0 ELSE @[3 - i]]
                      ELSE @]

\* Where the second segment begins; over a peering link it is taken for the first.
FirstChange(s) == IF s.peer THEN s.len[1] + s.len[2] ELSE s.len[1]

\* Mutant of InterfaceIdx: peering links are not told apart.
InterfaceIdxNoPeering(s, i) ==
    IF i = 0 THEN 0
    ELSE IF i < s.len[1] THEN 2 * i - 1
    ELSE IF i < s.len[1] + s.len[2] THEN 2 * i - 3
    ELSE 2 * i - 5

\* The interface by which hop field i is told.
InterfaceIdx(s, i) ==
    IF i = 0 THEN 0
    ELSE IF i < FirstChange(s) THEN 2 * i - 1
    ELSE IF i < s.len[1] + s.len[2] THEN 2 * i - 3
    ELSE 2 * i - 5

InRange(s, i) == InterfaceIdx(s, i) \in 0 .. Interfaces(s) - 1

FwdIA(s, i) == AsOfInterface(InterfaceIdx(s, i))

\* Mutant of RevIA: off by one from the end.
RevIAOffByOne(s, i) == AsOfInterface(Interfaces(s) - InterfaceIdx(Reversed(s), i))

\* The hop fields of the way back count from the destination.
RevIA(s, i) == AsOfInterface(Interfaces(s) - InterfaceIdx(Reversed(s), i) - 1)
=============================================================================
