-------------------------- MODULE MCMetadataSync ---------------------------
(***************************************************************************)
(* MetadataSync for TLC.                                                   *)
(***************************************************************************)
EXTENDS MetadataSync

CONSTANTS i1, i2, h1, h2, t1, t2, main

OneIface == {i1}
TwoIfaces == {i1, i2}
OneHandler == {h1}
TwoHandlers == {h1, h2}
OneTimer == {t1}

MCLegal == [delay |-> 0..1, jitter |-> {0}, loss |-> {0}, rate |-> {1}]
\* Whole milliseconds are read back as they were applied.
MCKept == [f \in Fields |-> [v \in 0..MaxUnits |-> v]]
NoBaseline == <<>>
MCBaseline == i1 :> ("delay" :> 1)

\* Set a delay and reset it; set a rate, which only DELETE takes away.
DelayUpdates == { "delay" :> 1, "delay" :> 0 }
SetRate == { "rate" :> 1 }

ControlService == <<"cs">>
BothServices == <<"cs", "br">>
MCShows == [wr \in WriterSet |->
              [f \in IF wr = "cs" THEN {"delay", "rate"} ELSE {"rate"} |->
                 [v \in 0..MaxUnits |-> v]]]
MCBase == [i \in Ifaces |-> [f \in Fields |-> 0]]
CS == {"cs"}
None == {}

=============================================================================
