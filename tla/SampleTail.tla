----------------------------- MODULE SampleTail -----------------------------
(***************************************************************************)
(* What the sample store promises the derivation: of every series the      *)
(* newest samples, in the order in which they were put, until fabricd      *)
(* ends.                                                                   *)
(***************************************************************************)
EXTENDS Integers, Sequences

CONSTANTS Keys,         \* the series
          Values,       \* what a sample can hold
          Capacity      \* how many samples of a series are remembered

VARIABLE tail           \* the samples of each series, oldest first

Init == tail = [k \in Keys |-> <<>>]

\* The sequence with v added at its end, and the oldest gone if it is too long.
Newest(s, v) == IF Len(s) < Capacity THEN Append(s, v) ELSE Append(Tail(s), v)

Put(k, v) == tail' = [tail EXCEPT ![k] = Newest(@, v)]

Forget == tail' = [k \in Keys |-> <<>>]

Next == Forget \/ \E k \in Keys, v \in Values : Put(k, v)

Spec == Init /\ [][Next]_tail

=============================================================================
