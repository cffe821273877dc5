----------------------------- MODULE SampleRing -----------------------------
(***************************************************************************)
(* The ring of samples fabricd keeps per series (internal/store/store.go). *)
(***************************************************************************)
EXTENDS Integers, Sequences

CONSTANTS Capacity,     \* how many samples a ring holds
          Unwritten     \* what a slot holds before its first sample

ASSUME RingAssumption == Capacity \in Nat \ {0}

Slot == 0 .. Capacity - 1

NewRing == [buf |-> [i \in Slot |-> Unwritten], next |-> 0, count |-> 0]

RingPut(r, v) ==
    [buf   |-> [r.buf EXCEPT ![r.next] = v],
     next  |-> (r.next + 1) % Capacity,
     count |-> IF r.count < Capacity THEN r.count + 1 ELSE r.count]

RingLast(r) == r.buf[(r.next - 1 + Capacity) % Capacity]

\* Mutant of LastN: it starts at the first slot of the buffer.
LastNFromZero(r, n) ==
    LET m == IF n > r.count THEN r.count ELSE n
    IN  [i \in 1..m |-> r.buf[(i - 1) % Capacity]]

\* The newest n samples, or all if there are fewer, oldest first.
LastN(r, n) ==
    LET m == IF n > r.count THEN r.count ELSE n
        start == (r.next - m + Capacity) % Capacity
    IN  [i \in 1..m |-> r.buf[(start + i - 1) % Capacity]]

Series(r) == LastN(r, r.count)

=============================================================================
