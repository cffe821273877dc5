------------------------------ MODULE Baselines ------------------------------
(***************************************************************************)
(* The RTT baselines of fabricd: the samples the scrapers put into the     *)
(* store, the running minimum that each frame takes of them (baseline in   *)
(* internal/derive/derive.go) and the file that carries the minima over    *)
(* restarts (runBaselinePersistence in cmd/fabricd/main.go).  The goroutine *)
(* that seeds and saves runs beside the frames.  An RTT of 0 says that the *)
(* router has not measured yet.  A map without an entry for a series has 0 *)
(* there, which code and model pass over alike.                            *)
(***************************************************************************)
EXTENDS SampleRing

CONSTANTS Keys,         \* the RTT series, one per end of a link
          Reported,     \* what a router may report in each series
          Corrupt,      \* a file that cannot be read
          Careful       \* the operator resets only while fabricd is stopped

ASSUME BaselinesAssumption ==
    /\ Unwritten \notin Nat
    /\ Reported \in [Keys -> SUBSET Nat]
    /\ Corrupt \notin [Keys -> Nat]
    /\ Careful \in BOOLEAN

VARIABLES life,         \* "down", "cold" (not yet seeded), "seeded", "exiting"
          ring,         \* Store.data
          low,          \* Deriver.baselineMin
          file,         \* baselines_path
          copy,         \* the save in progress
          seen,         \* history: the least RTT this process had in a frame
          kept,         \* history: the least RTT whose save has completed
          least         \* history: the least RTT in a frame since the reset

vars == <<life, ring, low, file, copy, seen, kept, least>>
history == <<seen, kept, least>>

BaselineFloor == 1      \* RTTs are in half milliseconds

Maps == [Keys -> Nat]
Nothing == [k \in Keys |-> 0]
NoCopy == [busy |-> FALSE]

\* The least measured RTT in a set; 0 if there is none.
LeastMeasured(S) ==
    IF S \subseteq {0} THEN 0
    ELSE CHOOSE x \in S \ {0} : \A y \in S \ {0} : x <= y

MergeMin(m, n) == [k \in Keys |-> LeastMeasured({m[k], n[k]})]

Samples(k) == {Series(ring[k])[i] : i \in 1 .. ring[k].count}

\* Mutant of RingMin: it looks at the latest sample only.
RingMinOfLast(k) == IF ring[k].count = 0 THEN 0 ELSE RingLast(ring[k])

\* The least measured RTT that the ring still holds.
RingMin(k) == LeastMeasured(Samples(k))

\* The baseline of a minimum: the floor below it and where there is none.
Baseline(m) == IF m < BaselineFloor THEN BaselineFloor ELSE m

\* History: the least of what is held in m and what the frame sees.
Witness(m) == [k \in Keys |-> LeastMeasured(Samples(k) \cup {m[k]})]

Init ==
    /\ life = "down"
    /\ ring = [k \in Keys |-> NewRing]
    /\ low = Nothing
    /\ file = Nothing
    /\ copy = NoCopy
    /\ seen = Nothing /\ kept = Nothing /\ least = Nothing

Running == life # "down"

-----------------------------------------------------------------------------
(* The store and the frames.                                               *)

\* A scrape succeeds and reports a finite RTT; one that fails, or reports NaN,
\* leaves the series as it is.
Put(k, v) ==
    /\ Running
    /\ ring' = [ring EXCEPT ![k] = RingPut(@, v)]
    /\ UNCHANGED <<life, low, file, copy, history>>

\* Mutant of Frame: the minimum is that of the ring.
FrameForgets ==
    /\ Running
    /\ low' = [k \in Keys |-> RingMin(k)]
    /\ seen' = Witness(seen) /\ least' = Witness(least)
    /\ UNCHANGED <<life, ring, file, copy, kept>>

\* Mutant of Frame: where nothing has been measured the floor is recorded.
FrameRecordsFloor ==
    /\ Running
    /\ low' = [k \in Keys |-> Baseline(LeastMeasured({RingMin(k), low[k]}))]
    /\ seen' = Witness(seen) /\ least' = Witness(least)
    /\ UNCHANGED <<life, ring, file, copy, kept>>

\* A frame takes the baseline of both ends of every link.
Frame ==
    /\ Running
    /\ low' = [k \in Keys |-> LeastMeasured({RingMin(k), low[k]})]
    /\ seen' = Witness(seen) /\ least' = Witness(least)
    /\ UNCHANGED <<life, ring, file, copy, kept>>

-----------------------------------------------------------------------------
(* The goroutine that keeps the file.                                      *)

Start ==
    /\ life = "down"
    /\ life' = "cold"
    /\ UNCHANGED <<ring, low, file, copy, history>>

\* Mutant of Seed: what was saved replaces what was seen.
SeedReplaces ==
    /\ life = "cold"
    /\ life' = "seeded"
    /\ low' = IF file = Corrupt THEN low
              ELSE [k \in Keys |-> IF file[k] # 0 THEN file[k] ELSE low[k]]
    /\ UNCHANGED <<ring, file, copy, history>>

\* loadBaselines and SeedBaselines; a file that cannot be read seeds nothing.
Seed ==
    /\ life = "cold"
    /\ life' = "seeded"
    /\ low' = IF file = Corrupt THEN low ELSE MergeMin(low, file)
    /\ UNCHANGED <<ring, file, copy, history>>

\* Baselines copies the minima, for the ticker or for SIGTERM.
Copy ==
    /\ life = "seeded" /\ ~copy.busy
    /\ copy' = [busy |-> TRUE, map |-> low, seen |-> seen]
    /\ life' \in {"seeded", "exiting"}
    /\ UNCHANGED <<ring, low, file, history>>

\* What the process held is gone.
Gone ==
    /\ life' = "down"
    /\ ring' = [k \in Keys |-> NewRing]
    /\ low' = Nothing /\ seen' = Nothing
    /\ copy' = NoCopy

GoOn == IF life = "exiting" THEN Gone
        ELSE copy' = NoCopy /\ UNCHANGED <<life, ring, low, seen>>

\* saveBaselines renames the complete temporary file.
Save ==
    /\ copy.busy
    /\ file' = copy.map
    /\ kept' = MergeMin(kept, copy.seen)
    /\ GoOn
    /\ UNCHANGED least

\* saveBaselines fails: a warning.
SaveFails ==
    /\ copy.busy
    /\ GoOn
    /\ UNCHANGED <<file, kept, least>>

\* A crash, or SIGTERM before the handler for it is installed.
Crash ==
    /\ Running
    /\ Gone
    /\ UNCHANGED <<file, kept, least>>

-----------------------------------------------------------------------------
(* The file, from outside.                                                 *)

\* The operator deletes the file after a change of the topology.
Reset ==
    /\ Careful => ~Running
    /\ file' = Nothing
    /\ kept' = Nothing /\ least' = Nothing
    /\ UNCHANGED <<life, ring, low, copy, seen>>

\* The file becomes unreadable.
Damage ==
    /\ file # Corrupt
    /\ file' = Corrupt
    /\ kept' = Nothing
    /\ UNCHANGED <<life, ring, low, copy, seen, least>>

Next ==
    \/ \E k \in Keys : \E v \in Reported[k] : Put(k, v)
    \/ Frame
    \/ Start \/ Seed \/ Copy \/ Save \/ SaveFails \/ Crash
    \/ Reset \/ Damage

Spec == Init /\ [][Next]_vars

-----------------------------------------------------------------------------
Rings == [buf : [Slot -> Nat \cup {Unwritten}], next : Slot, count : 0 .. Capacity]

TypeOK ==
    /\ life \in {"down", "cold", "seeded", "exiting"}
    /\ ring \in [Keys -> Rings]
    /\ low \in Maps
    /\ file \in Maps \cup {Corrupt}
    /\ copy \in [busy : {TRUE}, map : Maps, seen : Maps] \cup {NoCopy}
    /\ seen \in Maps /\ kept \in Maps /\ least \in Maps

NotAbove(m, n) == \A k \in Keys : n[k] # 0 => m[k] # 0 /\ m[k] <= n[k]

\* "surviving store ring rollover", and restarts (derive.go, baselineMin): once
\* fabricd has seeded, no baseline is above an RTT that this process has seen,
\* nor above one that an earlier process has seen and saved.
BaselineOutlives ==
    /\ Running => NotAbove(low, seen)
    /\ life \in {"seeded", "exiting"} => NotAbove(low, kept)

\* A baseline is an RTT that was measured since the reset the config key asks
\* for: neither the minima of the old topology come back (main.go,
\* BaselinesPath) nor is an interface without BFD one (derive.go, baseline).
ResetForgets ==
    /\ NotAbove(least, low)
    /\ file # Corrupt => NotAbove(least, file)

\* The rings hold what a sequence of samples would: its newest, in order.
Tails == INSTANCE SampleTail
         WITH Values <- UNION {Reported[k] : k \in Keys},
              tail <- [k \in Keys |-> Series(ring[k])]
KeepsTail == Tails!Spec

=============================================================================
