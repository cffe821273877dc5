---------------------------- MODULE Deriver_proofs ---------------------------
(***************************************************************************)
(* What the deriver keeps for any links, samples, readings and capacity of *)
(* the rings: its baselines outlive rings and restarts and are forgotten   *)
(* with the file, and the bands settle.                                    *)
(*                                                                         *)
(* The invariants of the baselines need a third map beside those in memory *)
(* and in the file, the copy that a save has under way: whatever may have  *)
(* been seen and not yet saved is below neither.  Those of the bands need  *)
(* how far a candidate has come.                                           *)
(***************************************************************************)
EXTENDS Deriver, TLAPS, WellFoundedInduction

-----------------------------------------------------------------------------
(* Minima.                                                                 *)

\* A set of RTTs with a measured one has a least measured one (baseline).
LEMMA LeastIsLeast ==
    ASSUME NEW S, S \subseteq Nat
    PROVE  /\ LeastMeasured(S) \in Nat
           /\ LeastMeasured(S) = 0 => S \subseteq {0}
           /\ LeastMeasured(S) # 0 => LeastMeasured(S) \in S
           /\ \A x \in S : x # 0 => LeastMeasured(S) # 0 /\ LeastMeasured(S) <= x
<1>1. CASE S \subseteq {0}
  BY <1>1 DEF LeastMeasured
<1>2. CASE ~(S \subseteq {0})
  <2> DEFINE T == S \ {0}  R == OpToRel(<, Nat)
  <2>1. T # {} /\ T \subseteq Nat
    BY <1>2
  <2>2. \A x, y \in Nat : x < y => <<x, y>> \in R
    <3>1. R = {ss \in Nat \X Nat : ss[1] < ss[2]}
      BY Zenon DEF OpToRel
    <3> HIDE DEF R
    <3> QED BY <3>1
  <2>3. IsWellFoundedOn(R, Nat)
    BY NatLessThanWellFounded
  <2> HIDE DEF R
  <2>4. \E x \in T : \A y \in T : ~(<<y, x>> \in R)
    BY <2>1, <2>3, WFMin
  <2>5. \E x \in T : \A y \in T : x <= y
    <3> HIDE DEF T
    <3>1. PICK x \in T : \A y \in T : ~(<<y, x>> \in R)
      BY <2>4
    <3>2. ASSUME NEW y \in T
          PROVE  x <= y
      <4>1. x \in Nat /\ y \in Nat
        BY <2>1
      <4>2. ~(y < x)
        BY <2>2, <3>1, <4>1
      <4> QED BY <4>1, <4>2
    <3> QED BY <3>2
  <2> DEFINE m == CHOOSE x \in T : \A y \in T : x <= y
  <2>6. m \in T /\ \A y \in T : m <= y
    BY <2>5
  <2>7. LeastMeasured(S) = m
    BY <1>2 DEF LeastMeasured
  <2> QED BY <2>1, <2>6, <2>7
<1> QED BY <1>1, <1>2

\* The running minimum of two values, of which either may be missing.
LEMMA LeastOfTwo ==
    ASSUME NEW x \in Nat, NEW y \in Nat
    PROVE  /\ LeastMeasured({x, y}) \in Nat
           /\ LeastMeasured({x, y}) \in {x, y}
           /\ x # 0 => LeastMeasured({x, y}) # 0 /\ LeastMeasured({x, y}) <= x
           /\ y # 0 => LeastMeasured({x, y}) # 0 /\ LeastMeasured({x, y}) <= y
BY LeastIsLeast, {x, y} \subseteq Nat

-----------------------------------------------------------------------------
(* The rings.                                                              *)

\* Until it is full a ring is written from its first slot on (NewRing, Put).
RingFits(r) ==
    /\ r \in Rings
    /\ r.count < Capacity => r.next = r.count
    /\ \A i \in Slot : r.count = Capacity \/ i < r.count => r.buf[i] \in Nat

\* Indices wrap once (RingFits).
LEMMA Modulus ==
    ASSUME NEW n \in Int
    PROVE  /\ n % Capacity \in Slot
           /\ n \in Slot => n % Capacity = n
           /\ n = Capacity => n % Capacity = 0
BY RingAssumption DEF Slot

\* A ring that is put a sample holds it and the samples it held (Put).
LEMMA PutFits ==
    ASSUME NEW r, RingFits(r), NEW v \in Nat
    PROVE  RingFits(RingPut(r, v))
<1>1. /\ r.next \in Slot /\ r.count \in 0 .. Capacity /\ r.buf \in [Slot -> Nat \cup {Unwritten}]
      /\ Capacity \in Nat \ {0}
  <2>1. r \in [buf : [Slot -> Nat \cup {Unwritten}], next : Slot, count : 0 .. Capacity]
    BY DEF RingFits, Rings
  <2> QED BY <2>1, RingAssumption
<1> DEFINE next == (r.next + 1) % Capacity
           count == IF r.count < Capacity THEN r.count + 1 ELSE r.count
           buf == [r.buf EXCEPT ![r.next] = v]
<1>2. RingPut(r, v) = [buf |-> buf, next |-> next, count |-> count]
  BY DEF RingPut
<1>3. next \in Slot /\ count \in 0 .. Capacity /\ buf \in [Slot -> Nat \cup {Unwritten}]
  <2>1. r.next + 1 \in Int
    BY <1>1 DEF Slot
  <2>2. next \in Slot
    BY <2>1, Modulus
  <2>3. count \in 0 .. Capacity
    BY <1>1
  <2>4. buf \in [Slot -> Nat \cup {Unwritten}]
    BY <1>1
  <2> QED BY <2>2, <2>3, <2>4
<1>4. count < Capacity => next = count
  <2> SUFFICES ASSUME count < Capacity PROVE next = count
    OBVIOUS
  <2>1. r.next = r.count /\ r.next + 1 \in Slot /\ count = r.count + 1
    BY <1>1 DEF RingFits, Slot
  <2>2. (r.next + 1) % Capacity = r.next + 1
    BY <2>1, Modulus DEF Slot
  <2> QED BY <2>1, <2>2
<1>5. ASSUME NEW i \in Slot, count = Capacity \/ i < count
      PROVE  buf[i] \in Nat
  <2>1. CASE i = r.next
    BY <2>1, <1>1
  <2>2. CASE i # r.next
    <3>1. buf[i] = r.buf[i]
      BY <2>2, <1>1
    <3>2. r.count = Capacity \/ i < r.count
      BY <1>1, <1>5, <2>2 DEF RingFits, Slot
    <3> QED BY <3>1, <3>2 DEF RingFits
  <2> QED BY <2>1, <2>2
<1> HIDE DEF next, count, buf
<1> QED BY <1>2, <1>3, <1>4, <1>5 DEF RingFits, Rings

\* What a ring holds are RTTs, and the latest is one of them (LastN, Last).
LEMMA RingHolds ==
    ASSUME NEW r, RingFits(r)
    PROVE  /\ \A i \in 1 .. r.count : Series(r)[i] \in Nat
           /\ r.count > 0 => RingLast(r) = Series(r)[r.count]
<1>1. /\ r.next \in Slot /\ r.count \in 0 .. Capacity /\ Capacity \in Nat \ {0}
  BY RingAssumption DEF RingFits, Rings
<1> DEFINE start == (r.next - r.count + Capacity) % Capacity
<1>2. \A i \in 1 .. r.count : Series(r)[i] = r.buf[(start + i - 1) % Capacity]
  BY <1>1 DEF Series, LastN
<1>3. CASE r.count = Capacity
  <2>1. start = r.next
    BY <1>1, <1>3, Modulus DEF Slot
  <2>2. start + Capacity - 1 = r.next - 1 + Capacity
    BY <2>1, <1>1 DEF Slot
  <2>3. r.count > 0 => RingLast(r) = Series(r)[r.count]
    BY <1>1, <1>2, <1>3, <2>2 DEF RingLast
  <2>4. ASSUME NEW i \in 1 .. r.count
        PROVE  Series(r)[i] \in Nat
    <3>1. (start + i - 1) % Capacity \in Slot
      BY <2>1, <1>1, Modulus DEF Slot
    <3> QED BY <1>2, <1>3, <3>1 DEF RingFits
  <2> QED BY <2>3, <2>4
<1>4. CASE r.count < Capacity
  <2>1. r.next - r.count + Capacity = Capacity
    BY <1>1, <1>4 DEF RingFits, Slot
  <2>2. start = 0
    BY <2>1, <1>1, Modulus
  <2>3. \A i \in 1 .. r.count : i - 1 \in Slot /\ (start + i - 1) % Capacity = i - 1
    BY <1>1, <1>4, <2>2, Modulus DEF Slot
  <2>4. \A i \in 1 .. r.count : Series(r)[i] = r.buf[i - 1]
    BY <1>2, <2>3
  <2>5. \A i \in 1 .. r.count : Series(r)[i] \in Nat
    BY <1>1, <2>3, <2>4 DEF RingFits
  <2>6. ASSUME r.count > 0
        PROVE  RingLast(r) = Series(r)[r.count]
    <3>1. (r.next - 1 + Capacity) % Capacity = r.count - 1
      <4>1. r.next - 1 + Capacity = (r.count - 1) + Capacity
        BY <1>1, <1>4 DEF RingFits, Slot
      <4>2. \A n \in Slot : (n + Capacity) % Capacity = n
        BY <1>1 DEF Slot
      <4> QED BY <1>1, <1>4, <2>6, <4>1, <4>2 DEF Slot
    <3>2. r.count \in 1 .. r.count
      BY <1>1, <2>6
    <3> QED BY <2>4, <3>1, <3>2 DEF RingLast
  <2> QED BY <2>5, <2>6
<1> QED BY <1>1, <1>3, <1>4

-----------------------------------------------------------------------------
(* Maps of minima: NotAbove orders them, and MergeMin is the meet.         *)

\* What the frames and SeedBaselines merge is a map of minima.
LEMMA MergeTyped ==
    ASSUME NEW m \in Maps, NEW n \in Maps
    PROVE  MergeMin(m, n) \in Maps
BY LeastOfTwo DEF Maps, MergeMin

\* Without an entry nothing is asked (Nothing).
LEMMA NothingTyped == Nothing \in Maps /\ \A m \in Maps : NotAbove(m, Nothing)
BY DEF Maps, Nothing, NotAbove

\* NotAbove is a preorder.
LEMMA NotAboveSelf == ASSUME NEW m \in Maps PROVE NotAbove(m, m)
BY DEF Maps, NotAbove

LEMMA NotAboveTrans ==
    ASSUME NEW m \in Maps, NEW n \in Maps, NEW p \in Maps, NotAbove(m, n), NotAbove(n, p)
    PROVE  NotAbove(m, p)
<1> SUFFICES ASSUME NEW k \in Keys, p[k] # 0 PROVE m[k] # 0 /\ m[k] <= p[k]
  BY DEF NotAbove
<1> QED BY DEF Maps, NotAbove

\* MergeMin is below both maps, and above whatever is (MergeMin).
LEMMA MergeLower ==
    ASSUME NEW m \in Maps, NEW n \in Maps
    PROVE  NotAbove(MergeMin(m, n), m) /\ NotAbove(MergeMin(m, n), n)
<1> SUFFICES ASSUME NEW k \in Keys
             PROVE  /\ m[k] # 0 => MergeMin(m, n)[k] # 0 /\ MergeMin(m, n)[k] <= m[k]
                    /\ n[k] # 0 => MergeMin(m, n)[k] # 0 /\ MergeMin(m, n)[k] <= n[k]
  BY DEF NotAbove
<1>1. m[k] \in Nat /\ n[k] \in Nat
  BY DEF Maps
<1>2. MergeMin(m, n)[k] = LeastMeasured({m[k], n[k]})
  BY DEF MergeMin
<1> QED BY <1>1, <1>2, LeastOfTwo

LEMMA MergeGreatest ==
    ASSUME NEW m \in Maps, NEW n \in Maps, NEW p \in Maps, NotAbove(p, m), NotAbove(p, n)
    PROVE  NotAbove(p, MergeMin(m, n))
<1> SUFFICES ASSUME NEW k \in Keys, MergeMin(m, n)[k] # 0
             PROVE  p[k] # 0 /\ p[k] <= MergeMin(m, n)[k]
  BY DEF NotAbove
<1>1. m[k] \in Nat /\ n[k] \in Nat
  BY DEF Maps
<1>2. MergeMin(m, n)[k] \in {m[k], n[k]}
  BY <1>1, LeastOfTwo DEF MergeMin
<1> QED BY <1>2 DEF NotAbove

\* Merging the same minima into two maps keeps their order (Frame and its witnesses).
LEMMA MergeMonotone ==
    ASSUME NEW m \in Maps, NEW n \in Maps, NEW p \in Maps, NotAbove(m, n)
    PROVE  NotAbove(MergeMin(p, m), MergeMin(p, n))
<1>1. MergeMin(p, m) \in Maps
  BY MergeTyped
<1>2. NotAbove(MergeMin(p, m), p) /\ NotAbove(MergeMin(p, m), m)
  BY MergeLower
<1>3. NotAbove(MergeMin(p, m), n)
  BY <1>1, <1>2, NotAboveTrans
<1> QED BY <1>1, <1>2, <1>3, MergeGreatest

-----------------------------------------------------------------------------
(* The frames.                                                             *)

RingsFit == \A k \in Keys : RingFits(ring[k])

Mins == [k \in Keys |-> RingMin(k)]

\* The samples of a series are RTTs, and their minima a map (Put, Min).
LEMMA SamplesTyped ==
    ASSUME RingsFit, NEW k \in Keys
    PROVE  Samples(k) \subseteq Nat
BY RingHolds DEF RingsFit, Samples

LEMMA MinsTyped == RingsFit => Mins \in Maps
BY SamplesTyped, LeastIsLeast DEF Mins, RingMin, Maps

\* What a frame lowers, it lowers to the minima of the rings (baseline).
LEMMA FrameMerges ==
    ASSUME RingsFit, NEW m \in Maps
    PROVE  Witness(m) = MergeMin(Mins, m)
<1> SUFFICES ASSUME NEW k \in Keys
             PROVE  LeastMeasured(Samples(k) \cup {m[k]}) = LeastMeasured({RingMin(k), m[k]})
  BY DEF Witness, MergeMin, Mins
<1> DEFINE S == Samples(k)  x == LeastMeasured(S \cup {m[k]})
           y == LeastMeasured({LeastMeasured(S), m[k]})
<1>1. S \subseteq Nat /\ m[k] \in Nat
  BY SamplesTyped DEF Maps
<1> HIDE DEF S
<1>2. /\ x \in Nat /\ (x # 0 => x \in S \cup {m[k]})
      /\ \A z \in S \cup {m[k]} : z # 0 => x # 0 /\ x <= z
  <2>1. S \cup {m[k]} \subseteq Nat
    BY <1>1
  <2> QED BY <2>1, LeastIsLeast
<1>3. /\ LeastMeasured(S) \in Nat
      /\ LeastMeasured(S) # 0 => LeastMeasured(S) \in S
      /\ \A z \in S : z # 0 => LeastMeasured(S) # 0 /\ LeastMeasured(S) <= z
  BY <1>1, LeastIsLeast
<1>4. /\ y \in Nat /\ y \in {LeastMeasured(S), m[k]}
      /\ LeastMeasured(S) # 0 => y # 0 /\ y <= LeastMeasured(S)
      /\ m[k] # 0 => y # 0 /\ y <= m[k]
  BY <1>1, <1>3, LeastOfTwo
<1> HIDE DEF x, y
<1>5. x = y
  <2>1. y # 0 => x # 0 /\ x <= y
    BY <1>2, <1>3, <1>4
  <2>2. x # 0 => y # 0 /\ y <= x
    <3>1. CASE x \in S
      <4>1. x # 0 => LeastMeasured(S) # 0 /\ LeastMeasured(S) <= x
        BY <1>3, <3>1
      <4> QED BY <4>1, <1>2, <1>3, <1>4
    <3>2. CASE x = m[k]
      BY <1>4, <3>2
    <3> QED BY <1>2, <3>1, <3>2
  <2> QED BY <1>2, <1>4, <2>1, <2>2
<1> QED BY <1>5 DEF x, y, S, RingMin

-----------------------------------------------------------------------------
(* The baselines.                                                          *)

Copies == [busy : {TRUE}, map : Maps, seen : Maps]

\* Who is at work in which part of a process's life.
LifeFits ==
    /\ copy.busy => life \in {"seeded", "exiting"}
    /\ life = "down" => low = Nothing

\* What was seen is below no map that is made of it, on its way to the file or in it.
SeenIsKept ==
    /\ NotAbove(low, seen)
    /\ life \in {"seeded", "exiting"} => NotAbove(low, kept)
    /\ copy.busy => /\ NotAbove(copy.map, kept) /\ NotAbove(copy.map, copy.seen)
                    /\ NotAbove(low, copy.seen)
    /\ IF file = Corrupt THEN kept = Nothing ELSE NotAbove(file, kept)

\* Nothing that was not seen since the reset is in any map.
OnlyTheSeen ==
    /\ NotAbove(least, low)
    /\ copy.busy => NotAbove(least, copy.map)
    /\ file # Corrupt => NotAbove(least, file)

BaselinesInv == TypeOK /\ RingsFit /\ LifeFits /\ SeenIsKept

\* The copy under way is typed as such, and no map is the file that cannot be read.
LEMMA CopyTyped ==
    ASSUME TypeOK
    PROVE  /\ copy.busy \in BOOLEAN
           /\ copy.busy => copy \in Copies /\ copy.map \in Maps /\ copy.seen \in Maps
           /\ ~copy.busy => copy = NoCopy
           /\ NoCopy.busy = FALSE
           /\ Corrupt \notin Maps
<1>1. copy \in Copies \/ copy = NoCopy
  BY DEF TypeOK, Copies
<1>2. ASSUME copy \in Copies
      PROVE  copy.busy = TRUE /\ copy.map \in Maps /\ copy.seen \in Maps
  BY <1>2 DEF Copies
<1>3. NoCopy.busy = FALSE
  BY DEF NoCopy
<1>4. Corrupt \notin Maps
  BY BaselinesAssumption DEF Maps
<1> QED BY <1>1, <1>2, <1>3, <1>4

\* A ring without samples fits (NewRing).
LEMMA NewFits == RingFits(NewRing) /\ NewRing \in Rings
BY RingAssumption DEF RingFits, Rings, NewRing, Slot

\* fabricd starts with empty rings and without a file (New).
LEMMA InitBaselines == Init => BaselinesInv /\ OnlyTheSeen
<1> SUFFICES ASSUME Init PROVE BaselinesInv /\ OnlyTheSeen
  OBVIOUS
<1>1. TypeOK /\ RingsFit
  BY NewFits, NothingTyped DEF Init, TypeOK, RingsFit
<1>2. ~copy.busy
  BY DEF Init, NoCopy
<1>3. LifeFits
  BY <1>2 DEF Init, LifeFits
<1>4. SeenIsKept
  BY <1>2, NothingTyped DEF Init, SeenIsKept
<1>5. OnlyTheSeen
  BY <1>2, NothingTyped DEF Init, OnlyTheSeen
<1> QED BY <1>1, <1>3, <1>4, <1>5 DEF BaselinesInv

\* A scrape changes no map.
LEMMA PutKeeps ==
    ASSUME BaselinesInv, NEW k \in Keys, NEW v \in Reported[k], Put(k, v)
    PROVE  BaselinesInv' /\ (OnlyTheSeen => OnlyTheSeen')
<1>1. /\ ring' = [ring EXCEPT ![k] = RingPut(@, v)]
      /\ UNCHANGED <<life, low, file, copy, seen, kept, least>>
  BY DEF Put, history
<1>2. v \in Nat
  BY BaselinesAssumption
<1>3. RingFits(RingPut(ring[k], v))
  BY <1>2, PutFits DEF BaselinesInv, RingsFit
<1>4. ring' \in [Keys -> Rings] /\ RingsFit'
  BY <1>1, <1>3 DEF BaselinesInv, TypeOK, RingsFit, RingFits
<1>5. TypeOK'
  BY <1>1, <1>4 DEF BaselinesInv, TypeOK
<1> QED BY <1>1, <1>4, <1>5 DEF BaselinesInv, LifeFits, SeenIsKept, OnlyTheSeen, NotAbove

\* A frame merges the minima of the rings into what is held and what is known alike.
LEMMA FrameKeeps ==
    ASSUME BaselinesInv, Frame
    PROVE  BaselinesInv' /\ (OnlyTheSeen => OnlyTheSeen')
<1> DEFINE M == Mins
<1>1. /\ life # "down" /\ M \in Maps /\ low \in Maps /\ seen \in Maps /\ least \in Maps
      /\ kept \in Maps /\ UNCHANGED <<life, ring, file, copy, kept>>
  BY MinsTyped DEF BaselinesInv, TypeOK, Frame, Running
<1>2. low' = MergeMin(M, low)
  BY DEF Frame, MergeMin, Mins
<1>3. seen' = MergeMin(M, seen) /\ least' = MergeMin(M, least)
  BY <1>1, FrameMerges DEF Frame, BaselinesInv
<1> HIDE DEF M
<1>4. low' \in Maps /\ seen' \in Maps /\ least' \in Maps
  BY <1>1, <1>2, <1>3, MergeTyped
<1>5. NotAbove(low', low) /\ NotAbove(least', least)
  BY <1>1, <1>2, <1>3, MergeLower
<1>6. TypeOK' /\ RingsFit' /\ LifeFits'
  BY <1>1, <1>4 DEF BaselinesInv, TypeOK, RingsFit, LifeFits
<1>7. SeenIsKept'
  <2>1. NotAbove(low', seen')
    BY <1>1, <1>2, <1>3, MergeMonotone DEF BaselinesInv, SeenIsKept
  <2>2. life \in {"seeded", "exiting"} => NotAbove(low', kept)
    BY <1>1, <1>4, <1>5, NotAboveTrans DEF BaselinesInv, SeenIsKept
  <2>3. copy.busy => NotAbove(low', copy.seen)
    BY <1>1, <1>4, <1>5, NotAboveTrans, CopyTyped DEF BaselinesInv, SeenIsKept
  <2> QED BY <1>1, <2>1, <2>2, <2>3 DEF BaselinesInv, SeenIsKept, NotAbove
<1>8. OnlyTheSeen => OnlyTheSeen'
  <2> SUFFICES ASSUME OnlyTheSeen PROVE OnlyTheSeen'
    OBVIOUS
  <2>1. NotAbove(least', low')
    BY <1>1, <1>2, <1>3, MergeMonotone DEF OnlyTheSeen
  <2>2. copy.busy => NotAbove(least', copy.map)
    BY <1>1, <1>4, <1>5, NotAboveTrans, CopyTyped DEF BaselinesInv, OnlyTheSeen
  <2>3. file # Corrupt => NotAbove(least', file)
    BY <1>1, <1>4, <1>5, NotAboveTrans DEF BaselinesInv, TypeOK, OnlyTheSeen
  <2> QED BY <1>1, <2>1, <2>2, <2>3 DEF OnlyTheSeen
<1> QED BY <1>6, <1>7, <1>8 DEF BaselinesInv

\* The file's minima are merged into those in memory (SeedBaselines).
LEMMA SeedKeeps ==
    ASSUME BaselinesInv, Seed
    PROVE  BaselinesInv' /\ (OnlyTheSeen => OnlyTheSeen')
<1>1. /\ life = "cold" /\ life' = "seeded" /\ ~copy.busy
      /\ UNCHANGED <<ring, file, copy, seen, kept, least>>
      /\ low \in Maps /\ seen \in Maps /\ kept \in Maps /\ least \in Maps
      /\ NotAbove(low, seen)
  BY CopyTyped DEF BaselinesInv, TypeOK, LifeFits, SeenIsKept, Seed, history
<1>2. CASE file = Corrupt
  <2>1. low' = low /\ kept = Nothing
    BY <1>2 DEF Seed, BaselinesInv, SeenIsKept
  <2>2. NotAbove(low, kept)
    BY <2>1, <1>1, NothingTyped
  <2>3. TypeOK' /\ RingsFit' /\ LifeFits'
    BY <1>1, <2>1 DEF BaselinesInv, TypeOK, RingsFit, LifeFits
  <2>4. SeenIsKept'
    BY <1>1, <1>2, <2>1, <2>2 DEF SeenIsKept
  <2> QED BY <1>1, <2>1, <2>3, <2>4 DEF BaselinesInv, OnlyTheSeen
<1>3. CASE file # Corrupt
  <2>1. file \in Maps /\ low' = MergeMin(low, file) /\ NotAbove(file, kept)
    BY <1>3 DEF Seed, BaselinesInv, TypeOK, SeenIsKept
  <2>2. low' \in Maps /\ NotAbove(low', low) /\ NotAbove(low', file)
    BY <1>1, <2>1, MergeTyped, MergeLower
  <2>3. NotAbove(low', seen) /\ NotAbove(low', kept)
    BY <1>1, <2>1, <2>2, NotAboveTrans
  <2>4. TypeOK' /\ RingsFit' /\ LifeFits'
    BY <1>1, <2>2 DEF BaselinesInv, TypeOK, RingsFit, LifeFits
  <2>5. SeenIsKept'
    BY <1>1, <1>3, <2>1, <2>3 DEF SeenIsKept
  <2>6. OnlyTheSeen => NotAbove(least, low')
    BY <1>1, <1>3, <2>1, MergeGreatest DEF OnlyTheSeen
  <2> QED BY <1>1, <2>4, <2>5, <2>6 DEF BaselinesInv, OnlyTheSeen
<1> QED BY <1>2, <1>3

\* fabricd starts with what Gone has left.
LEMMA StartKeeps ==
    ASSUME BaselinesInv, Start
    PROVE  BaselinesInv' /\ (OnlyTheSeen => OnlyTheSeen')
<1>1. /\ life = "down" /\ life' = "cold" /\ ~copy.busy
      /\ UNCHANGED <<ring, low, file, copy, seen, kept, least>>
  BY CopyTyped DEF BaselinesInv, LifeFits, Start, history
<1>2. TypeOK' /\ RingsFit' /\ LifeFits'
  BY <1>1 DEF BaselinesInv, TypeOK, RingsFit, LifeFits
<1>3. SeenIsKept'
  BY <1>1 DEF BaselinesInv, SeenIsKept, NotAbove
<1> QED BY <1>1, <1>2, <1>3 DEF BaselinesInv, OnlyTheSeen

\* The copy is what is held when it is made (Baselines).
LEMMA CopyKeeps ==
    ASSUME BaselinesInv, Copy
    PROVE  BaselinesInv' /\ (OnlyTheSeen => OnlyTheSeen')
<1>1. /\ life = "seeded" /\ life' \in {"seeded", "exiting"}
      /\ copy' = [busy |-> TRUE, map |-> low, seen |-> seen]
      /\ UNCHANGED <<ring, low, file, seen, kept, least>>
      /\ low \in Maps /\ seen \in Maps
  BY DEF BaselinesInv, TypeOK, Copy, history
<1>2. copy' \in Copies /\ copy'.busy /\ copy'.map = low /\ copy'.seen = seen
  BY <1>1 DEF Copies
<1>3. TypeOK' /\ RingsFit' /\ LifeFits'
  BY <1>1, <1>2 DEF BaselinesInv, TypeOK, RingsFit, LifeFits, Copies
<1>4. SeenIsKept'
  BY <1>1, <1>2 DEF BaselinesInv, SeenIsKept, NotAbove
<1>5. OnlyTheSeen => OnlyTheSeen'
  BY <1>1, <1>2 DEF OnlyTheSeen
<1> QED BY <1>3, <1>4, <1>5 DEF BaselinesInv

\* What a process held goes with it; the file stays what it was made before.
LEMMA GoneKeeps ==
    ASSUME Gone, TypeOK, file' \in Maps \cup {Corrupt}, kept' \in Maps, least' \in Maps,
           IF file' = Corrupt THEN kept' = Nothing ELSE NotAbove(file', kept')
    PROVE  BaselinesInv' /\ ((file' # Corrupt => NotAbove(least', file')) => OnlyTheSeen')
<1>1. /\ life' = "down" /\ ring' = [k \in Keys |-> NewRing] /\ low' = Nothing
      /\ seen' = Nothing /\ copy' = NoCopy /\ ~copy'.busy
  BY CopyTyped DEF Gone
<1>2. TypeOK' /\ RingsFit' /\ LifeFits'
  BY <1>1, NewFits, NothingTyped DEF TypeOK, RingsFit, LifeFits
<1>3. SeenIsKept'
  BY <1>1, NothingTyped DEF SeenIsKept
<1>4. (file' # Corrupt => NotAbove(least', file')) => OnlyTheSeen'
  BY <1>1, NothingTyped DEF OnlyTheSeen
<1> QED BY <1>2, <1>3, <1>4 DEF BaselinesInv

\* A process that goes on has no copy under way.
LEMMA StayKeeps ==
    ASSUME BaselinesInv, copy.busy, copy' = NoCopy, UNCHANGED <<life, ring, low, seen>>,
           file' \in Maps \cup {Corrupt}, kept' \in Maps, least' = least,
           NotAbove(low, kept'),
           IF file' = Corrupt THEN kept' = Nothing ELSE NotAbove(file', kept')
    PROVE  /\ BaselinesInv'
           /\ OnlyTheSeen /\ (file' # Corrupt => NotAbove(least', file')) => OnlyTheSeen'
<1>1. life \in {"seeded", "exiting"} /\ ~copy'.busy
  BY CopyTyped DEF BaselinesInv, LifeFits
<1>2. TypeOK' /\ RingsFit' /\ LifeFits'
  BY <1>1 DEF BaselinesInv, TypeOK, RingsFit, LifeFits
<1>3. SeenIsKept'
  BY <1>1 DEF BaselinesInv, SeenIsKept, NotAbove
<1> QED BY <1>1, <1>2, <1>3 DEF BaselinesInv, OnlyTheSeen

\* The file that a save completes is below what was in frames when the copy was made,
\* and below what earlier saves have kept (saveBaselines).
LEMMA SaveKeeps ==
    ASSUME BaselinesInv, Save
    PROVE  BaselinesInv' /\ (OnlyTheSeen => OnlyTheSeen')
<1>1. /\ copy.busy /\ file' = copy.map /\ kept' = MergeMin(kept, copy.seen) /\ least' = least
      /\ copy.map \in Maps /\ copy.seen \in Maps /\ kept \in Maps /\ low \in Maps
      /\ least \in Maps
  BY CopyTyped DEF Save, BaselinesInv, TypeOK
<1>2. kept' \in Maps /\ NotAbove(copy.map, kept') /\ NotAbove(low, kept')
  BY <1>1, MergeTyped, MergeGreatest DEF BaselinesInv, SeenIsKept, LifeFits
<1>3. file' \in Maps /\ file' # Corrupt /\ NotAbove(file', kept') /\ least' \in Maps
  BY <1>1, <1>2, CopyTyped DEF BaselinesInv
<1>4. OnlyTheSeen => NotAbove(least', file')
  BY <1>1 DEF OnlyTheSeen
<1>5. CASE life = "exiting"
  BY <1>2, <1>3, <1>4, <1>5, GoneKeeps DEF Save, GoOn, BaselinesInv
<1>6. CASE life # "exiting"
  BY <1>1, <1>2, <1>3, <1>4, <1>6, StayKeeps DEF Save, GoOn
<1> QED BY <1>5, <1>6

\* A save that fails leaves the file as it was (saveBaselines).
LEMMA SaveFailsKeeps ==
    ASSUME BaselinesInv, SaveFails
    PROVE  BaselinesInv' /\ (OnlyTheSeen => OnlyTheSeen')
<1>1. /\ copy.busy /\ file' = file /\ kept' = kept /\ least' = least
      /\ file' \in Maps \cup {Corrupt} /\ kept' \in Maps /\ least' \in Maps
      /\ NotAbove(low, kept')
      /\ IF file' = Corrupt THEN kept' = Nothing ELSE NotAbove(file', kept')
      /\ OnlyTheSeen => (file' # Corrupt => NotAbove(least', file'))
  BY DEF SaveFails, BaselinesInv, TypeOK, SeenIsKept, LifeFits, OnlyTheSeen
<1>2. CASE life = "exiting"
  BY <1>1, <1>2, GoneKeeps DEF SaveFails, GoOn, BaselinesInv
<1>3. CASE life # "exiting"
  BY <1>1, <1>3, StayKeeps DEF SaveFails, GoOn
<1> QED BY <1>2, <1>3

\* So does a crash.
LEMMA CrashKeeps ==
    ASSUME BaselinesInv, Crash
    PROVE  BaselinesInv' /\ (OnlyTheSeen => OnlyTheSeen')
<1>1. /\ Gone /\ file' = file /\ kept' = kept /\ least' = least
      /\ file' \in Maps \cup {Corrupt} /\ kept' \in Maps /\ least' \in Maps
      /\ IF file' = Corrupt THEN kept' = Nothing ELSE NotAbove(file', kept')
      /\ OnlyTheSeen => (file' # Corrupt => NotAbove(least', file'))
  BY DEF Crash, BaselinesInv, TypeOK, SeenIsKept, OnlyTheSeen
<1> QED BY <1>1, GoneKeeps DEF BaselinesInv

\* Without the file nothing is kept; and if no process runs, nothing comes back
\* (BaselinesPath).
LEMMA ResetKeeps ==
    ASSUME BaselinesInv, Reset
    PROVE  BaselinesInv' /\ (Careful => OnlyTheSeen')
<1>1. /\ file' = Nothing /\ kept' = Nothing /\ least' = Nothing
      /\ UNCHANGED <<life, ring, low, copy, seen>>
      /\ low \in Maps
  BY DEF Reset, BaselinesInv, TypeOK
<1>2. file' # Corrupt /\ NotAbove(Nothing, Nothing)
  BY <1>1, CopyTyped, NothingTyped DEF BaselinesInv
<1>3. TypeOK' /\ RingsFit' /\ LifeFits'
  BY <1>1, NothingTyped DEF BaselinesInv, TypeOK, RingsFit, LifeFits
<1>4. copy.busy => NotAbove(copy.map, kept')
  BY <1>1, CopyTyped, NothingTyped DEF BaselinesInv
<1>5. NotAbove(low, kept')
  BY <1>1, NothingTyped
<1>6. SeenIsKept'
  BY <1>1, <1>2, <1>4, <1>5 DEF BaselinesInv, SeenIsKept, NotAbove
<1>7. ASSUME Careful
      PROVE  OnlyTheSeen'
  <2>1. life = "down"
    BY <1>7 DEF Reset, Running
  <2>2. low = Nothing /\ ~copy.busy
    BY <2>1 DEF BaselinesInv, LifeFits
  <2> QED BY <1>1, <1>2, <2>2 DEF OnlyTheSeen
<1> QED BY <1>3, <1>6, <1>7 DEF BaselinesInv

\* A file that cannot be read keeps nothing (loadBaselines).
LEMMA DamageKeeps ==
    ASSUME BaselinesInv, Damage
    PROVE  BaselinesInv' /\ (OnlyTheSeen => OnlyTheSeen')
<1>1. /\ file' = Corrupt /\ kept' = Nothing
      /\ UNCHANGED <<life, ring, low, copy, seen, least>> /\ low \in Maps
  BY DEF Damage, BaselinesInv, TypeOK
<1>2. TypeOK' /\ RingsFit' /\ LifeFits'
  BY <1>1, NothingTyped DEF BaselinesInv, TypeOK, RingsFit, LifeFits
<1>3. NotAbove(low, kept') /\ (copy.busy => NotAbove(copy.map, kept'))
  BY <1>1, CopyTyped, NothingTyped DEF BaselinesInv
<1>4. SeenIsKept'
  BY <1>1, <1>3 DEF BaselinesInv, SeenIsKept, NotAbove
<1> QED BY <1>1, <1>2, <1>4 DEF BaselinesInv, OnlyTheSeen

-----------------------------------------------------------------------------
(* The bands of a reading.                                                 *)

\* Among graded bands there is a worst (Worst).
LEMMA WorstIsWorst ==
    ASSUME NEW S, S \subseteq Graded, S # {}
    PROVE  Worst(S) \in S /\ \A c \in S : Severity[c] <= Severity[Worst(S)]
<1>1. /\ Severity["nominal"] = 0 /\ Severity["elevated"] = 1
      /\ Severity["degraded"] = 2 /\ Severity["critical"] = 3
  BY DEF Severity, Graded
<1>2. \E b \in S : \A c \in S : Severity[c] <= Severity[b]
  <2>1. CASE "critical" \in S
    BY <1>1, <2>1 DEF Graded
  <2>2. CASE "critical" \notin S /\ "degraded" \in S
    BY <1>1, <2>2 DEF Graded
  <2>3. CASE "critical" \notin S /\ "degraded" \notin S /\ "elevated" \in S
    BY <1>1, <2>3 DEF Graded
  <2>4. CASE "critical" \notin S /\ "degraded" \notin S /\ "elevated" \notin S
    <3>1. \A c \in S : c = "nominal"
      BY <2>4 DEF Graded
    <3>2. PICK b \in S : TRUE
      OBVIOUS
    <3> QED BY <1>1, <3>1, <3>2
  <2> QED BY <2>1, <2>2, <2>3, <2>4
<1> QED BY <1>2 DEF Worst

\* The severities and the bands that have one (severity, bandFor).
LEMMA SeverityTyped == Severity \in [Graded -> 0..3] /\ Severity["nominal"] = 0
BY DEF Severity, Graded

LEMMA BandsTyped ==
    ASSUME NEW x, NEW y
    PROVE  RttBand(x, y) \in Graded /\ LossBand(x, y) \in Graded
BY DEF RttBand, LossBand, Graded

\* The lower the baseline the worse the band of an RTT (bandFor).
LEMMA LowerIsWorse ==
    ASSUME NEW rtt \in Nat, NEW a \in Nat, NEW b \in Nat, a <= b
    PROVE  Severity[RttBand(rtt, b)] <= Severity[RttBand(rtt, a)]
<1>1. /\ Severity["nominal"] = 0 /\ Severity["elevated"] = 1
      /\ Severity["degraded"] = 2 /\ Severity["critical"] = 3
  BY DEF Severity, Graded
<1> DEFINE Risen(base, much, times, some) ==
              rtt - base >= much \/ (rtt >= times * base /\ rtt - base >= some)
<1>2. /\ Risen(b, 300, 25, 120) => Risen(a, 300, 25, 120)
      /\ Risen(b, 80, 8, 30) => Risen(a, 80, 8, 30)
      /\ Risen(b, 20, 3, 8) => Risen(a, 20, 3, 8)
  OBVIOUS
<1>3. \A x \in {a, b} :
          RttBand(rtt, x) = IF Risen(x, 300, 25, 120) THEN "critical"
                            ELSE IF Risen(x, 80, 8, 30) THEN "degraded"
                            ELSE IF Risen(x, 20, 3, 8) THEN "elevated" ELSE "nominal"
  BY DEF RttBand
<1> HIDE DEF Risen
<1> QED BY <1>1, <1>2, <1>3

\* An RTT that is not measured asks for no band (bandFor).
LEMMA NoneIsNominal ==
    ASSUME NEW b \in Nat \ {0}
    PROVE  RttBand(0, b) = "nominal"
BY DEF RttBand

-----------------------------------------------------------------------------
(* What a frame sees of the links.                                         *)

LastFits == \A k \in Keys : ring[k].count > 0 => RingLast(ring[k]) \in Samples(k)

\* The latest sample of a series is one of them (Last).
LEMMA LastsFit == TypeOK /\ RingsFit => LastFits
<1> SUFFICES ASSUME TypeOK, RingsFit, NEW k \in Keys, ring[k].count > 0
             PROVE  RingLast(ring[k]) \in Samples(k)
  BY DEF LastFits
<1>1. ring[k].count \in Nat /\ RingLast(ring[k]) = Series(ring[k])[ring[k].count]
  BY RingHolds, RingAssumption DEF RingsFit, RingFits, Rings
<1> QED BY <1>1 DEF Samples

\* The link graded by what is known of its RTTs is no worse than graded by the
\* baselines of the frame.
LEMMA DueIsMet ==
    ASSUME BaselinesInv, BaselinesInv', Frame, NEW k \in Keys, ring[k].count > 0,
           NEW declared \in Nat
    PROVE  /\ RingLast(ring[k]) \in Nat
           /\ Severity[RttBand(RingLast(ring[k]), Base(declared, Baseline(Known(k))))]
                <= Severity[RttBand(RingLast(ring[k]), Base(declared, Baseline(low'[k])))]
<1> DEFINE last == RingLast(ring[k])  known == Known(k)
<1>1. last \in Samples(k) /\ Samples(k) \subseteq Nat
  BY LastsFit, SamplesTyped DEF BaselinesInv, LastFits
<1>2. /\ life' = life /\ life \in {"cold", "seeded", "exiting"}
      /\ low' \in Maps /\ seen' \in Maps /\ kept \in Maps
      /\ NotAbove(low', seen') /\ (life # "cold" => NotAbove(low', kept))
  <2>1. life' = life /\ life \in {"cold", "seeded", "exiting"} /\ kept' = kept
    BY DEF BaselinesInv, TypeOK, Frame, Running
  <2>2. NotAbove(low', kept') = NotAbove(low', kept)
    BY <2>1 DEF NotAbove
  <2> QED BY <2>1, <2>2 DEF BaselinesInv, TypeOK, SeenIsKept
<1>3. low'[k] \in Nat /\ seen'[k] \in Nat /\ kept[k] \in Nat
  BY <1>2 DEF Maps
<1>4. /\ known \in Nat
      /\ known # 0 => known = seen'[k] \/ (life # "cold" /\ known = kept[k])
      /\ known = 0 => seen'[k] = 0
  <2> DEFINE K == {seen'[k]} \cup (IF life = "cold" THEN {} ELSE {kept[k]})
  <2>1. known = LeastMeasured(K)
    BY DEF Known
  <2>2. K \subseteq Nat
    BY <1>3
  <2> HIDE DEF known
  <2>3. /\ known \in Nat /\ (known # 0 => known \in K)
        /\ \A x \in K : x # 0 => known # 0 /\ known <= x
    BY <2>1, <2>2, LeastIsLeast
  <2> QED BY <2>3, <1>3
<1>5. known # 0 => low'[k] # 0 /\ low'[k] <= known
  BY <1>2, <1>3, <1>4 DEF NotAbove
<1>6. known = 0 => last = 0
  <2> DEFINE S == Samples(k) \cup {seen[k]}
  <2>1. S \subseteq Nat /\ seen'[k] = LeastMeasured(S)
    BY <1>1 DEF Frame, Witness, BaselinesInv, TypeOK, Maps
  <2> QED BY <1>1, <1>4, <2>1, LeastIsLeast
<1> HIDE DEF known, last
<1>7. CASE known # 0
  <2>1. Baseline(low'[k]) \in Nat /\ Baseline(known) \in Nat /\ Baseline(low'[k]) <= Baseline(known)
    BY <1>3, <1>4, <1>5, <1>7 DEF Baseline, BaselineFloor
  <2>2. /\ Base(declared, Baseline(low'[k])) \in Nat /\ Base(declared, Baseline(known)) \in Nat
        /\ Base(declared, Baseline(low'[k])) <= Base(declared, Baseline(known))
    BY <2>1 DEF Base, Floor
  <2> QED BY <1>1, <2>2, LowerIsWorse DEF known, last
<1>8. CASE known = 0
  <2>1. Base(declared, Baseline(known)) \in Nat \ {0}
    BY <1>8 DEF Base, Floor, Baseline, BaselineFloor
  <2>2. RttBand(last, Base(declared, Baseline(known))) = "nominal"
    BY <1>6, <1>8, <2>1, NoneIsNominal
  <2>3. RttBand(last, Base(declared, Baseline(low'[k]))) \in Graded
    BY BandsTyped
  <2> QED BY <1>1, <2>2, <2>3, SeverityTyped DEF known, last
<1> QED BY <1>7, <1>8

\* A link is up on the KPI strip if its band is neither "down" nor "stale", and a
\* graded band is at least as severe as what is due (Frame, deriveLink).
Fits(see) ==
    /\ see.raw \in Bands /\ see.up \in BOOLEAN /\ see.due \in Graded
    /\ see.up <=> see.raw \notin {"down", "stale"}
    /\ see.raw \in Graded => Severity[see.due] <= Severity[see.raw]

\* What one reading makes of a link (deriveLink).
LEMMA RawIsGraded ==
    ASSUME NEW r, NEW declared
    PROVE  /\ Raw(r, declared) \in Bands
           /\ Up(r) <=> Raw(r, declared) \notin {"down", "stale"}
           /\ Raw(r, declared) \in Graded =>
                \A e \in Ends : Severity[RttBand(r[e].rtt, Base(declared, r[e].low))]
                                  <= Severity[Raw(r, declared)]
<1> DEFINE S == {RttBand(r[e].rtt, Base(declared, r[e].low)) : e \in Ends}
                \cup {LossBand(r[e].sent, r[Far(e)].got) : e \in Ends}
<1>1. S \subseteq Graded
  BY BandsTyped
<1>2. \A e \in Ends : RttBand(r[e].rtt, Base(declared, r[e].low)) \in S
  OBVIOUS
<1>3. S # {}
  BY <1>2 DEF Ends
<1>4. Raw(r, declared) = IF Down(r) THEN "down" ELSE IF Stale(r) THEN "stale" ELSE Worst(S)
  BY DEF Raw
<1> HIDE DEF S
<1>5. Worst(S) \in Graded /\ \A c \in S : Severity[c] <= Severity[Worst(S)]
  BY <1>1, <1>3, WorstIsWorst
<1>6. "down" \notin Graded /\ "stale" \notin Graded
  BY DEF Graded
<1> QED BY <1>2, <1>4, <1>5, <1>6 DEF Bands, Up

\* The RTT and the baseline that are graded (deriveLink).
LEMMA ReportFields ==
    ASSUME NEW k, NEW wire
    PROVE  /\ Report(k, wire).low = Baseline(low'[k])
           /\ Report(k, wire).rtt = IF ring[k].count = 0 THEN 0 ELSE RingLast(ring[k])
BY DEF Report

\* Every frame sees every link so.
LEMMA SeenFits ==
    ASSUME BaselinesInv, BaselinesInv', Frame, NEW see \in Seen, NEW l \in Links
    PROVE  Fits(see[l])
<1>1. PICK wire \in [Links -> Wires], declared \in [Links -> Declared] :
        see = [x \in Links |->
                 [raw |-> Raw([y \in Links |-> Reading(y, wire[y])][x], declared[x]),
                  up |-> Up([y \in Links |-> Reading(y, wire[y])][x]),
                  due |-> Due(x, declared[x])]]
  BY DEF Seen
<1> DEFINE r == Reading(l, wire[l])  d == declared[l]
<1>2. see[l] = [raw |-> Raw(r, d), up |-> Up(r), due |-> Due(l, d)]
  BY <1>1
<1>3. d \in Nat /\ Keys = Links \X Ends
  BY DeriverAssumption
<1>4. \A e \in Ends : r[e] = Report(<<l, e>>, wire[l][e])
  BY DEF Reading
<1>5. \A e \in Ends : /\ r[e].low = Baseline(low'[<<l, e>>])
                      /\ ring[<<l, e>>].count > 0 => r[e].rtt = RingLast(ring[<<l, e>>])
  <2>1. \A e \in Ends : ring[<<l, e>>].count \in Nat
    BY <1>3, RingAssumption DEF BaselinesInv, TypeOK, Rings
  <2> HIDE DEF r
  <2>2. ASSUME NEW e \in Ends
        PROVE  /\ r[e].low = Baseline(low'[<<l, e>>])
               /\ ring[<<l, e>>].count # 0 => r[e].rtt = RingLast(ring[<<l, e>>])
    BY <1>4, ReportFields
  <2>3. \A e \in Ends : ring[<<l, e>>].count > 0 => ring[<<l, e>>].count # 0
    BY <2>1
  <2> QED BY <2>2, <2>3
<1> DEFINE D == {RttBand(RingLast(ring[k]), Base(d, Baseline(Known(k)))) :
                    k \in {k \in {l} \X Ends : ring[k].count > 0}} \cup {"nominal"}
<1>6. Due(l, d) = Worst(D)
  BY DEF Due
<1>7. D \subseteq Graded /\ "nominal" \in D
  BY BandsTyped DEF Graded
<1>8. \A c \in D : \/ c = "nominal"
                   \/ \E e \in Ends : /\ ring[<<l, e>>].count > 0
                                      /\ c = RttBand(RingLast(ring[<<l, e>>]),
                                                     Base(d, Baseline(Known(<<l, e>>))))
  OBVIOUS
<1> HIDE DEF D, r, d
<1>9. Due(l, d) \in D /\ Due(l, d) \in Graded
  BY <1>6, <1>7, WorstIsWorst
<1>10. /\ Raw(r, d) \in Bands /\ (Up(r) <=> Raw(r, d) \notin {"down", "stale"})
       /\ Raw(r, d) \in Graded =>
            \A e \in Ends : Severity[RttBand(r[e].rtt, Base(d, r[e].low))] <= Severity[Raw(r, d)]
  BY RawIsGraded
<1>11. ASSUME Raw(r, d) \in Graded
       PROVE  Severity[Due(l, d)] <= Severity[Raw(r, d)]
  <2>1. CASE Due(l, d) = "nominal"
    BY <1>11, <2>1, SeverityTyped
  <2>2. ASSUME NEW e \in Ends, ring[<<l, e>>].count > 0,
               Due(l, d) = RttBand(RingLast(ring[<<l, e>>]), Base(d, Baseline(Known(<<l, e>>))))
        PROVE  Severity[Due(l, d)] <= Severity[Raw(r, d)]
    <3> DEFINE k == <<l, e>>
               mid == RttBand(RingLast(ring[k]), Base(d, Baseline(low'[k])))
    <3>1. k \in Keys
      BY <1>3
    <3>2. Severity[Due(l, d)] <= Severity[mid]
      BY <1>3, <2>2, <3>1, DueIsMet
    <3>3. mid = RttBand(r[e].rtt, Base(d, r[e].low))
      BY <1>5, <2>2
    <3>4. Severity[mid] <= Severity[Raw(r, d)]
      BY <1>10, <1>11, <3>3
    <3>5. mid \in Graded
      BY BandsTyped
    <3> HIDE DEF mid
    <3> QED BY <1>9, <1>11, <3>2, <3>4, <3>5, SeverityTyped
  <2> QED BY <1>8, <1>9, <2>1, <2>2
<1>12. Up(r) \in BOOLEAN
  BY DEF Up, Down, Stale
<1> QED BY <1>2, <1>9, <1>10, <1>11, <1>12 DEF Fits

-----------------------------------------------------------------------------
(* The hysteresis.                                                         *)

LinkTypes ==
    /\ link \in [Links -> LinkStates]
    /\ kpi \subseteq Links
    /\ run \in [Links -> [raw : Bands, n : 1 .. Hysteresis, due : Graded]]

\* A candidate has come as far as the frames in a row that ask for it.
Settling(s, r) ==
    /\ r.raw # s.band => s.pend = r.raw /\ s.n = r.n /\ r.n < Hysteresis
    /\ r.raw = s.band => s.pend \in {"none", s.band}

BandsInv ==
    /\ LinkTypes
    /\ \A l \in Links : Settling(link[l], run[l])
    /\ kpi = {l \in Links : run[l].raw \notin {"down", "stale"}}
    /\ ShapedStaysShaped

\* One frame's step of the hysteresis (commit): the candidate advances, and the band
\* changes only when it has been asked for often enough.
LEMMA CommitSettles ==
    ASSUME NEW s \in LinkStates, NEW r \in [raw : Bands, n : 1 .. Hysteresis, due : Graded],
           Settling(s, r), NEW see, Fits(see)
    PROVE  /\ Commit(s, see.raw) \in LinkStates
           /\ Ran(r, see) \in [raw : Bands, n : 1 .. Hysteresis, due : Graded]
           /\ Settling(Commit(s, see.raw), Ran(r, see))
           /\ Commit(s, see.raw).band # s.band => Ran(r, see).n = Hysteresis
<1> DEFINE x == see.raw  t == Commit(s, x)  q == Ran(r, see)
<1>1. /\ x \in Bands /\ see.due \in Graded /\ r.raw \in Bands /\ r.n \in 1 .. 3
      /\ s.band \in Bands /\ s.pend \in Bands \cup {"none"} /\ s.n \in 0 .. 3
      /\ "none" \notin Bands
  BY DEF Fits, LinkStates, Bands, Graded, Hysteresis
<1>2. /\ q.raw = x /\ q.due = see.due
      /\ q.n = IF r.raw # x THEN 1 ELSE IF r.n < 3 THEN r.n + 1 ELSE r.n
      /\ q \in [raw : Bands, n : 1 .. Hysteresis, due : Graded]
  BY <1>1 DEF Ran, Hysteresis
<1>3. CASE x = s.band
  <2>1. t = [s EXCEPT !.pend = "none", !.n = 0]
    BY <1>3 DEF Commit
  <2>2. t \in LinkStates /\ t.band = s.band /\ t.pend = "none"
    <3>1. s \in [band : Bands, pend : Bands \cup {"none"}, n : 0 .. 3]
      BY DEF LinkStates, Hysteresis
    <3> DEFINE u == [s EXCEPT !.pend = "none"]
    <3>2. u \in [band : Bands, pend : Bands \cup {"none"}, n : 0 .. 3]
          /\ u.band = s.band /\ u.pend = "none"
      BY <3>1
    <3>3. t = [u EXCEPT !.n = 0]
      BY <2>1
    <3> HIDE DEF t, u
    <3>4. t \in [band : Bands, pend : Bands \cup {"none"}, n : 0 .. 3]
          /\ t.band = s.band /\ t.pend = "none"
      BY <3>2, <3>3
    <3> QED BY <3>4 DEF LinkStates, Hysteresis
  <2> HIDE DEF t, q
  <2> QED BY <1>2, <1>3, <2>2 DEF Settling, t, q
<1>4. CASE x # s.band
  <2> DEFINE n == IF s.pend = x THEN s.n + 1 ELSE 1
  <2>1. t = [band |-> IF n >= 3 THEN x ELSE s.band, pend |-> x, n |-> n]
    BY <1>4 DEF Commit, Hysteresis
  <2>2. n = q.n /\ n \in 1 .. 3
    <3>1. CASE s.pend = x
      <4>1. r.raw = x /\ s.n = r.n /\ r.n < 3
        BY <1>1, <1>4, <3>1 DEF Settling, Hysteresis
      <4> QED BY <1>1, <1>2, <3>1, <4>1
    <3>2. CASE s.pend # x
      <4>1. r.raw # x
        BY <1>4, <3>2 DEF Settling
      <4> QED BY <1>2, <3>2, <4>1
    <3> QED BY <3>1, <3>2
  <2> HIDE DEF n, q
  <2>3. /\ t \in LinkStates /\ t.pend = x /\ t.n = n
        /\ t.band = IF n >= 3 THEN x ELSE s.band
    BY <2>1, <2>2, <1>1 DEF LinkStates, Hysteresis
  <2> HIDE DEF t
  <2>4. Settling(t, q)
    BY <1>2, <1>4, <2>2, <2>3 DEF Settling, Hysteresis
  <2>5. t.band # s.band => q.n = Hysteresis
    BY <2>2, <2>3 DEF Hysteresis
  <2> QED BY <1>2, <2>3, <2>4, <2>5 DEF t, q
<1> QED BY <1>3, <1>4

\* A frame keeps the bands, whatever it reads and whoever asks for it.
LEMMA DFrameKeeps ==
    ASSUME BaselinesInv, BaselinesInv', BandsInv, DFrame
    PROVE  /\ BandsInv'
           /\ \A l \in Links : link'[l].band # link[l].band => run'[l].n = Hysteresis
<1>1. PICK see \in Seen : /\ link' = [l \in Links |-> Commit(link[l], see[l].raw)]
                          /\ kpi' = {l \in Links : see[l].up}
                          /\ run' = [l \in Links |-> Ran(run[l], see[l])]
  BY DEF DFrame
<1>2. \A l \in Links : Fits(see[l])
  BY SeenFits DEF DFrame
<1>3. ASSUME NEW l \in Links
      PROVE  /\ link'[l] \in LinkStates
             /\ run'[l] \in [raw : Bands, n : 1 .. Hysteresis, due : Graded]
             /\ Settling(link'[l], run'[l])
             /\ link'[l].band # link[l].band => run'[l].n = Hysteresis
             /\ run'[l].raw = see[l].raw /\ run'[l].due = see[l].due
  <2>1. link'[l] = Commit(link[l], see[l].raw) /\ run'[l] = Ran(run[l], see[l])
    BY <1>1
  <2>2. run'[l].raw = see[l].raw /\ run'[l].due = see[l].due
    BY <2>1 DEF Ran
  <2> QED BY <1>2, <2>1, <2>2, CommitSettles DEF BandsInv, LinkTypes
<1>4. LinkTypes'
  BY <1>1, <1>3 DEF LinkTypes
<1>5. kpi' = {l \in Links : run'[l].raw \notin {"down", "stale"}}
  BY <1>1, <1>2, <1>3 DEF Fits
<1>6. ShapedStaysShaped'
  BY <1>2, <1>3 DEF ShapedStaysShaped, Fits
<1> QED BY <1>3, <1>4, <1>5, <1>6 DEF BandsInv

\* The bands with which a process starts (New).
LEMMA FreshKeeps ==
    /\ NewLink \in LinkStates
    /\ Fresh \in [raw : Bands, n : 1 .. Hysteresis, due : Graded]
    /\ Settling(NewLink, Fresh)
    /\ Fresh.raw \notin {"down", "stale"}
    /\ Severity[Fresh.due] <= Severity[Fresh.raw]
BY SeverityTyped DEF NewLink, LinkStates, Fresh, Bands, Graded, Hysteresis, Settling

\* The first process and every later one start so.
LEMMA InitBands == DInit => BandsInv
<1> SUFFICES ASSUME DInit PROVE BandsInv
  OBVIOUS
<1>1. link = [l \in Links |-> NewLink] /\ kpi = Links /\ run = [l \in Links |-> Fresh]
  BY DEF DInit
<1> QED BY <1>1, FreshKeeps DEF BandsInv, LinkTypes, ShapedStaysShaped

LEMMA DGoneKeeps == DGone => BandsInv'
<1> SUFFICES ASSUME DGone PROVE BandsInv'
  OBVIOUS
<1>1. link' = [l \in Links |-> NewLink] /\ kpi' = Links /\ run' = [l \in Links |-> Fresh]
  BY DEF DGone
<1> QED BY <1>1, FreshKeeps DEF BandsInv, LinkTypes, ShapedStaysShaped

-----------------------------------------------------------------------------
(* The theorems.                                                           *)

DInv == BaselinesInv /\ BandsInv /\ (Careful => OnlyTheSeen)

\* Each step of the deriver, its store, its file and the operator.
LEMMA StepKeeps ==
    ASSUME DInv, [DNext]_allVars
    PROVE  /\ DInv'
           /\ Running /\ life' # "down" =>
                \A l \in Links : link'[l].band # link[l].band => run'[l].n = Hysteresis
<1>1. CASE DFrame
  <2>1. BaselinesInv' /\ (OnlyTheSeen => OnlyTheSeen')
    BY <1>1, FrameKeeps DEF DInv, DFrame
  <2> QED BY <1>1, <2>1, DFrameKeeps DEF DInv
<1>2. CASE DOther
  <2>1. BaselinesInv' /\ (Careful /\ OnlyTheSeen => OnlyTheSeen')
    BY <1>2, PutKeeps, StartKeeps, SeedKeeps, CopyKeeps, SaveKeeps, SaveFailsKeeps, CrashKeeps,
       ResetKeeps, DamageKeeps DEF DOther, DInv
  <2>2. BandsInv'
    <3>1. CASE DGone
      BY <3>1, DGoneKeeps
    <3>2. CASE UNCHANGED derived
      BY <3>2 DEF DInv, BandsInv, LinkTypes, ShapedStaysShaped, derived
    <3> QED BY <1>2, <3>1, <3>2 DEF DOther
  <2>3. Running /\ life' # "down" => link' = link
    BY <1>2 DEF DOther, derived
  <2> QED BY <2>1, <2>2, <2>3 DEF DInv
<1>3. CASE UNCHANGED allVars
  <2>1. UNCHANGED <<life, ring, low, file, copy, seen, kept, least>> /\ UNCHANGED <<link, kpi, run>>
    BY <1>3 DEF allVars, vars, derived
  <2>2. BaselinesInv' /\ (OnlyTheSeen => OnlyTheSeen')
    BY <2>1 DEF DInv, BaselinesInv, TypeOK, RingsFit, LifeFits, SeenIsKept, OnlyTheSeen, NotAbove
  <2>3. BandsInv'
    BY <2>1 DEF DInv, BandsInv, LinkTypes, ShapedStaysShaped
  <2> QED BY <2>1, <2>2, <2>3 DEF DInv
<1> QED BY <1>1, <1>2, <1>3 DEF DNext

\* The invariants together are inductive (derive.go, main.go).
THEOREM DeriverInvariant == DSpec => []DInv
<1>1. DInit => DInv
  BY InitBaselines, InitBands DEF DInit, DInv
<1>2. DInv /\ [DNext]_allVars => DInv'
  BY StepKeeps
<1> QED BY <1>1, <1>2, PTL DEF DSpec

\* Type correctness of the deriver, the rings and the file.
THEOREM DeriverTyped == DSpec => []DeriverTypeOK
<1>1. DInv => DeriverTypeOK
  BY DEF DInv, BaselinesInv, BandsInv, LinkTypes, DeriverTypeOK
<1> QED BY <1>1, DeriverInvariant, PTL

\* No baseline rises above what was seen by this process or saved by an earlier one,
\* through rollovers, crashes, failed saves and unreadable files (derive.go, main.go).
THEOREM BaselinesOutlive == DSpec => []BaselineOutlives
<1>1. DInv => BaselineOutlives
  BY DEF DInv, BaselinesInv, SeenIsKept, BaselineOutlives
<1> QED BY <1>1, DeriverInvariant, PTL

\* If the operator deletes the file only while fabricd is stopped, no RTT from before
\* comes back (main.go, BaselinesPath).
THEOREM ResetsForget == ASSUME Careful PROVE DSpec => []ResetForgets
<1>1. DInv => ResetForgets
  BY DEF DInv, OnlyTheSeen, ResetForgets
<1> QED BY <1>1, DeriverInvariant, PTL

\* Three frames that agree settle a band, and nothing else changes one (commit).
THEOREM BandsSettle == DSpec => []BandSettles
<1>1. DInv => BandSettles
  <2> SUFFICES ASSUME DInv, NEW l \in Links, run[l].n = Hysteresis
               PROVE  link[l].band = run[l].raw
    BY DEF BandSettles
  <2> QED BY DEF DInv, BandsInv, Settling, Hysteresis
<1> QED BY <1>1, DeriverInvariant, PTL

\* A band changes only when three frames in a row have asked for it (commit).
THEOREM BandsAreSteady == DSpec => BandIsSteady
<1>1. DInv /\ [DNext]_allVars =>
        [Running /\ life' # "down" =>
            \A l \in Links : link'[l].band # link[l].band => run'[l].n = Hysteresis]_allVars
  BY StepKeeps
<1> QED BY <1>1, DeriverInvariant, PTL DEF DSpec, BandIsSteady

\* Once the bands have settled, the KPI strip and the map agree on every link (Frame).
THEOREM KpiAndMapAgree == DSpec => []KpiMatchesMap
<1>1. DInv => KpiMatchesMap
  <2> SUFFICES ASSUME DInv, \A l \in Links : run[l].n = Hysteresis
               PROVE  kpi = {l \in Links : link[l].band \notin {"down", "stale"}}
    BY DEF KpiMatchesMap
  <2>1. \A l \in Links : link[l].band = run[l].raw
    BY DEF DInv, BandsInv, Settling, Hysteresis
  <2> QED BY <2>1 DEF DInv, BandsInv
<1> QED BY <1>1, DeriverInvariant, PTL

\* No frame grades a link better than the least RTT known of it asks for, whatever has
\* happened to the ring, the process and the file (baseline, bandFor).
THEOREM ShapedLinksStayShaped == DSpec => []ShapedStaysShaped
<1>1. DInv => ShapedStaysShaped
  BY DEF DInv, BandsInv
<1> QED BY <1>1, DeriverInvariant, PTL

-----------------------------------------------------------------------------
(* The rings implement tails.                                              *)

LEMMA Wraps ==
    ASSUME NEW n \in Capacity .. 2 * Capacity - 1
    PROVE  n % Capacity = n - Capacity
BY RingAssumption

\* Where a full ring has its i-th sample, and how that moves with the next one.
Turn(n, i) == IF n + i - 1 < Capacity THEN n + i - 1 ELSE n + i - 1 - Capacity

LEMMA TurnOnce ==
    ASSUME NEW n \in Slot, NEW i \in 1 .. Capacity
    PROVE  (n + i - 1) % Capacity = Turn(n, i) /\ Turn(n, i) \in Slot
<1> DEFINE m == n + i - 1
<1>1. m \in 0 .. 2 * Capacity - 1 /\ Capacity \in Nat \ {0} /\ m \in Int
  BY RingAssumption DEF Slot
<1>2. Turn(n, i) = IF m < Capacity THEN m ELSE m - Capacity
  BY <1>1 DEF Turn, Slot
<1> HIDE DEF m
<1>3. m % Capacity = IF m < Capacity THEN m ELSE m - Capacity
  BY <1>1, Modulus, Wraps DEF Slot
<1>4. (IF m < Capacity THEN m ELSE m - Capacity) \in Slot
  BY <1>1 DEF Slot
<1> QED BY <1>2, <1>3, <1>4 DEF m

LEMMA TurnOn ==
    ASSUME NEW n \in Slot
    PROVE  LET m == (n + 1) % Capacity
           IN  /\ m \in Slot /\ Turn(m, Capacity) = n
               /\ \A i \in 1 .. Capacity - 1 :
                    Turn(m, i) = Turn(n, i + 1) /\ Turn(n, i + 1) # n
<1> DEFINE m == (n + 1) % Capacity
<1>1. n \in 0 .. Capacity - 1 /\ Capacity \in Nat \ {0}
  BY RingAssumption DEF Slot
<1>2. m = IF n + 1 < Capacity THEN n + 1 ELSE 0
  <2>1. CASE n + 1 < Capacity
    BY <1>1, <2>1, Modulus DEF Slot
  <2>2. CASE n + 1 = Capacity
    BY <1>1, <2>2, Modulus DEF Slot
  <2> QED BY <1>1, <2>1, <2>2
<1> HIDE DEF m
<1> QED BY <1>1, <1>2 DEF Turn, Slot, m

\* What a ring that fits holds is a sequence, oldest first (LastN).
LEMMA SeriesShape ==
    ASSUME NEW r, RingFits(r)
    PROVE  /\ r.count \in 0 .. Capacity /\ r.next \in Slot /\ Capacity \in Nat \ {0}
           /\ Series(r) \in Seq(Nat) /\ Len(Series(r)) = r.count
           /\ r.count < Capacity => \A i \in 1 .. r.count : Series(r)[i] = r.buf[i - 1]
           /\ r.count = Capacity => \A i \in 1 .. Capacity :
                Series(r)[i] = r.buf[Turn(r.next, i)]
<1>1. /\ r.next \in Slot /\ r.count \in 0 .. Capacity /\ Capacity \in Nat \ {0}
  BY RingAssumption DEF RingFits, Rings
<1> DEFINE start == (r.next - r.count + Capacity) % Capacity
<1>2. Series(r) = [i \in 1 .. r.count |-> r.buf[(start + i - 1) % Capacity]]
  BY <1>1 DEF Series, LastN
<1>3. Series(r) \in Seq(Nat) /\ Len(Series(r)) = r.count
  <2>1. \A i \in 1 .. r.count : r.buf[(start + i - 1) % Capacity] \in Nat
    BY <1>2, RingHolds
  <2> HIDE DEF start
  <2>2. Series(r) \in [1 .. r.count -> Nat]
    BY <1>2, <2>1
  <2> QED BY <1>1, <2>2
<1>4. ASSUME r.count < Capacity, NEW i \in 1 .. r.count
      PROVE  Series(r)[i] = r.buf[i - 1]
  <2>1. r.next - r.count + Capacity = Capacity
    BY <1>1, <1>4 DEF RingFits, Slot
  <2>2. start = 0
    BY <2>1, <1>1, Modulus
  <2>3. (start + i - 1) % Capacity = i - 1
    BY <1>1, <1>4, <2>2, Modulus DEF Slot
  <2> QED BY <1>2, <2>3
<1>5. ASSUME r.count = Capacity, NEW i \in 1 .. Capacity
      PROVE  Series(r)[i] = r.buf[Turn(r.next, i)]
  <2>1. start = r.next
    BY <1>1, <1>5, Modulus DEF Slot
  <2>2. Series(r)[i] = r.buf[(r.next + i - 1) % Capacity]
    BY <1>2, <1>5, <2>1
  <2> QED BY <1>1, <2>2, TurnOnce
<1> QED BY <1>1, <1>3, <1>4, <1>5

\* A sample is added at the end, and the oldest goes if the ring is full (Put).
LEMMA PutIsNewest ==
    ASSUME NEW r, RingFits(r), NEW v \in Nat
    PROVE  Series(RingPut(r, v)) = Tails!Newest(Series(r), v)
<1> DEFINE q == RingPut(r, v)  s == Series(r)  t == Series(q)
<1>1. RingFits(q)
  BY PutFits
<1>2. /\ q.buf = [r.buf EXCEPT ![r.next] = v] /\ q.next = (r.next + 1) % Capacity
      /\ q.count = IF r.count < Capacity THEN r.count + 1 ELSE r.count
  BY DEF RingPut
<1>3. r.buf \in [Slot -> Nat \cup {Unwritten}]
  BY DEF RingFits, Rings
<1>4. /\ r.count \in 0 .. Capacity /\ r.next \in Slot /\ Capacity \in Nat \ {0}
      /\ s \in Seq(Nat) /\ Len(s) = r.count /\ t \in Seq(Nat) /\ Len(t) = q.count
  BY <1>1, SeriesShape
<1> HIDE DEF q, s, t
<1>5. CASE r.count < Capacity
  <2>1. r.next = r.count /\ q.count = r.count + 1
    BY <1>2, <1>5 DEF RingFits
  <2>2. \A i \in 1 .. r.count : s[i] = r.buf[i - 1]
    BY <1>5, SeriesShape DEF s
  <2>3. \A i \in 1 .. q.count : t[i] = q.buf[i - 1]
    <3>1. CASE q.count < Capacity
      BY <1>1, <3>1, SeriesShape DEF t
    <3>2. CASE q.count = Capacity
      <4>1. q.next = 0
        <5>1. r.next + 1 = Capacity
          BY <2>1, <3>2
        <5> QED BY <1>2, <5>1, Modulus, RingAssumption
      <4>2. \A i \in 1 .. Capacity : Turn(0, i) = i - 1
        BY <1>4 DEF Turn
      <4> QED BY <1>1, <3>2, <4>1, <4>2, SeriesShape DEF t
    <3> QED BY <1>4, <1>5, <2>1, <3>1, <3>2
  <2>4. \A i \in 1 .. r.count : t[i] = s[i]
    <3> TAKE i \in 1 .. r.count
    <3>1. i \in 1 .. q.count /\ i - 1 \in Slot /\ i - 1 # r.next
      BY <1>4, <1>5, <2>1 DEF Slot
    <3> QED BY <1>2, <1>3, <2>2, <2>3, <3>1
  <2>5. t[r.count + 1] = v
    <3>1. r.count + 1 \in 1 .. q.count /\ r.count + 1 - 1 = r.next
      BY <1>4, <2>1
    <3> QED BY <1>2, <1>3, <1>4, <2>3, <3>1
  <2>6. t = Append(s, v)
    BY <1>4, <2>1, <2>4, <2>5
  <2>7. Tails!Newest(s, v) = Append(s, v)
    BY <1>4, <1>5 DEF Tails!Newest
  <2> QED BY <2>6, <2>7 DEF q, s, t
<1>6. CASE r.count = Capacity
  <2>1. q.count = Capacity
    BY <1>2, <1>4, <1>6
  <2>2. /\ Turn(q.next, Capacity) = r.next
        /\ \A i \in 1 .. Capacity - 1 : /\ Turn(q.next, i) = Turn(r.next, i + 1)
                                        /\ Turn(r.next, i + 1) # r.next
    BY <1>2, <1>4, TurnOn
  <2>3. \A i \in 1 .. Capacity : s[i] = r.buf[Turn(r.next, i)]
    BY <1>6, SeriesShape DEF s
  <2>4. \A i \in 1 .. Capacity : t[i] = q.buf[Turn(q.next, i)]
    BY <1>1, <2>1, SeriesShape DEF t
  <2>5. \A i \in 1 .. Capacity - 1 : t[i] = s[i + 1]
    <3> TAKE i \in 1 .. Capacity - 1
    <3>1. i \in 1 .. Capacity /\ i + 1 \in 1 .. Capacity
      BY <1>4
    <3>2. t[i] = q.buf[Turn(r.next, i + 1)] /\ s[i + 1] = r.buf[Turn(r.next, i + 1)]
      BY <2>2, <2>3, <2>4, <3>1
    <3>3. Turn(r.next, i + 1) \in Slot /\ Turn(r.next, i + 1) # r.next
      BY <1>4, <2>2, <3>1, TurnOnce
    <3> QED BY <1>2, <1>3, <3>2, <3>3
  <2>6. t[Capacity] = v
    BY <1>2, <1>3, <1>4, <2>2, <2>4
  <2>7. t = Append(Tail(s), v)
    <3>1. /\ Tail(s) \in Seq(Nat) /\ Len(Tail(s)) = Capacity - 1
          /\ \A i \in 1 .. Capacity - 1 : Tail(s)[i] = s[i + 1]
      BY <1>4, <1>6
    <3> QED BY <1>4, <2>1, <2>5, <2>6, <3>1
  <2>8. Tails!Newest(s, v) = Append(Tail(s), v)
    BY <1>4, <1>6 DEF Tails!Newest
  <2> QED BY <2>7, <2>8 DEF q, s, t
<1> QED BY <1>4, <1>5, <1>6 DEF q, s, t

\* The stored samples, as the view of them that the derivation relies on.
Held == [k \in Keys |-> Series(ring[k])]

LEMMA RingsImplement ==
    ASSUME BaselinesInv, [DNext]_allVars
    PROVE  Tails!Next \/ Held' = Held
<1>1. ASSUME NEW k \in Keys, NEW v \in Reported[k], Put(k, v)
      PROVE  Tails!Next
  <2>1. ring' = [ring EXCEPT ![k] = RingPut(@, v)] /\ ring \in [Keys -> Rings]
    BY <1>1 DEF Put, BaselinesInv, TypeOK
  <2>2. v \in Nat /\ v \in UNION {Reported[j] : j \in Keys}
    BY BaselinesAssumption
  <2>3. Series(ring'[k]) = Tails!Newest(Series(ring[k]), v)
    BY <2>1, <2>2, PutIsNewest DEF BaselinesInv, RingsFit
  <2>4. \A j \in Keys : j # k => ring'[j] = ring[j]
    BY <2>1
  <2>5. Held' = [Held EXCEPT ![k] = Tails!Newest(@, v)]
    BY <2>3, <2>4 DEF Held
  <2>6. Tails!Put(k, v)
    BY <2>5 DEF Tails!Put, Held
  <2> QED BY <2>2, <2>6 DEF Tails!Next
<1>2. ASSUME Gone
      PROVE  Tails!Next
  <2>1. Series(NewRing) = << >>
    BY NewFits, SeriesShape DEF NewRing
  <2>2. Held' = [k \in Keys |-> << >>]
    BY <1>2, <2>1 DEF Gone, Held
  <2> QED BY <2>2 DEF Tails!Next, Tails!Forget, Held
<1>3. ASSUME UNCHANGED ring
      PROVE  Held' = Held
  BY <1>3 DEF Held
<1>4. CASE DFrame
  BY <1>3, <1>4 DEF DFrame, Frame
<1>5. CASE DOther
  BY <1>1, <1>2, <1>3, <1>5 DEF DOther, Start, Seed, Copy, Save, SaveFails, GoOn, Crash,
                                 Reset, Damage
<1>6. CASE UNCHANGED allVars
  BY <1>3, <1>6 DEF allVars, vars
<1> QED BY <1>4, <1>5, <1>6 DEF DNext

\* The store implements the abstract store: its rings hold of every series the newest
\* samples, in order, for every capacity and through every restart (store.go).
THEOREM RingsImplementTails == DSpec => KeepsTail
<1>1. DInit => Tails!Init
  <2> SUFFICES ASSUME DInit PROVE Tails!Init
    OBVIOUS
  <2>1. Series(NewRing) = << >>
    BY NewFits, SeriesShape DEF NewRing
  <2> QED BY <2>1 DEF DInit, Init, Tails!Init
<1>2. DInv /\ [DNext]_allVars => [Tails!Next]_Held
  BY RingsImplement DEF DInv
<1>3. [Tails!Next]_Held => [Tails!Next]_[k \in Keys |-> Series(ring[k])]
  BY DEF Held
<1> QED BY <1>1, <1>2, <1>3, DeriverInvariant, PTL DEF DSpec, KeepsTail, Tails!Spec
=============================================================================
