---------------------------- MODULE WgPool_proofs ---------------------------
(***************************************************************************)
(* Under a careful operator the pool hands nothing out twice, for any      *)
(* slots and requests.  The invariant follows a slot from memory to the    *)
(* file to the answer: a running fabricd knows the file, a slot being      *)
(* saved is new, and one that is claimed is in the file and unanswered.    *)
(* The handler around the pool takes no step of the pool's on its own, and *)
(* its limiter keeps to its window, whatever its size and limit.           *)
(***************************************************************************)
EXTENDS ClaimApi, NaturalsInduction, WellFoundedInduction, TLAPS

\* Nothing in the file escapes the running fabricd, and an open editor shows
\* the file, of which fabricd is kept away.
FileKnown ==
    /\ up => disk.claims \subseteq mem.claims /\ disk.burned \subseteq mem.burned
    /\ edit # Closed => ~up /\ edit.text = disk
    /\ revoked \subseteq disk.burned

\* A request has a slot for itself, which is not burned and not answered.
SlotsHeld ==
    \A r \in Requests : req[r] # Idle =>
       /\ up
       /\ issued[req[r].slot] = 0 /\ req[r].slot \notin mem.burned
       /\ req[r].slot \in mem.claims
       /\ req[r].pc = "claimed" => req[r].slot \in disk.claims
       /\ \A q \in Requests : req[q] # Idle /\ req[q].slot = req[r].slot => q = r

Inv == TypeOK /\ FileKnown /\ SlotsHeld /\ NoSlotTwice /\ AnsweredIsOnDisk

\* What a request is when it is not idle.
LEMMA Busy ==
    ASSUME TypeOK, NEW r \in Requests, req[r].pc \in {"saving", "claimed"}
    PROVE req[r] # Idle /\ req[r] \in [pc : {"saving", "claimed"}, slot : Slots]
BY DEF TypeOK, RequestStates, Idle

\* What an editor that is open holds.
LEMMA Opened ==
    ASSUME TypeOK, edit.open
    PROVE edit # Closed /\ edit.text \in States
<1>1. edit # Closed
  BY DEF Closed
<1>2. edit \in [open : {TRUE}, text : States]
  BY <1>1 DEF TypeOK
<1> QED
  BY <1>1, <1>2

LEMMA InvInit == Init => Inv
<1> SUFFICES ASSUME Init PROVE Inv
  OBVIOUS
<1>1. TypeOK
  BY DEF Init, TypeOK, States, Empty, RequestStates
<1>2. FileKnown /\ SlotsHeld /\ NoSlotTwice /\ AnsweredIsOnDisk
  BY DEF Init, FileKnown, SlotsHeld, NoSlotTwice, AnsweredIsOnDisk, Empty, Closed
<1> QED
  BY <1>1, <1>2 DEF Inv

LEMMA TypeStep == TypeOK /\ [Next]_vars => TypeOK'
<1> SUFFICES ASSUME TypeOK, [Next]_vars PROVE TypeOK'
  OBVIOUS
<1> USE DEF TypeOK, States
<1>i. Idle \in RequestStates
  BY DEF RequestStates
<1>1. ASSUME NEW r \in Requests, Take(r) PROVE TypeOK'
  <2> PICK s \in Slots : /\ mem' = [mem EXCEPT !.claims = @ \union {s}]
                         /\ Become(r, [pc |-> "saving", slot |-> s])
    BY <1>1 DEF Take
  <2>1. [pc |-> "saving", slot |-> s] \in RequestStates
    BY DEF RequestStates
  <2>2. req' \in [Requests -> RequestStates] /\ mem' \in States
    BY <2>1 DEF Become
  <2> QED
    BY <1>1, <2>2 DEF Take
<1>2. ASSUME NEW r \in Requests, Save(r) PROVE TypeOK'
  <2>1. req[r] \in [pc : {"saving", "claimed"}, slot : Slots]
    BY <1>2, Busy DEF Save
  <2>2. [req[r] EXCEPT !.pc = "claimed"] \in RequestStates
    BY <2>1 DEF RequestStates
  <2>3. req' \in [Requests -> RequestStates]
    BY <1>2, <2>2 DEF Save, Become
  <2> QED
    BY <1>2, <2>3 DEF Save
<1>3. ASSUME NEW r \in Requests, SaveFails(r) \/ Drop(r) PROVE TypeOK'
  BY <1>3, <1>i DEF SaveFails, Drop, Become
<1>4. ASSUME NEW r \in Requests, Answer(r) PROVE TypeOK'
  <2>1. req[r].slot \in Slots
    BY <1>4, Busy DEF Answer
  <2>2. issued' \in [Slots -> Nat] /\ req' \in [Requests -> RequestStates]
    BY <1>4, <1>i, <2>1 DEF Answer, Become
  <2> QED
    BY <1>4, <2>2 DEF Answer
<1>5. CASE Stop
  BY <1>5, <1>i DEF Stop, Empty
<1>6. CASE Start
  BY <1>6 DEF Start
<1>7. CASE OpenEditor
  BY <1>7 DEF OpenEditor
<1>8. ASSUME NEW s \in Slots, Burn(s) PROVE TypeOK'
  <2>1. edit.text \in States
    BY <1>8, Opened DEF Burn
  <2>2. disk' \in States /\ edit' = Closed /\ revoked' \in SUBSET Slots
    BY <1>8, <2>1 DEF Burn
  <2> QED
    BY <1>8, <2>2 DEF Burn
<1>9. CASE UNCHANGED vars
  BY <1>9 DEF vars
<1> QED
  BY <1>1, <1>2, <1>3, <1>4, <1>5, <1>6, <1>7, <1>8, <1>9 DEF Next

\* What a careful operator and a stopping fabricd leave true: nobody writes
\* the file but the one who knows it.
LEMMA InvStep == ASSUME Careful PROVE Inv /\ [Next]_vars => Inv'
<1> SUFFICES ASSUME Inv, [Next]_vars PROVE Inv'
  OBVIOUS
<1>t. TypeOK /\ TypeOK'
  BY TypeStep DEF Inv
<1>s. mem \in States /\ disk \in States /\ issued \in [Slots -> Nat]
      /\ req \in [Requests -> RequestStates]
  BY <1>t DEF TypeOK
<1>1. ASSUME NEW r \in Requests, Take(r) PROVE Inv'
  <2> PICK s \in Slots : /\ FirstFree(s)
                         /\ mem' = [mem EXCEPT !.claims = @ \union {s}]
                         /\ Become(r, [pc |-> "saving", slot |-> s])
    BY <1>1 DEF Take
  <2>1. up /\ req[r] = Idle /\ UNCHANGED <<up, disk, edit, issued, revoked>>
    BY <1>1 DEF Take
  <2>2. mem'.claims = mem.claims \union {s} /\ mem'.burned = mem.burned
    BY <1>s DEF States
  <2>3. FileKnown'
    BY <2>1, <2>2 DEF Inv, FileKnown
  <2>4. s \notin mem.claims /\ s \notin mem.burned
    BY DEF FirstFree, Taken
  <2>5. s \notin disk.claims /\ s \notin disk.burned
    BY <2>1, <2>4 DEF Inv, FileKnown
  <2>6. issued[s] = 0
    BY <2>5, <1>s DEF Inv, AnsweredIsOnDisk
  <2>7. req'[r] = [pc |-> "saving", slot |-> s] /\ \A q \in Requests \ {r} : req'[q] = req[q]
    BY <1>s DEF Become
  <2>8. \A q \in Requests \ {r} : req'[q] # Idle => req'[q].slot # s
    BY <2>4, <2>7 DEF Inv, SlotsHeld
  <2>9. SlotsHeld'
    <3> SUFFICES ASSUME NEW p \in Requests, req'[p] # Idle
                 PROVE /\ up'
                       /\ issued'[req'[p].slot] = 0 /\ req'[p].slot \notin mem'.burned
                       /\ req'[p].slot \in mem'.claims
                       /\ req'[p].pc = "claimed" => req'[p].slot \in disk'.claims
                       /\ \A q \in Requests :
                             req'[q] # Idle /\ req'[q].slot = req'[p].slot => q = p
      BY DEF SlotsHeld
    <3>1. CASE p = r
      BY <3>1, <2>1, <2>2, <2>4, <2>6, <2>7, <2>8
    <3>2. CASE p # r
      BY <3>2, <2>1, <2>2, <2>7, <2>8 DEF Inv, SlotsHeld
    <3> QED
      BY <3>1, <3>2
  <2> QED
    BY <1>t, <2>1, <2>3, <2>9 DEF Inv, NoSlotTwice, AnsweredIsOnDisk
<1>2. ASSUME NEW r \in Requests, Save(r) PROVE Inv'
  <2>1. req[r] # Idle /\ req[r] \in [pc : {"saving", "claimed"}, slot : Slots]
    BY <1>2, <1>t, Busy DEF Save
  <2>2. /\ req'[r].slot = req[r].slot /\ req'[r].pc = "claimed"
        /\ \A q \in Requests \ {r} : req'[q] = req[q]
    BY <1>2, <1>s, <2>1 DEF Save, Become
  <2>3. up /\ disk' = mem /\ UNCHANGED <<up, mem, edit, issued, revoked>>
    BY <1>2, <2>1 DEF Save, Inv, SlotsHeld
  <2>4. disk.claims \subseteq mem.claims /\ disk.burned \subseteq mem.burned
    BY <2>3 DEF Inv, FileKnown
  <2>5. edit = Closed
    BY <2>3 DEF Inv, FileKnown
  <2>6. FileKnown'
    BY <2>3, <2>4, <2>5 DEF Inv, FileKnown
  <2>7. \A q \in Requests : (req'[q] # Idle => req[q] # Idle /\ req'[q].slot = req[q].slot)
    BY <2>1, <2>2
  <2>8. \A q \in Requests : req[q] # Idle => req[q].slot \in mem.claims
    BY DEF Inv, SlotsHeld
  <2>9. SlotsHeld'
    BY <2>3, <2>7, <2>8 DEF Inv, SlotsHeld
  <2> QED
    BY <1>t, <2>3, <2>4, <2>6, <2>9 DEF Inv, NoSlotTwice, AnsweredIsOnDisk
<1>3. ASSUME NEW r \in Requests, SaveFails(r) \/ Drop(r) PROVE Inv'
  <2>1. UNCHANGED <<up, mem, disk, edit, issued, revoked>> /\ req' = [req EXCEPT ![r] = Idle]
    BY <1>3 DEF SaveFails, Drop, Become
  <2>2. \A q \in Requests : req'[q] # Idle => req'[q] = req[q]
    BY <1>s, <2>1
  <2>3. SlotsHeld'
    BY <2>1, <2>2 DEF Inv, SlotsHeld
  <2>4. FileKnown'
    BY <2>1 DEF Inv, FileKnown
  <2> QED
    BY <1>t, <2>1, <2>3, <2>4 DEF Inv, NoSlotTwice, AnsweredIsOnDisk
<1>4. ASSUME NEW r \in Requests, Answer(r) PROVE Inv'
  <2>1. req[r] # Idle /\ req[r].pc = "claimed" /\ req[r].slot \in Slots
    BY <1>4, <1>t, Busy DEF Answer
  <2>2. /\ UNCHANGED <<up, mem, disk, edit, revoked>> /\ req' = [req EXCEPT ![r] = Idle]
        /\ issued' = [issued EXCEPT ![req[r].slot] = @ + 1]
    BY <1>4 DEF Answer, Become
  <2>3. issued[req[r].slot] = 0 /\ req[r].slot \in disk.claims
    BY <2>1 DEF Inv, SlotsHeld
  <2>4. NoSlotTwice' /\ AnsweredIsOnDisk'
    BY <1>s, <2>2, <2>3 DEF Inv, NoSlotTwice, AnsweredIsOnDisk
  <2>5. \A q \in Requests : req'[q] # Idle => req'[q] = req[q] /\ q # r
    BY <1>s, <2>2
  <2>6. \A q \in Requests : req'[q] # Idle => req[q].slot # req[r].slot /\ req[q].slot \in Slots
    <3> TAKE q \in Requests
    <3> HAVE req'[q] # Idle
    <3>1. req[q] # Idle /\ q # r
      BY <2>5
    <3>2. req[q].slot # req[r].slot
      BY <3>1, <2>1 DEF Inv, SlotsHeld
    <3>3. req[q] \in [pc : {"saving", "claimed"}, slot : Slots]
      BY <3>1, <1>s DEF RequestStates
    <3> QED
      BY <3>2, <3>3
  <2>7. \A q \in Requests : req'[q] # Idle => issued'[req[q].slot] = issued[req[q].slot]
    BY <1>s, <2>2, <2>6
  <2>8. SlotsHeld'
    BY <2>2, <2>5, <2>7 DEF Inv, SlotsHeld
  <2>9. FileKnown'
    BY <2>2 DEF Inv, FileKnown
  <2> QED
    BY <1>t, <2>4, <2>8, <2>9 DEF Inv
<1>5. CASE Stop
  <2>1. ~up' /\ UNCHANGED <<disk, edit, issued, revoked>> /\ \A r \in Requests : req'[r] = Idle
    BY <1>5 DEF Stop
  <2>2. FileKnown' /\ SlotsHeld'
    BY <2>1 DEF Inv, FileKnown, SlotsHeld
  <2> QED
    BY <1>t, <2>1, <2>2 DEF Inv, NoSlotTwice, AnsweredIsOnDisk
<1>6. CASE Start
  <2>1. /\ ~up /\ edit = Closed /\ mem' = disk
        /\ UNCHANGED <<disk, req, edit, issued, revoked>>
    BY <1>6 DEF Start
  <2>2. \A r \in Requests : req[r] = Idle
    BY <2>1 DEF Inv, SlotsHeld
  <2>3. FileKnown' /\ SlotsHeld'
    BY <2>1, <2>2 DEF Inv, FileKnown, SlotsHeld
  <2> QED
    BY <1>t, <2>1, <2>3 DEF Inv, NoSlotTwice, AnsweredIsOnDisk
<1>7. CASE OpenEditor
  <2>1. /\ ~up /\ edit' = [open |-> TRUE, text |-> disk]
        /\ UNCHANGED <<up, mem, disk, req, issued, revoked>>
    BY <1>7 DEF OpenEditor
  <2>2. FileKnown' /\ SlotsHeld'
    BY <2>1 DEF Inv, FileKnown, SlotsHeld
  <2> QED
    BY <1>t, <2>1, <2>2 DEF Inv, NoSlotTwice, AnsweredIsOnDisk
<1>8. ASSUME NEW s \in Slots, Burn(s) PROVE Inv'
  <2>1. edit # Closed /\ edit.text \in States
    BY <1>8, <1>t, Opened DEF Burn
  <2>2. ~up /\ edit.text = disk
    BY <2>1 DEF Inv, FileKnown
  <2>3. /\ disk' = [disk EXCEPT !.burned = @ \union {s}] /\ edit' = Closed
        /\ revoked' = revoked \union {s} /\ UNCHANGED <<up, mem, req, issued>>
    BY <1>8, <2>2 DEF Burn
  <2>4. disk'.claims = disk.claims /\ disk'.burned = disk.burned \union {s}
    BY <1>s, <2>3 DEF States
  <2>5. FileKnown' /\ SlotsHeld'
    BY <2>2, <2>3, <2>4 DEF Inv, FileKnown, SlotsHeld
  <2> QED
    BY <1>t, <2>3, <2>4, <2>5 DEF Inv, NoSlotTwice, AnsweredIsOnDisk
<1>9. CASE UNCHANGED vars
  BY <1>9, <1>t DEF vars, Inv, FileKnown, SlotsHeld, NoSlotTwice, AnsweredIsOnDisk
<1> QED
  BY <1>1, <1>2, <1>3, <1>4, <1>5, <1>6, <1>7, <1>8, <1>9 DEF Next

\* The pool and its history keep their types, whoever edits the file.
THEOREM PoolTyped == Spec => []TypeOK
<1>1. Init => TypeOK
  BY InvInit DEF Inv
<1> QED
  BY <1>1, TypeStep, PTL DEF Spec

LEMMA Invariant == ASSUME Careful PROVE Spec => []Inv
BY InvInit, InvStep, PTL DEF Spec

\* No conf goes into two answers if the file is edited only while fabricd is
\* stopped (wgpool.go Claim, Open).
THEOREM NoConfTwice == ASSUME Careful PROVE Spec => []NoSlotTwice
<1>1. Inv => NoSlotTwice
  BY DEF Inv
<1> QED
  BY Invariant, <1>1, PTL

\* Under the same assumption what was answered is in the state file
\* (persistLocked runs before the answer).
THEOREM ClaimsPersist == ASSUME Careful PROVE Spec => []AnsweredIsOnDisk
<1>1. Inv => AnsweredIsOnDisk
  BY DEF Inv
<1> QED
  BY Invariant, <1>1, PTL

\* Under the same assumption a slot whose burn was saved is never answered.
THEOREM BurnsPersist == ASSUME Careful PROVE Spec => BurnedStaysBurned
<1>1. Inv /\ [Next]_vars => [\A s \in revoked : issued'[s] = issued[s]]_vars
  <2> SUFFICES ASSUME Inv, Next, NEW s \in revoked PROVE issued'[s] = issued[s]
    BY DEF vars
  <2>1. issued \in [Slots -> Nat]
    BY DEF Inv, TypeOK
  <2>2. ASSUME NEW r \in Requests, Answer(r) PROVE issued'[s] = issued[s]
    <3>1. req[r] # Idle /\ req[r].slot \in Slots
      BY <2>2, Busy DEF Answer, Inv
    <3>2. s \in mem.burned /\ req[r].slot \notin mem.burned
      BY <3>1 DEF Inv, SlotsHeld, FileKnown
    <3> QED
      BY <2>1, <2>2, <3>1, <3>2 DEF Answer
  <2> QED
    BY <2>2 DEF Next, Take, Save, SaveFails, Drop, Stop, Start, OpenEditor, Burn
<1> QED
  BY Invariant, <1>1, PTL DEF Spec, BurnedStaysBurned

-----------------------------------------------------------------------------
(* The handler.                                                            *)

\* The handler, its limiter and its checks let claims through or not, and otherwise
\* leave the pool alone (join.go, handleJoinClaim).
LEMMA HandlerStep == [CNext]_claimVars => [Next]_vars
<1> SUFFICES ASSUME [CNext]_claimVars PROVE [Next]_vars
  OBVIOUS
<1>1. ASSUME NEW r \in Requests, NEW c \in Clients, Refused(r, c) \/ Admitted(r, c)
      PROVE  UNCHANGED vars
  BY <1>1 DEF Refused, Admitted
<1>2. ASSUME NEW r \in Requests, CTake(r) \/ Exhausted(r)
      PROVE  [Next]_vars
  BY <1>2 DEF CTake, Exhausted, Next
<1>3. CASE CStop \/ CTick \/ UNCHANGED claimVars
  BY <1>3 DEF CStop, CTick, claimVars, Next
<1> QED
  BY <1>1, <1>2, <1>3 DEF CNext, Next

\* Whatever is proved of the pool holds of the whole handler: every behaviour of the
\* handler is one of the pool.
THEOREM HandlerImplementsPool == CSpec => Spec
<1>1. CInit => Init
  BY DEF CInit
<1> QED
  BY <1>1, HandlerStep, PTL DEF CSpec, Spec

-----------------------------------------------------------------------------
(* The limiter.                                                            *)

\* What holds of 0, and of n + 1 if of n, holds of all numbers.
LEMMA Counting ==
    ASSUME NEW T, 0 \in T, \A n \in Nat : n \in T => n + 1 \in T
    PROVE  \A n \in Nat : n \in T
<1> DEFINE Others == {n \in Nat : n \notin T}  R == OpToRel(<, Nat)
<1>1. R = {ss \in Nat \X Nat : ss[1] < ss[2]}
  BY Zenon DEF OpToRel
<1>2. IsWellFoundedOn(R, Nat)
  BY NatLessThanWellFounded
<1> HIDE DEF R
<1>3. ASSUME Others # {} PROVE FALSE
  <2>1. \E x \in Others : \A y \in Others : ~(<<y, x>> \in R)
    <3>1. Others \subseteq Nat
      OBVIOUS
    <3> HIDE DEF Others
    <3> QED BY <1>2, <1>3, <3>1, WFMin
  <2>2. PICK n \in Others : \A y \in Others : ~(<<y, n>> \in R)
    BY <2>1
  <2>3. n \in Nat /\ n # 0 /\ n \notin T
    OBVIOUS
  <2>4. n - 1 \in Nat /\ n - 1 < n /\ (n - 1) + 1 = n
    BY <2>3
  <2>5. <<n - 1, n>> \in R
    BY <1>1, <2>3, <2>4
  <2>6. n - 1 \in T
    BY <2>2, <2>4, <2>5
  <2>7. (n - 1) + 1 \in T
    BY <2>4, <2>6
  <2> QED BY <2>3, <2>4, <2>7
<1> QED BY <1>3

\* How many of the first n ages are recorded.
Sums(h, n, sum) == sum = [k \in 0 .. n |-> IF k = 0 THEN 0 ELSE sum[k - 1] + h[k - 1]]

\* Recent adds the ages of the window up (Limiter.Allow, len(kept)).
LEMMA RecentSums ==
    ASSUME NEW h
    PROVE  \E sum : Sums(h, Window, sum) /\ Recent(h) = sum[Window]
<1> DEFINE T == {n \in Nat : \E sum : Sums(h, n, sum)}
<1>1. Window \in Nat
  BY LimitAssumption
<1>2. 0 \in T
  <2> DEFINE g == [k \in 0 .. 0 |-> 0]
  <2>1. Sums(h, 0, g)
    BY DEF Sums
  <2> QED BY <2>1
<1>3. ASSUME NEW n \in Nat, n \in T PROVE n + 1 \in T
  <2>1. PICK g : Sums(h, n, g)
    BY <1>3
  <2> DEFINE f == [k \in 0 .. n + 1 |-> IF k = n + 1 THEN g[n] + h[n] ELSE g[k]]
  <2>2. ASSUME NEW k \in 0 .. n + 1 PROVE f[k] = IF k = 0 THEN 0 ELSE f[k - 1] + h[k - 1]
    <3>1. CASE k = 0
      BY <2>1, <3>1 DEF Sums
    <3>2. CASE k = n + 1
      BY <3>2
    <3>3. CASE k # 0 /\ k # n + 1
      <4>1. k \in 0 .. n /\ k - 1 \in 0 .. n + 1 /\ k - 1 # n + 1
        BY <3>3
      <4>2. f[k] = g[k] /\ f[k - 1] = g[k - 1]
        BY <3>3, <4>1
      <4>3. g[k] = g[k - 1] + h[k - 1]
        BY <2>1, <3>3, <4>1 DEF Sums
      <4> QED BY <3>3, <4>2, <4>3
    <3> QED BY <3>1, <3>2, <3>3
  <2>3. f = [k \in 0 .. n + 1 |-> f[k]]
    OBVIOUS
  <2> HIDE DEF f
  <2>4. Sums(h, n + 1, f)
    BY <2>2, <2>3 DEF Sums
  <2> QED BY <2>4
<1>4. \E sum : Sums(h, Window, sum)
  <2> HIDE DEF T
  <2>1. Window \in T
    BY <1>1, <1>2, <1>3, Counting
  <2> QED BY <2>1 DEF T
<1> DEFINE W == CHOOSE sum : sum = [k \in 0 .. Window |-> IF k = 0 THEN 0 ELSE sum[k - 1] + h[k - 1]]
<1>5. Recent(h) = W[Window]
  BY DEF Recent, Sum
<1>6. Sums(h, Window, W)
  BY <1>4 DEF Sums
<1> HIDE DEF W
<1> QED BY <1>5, <1>6

\* How the sum of one tally follows from another's, age by age: it goes up by the same d
\* from the first age on.
LEMMA SumsGrow ==
    ASSUME NEW h \in [Ages -> Nat], NEW g \in [Ages -> Nat], NEW d \in Nat,
           g[0] = h[0] + d, \A a \in 1 .. Window - 1 : g[a] = h[a]
    PROVE  Recent(h) \in Nat /\ Recent(g) = Recent(h) + d
<1>1. Window \in Nat \ {0} /\ \A a \in 0 .. Window - 1 : h[a] \in Nat /\ g[a] \in Nat
  BY LimitAssumption DEF Ages
<1>2. PICK x : Sums(h, Window, x) /\ Recent(h) = x[Window]
  BY RecentSums
<1>3. PICK y : Sums(g, Window, y) /\ Recent(g) = y[Window]
  BY RecentSums
<1>4. \A k \in 0 .. Window : x[k] = IF k = 0 THEN 0 ELSE x[k - 1] + h[k - 1]
  BY <1>2 DEF Sums
<1>5. \A k \in 0 .. Window : y[k] = IF k = 0 THEN 0 ELSE y[k - 1] + g[k - 1]
  BY <1>3 DEF Sums
<1> DEFINE T == {n \in Nat : n + 1 <= Window => x[n + 1] \in Nat /\ y[n + 1] = x[n + 1] + d}
<1>6. 0 \in T
  <2>1. x[0] = 0 /\ y[0] = 0 /\ x[1] = x[0] + h[0] /\ y[1] = y[0] + g[0]
    BY <1>1, <1>4, <1>5
  <2> QED BY <1>1, <2>1
<1>7. ASSUME NEW n \in Nat, n \in T PROVE n + 1 \in T
  <2> SUFFICES ASSUME (n + 1) + 1 <= Window
               PROVE  x[(n + 1) + 1] \in Nat /\ y[(n + 1) + 1] = x[(n + 1) + 1] + d
    OBVIOUS
  <2>1. x[n + 1] \in Nat /\ y[n + 1] = x[n + 1] + d
    BY <1>1, <1>7
  <2> DEFINE k == (n + 1) + 1
  <2>2. k \in 0 .. Window /\ k # 0 /\ k - 1 = n + 1 /\ n + 1 \in 1 .. Window - 1 /\ n + 1 \in 0 .. Window - 1
    BY <1>1
  <2> HIDE DEF k
  <2>3. x[k] = x[n + 1] + h[n + 1] /\ y[k] = y[n + 1] + g[n + 1]
    BY <1>4, <1>5, <2>2
  <2>4. h[n + 1] \in Nat /\ g[n + 1] = h[n + 1]
    BY <1>1, <2>2
  <2>5. x[k] \in Nat /\ y[k] = x[k] + d
    BY <2>1, <2>3, <2>4
  <2> QED BY <2>5 DEF k
<1>8. Window - 1 \in T
  <2>1. Window - 1 \in Nat
    BY <1>1
  <2> HIDE DEF T
  <2> QED BY <1>6, <1>7, <2>1, Counting
<1>9. (Window - 1) + 1 = Window
  BY <1>1
<1> QED BY <1>1, <1>2, <1>3, <1>8, <1>9

\* A client is recorded at no age more often than in the window.
LEMMA PartOfSum ==
    ASSUME NEW h \in [Ages -> Nat]
    PROVE  \A a \in InWindow : h[a] <= Recent(h)
<1>1. Window \in Nat \ {0} /\ \A a \in 0 .. Window - 1 : h[a] \in Nat
  BY LimitAssumption DEF Ages
<1>2. PICK x : Sums(h, Window, x) /\ Recent(h) = x[Window]
  BY RecentSums
<1>3. \A k \in 0 .. Window : x[k] = IF k = 0 THEN 0 ELSE x[k - 1] + h[k - 1]
  BY <1>2 DEF Sums
<1> DEFINE T == {n \in Nat : n <= Window => x[n] \in Nat /\ \A a \in 0 .. n - 1 : h[a] <= x[n]}
<1>4. 0 \in T
  BY <1>1, <1>3
<1>5. ASSUME NEW n \in Nat, n \in T PROVE n + 1 \in T
  <2> SUFFICES ASSUME n + 1 <= Window
               PROVE  x[n + 1] \in Nat /\ \A a \in 0 .. (n + 1) - 1 : h[a] <= x[n + 1]
    OBVIOUS
  <2>1. x[n] \in Nat /\ \A a \in 0 .. n - 1 : h[a] <= x[n]
    BY <1>1, <1>5
  <2>2. n + 1 \in 0 .. Window /\ n + 1 # 0 /\ (n + 1) - 1 = n /\ n \in 0 .. Window - 1
    BY <1>1
  <2>3. x[n + 1] = x[n] + h[n] /\ h[n] \in Nat
    BY <1>1, <1>3, <2>2
  <2>4. ASSUME NEW a \in 0 .. n PROVE h[a] <= x[n + 1]
    <3>1. a = n \/ a \in 0 .. n - 1
      OBVIOUS
    <3>2. h[a] \in Nat
      BY <1>1, <2>2
    <3> QED BY <2>1, <2>3, <3>1, <3>2
  <2> QED BY <2>1, <2>3, <2>4
<1>6. Window \in T
  <2> HIDE DEF T
  <2> QED BY <1>1, <1>4, <1>5, Counting
<1> QED BY <1>1, <1>2, <1>6 DEF InWindow

\* Nothing comes into the window by ageing, and the oldest leaves it (Limiter.Allow, the
\* cutoff).
LEMMA AgeingLosesOnly ==
    ASSUME NEW h \in [Ages -> Nat], NEW g \in [Ages -> Nat],
           g[0] = 0, \A a \in 1 .. Window - 1 : g[a] = h[a - 1]
    PROVE  Recent(g) + h[Window - 1] = Recent(h)
<1>1. Window \in Nat \ {0} /\ \A a \in 0 .. Window - 1 : h[a] \in Nat /\ g[a] \in Nat
  BY LimitAssumption DEF Ages
<1>2. PICK x : Sums(h, Window, x) /\ Recent(h) = x[Window]
  BY RecentSums
<1>3. PICK y : Sums(g, Window, y) /\ Recent(g) = y[Window]
  BY RecentSums
<1>4. \A k \in 0 .. Window : x[k] = IF k = 0 THEN 0 ELSE x[k - 1] + h[k - 1]
  BY <1>2 DEF Sums
<1>5. \A k \in 0 .. Window : y[k] = IF k = 0 THEN 0 ELSE y[k - 1] + g[k - 1]
  BY <1>3 DEF Sums
<1> DEFINE T == {n \in Nat : n + 1 <= Window => /\ x[n] \in Nat /\ x[n + 1] \in Nat /\ x[n + 1] = x[n] + h[n]
                                                /\ y[n + 1] = x[n]}
<1>6. 0 \in T
  <2>1. x[0] = 0 /\ y[0] = 0 /\ x[1] = x[0] + h[0] /\ y[1] = y[0] + g[0]
    BY <1>1, <1>4, <1>5
  <2> QED BY <1>1, <2>1
<1>7. ASSUME NEW n \in Nat, n \in T PROVE n + 1 \in T
  <2> SUFFICES ASSUME (n + 1) + 1 <= Window
               PROVE  /\ x[n + 1] \in Nat /\ x[(n + 1) + 1] \in Nat /\ x[(n + 1) + 1] = x[n + 1] + h[n + 1]
                      /\ y[(n + 1) + 1] = x[n + 1]
    OBVIOUS
  <2>1. x[n] \in Nat /\ x[n + 1] \in Nat /\ y[n + 1] = x[n]
    BY <1>1, <1>7
  <2> DEFINE k == (n + 1) + 1
  <2>2. /\ k \in 0 .. Window /\ k # 0 /\ k - 1 = n + 1 /\ n + 1 \in 1 .. Window - 1
        /\ n + 1 \in 0 .. Window /\ n + 1 \in 0 .. Window - 1 /\ (n + 1) - 1 = n /\ n + 1 # 0
    BY <1>1
  <2> HIDE DEF k
  <2>3. x[k] = x[n + 1] + h[n + 1] /\ y[k] = y[n + 1] + g[n + 1] /\ x[n + 1] = x[n] + h[n]
    BY <1>4, <1>5, <2>2
  <2>4. h[n + 1] \in Nat /\ g[n + 1] = h[n]
    BY <1>1, <2>2
  <2>5. x[k] \in Nat /\ y[k] = x[n + 1]
    BY <2>1, <2>3, <2>4
  <2> QED BY <2>1, <2>3, <2>5 DEF k
<1>8. Window - 1 \in T
  <2>1. Window - 1 \in Nat
    BY <1>1
  <2> HIDE DEF T
  <2> QED BY <1>6, <1>7, <2>1, Counting
<1>9. (Window - 1) + 1 = Window
  BY <1>1
<1> QED BY <1>1, <1>2, <1>3, <1>8, <1>9

\* What counts against a client are the calls it was allowed, of which the window has no
\* more than it may; nor is more recorded, what has left the window included.
Kept(h, g) ==
    /\ h \in [Ages -> Nat] /\ g \in [Ages -> Nat]
    /\ Recent(g) <= MaxHits
    /\ \A a \in InWindow : h[a] = g[a]
    /\ Recent(h) + h[Window] <= MaxHits /\ g[Window] = 0

\* The two have the same sum over the window.
LEMMA SameSum ==
    ASSUME NEW h \in [Ages -> Nat], NEW g \in [Ages -> Nat], \A a \in InWindow : h[a] = g[a]
    PROVE  Recent(h) \in Nat /\ Recent(g) = Recent(h)
<1>1. 0 \in InWindow /\ 0 \in Ages /\ \A a \in 1 .. Window - 1 : a \in InWindow
  BY LimitAssumption DEF InWindow, Ages
<1>2. g[0] = h[0] + 0 /\ \A a \in 1 .. Window - 1 : g[a] = h[a]
  BY <1>1
<1> QED BY <1>2, SumsGrow

LimitInv ==
    /\ hits = [c \in Clients |-> hits[c]] /\ granted = [c \in Clients |-> granted[c]]
    /\ \A c \in Clients : Kept(hits[c], granted[c])

\* The window has at least one age, and the age that has left it.
LEMMA WindowAges == 0 \in InWindow /\ 0 \in Ages /\ Window \in Ages /\ Window # 0
                 /\ Window \notin InWindow /\ InWindow \subseteq Ages /\ Window \in Nat
BY LimitAssumption DEF InWindow, Ages

\* Nothing recorded (New, and after a restart).
LEMMA NoneKept == Kept(None, None)
<1>1. None \in [Ages -> Nat] /\ \A a \in Ages : None[a] = 0
  BY DEF None
<1>2. Recent(None) = 0
  <2>1. PICK x : Sums(None, Window, x) /\ Recent(None) = x[Window]
    BY RecentSums
  <2> DEFINE T == {n \in Nat : n <= Window => x[n] = 0}
  <2>2. \A k \in 0 .. Window : x[k] = IF k = 0 THEN 0 ELSE x[k - 1] + None[k - 1]
    BY <2>1 DEF Sums
  <2>3. 0 \in T
    BY <2>2, WindowAges
  <2>4. ASSUME NEW n \in Nat, n \in T PROVE n + 1 \in T
    <3> SUFFICES ASSUME n + 1 <= Window PROVE x[n + 1] = 0
      OBVIOUS
    <3>1. n + 1 \in 0 .. Window /\ n + 1 # 0 /\ (n + 1) - 1 = n /\ n \in Ages /\ x[n] = 0
      BY <2>4, WindowAges DEF Ages
    <3>2. None[n] = 0
      BY <1>1, <3>1
    <3> QED BY <2>2, <3>1, <3>2
  <2>5. Window \in T
    <3> HIDE DEF T
    <3> QED BY <2>3, <2>4, Counting, WindowAges
  <2> QED BY <2>1, <2>5, WindowAges
<1> QED BY <1>1, <1>2, WindowAges, LimitAssumption DEF Kept

\* A call that is allowed is recorded, and there was room for it (Limiter.Allow).
LEMMA GrantKeeps ==
    ASSUME NEW h, NEW g, Kept(h, g), Recent(h) < MaxHits
    PROVE  Kept(Counted(Purged(h)), Counted(g))
<1> DEFINE h2 == Counted(Purged(h))  g2 == Counted(g)
<1>1. h \in [Ages -> Nat] /\ g \in [Ages -> Nat] /\ \A a \in InWindow : h[a] = g[a]
  BY DEF Kept
<1>2. /\ h2 \in [Ages -> Nat] /\ h2[0] = h[0] + 1 /\ h2[Window] = 0
      /\ \A a \in InWindow : a # 0 => h2[a] = h[a]
  BY <1>1, WindowAges DEF Counted, Purged
<1>3. /\ g2 \in [Ages -> Nat] /\ g2[0] = g[0] + 1 /\ g2[Window] = g[Window]
      /\ \A a \in InWindow : a # 0 => g2[a] = g[a]
  BY <1>1, WindowAges DEF Counted
<1> HIDE DEF h2, g2
<1>4. h[0] = g[0] /\ h[0] \in Nat /\ \A a \in 1 .. Window - 1 : a \in InWindow /\ a # 0
  BY <1>1, WindowAges DEF InWindow
<1>5. Recent(h) \in Nat /\ Recent(g) = Recent(h)
  BY <1>1, SameSum
<1>6. Recent(g2) = Recent(g) + 1
  <2>1. \A a \in 1 .. Window - 1 : g2[a] = g[a]
    BY <1>3, <1>4
  <2> QED BY <1>1, <1>3, <2>1, SumsGrow
<1>7. Recent(g2) <= MaxHits
  BY <1>5, <1>6, LimitAssumption
<1>8. \A a \in InWindow : h2[a] = g2[a]
  BY <1>1, <1>2, <1>3, <1>4
<1>9. Recent(h2) + h2[Window] <= MaxHits
  <2>1. Recent(g2) = Recent(h2)
    BY <1>2, <1>3, <1>8, SameSum
  <2> QED BY <1>2, <1>5, <1>6, <1>7, <2>1
<1> QED BY <1>2, <1>3, <1>7, <1>8, <1>9 DEF Kept, h2, g2

\* A call that is refused is not recorded (Limiter.Allow).
LEMMA RefuseKeeps ==
    ASSUME NEW h, NEW g, Kept(h, g)
    PROVE  Kept(Purged(h), g)
<1>1. h \in [Ages -> Nat] /\ \A a \in InWindow : h[a] = g[a]
  BY DEF Kept
<1>2. /\ Purged(h) \in [Ages -> Nat] /\ Purged(h)[Window] = 0
      /\ \A a \in InWindow : Purged(h)[a] = h[a]
  BY <1>1, WindowAges DEF Purged
<1>3. Recent(Purged(h)) = Recent(h) /\ Recent(h) \in Nat
  BY <1>1, <1>2, SameSum
<1>4. Recent(h) <= MaxHits
  <2>1. Recent(h) + h[Window] <= MaxHits /\ h[Window] \in Nat
    BY <1>1, WindowAges DEF Kept
  <2> QED BY <1>3, <2>1, LimitAssumption
<1> QED BY <1>1, <1>2, <1>3, <1>4 DEF Kept

\* A tick takes from the window what is recorded and what was allowed alike.
LEMMA TickKeeps ==
    ASSUME NEW h, NEW g, Kept(h, g)
    PROVE  Kept(Aged(h), [Aged(g) EXCEPT ![Window] = 0])
<1> DEFINE h2 == Aged(h)  g2 == [Aged(g) EXCEPT ![Window] = 0]
<1>1. h \in [Ages -> Nat] /\ g \in [Ages -> Nat] /\ \A a \in InWindow : h[a] = g[a]
  BY DEF Kept
<1>2. \A a \in Ages : a # 0 => a - 1 \in InWindow /\ a - 1 \in Ages
  BY WindowAges DEF Ages, InWindow
<1>3. /\ h2 \in [Ages -> Nat] /\ h2[0] = 0 /\ h2[Window] = h[Window] + h[Window - 1]
      /\ \A a \in InWindow : a # 0 => h2[a] = h[a - 1]
  <2>1. \A a \in Ages : h[a] \in Nat
    BY <1>1
  <2> QED BY <1>2, <2>1, WindowAges DEF Aged
<1>4. /\ g2 \in [Ages -> Nat] /\ g2[0] = 0 /\ g2[Window] = 0
      /\ \A a \in InWindow : a # 0 => g2[a] = g[a - 1]
  <2>1. \A a \in Ages : g[a] \in Nat
    BY <1>1
  <2> QED BY <1>2, <2>1, WindowAges DEF Aged
<1> HIDE DEF h2, g2
<1>5. \A a \in 1 .. Window - 1 : a \in InWindow /\ a # 0
  BY WindowAges DEF InWindow
<1>6. Recent(h2) + h[Window - 1] = Recent(h) /\ Recent(g2) + g[Window - 1] = Recent(g)
  BY <1>1, <1>3, <1>4, <1>5, AgeingLosesOnly
<1>7. Recent(g) \in Nat /\ Recent(g2) \in Nat /\ Recent(h) \in Nat /\ Recent(h2) \in Nat
  BY <1>1, <1>3, <1>4, SameSum
<1>8. Recent(g2) <= MaxHits /\ Recent(h2) + h2[Window] <= MaxHits
  <2>1. Window - 1 \in Ages /\ h[Window - 1] \in Nat /\ g[Window - 1] \in Nat /\ h[Window] \in Nat
    BY <1>1, <1>2, WindowAges
  <2>2. Recent(g) <= MaxHits /\ Recent(h) + h[Window] <= MaxHits
    BY DEF Kept
  <2> QED BY <1>3, <1>6, <1>7, <2>1, <2>2, LimitAssumption
<1>9. \A a \in InWindow : h2[a] = g2[a]
  <2>1. ASSUME NEW a \in InWindow, a # 0 PROVE h[a - 1] = g[a - 1]
    BY <1>1, <1>2, <2>1, WindowAges
  <2> QED BY <1>3, <1>4, <2>1
<1> QED BY <1>3, <1>4, <1>8, <1>9 DEF Kept, h2, g2

LEMMA LimitStep == LimitInv /\ [CNext]_claimVars => LimitInv'
<1> SUFFICES ASSUME LimitInv, [CNext]_claimVars PROVE LimitInv'
  OBVIOUS
<1>1. ASSUME NEW r \in Requests, NEW c \in Clients, Admitted(r, c) PROVE LimitInv'
  <2>1. /\ Recent(hits[c]) < MaxHits
        /\ hits' = [hits EXCEPT ![c] = Counted(Purged(@))]
        /\ granted' = [granted EXCEPT ![c] = Counted(@)]
    BY <1>1 DEF Admitted, Grant
  <2>2. Kept(Counted(Purged(hits[c])), Counted(granted[c]))
    BY <2>1, GrantKeeps DEF LimitInv
  <2> QED BY <2>1, <2>2 DEF LimitInv
<1>2. ASSUME NEW r \in Requests, NEW c \in Clients, Refused(r, c) PROVE LimitInv'
  <2>1. hits' = [hits EXCEPT ![c] = Purged(@)] /\ granted' = granted
    BY <1>2 DEF Refused, Refuse
  <2>2. Kept(Purged(hits[c]), granted[c])
    BY RefuseKeeps DEF LimitInv
  <2> QED BY <2>1, <2>2 DEF LimitInv
<1>3. CASE CStop
  <2>1. hits' = [c \in Clients |-> None] /\ granted' = [c \in Clients |-> None]
    BY <1>3 DEF CStop
  <2> QED BY <2>1, NoneKept DEF LimitInv
<1>4. CASE CTick
  <2>1. /\ hits' = [c \in Clients |-> Aged(hits[c])]
        /\ granted' = [c \in Clients |-> [Aged(granted[c]) EXCEPT ![Window] = 0]]
    BY <1>4 DEF CTick, LimitTick
  <2>2. \A c \in Clients : Kept(Aged(hits[c]), [Aged(granted[c]) EXCEPT ![Window] = 0])
    BY TickKeeps DEF LimitInv
  <2> QED BY <2>1, <2>2 DEF LimitInv
<1>5. CASE UNCHANGED limiter
  BY <1>5 DEF LimitInv, limiter
<1>6. \/ \E r \in Requests, c \in Clients : Refused(r, c) \/ Admitted(r, c)
      \/ CStop \/ CTick \/ UNCHANGED limiter
  BY DEF CNext, CTake, Exhausted, claimVars, limiter
<1> QED BY <1>1, <1>2, <1>3, <1>4, <1>5, <1>6

LEMMA LimitHolds == CSpec => []LimitInv
<1>1. CInit => LimitInv
  BY NoneKept DEF CInit, LimitInit, LimitInv
<1> QED BY <1>1, LimitStep, PTL DEF CSpec

\* Of no client are more calls allowed within a window than its limit, and none is
\* refused that was allowed fewer, whatever its tries (Limiter.Allow).
THEOREM WindowsAreKept == CSpec => []WindowIsKept
<1>1. ASSUME LimitInv, NEW c \in Clients
      PROVE  /\ Sum(granted[c], Window) <= MaxHits
             /\ Recent(hits[c]) >= MaxHits => Sum(granted[c], Window) = MaxHits
  <2> DEFINE h == hits[c]  g == granted[c]
  <2>1. Kept(h, g)
    BY <1>1 DEF LimitInv
  <2> HIDE DEF h, g
  <2>2. /\ h \in [Ages -> Nat] /\ g \in [Ages -> Nat]
        /\ \A a \in InWindow : h[a] = g[a] /\ Recent(g) <= MaxHits
    BY <2>1, WindowAges DEF Kept
  <2>3. Recent(h) \in Nat /\ Recent(g) = Recent(h) /\ Recent(g) <= MaxHits
    BY <2>2, SameSum, WindowAges
  <2>4. Recent(g) = Sum(g, Window)
    BY DEF Recent
  <2> QED BY <2>3, <2>4, LimitAssumption DEF h, g
<1>2. LimitInv => WindowIsKept
  BY <1>1 DEF WindowIsKept
<1> QED BY <1>2, LimitHolds, PTL

\* Types of the whole handler: of no client is more recorded, in the window or past it,
\* than its limit (Limiter.hits, handleJoinClaim).
THEOREM HandlerTyped == CSpec => []ClaimTypeOK
<1>1. LimitInv => LimitTypeOK
  <2> SUFFICES ASSUME LimitInv, NEW c \in Clients, NEW a \in Ages
               PROVE  hits[c][a] \in 0 .. MaxHits /\ granted[c][a] \in 0 .. MaxHits
    BY DEF LimitInv, Kept, LimitTypeOK, Tallies
  <2> DEFINE h == hits[c]  g == granted[c]
  <2>1. Kept(h, g)
    BY DEF LimitInv
  <2> HIDE DEF h, g
  <2>2. h \in [Ages -> Nat] /\ g \in [Ages -> Nat] /\ h[a] \in Nat /\ g[a] \in Nat
    BY <2>1 DEF Kept
  <2>3. Recent(h) \in Nat /\ h[Window] \in Nat /\ Recent(h) + h[Window] <= MaxHits /\ g[Window] = 0
    BY <2>1, <2>2, SameSum, WindowAges DEF Kept
  <2>4. CASE a \in InWindow
    <3>1. h[a] <= Recent(h) /\ g[a] = h[a]
      BY <2>1, <2>2, <2>4, PartOfSum DEF Kept
    <3> QED BY <2>2, <2>3, <3>1, LimitAssumption DEF h, g
  <2>5. CASE a = Window
    BY <2>2, <2>3, <2>5, LimitAssumption DEF h, g
  <2>6. a \in InWindow \/ a = Window
    BY WindowAges DEF Ages, InWindow
  <2> QED BY <2>4, <2>5, <2>6
<1> DEFINE Gates == gate \in [Requests -> BOOLEAN]
<1>2. CInit => Gates
  BY DEF CInit
<1>3. Gates /\ [CNext]_claimVars => Gates'
  BY DEF CNext, Refused, Admitted, CTake, Exhausted, CStop, CTick, claimVars
<1>4. TypeOK /\ LimitTypeOK /\ Gates <=> ClaimTypeOK
  BY DEF ClaimTypeOK
<1> QED BY <1>1, <1>2, <1>3, <1>4, LimitHolds, HandlerImplementsPool, PoolTyped, PTL DEF CSpec
=============================================================================
