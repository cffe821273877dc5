---------------------------- MODULE Linkd_proofs ----------------------------
(***************************************************************************)
(* What holds of the two parts that linkd joins.  Of the coalescing        *)
(* wrapper, for any number of callers and of timer goroutines and for any  *)
(* window: its types, that no call is lost, the bound on runs of f, and    *)
(* that it does what Requests promises, its liveness left to the model     *)
(* checker.  Of the shaping API, for any interfaces, handlers, updates and *)
(* baseline: every interface is within what Validate accepts, but for a    *)
(* jitter whose delay was too short for the kernel.                        *)
(***************************************************************************)
EXTENDS Coalescer, ShapingApi, TLAPS

-----------------------------------------------------------------------------
(* The coalescer.                                                          *)

\* The two kinds of variables are typed apart: the provers at hand are good
\* at one of them each.
Flags == dirty \in BOOLEAN /\ owed \in BOOLEAN

Ranges ==
    /\ timer \in {Off} \union 0..Window
    /\ run \in [Workers -> {"idle", "start", "running"}]
    /\ ages \in [last : 0..Window, prev : 0..Window]

LEMMA CoalescerTypingStep ==
    CoalescerTypeOK /\ [CoalescerNext]_coalescerVars => CoalescerTypeOK'
<1> SUFFICES ASSUME Flags, Ranges, [CoalescerNext]_coalescerVars
             PROVE  Flags' /\ Ranges'
  BY DEF CoalescerTypeOK, Flags, Ranges
<1> USE CoalescerAssumption DEF CoalescerAssumption, Off
<1>1. ASSUME NEW c \in Callers, CallLeading(c)
      PROVE  Flags' /\ Ranges'
  <2>1. Flags'
    BY <1>1 DEF CallLeading, Flags
  <2>2. Ranges'
    <3>1. timer' \in {Off} \union 0..Window
      BY <1>1 DEF CallLeading
    <3>2. run' \in [Workers -> {"idle", "start", "running"}]
      BY <1>1 DEF CallLeading, Trigger, Ranges
    <3>3. ages' \in [last : 0..Window, prev : 0..Window]
      BY <1>1 DEF CallLeading, Trigger, Ranges
    <3> QED
      BY <3>1, <3>2, <3>3 DEF Ranges
  <2> QED
    BY <2>1, <2>2
<1>2. ASSUME NEW c \in Callers, CallWithinWindow(c)
      PROVE  Flags' /\ Ranges'
  BY <1>2 DEF CallWithinWindow, Flags, Ranges
<1>3. ASSUME Fire
      PROVE  Flags' /\ Ranges'
  <2>1. Flags'
    BY <1>3 DEF Fire, Flags
  <2>2. Ranges'
    BY <1>3 DEF Fire, Trigger, Ranges
  <2> QED
    BY <2>1, <2>2
<1>4. ASSUME NEW w \in Workers, Begin(w) \/ End(w)
      PROVE  Flags' /\ Ranges'
  <2>1. Flags'
    BY <1>4 DEF Begin, End, Flags
  <2>2. Ranges'
    BY <1>4 DEF Begin, End, Ranges
  <2> QED
    BY <2>1, <2>2
<1>5. CASE Tick
  <2>1. Flags'
    BY <1>5 DEF Tick, Flags
  <2>2. Ranges'
    BY <1>5 DEF Tick, Older, Ranges
  <2> QED
    BY <2>1, <2>2
<1>6. CASE Restart
  <2>1. Flags'
    BY <1>6 DEF Restart, Flags
  <2>2. Ranges'
    BY <1>6 DEF Restart, Ranges
  <2> QED
    BY <2>1, <2>2
<1>7. CASE UNCHANGED coalescerVars
  BY <1>7 DEF coalescerVars, Flags, Ranges
<1> QED
  BY <1>1, <1>2, <1>3, <1>4, <1>5, <1>6, <1>7 DEF CoalescerNext, Call

LEMMA CoalescerInitTyping == CoalescerInit => CoalescerTypeOK
<1> SUFFICES ASSUME CoalescerInit
             PROVE  CoalescerTypeOK
  OBVIOUS
<1>1. Flags
  BY DEF CoalescerInit, Flags
<1>2. Ranges
  BY CoalescerAssumption DEF CoalescerAssumption, CoalescerInit, Ranges
<1> QED
  BY <1>1, <1>2 DEF CoalescerTypeOK, Flags, Ranges

\* The variables stay in their ranges (coalesce.go coalescer).
THEOREM CoalescerTyping == CoalescerSpec => []CoalescerTypeOK
BY CoalescerInitTyping, CoalescerTypingStep, PTL DEF CoalescerSpec

-----------------------------------------------------------------------------
\* One step keeps NoLostCall; MetadataSync_proofs uses it too.
LEMMA NoLostCallStep ==
    CoalescerTypeOK /\ NoLostCall /\ [CoalescerNext]_coalescerVars => NoLostCall'
<1> SUFFICES ASSUME CoalescerTypeOK, NoLostCall, [CoalescerNext]_coalescerVars
             PROVE  NoLostCall'
  OBVIOUS
<1> USE CoalescerAssumption DEF CoalescerAssumption, CoalescerTypeOK, NoLostCall, Off
<1>1. ASSUME NEW c \in Callers, CallLeading(c)
      PROVE  NoLostCall'
  <2> c \in Workers
    BY DEF Workers
  <2> QED
    BY <1>1 DEF CallLeading, Trigger
<1>2. ASSUME NEW c \in Callers, CallWithinWindow(c)
      PROVE  NoLostCall'
  BY <1>2 DEF CallWithinWindow
<1>3. ASSUME Fire
      PROVE  NoLostCall'
  <2>1. CASE dirty
    <3>1. PICK t \in Timers : Trigger(t)
      BY <1>3, <2>1 DEF Fire
    <3> QED
      BY <3>1 DEF Trigger, Workers
  <2>2. CASE ~dirty
    BY <1>3, <2>2 DEF Fire
  <2> QED
    BY <2>1, <2>2
<1>4. ASSUME NEW w \in Workers, Begin(w)
      PROVE  NoLostCall'
  BY <1>4 DEF Begin
<1>5. ASSUME NEW w \in Workers, End(w)
      PROVE  NoLostCall'
  BY <1>5 DEF End
<1>6. CASE Tick
  BY <1>6 DEF Tick, Older
<1>7. CASE Restart
  BY <1>7 DEF Restart
<1>8. CASE UNCHANGED coalescerVars
  BY <1>8 DEF coalescerVars
<1> QED
  BY <1>1, <1>2, <1>3, <1>4, <1>5, <1>6, <1>7, <1>8 DEF CoalescerNext, Call

\* As long as f has not begun since a call, something stands for the call.
THEOREM CoalescerLosesNoCall == CoalescerSpec => []NoLostCall
<1>1. CoalescerInit => NoLostCall
  BY DEF CoalescerInit, NoLostCall
<1> QED
  BY <1>1, CoalescerTyping, NoLostCallStep, PTL DEF CoalescerSpec

-----------------------------------------------------------------------------
\* How the times of the last two triggers relate to the pending timer: it was
\* armed by the latest trigger, and without one the last but one is a window
\* old.  This is what bounds the runs of f.
Paced ==
    /\ timer = Off => ages.prev = Window
    /\ timer # Off => ages.last = timer
    /\ ages.last <= ages.prev

LEMMA PacedStep ==
    CoalescerTypeOK /\ Paced /\ [CoalescerNext]_coalescerVars => Paced'
<1> SUFFICES ASSUME CoalescerTypeOK, Paced, [CoalescerNext]_coalescerVars
             PROVE  Paced'
  OBVIOUS
<1> USE CoalescerAssumption DEF CoalescerAssumption, CoalescerTypeOK, Paced, Off
<1>1. ASSUME NEW c \in Callers, CallLeading(c)
      PROVE  Paced'
  BY <1>1 DEF CallLeading, Trigger
<1>2. ASSUME NEW c \in Callers, CallWithinWindow(c)
      PROVE  Paced'
  BY <1>2 DEF CallWithinWindow
<1>3. ASSUME Fire
      PROVE  Paced'
  BY <1>3 DEF Fire, Trigger
<1>4. ASSUME NEW w \in Workers, Begin(w) \/ End(w)
      PROVE  Paced'
  BY <1>4 DEF Begin, End
<1>5. CASE Tick
  BY <1>5 DEF Tick, Older
<1>6. CASE Restart
  BY <1>6 DEF Restart
<1>7. CASE UNCHANGED coalescerVars
  BY <1>7 DEF coalescerVars
<1> QED
  BY <1>1, <1>2, <1>3, <1>4, <1>5, <1>6, <1>7 DEF CoalescerNext, Call

\* Between a trigger and the second one after it a window elapses.
THEOREM CoalescerBounded == CoalescerSpec => AtMostTwoPerWindow
<1>1. CoalescerInit => Paced
  BY CoalescerAssumption DEF CoalescerAssumption, CoalescerInit, Paced, Off
<1>2. CoalescerTypeOK /\ Paced /\ [CoalescerNext]_coalescerVars
        => [ (\E w \in Workers : run[w] = "idle" /\ run'[w] = "start")
                => ages.prev = Window ]_coalescerVars
  <2> SUFFICES ASSUME CoalescerTypeOK, Paced, CoalescerNext,
                      NEW w \in Workers, run[w] = "idle", run'[w] = "start"
               PROVE  ages.prev = Window
    BY DEF coalescerVars
  <2> USE CoalescerAssumption DEF CoalescerAssumption, CoalescerTypeOK, Paced, Off
  <2>1. ASSUME NEW c \in Callers, CallLeading(c)
        PROVE  ages.prev = Window
    BY <2>1 DEF CallLeading
  <2>2. ASSUME NEW c \in Callers, CallWithinWindow(c)
        PROVE  FALSE
    BY <2>2 DEF CallWithinWindow
  <2>3. ASSUME Fire
        PROVE  ages.prev = Window
    BY <2>3 DEF Fire
  <2>4. ASSUME NEW v \in Workers, Begin(v) \/ End(v)
        PROVE  FALSE
    BY <2>4 DEF Begin, End
  <2>5. CASE Tick \/ Restart
    BY <2>5 DEF Tick, Restart
  <2> QED
    BY <2>1, <2>2, <2>3, <2>4, <2>5 DEF CoalescerNext, Call
<1> QED
  BY <1>1, <1>2, PacedStep, CoalescerTyping, PTL
     DEF CoalescerSpec, AtMostTwoPerWindow

-----------------------------------------------------------------------------
Inside == {w \in Workers : run[w] = "running"}

\* Every step of the coalescer is a step of Requests, or leaves its variables alone.
LEMMA ContractStep ==
    CoalescerTypeOK /\ [CoalescerNext]_coalescerVars => [Contract!Next]_(Contract!vars)
<1> SUFFICES ASSUME CoalescerTypeOK, [CoalescerNext]_coalescerVars
             PROVE  [Contract!Next]_(Contract!vars)
  OBVIOUS
<1> USE CoalescerAssumption DEF CoalescerAssumption, CoalescerTypeOK
<1>0. ASSUME UNCHANGED <<owed, Inside>>
      PROVE  UNCHANGED Contract!vars
  BY <1>0 DEF Contract!vars, Inside
<1>1. ASSUME NEW c \in Callers, CallLeading(c)
      PROVE  Contract!Request
  <2>1. Inside' = Inside
    BY <1>1 DEF CallLeading, Trigger, Inside
  <2> QED
    BY <2>1, <1>1 DEF CallLeading, Inside, Contract!Request
<1>2. ASSUME NEW c \in Callers, CallWithinWindow(c)
      PROVE  Contract!Request
  BY <1>2 DEF CallWithinWindow, Contract!Request
<1>3. ASSUME Fire
      PROVE  UNCHANGED Contract!vars
  <2>1. \A w \in Workers : run'[w] = "running" <=> run[w] = "running"
    BY <1>3 DEF Fire, Trigger
  <2>2. Inside' = Inside
    BY <2>1 DEF Inside
  <2> QED
    BY <1>0, <1>3, <2>2 DEF Fire
<1>4. ASSUME NEW w \in Workers, Begin(w)
      PROVE  Contract!Begin(w)
  <2>1. w \notin Inside /\ Inside' = Inside \union {w}
    BY <1>4 DEF Begin, Inside
  <2> QED
    BY <2>1, <1>4 DEF Begin, Inside, Contract!Begin
<1>5. ASSUME NEW w \in Workers, End(w)
      PROVE  Contract!End(w)
  <2>1. w \in Inside /\ Inside' = Inside \ {w}
    BY <1>5 DEF End, Inside
  <2> QED
    BY <2>1, <1>5 DEF End, Inside, Contract!End
<1>6. CASE Tick
  <2>1. Inside' = Inside
    BY <1>6 DEF Tick, Inside
  <2> QED
    BY <1>0, <1>6, <2>1 DEF Tick
<1>7. CASE Restart
  <2>1. Inside' = {}
    BY <1>7 DEF Restart, Inside
  <2> QED
    BY <2>1, <1>7 DEF Restart, Inside, Contract!Restart, Contract!Next
<1>8. CASE UNCHANGED coalescerVars
  <2>1. Inside' = Inside
    BY <1>8 DEF coalescerVars, Inside
  <2> QED
    BY <1>0, <1>8, <2>1 DEF coalescerVars
<1> QED
  BY <1>1, <1>2, <1>3, <1>4, <1>5, <1>6, <1>7, <1>8
     DEF CoalescerNext, Call, Contract!Next

LEMMA ContractInit == CoalescerInit => Contract!Init
BY DEF CoalescerInit, Contract!Init

\* The safety part of the contract.  What it adds over NoLostCall is that a request
\* is only ever taken off by f beginning or by a restart.
THEOREM CoalescerKeepsContract ==
    CoalescerSpec => Contract!Init /\ [][Contract!Next]_(Contract!vars)
BY ContractInit, ContractStep, CoalescerTyping, PTL DEF CoalescerSpec

-----------------------------------------------------------------------------
(* The shaping API.                                                        *)

LEMMA ParamsForm ==
    ASSUME NEW p
    PROVE  p \in Params <=> /\ DOMAIN p \subseteq Fields
                            /\ p \in [DOMAIN p -> 0..MaxUnits]
<1>1. ASSUME p \in Params
      PROVE  DOMAIN p \subseteq Fields /\ p \in [DOMAIN p -> 0..MaxUnits]
  <2>1. PICK F \in SUBSET Fields : p \in [F -> 0..MaxUnits]
    BY <1>1 DEF Params
  <2> QED
    BY <2>1
<1>2. ASSUME DOMAIN p \subseteq Fields, p \in [DOMAIN p -> 0..MaxUnits]
      PROVE  p \in Params
  BY <1>2 DEF Params
<1> QED
  BY <1>1, <1>2

LEMMA UnshapedParams == Unshaped \in Params /\ Valid(Unshaped)
<1>1. DOMAIN Unshaped = {} /\ Unshaped \in [{} -> 0..MaxUnits]
  BY DEF Unshaped
<1> QED
  BY <1>1, ParamsForm DEF Valid, InRange, Positive

LEMMA MergeParams ==
    ASSUME NEW cur \in Params, NEW upd \in Params
    PROVE  Merge(cur, upd) \in Params
<1>1. /\ DOMAIN cur \subseteq Fields /\ cur \in [DOMAIN cur -> 0..MaxUnits]
      /\ DOMAIN upd \subseteq Fields /\ upd \in [DOMAIN upd -> 0..MaxUnits]
  BY ParamsForm
<1>2. /\ DOMAIN Merge(cur, upd) = DOMAIN cur \union DOMAIN upd
      /\ Merge(cur, upd) \in [DOMAIN Merge(cur, upd) -> 0..MaxUnits]
  BY <1>1 DEF Merge
<1> QED
  BY <1>1, <1>2, ParamsForm

\* What is read back are parameters again.
LEMMA StoredParams ==
    ASSUME NEW p \in Params
    PROVE  /\ Stored(p) \in Params
           /\ DOMAIN Stored(p) = {g \in DOMAIN p : Kept[g][p[g]] > 0}
           /\ \A f \in DOMAIN Stored(p) : Stored(p)[f] = Kept[f][p[f]]
<1>1. DOMAIN p \subseteq Fields /\ p \in [DOMAIN p -> 0..MaxUnits]
  BY ParamsForm
<1>2. DOMAIN Stored(p) = {g \in DOMAIN p : Kept[g][p[g]] > 0}
  BY DEF Stored
<1>3. \A f \in DOMAIN Stored(p) : Stored(p)[f] = Kept[f][p[f]]
  BY <1>2 DEF Stored
<1>4. ASSUME NEW f \in DOMAIN Stored(p)
      PROVE  Stored(p)[f] \in 0..MaxUnits
  <2>1. f \in Fields /\ p[f] \in 0..MaxUnits
    BY <1>1, <1>2
  <2>2. Kept[f] \in [0..MaxUnits -> 0..MaxUnits]
    BY <2>1, ShapingApiAssumption DEF ShapingApiAssumption
  <2> QED
    BY <1>3, <2>1, <2>2
<1>5. Stored(p) \in [DOMAIN Stored(p) -> 0..MaxUnits]
  BY <1>4 DEF Stored
<1> QED
  BY <1>1, <1>2, <1>3, <1>5, ParamsForm

\* What is accepted is read back within its ranges, and is still accepted
\* unless the kernel cuts its delay.
LEMMA StoredValid ==
    ASSUME NEW p \in Params, Valid(p)
    PROVE  InRange(Stored(p)) /\ (~Cut(p) => Valid(Stored(p)))
<1>1. DOMAIN p \subseteq Fields /\ p \in [DOMAIN p -> 0..MaxUnits]
  BY ParamsForm
<1>2. ASSUME NEW f \in DOMAIN Stored(p)
      PROVE  /\ f \in Fields /\ f \in DOMAIN p /\ p[f] > 0
             /\ Stored(p)[f] > 0 /\ Stored(p)[f] \in Legal[f]
  <2>1. f \in DOMAIN p /\ Kept[f][p[f]] > 0 /\ Stored(p)[f] = Kept[f][p[f]]
    BY <1>2, StoredParams
  <2>2. f \in Fields /\ p[f] \in Legal[f] /\ p[f] \in Nat
    BY <1>1, <2>1, ShapingApiAssumption DEF Valid, InRange, ShapingApiAssumption
  <2>3. Kept[f][p[f]] \in Legal[f] \union {0} /\ Kept[f][0] = 0
    BY <2>2, ShapingApiAssumption DEF ShapingApiAssumption
  <2> QED
    BY <2>1, <2>2, <2>3
<1>3. InRange(Stored(p))
  BY <1>2 DEF InRange
<1>4. ASSUME ~Cut(p), Positive(Stored(p), "jitter")
      PROVE  Positive(Stored(p), "delay")
  <2>1. "jitter" \in DOMAIN p /\ p["jitter"] > 0
    BY <1>2, <1>4 DEF Positive
  <2>2. "delay" \in DOMAIN p /\ p["delay"] > 0
    BY <2>1 DEF Valid, Positive
  <2>3. Kept["delay"][p["delay"]] # 0
    BY <1>4, <2>2 DEF Cut, Positive
  <2>4. Kept["delay"][p["delay"]] \in Nat
    BY <1>1, <2>2, ShapingApiAssumption DEF ShapingApiAssumption
  <2>5. Kept["delay"][p["delay"]] > 0
    BY <2>3, <2>4
  <2>6. "delay" \in DOMAIN Stored(p)
    BY <2>2, <2>5, StoredParams
  <2> QED
    BY <1>2, <2>6 DEF Positive
<1> QED
  BY <1>3, <1>4 DEF Valid

-----------------------------------------------------------------------------
LEMMA ApiTypingStep == ApiTypeOK /\ [ApiNext]_apiVars => ApiTypeOK'
<1> SUFFICES ASSUME ApiTypeOK, [ApiNext]_apiVars
             PROVE  ApiTypeOK'
  OBVIOUS
<1> USE DEF ApiTypeOK
<1>0. \A i \in DOMAIN Baseline : i \in Ifaces /\ Stored(Baseline[i]) \in Params
  BY StoredParams, ShapingApiAssumption DEF ShapingApiAssumption
<1>1. ASSUME NEW i \in Ifaces, SkipPreshape(i) \/ Preshape(i)
      PROVE  ApiTypeOK'
  BY <1>0, <1>1 DEF SkipPreshape, Preshape, Applied
<1>2. CASE Preshaped \/ Serve
  BY <1>2 DEF Preshaped, Serve
<1>3. ASSUME NEW h \in Handlers, NEW i \in Ifaces, NEW upd \in Updates, PutRead(h, i, upd)
      PROVE  ApiTypeOK'
  <2>1. upd \in Params
    BY ShapingApiAssumption DEF ShapingApiAssumption
  <2>2. DOMAIN upd \in SUBSET Fields /\ Merge(kernel[i], upd) \in Params
    BY <2>1, ParamsForm, MergeParams
  <2> QED
    BY <1>3, <2>2 DEF PutRead
<1>4. ASSUME NEW h \in Handlers, PutApply(h)
      PROVE  ApiTypeOK'
  <2>1. req[h] \in [pc : {"apply"}, if : Ifaces, named : SUBSET Fields, doc : Params]
    BY <1>4 DEF PutApply, NoRequest
  <2>2. Stored(req[h].doc) \in Params
    BY <2>1, StoredParams
  <2> QED
    BY <1>4, <2>1, <2>2 DEF PutApply, Changed, Applied
<1>5. ASSUME NEW h \in Handlers, NEW i \in Ifaces, Delete(h, i)
      PROVE  ApiTypeOK'
  <2>1. Stored(Unshaped) \in Params
    BY UnshapedParams, StoredParams
  <2> QED
    BY <1>0, <1>5, <2>1 DEF Delete, Changed, Applied
<1>6. ASSUME NEW h \in Handlers, PutApplyFails(h) \/ Notify(h)
      PROVE  ApiTypeOK'
  BY <1>6 DEF PutApplyFails, Notify
<1>7. CASE Crash \/ Reboot
  BY <1>7, UnshapedParams DEF Crash, Reboot
<1>8. CASE UNCHANGED apiVars
  BY <1>8 DEF apiVars
<1> QED
  BY <1>1, <1>2, <1>3, <1>4, <1>5, <1>6, <1>7, <1>8 DEF ApiNext, Apply

LEMMA ApiInitTyping == ApiInit => ApiTypeOK /\ InvalidOnlyIfCut /\ PendingValid
BY UnshapedParams DEF ApiInit, ApiTypeOK, InvalidOnlyIfCut, PendingValid, NoRequest, Valid

\* Interfaces hold parameters, and handlers are where put and del can be.
THEOREM ApiTyping == ApiSpec => []ApiTypeOK
BY ApiInitTyping, ApiTypingStep, PTL DEF ApiSpec

-----------------------------------------------------------------------------
LEMMA AppliedSane ==
    ASSUME NEW i \in Ifaces, NEW p \in Params, Valid(p), Applied(i, p),
           kernel \in [Ifaces -> Params], InvalidOnlyIfCut
    PROVE  InvalidOnlyIfCut'
<1>1. InRange(Stored(p)) /\ (~Cut(p) => Valid(Stored(p)))
  BY StoredValid
<1>2. kernel'[i] = Stored(p) /\ (i \notin cut' => ~Cut(p))
  BY DEF Applied
<1>3. ASSUME NEW j \in Ifaces, j # i
      PROVE  kernel'[j] = kernel[j] /\ (j \in cut' <=> j \in cut)
  BY <1>3 DEF Applied
<1>4. InRange(kernel'[i]) /\ (i \notin cut' => Valid(kernel'[i]))
  BY <1>1, <1>2
<1>5. ASSUME NEW j \in Ifaces, j # i
      PROVE  InRange(kernel'[j]) /\ (j \notin cut' => Valid(kernel'[j]))
  BY <1>3, <1>5 DEF InvalidOnlyIfCut
<1> QED
  BY <1>4, <1>5 DEF InvalidOnlyIfCut

\* A step keeps what interfaces hold and what requests are about to apply
\* valid; the second is what the first needs of the interleaving.
LEMMA ValidStep ==
    ApiTypeOK /\ InvalidOnlyIfCut /\ PendingValid /\ [ApiNext]_apiVars
        => InvalidOnlyIfCut' /\ PendingValid'
<1> SUFFICES ASSUME ApiTypeOK, InvalidOnlyIfCut, PendingValid, [ApiNext]_apiVars
             PROVE  InvalidOnlyIfCut' /\ PendingValid'
  OBVIOUS
<1> USE DEF ApiTypeOK, PendingValid
<1>0. \A i \in DOMAIN Baseline : Baseline[i] \in Params /\ Valid(Baseline[i])
  BY ShapingApiAssumption DEF ShapingApiAssumption
<1>1. ASSUME UNCHANGED <<kernel, cut>>
      PROVE  InvalidOnlyIfCut'
  BY <1>1 DEF InvalidOnlyIfCut
<1>2. ASSUME NEW i \in Ifaces, SkipPreshape(i)
      PROVE  InvalidOnlyIfCut' /\ PendingValid'
  BY <1>1, <1>2 DEF SkipPreshape
<1>3. ASSUME NEW i \in Ifaces, Preshape(i)
      PROVE  InvalidOnlyIfCut' /\ PendingValid'
  BY <1>0, <1>3, AppliedSane DEF Preshape
<1>4. CASE Preshaped \/ Serve
  BY <1>1, <1>4 DEF Preshaped, Serve
<1>5. ASSUME NEW h \in Handlers, NEW i \in Ifaces, NEW upd \in Updates, PutRead(h, i, upd)
      PROVE  InvalidOnlyIfCut' /\ PendingValid'
  BY <1>1, <1>5 DEF PutRead
<1>6. ASSUME NEW h \in Handlers, PutApply(h)
      PROVE  InvalidOnlyIfCut' /\ PendingValid'
  <2>1. req[h] \in [pc : {"apply"}, if : Ifaces, named : SUBSET Fields, doc : Params]
    BY <1>6 DEF PutApply, NoRequest
  <2>2. Valid(req[h].doc) /\ Applied(req[h].if, req[h].doc)
    BY <1>6 DEF PutApply
  <2>3. InvalidOnlyIfCut'
    BY <2>1, <2>2, AppliedSane
  <2> QED
    BY <1>6, <2>3 DEF PutApply, Changed
<1>7. ASSUME NEW h \in Handlers, NEW i \in Ifaces, Delete(h, i)
      PROVE  InvalidOnlyIfCut' /\ PendingValid'
  <2>1. InvalidOnlyIfCut'
    BY <1>0, <1>7, UnshapedParams, AppliedSane DEF Delete
  <2> QED
    BY <1>7, <2>1 DEF Delete, Changed
<1>8. ASSUME NEW h \in Handlers, PutApplyFails(h) \/ Notify(h)
      PROVE  InvalidOnlyIfCut' /\ PendingValid'
  BY <1>1, <1>8 DEF PutApplyFails, Notify, NoRequest
<1>9. CASE Crash
  BY <1>1, <1>9 DEF Crash, NoRequest
<1>10. CASE Reboot
  BY <1>10, UnshapedParams DEF Reboot, NoRequest, InvalidOnlyIfCut, Valid
<1>11. CASE UNCHANGED apiVars
  BY <1>1, <1>11 DEF apiVars
<1> QED
  BY <1>2, <1>3, <1>4, <1>5, <1>6, <1>7, <1>8, <1>9, <1>10, <1>11 DEF ApiNext, Apply

\* Whatever requests, restarts and failures do to each other, no interface is
\* left with parameters Validate refuses but for a jitter whose delay the
\* kernel has cut.
THEOREM KernelStaysValid == ApiSpec => []InvalidOnlyIfCut
BY ApiInitTyping, ApiTyping, ValidStep, PTL DEF ApiSpec

=============================================================================
