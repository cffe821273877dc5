----------------------------- MODULE ShapingApi -----------------------------
(***************************************************************************)
(* linkd's REST handlers over the root netem qdisc of each interface       *)
(* (linkd/internal/api/api.go, linkd/internal/shape) and the start of the  *)
(* daemon up to the moment it serves (linkd/cmd/scion-linkd/main.go).      *)
(*                                                                         *)
(* A qdisc's parameters are a partial function: the fields that are set,   *)
(* in the smallest unit a request can express.  What is read back of them  *)
(* has gone through the units of the kernel and those of its clock; an     *)
(* unset field and a zero read alike.                                      *)
(***************************************************************************)
EXTENDS Naturals, TLC

CONSTANTS Ifaces,       \* the managed interfaces
          Handlers,     \* HTTP handler goroutines
          Legal,        \* [Fields -> the values Validate accepts]
          Kept,         \* [Fields -> [value applied -> value read back]]
          Baseline,     \* partial function Ifaces -> Params: story profile
          Updates,      \* the bodies clients send with PUT
          MaxUnits      \* no field of a request is larger

Fields == {"delay", "jitter", "loss", "rate"}
Params == UNION {[F -> 0..MaxUnits] : F \in SUBSET Fields}
Unshaped == [f \in {} |-> 0]

VARIABLES life,         \* how far the daemon is: preshape, converge, serve
          unvisited,    \* interfaces preshape has not come to
          kernel,       \* what shaper.Get reads from each interface
          req,          \* the request each handler serves
          cut           \* history: the interfaces whose latest parameters
                        \* had a delay too short for the kernel

apiVars == <<life, unvisited, kernel, req, cut>>

NoRequest == [pc |-> "idle"]

InRange(p) == \A f \in DOMAIN p : p[f] \in Legal[f]
Positive(p, f) == f \in DOMAIN p /\ p[f] > 0

\* shape.Validate
Valid(p) == InRange(p) /\ (Positive(p, "jitter") => Positive(p, "delay"))

\* shape.Merge
Merge(cur, upd) ==
    [f \in DOMAIN cur \union DOMAIN upd |->
        IF f \in DOMAIN upd THEN upd[f] ELSE cur[f]]

\* Params.Empty
Empty(p) == \A f \in DOMAIN p : f # "rate" /\ p[f] = 0

\* What Get reads after Apply: Apply truncates to the kernel's units, Get takes
\* a zero for a field that is not set.
Stored(p) ==
    [f \in {g \in DOMAIN p : Kept[g][p[g]] > 0} |-> Kept[f][p[f]]]

\* Apply takes a delay below the kernel's microsecond to none.
Cut(p) == Positive(p, "delay") /\ Kept["delay"][p["delay"]] = 0

\* shaper.Apply
Applied(i, p) ==
    /\ kernel' = [kernel EXCEPT ![i] = Stored(p)]
    /\ cut' = IF Cut(p) THEN cut \union {i} ELSE cut \ {i}

ASSUME ShapingApiAssumption ==
    /\ MaxUnits \in Nat
    /\ Legal \in [Fields -> SUBSET (0..MaxUnits)]
    /\ Kept \in [Fields -> [0..MaxUnits -> 0..MaxUnits]]
    /\ \A f \in Fields : Kept[f][0] = 0
    /\ \A f \in Fields : \A v \in Legal[f] : Kept[f][v] \in Legal[f] \union {0}
    /\ Updates \subseteq Params
    /\ DOMAIN Baseline \subseteq Ifaces
    /\ \A i \in DOMAIN Baseline : Baseline[i] \in Params /\ Valid(Baseline[i])

ApiInit ==
    /\ life = "preshape"
    /\ unvisited = Ifaces
    /\ kernel = [i \in Ifaces |-> Unshaped]
    /\ req = [h \in Handlers |-> NoRequest]
    /\ cut = {}

-----------------------------------------------------------------------------
(* Start of the daemon.                                                    *)

\* A failing Get or Apply leaves the interface as it is, as does a qdisc that
\* reads back as shaping.
SkipPreshape(i) ==
    /\ life = "preshape" /\ i \in unvisited
    /\ unvisited' = unvisited \ {i}
    /\ UNCHANGED <<life, kernel, req, cut>>

Preshape(i) ==
    /\ life = "preshape" /\ i \in unvisited
    /\ i \in DOMAIN Baseline
    /\ Empty(kernel[i])
    /\ unvisited' = unvisited \ {i}
    /\ Applied(i, Baseline[i])
    /\ UNCHANGED <<life, req>>

Preshaped ==
    /\ life = "preshape" /\ unvisited = {}
    /\ life' = "converge"
    /\ UNCHANGED <<unvisited, kernel, req, cut>>

\* ListenAndServe, once main has run regen.
Serve ==
    /\ life = "converge"
    /\ life' = "serve"
    /\ UNCHANGED <<unvisited, kernel, req, cut>>

-----------------------------------------------------------------------------
(* Requests.  One that fails before it changes anything takes no step.     *)

\* put: read the interface, merge, validate.  The interface can change until
\* the merged parameters are applied: no lock spans the two.
PutRead(h, i, upd) ==
    /\ life = "serve" /\ req[h] = NoRequest
    /\ Valid(Merge(kernel[i], upd))
    /\ req' = [req EXCEPT ![h] =
                 [pc |-> "apply", if |-> i, named |-> DOMAIN upd,
                  doc |-> Merge(kernel[i], upd)]]
    /\ UNCHANGED <<life, unvisited, kernel, cut>>

Changed(i) == [pc |-> "changed", if |-> i]

\* Mutants of PutApply: it applies the request's own fields over what the
\* interface holds by now; it does not tell the writers.
PutApplyOwnFields(h) ==
    /\ req[h].pc = "apply"
    /\ LET r == req[h]
       IN Applied(r.if, Merge(kernel[r.if], [f \in r.named |-> r.doc[f]]))
    /\ req' = [req EXCEPT ![h] = Changed(req[h].if)]
    /\ UNCHANGED <<life, unvisited>>

PutApplySilently(h) ==
    /\ req[h].pc = "apply"
    /\ Applied(req[h].if, req[h].doc)
    /\ req' = [req EXCEPT ![h] = NoRequest]
    /\ UNCHANGED <<life, unvisited>>

PutApply(h) ==
    /\ req[h].pc = "apply"
    /\ Applied(req[h].if, req[h].doc)
    /\ req' = [req EXCEPT ![h] = Changed(req[h].if)]
    /\ UNCHANGED <<life, unvisited>>

PutApplyFails(h) ==
    /\ req[h].pc = "apply"
    /\ req' = [req EXCEPT ![h] = NoRequest]
    /\ UNCHANGED <<life, unvisited, kernel, cut>>

\* del: restore the story baseline, or clear an interface that has none.
Delete(h, i) ==
    /\ life = "serve" /\ req[h] = NoRequest
    /\ Applied(i, IF i \in DOMAIN Baseline THEN Baseline[i] ELSE Unshaped)
    /\ req' = [req EXCEPT ![h] = Changed(i)]
    /\ UNCHANGED <<life, unvisited>>

\* changed(): tell the metadata writers, then respond.
Notify(h) ==
    /\ req[h].pc = "changed"
    /\ req' = [req EXCEPT ![h] = NoRequest]
    /\ UNCHANGED <<life, unvisited, kernel, cut>>

-----------------------------------------------------------------------------
\* The daemon restarts: requests die with it, the qdiscs stay.
Crash ==
    /\ life' = "preshape"
    /\ unvisited' = Ifaces
    /\ req' = [h \in Handlers |-> NoRequest]
    /\ UNCHANGED <<kernel, cut>>

\* The container restarts: the qdiscs are gone too.
Reboot ==
    /\ life' = "preshape"
    /\ unvisited' = Ifaces
    /\ req' = [h \in Handlers |-> NoRequest]
    /\ kernel' = [i \in Ifaces |-> Unshaped]
    /\ cut' = {}

Apply(h) == PutApply(h) \/ \E i \in Ifaces : Delete(h, i)

ApiNext ==
    \/ \E i \in Ifaces : SkipPreshape(i) \/ Preshape(i)
    \/ Preshaped \/ Serve
    \/ \E h \in Handlers :
          \/ \E i \in Ifaces, upd \in Updates : PutRead(h, i, upd)
          \/ Apply(h) \/ PutApplyFails(h) \/ Notify(h)
    \/ Crash \/ Reboot

ApiSpec == ApiInit /\ [][ApiNext]_apiVars

-----------------------------------------------------------------------------
ApiTypeOK ==
    /\ life \in {"preshape", "converge", "serve"}
    /\ unvisited \in SUBSET Ifaces
    /\ kernel \in [Ifaces -> Params]
    /\ cut \in SUBSET Ifaces
    /\ req \in [Handlers ->
          {NoRequest}
          \union [pc : {"apply"}, if : Ifaces, named : SUBSET Fields, doc : Params]
          \union [pc : {"changed"}, if : Ifaces]]

\* Every interface reads back as parameters Validate accepts, jitter never
\* without delay (shape.go Validate, netlink.go Apply).
KernelValid == \A i \in Ifaces : Valid(kernel[i])

\* However requests, restarts and failures interleave, every interface is
\* within the ranges of Validate, and it has a jitter without a delay only
\* if the kernel cut the delay that was applied with it: each request applies
\* one whole document, never its own fields over what another request has
\* meanwhile applied (api.go put).
InvalidOnlyIfCut ==
    \A i \in Ifaces : InRange(kernel[i]) /\ (i \notin cut => Valid(kernel[i]))

\* A request that is about to be applied was validated, although what it was
\* merged with need not be what the interface holds any more (api.go put).
PendingValid ==
    \A h \in Handlers : req[h].pc = "apply" => Valid(req[h].doc)

=============================================================================
