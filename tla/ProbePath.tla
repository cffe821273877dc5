------------------------------ MODULE ProbePath -----------------------------
(***************************************************************************)
(* One ID-INT probe, from the choice of its path to the hops that the      *)
(* dashboard shows: sciond's paths sorted by the sidecar and offered to    *)
(* the picker, the packet there and back with what the border routers      *)
(* write into it (idint-probed/prober), and the view fabricd builds of it  *)
(* (buildVM in dashboard/backend/internal/idint/idint.go).                 *)
(*                                                                         *)
(* The ASes of a path are numbered from the source, 0.  Link k joins AS    *)
(* k - 1 and AS k.                                                         *)
(***************************************************************************)
EXTENDS HopIndex, SequencesExt

CONSTANTS Paths,        \* the paths sciond may know of, by fingerprint
          Shape,        \* [Paths -> Shapes]
          Latency,      \* [Paths -> the advertised latency between each two of its
                        \* interfaces that follow each other, or Unset]
          Known         \* the paths whose interfaces are in fabricd's topology

Unset == -1
NoPath == 0             \* the empty fingerprint

\* snet's metadata have one latency less than interfaces; only a path within an AS,
\* which is not probed, has none.
ASSUME PathAssumption ==
    /\ Paths \subseteq Nat \ {NoPath}
    /\ Shape \in [Paths -> Shapes]
    /\ \A p \in Paths : /\ Latency[p] \in Seq(Nat \cup {Unset})
                        /\ Len(Latency[p]) = Interfaces(Shape[p]) - 1
    /\ Known \subseteq Paths

VARIABLES offer,        \* what sciond knows now
          pin,          \* the fingerprint of the session
          pkt,          \* the probe under way
          shown         \* the hops of the last probe that gave any, and its path

vars == <<offer, pin, pkt, shown>>

Links(p) == LastAs(Shape[p])

-----------------------------------------------------------------------------
(* The order of the paths.                                                 *)

AnyUnset(p) == Unset \in ToSet(Latency[p])

\* The sum of what is known.
Total(p) ==
    LET sum[n \in 0 .. Len(Latency[p])] ==
            IF n = 0 THEN 0
            ELSE sum[n - 1] + (IF Latency[p][n] = Unset THEN 0 ELSE Latency[p][n])
    IN  sum[Len(Latency[p])]

\* Mutant of Better: an unset latency is one of nought.
BetterUnset(p, q) == Total(p) < Total(q) \/ (Total(p) = Total(q) /\ p < q)

\* Annotated paths first, by latency; then by length and fingerprint.
Better(p, q) ==
    \/ ~AnyUnset(p) /\ AnyUnset(q)
    \/ ~AnyUnset(p) /\ ~AnyUnset(q) /\ Total(p) < Total(q)
    \/ /\ AnyUnset(p) <=> AnyUnset(q)
       /\ AnyUnset(p) \/ Total(p) = Total(q)
       /\ Links(p) < Links(q) \/ (Links(p) = Links(q) /\ p < q)

\* In the i-th place is the path that i - 1 others are better than.
SortPaths(S) ==
    [i \in 1 .. Cardinality(S) |-> CHOOSE p \in S : Cardinality({q \in S : Better(q, p)}) = i - 1]

\* latencyTotal, for the picker: an unknown latency makes the total unknown.
LatencyTotal(p) == IF Latency[p] = <<>> \/ AnyUnset(p) THEN Unset ELSE Total(p)

\* The picker's list.
Listed == [i \in 1 .. Cardinality(offer) |->
              [path |-> SortPaths(offer)[i], latency |-> LatencyTotal(SortPaths(offer)[i])]]

\* Mutant of Via: a path that is gone is replaced by the best.
ViaAnother == IF pin \in offer THEN {pin} ELSE {p \in offer : p = SortPaths(offer)[1]}

\* The path a probe takes, if there is one: the pinned, or the best.
Via == IF pin = NoPath THEN {p \in offer : p = SortPaths(offer)[1]} ELSE {pin} \cap offer

-----------------------------------------------------------------------------
(* The packet.  Records are told by their hop field; by and over are history:  *)
(* the AS that wrote the record and the link it left by, 0 if none.        *)

NoPkt == [pc |-> "idle"]
NoHops == [path |-> NoPath, hops |-> <<>>]

Init ==
    /\ offer = {} /\ pin = NoPath
    /\ pkt = NoPkt /\ shown = NoHops

\* The hop fields of the AS at place a, of shape s.
FieldsOf(s, a) == {i \in 0 .. HopFields(s) - 1 : AsAt(s, i) = a}
First(S) == CHOOSE x \in S : \A y \in S : x <= y
Final(S) == CHOOSE x \in S : \A y \in S : x >= y

\* What the routers of an AS on a way of shape s may write: nothing, if they do
\* not take part or the stack is full; as the packet comes in; as it goes out.
Written(s, a, by, over) ==
    LET in  == [hop |-> First(FieldsOf(s, a)), egress |-> FALSE, by |-> by, over |-> 0]
        out == [hop |-> Final(FieldsOf(s, a)), egress |-> TRUE, by |-> by, over |-> over]
    IN  {<<>>, <<in>>} \cup (IF over = 0 THEN {} ELSE {<<out>>, <<in, out>>})

Probe ==
    /\ pkt = NoPkt
    /\ \E p \in Via :
          pkt' = [pc |-> "there", path |-> p, at |-> 0, fwd |-> <<>>, rev |-> <<>>]
    /\ UNCHANGED <<offer, pin, shown>>

There ==
    /\ pkt.pc = "there"
    /\ LET s == Shape[pkt.path]
           end == pkt.at = LastAs(s)
       IN  \E w \in Written(s, pkt.at, pkt.at, IF end THEN 0 ELSE pkt.at + 1) :
              pkt' = [pc |-> IF end THEN "back" ELSE "there", path |-> pkt.path,
                      at |-> IF end THEN pkt.at ELSE pkt.at + 1, fwd |-> pkt.fwd \o w, rev |-> pkt.rev]
    /\ UNCHANGED <<offer, pin, shown>>

\* On its way back the packet has the path reversed.
Back ==
    /\ pkt.pc = "back" /\ pkt.at > 0
    /\ LET s == Shape[pkt.path]
       IN  \E w \in Written(Reversed(s), LastAs(s) - pkt.at, pkt.at, pkt.at) :
              pkt' = [pc |-> "back", path |-> pkt.path, at |-> pkt.at - 1,
                      fwd |-> pkt.fwd, rev |-> pkt.rev \o w]
    /\ UNCHANGED <<offer, pin, shown>>

\* ErrTimeout, or a report that does not verify: what is shown stays.
Lost ==
    /\ pkt # NoPkt
    /\ pkt' = NoPkt
    /\ UNCHANGED <<offer, pin, shown>>

-----------------------------------------------------------------------------
(* What is made of the reports.                                            *)

\* Records, with the AS each hop field is taken for.
Records(stack, ia) ==
    [i \in 1 .. Len(stack) |-> [ia |-> ia[stack[i].hop], egress |-> stack[i].egress,
                                by |-> stack[i].by, over |-> stack[i].over]]

\* egressRecords: those written as the packet went out, in their order.
Egress(recs) ==
    LET out[n \in 0 .. Len(recs)] ==
            IF n = 0 THEN <<>>
            ELSE IF recs[n].egress THEN Append(out[n - 1], recs[n]) ELSE out[n - 1]
    IN  out[Len(recs)]

\* Mutant of Hops: the way back is not turned round.
HopsAsCome(p, fwd, rev) ==
    IF Len(Egress(fwd)) = Links(p) THEN Egress(fwd)
    ELSE IF Len(Egress(rev)) = Links(p) THEN Egress(rev)
    ELSE <<>>

\* Mutant of Hops: as many as there are links at most.
HopsUpTo(p, fwd, rev) ==
    IF Len(Egress(fwd)) > 0 THEN Egress(fwd) ELSE Reverse(Egress(rev))

\* buildVM: the forward records if there is one for every link; or else those of
\* the way back, last first, if there is one for every link; or else an error.
Hops(p, fwd, rev) ==
    IF Len(Egress(fwd)) = Links(p) THEN Egress(fwd)
    ELSE IF Len(Egress(rev)) = Links(p) THEN Reverse(Egress(rev))
    ELSE <<>>

Home ==
    /\ pkt.pc = "back" /\ pkt.at = 0
    /\ LET s == Shape[pkt.path]
           fields == 0 .. HopFields(s) - 1
           hops == Hops(pkt.path, Records(pkt.fwd, [i \in fields |-> FwdIA(s, i)]),
                                  Records(pkt.rev, [i \in fields |-> RevIA(s, i)]))
       IN  shown' = IF pkt.path \in Known /\ hops # <<>>
                    THEN [path |-> pkt.path, hops |-> hops] ELSE shown
    /\ pkt' = NoPkt
    /\ UNCHANGED <<offer, pin>>

-----------------------------------------------------------------------------
(* sciond and the viewers.                                                 *)

Beacon ==
    /\ \E p \in Paths : offer' = (offer \ {p}) \cup ({p} \ offer)
    /\ UNCHANGED <<pin, pkt, shown>>

\* A viewer sets a session, for the best path or for one it was offered once; a probe
\* for the earlier session is no longer waited for.
Set ==
    /\ pin' \in {NoPath} \cup Paths
    /\ pkt' = NoPkt /\ shown' = NoHops
    /\ UNCHANGED offer

Next == Beacon \/ Set \/ Probe \/ There \/ Back \/ Lost \/ Home

Spec == Init /\ [][Next]_vars

-----------------------------------------------------------------------------
TypeOK ==
    /\ offer \subseteq Paths
    /\ pin \in Paths \cup {NoPath}
    /\ pkt # NoPkt =>
          /\ pkt.path \in Paths /\ pkt.at \in 0 .. Links(pkt.path)
          /\ \A i \in 1 .. Len(pkt.fwd) : InRange(Shape[pkt.path], pkt.fwd[i].hop)
          /\ \A i \in 1 .. Len(pkt.rev) : InRange(Reversed(Shape[pkt.path]), pkt.rev[i].hop)
    /\ shown.path \in Paths \cup {NoPath}

\* "honest attribution" (idint.go, buildVM): what is shown of a link was written by
\* a router that sent the probe over it, and carries the AS of that router; either
\* all links of the path have it or nothing is shown.
HopsOnTheirLinks ==
    /\ shown.path # NoPath => Len(shown.hops) = Links(shown.path)
    /\ \A k \in 1 .. Len(shown.hops) :
          /\ shown.hops[k].over = k
          /\ shown.hops[k].ia = shown.hops[k].by

\* A pinned session is never shown another path.
PinIsKept ==
    pin # NoPath =>
        /\ shown.path \in {pin, NoPath}
        /\ pkt # NoPkt => pkt.path = pin

\* An unpinned probe leaves by the path that a list made now marks as the best (idint.go,
\* PathOptions), and by the totals the list shows none of the others is faster.
BestIsProbed ==
    [][pkt = NoPkt /\ pkt' # NoPkt /\ pin = NoPath =>
          /\ pkt'.path = Listed[1].path
          /\ \A i \in 1 .. Len(Listed) :
                Listed[i].latency = Unset \/ Listed[1].latency \in 0 .. Listed[i].latency]_vars
=============================================================================
