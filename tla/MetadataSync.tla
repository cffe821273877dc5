---------------------------- MODULE MetadataSync ----------------------------
(***************************************************************************)
(* linkd as a whole: the shaping API, the coalescer behind its OnChange,   *)
(* regen (linkd/cmd/scion-linkd/main.go), the writers it feeds             *)
(* (staticinfo.Writer for the control service, topowriter.Writer for the   *)
(* border router) and the two services that reload what is written.        *)
(*                                                                         *)
(* A document is what one writer publishes of each interface: the live     *)
(* value of a field that is shaped, in the document's units, and the base  *)
(* document's value otherwise.                                             *)
(***************************************************************************)
EXTENDS ShapingApi, Coalescer, Sequences

CONSTANTS Main,         \* the goroutine of main, which regenerates once
          Writers,      \* the writers regen calls, in order
          Shows,        \* [writer -> [field it publishes ->
                        \*     [live value -> number in the document]]]
          Base,         \* [Ifaces -> [Fields -> the base document's value]]
          Signalled,    \* the writers that have a unit to signal
          MaxCrashes    \* bounds the crashes and reboots of a behaviour

VARIABLES gen,          \* how far each goroutine is in regen
          file,         \* the document at each writer's OutPath
          metaFail, hupFail,    \* each writer's status
          hup,          \* the service has a SIGHUP to act on
          loaded,       \* the document each service runs with
          crashes,
          unseen,       \* history: no regen came to the interface since it changed
          raced,        \* history: regens overlapped since one began alone
          failed,       \* history: the writers that a failed read or write
                        \* concerned since one began alone
          hupLost       \* history: whether the SIGHUP for the latest rewrite
                        \* was lost, and the status said so

syncVars == <<gen, file, metaFail, hupFail, hup, loaded>>
histVars == <<crashes, unseen, raced, failed, hupLost>>
vars == <<apiVars, coalescerVars, syncVars, histVars>>

Goroutines == Workers \union {Main}
WriterSet == {Writers[k] : k \in DOMAIN Writers}

ASSUME MetadataSyncAssumption ==
    /\ Callers = Handlers
    /\ Main \notin Workers
    /\ Writers \in Seq(WriterSet) /\ Writers # <<>>
    /\ DOMAIN Shows = WriterSet
    /\ \A wr \in WriterSet :
          /\ DOMAIN Shows[wr] \subseteq Fields
          /\ Shows[wr] \in [DOMAIN Shows[wr] -> [0..MaxUnits -> 0..MaxUnits]]
    /\ Base \in [Ifaces -> [Fields -> 0..MaxUnits]]
    /\ Signalled \subseteq WriterSet
    /\ MaxCrashes \in Nat

NotInRegen == [pc |-> "none"]
InRegen(w) == gen[w].pc # "none"

NothingRead == [i \in {} |-> Unshaped]
Note(live, i, p) ==
    [j \in DOMAIN live \union {i} |-> IF j = i THEN p ELSE live[j]]

\* Writer.merged
Doc(wr, live) ==
    [i \in Ifaces |-> [f \in DOMAIN Shows[wr] |->
        IF i \in DOMAIN live /\ f \in DOMAIN live[i]
        THEN Shows[wr][f][live[i][f]] ELSE Base[i][f]]]

\* The mutex of a writer is held over more than one step only for the signal.
Free(wr) == \A w \in Goroutines :
               gen[w].pc = "hup" => Writers[gen[w].next] # wr

Init ==
    /\ ApiInit
    /\ CoalescerInit
    /\ gen = [w \in Goroutines |-> NotInRegen]
    /\ file = [wr \in WriterSet |-> Doc(wr, NothingRead)]
    /\ loaded = file
    /\ metaFail = [wr \in WriterSet |-> FALSE]
    /\ hupFail = [wr \in WriterSet |-> FALSE]
    /\ hup = [wr \in WriterSet |-> FALSE]
    /\ crashes = 0
    /\ unseen = [i \in Ifaces |-> TRUE]
    /\ raced = FALSE
    /\ failed = {}
    /\ hupLost = [wr \in WriterSet |-> "no"]

-----------------------------------------------------------------------------
(* The API, with its steps that involve the coalescer.                     *)

Touch(i) == unseen' = [unseen EXCEPT ![i] = TRUE]
KeepSync == UNCHANGED <<syncVars, crashes, raced, failed, hupLost>>

PreshapeStep(i) ==
    /\ \/ SkipPreshape(i) /\ UNCHANGED unseen
       \/ Preshape(i) /\ Touch(i)
    /\ KeepSync /\ UNCHANGED coalescerVars

\* A handler that runs f is not free for another request.
Request(h) ==
    /\ run[h] = "idle"
    /\ \E i \in Ifaces :
          \/ \E upd \in Updates : PutRead(h, i, upd) /\ UNCHANGED unseen
          \/ Delete(h, i) /\ Touch(i)
    /\ KeepSync /\ UNCHANGED coalescerVars

ApplyStep(h) ==
    /\ \/ PutApply(h) /\ Touch(req[h].if)
       \/ PutApplyFails(h) /\ UNCHANGED unseen
    /\ KeepSync /\ UNCHANGED coalescerVars

NotifyStep(h) ==
    /\ Notify(h) /\ Call(h)
    /\ KeepSync /\ UNCHANGED unseen

Clock ==
    /\ Fire \/ Tick
    /\ KeepSync /\ UNCHANGED <<apiVars, unseen>>

-----------------------------------------------------------------------------
(* regen: read every interface, then run the writers one after the other.  *)

\* Goroutine w enters regen.
Enter(w) ==
    /\ gen' = [gen EXCEPT ![w] =
                 [pc |-> "read", todo |-> Ifaces, live |-> NothingRead, next |-> 1]]
    /\ raced' = \E v \in Goroutines : InRegen(v)
    /\ failed' = IF raced' THEN failed ELSE {}
    /\ UNCHANGED <<file, metaFail, hupFail, hup, loaded, crashes, unseen, hupLost>>

EnterMain == Preshaped /\ Enter(Main) /\ UNCHANGED coalescerVars
EnterWorker(w) == Begin(w) /\ Enter(w) /\ UNCHANGED apiVars

\* Mutant of Visited: the loop is left after the first interface.
VisitedBreaks(g, i, live) ==
    [pc |-> "write", todo |-> {}, live |-> live, next |-> g.next]

\* The loop is through with interface i and has read live.
Visited(g, i, live) ==
    [pc |-> IF g.todo = {i} THEN "write" ELSE "read",
     todo |-> g.todo \ {i}, live |-> live, next |-> g.next]

\* shaper.Get in goroutine w; an interface that cannot be read is left out.
Read(w, i) ==
    /\ gen[w].pc = "read" /\ i \in gen[w].todo
    /\ \/ /\ gen' = [gen EXCEPT ![w] = Visited(@, i, Note(@.live, i, kernel[i]))]
          /\ UNCHANGED failed
       \/ /\ gen' = [gen EXCEPT ![w] = Visited(@, i, @.live)]
          /\ failed' = WriterSet
    /\ unseen' = [unseen EXCEPT ![i] = FALSE]
    /\ UNCHANGED <<apiVars, coalescerVars, file, metaFail, hupFail, hup, loaded,
                   crashes, raced, hupLost>>

\* Mutant of Onward: only the first writer is called.
OnwardStops(g) == [g EXCEPT !.pc = "done"]

\* A regen is through with its writer and goes on to the next one.
Onward(g) ==
    IF g.next = Len(Writers) THEN [g EXCEPT !.pc = "done"]
    ELSE [g EXCEPT !.pc = "write", !.next = g.next + 1]

Proceed(w) == gen' = [gen EXCEPT ![w] = Onward(@)]

\* Mutant of NotWritten: regen returns when a writer fails.
NotWrittenReturns(w, wr) ==
    /\ metaFail' = [metaFail EXCEPT ![wr] = TRUE]
    /\ hupFail' = [hupFail EXCEPT ![wr] = TRUE]
    /\ failed' = failed \union {wr}
    /\ gen' = [gen EXCEPT ![w].pc = "done"]
    /\ UNCHANGED <<file, hupLost>>

\* The document cannot be built, or not be written.
NotWritten(w, wr) ==
    /\ metaFail' = [metaFail EXCEPT ![wr] = TRUE]
    /\ hupFail' = [hupFail EXCEPT ![wr] = TRUE]
    /\ failed' = failed \union {wr}
    /\ Proceed(w)
    /\ UNCHANGED <<file, hupLost>>

\* The document is found on disk, whether or not its service was told.
AlreadyWritten(w, wr, doc) ==
    /\ file[wr] = doc
    /\ metaFail' = [metaFail EXCEPT ![wr] = FALSE]
    /\ hupFail' = [hupFail EXCEPT ![wr] = FALSE]
    /\ hupLost' = [hupLost EXCEPT ![wr] = IF @ = "no" THEN "no" ELSE "forgotten"]
    /\ Proceed(w)
    /\ UNCHANGED <<file, failed>>

\* Mutant of Written: the service is not told.
WrittenSilently(w, wr, doc) ==
    /\ file' = [file EXCEPT ![wr] = doc]
    /\ metaFail' = [metaFail EXCEPT ![wr] = FALSE]
    /\ Proceed(w) /\ hupFail' = [hupFail EXCEPT ![wr] = FALSE]
    /\ UNCHANGED <<failed, hupLost>>

\* Also taken for a document on disk that cannot be read.
Written(w, wr, doc) ==
    /\ file' = [file EXCEPT ![wr] = doc]
    /\ metaFail' = [metaFail EXCEPT ![wr] = FALSE]
    /\ IF wr \in Signalled
       THEN gen' = [gen EXCEPT ![w] = [@ EXCEPT !.pc = "hup"]] /\ UNCHANGED hupFail
       ELSE Proceed(w) /\ hupFail' = [hupFail EXCEPT ![wr] = FALSE]
    /\ UNCHANGED <<failed, hupLost>>

\* Write, up to the signal.
Write(w) ==
    /\ gen[w].pc = "write"
    /\ LET wr == Writers[gen[w].next]
           doc == Doc(wr, gen[w].live)
       IN /\ Free(wr)
          /\ NotWritten(w, wr) \/ AlreadyWritten(w, wr, doc) \/ Written(w, wr, doc)
    /\ UNCHANGED <<apiVars, coalescerVars, hup, loaded, crashes, unseen, raced>>

\* Mutant of Signal: the status does not tell that it failed.
SignalUnreported(w) ==
    /\ gen[w].pc = "hup"
    /\ LET wr == Writers[gen[w].next]
       IN \E delivered \in BOOLEAN :
             /\ hup' = [hup EXCEPT ![wr] = @ \/ delivered]
             /\ hupLost' = [hupLost EXCEPT ![wr] = IF delivered THEN "no" ELSE "reported"]
             /\ hupFail' = [hupFail EXCEPT ![wr] = FALSE]
    /\ Proceed(w)
    /\ UNCHANGED <<apiVars, coalescerVars, file, metaFail, loaded, crashes,
                   unseen, raced, failed>>

\* DefaultSignal: a systemctl that fails or runs into signalTimeout may have
\* delivered the signal nevertheless.
Signal(w) ==
    /\ gen[w].pc = "hup"
    /\ LET wr == Writers[gen[w].next]
       IN \E delivered, err \in BOOLEAN :
             /\ delivered \/ err
             /\ hup' = [hup EXCEPT ![wr] = @ \/ delivered]
             /\ hupLost' = [hupLost EXCEPT ![wr] = IF delivered THEN "no" ELSE "reported"]
             /\ hupFail' = [hupFail EXCEPT ![wr] = err]
    /\ Proceed(w)
    /\ UNCHANGED <<apiVars, coalescerVars, file, metaFail, loaded, crashes,
                   unseen, raced, failed>>

Leave(w) ==
    /\ gen[w].pc = "done"
    /\ gen' = [gen EXCEPT ![w] = NotInRegen]
    /\ IF w = Main THEN Serve /\ UNCHANGED coalescerVars
                   ELSE End(w) /\ UNCHANGED apiVars
    /\ UNCHANGED <<file, metaFail, hupFail, hup, loaded, histVars>>

-----------------------------------------------------------------------------
(* The services, and failures of the machines.                             *)

\* The service acts on its SIGHUP.
Reload(wr) ==
    /\ hup[wr]
    /\ hup' = [hup EXCEPT ![wr] = FALSE]
    /\ loaded' = [loaded EXCEPT ![wr] = file[wr]]
    /\ UNCHANGED <<apiVars, coalescerVars, gen, file, metaFail, hupFail, histVars>>

NewProcess ==
    /\ crashes < MaxCrashes
    /\ crashes' = crashes + 1
    /\ Restart
    /\ gen' = [w \in Goroutines |-> NotInRegen]
    /\ metaFail' = [wr \in WriterSet |-> FALSE]
    /\ hupFail' = [wr \in WriterSet |-> FALSE]
    /\ raced' = FALSE
    /\ failed' = {}
    /\ UNCHANGED file

\* linkd restarts; a signal it has not sent is lost, and what its status said.
CrashStep ==
    /\ Crash /\ NewProcess
    /\ hupLost' = [wr \in WriterSet |->
                      IF hupLost[wr] = "no" /\ Free(wr) THEN "no" ELSE "forgotten"]
    /\ UNCHANGED <<hup, loaded, unseen>>

\* The container restarts, and the services in it.
RebootStep ==
    /\ Reboot /\ NewProcess
    /\ unseen' = [i \in Ifaces |-> TRUE]
    /\ loaded' = file
    /\ hup' = [wr \in WriterSet |-> FALSE]
    /\ hupLost' = [wr \in WriterSet |-> "no"]

Next ==
    \/ \E i \in Ifaces : PreshapeStep(i)
    \/ EnterMain
    \/ \E h \in Handlers : Request(h) \/ ApplyStep(h) \/ NotifyStep(h)
    \/ \E w \in Workers : EnterWorker(w)
    \/ \E w \in Goroutines : \/ \E i \in Ifaces : Read(w, i)
                             \/ Write(w) \/ Signal(w) \/ Leave(w)
    \/ Clock
    \/ \E wr \in WriterSet : Reload(wr)
    \/ CrashStep \/ RebootStep

\* Goroutines are scheduled, timers expire and systemctl is killed when it
\* runs into its timeout; a Go mutex does not starve a waiter, hence strong
\* fairness for Write.  Nobody must send requests, and crashes are bounded.
Fairness ==
    /\ \A i \in Ifaces : WF_vars(PreshapeStep(i))
    /\ WF_vars(EnterMain)
    /\ \A h \in Handlers : WF_vars(ApplyStep(h)) /\ WF_vars(NotifyStep(h))
    /\ \A w \in Workers : WF_vars(EnterWorker(w))
    /\ \A w \in Goroutines :
          /\ \A i \in Ifaces : WF_vars(Read(w, i))
          /\ SF_vars(Write(w)) /\ WF_vars(Signal(w)) /\ WF_vars(Leave(w))
    /\ WF_vars(Clock)

Spec == Init /\ [][Next]_vars
FairSpec == Spec /\ Fairness

-----------------------------------------------------------------------------
Lives == UNION {[S -> Params] : S \in SUBSET Ifaces}
Docs(wr) == [Ifaces -> [DOMAIN Shows[wr] -> 0..MaxUnits]]
Regens == [pc : {"read", "write", "hup", "done"}, todo : SUBSET Ifaces,
           live : Lives, next : DOMAIN Writers]

GenTypeOK == gen \in [Goroutines -> {NotInRegen} \union Regens]

FileTypeOK ==
    /\ DOMAIN file = WriterSet /\ DOMAIN loaded = WriterSet
    /\ \A wr \in WriterSet : file[wr] \in Docs(wr) /\ loaded[wr] \in Docs(wr)

FlagTypeOK ==
    /\ metaFail \in [WriterSet -> BOOLEAN] /\ hupFail \in [WriterSet -> BOOLEAN]
    /\ hup \in [WriterSet -> BOOLEAN]
    /\ hupLost \in [WriterSet -> {"no", "reported", "forgotten"}]
    /\ unseen \in [Ifaces -> BOOLEAN]
    /\ raced \in BOOLEAN /\ failed \in SUBSET WriterSet
    /\ crashes \in 0..MaxCrashes

SyncTypeOK == GenTypeOK /\ FileTypeOK /\ FlagTypeOK

TypeOK == ApiTypeOK /\ CoalescerTypeOK /\ SyncTypeOK

\* Some goroutine, or the dirty flag, will still come to interface i.
WillBeSeen(i) ==
    \/ life = "preshape"
    \/ \E h \in Handlers : req[h] = Changed(i)
    \/ dirty
    \/ \E w \in Workers : run[w] = "start"
    \/ \E w \in Goroutines : gen[w].pc = "read" /\ i \in gen[w].todo

\* No change of a link's shaping is forgotten on its way from the handler
\* through changed(), the coalescer and regen's loop: until a regen comes to
\* the interface after the change, one is bound to (api.go put and del,
\* coalesce.go, main.go regen).
NoChangeForgotten == \A i \in Ifaces : unseen[i] => WillBeSeen(i)

\* Nothing is under way in linkd.
Quiet ==
    /\ life = "serve" /\ ~dirty
    /\ \A h \in Handlers : req[h] = NoRequest
    /\ \A w \in Workers : run[w] = "idle"

Published(wr) == file[wr] = Doc(wr, kernel)

\* At rest every document tells what the links actually do, unless regens
\* overlapped, a read failed, or a write of this document did, after the last
\* one began alone: a writer that fails takes no other with it (main.go regen,
\* staticinfo.go and topowriter.go Write).
PublishedAtRest ==
    Quiet /\ ~raced => \A wr \in WriterSet \ failed : Published(wr)

\* "advertised beacon metadata tracks what the link actually does"
\* (staticinfo.go package comment), overlapping regens included: the mutex of
\* Write is said to be what they need (coalesce.go).
PublishedAtRestDespiteRaces ==
    Quiet => \A wr \in WriterSet \ failed : Published(wr)

\* A service runs with the document on disk or has been told to reload it.  If
\* the signal of the latest rewrite was lost, the status says so until a regen
\* finds the document on disk or linkd restarts (staticinfo.go and
\* topowriter.go Write, Signal, Status).
ServiceCurrent ==
    \A wr \in Signalled : Free(wr) =>
       \/ hup[wr] \/ loaded[wr] = file[wr]
       \/ hupLost[wr] = "reported" /\ hupFail[wr]
       \/ hupLost[wr] = "forgotten"

\* Every change is eventually looked at by a regen.
EveryChangeSeen == \A i \in Ifaces : unseen[i] ~> ~unseen[i]

=============================================================================
