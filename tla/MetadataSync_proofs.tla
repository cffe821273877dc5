------------------------ MODULE MetadataSync_proofs -------------------------
(***************************************************************************)
(* linkd as a whole, for any interfaces, handlers, timers and writers: its *)
(* types, that no change is forgotten, that a service is only ever behind  *)
(* because of a lost signal, and that at rest the documents tell what the  *)
(* links do.                                                               *)
(***************************************************************************)
EXTENDS MetadataSync, Linkd_proofs

\* Every step of linkd is one of the API or leaves the API alone, and one of
\* the coalescer or leaves it alone.
LEMMA StepOfParts ==
    [Next]_vars => [ApiNext]_apiVars /\ [CoalescerNext]_coalescerVars
<1> SUFFICES ASSUME [Next]_vars
             PROVE  [ApiNext]_apiVars /\ [CoalescerNext]_coalescerVars
  OBVIOUS
<1>0. Callers = Handlers
  BY MetadataSyncAssumption DEF MetadataSyncAssumption
<1>1. ASSUME NEW i \in Ifaces, PreshapeStep(i)
      PROVE  ApiNext /\ UNCHANGED coalescerVars
  BY <1>1 DEF PreshapeStep, ApiNext
<1>2. ASSUME EnterMain
      PROVE  ApiNext /\ UNCHANGED coalescerVars
  BY <1>2 DEF EnterMain, ApiNext
<1>3. ASSUME NEW h \in Handlers, Request(h) \/ ApplyStep(h)
      PROVE  ApiNext /\ UNCHANGED coalescerVars
  BY <1>3 DEF Request, ApplyStep, ApiNext, Apply
<1>4. ASSUME NEW h \in Handlers, NotifyStep(h)
      PROVE  ApiNext /\ CoalescerNext
  BY <1>0, <1>4 DEF NotifyStep, ApiNext, CoalescerNext
<1>5. ASSUME NEW w \in Workers, EnterWorker(w)
      PROVE  UNCHANGED apiVars /\ CoalescerNext
  BY <1>5 DEF EnterWorker, CoalescerNext
<1>6. ASSUME NEW w \in Goroutines,
             (\E i \in Ifaces : Read(w, i)) \/ Write(w) \/ Signal(w)
      PROVE  UNCHANGED apiVars /\ UNCHANGED coalescerVars
  BY <1>6 DEF Read, Write, Signal
<1>7. ASSUME NEW w \in Goroutines, Leave(w)
      PROVE  [ApiNext]_apiVars /\ [CoalescerNext]_coalescerVars
  BY <1>7 DEF Leave, Goroutines, ApiNext, CoalescerNext
<1>8. ASSUME Clock
      PROVE  UNCHANGED apiVars /\ CoalescerNext
  BY <1>8 DEF Clock, CoalescerNext
<1>9. ASSUME NEW wr \in WriterSet, Reload(wr)
      PROVE  UNCHANGED apiVars /\ UNCHANGED coalescerVars
  BY <1>9 DEF Reload
<1>10. CASE CrashStep \/ RebootStep
  BY <1>10 DEF CrashStep, RebootStep, NewProcess, ApiNext, CoalescerNext
<1>11. CASE UNCHANGED vars
  BY <1>11 DEF vars
<1> QED
  BY <1>1, <1>2, <1>3, <1>4, <1>5, <1>6, <1>7, <1>8, <1>9, <1>10, <1>11
     DEF Next

\* linkd is a shaping API and a coalescer put together: every behaviour of the whole is
\* one of each, regen, the writers and crashes included (main.go).
THEOREM LinkdJoinsItsParts ==
    Spec => ApiSpec /\ CoalescerInit /\ [][CoalescerNext]_coalescerVars
<1>1. Init => ApiInit /\ CoalescerInit
  BY DEF Init
<1> QED
  BY <1>1, StepOfParts, PTL DEF Spec, ApiSpec

\* The types of the parts.
THEOREM SyncTypingOfParts == Spec => [](ApiTypeOK /\ CoalescerTypeOK)
<1>1. Init => ApiTypeOK /\ CoalescerTypeOK
  BY ApiInitTyping, CoalescerInitTyping DEF Init
<1> QED
  BY <1>1, StepOfParts, ApiTypingStep, CoalescerTypingStep, PTL DEF Spec

\* In linkd, too, a call of OnChange is served by a regen that begins after it, or
\* forgotten with the process, and by nothing else (main.go, coalesce.go).
THEOREM LinkdKeepsContract == Spec => Contract!Init /\ [][Contract!Next]_(Contract!vars)
<1>1. Init => Contract!Init
  BY ContractInit DEF Init
<1> QED
  BY <1>1, StepOfParts, SyncTypingOfParts, ContractStep, PTL DEF Spec

-----------------------------------------------------------------------------
(* Types.                                                                  *)

LEMMA LivesForm ==
    ASSUME NEW l
    PROVE  l \in Lives <=> DOMAIN l \subseteq Ifaces /\ l \in [DOMAIN l -> Params]
<1>1. ASSUME l \in Lives
      PROVE  DOMAIN l \subseteq Ifaces /\ l \in [DOMAIN l -> Params]
  <2>1. PICK S \in SUBSET Ifaces : l \in [S -> Params]
    BY <1>1 DEF Lives
  <2> QED
    BY <2>1
<1>2. ASSUME DOMAIN l \subseteq Ifaces, l \in [DOMAIN l -> Params]
      PROVE  l \in Lives
  BY <1>2 DEF Lives
<1> QED
  BY <1>1, <1>2

LEMMA NothingReadLives == NothingRead \in Lives
<1>1. DOMAIN NothingRead = {} /\ NothingRead \in [{} -> Params]
  BY DEF NothingRead
<1> QED
  BY <1>1, LivesForm

LEMMA NoteLives ==
    ASSUME NEW l \in Lives, NEW i \in Ifaces, NEW p \in Params
    PROVE  /\ Note(l, i, p) \in Lives
           /\ DOMAIN Note(l, i, p) = DOMAIN l \union {i}
           /\ Note(l, i, p)[i] = p
           /\ \A j \in DOMAIN l : j # i => Note(l, i, p)[j] = l[j]
<1>1. DOMAIN l \subseteq Ifaces /\ l \in [DOMAIN l -> Params]
  BY LivesForm
<1>2. /\ DOMAIN Note(l, i, p) = DOMAIN l \union {i}
      /\ Note(l, i, p) \in [DOMAIN Note(l, i, p) -> Params]
  BY <1>1 DEF Note
<1> QED
  BY <1>1, <1>2, LivesForm DEF Note

LEMMA DocType ==
    ASSUME NEW wr \in WriterSet, NEW l \in Lives
    PROVE  Doc(wr, l) \in Docs(wr)
<1>1. ASSUME NEW i \in Ifaces, NEW f \in DOMAIN Shows[wr]
      PROVE  (IF i \in DOMAIN l /\ f \in DOMAIN l[i]
              THEN Shows[wr][f][l[i][f]] ELSE Base[i][f]) \in 0..MaxUnits
  <2>1. CASE i \in DOMAIN l /\ f \in DOMAIN l[i]
    <3>1. l[i] \in Params
      BY <2>1, LivesForm
    <3>2. l[i][f] \in 0..MaxUnits
      BY <2>1, <3>1, ParamsForm
    <3>3. Shows[wr][f] \in [0..MaxUnits -> 0..MaxUnits]
      BY MetadataSyncAssumption DEF MetadataSyncAssumption
    <3> QED
      BY <2>1, <3>2, <3>3
  <2>2. CASE ~(i \in DOMAIN l /\ f \in DOMAIN l[i])
    <3>1. f \in Fields
      BY MetadataSyncAssumption DEF MetadataSyncAssumption
    <3> QED
      BY <2>2, <3>1, MetadataSyncAssumption DEF MetadataSyncAssumption
  <2> QED
    BY <2>1, <2>2
<1> QED
  BY <1>1 DEF Doc, Docs

\* The writer a goroutine is at.
LEMMA WriterOf ==
    ASSUME NEW g \in Regens
    PROVE  Writers[g.next] \in WriterSet
BY DEF Regens, WriterSet

LEMMA OnwardType ==
    ASSUME NEW g \in Regens
    PROVE  /\ Onward(g) \in Regens
           /\ Onward(g).pc \in {"write", "done"}
           /\ Onward(g).live = g.live /\ Onward(g).todo = g.todo
           /\ Onward(g).pc = "write" => Onward(g).next = g.next + 1
           /\ Onward(g).pc = "done" => g.next = Len(Writers)
<1>1. Len(Writers) \in Nat /\ DOMAIN Writers = 1..Len(Writers)
  BY MetadataSyncAssumption DEF MetadataSyncAssumption
<1>2. CASE g.next = Len(Writers)
  <2>1. Onward(g) = [g EXCEPT !.pc = "done"]
    BY <1>2 DEF Onward
  <2> QED
    BY <1>2, <2>1 DEF Regens
<1>3. CASE g.next # Len(Writers)
  <2>1. g.next \in 1..Len(Writers)
    BY <1>1 DEF Regens
  <2>2. g.next + 1 \in DOMAIN Writers
    BY <1>1, <1>3, <2>1
  <2>3. Onward(g) = [g EXCEPT !.pc = "write", !.next = g.next + 1]
    BY <1>3 DEF Onward
  <2> QED
    BY <2>2, <2>3 DEF Regens
<1> QED
  BY <1>2, <1>3

\* What a step of regen's loop does to its goroutine.
LEMMA ReadEffect ==
    ASSUME ApiTypeOK, GenTypeOK, NEW w \in Goroutines, NEW i \in Ifaces, Read(w, i)
    PROVE  /\ gen[w] \in Regens /\ gen'[w] \in Regens
           /\ gen' = [gen EXCEPT ![w] = gen'[w]]
           /\ gen'[w].todo = gen[w].todo \ {i} /\ gen'[w].next = gen[w].next
           /\ gen'[w].pc = IF gen[w].todo = {i} THEN "write" ELSE "read"
           /\ Note(gen[w].live, i, kernel[i]) \in Lives
           /\ \/ gen'[w].live = Note(gen[w].live, i, kernel[i]) /\ failed' = failed
              \/ gen'[w].live = gen[w].live /\ failed' = WriterSet
<1>1. gen[w] \in Regens
  BY DEF Read, GenTypeOK, NotInRegen
<1>2. Note(gen[w].live, i, kernel[i]) \in Lives
  BY <1>1, NoteLives DEF ApiTypeOK, Regens
<1>3. PICK live \in Lives :
          /\ gen' = [gen EXCEPT ![w] = Visited(gen[w], i, live)]
          /\ \/ live = Note(gen[w].live, i, kernel[i]) /\ failed' = failed
             \/ live = gen[w].live /\ failed' = WriterSet
  BY <1>1, <1>2 DEF Read, Regens
<1>4. /\ gen'[w] = Visited(gen[w], i, live)
      /\ gen' = [gen EXCEPT ![w] = gen'[w]]
  BY <1>3 DEF GenTypeOK
<1>5. Visited(gen[w], i, live) \in Regens
  BY <1>1 DEF Visited, Regens
<1> QED
  BY <1>1, <1>2, <1>3, <1>4, <1>5 DEF Visited

LEMMA GenTypeStep ==
    ApiTypeOK /\ GenTypeOK /\ [Next]_vars => GenTypeOK'
<1> SUFFICES ASSUME ApiTypeOK, GenTypeOK, [Next]_vars
             PROVE  GenTypeOK'
  OBVIOUS
<1>1. ASSUME UNCHANGED gen
      PROVE  GenTypeOK'
  BY <1>1 DEF GenTypeOK
<1>2. ASSUME NEW w \in Goroutines, Enter(w)
      PROVE  GenTypeOK'
  <2>1. 1 \in DOMAIN Writers
    BY MetadataSyncAssumption DEF MetadataSyncAssumption
  <2>2. [pc |-> "read", todo |-> Ifaces, live |-> NothingRead, next |-> 1] \in Regens
    BY <2>1, NothingReadLives DEF Regens
  <2> QED
    BY <1>2, <2>2 DEF Enter, GenTypeOK
<1>3. ASSUME NEW w \in Goroutines, NEW i \in Ifaces, Read(w, i)
      PROVE  GenTypeOK'
  BY <1>3, ReadEffect DEF GenTypeOK
<1>4. ASSUME NEW w \in Goroutines, Write(w)
      PROVE  GenTypeOK'
  <2>1. gen[w] \in Regens
    BY <1>4 DEF Write, GenTypeOK, NotInRegen
  <2>2. CASE Proceed(w)
    BY <2>1, <2>2, OnwardType DEF Proceed, GenTypeOK
  <2>3. CASE gen' = [gen EXCEPT ![w] = [gen[w] EXCEPT !.pc = "hup"]]
    <3>1. [gen[w] EXCEPT !.pc = "hup"] \in Regens
      BY <2>1 DEF Regens
    <3> QED
      BY <2>3, <3>1 DEF GenTypeOK
  <2> QED
    BY <1>4, <2>2, <2>3 DEF Write, NotWritten, AlreadyWritten, Written
<1>5. ASSUME NEW w \in Goroutines, Signal(w)
      PROVE  GenTypeOK'
  <2>1. gen[w] \in Regens
    BY <1>5 DEF Signal, GenTypeOK, NotInRegen
  <2> QED
    BY <1>5, <2>1, OnwardType DEF Signal, Proceed, GenTypeOK
<1>6. ASSUME NEW w \in Goroutines, Leave(w)
      PROVE  GenTypeOK'
  BY <1>6 DEF Leave, GenTypeOK
<1>7. CASE CrashStep \/ RebootStep
  BY <1>7 DEF CrashStep, RebootStep, NewProcess, GenTypeOK
<1>8. CASE UNCHANGED vars
  BY <1>1, <1>8 DEF vars, syncVars
<1> QED
  BY <1>1, <1>2, <1>3, <1>4, <1>5, <1>6, <1>7, <1>8
     DEF Next, PreshapeStep, EnterMain, Request, ApplyStep, NotifyStep,
         EnterWorker, Clock, Reload, KeepSync, syncVars, Goroutines

LEMMA FileTypeStep ==
    GenTypeOK /\ FileTypeOK /\ [Next]_vars => FileTypeOK'
<1> SUFFICES ASSUME GenTypeOK, FileTypeOK, [Next]_vars
             PROVE  FileTypeOK'
  OBVIOUS
<1>1. ASSUME UNCHANGED <<file, loaded>>
      PROVE  FileTypeOK'
  BY <1>1 DEF FileTypeOK
<1>2. ASSUME NEW w \in Goroutines, Write(w)
      PROVE  FileTypeOK'
  <2>1. gen[w] \in Regens
    BY <1>2 DEF Write, GenTypeOK, NotInRegen
  <2> DEFINE wr == Writers[gen[w].next]
             doc == Doc(wr, gen[w].live)
  <2>2. doc \in Docs(wr)
    BY <2>1, WriterOf, DocType DEF Regens
  <2>3. loaded' = loaded /\ (file' = file \/ file' = [file EXCEPT ![wr] = doc])
    BY <1>2 DEF Write, NotWritten, AlreadyWritten, Written
  <2> HIDE DEF wr, doc
  <2> QED
    BY <2>2, <2>3 DEF FileTypeOK
<1>3. ASSUME NEW wr \in WriterSet, Reload(wr)
      PROVE  FileTypeOK'
  BY <1>3 DEF Reload, FileTypeOK
<1>4. CASE CrashStep \/ RebootStep
  BY <1>4 DEF CrashStep, RebootStep, NewProcess, FileTypeOK
<1>5. CASE UNCHANGED vars
  BY <1>1, <1>5 DEF vars, syncVars
<1> QED
  BY <1>1, <1>2, <1>3, <1>4, <1>5
     DEF Next, PreshapeStep, EnterMain, Request, ApplyStep, NotifyStep, Enter,
         EnterWorker, Read, Signal, Leave, Clock, KeepSync, syncVars

LEMMA FlagTypeStep ==
    GenTypeOK /\ FlagTypeOK /\ [Next]_vars => FlagTypeOK'
<1> SUFFICES ASSUME GenTypeOK, FlagTypeOK, [Next]_vars
             PROVE  FlagTypeOK'
  OBVIOUS
<1> USE DEF FlagTypeOK
<1>1. ASSUME NEW i \in Ifaces, PreshapeStep(i)
      PROVE  FlagTypeOK'
  BY <1>1 DEF PreshapeStep, Touch, KeepSync, syncVars
<1>2. ASSUME NEW w \in Goroutines, Enter(w)
      PROVE  FlagTypeOK'
  BY <1>2 DEF Enter
<1>3. ASSUME NEW h \in Handlers, Request(h)
      PROVE  FlagTypeOK'
  BY <1>3 DEF Request, Touch, KeepSync, syncVars
<1>4. ASSUME NEW h \in Handlers, ApplyStep(h)
      PROVE  FlagTypeOK'
  BY <1>4 DEF ApplyStep, Touch, KeepSync, syncVars
<1>5. ASSUME (\E h \in Handlers : NotifyStep(h)) \/ Clock
      PROVE  FlagTypeOK'
  BY <1>5 DEF NotifyStep, Clock, KeepSync, syncVars
<1>6. ASSUME NEW w \in Goroutines, NEW i \in Ifaces, Read(w, i)
      PROVE  FlagTypeOK'
  BY <1>6 DEF Read
<1>7. ASSUME NEW w \in Goroutines, Write(w)
      PROVE  FlagTypeOK'
  <2> DEFINE wr == Writers[gen[w].next]
             doc == Doc(wr, gen[w].live)
  <2>1. UNCHANGED <<hup, unseen, raced, crashes>>
    BY <1>7 DEF Write
  <2>2. CASE NotWritten(w, wr)
    <3>1. wr \in WriterSet
      BY <1>7, WriterOf DEF Write, GenTypeOK, NotInRegen
    <3> QED
      BY <2>1, <2>2, <3>1 DEF NotWritten
  <2>3. CASE AlreadyWritten(w, wr, doc)
    BY <2>1, <2>3 DEF AlreadyWritten
  <2>4. CASE Written(w, wr, doc)
    BY <2>1, <2>4 DEF Written
  <2> QED
    BY <1>7, <2>2, <2>3, <2>4 DEF Write
<1>8. ASSUME NEW w \in Goroutines, Signal(w)
      PROVE  FlagTypeOK'
  BY <1>8 DEF Signal
<1>9. ASSUME NEW w \in Goroutines, Leave(w)
      PROVE  FlagTypeOK'
  BY <1>9 DEF Leave, histVars
<1>10. ASSUME NEW wr \in WriterSet, Reload(wr)
      PROVE  FlagTypeOK'
  BY <1>10 DEF Reload, histVars
<1>11. CASE CrashStep \/ RebootStep
  <2>1. crashes' \in 0..MaxCrashes
    BY <1>11, MetadataSyncAssumption
       DEF CrashStep, RebootStep, NewProcess, MetadataSyncAssumption
  <2>2. /\ metaFail' = [wr \in WriterSet |-> FALSE] /\ hupFail' = [wr \in WriterSet |-> FALSE]
        /\ raced' = FALSE /\ failed' = {}
    BY <1>11 DEF CrashStep, RebootStep, NewProcess
  <2>3. /\ hup' = hup \/ hup' = [wr \in WriterSet |-> FALSE]
        /\ unseen' = unseen \/ unseen' = [i \in Ifaces |-> TRUE]
        /\ hupLost' \in [WriterSet -> {"no", "reported", "forgotten"}]
    BY <1>11 DEF CrashStep, RebootStep
  <2> QED
    BY <2>1, <2>2, <2>3
<1>12. CASE UNCHANGED vars
  BY <1>12 DEF vars, syncVars, histVars
<1> QED
  BY <1>1, <1>2, <1>3, <1>4, <1>5, <1>6, <1>7, <1>8, <1>9, <1>10, <1>11, <1>12
     DEF Next, EnterMain, EnterWorker, Goroutines

LEMMA SyncInitTyping == Init => SyncTypeOK
<1> SUFFICES ASSUME Init
             PROVE  SyncTypeOK
  OBVIOUS
<1>1. GenTypeOK
  BY DEF Init, GenTypeOK
<1>2. FileTypeOK
  <2>1. \A wr \in WriterSet : Doc(wr, NothingRead) \in Docs(wr)
    BY NothingReadLives, DocType
  <2> QED
    BY <2>1 DEF Init, FileTypeOK
<1>3. FlagTypeOK
  <2>1. crashes \in 0..MaxCrashes
    BY MetadataSyncAssumption DEF Init, MetadataSyncAssumption
  <2> QED
    BY <2>1 DEF Init, FlagTypeOK
<1> QED
  BY <1>1, <1>2, <1>3 DEF SyncTypeOK

\* Every goroutine is at a place of regen with the interfaces it has read,
\* every document has a value for every interface and field it publishes.
THEOREM SyncTyping == Spec => []TypeOK
<1>1. ApiTypeOK /\ SyncTypeOK /\ [Next]_vars => SyncTypeOK'
  BY GenTypeStep, FileTypeStep, FlagTypeStep DEF SyncTypeOK
<1> QED
  BY <1>1, SyncInitTyping, SyncTypingOfParts, PTL DEF Spec, TypeOK

\* In the whole daemon too an interface holds parameters Validate accepts, but
\* for a jitter whose delay the kernel has cut: regen, the coalescer and the
\* writers never touch it.
THEOREM LinksStayValid == Spec => []InvalidOnlyIfCut
<1>1. Init => ApiTypeOK /\ InvalidOnlyIfCut /\ PendingValid
  BY ApiInitTyping DEF Init
<1> QED
  BY <1>1, StepOfParts, ApiTypingStep, ValidStep, PTL DEF Spec

-----------------------------------------------------------------------------
(* No change is forgotten.                                                 *)

LEMMA ForgottenStep ==
    TypeOK /\ NoChangeForgotten /\ [Next]_vars => NoChangeForgotten'
<1> SUFFICES ASSUME TypeOK, NoChangeForgotten, [Next]_vars,
                    NEW i \in Ifaces, unseen'[i]
             PROVE  WillBeSeen(i)'
  BY DEF NoChangeForgotten
<1> USE DEF WillBeSeen
<1>0. /\ run \in [Workers -> {"idle", "start", "running"}]
      /\ req \in [Handlers -> {NoRequest}
            \union [pc : {"apply"}, if : Ifaces, named : SUBSET Fields, doc : Params]
            \union [pc : {"changed"}, if : Ifaces]]
      /\ gen \in [Goroutines -> {NotInRegen} \union Regens]
      /\ unseen \in [Ifaces -> BOOLEAN]
      /\ Handlers \subseteq Workers /\ Workers \subseteq Goroutines
      /\ Timers \subseteq Workers
  BY MetadataSyncAssumption
     DEF TypeOK, CoalescerTypeOK, ApiTypeOK, SyncTypeOK, GenTypeOK, FlagTypeOK,
         MetadataSyncAssumption, Workers, Goroutines
<1>1. ASSUME NEW j \in Ifaces, PreshapeStep(j)
      PROVE  WillBeSeen(i)'
  BY <1>1 DEF PreshapeStep, SkipPreshape, Preshape
<1>2. ASSUME NEW w \in Goroutines, Enter(w)
      PROVE  WillBeSeen(i)'
  BY <1>0, <1>2 DEF Enter
<1>3. ASSUME NEW h \in Handlers, Request(h)
      PROVE  WillBeSeen(i)'
  BY <1>0, <1>3 DEF Request, Touch, KeepSync, syncVars, coalescerVars, PutRead,
     Delete, Changed, NoRequest, NoChangeForgotten
<1>4. ASSUME NEW h \in Handlers, ApplyStep(h)
      PROVE  WillBeSeen(i)'
  BY <1>0, <1>4 DEF ApplyStep, Touch, KeepSync, syncVars, coalescerVars, PutApply,
     PutApplyFails, Changed, NoChangeForgotten
<1>5. ASSUME NEW h \in Handlers, NotifyStep(h)
      PROVE  WillBeSeen(i)'
  <2>1. CASE CallLeading(h)
    BY <1>0, <2>1 DEF CallLeading, Trigger
  <2>2. CASE CallWithinWindow(h)
    BY <2>2 DEF CallWithinWindow
  <2> QED
    BY <1>5, <2>1, <2>2 DEF NotifyStep, Call
<1>6. ASSUME NEW w \in Goroutines, NEW j \in Ifaces, Read(w, j)
      PROVE  WillBeSeen(i)'
  <2>1. i # j /\ unseen[i]
    BY <1>0, <1>6 DEF Read
  <2>2. ApiTypeOK /\ GenTypeOK
    BY DEF TypeOK, SyncTypeOK
  <2>3. i \in gen[w].todo => gen'[w].pc = "read" /\ i \in gen'[w].todo
    <3>1. /\ gen'[w].todo = gen[w].todo \ {j}
          /\ gen'[w].pc = IF gen[w].todo = {j} THEN "write" ELSE "read"
      BY <1>6, <2>2, ReadEffect
    <3>2. i \in gen[w].todo => gen[w].todo # {j}
      BY <2>1
    <3> QED
      BY <2>1, <3>1, <3>2
  <2>4. \A v \in Goroutines \ {w} : gen'[v] = gen[v]
    BY <1>0, <1>6 DEF Read
  <2> QED
    BY <1>0, <1>6, <2>1, <2>3, <2>4 DEF Read, apiVars, coalescerVars, NoChangeForgotten
<1>7. ASSUME NEW w \in Goroutines, Write(w) \/ Signal(w) \/ Leave(w)
      PROVE  WillBeSeen(i)'
  <2>1. gen[w].pc # "read" /\ \A v \in Goroutines \ {w} : gen'[v] = gen[v]
    BY <1>0, <1>7 DEF Write, NotWritten, AlreadyWritten, Written, Signal, Leave, Proceed
  <2>2. \A v \in Workers : run[v] = "start" => run'[v] = "start"
    BY <1>0, <1>7 DEF Write, Signal, Leave, End, coalescerVars
  <2>3. /\ unseen' = unseen /\ dirty' = dirty /\ req' = req
        /\ life = "preshape" => life' = "preshape"
    BY <1>7 DEF Write, Signal, Leave, End, Serve, apiVars, coalescerVars, histVars
  <2> QED
    BY <2>1, <2>2, <2>3 DEF NoChangeForgotten
<1>8. CASE Clock
  <2>1. /\ unseen' = unseen /\ gen' = gen /\ req' = req /\ life' = life
        /\ \A v \in Workers : run[v] = "start" => run'[v] = "start"
    BY <1>0, <1>8 DEF Clock, KeepSync, syncVars, apiVars, Fire, Tick, Trigger
  <2>2. dirty => dirty' \/ \E v \in Workers : run'[v] = "start"
    BY <1>0, <1>8 DEF Clock, Fire, Tick, Trigger
  <2> QED
    BY <2>1, <2>2 DEF NoChangeForgotten
<1>9. CASE CrashStep \/ RebootStep
  BY <1>9 DEF CrashStep, RebootStep, Crash, Reboot
<1>10. ASSUME UNCHANGED <<apiVars, coalescerVars, gen, unseen>>
       PROVE  WillBeSeen(i)'
  BY <1>10 DEF apiVars, coalescerVars, NoChangeForgotten
<1> QED
  BY <1>1, <1>2, <1>3, <1>4, <1>5, <1>6, <1>7, <1>8, <1>9, <1>10
     DEF Next, EnterMain, EnterWorker, Goroutines, Reload, histVars, vars, syncVars

\* Whatever overtakes what, a change that no regen has come to yet still has
\* a handler, the dirty flag or a goroutine that will take a regen to it.
THEOREM SyncForgetsNoChange == Spec => []NoChangeForgotten
<1>1. Init => NoChangeForgotten
  BY DEF Init, ApiInit, NoChangeForgotten, WillBeSeen
<1> QED
  BY <1>1, SyncTyping, ForgottenStep, PTL DEF Spec

-----------------------------------------------------------------------------
(* Who is in regen.                                                        *)

\* A worker is in regen while the coalescer has it run f, main while the
\* daemon converges.
Placed ==
    /\ \A w \in Workers : InRegen(w) <=> run[w] = "running"
    /\ InRegen(Main) <=> life = "converge"

\* A goroutine that goes on in regen stays in it.
LEMMA StaysInRegen ==
    ASSUME TypeOK, NEW w \in Goroutines,
           (\E i \in Ifaces : Read(w, i)) \/ Write(w) \/ Signal(w)
    PROVE  /\ gen[w] \in Regens /\ gen'[w] \in Regens
           /\ \A v \in Goroutines \ {w} : gen'[v] = gen[v]
           /\ UNCHANGED <<life, run>>
<1>0. /\ ApiTypeOK /\ GenTypeOK
      /\ gen \in [Goroutines -> {NotInRegen} \union Regens]
  BY DEF TypeOK, SyncTypeOK, GenTypeOK
<1>1. ASSUME NEW i \in Ifaces, Read(w, i)
      PROVE  gen[w] \in Regens /\ gen'[w] \in Regens
  BY <1>0, <1>1, ReadEffect
<1>2. ASSUME Write(w)
      PROVE  gen[w] \in Regens /\ gen'[w] \in Regens
  <2>1. gen[w] \in Regens
    BY <1>0, <1>2 DEF Write, NotInRegen
  <2>2. CASE Proceed(w)
    BY <1>0, <2>1, <2>2, OnwardType DEF Proceed
  <2>3. CASE gen' = [gen EXCEPT ![w] = [gen[w] EXCEPT !.pc = "hup"]]
    BY <1>0, <2>1, <2>3 DEF Regens
  <2> QED
    BY <1>2, <2>1, <2>2, <2>3 DEF Write, NotWritten, AlreadyWritten, Written
<1>3. ASSUME Signal(w)
      PROVE  gen[w] \in Regens /\ gen'[w] \in Regens
  <2>1. gen[w] \in Regens
    BY <1>0, <1>3 DEF Signal, NotInRegen
  <2> QED
    BY <1>0, <1>3, <2>1, OnwardType DEF Signal, Proceed
<1>4. \A v \in Goroutines \ {w} : gen'[v] = gen[v]
  BY <1>0 DEF Read, Write, NotWritten, AlreadyWritten, Written, Signal, Proceed
<1>5. UNCHANGED <<life, run>>
  BY DEF Read, Write, Signal, apiVars, coalescerVars
<1> QED
  BY <1>1, <1>2, <1>3, <1>4, <1>5

LEMMA PlacedStep == TypeOK /\ Placed /\ [Next]_vars => Placed'
<1> SUFFICES ASSUME TypeOK, Placed, [Next]_vars
             PROVE  Placed'
  OBVIOUS
<1> USE DEF Placed, InRegen
<1>0. /\ gen \in [Goroutines -> {NotInRegen} \union Regens]
      /\ run \in [Workers -> {"idle", "start", "running"}]
      /\ Main \notin Workers /\ Goroutines = Workers \union {Main}
      /\ Handlers \subseteq Workers /\ Timers \subseteq Workers
  BY MetadataSyncAssumption
     DEF TypeOK, SyncTypeOK, GenTypeOK, CoalescerTypeOK, MetadataSyncAssumption,
         Goroutines, Workers
<1>1. ASSUME UNCHANGED gen, UNCHANGED life,
             \A w \in Workers : run'[w] = "running" <=> run[w] = "running"
      PROVE  Placed'
  BY <1>1
<1>2. CASE EnterMain
  BY <1>0, <1>2 DEF EnterMain, Preshaped, Enter, coalescerVars
<1>3. ASSUME NEW w \in Workers, EnterWorker(w)
      PROVE  Placed'
  BY <1>0, <1>3 DEF EnterWorker, Begin, Enter, apiVars
<1>4. ASSUME NEW h \in Handlers, NotifyStep(h)
      PROVE  Placed'
  BY <1>0, <1>1, <1>4 DEF NotifyStep, Notify, KeepSync, syncVars, Call, CallLeading,
     CallWithinWindow, Trigger
<1>5. CASE Clock
  BY <1>0, <1>1, <1>5 DEF Clock, KeepSync, syncVars, apiVars, Fire, Tick, Trigger
<1>6. ASSUME NEW w \in Goroutines,
             (\E i \in Ifaces : Read(w, i)) \/ Write(w) \/ Signal(w)
      PROVE  Placed'
  <2>1. gen[w].pc # "none" /\ gen'[w].pc # "none"
    BY <1>6, StaysInRegen DEF Regens
  <2> QED
    BY <1>0, <1>6, <2>1, StaysInRegen
<1>7. ASSUME NEW w \in Goroutines, Leave(w)
      PROVE  Placed'
  BY <1>0, <1>7 DEF Leave, NotInRegen, Serve, End, apiVars, coalescerVars
<1>8. CASE CrashStep \/ RebootStep
  BY <1>0, <1>8 DEF CrashStep, RebootStep, NewProcess, Restart, Crash, Reboot, NotInRegen
<1>9. ASSUME NEW h \in Handlers, Request(h) \/ ApplyStep(h)
      PROVE  UNCHANGED <<gen, life, run>>
  BY <1>9 DEF Request, ApplyStep, PutRead, Delete, PutApply, PutApplyFails,
     KeepSync, syncVars, coalescerVars
<1>10. ASSUME NEW i \in Ifaces, PreshapeStep(i)
       PROVE  UNCHANGED <<gen, life, run>>
  BY <1>10 DEF PreshapeStep, SkipPreshape, Preshape, KeepSync, syncVars, coalescerVars
<1>11. ASSUME UNCHANGED <<apiVars, coalescerVars, gen>>
       PROVE  UNCHANGED <<gen, life, run>>
  BY <1>11 DEF apiVars, coalescerVars
<1> QED
  BY <1>1, <1>2, <1>3, <1>4, <1>5, <1>6, <1>7, <1>8, <1>9, <1>10, <1>11
     DEF Next, Reload, vars, syncVars

-----------------------------------------------------------------------------
(* A service is behind its document only because of a lost signal.         *)

\* The document of wr is loaded, or a SIGHUP will see to it or is about to be
\* sent, or it was lost and the status says so unless that was forgotten.
Accounted(wr) ==
    \/ loaded[wr] = file[wr] \/ hup[wr] \/ ~Free(wr)
    \/ hupLost[wr] = "reported" /\ hupFail[wr] = TRUE
    \/ hupLost[wr] = "forgotten"

AllAccounted == \A wr \in Signalled : Accounted(wr)

LEMMA AccountedStep ==
    TypeOK /\ Placed /\ AllAccounted /\ [Next]_vars => AllAccounted'
<1> SUFFICES ASSUME TypeOK, Placed, AllAccounted, [Next]_vars, NEW wr \in Signalled
             PROVE  Accounted(wr)'
  BY DEF AllAccounted
<1> USE DEF Accounted, Free
<1>0. /\ Accounted(wr) /\ wr \in WriterSet
      /\ gen \in [Goroutines -> {NotInRegen} \union Regens]
      /\ DOMAIN file = WriterSet /\ DOMAIN loaded = WriterSet
      /\ hup \in [WriterSet -> BOOLEAN] /\ hupFail \in [WriterSet -> BOOLEAN]
      /\ hupLost \in [WriterSet -> {"no", "reported", "forgotten"}]
  BY MetadataSyncAssumption
     DEF AllAccounted, TypeOK, SyncTypeOK, GenTypeOK, FileTypeOK, FlagTypeOK,
         MetadataSyncAssumption
\* A goroutine that is not about to signal may move anywhere.
<1>1. ASSUME UNCHANGED <<file, loaded, hup, hupFail, hupLost>>,
             NEW w \in Goroutines, gen[w].pc # "hup",
             \A v \in Goroutines \ {w} : gen'[v] = gen[v]
      PROVE  Accounted(wr)'
  BY <1>0, <1>1
<1>2. ASSUME NEW w \in Goroutines, Write(w)
      PROVE  Accounted(wr)'
  <2> DEFINE v == Writers[gen[w].next]
  <2>1. /\ gen[w].pc = "write" /\ gen[w] \in Regens
        /\ \A u \in Goroutines \ {w} : gen'[u] = gen[u]
        /\ UNCHANGED <<loaded, hup>>
    BY <1>0, <1>2 DEF Write, NotWritten, AlreadyWritten, Written, Proceed, NotInRegen
  <2>2. v \in WriterSet /\ Free(v)
    BY <1>0, <1>2, <2>1, WriterOf DEF Write
  <2>3. CASE v # wr
    <3>1. file'[wr] = file[wr] /\ hupFail'[wr] = hupFail[wr] /\ hupLost'[wr] = hupLost[wr]
      BY <1>0, <1>2, <2>3 DEF Write, NotWritten, AlreadyWritten, Written
    <3> QED
      BY <1>0, <2>1, <3>1
  <2>4. CASE v = wr /\ NotWritten(w, wr)
    <3>1. file' = file /\ hupLost' = hupLost /\ hupFail'[wr] = TRUE
      BY <1>0, <2>4 DEF NotWritten
    <3> QED
      BY <1>0, <2>1, <2>2, <2>4, <3>1
  <2>5. CASE v = wr /\ AlreadyWritten(w, wr, Doc(wr, gen[w].live))
    <3>1. file' = file /\ hupLost'[wr] = IF hupLost[wr] = "no" THEN "no" ELSE "forgotten"
      BY <1>0, <2>5 DEF AlreadyWritten
    <3> QED
      BY <1>0, <2>1, <2>2, <2>5, <3>1
  <2>6. CASE v = wr /\ Written(w, wr, Doc(wr, gen[w].live))
    <3>1. gen'[w] = [gen[w] EXCEPT !.pc = "hup"]
      BY <1>0, <2>6 DEF Written
    <3>2. gen'[w].pc = "hup" /\ gen'[w].next = gen[w].next
      BY <2>1, <3>1 DEF Regens
    <3> QED
      BY <2>6, <3>2
  <2> QED
    BY <1>2, <2>3, <2>4, <2>5, <2>6 DEF Write
<1>3. ASSUME NEW w \in Goroutines, Signal(w)
      PROVE  Accounted(wr)'
  <2>1. UNCHANGED <<file, loaded>> /\ \A v \in Goroutines \ {w} : gen'[v] = gen[v]
    BY <1>0, <1>3 DEF Signal, Proceed
  <2>2. CASE Writers[gen[w].next] = wr
    <3>1. PICK delivered \in BOOLEAN, err \in BOOLEAN :
             /\ delivered \/ err
             /\ hup'[wr] = (hup[wr] \/ delivered)
             /\ hupLost'[wr] = IF delivered THEN "no" ELSE "reported"
             /\ hupFail'[wr] = err
      BY <1>0, <1>3, <2>2 DEF Signal
    <3> QED
      BY <3>1
  <2>3. CASE Writers[gen[w].next] # wr
    <3>1. hup'[wr] = hup[wr] /\ hupLost'[wr] = hupLost[wr] /\ hupFail'[wr] = hupFail[wr]
      BY <1>0, <1>3, <2>3 DEF Signal
    <3> QED
      BY <1>0, <2>1, <2>3, <3>1
  <2> QED
    BY <2>2, <2>3
<1>4. ASSUME NEW w \in Goroutines, NEW i \in Ifaces, Read(w, i)
      PROVE  Accounted(wr)'
  BY <1>0, <1>1, <1>4 DEF Read
<1>5. ASSUME NEW w \in Goroutines, Leave(w)
      PROVE  Accounted(wr)'
  BY <1>0, <1>1, <1>5 DEF Leave, histVars
<1>6. ASSUME EnterMain \/ \E w \in Workers : EnterWorker(w)
      PROVE  Accounted(wr)'
  <2>1. PICK w \in Goroutines : Enter(w) /\ gen[w].pc # "hup"
    BY <1>6 DEF EnterMain, EnterWorker, Preshaped, Begin, Placed, InRegen, Goroutines
  <2> QED
    BY <1>0, <1>1, <2>1 DEF Enter
<1>7. ASSUME NEW v \in WriterSet, Reload(v)
      PROVE  Accounted(wr)'
  BY <1>0, <1>7 DEF Reload, histVars
<1>8. CASE CrashStep \/ RebootStep
  BY <1>0, <1>8 DEF CrashStep, RebootStep, NewProcess
<1>9. ASSUME UNCHANGED <<gen, file, loaded, hup, hupFail, hupLost>>
      PROVE  Accounted(wr)'
  BY <1>0, <1>9
<1> QED
  BY <1>2, <1>3, <1>4, <1>5, <1>6, <1>7, <1>8, <1>9
     DEF Next, PreshapeStep, Request, ApplyStep, NotifyStep, Clock, KeepSync,
         vars, syncVars, histVars

\* Between rewrites a service runs with its document or has a SIGHUP to act
\* on; a lost signal shows in the status until a regen or a restart hides it.
THEOREM ServiceStaysCurrent == Spec => []ServiceCurrent
<1>1. Init => Placed /\ AllAccounted
  <2>1. Init => Placed
    BY DEF Init, ApiInit, CoalescerInit, Placed, InRegen, NotInRegen, Goroutines
  <2>2. Init => AllAccounted
    BY DEF Init, AllAccounted, Accounted
  <2> QED
    BY <2>1, <2>2
<1>2. AllAccounted => ServiceCurrent
  BY DEF AllAccounted, Accounted, ServiceCurrent
<1> QED
  BY <1>1, <1>2, SyncTyping, PlacedStep, AccountedStep, PTL DEF Spec

-----------------------------------------------------------------------------
(* At rest the documents tell what the links do.                           *)

\* One regen at a time.
Alone == ~raced => \A v, w \in Goroutines : InRegen(v) /\ InRegen(w) => v = w

\* The writers a regen is through with.
Passed(g) ==
    {k \in DOMAIN Writers : k < g.next \/ (k = g.next /\ g.pc \in {"hup", "done"})}

\* What a regen has read is what the links do unless they changed since, and
\* what it has passed on to writer wr is on disk.
RegenSound(wr, g, doc, links, changed) ==
    /\ \A i \in Ifaces \ g.todo :
          i \in DOMAIN g.live /\ (~changed[i] => g.live[i] = links[i])
    /\ IF g.pc = "read" THEN g.next = 1 ELSE g.todo = {}
    /\ g.pc = "done" => g.next = Len(Writers)
    /\ \A k \in Passed(g) : Writers[k] = wr => doc = Doc(wr, g.live)

Knows(wr, w) == RegenSound(wr, gen[w], file[wr], kernel, unseen)

\* What the document says of an interface is so unless it changed since.
Settled(wr) ==
    \A i \in Ifaces : ~unseen[i] => file[wr][i] = Doc(wr, kernel)[i]

NobodyInRegen == \A w \in Goroutines : ~InRegen(w)

\* Of each writer, whatever becomes of the others.
Sound(wr) ==
    ~raced /\ wr \notin failed =>
       /\ \A w \in Goroutines : InRegen(w) => Knows(wr, w)
       /\ life = "serve" /\ NobodyInRegen => Settled(wr)

AllSound == \A wr \in WriterSet : Sound(wr)

LEMMA AloneStep == TypeOK /\ Alone /\ [Next]_vars => Alone'
<1> SUFFICES ASSUME TypeOK, Alone, [Next]_vars
             PROVE  Alone'
  OBVIOUS
<1>0. gen \in [Goroutines -> {NotInRegen} \union Regens]
  BY DEF TypeOK, SyncTypeOK, GenTypeOK
<1>1. ASSUME raced' = raced, \A w \in Goroutines : InRegen(w)' => InRegen(w)
      PROVE  Alone'
  BY <1>1 DEF Alone
<1>2. ASSUME NEW w \in Goroutines, Enter(w)
      PROVE  Alone'
  BY <1>0, <1>2 DEF Enter, Alone, InRegen
<1>3. ASSUME NEW w \in Goroutines,
             (\E i \in Ifaces : Read(w, i)) \/ Write(w) \/ Signal(w)
      PROVE  Alone'
  <2>1. raced' = raced
    BY <1>3 DEF Read, Write, Signal
  <2>2. InRegen(w) /\ \A v \in Goroutines \ {w} : gen'[v] = gen[v]
    BY <1>3, StaysInRegen DEF InRegen, Regens
  <2> QED
    BY <1>1, <2>1, <2>2 DEF InRegen
<1>4. ASSUME NEW w \in Goroutines, Leave(w)
      PROVE  Alone'
  BY <1>0, <1>1, <1>4 DEF Leave, InRegen, NotInRegen, histVars
<1>5. CASE CrashStep \/ RebootStep
  BY <1>5 DEF CrashStep, RebootStep, NewProcess, Alone, InRegen, NotInRegen
<1>6. ASSUME UNCHANGED <<gen, raced>>
      PROVE  Alone'
  BY <1>1, <1>6 DEF InRegen
<1> QED
  BY <1>2, <1>3, <1>4, <1>5, <1>6
     DEF Next, PreshapeStep, EnterMain, Request, ApplyStep, NotifyStep, EnterWorker,
         Clock, Reload, KeepSync, Goroutines, vars, syncVars, histVars

\* An entry of a document depends on what was read of its interface only.
LEMMA DocEntry ==
    ASSUME NEW wr \in WriterSet, NEW l, NEW m, NEW i \in Ifaces,
           i \in DOMAIN l, i \in DOMAIN m, l[i] = m[i]
    PROVE  Doc(wr, l)[i] = Doc(wr, m)[i]
BY DEF Doc

\* A regen that goes on keeps to what it has read and what it has written.
LEMMA OnwardSound ==
    ASSUME NEW wr, NEW doc, NEW links, NEW changed,
           NEW g \in Regens, g.pc \in {"write", "hup"},
           RegenSound(wr, g, doc, links, changed),
           Writers[g.next] = wr => doc = Doc(wr, g.live)
    PROVE  RegenSound(wr, Onward(g), doc, links, changed)
<1>1. /\ Onward(g).live = g.live /\ Onward(g).todo = g.todo /\ g.todo = {}
      /\ Onward(g).pc \in {"write", "done"}
      /\ Onward(g).pc = "write" => Onward(g).next = g.next + 1
      /\ Onward(g).pc = "done" => g.next = Len(Writers) /\ Onward(g).next = g.next
  BY OnwardType DEF Onward, RegenSound, Regens
<1>2. g.next \in Nat /\ DOMAIN Writers \subseteq Nat
  BY MetadataSyncAssumption DEF MetadataSyncAssumption, Regens
<1>3. ASSUME NEW k \in Passed(Onward(g))
      PROVE  k \in Passed(g) \/ k = g.next
  <2>1. k \in DOMAIN Writers /\ k \in Nat
    BY <1>2 DEF Passed
  <2>2. k < g.next \/ k = g.next
    BY <1>1, <1>2, <2>1 DEF Passed
  <2>3. \A n \in DOMAIN Writers : n < g.next => n \in Passed(g)
    BY DEF Passed
  <2> QED
    BY <2>1, <2>2, <2>3
<1>4. \A k \in Passed(Onward(g)) : Writers[k] = wr => doc = Doc(wr, g.live)
  BY <1>3 DEF RegenSound
<1> QED
  BY <1>1, <1>4 DEF RegenSound

LEMMA SoundStep ==
    ASSUME NEW wr \in WriterSet
    PROVE  TypeOK /\ Placed /\ Alone /\ Sound(wr) /\ [Next]_vars => Sound(wr)'
<1> SUFFICES ASSUME TypeOK, Placed, Alone, Sound(wr), [Next]_vars, ~raced', wr \notin failed'
             PROVE  /\ \A w \in Goroutines : InRegen(w)' => Knows(wr, w)'
                    /\ (life = "serve" /\ NobodyInRegen)' => Settled(wr)'
  BY DEF Sound
<1>0. /\ ApiTypeOK /\ GenTypeOK
      /\ gen \in [Goroutines -> {NotInRegen} \union Regens]
      /\ DOMAIN file = WriterSet
      /\ kernel \in [Ifaces -> Params] /\ unseen \in [Ifaces -> BOOLEAN]
      /\ Main \in Goroutines
  BY DEF TypeOK, SyncTypeOK, GenTypeOK, FileTypeOK, FlagTypeOK, ApiTypeOK, Goroutines
\* Steps that leave regen alone: a link that changes is marked.
<1>1. ASSUME UNCHANGED <<gen, file, raced, failed, life>>,
             \A i \in Ifaces : unseen'[i] \/ (kernel'[i] = kernel[i] /\ ~unseen[i])
      PROVE  /\ \A w \in Goroutines : InRegen(w)' => Knows(wr, w)'
             /\ (life = "serve" /\ NobodyInRegen)' => Settled(wr)'
  <2>1. ASSUME NEW w \in Goroutines, InRegen(w)'
        PROVE  Knows(wr, w)'
    <3>1. Knows(wr, w)
      BY <1>1, <2>1 DEF Sound, InRegen
    <3> QED
      BY <1>1, <3>1 DEF Knows, RegenSound, Passed
  <2>2. ASSUME (life = "serve" /\ NobodyInRegen)', NEW i \in Ifaces, ~unseen'[i]
        PROVE  file'[wr][i] = Doc(wr, kernel')[i]
    <3>1. Settled(wr)
      BY <1>1, <2>2 DEF Sound, NobodyInRegen, InRegen
    <3>2. kernel'[i] = kernel[i] /\ ~unseen[i]
      BY <1>1, <2>2
    <3>3. i \in DOMAIN kernel /\ i \in DOMAIN kernel'
      BY <1>0, ApiTypingStep, StepOfParts DEF ApiTypeOK
    <3>4. Doc(wr, kernel')[i] = Doc(wr, kernel)[i]
      BY <3>2, <3>3, DocEntry
    <3> QED
      BY <1>1, <3>1, <3>2, <3>4 DEF Settled
  <2> QED
    BY <2>1, <2>2 DEF Settled
<1>2. ASSUME NEW w \in Goroutines, Enter(w), life' # "serve" \/ w \in Workers
      PROVE  /\ \A v \in Goroutines : InRegen(v)' => Knows(wr, v)'
             /\ (life = "serve" /\ NobodyInRegen)' => Settled(wr)'
  <2>1. gen'[w] = [pc |-> "read", todo |-> Ifaces, live |-> NothingRead, next |-> 1]
    BY <1>0, <1>2 DEF Enter
  <2>2. \A v \in Goroutines : InRegen(v)' => v = w
    BY <1>0, <1>2 DEF Enter, InRegen
  <2>3. InRegen(w)'
    BY <2>1 DEF InRegen
  <2>4. Passed(gen[w])' = {}
    BY <2>1, MetadataSyncAssumption DEF Passed, MetadataSyncAssumption
  <2>5. Knows(wr, w)'
    BY <2>1, <2>4 DEF Knows, RegenSound
  <2> QED
    BY <2>2, <2>3, <2>5 DEF NobodyInRegen
\* A goroutine that is in regen is alone there, and what it knows is sound.
<1>3. ASSUME NEW w \in Goroutines, InRegen(w), raced' = raced, wr \notin failed,
             \A v \in Goroutines \ {w} : gen'[v] = gen[v]
      PROVE  /\ \A v \in Goroutines \ {w} : ~InRegen(v)'
             /\ Knows(wr, w)
  BY <1>3 DEF Alone, Sound, InRegen
<1>4. ASSUME NEW w \in Goroutines,
             (\E i \in Ifaces : Read(w, i)) \/ Write(w) \/ Signal(w)
      PROVE  /\ \A v \in Goroutines : InRegen(v)' => Knows(wr, v)'
             /\ (life = "serve" /\ NobodyInRegen)' => Settled(wr)'
  <2>1. InRegen(w) /\ InRegen(w)' /\ raced' = raced
    BY <1>4, StaysInRegen DEF Read, Write, Signal, InRegen, Regens
  <2>2. gen[w] \in Regens /\ \A v \in Goroutines \ {w} : gen'[v] = gen[v]
    BY <1>4, StaysInRegen
  <2>3. ASSUME NEW i \in Ifaces, Read(w, i)
        PROVE  wr \notin failed /\ Knows(wr, w)'
    <3> DEFINE live == Note(gen[w].live, i, kernel[i])
    <3>1. /\ gen'[w].todo = gen[w].todo \ {i} /\ gen'[w].next = gen[w].next
          /\ gen'[w].pc = IF gen[w].todo = {i} THEN "write" ELSE "read"
          /\ gen'[w].live = live /\ failed' = failed
      BY <1>0, <2>3, ReadEffect
    <3>2. Knows(wr, w) /\ gen[w].pc = "read"
      BY <1>3, <2>1, <2>2, <2>3, <3>1 DEF Read
    <3>3. /\ DOMAIN live = DOMAIN gen[w].live \union {i} /\ live[i] = kernel[i]
          /\ \A j \in DOMAIN gen[w].live : j # i => live[j] = gen[w].live[j]
      <4>1. gen[w].live \in Lives /\ kernel[i] \in Params
        BY <1>0, <2>2 DEF Regens
      <4> QED
        BY <4>1, NoteLives
    <3>4. kernel' = kernel /\ \A j \in Ifaces : j # i => unseen'[j] = unseen[j]
      BY <1>0, <2>3 DEF Read, apiVars
    <3> HIDE DEF live
    <3>5. ASSUME NEW j \in Ifaces \ gen'[w].todo
          PROVE  /\ j \in DOMAIN gen'[w].live
                 /\ ~unseen'[j] => gen'[w].live[j] = kernel'[j]
      <4>1. CASE j = i
        BY <3>1, <3>3, <3>4, <4>1
      <4>2. CASE j # i
        <5>1. j \in Ifaces \ gen[w].todo
          BY <3>1, <4>2
        <5>2. j \in DOMAIN gen[w].live /\ (~unseen[j] => gen[w].live[j] = kernel[j])
          BY <3>2, <5>1 DEF Knows, RegenSound
        <5> QED
          BY <3>1, <3>3, <3>4, <4>2, <5>2
      <4> QED
        BY <4>1, <4>2
    <3>6. gen'[w].next = 1 /\ gen'[w].pc \in {"read", "write"}
      BY <3>1, <3>2 DEF Knows, RegenSound
    <3>7. Passed(gen[w])' = {}
      BY <3>6, MetadataSyncAssumption DEF Passed, MetadataSyncAssumption
    <3>8. gen'[w].pc # "read" => gen'[w].todo = {}
      BY <3>1
    <3> QED
      BY <3>1, <3>5, <3>6, <3>7, <3>8 DEF Knows, RegenSound
  <2>4. ASSUME Write(w)
        PROVE  wr \notin failed /\ Knows(wr, w)'
    <3> DEFINE g == gen[w]
               v == Writers[g.next]
    <3>1. /\ kernel' = kernel /\ unseen' = unseen /\ wr \notin failed
          /\ IF v = wr THEN file'[wr] = Doc(wr, g.live) ELSE file'[wr] = file[wr]
      BY <1>0, <2>2, <2>4 DEF Write, NotWritten, AlreadyWritten, Written, apiVars
    <3>2. Knows(wr, w) /\ g.pc = "write"
      BY <1>3, <2>1, <2>2, <2>4, <3>1 DEF Write
    <3>3. RegenSound(wr, g, file'[wr], kernel', unseen')
      BY <3>1, <3>2 DEF Knows, RegenSound
    <3>4. CASE gen'[w] = Onward(g)
      BY <2>2, <3>1, <3>2, <3>3, <3>4, OnwardSound DEF Knows
    <3>5. CASE gen'[w] = [g EXCEPT !.pc = "hup"]
      <4>1. /\ gen'[w].pc = "hup" /\ gen'[w].next = g.next
            /\ gen'[w].todo = g.todo /\ gen'[w].live = g.live
        BY <2>2, <3>5 DEF Regens
      <4>2. \A k \in Passed(gen'[w]) : k \in Passed(g) \/ k = g.next
        BY <4>1 DEF Passed
      <4> QED
        BY <3>1, <3>2, <3>3, <4>1, <4>2 DEF Knows, RegenSound
    <3>6. gen'[w] = Onward(g) \/ gen'[w] = [g EXCEPT !.pc = "hup"]
      BY <1>0, <2>4 DEF Write, NotWritten, AlreadyWritten, Written, Proceed
    <3> QED
      BY <3>1, <3>4, <3>5, <3>6
  <2>5. ASSUME Signal(w)
        PROVE  wr \notin failed /\ Knows(wr, w)'
    <3>1. /\ UNCHANGED <<failed, kernel, unseen, file>>
          /\ gen'[w] = Onward(gen[w])
      BY <1>0, <2>5 DEF Signal, Proceed, apiVars
    <3>2. Knows(wr, w) /\ gen[w].pc = "hup"
      BY <1>3, <2>1, <2>2, <2>5, <3>1 DEF Signal
    <3>3. gen[w].next \in Passed(gen[w])
      BY <2>2, <3>2 DEF Passed, Regens
    <3>4. Writers[gen[w].next] = wr => file[wr] = Doc(wr, gen[w].live)
      BY <3>2, <3>3 DEF Knows, RegenSound
    <3> QED
      BY <2>2, <3>1, <3>2, <3>4, OnwardSound DEF Knows
  <2>6. wr \notin failed /\ Knows(wr, w)'
    BY <1>4, <2>3, <2>4, <2>5
  <2> QED
    BY <1>3, <2>1, <2>2, <2>6 DEF NobodyInRegen
<1>5. ASSUME NEW w \in Goroutines, Leave(w)
      PROVE  /\ \A v \in Goroutines : InRegen(v)' => Knows(wr, v)'
             /\ (life = "serve" /\ NobodyInRegen)' => Settled(wr)'
  <2>1. /\ InRegen(w) /\ gen[w].pc = "done" /\ gen[w] \in Regens
        /\ ~InRegen(w)' /\ \A v \in Goroutines \ {w} : gen'[v] = gen[v]
        /\ UNCHANGED <<raced, failed, file, kernel, unseen>>
    BY <1>0, <1>5 DEF Leave, InRegen, NotInRegen, histVars, Serve, apiVars
  <2>2. Knows(wr, w) /\ \A v \in Goroutines \ {w} : ~InRegen(v)'
    BY <1>3, <2>1
  <2>3. ASSUME NEW i \in Ifaces, ~unseen[i]
        PROVE  file[wr][i] = Doc(wr, kernel)[i]
    <3>1. PICK k \in DOMAIN Writers : Writers[k] = wr
      BY DEF WriterSet
    <3>2. k \in Passed(gen[w])
      <4>1. gen[w].next = Len(Writers)
        BY <2>1, <2>2 DEF Knows, RegenSound
      <4>2. k \in 1..Len(Writers) /\ Len(Writers) \in Nat
        BY <3>1, MetadataSyncAssumption DEF MetadataSyncAssumption
      <4>3. k < Len(Writers) \/ k = Len(Writers)
        BY <4>2
      <4> QED
        BY <2>1, <3>1, <4>1, <4>3 DEF Passed
    <3>3. i \in DOMAIN gen[w].live /\ gen[w].live[i] = kernel[i]
      BY <2>1, <2>2, <2>3 DEF Knows, RegenSound
    <3>4. file[wr] = Doc(wr, gen[w].live)
      BY <2>2, <3>1, <3>2 DEF Knows, RegenSound
    <3>5. i \in DOMAIN kernel
      BY <1>0
    <3> QED
      BY <3>3, <3>4, <3>5, DocEntry
  <2> QED
    BY <2>1, <2>2, <2>3 DEF Settled
<1>6. CASE CrashStep \/ RebootStep
  BY <1>6 DEF CrashStep, RebootStep, Crash, Reboot, NewProcess, InRegen, NotInRegen
<1>7. ASSUME NEW i \in Ifaces, PreshapeStep(i)
      PROVE  /\ UNCHANGED <<gen, file, raced, failed, life>>
             /\ \A j \in Ifaces : unseen'[j] \/ (kernel'[j] = kernel[j] /\ ~unseen[j])
  BY <1>0, <1>7 DEF PreshapeStep, SkipPreshape, Preshape, Applied, Touch, KeepSync, syncVars
<1>8. ASSUME NEW h \in Handlers, Request(h)
      PROVE  /\ UNCHANGED <<gen, file, raced, failed, life>>
             /\ \A j \in Ifaces : unseen'[j] \/ (kernel'[j] = kernel[j] /\ ~unseen[j])
  BY <1>0, <1>8 DEF Request, PutRead, Delete, Applied, Touch, KeepSync, syncVars
<1>9. ASSUME NEW h \in Handlers, ApplyStep(h)
      PROVE  /\ UNCHANGED <<gen, file, raced, failed, life>>
             /\ \A j \in Ifaces : unseen'[j] \/ (kernel'[j] = kernel[j] /\ ~unseen[j])
  BY <1>0, <1>9 DEF ApplyStep, PutApply, PutApplyFails, Applied, Touch, KeepSync, syncVars
<1>10. ASSUME UNCHANGED <<gen, file, raced, failed, life, kernel, unseen>>
       PROVE  \A j \in Ifaces : unseen'[j] \/ (kernel'[j] = kernel[j] /\ ~unseen[j])
  BY <1>0, <1>10
<1>11. ASSUME NEW h \in Handlers, NotifyStep(h)
       PROVE  UNCHANGED <<gen, file, raced, failed, life, kernel, unseen>>
  BY <1>11 DEF NotifyStep, Notify, KeepSync, syncVars
<1>12. CASE EnterMain \/ \E w \in Workers : EnterWorker(w)
  <2>1. PICK w \in Goroutines : Enter(w) /\ (life' # "serve" \/ w \in Workers)
    BY <1>0, <1>12 DEF EnterMain, EnterWorker, Preshaped, Goroutines
  <2> QED
    BY <1>2, <2>1
<1> QED
  BY <1>1, <1>4, <1>5, <1>6, <1>7, <1>8, <1>9, <1>10, <1>11, <1>12
     DEF Next, Clock, Reload, KeepSync, vars, syncVars, histVars, apiVars

\* When nothing is under way in linkd, every document tells what the links
\* do, provided the regens since the last one that began alone did not
\* overlap and no read and no write of this document failed in them.
THEOREM PublishedWhenQuiet == Spec => []PublishedAtRest
<1>1. Init => Placed /\ Alone /\ AllSound
  BY DEF Init, ApiInit, CoalescerInit, Placed, Alone, AllSound, Sound, InRegen, NotInRegen, Goroutines
<1>2. TypeOK /\ Placed /\ AllSound /\ NoChangeForgotten => PublishedAtRest
  <2> SUFFICES ASSUME TypeOK, Placed, AllSound, NoChangeForgotten, Quiet, ~raced,
                      NEW wr \in WriterSet \ failed
               PROVE  Published(wr)
    BY DEF PublishedAtRest
  <2>1. NobodyInRegen
    BY DEF NobodyInRegen, Placed, Quiet, Goroutines
  <2>2. \A i \in Ifaces : ~unseen[i]
    <3>1. \A i \in Ifaces : ~WillBeSeen(i)
      BY <2>1 DEF WillBeSeen, Quiet, NobodyInRegen, InRegen, NoRequest, Changed
    <3> QED
      BY <3>1 DEF NoChangeForgotten
  <2>3. \A i \in Ifaces : file[wr][i] = Doc(wr, kernel)[i]
    BY <2>1, <2>2 DEF AllSound, Sound, Settled, Quiet
  <2>4. file[wr] \in Docs(wr) /\ DOMAIN Doc(wr, kernel) = Ifaces
    BY DEF TypeOK, SyncTypeOK, FileTypeOK, Doc
  <2>5. file[wr] = [i \in Ifaces |-> file[wr][i]]
    BY <2>4 DEF Docs
  <2>6. Doc(wr, kernel) = [i \in Ifaces |-> Doc(wr, kernel)[i]]
    BY DEF Doc
  <2> QED
    BY <2>3, <2>5, <2>6 DEF Published
<1>3. TypeOK /\ Placed /\ Alone /\ AllSound /\ [Next]_vars => AllSound'
  BY SoundStep DEF AllSound
<1> QED
  BY <1>1, <1>2, <1>3, SyncTyping, PlacedStep, AloneStep, SyncForgetsNoChange,
     PTL DEF Spec

=============================================================================
