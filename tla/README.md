# Verification of the IETF SCION testbed

TLA+ specifications of the programs in this repository, model-checked with TLC
and proved with TLAPS. Paths are relative to the repository; every definition
that models code is listed with its lines in `PROJECT.json` under `map`.

## 1. The system

The testbed is a set of SCION ASes in containers, joined by links whose delay,
jitter, loss and rate can be changed while it runs.

| Part | State | Operations | Interacts with |
|---|---|---|---|
| **linkd** (`linkd/`), one per AS | the root netem qdisc of each interface, in the kernel; the coalescer; the documents it publishes and their status | preshape at start, `PUT` and `DELETE` of a link's shaping, `GET` of links, health and BGP | the kernel (netlink), the control service and border router (files and SIGHUP), fabricd (HTTP) |
| **fabricd** (`dashboard/backend/`), one | sample rings, band hysteresis, RTT baselines, polled shaping and BGP state, the trace session, the pool of WireGuard confs, connected clients | scrape, poll, derive a frame and broadcast it, fan shaping out to linkd, trace, hand out confs | linkd and idint-probed (HTTP), Prometheus targets, browsers (REST, WebSocket) |
| **idint-probed** (`idint-probed/`), one per AS | a lock | list paths, probe a path | SCION daemon and reflector, fabricd |
| **web page** (`dashboard/web/`) | latest frame, ticker, connection | apply a snapshot or frame, reconnect | fabricd |
| **generators and deployment** (`topology/`, `ansible/`, `proxmox/`, `tools/`) | none at run time | write configuration | everything, offline |

### Where the behaviour is hard, and what is correct

**linkd, shaping API** (`internal/api`, `internal/shape`). Handlers run
concurrently and no lock spans the read of the kernel, the merge and the
apply. The kernel truncates what it is given. *Correct*: whatever interleaves,
every interface holds parameters that `Validate` accepts. The code keeps this but
where the kernel truncates a delay to none (section 6).

**linkd, coalescer** (`internal/staticinfo/coalesce.go`). Callers race the
window's timer; runs of `f` overlap. *Correct*: after every call `f` begins once
more; at most two runs are triggered per window.

**linkd, regen and writers** (`cmd/scion-linkd/main.go`, `internal/staticinfo`,
`internal/topowriter`). A snapshot of the kernel is taken outside the mutex of
the writer it is passed to; reads, writes and signals fail; linkd may die
between any two steps. *Correct*: no change is forgotten on its way to the
documents; at rest they tell what the links do; the services run what is on
disk; `/healthz` does not report more than that.

**fabricd, trace session** (`internal/idint`). A probe runs outside the lock
while the session is replaced or cleared; the prober answers one probe at a
time. *Correct*: what is displayed belongs to the session that is set.

**fabricd, conf pool** (`internal/wgpool`, `internal/api/join.go`). Claims race,
persisting fails, fabricd restarts, an operator edits the state file. *Correct*:
no conf is handed out twice, a burned one never.

**fabricd, limiter** (`internal/ratelimit`). *Correct*: a client is let in at most
`max` times in any window, and is refused only while what it was allowed in the
last window uses that up.

**fabricd, store, baselines and derivation** (`internal/store`, `internal/derive`,
`cmd/fabricd/main.go`). The minimum of a series must survive the ring that it is
taken from and the process, while a goroutine seeds and saves beside the frames;
fabricd may die, a save may fail, the file may be unreadable or removed by the
operator. Bands change after three equal frames, whoever asked for those.
*Correct*: a baseline never rises and is never below what was measured since the
reset; a committed band was asked for by three frames in a row; strip and map
count alike; the ring is the tail of what was put.

**fabricd, hub** (`internal/api`) and **web page**. Clients come, go and stall
while frames are broadcast and a poll is under way. *Correct*: a client sees a
snapshot first and, from its first frame on, every frame; a poll never replaces
what a later one set; a page whose connection broke is fed again.

**fabricd, linkd client and overlay** (`internal/linkdclient`,
`internal/bgppath`). The linkds of a link's ends are asked one after the other;
a call is refused, its answer is lost, or linkd acts on it after fabricd gave it
up. Polls ask linkd by linkd while things move. *Correct*: what is not as asked is
named in the results; what is shown is what some linkd said since the poll began;
a badge needs both ends; the path drawn is one that routes follow.

**idint-probed and the view of a probe** (`idint-probed/prober`,
`internal/idint`). Border routers may omit their record; hop fields map to ASes
by the lengths of the segments, on the way back reversed. *Correct*: what is shown
of a link was written by the router that sent the probe over it, or nothing is
shown.

`PROJECT.json` lists every hazard at its line with the properties that cover it.

## 2. Plan

In the order in which it was carried out:

1. linkd: `Requests`, `Coalescer`, `ShapingApi`, `MetadataSync`, with proofs.
2. `TraceSession` against `TraceView`, with proofs.
3. `WgPool`, with proofs; then `RateLimit`, and `ClaimApi` which composes the two
   and implements `WgPool`.
4. `SampleRing` against `SampleTail`, `Baselines`, `Derive`, and `Deriver` which
   composes them, with proofs.
5. `LiveHub`, with proofs.
6. `HopIndex` and `ProbePath` on it, with proofs.
7. `LinkdApply` and `LinkdPoll` over `Fabric`, composed in `Control`, with proofs.

Left: the communities and filters that `topology/gen_bird.py` emits, as the policy
behind the routes of `LinkdPoll`.

## 3. Modules

`Requests.tla` is the abstract specification of a coalescing wrapper: a request
is served by an activation that begins after it.

`Coalescer.tla` is `coalesce.go`. `timer` is the pending timer with the time
since it was armed, `dirty` the flag, `run` what each goroutine (callers and
the runtime's timer goroutines) does about `f`: "start" is the gap between the
unlock and the first statement of `f`. `owed` and `ages` record history. A
timer expires at the end of its window or later. `Contract` instantiates
`Requests`.

`ShapingApi.tla` is `api.go`, `shape/` and the start of `main`. A qdisc is a
partial function from the four fields to numbers. `put` is two actions, the
read with merge and validation, and the apply; `changed()` is a third. A handler
that refuses a request before it changes anything takes no step. What the kernel
keeps of a value, in its own units and back, is the constant `Kept`: it may take any
value to zero. `cut` records the interfaces whose latest parameters lost their delay
that way.
`Crash` keeps the qdiscs, `Reboot` loses them.

`MetadataSync.tla` composes the two with `regen`, the writers (one for the
control service, one for the border router, run in the order of `Writers`) and
the services. `gen` holds each goroutine's place in `regen`, `file` and `loaded`
the documents on disk and in the services. A document is what one writer
publishes per interface; `Shows` gives the numbers it derives from live values
and `Base` those of the base document. `Write` is atomic up to the signal, as
the mutex makes it, and `Free` keeps the mutex during the signal. The two
writers are the same code but for the fields they publish, so they are one set
of actions. `unseen` and `raced` record history; `failed` records which writers a
failed read or write has concerned since a regen last began alone; and `hupLost`, for
each writer, whether the signal of its latest rewrite was lost while its status said
so ("reported"), or nothing says so any more ("forgotten").

`TraceView.tla` is what a viewer of a trace is promised: the session that is set
and a path that answers it, which a failure does not take away.

`TraceSession.tla` is `idint.go` with the HTTP prober and the sidecars behind
it. `sess` is the session, to which a number is added as history; `vm` and
`latest` are kept apart from it as they are by the manager. Each goroutine of
`tick` is at a place of `TickOnce`: "start", "sent" and "asked" (the call is on
its way, or the sidecar works on it), "back" (the lock is to be taken again),
"done" (the deferred reset). A path is a model value, the telemetry that can
fail to match it the choice between `ShowFailure` and `ShowResult`. `busy` is
each sidecar's mutex; a request its client has given up may arrive (`late`) and
run on. `View` instantiates `TraceView`.

`WgPool.tla` is `wgpool.go` with the part of `handleJoinClaim` that follows the
claim. `mem` is the store's state, `disk` the file; `Taken` stands for the map
`taken`, which always equals claims and burns. `req` is a handler inside `Claim`
("saving") or after it ("claimed"). The temporary file is not a variable: until
it is renamed nothing reads it. `edit` is an editor that was opened on the file;
`Careful` says that this happens only while fabricd is stopped.

`RateLimit.tla` is `ratelimit.go`. A client's hits are counted by age, those of
exactly the window's length apart from the ones within; `granted` is the history they
are compared with. `ClaimApi.tla` is `handleJoinClaim`: `gate`
holds the requests that the limiter and the checks of body, code and AS have let
through; its other steps are those of `WgPool` or `RateLimit`. The limiter forgets
everything with the process.

`SampleTail.tla` is what the store promises, a bounded sequence; `SampleRing.tla`
is the ring of `store.go`, with its index arithmetic. `Tails` in `Baselines`
relates the two.

`Baselines.tla` is the store as the scrapers fill it, the minimum that each frame
takes (`Frame`), and `runBaselinePersistence`: `Seed`, the two halves of a save,
the save on SIGTERM and the end of the process. `life` is how far fabricd has
come. `seen`, `kept` and `least` record history. The steps of `Frame` and of the
persistence interleave, as only the deriver's lock orders them.

`Derive.tla` holds the band functions with their thresholds and the hysteresis
(`Commit`) of a link as operators on a record of what the ends report.
`Deriver.tla` composes them with `Baselines`: `DFrame` is a whole frame, which
takes the minima and then steps every link. Which reading the gauges other than
the RTTs give is chosen per frame from `Wires`, what linkd declares from
`Declared`. `kpi` is what the strip counts as up, `run` the history of the bands.

`LiveHub.tla` is `RunBroadcast` with its frames and polls, `broadcast` and `handleLive`, with
`api.ts` at the other end. The broadcaster builds a frame, stores it, copies the
hub's clients and writes to them one after the other. A handler builds or takes a
frame, writes its snapshot, registers, and reads until the socket closes. `sock`
is "stuck" when nothing is read and no close has come. Frames are told by their
distance (`lag`), polls by theirs (`age`). A page reconnects only once the
broadcast under way has passed its old connection, so that one connection per
page is enough.

`HopIndex.tla` is `convert.go`: the index of a hop field's interface and AS in the
path's metadata, beside what SCION says it is (`AsAt`). `ProbePath.tla` is a probe
over it: the order of the paths (`Better`), the choice, the packet whose records
border routers write or leave out on the way there and back, the hops `buildVM`
makes of them, and the list a pin is chosen from. The metadata that snet gives with a
path have a latency for each two interfaces that follow each other
(`PathAssumption`).

`Fabric.tla` is the topology. `LinkdApply.tla` is `Apply` under `handleShaping`,
`handleReset` and the reset of all links: a request is a queue of ends and
the results so far; a call ends as answered, failed, lost after it took effect, or
given up before linkd acts on it (`late`). `meant` and `alone` record what was
asked and whether anybody else changed those ends. `LinkdPoll.tla` is `Poll`,
`PollBGP`, the joins of what the linkds answered, the badge, and `Walk` of
`bgppath.go`. `moved` records which ASes changed since a poll first asked.
`Control.tla` composes the two: requests and polls run beside each other, others
reshape ends and BGP converges, and each change is noted in the histories of both.

Each `MC*.tla` gives the constants their values. `MCLinkd.tla` runs `Coalescer` and
`ShapingApi` each by itself, as the choice of `scene` says; its `Kept` truncates as the
kernel does. `MCControl.tla` also restricts:
requests and polls meet only in `shape`, so `Reshape` of one end stands for every step
by which a request can change what a poll reads, and each behaviour has one kind of
change (`scene`). The theorems are about `ControlSpec`, which has no scenes.
Each `*_proofs.tla` holds the theorems of its module and of the parts it is composed
of: `Linkd_proofs` those of `Coalescer` and `ShapingApi`, `WgPool_proofs` those of
`RateLimit` and `ClaimApi` too, `ProbePath_proofs` those of `HopIndex` too.
Operators introduced as "Mutant of" are variants of the definition after them with
a plausible bug; each property is known to fail with one of them in the place of
its original.

## 4. Runs

| Run | Checks | Bounds and what it shows |
|---|---|---|
| `linkd_parts` | `NoLostCall`, `AtMostTwoPerWindow`, `KeepsContract`, `InvalidOnlyIfCut` | the coalescer: two callers, two timer goroutines, a window of three ticks, so calls before, within and after a window, late timers, overlapping runs. The API: two interfaces, one with a baseline; two handlers; delays of none, less than a microsecond, a microsecond, milliseconds and out of range. Both orders of any two requests, with crashes between. 580 000 states |
| `sync` | `PublishedAtRest` | two interfaces, one with a baseline, so that changes fall before and behind regen's loop, and both writers; a handler and a timer goroutine. A window may end at once (`Window = 0`), so runs overlap freely; reads and either writer may fail. 2.8 million states |
| `sync_live` | `NoChangeForgotten`, `ServiceCurrent`, `EveryChangeSeen` | one interface with a baseline, one writer with a service whose signal may fail, one crash or reboot; fairness as below. 128 000 states |
| `trace` | `ShownBelongsToSession`, `OneTickAtATime`, `KeepsView`, `SessionAnswered` | three ASes, two paths for one pair and one for another, sessions with and without a pin; two sessions set at any time, two goroutines, restarts. 33 000 states |
| `pool` | `NoSlotTwice`, `AnsweredIsOnDisk`, `BurnedStaysBurned`, `WindowIsKept` | three slots, three requests of two clients, two hits in a window of two ticks; any number of restarts and burns. 273 000 states |
| `deriver` | `BaselineOutlives`, `ResetForgets`, `BandSettles`, `BandIsSteady`, `KpiMatchesMap`, `ShapedStaysShaped`, `KeepsTail` | one link, rings of two samples, RTTs of nothing, 1 ms and 20 ms, a router that falls silent, a loss; any number of restarts. A ring rolls over twice before a band changes. 117 000 states |
| `hub` | `RegisteredIsGreeted`, `NoFrameMissed`, `PollsInOrder`, `PageComesBack`, `BrokenLeaves`, `PollsGoOn` | two pages, distances cut off at two (`Beyond`), one more than the invariants allow. 62 000 states |
| `probe` | `TypeOK`, `HopsOnTheirLinks`, `PinIsKept`, `BestIsProbed` | a path of one segment, one of three, one over a peering link with an unknown latency; each known to sciond or not at any time; each router writes any of its records. 748 000 states |
| `control` | `ControlTypeOK`, `ShownWasTrue`, `BadgeIsAgreed`, `PathIsRouted`, `HalfIsNamed`, `Answered`, `SettledIsShown` | three ASes in a line, two requests, two changes under the feet of the polls (`MaxMoves`), one late call (`MaxLate`). 304 000 states |
| `shaping_fine`, `sync_race`, `pool_runbook` | one property each | violated: see section 6 |

A handler, `main` and a timer goroutine are enough in `sync` for two overlapping
regens and a change behind both; `sync_race` has a second handler. One unit per
field distinguishes set from unset and old from new. The second session of `trace`
is what a probe of the first comes back to, by the same or another goroutine, and
one more session would meet the same ticks again; `pool` uses up its slots. One
link is enough for `deriver`, as links meet only in the set `kpi`; two pages for
`hub`, as one of them stalls or leaves while the other is written to. Three ASes are
the least with an AS in the middle of a path, whose answer can be missing or stale.
All invariants of the runs that pass are also theorems (section 5), for any number of each. Of
the types, which are theorems too, only `probe` and `control` check theirs again.

**Fairness.** Goroutines are scheduled, expired timers run, `systemctl` is
bounded by `signalTimeout`: weak fairness. Waiting for a writer's mutex has
strong fairness: a Go mutex hands itself over to a waiter that has starved for a
millisecond. In
`TraceSession` the ticker ticks, goroutines run, and the HTTP client's timeout
of two seconds (`cmd/fabricd/main.go`) ends every call (`GiveUp`); sidecars need
not answer. In `LiveHub` every write to a client ends within its deadline
(`writeWait`), linkd's calls within theirs, and a page tries again
(`api.ts`); a read ends only once its socket is closed. The poll tick has strong
fairness, because it finds a poll in flight at times and the ticker keeps ticking.
In `LinkdApply` and `LinkdPoll` every call and poll ends, with the client's timeout
if not before. Nothing is assumed of clients, crashes or failures, except that the
crashes of `MetadataSync` are bounded by `MaxCrashes`, and what a liveness property
states as its premise.

## 5. Proofs

| Theorem | States |
|---|---|
| `CoalescerTyping`, `CoalescerLosesNoCall`, `CoalescerBounded` | the coalescer's three safety properties, for any callers, timers and window |
| `CoalescerKeepsContract` | every step of the coalescer is one of `Requests` or a stutter |
| `ApiTyping`, `KernelStaysValid` | the API's types, and `InvalidOnlyIfCut`, for any interfaces, handlers, bodies and units of the kernel |
| `LinkdJoinsItsParts`, `LinkdKeepsContract` | every behaviour of the whole daemon is one of the API and one of the coalescer, and takes only steps of `Requests` or stutters |
| `SyncTyping`, `LinksStayValid` | types of the whole, and `InvalidOnlyIfCut` in it |
| `SyncForgetsNoChange` | `NoChangeForgotten` |
| `ServiceStaysCurrent` | `ServiceCurrent` |
| `PublishedWhenQuiet` | `PublishedAtRest` |
| `TraceTyped`, `DisplayBelongs`, `TicksDoNotOverlap` | the trace session's three invariants, for any ASes, paths and goroutines |
| `ManagerImplementsView` | every behaviour of the manager is one of `TraceView` |
| `PoolTyped` | types of the pool |
| `NoConfTwice`, `ClaimsPersist`, `BurnsPersist` | the pool's properties for any slots and requests, assuming `Careful` |
| `HandlerImplementsPool` | every behaviour of `ClaimApi` is one of `WgPool`, so these hold of it |
| `HandlerTyped`, `WindowsAreKept` | types of the handler and the limiter; `WindowIsKept`, for any window, limit and clients |
| `DeriverTyped`, `BaselinesOutlive`, `ResetsForget` | the baselines, for any links, RTTs and capacity; the third assumes `Careful` |
| `BandsSettle`, `BandsAreSteady`, `KpiAndMapAgree`, `ShapedLinksStayShaped` | the bands, for any readings |
| `RingsImplementTails` | every behaviour of the store's rings is one of `SampleTail` |
| `HubTyped`, `GreetedBeforeRegistered`, `FramesReachAll`, `PollsStayInOrder` | the hub's invariants, for any number of pages |
| `FwdIAIsRight`, `RevIAIsRight` | a hop field is attributed to its AS within the list of interfaces, for any legal lengths of segments, peering included |
| `PathTyped`, `HopsAreOnTheirLinks`, `PinsAreKept`, `TheBestIsProbed` | the safety properties of a probe, for any paths and whatever records are left out; what is on offer is finite, the paths need not be |
| `ControlTyped`, `WhatIsShownWasTrue`, `HalvesAreNamed`, `BadgesAreAgreed`, `PathsAreRouted` | the safety properties of requests and polls beside each other, for any finite topology, requests and reports |

`CoalescerBounded` rests on `Paced`: a pending timer is as
old as the latest trigger, and if none is pending, the trigger before the latest
is a window old. `InvalidOnlyIfCut` is inductive together with `PendingValid`, a
request's merged parameters are valid although the interface has changed since: what
the kernel makes of valid parameters is within their ranges, and is valid if their
delay was not cut.

`ServiceStaysCurrent` and `PublishedWhenQuiet` share `Placed`, which ties a
goroutine's place in `regen` to its place in the coalescer and in the start of
the daemon. `AllAccounted` says of each service that it has the document, a
signal or a goroutine about to send one, or that the signal was lost and the status
says so, or that this was forgotten: by a restart, or by a regen that found the document
on disk. `Alone` says that without a
race at most one goroutine is in `regen`; `Sound` says of each
writer that has not failed, whatever became of the others, what that one goroutine
knows: each interface it has passed is unchanged since, or is in `unseen`, and the
writer, once passed, holds the document of what it read. When the goroutine leaves,
nothing is unseen and the document is that of the kernel.

`DisplayBelongs` needs `ResultsFit`: a result on its way back answers the copy of
the session its tick has made; `Current` then makes it answer the session that
is set. The same two facts map each way a probe lands to a step of `TraceView`.

`NoConfTwice` follows a slot: `FileKnown` says that a running fabricd knows all
of the file and that an open editor keeps fabricd away; `SlotsHeld` that a
request has a slot of its own, unanswered and not burned, and in the file once
it is claimed. Without `Careful` the first is false, and so is the theorem.

`BaselineOutlives` needs what lies between memory and file: `SeenIsKept` relates the
copy that a save has under way to both, so that the file never gets a minimum above
what is recorded as saved, and `OnlyTheSeen` is its converse for
`ResetForgets`. Both are stated with `NotAbove`, an order on maps of minima, of
which `MergeMin` is the meet (`MergeLower`, `MergeGreatest`); a frame is the meet
with the rings' minima (`FrameMerges`). Without `Careful`, `ResetForgets` is
false (section 6). `BandSettles` follows from `Settling`: a candidate has come as
far as the frames in a row that ask for it. `ShapedStaysShaped` is `DueIsMet`: a band is
the worst of what its ends ask for, and a lower baseline asks for no better one
(`LowerIsWorse`). `PutIsNewest` compares a ring that is full or not, before and
after the turn of its index, with the sequence.

`NoFrameMissed` rests on `TodoFits`: whom a broadcast has yet to write to is in the
hub or has left, so no page on its way in is among them, and on `HandlersFit`, what
a handler has done by each of its steps. `PollsInOrder` rests on `PollFits`: one
poll at most, whose step tells which values it has set.

`WindowIsKept` compares the hits recorded of a client with the calls it was granted: at
every age in the window the two are equal (`Kept`), and their sum is at most the
limit, even with the hits that have left the window and wait to be purged. A call
granted adds one at age zero, where the check has left room (`SumsGrow`), and one
refused finds the limit used up by granted calls alone; ageing
shifts the sum and loses its oldest term (`AgeingLosesOnly`). The sum is a recursive
function of the ages, and these lemmas are proved by induction over them.

`HopsOnTheirLinks` has to find a record's link although any other record may be
missing. A packet carries what its routers wrote in the order of the links
(`Carried`): each record written as the packet left an AS is of a later link than those
before it, on the way back of an earlier one. `buildVM` takes the records of a path
only if they are as many as the links, and then the k-th is of link k, since N places
out of N in strictly ascending order leave none out (`Filled`). `FwdIAIsRight` and
`RevIAIsRight` give its AS. `BestIsProbed` is about a sort that is never seen at
work: `Better` is an order that compares totals only where both are known
(`BetterIsAnOrder`), no two paths of an offer have the same place, and so in a finite
offer every place is taken and a first path exists (`PlacesAreTaken`,
`FirstIsFastest`).

In `Control`, `ShownWasTrue` rests on `AnswersHold`: what a linkd has answered is what
it holds, or it has changed since the poll began, which `moved` notes. A join hands
both on to what is shown, and `JoinHolds` says the same of sessions and routes.
`HalfIsNamed` rests on `RequestHolds`: the ends a request was meant for are those to
do, done and failed, and while it is alone each end that is done and not failed is as
asked. A call that comes late is anybody's, so nobody is alone after it.
`PathIsRouted` follows `Walk` hop by hop (`HopDraws`): the path so far visits no AS
twice and goes where the answers say, so that it ends after at most as many turns as
there are ASes (`WalkIsDrawn`).

Induction over numbers, where these need it, rests on one lemma (`Counting`): a set of
numbers that has zero and with each number the next has all of them. It follows from
< being well-founded on the numbers, with a set in the place of a predicate.

Assumptions are those stated by name in the modules (`CoalescerAssumption`,
`ShapingApiAssumption`, `MetadataSyncAssumption`, `TraceAssumption`,
`PoolAssumption`, `LimitAssumption`, `RingAssumption`, `BaselinesAssumption`,
`DeriverAssumption`, `PathAssumption`, `FabricAssumption`, `ApplyAssumption`,
`PollAssumption`), and `Careful` where it is written. Of the kernel's units,
`ShapingApiAssumption` asks only that zero reads back as zero and that a legal value
reads back as a legal one or as zero.

Only model-checked are the liveness properties (`EveryChangeSeen`,
`SessionAnswered`, `PageComesBack`, `BrokenLeaves`, `PollsGoOn`, `Answered`,
`SettledIsShown`) and the fairness of `KeepsContract`, which are beyond the
prover's reach. Its safety part is `CoalescerKeepsContract`.

## 6. Where code and documentation disagree

Three runs show it:

1. `PublishedAtRestDespiteRaces` (`sync_race`): the mutex that `coalesce.go:20-23`
   relies on orders the writes, not the snapshots; the older one can be last.
2. `NoSlotTwice` without `Careful` (`pool_runbook`): the runbook
   (`DEPLOY.md:848`) edits the state file while fabricd runs. The editor's save
   takes back a claim made meanwhile, whose slot is reissued after the restart;
   a claim made before the restart takes back the burn. `wgpool.go:3-6` promises
   otherwise. `systemctl stop fabricd` before the edit is enough (`NoConfTwice`).
3. `KernelValid` (`shaping_fine`): `Apply` truncates the delay to whole microseconds
   (`netlink.go:32`), so a delay below one, which `Validate` takes for positive, is
   none in the kernel while its jitter stays: a state that `shape.go:38` forbids, and in
   which every `PUT` that names neither of the two is refused. In the run nobody has to
   ask for such a delay: one microsecond reads back as 0.96 of one, and the merge of the
   next `PUT` applies that. Nothing else makes an interface invalid (`KernelStaysValid`).

The same models show, with other constants or properties:

- `put` applies the whole merged document, so of two requests the second takes
  back what the first changed in between; `dashboard/web/src/shaping.ts:7-9`
  describes a merge over the *current* state.
- A document that is on disk counts as loaded, so a failed signal is forgotten by
  the next `regen`, against `staticinfo.go:69` and `107`; and a linkd that dies between
  rename and signal leaves its successor nothing to tell it from. `ServiceCurrent`
  leaves out just these two cases, as `hupLost = "forgotten"`; without its last line it
  fails.
- With `Careful = FALSE`, `ResetForgets` fails: a baselines file removed while
  fabricd runs comes back with the next save (the config key's comment,
  `cmd/fabricd/main.go:84-87`, asks to delete it "before restarting fabricd").
- A call that linkd acts on after fabricd has given it up may undo a later reset,
  whose results said it succeeded; `HalfIsNamed` holds of requests that are alone.

Found by reading, not by a run:

- `DEPLOY.md:870` counts on a regenerated pool to free capacity, but the slots keep
  their numbers and no playbook removes the state file, so every slot claimed
  before stays taken (`wgpool.go:68`). The file is renamed into place without being
  synced (`wgpool.go:114`): a power loss of the host can lose claims.
- `Rate` leaves idle intervals out of its time, so equal traffic that two ends see
  split differently over the samples can read as loss (`store.go:152`).
- Clients are written to one after the other with a deadline each, so several that
  do not read delay the rest by the sum (`api.go:547-563`).
- A client that connects before the first broadcast makes a frame of its own, which
  counts for the hysteresis (`api.go:377`), and may be newer than the first frame
  broadcast. The properties of the bands count frames whoever asks for them, so they
  hold with it.
- Frames between a client's snapshot and its registration are not sent to it
  (`api.go:374-386`); `NoFrameMissed` counts from its first frame on.
- A link is shown with the shaping of its side A, and as unshaped when that linkd
  does not answer (`client.go:121`); `ShownWasTrue` allows for it.
- A page whose connection stalls without a close keeps showing itself as live
  (`api.ts` has no watchdog), and a band that changed while a page was disconnected
  does not reach its ticker.
- The limiter keeps a key for every client it has ever seen (`ratelimit.go:18`).
- `GET` of the trace reads the view and the raw result in two sections of the lock
  (`api/idint.go:78`). Delay and jitter read back through the kernel's clock ticks
  drift by microseconds with every merge (`netlink.go:69`).

## 7. What is not modelled

Formats and parsing, the JSON of answers, logging, the netlink protocol, the
rounding of units beyond `Kept`. `GET` handlers change no state. linkd's other
parts (`bgpstatus`, configuration and topology loading) read files or `birdc`
output under one lock; what `bgpstatus` answers is an input of `LinkdPoll`. Of the
store, `Rate` is an input of `Derive`; of the scraper, the text format and HTTP are
left out. Of the derivation, sums that only the strip shows are left out. Of the web
page, rendering, the ticker and the forms. A trace's telemetry values and the
listing of paths over HTTP. A host's power loss. Mock mode, fabricd's handlers
without state (instructions, bundle, booth code, playground proxy), the topology
loader, the generators and the deployment scripts run once or keep no state.
