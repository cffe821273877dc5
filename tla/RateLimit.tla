------------------------------ MODULE RateLimit -----------------------------
(***************************************************************************)
(* The sliding window that throttles the claims                            *)
(* (internal/ratelimit/ratelimit.go).  Time is told by ages, in ticks: how *)
(* long ago a call was recorded.  What is Window old or older has left the *)
(* window, and stays recorded until the client's next call.                *)
(***************************************************************************)
EXTENDS Integers

CONSTANTS Clients,      \* limiter keys: addresses, or IPv6 networks
          MaxHits, Window

ASSUME LimitAssumption == MaxHits \in Nat /\ Window \in Nat \ {0}

VARIABLES hits,         \* Limiter.hits: how many of each age are recorded
          granted       \* history: how many were allowed in each tick of the window

limiter == <<hits, granted>>

Ages == 0 .. Window
InWindow == 0 .. Window - 1

None == [a \in Ages |-> 0]

LimitInit ==
    /\ hits = [c \in Clients |-> None]
    /\ granted = [c \in Clients |-> None]

\* How many are younger than age n.
Sum(h, n) ==
    LET sum[k \in 0 .. n] == IF k = 0 THEN 0 ELSE sum[k - 1] + h[k - 1]
    IN  sum[n]

\* Mutants of Recent: the cutoff is a tick too late; what is exactly as old as
\* the window, and what is older and not yet purged, counts.
RecentMissesOldest(h) == Sum(h, Window - 1)
RecentWithOldest(h) == Sum(h, Window + 1)

\* How many have an age in the window.
Recent(h) == Sum(h, Window)

Purged(h) == [h EXCEPT ![Window] = 0]
Counted(h) == [h EXCEPT ![0] = @ + 1]

\* Mutant of Grant: one call too many.
GrantOneMore(c) ==
    /\ Recent(hits[c]) <= MaxHits
    /\ hits' = [hits EXCEPT ![c] = Counted(Purged(@))]
    /\ granted' = [granted EXCEPT ![c] = Counted(@)]

\* Allow: there is room in the window, and the call is recorded.
Grant(c) ==
    /\ Recent(hits[c]) < MaxHits
    /\ hits' = [hits EXCEPT ![c] = Counted(Purged(@))]
    /\ granted' = [granted EXCEPT ![c] = Counted(@)]

\* Mutant of Refuse: a refused call is recorded.
RefuseRecorded(c) ==
    /\ Recent(hits[c]) >= MaxHits
    /\ hits' = [hits EXCEPT ![c] = Counted(Purged(@))]
    /\ UNCHANGED granted

\* Allow: there is no room, and nothing is recorded.
Refuse(c) ==
    /\ Recent(hits[c]) >= MaxHits
    /\ hits' = [hits EXCEPT ![c] = Purged(@)]
    /\ UNCHANGED granted

Aged(h) == [a \in Ages |-> IF a = 0 THEN 0
                           ELSE IF a = Window THEN h[a] + h[a-1]
                           ELSE h[a-1]]

LimitTick ==
    /\ hits' = [c \in Clients |-> Aged(hits[c])]
    /\ granted' = [c \in Clients |-> [Aged(granted[c]) EXCEPT ![Window] = 0]]

-----------------------------------------------------------------------------
Tallies == [Clients -> [Ages -> 0 .. MaxHits]]
LimitTypeOK == hits \in Tallies /\ granted \in Tallies

\* "fewer than max events fall within the trailing window", and otherwise Allow
\* "denies without recording" (ratelimit.go): of no client are more calls allowed
\* within the length of a window; and a client that Allow would refuse has been
\* allowed as many within the window, so that one who keeps trying is let in
\* again the moment they have aged.
WindowIsKept ==
    \A c \in Clients :
        /\ Sum(granted[c], Window) <= MaxHits
        /\ Recent(hits[c]) >= MaxHits => Sum(granted[c], Window) = MaxHits
=============================================================================
