------------------------------- MODULE WgPool -------------------------------
(***************************************************************************)
(* fabricd's pool of WireGuard confs (internal/wgpool/wgpool.go), the      *)
(* requests that claim one (internal/api/join.go) and the operator who     *)
(* burns slots in the state file by hand (DEPLOY.md, "Revoke a conf").     *)
(* A claim is taken in memory, then saved, then answered; any of these     *)
(* fails, and fabricd stops between them.                                  *)
(***************************************************************************)
EXTENDS Naturals

CONSTANTS Slots,        \* the numbers of the pool file's slots, in its order
          Requests,     \* the goroutines that handle claims
          Careful       \* the operator edits only while fabricd is stopped

ASSUME PoolAssumption == Slots \subseteq Nat /\ Careful \in BOOLEAN

VARIABLES up,           \* fabricd runs
          mem, disk,    \* Store.state and the state file
          req,          \* what each request does
          edit,         \* the operator's editor
          issued,       \* history: how often each slot was answered
          revoked       \* history: the burns the operator has saved

vars == <<up, mem, disk, req, edit, issued, revoked>>

States == [claims : SUBSET Slots, burned : SUBSET Slots]
Empty == [claims |-> {}, burned |-> {}]
Taken(state) == state.claims \union state.burned

Idle == [pc |-> "idle"]
Closed == [open |-> FALSE]
Saving == {r \in Requests : req[r].pc = "saving"}     \* Claim holds s.mu
Become(r, q) == req' = [req EXCEPT ![r] = q]

Init ==
    /\ up = FALSE
    /\ mem = Empty /\ disk = Empty
    /\ req = [r \in Requests |-> Idle]
    /\ edit = Closed
    /\ issued = [s \in Slots |-> 0]
    /\ revoked = {}

-----------------------------------------------------------------------------
(* The claims.                                                             *)

FirstFree(s) ==
    /\ s \in Slots \ Taken(mem)
    /\ \A t \in Slots \ Taken(mem) : s <= t

\* Claim takes the first slot that is free, in memory.
Take(r) ==
    /\ up /\ req[r] = Idle /\ Saving = {}
    /\ \E s \in Slots :
          /\ FirstFree(s)
          /\ mem' = [mem EXCEPT !.claims = @ \union {s}]
          /\ Become(r, [pc |-> "saving", slot |-> s])
    /\ UNCHANGED <<up, disk, edit, issued, revoked>>

\* persistLocked renames the complete temporary file.
Save(r) ==
    /\ req[r].pc = "saving"
    /\ disk' = mem
    /\ Become(r, [req[r] EXCEPT !.pc = "claimed"])
    /\ UNCHANGED <<up, mem, edit, issued, revoked>>

\* Mutant of SaveFails: a claim that is not saved is answered.
SaveFailsAnswered(r) ==
    /\ req[r].pc = "saving"
    /\ Become(r, [req[r] EXCEPT !.pc = "claimed"])
    /\ UNCHANGED <<up, mem, disk, edit, issued, revoked>>

\* persistLocked fails: an error, and the slot stays taken in memory.
SaveFails(r) ==
    /\ req[r].pc = "saving"
    /\ Become(r, Idle)
    /\ UNCHANGED <<up, mem, disk, edit, issued, revoked>>

\* The answer with the slot's conf leaves the handler.
Answer(r) ==
    /\ req[r].pc = "claimed"
    /\ issued' = [issued EXCEPT ![req[r].slot] = @ + 1]
    /\ Become(r, Idle)
    /\ UNCHANGED <<up, mem, disk, edit, revoked>>

\* The handler fails after the claim, or its client is gone.
Drop(r) ==
    /\ req[r].pc = "claimed"
    /\ Become(r, Idle)
    /\ UNCHANGED <<up, mem, disk, edit, issued, revoked>>

-----------------------------------------------------------------------------
(* fabricd's life, and the operator.                                       *)

Stop ==
    /\ up' = FALSE
    /\ mem' = Empty
    /\ req' = [r \in Requests |-> Idle]
    /\ UNCHANGED <<disk, edit, issued, revoked>>

\* Mutant of Start: the claims of the file are not taken.
StartForgetsClaims ==
    /\ ~up /\ (Careful => edit = Closed)
    /\ up' = TRUE
    /\ mem' = [disk EXCEPT !.claims = {}]
    /\ UNCHANGED <<disk, req, edit, issued, revoked>>

\* Mutant of Start: the burns of the file are not taken.
StartForgetsBurns ==
    /\ ~up /\ (Careful => edit = Closed)
    /\ up' = TRUE
    /\ mem' = [disk EXCEPT !.burned = {}]
    /\ UNCHANGED <<disk, req, edit, issued, revoked>>

\* Open loads the state file.
Start ==
    /\ ~up /\ (Careful => edit = Closed)
    /\ up' = TRUE
    /\ mem' = disk
    /\ UNCHANGED <<disk, req, edit, issued, revoked>>

OpenEditor ==
    /\ edit = Closed /\ (Careful => ~up)
    /\ edit' = [open |-> TRUE, text |-> disk]
    /\ UNCHANGED <<up, mem, disk, req, issued, revoked>>

\* The text of the editor replaces the file, with one slot more burned.
Burn(s) ==
    /\ edit.open
    /\ disk' = [edit.text EXCEPT !.burned = @ \union {s}]
    /\ edit' = Closed
    /\ revoked' = revoked \union {s}
    /\ UNCHANGED <<up, mem, req, issued>>

Next ==
    \/ \E r \in Requests :
          Take(r) \/ Save(r) \/ SaveFails(r) \/ Answer(r) \/ Drop(r)
    \/ Stop \/ Start
    \/ OpenEditor \/ \E s \in Slots : Burn(s)

Spec == Init /\ [][Next]_vars

-----------------------------------------------------------------------------
RequestStates == {Idle} \union [pc : {"saving", "claimed"}, slot : Slots]

TypeOK ==
    /\ up \in BOOLEAN
    /\ mem \in States /\ disk \in States
    /\ req \in [Requests -> RequestStates]
    /\ edit \in {Closed} \union [open : {TRUE}, text : States]
    /\ issued \in [Slots -> Nat]
    /\ revoked \in SUBSET Slots

\* "a fabricd restart never reissues a claimed slot" (wgpool.go): no conf goes
\* into two answers, whatever fails and whenever fabricd stops.
NoSlotTwice == \A s \in Slots : issued[s] <= 1

\* "Claims persist" (DEPLOY.md, restart matrix): what was answered is in the
\* file, where the next fabricd finds it.
AnsweredIsOnDisk == \A s \in Slots : issued[s] > 0 => s \in disk.claims

\* "Burned slots ... are never reissued either" (wgpool.go): once its burn is
\* saved, a slot goes into no answer.
BurnedStaysBurned == [][\A s \in revoked : issued'[s] = issued[s]]_vars

=============================================================================
