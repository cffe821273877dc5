------------------------------ MODULE Control -------------------------------
(***************************************************************************)
(* The dashboard's control of the linkds: its requests (LinkdApply) and    *)
(* its polls (LinkdPoll), which run beside each other in fabricd and meet  *)
(* in what the linkds hold.                                                *)
(***************************************************************************)
EXTENDS LinkdApply, LinkdPoll

requestVars == <<req, late>>
pollerVars == <<bgp, poll, shown, joined>>
controlVars == <<shape, requestVars, pollerVars>>

ControlInit == ApplyInit /\ PollInit

\* The histories of the poll note which AS the step has changed, if any.
Noticed ==
    IF shape' = shape THEN UNCHANGED <<poll, shown, joined>>
    ELSE \E e \in Ends : shape'[e] # shape[e] /\ Moves(AsOf[e])

Requested == ApplyNext /\ Noticed /\ UNCHANGED bgp

Reshaped(e, to) == Reshape(e, to) /\ Another(e, to)

Converged(as, r) == Converge(as, r) /\ UNCHANGED requestVars

Polled == PollNext /\ UNCHANGED requestVars

ControlNext ==
    \/ Requested \/ Polled
    \/ \E e \in Ends, to \in Shapings \cup {Nominal} : Reshaped(e, to)
    \/ \E as \in ASes : \E r \in Reports[as] : Converged(as, r)

ControlSpec == ControlInit /\ [][ControlNext]_controlVars

-----------------------------------------------------------------------------
ControlTypeOK == ApplyTypeOK /\ PollTypeOK
=============================================================================
