---------------------------- MODULE GateContract ----------------------------
(***************************************************************************)
(* What GATES.md promises of a run: it is submitted by one user, pauses at *)
(* gates, and goes on from a gate only when another user who holds the     *)
(* gate's permission approves it there; a rejection ends it; it completes  *)
(* only after all mandatory gates.                                         *)
(***************************************************************************)
CONSTANTS Users, NoUser, Perms, Gates, GatePermission, MandatoryGates

VARIABLES
    phase,      \* "none", "working", "waiting", "completed" or "rejected"
    gate,       \* the gate the run waits at, "none" when it does not wait
    passed,     \* the gates approved
    submitter,
    reviewedBy  \* who closed the run

vars == <<phase, gate, passed, submitter, reviewedBy>>

Init ==
    /\ phase = "none"
    /\ gate = "none"
    /\ passed = {}
    /\ submitter = NoUser
    /\ reviewedBy = NoUser

Submit(u) ==
    /\ phase = "none"
    /\ phase' = "working"
    /\ submitter' = u
    /\ UNCHANGED <<gate, passed, reviewedBy>>

Pause(g) ==
    /\ phase = "working"
    /\ g \notin passed
    /\ phase' = "waiting"
    /\ gate' = g
    /\ UNCHANGED <<passed, submitter, reviewedBy>>

MayDecide(u) ==
    /\ phase = "waiting"
    /\ u # submitter
    /\ GatePermission[gate] \in Perms[u]

Approve(u) ==
    /\ MayDecide(u)
    /\ phase' = "working"
    /\ gate' = "none"
    /\ passed' = passed \cup {gate}
    /\ UNCHANGED <<submitter, reviewedBy>>

Reject(u) ==
    /\ MayDecide(u)
    /\ phase' = "rejected"
    /\ gate' = "none"
    /\ reviewedBy' = u
    /\ UNCHANGED <<passed, submitter>>

Complete(u) ==
    /\ phase = "working"
    /\ u # submitter
    /\ MandatoryGates \subseteq passed
    /\ phase' = "completed"
    /\ reviewedBy' = u
    /\ UNCHANGED <<gate, passed, submitter>>

Next ==
    \/ \E u \in Users : Submit(u) \/ Approve(u) \/ Reject(u) \/ Complete(u)
    \/ \E g \in Gates : Pause(g)

Spec == Init /\ [][Next]_vars

=============================================================================
