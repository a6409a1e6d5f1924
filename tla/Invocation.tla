----------------------------- MODULE Invocation -----------------------------
(***************************************************************************)
(* What the execution registry promises of an execution and palmagentd of a *)
(* host: an identity is reserved, invoked at most once, and over for good.  *)
(* Whoever finds it over may give its slot, session, worktree or role to    *)
(* somebody else.  An identity that is over without having been invoked     *)
(* never will be.                                                           *)
(***************************************************************************)
CONSTANT Ids

VARIABLE phase

Phases == {"none", "reserved", "invoked", "over"}

Init == phase = [id \in Ids |-> "none"]

Becomes(id, before, after) ==
    /\ phase'[id] = after
    /\ phase[id] \in before
    /\ phase' = [phase EXCEPT ![id] = after]

Reserve(id) == Becomes(id, {"none"}, "reserved")
Invoke(id) == Becomes(id, {"reserved"}, "invoked")
End(id) == Becomes(id, {"reserved", "invoked"}, "over")

Next == \E id \in Ids : Reserve(id) \/ Invoke(id) \/ End(id)

Spec == Init /\ [][Next]_phase
=============================================================================
