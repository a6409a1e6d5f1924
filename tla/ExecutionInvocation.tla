------------------------ MODULE ExecutionInvocation ------------------------
(* How the registry, its launches and its hosts implement Invocation.        *)
EXTENDS ExecutionSystem

PhaseOf(e) ==
    IF rows[e].state = "absent" THEN "none"
    ELSE IF rows[e].state \in Ended THEN "over"
    ELSE IF provider[e].invoked > 0 THEN "invoked" ELSE "reserved"

Registry == INSTANCE Invocation WITH Ids <- Executions, phase <- [e \in Executions |-> PhaseOf(e)]

(* The registry with everything that works on it implements Invocation: no  *)
(* repeated, late or stale launch invokes an execution that is invoked or   *)
(* over already, and no execution that is over comes back.                  *)
InvocationIsImplemented == Registry!Spec
=============================================================================
