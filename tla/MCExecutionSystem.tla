------------------------- MODULE MCExecutionSystem -------------------------
(* Command contents for the TLC instances of ExecutionSystem.  Two clients   *)
(* may use different ids for the same answer, and one id for two contents.   *)
(* Ids are only compared for equality, so they are interchangeable.          *)
EXTENDS ExecutionInvocation, TLC

CONSTANTS q1

NoBodies == {}
ControlBodies == {[kind |-> "answer", request |-> q1], [kind |-> "interrupt", request |-> None],
                  [kind |-> "send", request |-> None]}
CommandSymmetry == Permutations(Commands)
=============================================================================
