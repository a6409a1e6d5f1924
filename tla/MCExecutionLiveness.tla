------------------------ MODULE MCExecutionLiveness ------------------------
(* Two bounded situations of ExecutionSystem in one run.  "slots":           *)
(* executions compete for a slot, nobody sends commands, one fault.          *)
(* "receipts": one execution with a question, an output and commands, two    *)
(* faults.  Only what users, providers and faults may do is bounded, never a *)
(* step that fairness is assumed of.                                         *)
EXTENDS MCExecutionSystem

CONSTANTS t1

VARIABLE situation

InSlots ==
    /\ faults' <= 1
    /\ \A e \in Executions :
        /\ provider'[e].emitted = 0 /\ rows'[e].args.message = None
        /\ \A c \in Commands : rows'[e].commands[c].rowid = 0
InReceipts == \A e \in Executions : rows'[e].state # "absent" => e = 1 /\ rows'[e].args.task = t1

LivenessNext ==
    /\ Next
    /\ situation = "slots" => InSlots
    /\ situation = "receipts" => InReceipts
    /\ UNCHANGED situation

LivenessSpec ==
    /\ Init /\ situation \in {"slots", "receipts"}
    /\ [][LivenessNext]_<<vars, situation>>
    /\ Fairness
=============================================================================
