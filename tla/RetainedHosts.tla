---------------------------- MODULE RetainedHosts ----------------------------
(***************************************************************************)
(* What palmagentd keeps about every process it hosts: a record on disk, a  *)
(* lock file, and one guardian process that owns the process group of the   *)
(* hosted child (hosts.rs, maintenance.rs, platform/linux.rs).              *)
(*                                                                         *)
(* The module has no specification of its own.  Its actions constrain only  *)
(* the three variables below; Daemon and Routines say who performs them and *)
(* what else happens.  Reading and writing a record are single steps; the   *)
(* crash of the daemon or of a guardian can fall between any two of them.   *)
(*                                                                         *)
(* A lock is a flock: it is held by whoever took it and ends with that      *)
(* process.  The daemon holds it for the length of a launch, a guardian     *)
(* from its claim to its end.  Identities (pid, start time, boot) make a    *)
(* dead guardian or child recognisable for ever, so a Boolean stands for    *)
(* "recorded" and the process itself is in `process`.                       *)
(***************************************************************************)
EXTENDS Naturals

CONSTANTS
    Hosts         \* host identities of every kind

VARIABLES
    record,       \* record[h]: the host record and its .stop and .ready sidecars
    process,      \* process[h]: the guardian and the group of its child
    launching     \* hosts whose launch the daemon has reserved but not yet spawned

hostVars == <<record, process, launching>>

-----------------------------------------------------------------------------
States == {"absent", "starting", "running", "exited"}
Record == [state : States, guard : BOOLEAN, child : BOOLEAN, readiness : {"unsupported", "pending", "ready"},
           stop : BOOLEAN, lost : BOOLEAN, compacted : BOOLEAN, contained : BOOLEAN]

(* guard: spawned (waiting for the lock), guarding (its identity is in the  *)
(* record), recording (its child runs), watching (the child is recorded),   *)
(* ending (the child exited, could not be started or cannot be watched).    *)
(* group: who is left in the child's group.  known: the guardian found the  *)
(* identity of its child; its own copy of the record, by which it acts, has *)
(* it even when writing the record failed.  escaped, which is history and   *)
(* not a state of the program: the guardian recorded the end of the host    *)
(* while something was left in a group it could not find.                   *)
Owning == {"guarding", "recording", "watching", "ending"}
Process == [guard : Owning \cup {"none", "spawned", "gone"},
            told : BOOLEAN, known : BOOLEAN, escaped : BOOLEAN,
            group : {"empty", "child", "descendants"}, marker : BOOLEAN, started : Nat]

NoRecord == [state |-> "absent", guard |-> FALSE, child |-> FALSE, readiness |-> "unsupported",
             stop |-> FALSE, lost |-> FALSE, compacted |-> FALSE, contained |-> TRUE]
NoProcess == [guard |-> "none", told |-> FALSE, known |-> FALSE, escaped |-> FALSE,
              group |-> "empty", marker |-> FALSE, started |-> 0]

HostsTypeOK ==
    /\ record \in [Hosts -> Record]
    /\ process \in [Hosts -> Process]
    /\ launching \subseteq Hosts

HostsInit ==
    /\ record = [h \in Hosts |-> NoRecord]
    /\ process = [h \in Hosts |-> NoProcess]
    /\ launching = {}

-----------------------------------------------------------------------------
(* What the daemon can find out.                                            *)
GuardAlive(h) == record[h].guard /\ process[h].guard \in Owning

(* Without a control group only a recorded child leads to its group.        *)
Populated(h) ==
    /\ process[h].group # "empty"
    /\ record[h].contained \/ record[h].child

LockFree(h) == h \notin launching /\ process[h].guard \notin Owning

(* ready_at: a marker counts once it names the recorded child.              *)
IsReady(h) == record[h].readiness = "ready" \/ (record[h].child /\ process[h].marker /\ record[h].readiness = "pending")

(* describe: neither a group nor a guardian proves that nothing will start. *)
HostState(h) ==
    IF record[h].state = "absent" THEN "absent"
    ELSE IF Populated(h) \/ GuardAlive(h) THEN "running"
    ELSE IF record[h].state = "exited" THEN "exited"
    ELSE IF record[h].contained /\ record[h].guard THEN "lost"
    ELSE "unknown"
Alive(h) == HostState(h) \in {"running", "unknown"}

Supervision(h) ==
    IF GuardAlive(h) THEN "guarded"
    ELSE IF record[h].state = "exited" /\ ~Populated(h) THEN "ended"
    ELSE IF record[h].guard THEN "orphaned" ELSE "unconfirmed"

Phase(h) ==
    IF Supervision(h) = "ended" THEN "exited"
    ELSE IF Supervision(h) # "guarded" THEN "unknown"
    ELSE IF record[h].stop THEN "stopping"
    ELSE IF IsReady(h) THEN "ready"
    ELSE IF record[h].readiness = "pending" \/ ~record[h].child THEN "starting"
    ELSE "running"

(* Out of everybody's reach: the guardian recorded the end of a child whose *)
(* identity it never had, in a group that only this identity leads to.      *)
Escaped(h) == process[h].escaped /\ ~record[h].contained /\ ~process[h].known

(* launch_finished: what a launch request waits for.                        *)
LaunchFinished(h) ==
    \/ record[h].state = "exited"
    \/ IF record[h].readiness # "unsupported" THEN IsReady(h) ELSE record[h].child

-----------------------------------------------------------------------------
(* hosts::launch, by the daemon: the reservation commits before the spawn.  *)
(* Calling it for a host that has a record does nothing.  contained: the    *)
(* installation isolates its hosts by control groups, not by process groups *)
(* alone; that changes only with an idle setup.                             *)
CanLaunch(h) == record[h].state = "absent" /\ LockFree(h)

LaunchReserves(h, readiness, contained) ==
    /\ CanLaunch(h)
    /\ record' = [record EXCEPT ![h] = [NoRecord EXCEPT !.state = "starting", !.readiness = readiness,
                                                        !.contained = contained]]
    /\ launching' = launching \cup {h}
    /\ UNCHANGED process

LaunchSpawns(h) ==
    /\ h \in launching
    /\ process' = [process EXCEPT ![h].guard = "spawned"]
    /\ launching' = launching \ {h}
    /\ UNCHANGED record

(* No guardian was executed: a terminal reservation, still under the lock.  *)
LaunchFails(h) ==
    /\ h \in launching
    /\ record' = [record EXCEPT ![h].state = "exited"]
    /\ launching' = launching \ {h}
    /\ UNCHANGED process

(* The daemon dies: the locks of its launches end with it.                  *)
LaunchesAbandoned == launching' = {} /\ UNCHANGED <<record, process>>

-----------------------------------------------------------------------------
(* hosts::run, by a guardian.                                               *)
SetGuard(h, phase) == process' = [process EXCEPT ![h].guard = phase]

GuardClaims(h) ==
    /\ process[h].guard = "spawned"
    /\ LockFree(h)
    /\ record[h].state = "starting" /\ ~record[h].guard /\ ~record[h].child
    /\ record' = [record EXCEPT ![h].guard = TRUE]
    /\ SetGuard(h, "guarding")
    /\ UNCHANGED launching

(* The child joins its group before it can run; its identity is recorded    *)
(* in a step of its own.                                                    *)
GuardSpawns(h) ==
    /\ process[h].guard = "guarding"
    /\ process' = [process EXCEPT ![h].guard = "recording", ![h].group = "child", ![h].started = @ + 1]
    /\ UNCHANGED <<record, launching>>

GuardCannotSpawn(h) ==
    /\ process[h].guard = "guarding"
    /\ SetGuard(h, "ending")
    /\ UNCHANGED <<record, launching>>

(* A child that is a zombie or gone already has no identity: the record     *)
(* says that it runs, but not who it is.                                    *)
GuardRecords(h) ==
    LET found == process[h].group = "child" IN
    /\ process[h].guard = "recording"
    /\ record' = [record EXCEPT ![h].child = found, ![h].state = "running"]
    /\ process' = [process EXCEPT ![h].guard = "watching", ![h].known = found]
    /\ UNCHANGED launching

(* run_child returns an error: the identity of the child cannot be read, the*)
(* record not be written, or the watch fails.  The child stays.             *)
GuardFails(h) ==
    /\ \/ /\ process[h].guard = "recording"
          /\ \E found \in {FALSE, process[h].group = "child"} :
                process' = [process EXCEPT ![h].guard = "ending", ![h].known = found]
       \/ process[h].guard = "watching" /\ SetGuard(h, "ending")
    /\ UNCHANGED <<record, launching>>

(* The watch loop: readiness is copied into the record, a child that was    *)
(* told to stop and stays is killed with its group.                         *)
GuardNotesReady(h) ==
    /\ process[h].guard = "watching" /\ record[h].readiness = "pending" /\ IsReady(h)
    /\ record' = [record EXCEPT ![h].readiness = "ready"]
    /\ UNCHANGED <<process, launching>>

GuardKills(h) ==
    /\ process[h].guard = "watching" /\ process[h].told /\ process[h].group = "child"
    /\ process' = [process EXCEPT ![h].group = "empty"]
    /\ UNCHANGED <<record, launching>>

GuardSeesExit(h) ==
    /\ process[h].guard = "watching" /\ process[h].group # "child"
    /\ SetGuard(h, "ending")
    /\ UNCHANGED <<record, launching>>

(* The end of run: every descendant the guardian can find is stopped before *)
(* the end is recorded.                                                     *)
Seen(h) == process[h].group # "empty" /\ (record[h].contained \/ process[h].known)

GuardTerminates(h) ==
    /\ process[h].guard = "ending" /\ Seen(h)
    /\ process' = [process EXCEPT ![h].group = "empty"]
    /\ UNCHANGED <<record, launching>>

GuardRecordsExit(h) ==
    /\ process[h].guard = "ending" /\ ~Seen(h)
    /\ record' = [record EXCEPT ![h].state = "exited", ![h].child = process[h].known]
    /\ process' = [process EXCEPT ![h].guard = "gone", ![h].told = FALSE, ![h].escaped = process[h].group # "empty"]
    /\ UNCHANGED launching

(* A guardian is killed, gives up waiting for the lock, or cannot confirm   *)
(* its cleanup.  What is in its group stays.                                *)
GuardDies(h) ==
    /\ process[h].guard \in Owning \cup {"spawned"}
    /\ process' = [process EXCEPT ![h].guard = "gone", ![h].told = FALSE]
    /\ UNCHANGED <<record, launching>>

-----------------------------------------------------------------------------
(* The hosted child itself.                                                 *)
ChildReady(h) ==
    /\ process[h].group = "child" /\ ~process[h].marker /\ record[h].readiness # "unsupported"
    /\ process' = [process EXCEPT ![h].marker = TRUE]
    /\ UNCHANGED <<record, launching>>

ChildExits(h, left) ==
    /\ process[h].group = "child"
    /\ process' = [process EXCEPT ![h].group = IF left THEN "descendants" ELSE "empty"]
    /\ UNCHANGED <<record, launching>>

(* Descendants end by themselves.                                           *)
GroupEmpties(h) ==
    /\ process[h].group = "descendants"
    /\ process' = [process EXCEPT ![h].group = "empty"]
    /\ UNCHANGED <<record, launching>>

-----------------------------------------------------------------------------
(* hosts::stop.  The request is marked first.  Gracefully, the recorded     *)
(* guardian gets a signal, which ends it if its handlers are not installed  *)
(* yet.  Otherwise the group is killed at once; without a control group     *)
(* that needs a living guardian.                                            *)
StopMarks(h) ==
    /\ record[h].state \in {"starting", "running"}
    /\ record' = [record EXCEPT ![h].stop = TRUE]
    /\ UNCHANGED <<process, launching>>

StopSignals(h, unhandled) ==
    /\ unhandled => process[h].guard = "guarding"
    /\ process' = IF ~GuardAlive(h) THEN process
                  ELSE IF unhandled THEN [process EXCEPT ![h].guard = "gone"]
                  ELSE [process EXCEPT ![h].told = TRUE]
    /\ UNCHANGED <<record, launching>>

Terminable(h) == record[h].contained \/ ~record[h].child \/ GuardAlive(h)

StopKills(h) ==
    /\ Terminable(h)
    /\ process' = IF Populated(h) THEN [process EXCEPT ![h].group = "empty"] ELSE process
    /\ UNCHANGED <<record, launching>>

-----------------------------------------------------------------------------
(* maintain_host: nothing is done under a living guardian or a held lock,   *)
(* and nothing to a reservation whose guardian never recorded itself.       *)
Maintainable(h) == record[h].state # "absent" /\ ~GuardAlive(h) /\ LockFree(h)

(* A group the guardian left behind is killed (only a control group proves  *)
(* whose it is), and found empty by a later visit.                          *)
MaintainOrphan(h) ==
    /\ Maintainable(h)
    /\ record[h].state \in {"starting", "running"} /\ record[h].guard
    /\ Populated(h) \/ (~record[h].contained /\ ~record[h].child)
    /\ ~record[h].lost \/ (record[h].contained /\ Populated(h))
    /\ record' = [record EXCEPT ![h].lost = TRUE]
    /\ process' = IF record[h].contained THEN [process EXCEPT ![h].group = "empty"] ELSE process
    /\ UNCHANGED launching

UnrecordedChildIsGone(h) == TRUE
NoUnrecordedChild(h) == record[h].contained \/ record[h].child

MaintainConfirmsEnd(h) ==
    /\ Maintainable(h)
    /\ record[h].state \in {"starting", "running"} /\ record[h].guard
    /\ NoUnrecordedChild(h)
    /\ ~Populated(h)
    /\ record' = [record EXCEPT ![h].lost = TRUE, ![h].state = "exited"]
    /\ UNCHANGED <<process, launching>>

(* Seven days after its end a record loses its process identities and its   *)
(* sidecars, never itself: the identity must not be launched again.         *)
CompactByRemoval(h) == NoRecord
CompactRecord(h) == [record[h] EXCEPT !.guard = FALSE, !.child = FALSE, !.stop = FALSE, !.compacted = TRUE,
                                      !.readiness = IF IsReady(h) THEN "ready" ELSE @]

MaintainCompacts(h) ==
    /\ Maintainable(h)
    /\ record[h].state = "exited" /\ ~Populated(h) /\ ~record[h].compacted
    /\ record' = [record EXCEPT ![h] = CompactRecord(h)]
    /\ process' = [process EXCEPT ![h].marker = FALSE]
    /\ UNCHANGED launching

-----------------------------------------------------------------------------
GuardNext(h) ==
    \/ GuardClaims(h) \/ GuardSpawns(h) \/ GuardCannotSpawn(h) \/ GuardRecords(h) \/ GuardNotesReady(h)
    \/ GuardKills(h) \/ GuardSeesExit(h) \/ GuardTerminates(h) \/ GuardRecordsExit(h)

MaintainNext(h) == MaintainOrphan(h) \/ MaintainConfirmsEnd(h) \/ MaintainCompacts(h)

-----------------------------------------------------------------------------
(* A host that has a record and is reported as not alive has no process     *)
(* left and will never have one: worktrees, slots and single-owner services *)
(* are released on this answer (hosts.rs: "Never release a terminal's       *)
(* worktree while descendants may still exist").  One exception: where      *)
(* hosts are isolated by process groups alone, a guardian that could not    *)
(* read the identity of its child (hosts.rs:390: an error, or a child that  *)
(* was gone already) neither sees nor kills what is in its group and records*)
(* the end all the same.                                                    *)
ReportedDeadIsOver ==
    \A h \in Hosts : record[h].state # "absent" /\ ~Alive(h) =>
        /\ process[h].group = "empty" \/ Escaped(h)
        /\ process[h].guard \in {"none", "gone"} /\ h \notin launching

(* The same without the exception, as the quoted comment has it.            *)
ReportedDeadIsGone ==
    \A h \in Hosts : record[h].state # "absent" /\ ~Alive(h) => process[h].group = "empty"
=============================================================================
