------------------------------ MODULE Routines ------------------------------
(***************************************************************************)
(* Script routines: palmagent-runtime owns their definitions, schedule,     *)
(* admissions and history; every admitted run is a host of palmagentd       *)
(* (RetainedHosts, one identity per row of routine_runs), in which a        *)
(* retained script host claims the run, executes the command once and       *)
(* leaves its result in a file.                                             *)
(*                                                                         *)
(* The runtime is one owner thread that handles one message at a time, and  *)
(* blocking workers that run its jobs (composition.rs).  A pass of poll     *)
(* visits every pending run; the visits touch different runs, each ends in  *)
(* at most one write, and a failing write skips one, so every visit is an   *)
(* action here.  A crash can fall between any two writes.  `updating`, the  *)
(* maintenance gate, and a store that is busy only refuse an operation,     *)
(* which then changes nothing.                                              *)
(*                                                                         *)
(* A launch request waits in a connection of the daemon while the daemon is *)
(* busy with another operation; inspections overtake it.  The daemon does   *)
(* not notice that the peer of a waiting connection is gone (control.rs).   *)
(***************************************************************************)
EXTENDS RetainedHosts, FiniteSets

CONSTANTS
    None,
    RoutineIds,       \* routines that may be created
    ScriptCapacity,   \* SCRIPT_CAPACITY
    Scenarios,        \* sets of requests and events that occur together, besides creating routines
    MaxTime,          \* bound on the clock, in schedule periods
    MaxOutages,       \* bound on crashes and shutdowns of the runtime and the daemon
    MaxDeaths         \* bound on deaths and failures of guardians and script hosts

ASSUME RoutinesAssumption ==
    /\ Hosts = 1..Cardinality(Hosts)
    /\ Scenarios \subseteq SUBSET {"update", "remove", "run", "stop", "shutdown", "death", "failing", "unsuccessful",
                             "again", "process-group"}
    /\ ScriptCapacity \in Nat \ {0} /\ MaxTime \in Nat /\ MaxOutages \in Nat /\ MaxDeaths \in Nat

VARIABLES
    now,          \* the clock
    routine,      \* table routines
    row,          \* table routine_runs, in insertion order
    files,        \* files[n]: what lies in routines/ for run n
    runtime,      \* "down", "booting", "serving" or "stopping"
    due,          \* routines the current pass of the owner has yet to look at
    pending,      \* Service.pending with the job a worker does for it
    queue,        \* launch requests waiting in connections of the daemon
    daemonUp,
    script,       \* script[n]: how far the script host of run n is
    executed,     \* executed[n]: how often the command of run n was started
    former,       \* runs whose launch request outlived the runtime that sent it
    outages, deaths,
    scenario      \* the scenario of this behaviour: a bound, not a state of the program

serviceVars == <<routine, row, runtime, due, pending>>
worldVars == <<now, files, queue, daemonUp, script, executed, former, outages, deaths, scenario>>
vars == <<hostVars, serviceVars, worldVars>>

-----------------------------------------------------------------------------
Runs == Hosts
Outcomes == {"succeeded", "failed", "interrupted"}
Jobs == {"none", "preparing", "describing", "asking", "waiting", "inspecting", "reading", "acknowledging"}

Pending == [prepared : BOOLEAN, result : Outcomes \cup {None}, recorded : BOOLEAN,
            stop : {"no", "asked", "written"}, job : Jobs]
Admitted == [prepared |-> FALSE, result |-> None, recorded |-> FALSE, stop |-> "no", job |-> "preparing"]
Recovered == [Admitted EXCEPT !.job = "none"]

(* A run that is not pending has no entry in Service.pending at all.        *)
ASSUME NotPendingAssumption == None \notin Pending

NoFiles == [descriptor |-> FALSE, claim |-> FALSE, stop |-> FALSE, recorded |-> FALSE, result |-> None]
NewRoutine == [fate |-> "new", enabled |-> FALSE, next |-> None]
NewRow == [routine |-> None, status |-> "none", slot |-> None]

TypeOK ==
    /\ HostsTypeOK
    /\ now \in 0..MaxTime
    /\ routine \in [RoutineIds -> [fate : {"new", "kept", "removed"}, enabled : BOOLEAN,
                                   next : 0..(MaxTime + 1) \cup {None}]]
    /\ row \in [Runs -> [routine : RoutineIds \cup {None}, slot : 0..MaxTime \cup {None},
                         status : Outcomes \cup {"none", "running", "skipped", "deleted"}]]
    /\ files \in [Runs -> [descriptor : BOOLEAN, claim : BOOLEAN, stop : BOOLEAN, recorded : BOOLEAN,
                           result : Outcomes \cup {None}]]
    /\ runtime \in {"down", "booting", "serving", "stopping"}
    /\ due \subseteq RoutineIds
    /\ pending \in [Runs -> Pending \cup {None}]
    /\ queue \subseteq Runs /\ former \subseteq Runs
    /\ daemonUp \in BOOLEAN
    /\ script \in [Runs -> [at : {"none", "booted", "claimed", "running", "ended", "saved"},
                            outcome : Outcomes \cup {None}]]
    /\ executed \in [Runs -> Nat]
    /\ outages \in 0..MaxOutages /\ deaths \in 0..MaxDeaths
    /\ scenario \in Scenarios

Init ==
    /\ HostsInit
    /\ now = 0
    /\ routine = [r \in RoutineIds |-> NewRoutine]
    /\ row = [n \in Runs |-> NewRow]
    /\ files = [n \in Runs |-> NoFiles]
    /\ runtime = "serving" /\ due = {} /\ pending = [n \in Runs |-> None]
    /\ queue = {} /\ former = {}
    /\ daemonUp = TRUE
    /\ script = [n \in Runs |-> [at |-> "none", outcome |-> None]]
    /\ executed = [n \in Runs |-> 0]
    /\ outages = 0 /\ deaths = 0
    /\ scenario \in Scenarios

Asked(kind) == kind \in scenario

-----------------------------------------------------------------------------
(* calendar::next_run: the first instant of the schedule after `from`.      *)
NextRun(from) == from + 1

Scheduled(r) == routine[r].fate = "kept" /\ routine[r].enabled
IsDue(r) == Scheduled(r) /\ routine[r].next # None /\ routine[r].next <= now
PendingRuns == {n \in Runs : pending[n] # None}
HasPending(r) == \E n \in PendingRuns : row[n].routine = r
Full(r) == HasPending(r) \/ Cardinality(PendingRuns) >= ScriptCapacity

(* The id the next insert into routine_runs gets, if the bound leaves one.  *)
NextRow == {n \in Runs : (n > 1 => Asked("again")) /\ row[n].status = "none" /\ \A m \in Runs : m < n => row[m].status # "none"}

Serving == runtime = "serving" /\ due = {}
SetPending(n, p) == pending' = [pending EXCEPT ![n] = p]

AdmitWithoutCadence(n, r, status, slot, next) ==
    /\ row' = [row EXCEPT ![n] = [routine |-> r, status |-> status, slot |-> slot]]
    /\ UNCHANGED routine

(* repository.admit: the row and the cadence in one transaction.            *)
Admit(n, r, status, slot, next) ==
    /\ row' = [row EXCEPT ![n] = [routine |-> r, status |-> status, slot |-> slot]]
    /\ routine' = [routine EXCEPT ![r].next = next]
(* fire: a scheduled fire that finds no room is skipped, a manual one is    *)
(* refused.  The space may be gone; then the run has failed already.        *)
Fire(n, r, slot, next) ==
    /\ n \in NextRow
    /\ Admit(n, r, IF Full(r) THEN "skipped" ELSE "running", slot, next)
    /\ IF Full(r) THEN UNCHANGED pending
       ELSE \/ SetPending(n, Admitted)
            \/ SetPending(n, [Recovered EXCEPT !.result = "failed"])

-----------------------------------------------------------------------------
(* Requests the owner handles.                                              *)
Create(r) ==
    /\ Serving
    /\ routine[r].fate = "new"
    /\ routine' = [routine EXCEPT ![r] = [fate |-> "kept", enabled |-> TRUE, next |-> NextRun(now)]]
    /\ UNCHANGED <<hostVars, row, runtime, due, pending, worldVars>>

Update(r, enabled) ==
    /\ Serving /\ Asked("update")
    /\ routine[r].fate = "kept"
    /\ routine' = [routine EXCEPT ![r] = [@ EXCEPT !.enabled = enabled,
                                                   !.next = IF enabled THEN NextRun(now) ELSE None]]
    /\ UNCHANGED <<hostVars, row, runtime, due, pending, worldVars>>

Remove(r) ==
    /\ Serving /\ Asked("remove")
    /\ routine[r].fate = "kept"
    /\ ~HasPending(r)
    /\ \A n \in Runs : row[n].routine = r => row[n].status # "running"
    /\ routine' = [routine EXCEPT ![r] = [NewRoutine EXCEPT !.fate = "removed"]]
    /\ row' = [n \in Runs |-> IF row[n].routine = r THEN [row[n] EXCEPT !.status = "deleted"] ELSE row[n]]
    /\ UNCHANGED <<hostVars, runtime, due, pending, worldVars>>

RunNow(n, r) ==
    /\ Serving /\ Asked("run")
    /\ routine[r].fate = "kept"
    /\ ~Full(r)
    /\ Fire(n, r, None, routine[r].next)
    /\ UNCHANGED <<hostVars, runtime, due, worldVars>>

Stop(r) ==
    /\ Serving /\ Asked("stop")
    /\ routine[r].fate = "kept"
    /\ \E n \in PendingRuns : row[n].routine = r /\ pending[n].stop = "no"
    /\ pending' = [n \in Runs |-> IF n \in PendingRuns /\ row[n].routine = r /\ pending[n].stop = "no"
                                  THEN [pending[n] EXCEPT !.stop = "asked"] ELSE pending[n]]
    /\ UNCHANGED <<hostVars, routine, row, runtime, due, worldVars>>

-----------------------------------------------------------------------------
(* poll, one visit to one pending run: a result is stored before it is      *)
(* acknowledged, a prepared run is launched, anything else is inspected.    *)
Visitable(n) == Serving /\ n \in PendingRuns /\ pending[n].job = "none"

PollRecords(n) ==
    /\ Visitable(n)
    /\ pending[n].result # None
    /\ row' = IF pending[n].recorded THEN row ELSE [row EXCEPT ![n].status = pending[n].result]
    /\ SetPending(n, [pending[n] EXCEPT !.recorded = TRUE, !.job = "acknowledging"])
    /\ UNCHANGED <<hostVars, routine, runtime, due, worldVars>>

PollLaunches(n) ==
    /\ Visitable(n)
    /\ pending[n].result = None /\ pending[n].prepared
    /\ row' = [row EXCEPT ![n].status = "running"]
    /\ SetPending(n, [pending[n] EXCEPT !.prepared = FALSE, !.job = "describing"])
    /\ UNCHANGED <<hostVars, routine, runtime, due, worldVars>>

PollInspects(n) ==
    /\ Visitable(n)
    /\ pending[n].result = None /\ ~pending[n].prepared
    /\ SetPending(n, [pending[n] EXCEPT !.job = "inspecting"])
    /\ UNCHANGED <<hostVars, routine, row, runtime, due, worldVars>>

(* ... then, every 15 seconds, the schedule: all due routines in one pass.  *)
PollTicks ==
    /\ Serving
    /\ due' = {r \in RoutineIds : IsDue(r)}
    /\ due' # {}
    /\ UNCHANGED <<hostVars, routine, row, runtime, pending, worldVars>>

PollFires(n, r) ==
    /\ runtime = "serving" /\ r \in due
    /\ Fire(n, r, routine[r].next, NextRun(now))
    /\ due' = due \ {r}
    /\ UNCHANGED <<hostVars, runtime, worldVars>>

(* The fire is refused (maintenance, a failing transaction).                *)
PollPassesOver(r) ==
    /\ runtime = "serving" /\ r \in due
    /\ due' = due \ {r}
    /\ UNCHANGED <<hostVars, routine, row, runtime, pending, worldVars>>

-----------------------------------------------------------------------------
(* Hosts::execute on a worker, and Service::complete with its outcome.      *)
Working == runtime \in {"serving", "stopping"} /\ due = {}
JobIs(n, job) == Working /\ n \in PendingRuns /\ pending[n].job = job
Complete(n, p) == SetPending(n, [p EXCEPT !.job = "none"])

PrepareEnds(n, ok) ==
    /\ JobIs(n, "preparing")
    /\ Complete(n, IF ok THEN [pending[n] EXCEPT !.prepared = TRUE]
                   ELSE [pending[n] EXCEPT !.result = "failed"])
    /\ UNCHANGED <<hostVars, routine, row, runtime, due, worldVars>>

LaunchDescribes(n) ==
    /\ JobIs(n, "describing")
    /\ files' = [files EXCEPT ![n].descriptor = TRUE]
    /\ SetPending(n, [pending[n] EXCEPT !.job = "asking"])
    /\ UNCHANGED <<hostVars, routine, row, runtime, due, now, queue, daemonUp, script, executed, former, outages, deaths, scenario>>

LaunchAsks(n) ==
    /\ JobIs(n, "asking")
    /\ daemonUp
    /\ queue' = queue \cup {n}
    /\ SetPending(n, [pending[n] EXCEPT !.job = "waiting"])
    /\ UNCHANGED <<hostVars, routine, row, runtime, due, now, files, daemonUp, script, executed, former, outages, deaths, scenario>>

(* Answered, refused, closed or impossible: every end leads to inspection.  *)
LaunchEnds(n) ==
    /\ \/ JobIs(n, "waiting") /\ n \notin queue /\ n \notin launching
       \/ JobIs(n, "asking") /\ ~daemonUp
    /\ Complete(n, pending[n])
    /\ UNCHANGED <<hostVars, routine, row, runtime, due, worldVars>>

(* The daemon says alive or not; only then is the result file looked at.    *)
InspectAsks(n) ==
    /\ JobIs(n, "inspecting")
    /\ IF daemonUp /\ ~Alive(n) THEN SetPending(n, [pending[n] EXCEPT !.job = "reading"])
       ELSE Complete(n, [pending[n] EXCEPT !.result = None])
    /\ UNCHANGED <<hostVars, routine, row, runtime, due, worldVars>>

InspectTrustsStop(n) ==
    /\ JobIs(n, "reading")
    /\ Complete(n, [pending[n] EXCEPT !.result = IF files[n].result # None /\ ~files[n].stop THEN files[n].result ELSE "interrupted"])
    /\ UNCHANGED <<hostVars, routine, row, runtime, due, worldVars>>
InspectReads(n) ==
    /\ JobIs(n, "reading")
    /\ Complete(n, [pending[n] EXCEPT !.result =
                      IF files[n].descriptor /\ files[n].result # None THEN files[n].result ELSE "interrupted"])
    /\ UNCHANGED <<hostVars, routine, row, runtime, due, worldVars>>

Acknowledge(n, ok) ==
    /\ JobIs(n, "acknowledging")
    /\ files' = IF ok THEN [files EXCEPT ![n].recorded = TRUE] ELSE files
    /\ IF ok THEN SetPending(n, None) ELSE Complete(n, pending[n])
    /\ UNCHANGED <<hostVars, routine, row, runtime, due, now, queue, daemonUp, script, executed, former, outages, deaths, scenario>>

WriteStop(n, ok) ==
    /\ Working /\ n \in PendingRuns /\ pending[n].stop = "asked"
    /\ files' = IF ok THEN [files EXCEPT ![n].stop = TRUE] ELSE files
    /\ SetPending(n, [pending[n] EXCEPT !.stop = IF ok THEN "written" ELSE "no"])
    /\ UNCHANGED <<hostVars, routine, row, runtime, due, now, queue, daemonUp, script, executed, former, outages, deaths, scenario>>

-----------------------------------------------------------------------------
(* The life of the runtime process.                                         *)
Idle(n) == n \in PendingRuns => pending[n].job = "none" /\ pending[n].stop # "asked"

Shutdown ==
    /\ Serving /\ Asked("shutdown")
    /\ outages < MaxOutages /\ outages' = outages + 1
    /\ runtime' = "stopping"
    /\ UNCHANGED <<hostVars, routine, row, due, pending, now, files, queue, daemonUp, script, executed, former, deaths, scenario>>

ExitsAtOnce ==
    /\ runtime = "stopping"
    /\ runtime' = "down" /\ pending' = [n \in Runs |-> None]
    /\ UNCHANGED <<hostVars, routine, row, due, worldVars>>

(* run_owner keeps the ownership lock until every worker has settled.       *)
Exits ==
    /\ runtime = "stopping"
    /\ \A n \in Runs : Idle(n)
    /\ runtime' = "down" /\ pending' = [n \in Runs |-> None]
    /\ UNCHANGED <<hostVars, routine, row, due, worldVars>>
RuntimeCrashes ==
    /\ runtime # "down"
    /\ outages < MaxOutages /\ outages' = outages + 1
    /\ runtime' = "down" /\ due' = {} /\ pending' = [n \in Runs |-> None]
    /\ former' = former \cup queue
    /\ UNCHANGED <<hostVars, routine, row, now, files, queue, daemonUp, script, executed, deaths, scenario>>

BootsAfresh ==
    /\ runtime = "down"
    /\ runtime' = "booting"
    /\ due' = {r \in RoutineIds : IsDue(r)}
    /\ UNCHANGED <<hostVars, routine, row, pending, worldVars>>

(* Service::new: running rows become pending again and are only inspected;  *)
(* fires that fell into the outage are skipped with a row of history.       *)
Boots ==
    /\ runtime = "down"
    /\ runtime' = "booting"
    /\ pending' = [n \in Runs |-> IF row[n].status = "running" THEN Recovered ELSE None]
    /\ due' = {r \in RoutineIds : IsDue(r)}
    /\ UNCHANGED <<hostVars, routine, row, worldVars>>

BootSkips(n, r) ==
    /\ runtime = "booting" /\ r \in due
    /\ n \in NextRow
    /\ Admit(n, r, "skipped", routine[r].next, NextRun(now))
    /\ due' = due \ {r}
    /\ UNCHANGED <<hostVars, runtime, pending, worldVars>>

BootEnds ==
    /\ runtime = "booting" /\ due = {}
    /\ runtime' = "serving"
    /\ UNCHANGED <<hostVars, routine, row, due, pending, worldVars>>

-----------------------------------------------------------------------------
(* palmagentd.                                                              *)
DaemonTakes(n) ==
    /\ daemonUp /\ launching = {}
    /\ n \in queue
    /\ queue' = queue \ {n}
    /\ IF CanLaunch(n) /\ files[n].descriptor THEN LaunchReserves(n, "pending", ~Asked("process-group")) ELSE UNCHANGED hostVars
    /\ UNCHANGED <<serviceVars, now, files, daemonUp, script, executed, former, outages, deaths, scenario>>

(* A request that waited for its whole time is closed unread.               *)
DaemonCloses(n) ==
    /\ daemonUp /\ n \in queue
    /\ queue' = queue \ {n}
    /\ UNCHANGED <<hostVars, serviceVars, now, files, daemonUp, script, executed, former, outages, deaths, scenario>>

DaemonActs(n) ==
    /\ daemonUp
    /\ LaunchSpawns(n) \/ LaunchFails(n) \/ MaintainNext(n)
    /\ UNCHANGED <<serviceVars, worldVars>>

DaemonCrashes ==
    /\ daemonUp
    /\ outages < MaxOutages /\ outages' = outages + 1
    /\ daemonUp' = FALSE /\ queue' = {}
    /\ LaunchesAbandoned
    /\ UNCHANGED <<serviceVars, now, files, script, executed, former, deaths, scenario>>

DaemonStarts ==
    /\ ~daemonUp
    /\ daemonUp' = TRUE
    /\ UNCHANGED <<hostVars, serviceVars, now, files, queue, script, executed, former, outages, deaths, scenario>>

-----------------------------------------------------------------------------
(* The script host (retained.rs, retained_host.rs, script_process.rs): the  *)
(* child of the guardian.                                                   *)
SetScript(n, at, outcome) == script' = [script EXCEPT ![n] = [at |-> at, outcome |-> outcome]]
HostAt(n, at) == process[n].group = "child" /\ script[n].at = at

GuardActs(n) ==
    /\ GuardNext(n)
    /\ IF process'[n].started > process[n].started THEN SetScript(n, "booted", None) ELSE UNCHANGED script
    /\ UNCHANGED <<serviceVars, now, files, queue, daemonUp, executed, former, outages, deaths, scenario>>

HostClaims(n) ==
    /\ HostAt(n, "booted")
    /\ IF files[n].claim
       THEN ChildExits(n, FALSE) /\ UNCHANGED <<files, script>>
       ELSE /\ files' = [files EXCEPT ![n].claim = TRUE]
            /\ SetScript(n, "claimed", None)
            /\ UNCHANGED hostVars
    /\ UNCHANGED <<serviceVars, now, queue, daemonUp, executed, former, outages, deaths, scenario>>

HostFindsStop(n) ==
    /\ HostAt(n, "claimed")
    /\ files[n].stop
    /\ SetScript(n, "ended", "interrupted")
    /\ UNCHANGED <<hostVars, serviceVars, now, files, queue, daemonUp, executed, former, outages, deaths, scenario>>

(* Readiness is published once the script's controller is in place.         *)
HostExecutes(n) ==
    /\ HostAt(n, "claimed")
    /\ ~files[n].stop
    /\ SetScript(n, "running", None)
    /\ executed' = [executed EXCEPT ![n] = @ + 1]
    /\ ChildReady(n)
    /\ UNCHANGED <<serviceVars, now, files, queue, daemonUp, former, outages, deaths, scenario>>

(* The command exits, times out, cannot be run, or is told to stop.         *)
HostScriptEnds(n, outcome) ==
    /\ HostAt(n, "running")
    /\ outcome = "interrupted" => files[n].stop
    /\ outcome = "failed" => Asked("unsuccessful")
    /\ SetScript(n, "ended", outcome)
    /\ UNCHANGED <<hostVars, serviceVars, now, files, queue, daemonUp, executed, former, outages, deaths, scenario>>

HostSavesOrRepeats(n) ==
    /\ HostAt(n, "ended")
    /\ \/ /\ files' = [files EXCEPT ![n].result = script[n].outcome]
          /\ SetScript(n, "saved", script[n].outcome) /\ UNCHANGED executed
       \/ /\ SetScript(n, "running", None)
          /\ executed' = [executed EXCEPT ![n] = @ + 1] /\ UNCHANGED files
    /\ UNCHANGED <<hostVars, serviceVars, now, queue, daemonUp, former, outages, deaths, scenario>>

(* Saving is repeated until it succeeds; the command is not.                *)
HostSaves(n) ==
    /\ HostAt(n, "ended")
    /\ files' = [files EXCEPT ![n].result = script[n].outcome]
    /\ SetScript(n, "saved", script[n].outcome)
    /\ UNCHANGED <<hostVars, serviceVars, now, queue, daemonUp, executed, former, outages, deaths, scenario>>

HostExits(n) ==
    /\ HostAt(n, "saved")
    /\ ChildExits(n, FALSE)
    /\ UNCHANGED <<serviceVars, worldVars>>

(* Deaths, and the watchdog that then ends the script by its broken lease.  *)
Dies(n) ==
    /\ Asked("death") /\ deaths < MaxDeaths /\ deaths' = deaths + 1
    /\ GuardDies(n) \/ (Asked("failing") /\ GuardFails(n)) \/ ChildExits(n, TRUE)
    /\ UNCHANGED <<serviceVars, now, files, queue, daemonUp, script, executed, former, outages, scenario>>

WatchdogEnds(n) ==
    /\ GroupEmpties(n)
    /\ UNCHANGED <<serviceVars, worldVars>>

ClockAdvances ==
    /\ now < MaxTime
    /\ now' = now + 1
    /\ UNCHANGED <<hostVars, serviceVars, files, queue, daemonUp, script, executed, former, outages, deaths, scenario>>

-----------------------------------------------------------------------------
RequestNext ==
    \/ \E r \in RoutineIds : Create(r) \/ Remove(r) \/ Stop(r)
    \/ \E r \in RoutineIds, enabled \in BOOLEAN : Update(r, enabled)
    \/ \E n \in Runs, r \in RoutineIds : RunNow(n, r)
    \/ Shutdown

OwnerProgress(n) ==
    \/ PollRecords(n) \/ PollLaunches(n) \/ PollInspects(n)
    \/ (\E ok \in BOOLEAN : PrepareEnds(n, ok)) \/ LaunchDescribes(n) \/ LaunchAsks(n) \/ LaunchEnds(n)
    \/ InspectAsks(n) \/ InspectReads(n) \/ Acknowledge(n, TRUE) \/ WriteStop(n, TRUE)

PassProgress ==
    \/ \E n \in Runs, r \in RoutineIds : PollFires(n, r) \/ BootSkips(n, r)
    \/ \E r \in RoutineIds : PollPassesOver(r)
    \/ Exits \/ Boots \/ BootEnds

HostProgress(n) ==
    \/ GuardActs(n) \/ HostClaims(n) \/ HostFindsStop(n) \/ HostExecutes(n)
    \/ (\E outcome \in Outcomes : HostScriptEnds(n, outcome))
    \/ HostSaves(n) \/ HostExits(n) \/ WatchdogEnds(n)

Next ==
    \/ RequestNext \/ PollTicks \/ PassProgress \/ RuntimeCrashes \/ ClockAdvances
    \/ DaemonCrashes \/ DaemonStarts
    \/ \E n \in Runs :
        \/ OwnerProgress(n) \/ Acknowledge(n, FALSE) \/ WriteStop(n, FALSE)
        \/ DaemonTakes(n) \/ DaemonCloses(n) \/ DaemonActs(n)
        \/ HostProgress(n) \/ Dies(n)

Spec == Init /\ [][Next]_vars

-----------------------------------------------------------------------------
Executing(n) == script[n].at = "running" /\ process[n].group # "empty"

(* The command of an admitted run is started at most once, whatever crashes *)
(* and however often the launch is asked for (hosts.rs: "Launch is          *)
(* attempted once; reconciliation never replays it").                       *)
ExecutedOnce == \A n \in Runs : executed[n] <= 1

(* No two rows of history answer the same scheduled instant: a crash at any *)
(* point neither repeats nor forgets which fires have been decided.         *)
FiredOncePerSlot ==
    \A m, n \in Runs : m # n /\ row[m].slot # None /\ row[m].routine = row[n].routine =>
        row[m].slot # row[n].slot

(* Runs the runtime can lose sight of: their launch request outlived the    *)
(* runtime that sent it, or their script escaped its guardian, which in     *)
(* process-group mode may record an end it could not bring about            *)
(* (RetainedHosts).                                                         *)
OutOfSight == former \cup {n \in Runs : Escaped(n)}

(* A result the script host saved is the one that ends up in the history:   *)
(* neither a crash nor a delayed inspection turns it into an interruption   *)
(* -- except for the runs out of sight, whose script may go on after their  *)
(* row was decided.                                                         *)
SavedResultIsRecorded ==
    \A n \in Runs \ OutOfSight :
        files[n].result # None /\ row[n].status \in Outcomes => row[n].status = files[n].result

(* Every script that runs is one the history shows as running, hence at     *)
(* most one per routine and ScriptCapacity in all -- with the same          *)
(* exceptions.                                                              *)
ExecutingIsRunning ==
    \A n \in Runs \ OutOfSight : Executing(n) => row[n].status = "running"

(* docs/DAEMON.md: "The four-script limit and maintenance admission gate    *)
(* remain in force."                                                        *)
ScriptLimit == Cardinality({n \in Runs : Executing(n)}) <= ScriptCapacity

-----------------------------------------------------------------------------
(* Liveness.  The runtime is restarted by palmagentd and polls every second *)
(* with a store that answers in the end; palmagentd is restarted by its     *)
(* bootstrap; guardians and script hosts advance, and a script ends because *)
(* its timeout ends it.  Nothing is assumed of users or of outages.         *)
Fairness ==
    /\ WF_vars(PassProgress) /\ WF_vars(DaemonStarts)
    /\ SF_vars(\E n \in Runs : OwnerProgress(n)) /\ SF_vars(daemonUp /\ \E n \in Runs : DaemonActs(n))
    /\ WF_vars(\E n \in Runs : HostProgress(n) \/ DaemonTakes(n))

FairSpec == Spec /\ Fairness

(* Every run that was admitted is recorded as ended, unless the outcome of  *)
(* its launch stays unknown: "An uncertain reservation is retained"         *)
(* (hosts.rs of the runtime), or the bound leaves a boot no row to skip in. *)
RunsEnd ==
    \A n \in Runs : (row[n].status = "running") ~>
        (row[n].status # "running" \/ HostState(n) = "unknown" \/ (due # {} /\ NextRow = {}))
=============================================================================
