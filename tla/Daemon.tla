------------------------------- MODULE Daemon -------------------------------
(***************************************************************************)
(* palmagentd itself (daemon.rs, recovery.rs, control.rs, main.rs): the     *)
(* supervisor of the web, of the application service (palmagent-runtime)    *)
(* and of hosts of work, above the host records of RetainedHosts.           *)
(*                                                                         *)
(* The daemon is one loop.  What a request or a recovery tick has to do is  *)
(* its first durable step plus `agenda`, the steps that follow in the same  *)
(* turn of the loop: nothing else of the daemon runs before they are done,  *)
(* but it can die between any two of them, and guardians and children go on *)
(* meanwhile.  `pending` is the one lifecycle operation that spans turns.   *)
(* Requests wait in their connections while there is one; those that only   *)
(* read are not modelled.                                                   *)
(*                                                                         *)
(* Deadlines (15 s of a stop, 15 or 60 s of a launch), the back-off and the *)
(* 30 s of stability have passed or not as the model chooses.               *)
(***************************************************************************)
EXTENDS RetainedHosts, Sequences, FiniteSets

CONSTANTS
    None,
    WebHosts, ApplicationHosts, WorkHosts,  \* identities, taken in increasing order
    Releases,
    Supported,        \* releases with an application service
    FirstRelease,
    Scenarios,        \* sets of requests and events that occur together
    MaxInstalls,      \* bound on changes of the configuration
    MaxCrashes,       \* bound on crashes of the daemon
    MaxDeaths         \* bound on deaths and failures of guardians

ASSUME DaemonAssumption ==
    /\ Hosts = WebHosts \cup ApplicationHosts \cup WorkHosts
    /\ WebHosts \cap ApplicationHosts = {} /\ WebHosts \cap WorkHosts = {} /\ ApplicationHosts \cap WorkHosts = {}
    /\ Hosts \subseteq Nat /\ None \notin Hosts
    /\ Supported \subseteq Releases /\ FirstRelease \in Releases
    /\ None \notin Releases /\ "stop" \notin Releases \cup {None}
    /\ Scenarios \subseteq SUBSET {"restart", "install", "replace", "work", "stop", "crash", "guardian", "failing", "descendants",
                                   "retention", "recover", "stable", "slow", "again", "exits",
                                   "process-group"}
    /\ MaxInstalls \in Nat /\ MaxCrashes \in Nat /\ MaxDeaths \in Nat

VARIABLES
    release,      \* release[h]: the release of h's record
    current,      \* web.json and application.json
    enabled,      \* application-enabled.json
    disk,         \* config.json, of which only the release matters
    recovery,     \* web-recovery.json and application-recovery.json
    daemon,       \* "up", "down" or "stopped"
    config,       \* the configuration the daemon works with
    pending,      \* the lifecycle operation that is waiting
    agenda,       \* what is left of this turn of the loop
    exiting,      \* None, "stop", or the release the daemon is to be replaced for
    inherited,    \* schedulers that lived when the daemon took over a configuration nobody had activated:
                  \* history, not a state of the program
    installs, crashes, deaths,
    scenario      \* the scenario of this behaviour: a bound, not a state of the program

files == <<release, current, enabled, disk, recovery>>
loop == <<config, pending, agenda, exiting>>
bounds == <<daemon, inherited, installs, crashes, deaths, scenario>>
vars == <<hostVars, files, loop, bounds>>

-----------------------------------------------------------------------------
Services == {"web", "application"}
IdsOf(service) == IF service = "web" THEN WebHosts ELSE ApplicationHosts
ServiceOf(h) == IF h \in WebHosts THEN "web" ELSE "application"

(* unique_id: an identity that no service was ever given.  The first web is *)
(* the only one unless the scenario has services start again.               *)
Fresh(service) ==
    LET later == {h \in IdsOf(service) : current[service] = None \/ h > current[service]}
    IN  {h \in later : (\A other \in later : h <= other) /\ (current[service] = None \/ "again" \in scenario)}

Afters == {"inspect", "restart", "shutdown", "activate", "replace"}
Launching(h) == [op |-> "launch", host |-> h, after |-> "inspect", candidate |-> None]
Stopping(h, after, candidate) == [op |-> "stop", host |-> h, after |-> after, candidate |-> candidate]
Operation == [op : {"launch", "stop"}, host : Hosts, after : Afters, candidate : Releases \cup {None}]

Do(op) == [op |-> op, host |-> None, after |-> "inspect", candidate |-> None]
DoFor(op, h) == [Do(op) EXCEPT !.host = h]
DoThen(op, h, after, candidate) == [op |-> op, host |-> h, after |-> after, candidate |-> candidate]
Agenda == [op : {"disable", "stopApplication", "startWeb", "startApplication", "launch", "launchAndWait",
                 "signal", "kill"},
           host : Hosts \cup {None}, after : Afters, candidate : Releases \cup {None}]

TypeOK ==
    /\ HostsTypeOK
    /\ release \in [Hosts -> Releases \cup {None}]
    /\ current \in [Services -> Hosts \cup {None}]
    /\ enabled \in Releases \cup {None} /\ disk \in Releases /\ config \in Releases \cup {None}
    /\ daemon = "up" => config # None
    /\ recovery \in [Services -> [failed : Hosts \cup {None}, failures : Nat, stable : Hosts \cup {None}]]
    /\ daemon \in {"up", "down", "stopped"}
    /\ pending \in Operation \cup {None}
    /\ agenda \in Seq(Agenda)
    /\ exiting \in Releases \cup {None, "stop"}
    /\ inherited \subseteq ApplicationHosts
    /\ installs \in 0..MaxInstalls /\ crashes \in 0..MaxCrashes /\ deaths \in 0..MaxDeaths
    /\ scenario \in Scenarios

Init ==
    /\ HostsInit
    /\ release = [h \in Hosts |-> None]
    /\ current = [s \in Services |-> None]
    /\ enabled = None /\ disk = FirstRelease
    /\ recovery = [s \in Services |-> [failed |-> None, failures |-> 0, stable |-> None]]
    /\ daemon = "up" /\ config = FirstRelease
    /\ pending = None /\ agenda = <<>> /\ exiting = None
    /\ inherited = {}
    /\ installs = 0 /\ crashes = 0 /\ deaths = 0
    /\ scenario \in Scenarios

-----------------------------------------------------------------------------
Asked(kind) == kind \in scenario
Running == daemon = "up" /\ agenda = <<>>
Admitting == Running /\ pending = None /\ exiting = None

ServiceRuns(service) == current[service] # None /\ HostState(current[service]) = "running"
ServiceAlive(service) == current[service] # None /\ Alive(current[service])
Changes(candidate) == candidate # config \/ candidate \notin Supported

(* activate, after which the old scheduler is gone or its stop is pending.  *)
ActivateAtOnce(candidate) == <<DoThen("startWeb", None, "activate", candidate)>>
Activate(candidate) ==
    IF Changes(candidate) THEN <<Do("disable"), DoThen("stopApplication", None, "activate", candidate)>>
    ELSE <<DoThen("startWeb", None, "activate", candidate)>>

(* hosts::stop, gracefully, and the operation that waits for the end.       *)
StopService(service, after, candidate) ==
    LET h == current[service] IN
    /\ record[h].state # "absent"
    /\ pending' = Stopping(h, after, candidate)
    /\ IF record[h].state = "exited" THEN UNCHANGED <<hostVars, agenda>>
       ELSE StopMarks(h) /\ agenda' = <<DoFor("signal", h)>>

-----------------------------------------------------------------------------
(* begin: the requests.                                                     *)
RestartWeb ==
    /\ Admitting /\ Asked("restart")
    /\ IF current["web"] = None THEN agenda' = Activate(disk) /\ UNCHANGED <<hostVars, pending>>
       ELSE StopService("web", "restart", disk)
    /\ UNCHANGED <<files, config, exiting, bounds>>

Replace ==
    /\ Admitting /\ Asked("replace")
    /\ IF Changes(disk)
       THEN agenda' = <<Do("disable"), DoThen("stopApplication", None, "replace", disk)>> /\ UNCHANGED exiting
       ELSE exiting' = disk /\ UNCHANGED agenda
    /\ UNCHANGED <<hostVars, files, config, pending, bounds>>

NoReadyWork == \A h \in WorkHosts : ~record[h].child
NoWork == \A h \in WorkHosts : record[h].state \notin {"absent", "exited"} => ~Alive(h)

Stop ==
    /\ Admitting /\ Asked("stop") /\ NoWork
    /\ IF current["web"] = None
       THEN /\ agenda' = <<Do("disable"), DoThen("stopApplication", None, "shutdown", None)>>
            /\ UNCHANGED <<hostVars, pending>>
       ELSE StopService("web", "shutdown", None)
    /\ UNCHANGED <<files, config, exiting, bounds>>

(* Sent by a web that boots, also while the launch of that web is pending.  *)
StartApplication(h) ==
    /\ Running /\ exiting = None
    /\ pending # None => pending.op = "launch" /\ pending.host \in WebHosts
    /\ h \in WebHosts /\ process[h].group = "child"
    /\ release[h] = config /\ config \in Supported
    /\ enabled' = config
    /\ agenda' = <<Do("startApplication")>>
    /\ UNCHANGED <<hostVars, release, current, disk, recovery, config, pending, exiting, bounds>>

(* Executions, terminals, script hosts, updates; a launch may be repeated.  *)
LaunchWork(h) ==
    /\ Admitting /\ Asked("work")
    /\ h \in WorkHosts
    /\ agenda' = <<DoFor("launchAndWait", h)>>
    /\ UNCHANGED <<hostVars, files, config, pending, exiting, bounds>>

Terminate(h) ==
    /\ Admitting
    /\ h \in WorkHosts
    /\ StopMarks(h)
    /\ agenda' = <<DoFor("kill", h)>>
    /\ UNCHANGED <<files, config, pending, exiting, bounds>>

-----------------------------------------------------------------------------
(* The steps of a turn.                                                     *)
Now == Head(agenda)
Doing(op) == daemon = "up" /\ agenda # <<>> /\ Now.op = op

Disable ==
    /\ Doing("disable")
    /\ enabled' = None
    /\ agenda' = Tail(agenda)
    /\ UNCHANGED <<hostVars, release, current, disk, recovery, config, pending, exiting, bounds>>

StopApplication ==
    /\ Doing("stopApplication")
    /\ IF ServiceAlive("application")
       THEN StopService("application", Now.after, Now.candidate) /\ UNCHANGED exiting
       ELSE /\ agenda' = IF Now.after = "activate" THEN <<DoThen("startWeb", None, "activate", Now.candidate)>> ELSE <<>>
            /\ exiting' = CASE Now.after = "replace" -> Now.candidate [] Now.after = "shutdown" -> "stop" [] OTHER -> exiting
            /\ UNCHANGED <<hostVars, pending>>
    /\ UNCHANGED <<files, config, bounds>>

(* The selected identity is stored first.                                   *)
Select(service, step) ==
    \E h \in Fresh(service) :
        /\ current' = [current EXCEPT ![service] = h]
        /\ agenda' = <<DoFor(step, h)>>


(* start_web, by recovery or once an activation has taken its configuration.*)
StartWeb ==
    /\ Doing("startWeb")
    /\ config' = IF Now.candidate = None THEN config ELSE Now.candidate
    /\ IF ServiceAlive("web") THEN agenda' = <<>> /\ UNCHANGED current
       ELSE Select("web", IF Now.candidate = None THEN "launch" ELSE "launchAndWait")
    /\ UNCHANGED <<hostVars, release, enabled, disk, recovery, pending, exiting, bounds>>

StartService ==
    /\ Doing("startApplication")
    /\ IF ServiceAlive("application") THEN agenda' = <<>> /\ UNCHANGED current
       ELSE Select("application", "launch")
    /\ UNCHANGED <<hostVars, release, enabled, disk, recovery, config, pending, exiting, bounds>>

(* hosts::launch.  A service must report that it is ready.                  *)
Launch ==
    /\ Doing("launch") \/ Doing("launchAndWait")
    /\ Now.host \notin launching
    /\ IF CanLaunch(Now.host)
       THEN /\ LaunchReserves(Now.host, IF Now.host \in WorkHosts THEN "unsupported" ELSE "pending", ~Asked("process-group"))
            /\ release' = [release EXCEPT ![Now.host] = config]
            /\ UNCHANGED agenda
       ELSE agenda' = <<>> /\ UNCHANGED <<hostVars, release>>
    /\ UNCHANGED <<current, enabled, disk, recovery, config, pending, exiting, bounds>>

Spawn ==
    /\ Doing("launch") \/ Doing("launchAndWait")
    /\ LaunchSpawns(Now.host)
    /\ agenda' = <<>>
    /\ pending' = IF Now.op = "launchAndWait" THEN Launching(Now.host) ELSE pending
    /\ UNCHANGED <<files, config, exiting, bounds>>

SpawnFails ==
    /\ Doing("launch") \/ Doing("launchAndWait")
    /\ LaunchFails(Now.host)
    /\ agenda' = <<>>
    /\ UNCHANGED <<files, config, pending, exiting, bounds>>

Signal(unhandled) ==
    /\ Doing("signal")
    /\ StopSignals(Now.host, unhandled)
    /\ agenda' = <<>>
    /\ UNCHANGED <<files, config, pending, exiting, bounds>>

Kill ==
    /\ Doing("kill")
    /\ IF Terminable(Now.host)
       THEN StopKills(Now.host) /\ pending' = Stopping(Now.host, "inspect", None)
       ELSE UNCHANGED <<hostVars, pending>>
    /\ agenda' = <<>>
    /\ UNCHANGED <<files, config, exiting, bounds>>

-----------------------------------------------------------------------------
(* Operation::poll.                                                         *)
Polling(op) == Running /\ pending # None /\ pending.op = op

LaunchConfirmed ==
    /\ Polling("launch") /\ LaunchFinished(pending.host)
    /\ pending' = None
    /\ UNCHANGED <<hostVars, files, config, agenda, exiting, bounds>>

Stopped ==
    /\ Polling("stop") /\ ~Alive(pending.host)
    /\ pending' = None
    /\ LET application == pending.host \in ApplicationHosts IN
       /\ agenda' = CASE pending.after = "restart" -> Activate(pending.candidate)
                      [] pending.after = "activate" -> <<DoThen("startWeb", None, "activate", pending.candidate)>>
                      [] pending.after = "shutdown" /\ ~application ->
                            <<Do("disable"), DoThen("stopApplication", None, "shutdown", None)>>
                      [] OTHER -> <<>>
       /\ exiting' = CASE pending.after = "shutdown" /\ application -> "stop"
                       [] pending.after = "replace" -> pending.candidate
                       [] OTHER -> exiting
    /\ UNCHANGED <<hostVars, files, config, bounds>>

(* The deadline passes: the reservation, or the host, stays as it is.       *)
TimesOut ==
    /\ \/ Polling("launch") /\ ~LaunchFinished(pending.host)
       \/ Polling("stop") /\ Alive(pending.host)
    /\ pending' = None
    /\ UNCHANGED <<hostVars, files, config, agenda, exiting, bounds>>

-----------------------------------------------------------------------------
(* Recovery::advance, for a service that may be recovered now.              *)
OwnsWeb == pending # None /\ pending.host \notin WorkHosts
Recoverable(service) ==
    /\ Running /\ exiting = None /\ ~OwnsWeb /\ Asked("recover")
    /\ service = "application" => enabled = config /\ config \in Supported

Settled(h) == Supervision(h) = "guarded" /\ Phase(h) \in {"ready", "running"}

(* stable: the identity whose 30 s of stability are measured; long: they    *)
(* have passed.                                                             *)
RecoveryHealthy(service, long) ==
    LET h == current[service] IN
    /\ Recoverable(service) /\ ServiceAlive(service) /\ Asked("stable")
    /\ long => recovery[service].stable = h /\ Settled(h)
    /\ recovery' = [recovery EXCEPT ![service].stable = IF Settled(h) THEN h ELSE None, ![service].failures = IF long THEN 0 ELSE @]
    /\ recovery' # recovery
    /\ UNCHANGED <<hostVars, release, current, enabled, disk, loop, bounds>>

(* The service has been starting for 60 s.                                  *)
RecoveryStopsUnready(service) ==
    LET h == current[service] IN
    /\ Recoverable(service) /\ ServiceAlive(service) /\ Asked("slow")
    /\ Phase(h) = "starting" /\ record[h].readiness = "pending"
    /\ StopMarks(h)
    /\ agenda' = <<DoFor("signal", h)>>
    /\ recovery' = [recovery EXCEPT ![service].stable = None]
    /\ UNCHANGED <<release, current, enabled, disk, config, pending, exiting, bounds>>

(* A death is counted once per identity, and delays the next attempt.       *)
AlreadyCounted(service) == current[service] = None \/ recovery[service].failed = current[service]

RecoveryCounts(service) ==
    /\ Recoverable(service) /\ ~ServiceAlive(service)
    /\ ~AlreadyCounted(service)
    /\ recovery' = [recovery EXCEPT ![service] = [failed |-> current[service], failures |-> @.failures + 1, stable |-> None]]
    /\ UNCHANGED <<hostVars, release, current, enabled, disk, loop, bounds>>

(* The back-off is over.                                                    *)
RecoveryStarts(service) ==
    /\ Recoverable(service) /\ ~ServiceAlive(service)
    /\ AlreadyCounted(service)
    /\ agenda' = <<Do(IF service = "web" THEN "startWeb" ELSE "startApplication")>>
    /\ recovery' = [recovery EXCEPT ![service].stable = None]
    /\ UNCHANGED <<hostVars, release, current, enabled, disk, config, pending, exiting, bounds>>

Maintain(h) ==
    /\ Running
    /\ MaintainOrphan(h) \/ MaintainConfirmsEnd(h) \/ (Asked("retention") /\ MaintainCompacts(h))
    /\ UNCHANGED <<files, loop, bounds>>

-----------------------------------------------------------------------------
(* Something of h runs, or will: its guardian is on the way.  What escaped  *)
(* its guardian in process-group mode (RetainedHosts) is not counted: the   *)
(* daemon cannot know of it.                                                *)
Living(h) ==
    \/ process[h].group # "empty" /\ ~Escaped(h)
    \/ process[h].guard \notin {"none", "gone"}
    \/ h \in launching
LivingSchedulers == {h \in ApplicationHosts : Living(h)}

(* The life of the daemon process.                                          *)
Forget == pending' = None /\ agenda' = <<>> /\ exiting' = None

(* exec of the configured daemon, which reads the configuration.            *)
ExitToReplace ==
    /\ Running /\ exiting \in Releases
    /\ Forget
    /\ config' = disk
    /\ inherited' = IF exiting = disk THEN inherited ELSE inherited \cup LivingSchedulers
    /\ UNCHANGED <<hostVars, files, daemon, installs, crashes, deaths, scenario>>

ExitToStop ==
    /\ Running /\ exiting = "stop"
    /\ Forget
    /\ config' = None /\ daemon' = "stopped"
    /\ UNCHANGED <<hostVars, files, inherited, installs, crashes, deaths, scenario>>

Crash ==
    /\ daemon = "up"
    /\ Asked("crash") /\ crashes < MaxCrashes /\ crashes' = crashes + 1
    /\ Forget
    /\ LaunchesAbandoned
    /\ daemon' = "down"
    /\ UNCHANGED <<files, config, inherited, installs, deaths, scenario>>

(* The bootstrap starts it again, or, after a stop, the user does.          *)
Boot ==
    /\ daemon \in {"down", "stopped"}
    /\ daemon' = "up" /\ config' = disk
    /\ inherited' = IF daemon = "down" /\ config # disk THEN inherited \cup LivingSchedulers ELSE inherited
    /\ UNCHANGED <<hostVars, files, pending, agenda, exiting, installs, crashes, deaths, scenario>>

(* An update or a rollback writes the configuration, then asks the daemon.  *)
Configure(r) ==
    /\ Asked("install") /\ installs < MaxInstalls /\ installs' = installs + 1
    /\ disk' = r
    /\ disk' # disk
    /\ UNCHANGED <<hostVars, release, current, enabled, recovery, loop, daemon, inherited, crashes, deaths, scenario>>

-----------------------------------------------------------------------------
HostMoves(h) ==
    /\ \/ GuardNext(h) \/ ChildReady(h) \/ GroupEmpties(h)
       \/ (process[h].told \/ Asked("exits")) /\ ChildExits(h, FALSE)
       \/ Asked("descendants") /\ ChildExits(h, TRUE)
    /\ UNCHANGED <<files, loop, bounds>>

HostLosesGuardian(h) ==
    /\ deaths < MaxDeaths /\ deaths' = deaths + 1
    /\ (Asked("guardian") /\ GuardDies(h)) \/ (Asked("failing") /\ GuardFails(h))
    /\ UNCHANGED <<files, loop, daemon, inherited, installs, crashes, scenario>>

Request ==
    \/ RestartWeb \/ Replace \/ Stop
    \/ \E h \in Hosts : StartApplication(h) \/ LaunchWork(h) \/ Terminate(h)

Step ==
    \/ Disable \/ StopApplication \/ StartWeb \/ StartService \/ Launch \/ Spawn \/ SpawnFails
    \/ (\E unhandled \in BOOLEAN : Signal(unhandled)) \/ Kill
    \/ LaunchConfirmed \/ Stopped \/ TimesOut

Recover(service) ==
    \/ \E long \in BOOLEAN : RecoveryHealthy(service, long)
    \/ RecoveryStopsUnready(service) \/ RecoveryCounts(service) \/ RecoveryStarts(service)

Next ==
    \/ Request \/ Step \/ ExitToReplace \/ ExitToStop \/ Crash \/ Boot
    \/ \E service \in Services : Recover(service)
    \/ \E r \in Releases : Configure(r)
    \/ \E h \in Hosts : Maintain(h) \/ HostMoves(h) \/ HostLosesGuardian(h)

Spec == Init /\ [][Next]_vars

-----------------------------------------------------------------------------
(* There is never a second web and never a second scheduler, whatever is    *)
(* replaced, times out or crashes (daemon.rs: "a crashed supervisor never   *)
(* races an uncertain launch").                                             *)
OneOfEach ==
    \A service \in Services : Cardinality({h \in IdsOf(service) : Living(h)}) <= 1

(* A scheduler that runs is of the release the daemon works with, so the    *)
(* old one has ended before a web of the new release starts (DAEMON.md:     *)
(* "Changing release stops the old service before the new web initializes   *)
(* its writer").  Excepted are the schedulers that were running when the    *)
(* daemon took over a configuration nobody had activated, which happens in  *)
(* two ways: the daemon dies between a change of the configuration and its  *)
(* activation; or, without any death, the configuration changes again       *)
(* between the check of Replace, which stops the old scheduler only if      *)
(* daemon.rs:356 sees a change, and the exec, after which the new daemon    *)
(* reads it anew (daemon.rs:605-612).                                       *)
SchedulerIsOfRelease ==
    daemon = "up" => \A h \in LivingSchedulers \ inherited : release[h] = config

(* The same without the exception.                                          *)
OldSchedulerStopped ==
    \A w \in WebHosts, h \in ApplicationHosts : Living(w) /\ Living(h) /\ release[w] = config => release[h] = config

(* When the installation is stopped, nothing of it runs any more, although  *)
(* launches may have been asked for while its services were stopped.        *)
StoppedIsIdle == daemon = "stopped" => \A h \in Hosts : ~Living(h)

-----------------------------------------------------------------------------
(* The records as an implementation of Invocation.                          *)
PhaseOf(h) ==
    IF record[h].state = "absent" THEN "none"
    ELSE IF ~Alive(h) THEN "over"
    ELSE <<"reserved", "invoked", "invoked again">>[process[h].started + 1]

Hosting == INSTANCE Invocation WITH Ids <- Hosts, phase <- [h \in Hosts |-> PhaseOf(h)]

(* What palmagentd answers about a host implements Invocation: a host that  *)
(* was reported dead is never reported alive or started again, over all     *)
(* crashes, repeated launches and compactions.                              *)
HostsImplementInvocation == Hosting!Spec
=============================================================================
