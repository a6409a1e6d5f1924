---------------------------- MODULE DaemonProofs ----------------------------
(***************************************************************************)
(* What palmagentd promises of its services and hosts, for any number of    *)
(* identities, releases, installs, crashes and deaths.  Every step of the   *)
(* daemon is a step of its hosts (RetainedHostsProofs) or leaves them       *)
(* alone, so its reports of death are true and it implements Invocation.    *)
(* Supervised says what the turns of the loop, the operation that waits and *)
(* the daemon's exit know of the services; from it follow that there is one *)
(* of each, that the scheduler is of the daemon's release, and that nothing *)
(* is left when the installation has stopped.                               *)
(***************************************************************************)
EXTENDS Daemon, RetainedHostsProofs, FiniteSetTheorems

(* Nothing of a host runs or will run.                                      *)
Idle(h) == ~Living(h)
AppIdle == \A h \in ApplicationHosts : Idle(h)
WebIdle == \A h \in WebHosts : Idle(h)
WorkIdle == \A h \in WorkHosts : Idle(h)

(* The operation that is pending leaves the services alone.                 *)
NoService == pending = None \/ pending.host \in WorkHosts

(* What is known when the next step of a turn is op, for host h.            *)
StepOk(x) ==
    /\ exiting = None
    /\ x.op = "stopApplication" =>
         /\ pending = None
         /\ x.after \in {"activate", "replace", "shutdown"}
         /\ x.after \in {"activate", "replace"} => x.candidate \in Releases
         /\ x.after = "shutdown" => WorkIdle /\ WebIdle
    /\ x.op = "startWeb" =>
         /\ NoService
         /\ x.candidate \in Releases \cup {None}
         /\ x.candidate # None => pending = None /\ (x.candidate = config \/ AppIdle)
    /\ x.op = "startApplication" => NoService \/ pending.op = "launch"
    /\ x.op \in {"launch", "launchAndWait"} =>
         /\ x.host \in Hosts
         /\ x.host \in WorkHosts \/ x.host = current[ServiceOf(x.host)]
         /\ NoService \/ pending.op = "launch"
    /\ x.op = "launchAndWait" => pending = None
    /\ x.op = "signal" => x.host \in Hosts
    /\ x.op = "kill" => x.host \in WorkHosts /\ pending = None

Steps == {"stopApplication", "startWeb", "startApplication", "launch", "launchAndWait", "signal", "kill"}

TurnOk ==
    \/ agenda = <<>>
    \/ \E x \in Agenda : agenda = <<x>> /\ x.op \in Steps /\ StepOk(x)
    \/ \E x \in Agenda : agenda = <<Do("disable"), x>> /\ x.op = "stopApplication" /\ StepOk(x)

(* A stop of a service keeps everything else waiting; it is the current one *)
(* of its kind, and nothing is launched until it has ended.                 *)
PendingOk ==
    pending # None =>
        /\ pending \in Operation
        /\ exiting = None
        /\ (pending.op = "launch" \/ pending.host \in WorkHosts) => pending.after = "inspect"
        /\ (pending.op = "stop" /\ pending.host \notin WorkHosts) =>
             /\ agenda = <<>> \/ agenda = <<DoFor("signal", pending.host)>>
             /\ pending.host = current[ServiceOf(pending.host)]
             /\ pending.after \in {"restart", "activate", "replace"} => pending.candidate \in Releases
             /\ pending.after \in {"activate", "replace"} => pending.host \in ApplicationHosts
             /\ pending.after = "shutdown" => (WorkIdle /\ (pending.host \in ApplicationHosts => WebIdle))

(* A daemon that is about to exit has nothing left to do.                   *)
ExitOk ==
    exiting # None =>
        /\ agenda = <<>> /\ pending = None
        /\ exiting \in Releases => exiting = config \/ AppIdle
        /\ exiting = "stop" => WorkIdle /\ WebIdle /\ AppIdle

DownOk == daemon # "up" => agenda = <<>> /\ pending = None /\ exiting = None

(* Whatever lives of a service is its current identity.                     *)
CurrentOk ==
    \A service \in Services :
        /\ current[service] \in IdsOf(service) \cup {None}
        /\ \A h \in IdsOf(service) : Living(h) => current[service] = h

ReleaseOk ==
    daemon # "stopped" => \A h \in ApplicationHosts \ inherited : Living(h) => release[h] = config

Supervised ==
    /\ release \in [Hosts -> Releases \cup {None}]
    /\ current \in [Services -> Hosts \cup {None}]
    /\ disk \in Releases /\ config \in Releases \cup {None}
    /\ exiting \in Releases \cup {None, "stop"}
    /\ TurnOk /\ PendingOk /\ ExitOk /\ DownOk /\ CurrentOk /\ ReleaseOk /\ StoppedIsIdle
-----------------------------------------------------------------------------
(* Every identity is of one kind.                                           *)
LEMMA Kinds ==
    /\ WebHosts \subseteq Hosts /\ ApplicationHosts \subseteq Hosts /\ WorkHosts \subseteq Hosts
    /\ \A h \in Hosts : h \in WorkHosts \/ (ServiceOf(h) \in Services /\ h \in IdsOf(ServiceOf(h)))
    /\ \A service \in Services : \A h \in IdsOf(service) :
         h \in Hosts /\ h \notin WorkHosts /\ ServiceOf(h) = service /\ h # None
    /\ \A h \in WebHosts : h \notin ApplicationHosts
    /\ IdsOf("web") = WebHosts /\ IdsOf("application") = ApplicationHosts
BY DaemonAssumption DEF Services, IdsOf, ServiceOf

(* The entries of an agenda.                                                *)
LEMMA Entry ==
    ASSUME NEW op \in Steps \cup {"disable"}, NEW h \in Hosts \cup {None}, NEW after \in Afters,
           NEW candidate \in Releases \cup {None}
    PROVE  /\ DoThen(op, h, after, candidate) \in Agenda
           /\ DoThen(op, h, after, candidate).op = op
           /\ DoThen(op, h, after, candidate).host = h
           /\ DoThen(op, h, after, candidate).after = after
           /\ DoThen(op, h, after, candidate).candidate = candidate
BY DEF Steps, DoThen, Agenda

(* Do and DoFor are the entries whose other fields say nothing.             *)
LEMMA ShortEntries ==
    ASSUME NEW op, NEW h
    PROVE  Do(op) = DoThen(op, None, "inspect", None) /\ DoFor(op, h) = DoThen(op, h, "inspect", None)
BY DEF Do, DoFor, DoThen

(* An operation that waits for a host.                                      *)
LEMMA Operations ==
    ASSUME NEW h \in Hosts, NEW after \in Afters, NEW candidate \in Releases \cup {None}
    PROVE  /\ Launching(h) \in Operation /\ Launching(h).op = "launch" /\ Launching(h).host = h
           /\ Launching(h).after = "inspect"
           /\ Stopping(h, after, candidate) \in Operation /\ Stopping(h, after, candidate).op = "stop"
           /\ Stopping(h, after, candidate).host = h /\ Stopping(h, after, candidate).after = after
           /\ Stopping(h, after, candidate).candidate = candidate
BY DEF Launching, Stopping, Operation, Afters

(* A turn that is under way has one step left, or the first of two.         *)
LEMMA TurnCases ==
    ASSUME TurnOk, agenda # <<>>
    PROVE  \/ agenda = <<Now>> /\ Now \in Agenda /\ Now.op \in Steps /\ StepOk(Now)
           \/ /\ Now.op = "disable"
              /\ \E x \in Agenda : Tail(agenda) = <<x>> /\ x.op = "stopApplication" /\ StepOk(x)
<1>1. ASSUME NEW x \in Agenda, agenda = <<x>>, x.op \in Steps, StepOk(x)
      PROVE  agenda = <<Now>> /\ Now \in Agenda /\ Now.op \in Steps /\ StepOk(Now)
  <2>1. Now = x
    BY <1>1 DEF Now
  <2> QED  BY <1>1, <2>1
<1>2. ASSUME NEW x \in Agenda, agenda = <<Do("disable"), x>>, x.op = "stopApplication", StepOk(x)
      PROVE  Now.op = "disable" /\ Tail(agenda) = <<x>>
  <2>1. Now = Do("disable") /\ Tail(agenda) = <<x>>
    BY <1>2 DEF Now
  <2> QED  BY <2>1 DEF Do
<1> QED  BY <1>1, <1>2 DEF TurnOk

(* A step other than disable is the last one of its turn.                   *)
LEMMA Doings ==
    ASSUME Supervised, NEW op \in Steps, Doing(op)
    PROVE  agenda = <<Now>> /\ Now \in Agenda /\ Now.op = op /\ StepOk(Now) /\ daemon = "up" /\ exiting = None
<1>1. TurnOk /\ agenda # <<>> /\ Now.op = op /\ op # "disable" /\ daemon = "up"
  BY DEF Supervised, Doing, Steps
<1>2. agenda = <<Now>> /\ Now \in Agenda /\ Now.op \in Steps /\ StepOk(Now)
  BY <1>1, TurnCases
<1> QED  BY <1>1, <1>2 DEF StepOk

(* What lives is at work: only the end of a host lets anything escape.      *)
LEMMA LivingIsBusy ==
    ASSUME HostsOk, NEW h \in Hosts
    PROVE  Living(h) <=> Busy(h)
<1>1. HostsTypeOK /\ HostOk(h)
  BY DEF HostsOk
<1>2. Escaped(h) <=> process[h].escaped = TRUE
  BY <1>1, EscapedIsMarked
<1>3. process[h].escaped \in BOOLEAN
  BY <1>1, HostTypes DEF Process
<1> QED  BY <1>2, <1>3 DEF Living, Busy, AtWork

(* The same after a step.                                                   *)
LEMMA LivingIsBusyNext ==
    ASSUME HostsOk', NEW h \in Hosts
    PROVE  Living(h)' <=> Busy(h)'
<1>1. HostsTypeOK' /\ HostOk(h)'
  BY DEF HostsOk
<1>2. record'[h] \in Record /\ process'[h] \in Process
  BY <1>1 DEF HostsTypeOK
<1>3. Escaped(h)' <=> process'[h].escaped = TRUE
  BY <1>1, <1>2 DEF HostOk, Escaped, Record, Process
<1>4. process'[h].escaped \in BOOLEAN
  BY <1>2 DEF Process
<1> QED  BY <1>3, <1>4 DEF Living, Busy, AtWork

(* An identity that is reported dead, or was never used, is idle; so is all *)
(* of a service whose current identity is.                                  *)
LEMMA NotAliveIsIdle ==
    ASSUME HostsOk, NEW h \in Hosts, record[h].state \in {"absent", "exited"} \/ ~Alive(h)
    PROVE  Idle(h)
<1>1. HostOk(h) /\ HostsTypeOK
  BY DEF HostsOk
<1>2. CASE record[h].state = "absent"
  BY <1>1, <1>2 DEF HostOk, Unborn, Idle, Living
<1>3. CASE record[h].state = "exited"
  BY <1>1, <1>3, EscapedIsMarked DEF HostOk, Idle, Living
<1>4. CASE record[h].state # "absent" /\ ~Alive(h)
  BY <1>4, ReportIsTrue DEF ReportedDeadIsOver, Idle, Living
<1> QED  BY <1>2, <1>3, <1>4

(* The same of all of a service, by CurrentOk.                              *)
LEMMA DeadServiceIsIdle ==
    ASSUME HostsOk, CurrentOk, NEW service \in Services, ~ServiceAlive(service)
    PROVE  \A h \in IdsOf(service) : Idle(h)
<1> SUFFICES ASSUME NEW h \in IdsOf(service), Living(h) PROVE FALSE
  BY DEF Idle
<1>1. h \in Hosts /\ h # None
  BY Kinds
<1>2. current[service] = h
  BY DEF CurrentOk
<1>3. ~Alive(h)
  BY <1>1, <1>2 DEF ServiceAlive
<1> QED  BY <1>1, <1>3, NotAliveIsIdle DEF Idle
-----------------------------------------------------------------------------
(* Nothing comes to life in a step.                                         *)
NoneWakes == \A h \in Hosts : Living(h)' => Living(h)

(* What is idle stays so.                                                   *)
LEMMA StillIdle ==
    ASSUME NoneWakes
    PROVE  /\ \A h \in Hosts : Idle(h) => Idle(h)'
           /\ AppIdle => AppIdle'
           /\ WebIdle => WebIdle'
           /\ WorkIdle => WorkIdle'
BY Kinds DEF NoneWakes, Idle, AppIdle, WebIdle, WorkIdle

(* What a step of the turn may rely on outlives the steps of others.        *)
LEMMA StepStaysOk ==
    ASSUME NoneWakes, UNCHANGED <<pending, exiting, config, current>>, NEW x, StepOk(x)
    PROVE  StepOk(x)'
BY StillIdle DEF StepOk, NoService, ServiceOf

(* The services are as they were, and what is next is sound.                *)
LEMMA Frame ==
    ASSUME Supervised, NoneWakes, UNCHANGED <<release, current, config, daemon, inherited>>,
           disk' \in Releases, exiting' \in Releases \cup {None, "stop"},
           TurnOk', PendingOk', ExitOk', DownOk'
    PROVE  Supervised'
<1>1. CurrentOk' /\ ReleaseOk' /\ StoppedIsIdle'
  <2>1. CurrentOk'
    BY Kinds DEF Supervised, CurrentOk, NoneWakes
  <2>2. ReleaseOk'
    BY Kinds DEF Supervised, ReleaseOk, NoneWakes
  <2>3. StoppedIsIdle'
    BY DEF Supervised, StoppedIsIdle, NoneWakes
  <2> QED  BY <2>1, <2>2, <2>3
<1> QED  BY <1>1 DEF Supervised

(* Hosts, recovery counts and updates of the configuration leave the loop   *)
(* alone.                                                                   *)
LEMMA QuietStep ==
    ASSUME Supervised, NoneWakes, UNCHANGED <<release, current, daemon, inherited>>, UNCHANGED loop,
           disk' \in Releases
    PROVE  Supervised'
<1>0. UNCHANGED <<config, pending, agenda, exiting>>
  BY DEF loop
<1>1. TurnOk'
  <2>1. ASSUME NEW x \in Agenda, StepOk(x) PROVE StepOk(x)'
    BY <1>0, <2>1, StepStaysOk
  <2> QED  BY <1>0, <2>1 DEF Supervised, TurnOk
<1>2. PendingOk'
  BY <1>0, StillIdle DEF Supervised, PendingOk, ServiceOf
<1>3. ExitOk' /\ DownOk'
  BY <1>0, StillIdle DEF Supervised, ExitOk, DownOk
<1> QED  BY <1>0, <1>1, <1>2, <1>3, Frame DEF Supervised

(* A turn ends.                                                             *)
LEMMA TurnEnds ==
    ASSUME Supervised, NoneWakes, UNCHANGED <<release, current, config, daemon, inherited, disk, pending, exiting>>,
           exiting = None, agenda' = <<>>
    PROVE  Supervised'
<1>1. TurnOk' /\ ExitOk'
  BY DEF TurnOk, ExitOk
<1>2. PendingOk'
  BY StillIdle DEF Supervised, PendingOk, ServiceOf
<1>3. DownOk'
  BY DEF Supervised, DownOk
<1> QED  BY <1>1, <1>2, <1>3, Frame DEF Supervised

(* A turn goes on with one step, or begins with one, while no service is    *)
(* being stopped.                                                           *)
LEMMA TurnGoesOn ==
    ASSUME Supervised, NoneWakes, UNCHANGED <<release, current, config, daemon, inherited, disk, pending, exiting>>,
           exiting = None, daemon = "up", NEW x \in Agenda, agenda' = <<x>>, x.op \in Steps, StepOk(x)',
           NoService \/ pending.op = "launch" \/ x = DoFor("signal", pending.host)
    PROVE  Supervised'
<1>1. TurnOk' /\ ExitOk'
  BY DEF TurnOk, ExitOk
<1>2. PendingOk'
  BY StillIdle DEF Supervised, PendingOk, ServiceOf, NoService
<1>3. DownOk'
  BY DEF DownOk
<1> QED  BY <1>1, <1>2, <1>3, Frame DEF Supervised
-----------------------------------------------------------------------------
(* A step in which no launch is reserved.                                   *)
HostsQuiet ==
    \/ UNCHANGED hostVars \/ LaunchesAbandoned
    \/ \E h \in Hosts : StepOf(h) /\ launching' \subseteq launching

Accords == Supervised' /\ (HostStep \/ UNCHANGED hostVars)

(* Such a step brings nothing to life.                                      *)
LEMMA QuietWakesNone ==
    ASSUME HostsOk, HostsQuiet
    PROVE  NoneWakes /\ (HostStep \/ UNCHANGED hostVars)
<1>1. CASE UNCHANGED hostVars
  BY <1>1 DEF hostVars, NoneWakes, Living, Escaped
<1>2. CASE LaunchesAbandoned
  BY <1>2 DEF LaunchesAbandoned, HostStep, NoneWakes, Living, Escaped
<1>3. ASSUME NEW h \in Hosts, StepOf(h), launching' \subseteq launching
      PROVE  NoneWakes /\ HostStep
  <2>1. \A g \in Hosts : Busy(g)' => Busy(g)
    BY <1>3, NoneRevived
  <2>2. HostStep /\ HostsOk'
    BY <1>3, HostsOkStep DEF HostStep
  <2> QED  BY <2>1, <2>2, LivingIsBusy, LivingIsBusyNext DEF NoneWakes
<1> QED  BY <1>1, <1>2, <1>3 DEF HostsQuiet

(* The steps of a host that reserve nothing.                                *)
LEMMA QuietHostSteps ==
    ASSUME NEW h \in Hosts,
           \/ LaunchSpawns(h) \/ LaunchFails(h) \/ GuardNext(h) \/ GuardDies(h) \/ GuardFails(h)
           \/ ChildReady(h) \/ (\E left \in BOOLEAN : ChildExits(h, left)) \/ GroupEmpties(h)
           \/ StopMarks(h) \/ (\E unhandled \in BOOLEAN : StopSignals(h, unhandled)) \/ StopKills(h)
           \/ MaintainNext(h)
    PROVE  HostsQuiet
<1>1. StepOf(h)
  BY DEF StepOf
<1>2. launching' \subseteq launching
  BY DEF LaunchSpawns, LaunchFails, GuardNext, GuardClaims, GuardSpawns, GuardCannotSpawn, GuardRecords,
         GuardNotesReady, GuardKills, GuardSeesExit, GuardTerminates, GuardRecordsExit, GuardDies, GuardFails, SetGuard,
         ChildReady, ChildExits, GroupEmpties, StopMarks, StopSignals, StopKills,
         MaintainNext, MaintainOrphan, MaintainConfirmsEnd, MaintainCompacts
<1> QED  BY <1>1, <1>2 DEF HostsQuiet

(* The hosts, their guardians, maintenance, recovery's counts and a new     *)
(* configuration.                                                           *)
LEMMA AsideStep ==
    ASSUME HostsOk, Supervised,
           \/ \E r \in Releases : Configure(r)
           \/ \E h \in Hosts : Maintain(h) \/ HostMoves(h) \/ HostLosesGuardian(h)
           \/ \E service \in Services : RecoveryCounts(service) \/ \E long \in BOOLEAN : RecoveryHealthy(service, long)
    PROVE  Accords
<1>1. UNCHANGED <<release, current, daemon, inherited>> /\ UNCHANGED loop /\ disk' \in Releases
  BY DEF Supervised, Configure, Maintain, HostMoves, HostLosesGuardian, RecoveryCounts, RecoveryHealthy, files, bounds
<1>2. HostsQuiet
  <2>1. ASSUME NEW h \in Hosts, Maintain(h) \/ HostMoves(h) \/ HostLosesGuardian(h) PROVE HostsQuiet
    BY <2>1, QuietHostSteps DEF Maintain, MaintainNext, HostMoves, HostLosesGuardian
  <2>2. ASSUME NEW r \in Releases, Configure(r) PROVE HostsQuiet
    BY <2>2 DEF Configure, HostsQuiet
  <2>3. ASSUME NEW service \in Services, RecoveryCounts(service) \/ \E long \in BOOLEAN : RecoveryHealthy(service, long)
        PROVE  HostsQuiet
    BY <2>3 DEF RecoveryCounts, RecoveryHealthy, HostsQuiet
  <2> QED  BY <2>1, <2>2, <2>3
<1> QED  BY <1>1, <1>2, QuietWakesNone, QuietStep DEF Accords

-----------------------------------------------------------------------------
(* An activation begins while nothing waits.                                *)
LEMMA ActivateOk ==
    ASSUME NEW candidate \in Releases, agenda' = Activate(candidate),
           pending' = None, exiting' = None, config' = config
    PROVE  TurnOk'
<1> DEFINE start == DoThen("startWeb", None, "activate", candidate)
           stop == DoThen("stopApplication", None, "activate", candidate)
<1>1. /\ start \in Agenda /\ start.op = "startWeb" /\ start.candidate = candidate
      /\ stop \in Agenda /\ stop.op = "stopApplication" /\ stop.after = "activate" /\ stop.candidate = candidate
  BY Entry DEF Steps, Afters
<1>2. \/ Changes(candidate) /\ agenda' = <<Do("disable"), stop>>
      \/ candidate = config /\ agenda' = <<start>>
  BY DEF Activate, Changes
<1> HIDE DEF start, stop
<1>3. StepOk(stop)'
  BY <1>1 DEF StepOk
<1>4. candidate = config => StepOk(start)'
  BY <1>1 DEF StepOk, NoService
<1>5. start.op \in Steps
  BY <1>1 DEF Steps
<1> QED  BY <1>1, <1>2, <1>3, <1>4, <1>5 DEF TurnOk

(* The scheduler is to be stopped, and nothing waits.                       *)
LEMMA StopTurnOk ==
    ASSUME NEW after \in {"replace", "shutdown"}, NEW candidate \in Releases \cup {None},
           agenda' = <<Do("disable"), DoThen("stopApplication", None, after, candidate)>>,
           pending' = None, exiting' = None,
           after = "replace" => candidate \in Releases, after = "shutdown" => WorkIdle' /\ WebIdle'
    PROVE  TurnOk'
<1> DEFINE stop == DoThen("stopApplication", None, after, candidate)
<1>1. stop \in Agenda /\ stop.op = "stopApplication" /\ stop.after = after /\ stop.candidate = candidate
  BY Entry DEF Steps, Afters
<1> HIDE DEF stop
<1>2. StepOk(stop)'
  BY <1>1 DEF StepOk
<1> QED  BY <1>1, <1>2 DEF TurnOk, stop
-----------------------------------------------------------------------------
(* The stop of a service: its guardian is signalled next, unless its end is *)
(* recorded already, and the operation waits for its end.                   *)
LEMMA StopServiceOk ==
    ASSUME HostsOk, Supervised, daemon = "up", exiting = None,
           NEW service \in Services, current[service] # None,
           NEW after \in {"restart", "activate", "replace", "shutdown"}, NEW candidate \in Releases \cup {None},
           StopService(service, after, candidate),
           agenda = <<>> \/ record[current[service]].state # "exited",
           after # "shutdown" => candidate \in Releases,
           after \in {"activate", "replace"} => service = "application",
           after = "shutdown" => WorkIdle /\ (service = "application" => WebIdle),
           UNCHANGED <<release, current, config, daemon, inherited, disk, exiting>>
    PROVE  Accords
<1> DEFINE h == current[service]
           wait == Stopping(h, after, candidate)
           signal == DoFor("signal", h)
<1>0. h \in IdsOf(service) /\ h \in Hosts /\ ServiceOf(h) = service /\ h \notin WorkHosts
  BY Kinds DEF Supervised, CurrentOk
<1>1. /\ wait \in Operation /\ wait.op = "stop" /\ wait.host = h /\ wait.after = after /\ wait.candidate = candidate
  BY <1>0, Operations DEF Afters
<1>2. /\ signal \in Agenda /\ signal.op = "signal" /\ signal.host = h
  BY <1>0, Entry, ShortEntries DEF Steps, Afters
<1>3. /\ pending' = wait
      /\ \/ UNCHANGED hostVars /\ agenda' = <<>>
         \/ StopMarks(h) /\ agenda' = <<signal>>
  BY DEF StopService
<1>4. HostsQuiet
  BY <1>0, <1>3, QuietHostSteps DEF HostsQuiet
<1>5. NoneWakes /\ (HostStep \/ UNCHANGED hostVars)
  BY <1>4, QuietWakesNone
<1>6. h \in ApplicationHosts <=> service = "application"
  BY <1>0, Kinds DEF Services
<1>7. current'[service] = h /\ exiting' = None
  OBVIOUS
<1> HIDE DEF h, wait
<1>8. PendingOk'
  <2>1. /\ pending' \in Operation /\ pending'.op = "stop" /\ pending'.host = h /\ pending'.after = after
        /\ pending'.candidate = candidate
    BY <1>1, <1>3
  <2>2. agenda' = <<>> \/ agenda' = <<DoFor("signal", pending'.host)>>
    BY <1>3, <2>1
  <2>3. pending'.host = current'[ServiceOf(pending'.host)]
    BY <1>0, <1>7, <2>1
  <2>4. after = "shutdown" => WorkIdle' /\ (h \in ApplicationHosts => WebIdle')
    BY <1>5, <1>6, StillIdle
  <2> QED  BY <1>0, <1>6, <1>7, <2>1, <2>2, <2>3, <2>4 DEF PendingOk
<1> HIDE DEF signal
<1>9. TurnOk'
  <2>1. PICK x \in Agenda : x = signal
    BY <1>2
  <2>2. x.op = "signal" /\ x.host \in Hosts
    BY <1>0, <1>2, <2>1
  <2>3. StepOk(x)'
    BY <1>7, <2>2 DEF StepOk
  <2>4. agenda' = <<>> \/ agenda' = <<x>>
    BY <1>3, <2>1
  <2> QED  BY <2>2, <2>3, <2>4 DEF TurnOk, Steps
<1>10. ExitOk' /\ DownOk'
  BY <1>7 DEF ExitOk, DownOk
<1> QED  BY <1>5, <1>7, <1>8, <1>9, <1>10, Frame DEF Supervised, Accords

(* A turn begins while nothing waits.                                       *)
LEMMA TurnBegins ==
    ASSUME HostsOk, Supervised, Admitting, UNCHANGED hostVars, TurnOk',
           UNCHANGED <<release, current, config, daemon, inherited, disk, pending, exiting>>
    PROVE  Accords
<1>1. NoneWakes
  BY QuietWakesNone DEF HostsQuiet
<1>2. PendingOk' /\ ExitOk' /\ DownOk'
  BY DEF PendingOk, ExitOk, DownOk, Admitting, Running
<1> QED  BY <1>1, <1>2, Frame DEF Supervised, Accords

(* Requests to restart the web, to replace the daemon and to stop.          *)
LEMMA LifecycleRequest ==
    ASSUME HostsOk, Supervised, RestartWeb \/ Replace \/ Stop
    PROVE  Accords
<1>0. /\ Admitting /\ daemon = "up" /\ exiting = None /\ pending = None /\ agenda = <<>> /\ disk \in Releases
      /\ UNCHANGED <<release, current, config, daemon, inherited, disk>> /\ current["web"] \in WebHosts \cup {None}
  <2>1. "web" \in Services /\ IdsOf("web") = WebHosts
    BY DEF Services, IdsOf
  <2> QED  BY <2>1 DEF RestartWeb, Replace, Stop, Admitting, Running, files, bounds, Supervised, CurrentOk
<1>1. CASE RestartWeb
  <2>1. CASE current["web"] = None
    <3>1. agenda' = Activate(disk) /\ UNCHANGED hostVars /\ UNCHANGED <<pending, exiting>>
      BY <1>1, <2>1 DEF RestartWeb
    <3>2. TurnOk'
      BY <1>0, <3>1, ActivateOk
    <3> QED  BY <1>0, <3>1, <3>2, TurnBegins
  <2>2. CASE current["web"] # None
    <3>1. StopService("web", "restart", disk) /\ UNCHANGED exiting
      BY <1>1, <2>2 DEF RestartWeb
    <3> QED  BY <1>0, <2>2, <3>1, StopServiceOk DEF Services
  <2> QED  BY <2>1, <2>2
<1>2. CASE Replace
  <2>1. CASE Changes(disk)
    <3>1. /\ agenda' = <<Do("disable"), DoThen("stopApplication", None, "replace", disk)>>
          /\ UNCHANGED hostVars /\ UNCHANGED <<pending, exiting>>
      BY <1>2, <2>1 DEF Replace
    <3>2. TurnOk'
      BY <1>0, <3>1, StopTurnOk
    <3> QED  BY <1>0, <3>1, <3>2, TurnBegins
  <2>2. CASE ~Changes(disk)
    <3>1. exiting' = disk /\ agenda' = <<>> /\ UNCHANGED hostVars /\ pending' = None /\ disk = config
      BY <1>0, <1>2, <2>2 DEF Replace, Changes
    <3>2. NoneWakes
      BY <3>1, QuietWakesNone DEF HostsQuiet
    <3>3. TurnOk' /\ PendingOk' /\ DownOk' /\ exiting' # "stop"
      BY <1>0, <3>1, DaemonAssumption DEF TurnOk, PendingOk, DownOk
    <3>4. ExitOk'
      BY <1>0, <3>1, <3>3 DEF ExitOk
    <3> QED  BY <1>0, <3>1, <3>2, <3>3, <3>4, Frame DEF Accords
  <2> QED  BY <2>1, <2>2
<1>3. CASE Stop
  <2>0. WorkIdle
    BY <1>3, NotAliveIsIdle, Kinds DEF Stop, NoWork, WorkIdle
  <2>1. CASE current["web"] = None
    <3>1. /\ agenda' = <<Do("disable"), DoThen("stopApplication", None, "shutdown", None)>>
          /\ UNCHANGED hostVars /\ UNCHANGED <<pending, exiting>>
      BY <1>3, <2>1 DEF Stop
    <3>2. WebIdle
      BY <2>1, Kinds DEF Supervised, CurrentOk, WebIdle, Idle, Services
    <3>3. WorkIdle' /\ WebIdle'
      BY <2>0, <3>1, <3>2, StillIdle, QuietWakesNone DEF HostsQuiet
    <3>4. TurnOk'
      BY <1>0, <3>1, <3>3, StopTurnOk
    <3> QED  BY <1>0, <3>1, <3>4, TurnBegins
  <2>2. CASE current["web"] # None
    <3>1. StopService("web", "shutdown", None) /\ UNCHANGED exiting
      BY <1>3, <2>2 DEF Stop
    <3> QED  BY <1>0, <2>0, <2>2, <3>1, StopServiceOk DEF Services
  <2> QED  BY <2>1, <2>2
<1> QED  BY <1>1, <1>2, <1>3

(* Requests for the scheduler and for hosts of work, and what recovery does *)
(* to a service, begin a turn of one step.                                  *)
LEMMA OneStepTurn ==
    ASSUME HostsOk, Supervised, daemon = "up", exiting = None, HostsQuiet,
           UNCHANGED <<release, current, config, daemon, inherited, disk, pending, exiting>>,
           NoService \/ pending.op = "launch",
           NEW op \in Steps, NEW h \in Hosts \cup {None}, agenda' = <<DoThen(op, h, "inspect", None)>>,
           op \notin {"stopApplication", "launch"},
           op = "startWeb" => NoService,
           op \in {"launchAndWait", "kill"} => h \in WorkHosts /\ pending = None,
           op = "signal" => h \in Hosts
    PROVE  Accords
<1> DEFINE y == DoThen(op, h, "inspect", None)
<1>1. y \in Agenda /\ y.op = op /\ y.host = h /\ y.candidate = None
  BY Entry DEF Afters
<1> HIDE DEF y
<1>2. PICK x \in Agenda : x = y
  BY <1>1
<1>3. x.op = op /\ x.host = h /\ x.candidate = None /\ agenda' = <<x>>
  BY <1>1, <1>2 DEF y
<1>4. NoneWakes /\ (HostStep \/ UNCHANGED hostVars)
  BY QuietWakesNone
<1>5. StepOk(x)'
  BY <1>3, Kinds DEF StepOk, NoService
<1> QED  BY <1>3, <1>4, <1>5, TurnGoesOn DEF Accords

(* start_application, launch and terminate.                                 *)
LEMMA HostRequest ==
    ASSUME HostsOk, Supervised, NEW h \in Hosts, StartApplication(h) \/ LaunchWork(h) \/ Terminate(h)
    PROVE  Accords
<1>0. /\ daemon = "up" /\ exiting = None
      /\ UNCHANGED <<release, current, config, daemon, inherited, disk, pending, exiting>>
  BY DEF StartApplication, LaunchWork, Terminate, Admitting, Running, files, bounds
<1>1. CASE StartApplication(h)
  <2>1. /\ agenda' = <<DoThen("startApplication", None, "inspect", None)>> /\ HostsQuiet
        /\ NoService \/ pending.op = "launch"
    BY <1>1, ShortEntries DEF StartApplication, HostsQuiet, NoService
  <2> QED  BY <1>0, <2>1, OneStepTurn DEF Steps
<1>2. CASE LaunchWork(h)
  <2>1. /\ agenda' = <<DoThen("launchAndWait", h, "inspect", None)>> /\ HostsQuiet
        /\ h \in WorkHosts /\ pending = None
    BY <1>2, ShortEntries DEF LaunchWork, HostsQuiet, Admitting
  <2> QED  BY <1>0, <2>1, OneStepTurn DEF Steps, NoService
<1>3. CASE Terminate(h)
  <2>1. /\ agenda' = <<DoThen("kill", h, "inspect", None)>> /\ StopMarks(h)
        /\ h \in WorkHosts /\ pending = None
    BY <1>3, ShortEntries DEF Terminate, Admitting
  <2>2. HostsQuiet
    BY <2>1, QuietHostSteps
  <2> QED  BY <1>0, <2>1, <2>2, OneStepTurn DEF Steps, NoService
<1> QED  BY <1>1, <1>2, <1>3

(* Recovery stops a service that does not become ready, and starts one.     *)
LEMMA RecoveryStep ==
    ASSUME HostsOk, Supervised, NEW service \in Services, RecoveryStopsUnready(service) \/ RecoveryStarts(service)
    PROVE  Accords
<1>0. /\ daemon = "up" /\ exiting = None /\ NoService
      /\ UNCHANGED <<release, current, config, daemon, inherited, disk, pending, exiting>>
  BY DEF RecoveryStopsUnready, RecoveryStarts, Recoverable, OwnsWeb, NoService, Running, bounds
<1>1. CASE RecoveryStopsUnready(service)
  <2>1. current[service] # None /\ StopMarks(current[service]) /\ agenda' = <<DoFor("signal", current[service])>>
    BY <1>1 DEF RecoveryStopsUnready, ServiceAlive
  <2>2. PICK h \in Hosts : h = current[service]
    BY <2>1, Kinds DEF Supervised, CurrentOk
  <2>3. agenda' = <<DoThen("signal", h, "inspect", None)>>
    BY <2>1, <2>2, ShortEntries
  <2>4. HostsQuiet
    BY <2>1, <2>2, QuietHostSteps
  <2> QED  BY <1>0, <2>3, <2>4, OneStepTurn DEF Steps
<1>2. CASE RecoveryStarts(service)
  <2>1. /\ HostsQuiet
        /\ \/ agenda' = <<DoThen("startWeb", None, "inspect", None)>>
           \/ agenda' = <<DoThen("startApplication", None, "inspect", None)>>
    BY <1>2, ShortEntries DEF RecoveryStarts, HostsQuiet
  <2> QED  BY <1>0, <2>1, OneStepTurn DEF Steps
<1> QED  BY <1>1, <1>2

-----------------------------------------------------------------------------
(* enabled is cleared, then the scheduler is stopped in the same turn.      *)
LEMMA DisableStep ==
    ASSUME HostsOk, Supervised, Disable
    PROVE  Accords
<1>0. /\ daemon = "up" /\ agenda # <<>> /\ Now.op = "disable" /\ agenda' = Tail(agenda) /\ HostsQuiet
      /\ UNCHANGED <<release, current, config, daemon, inherited, disk, pending, exiting>>
  BY DEF Disable, Doing, HostsQuiet, bounds
<1>1. PICK x \in Agenda : Tail(agenda) = <<x>> /\ x.op = "stopApplication" /\ StepOk(x)
  <2>1. "disable" \notin Steps
    BY DEF Steps
  <2> QED  BY <1>0, <2>1, TurnCases DEF Supervised
<1>2. NoneWakes /\ (HostStep \/ UNCHANGED hostVars)
  BY <1>0, QuietWakesNone
<1>3. StepOk(x)' /\ exiting = None /\ pending = None /\ x.op \in Steps
  <2>1. StepOk(x)'
    BY <1>0, <1>1, <1>2, StepStaysOk
  <2> QED  BY <1>1, <2>1 DEF StepOk, Steps
<1> QED  BY <1>0, <1>1, <1>2, <1>3, TurnGoesOn DEF Accords, NoService

(* The scheduler is stopped, or is not running: then the activation, the    *)
(* replacement or the shutdown goes on at once.                             *)
LEMMA StopApplicationStep ==
    ASSUME HostsOk, Supervised, StopApplication
    PROVE  Accords
<1>0. /\ agenda = <<Now>> /\ Now \in Agenda /\ StepOk(Now) /\ daemon = "up" /\ exiting = None
      /\ Now.op = "stopApplication"
      /\ UNCHANGED <<release, current, config, daemon, inherited, disk>>
  <2>1. Doing("stopApplication") /\ "stopApplication" \in Steps
    BY DEF StopApplication, Steps
  <2>2. UNCHANGED <<release, current, config, daemon, inherited, disk>>
    BY DEF StopApplication, files, bounds
  <2> QED  BY <2>1, <2>2, Doings
<1>1. PICK after \in Afters, candidate \in Releases \cup {None} : after = Now.after /\ candidate = Now.candidate
  BY <1>0 DEF Agenda
<1>2. /\ pending = None /\ after \in {"activate", "replace", "shutdown"}
      /\ after # "shutdown" => candidate \in Releases
      /\ after = "shutdown" => WorkIdle /\ WebIdle
  BY <1>0, <1>1 DEF StepOk
<1>3. CASE ServiceAlive("application")
  <2>1. StopService("application", after, candidate) /\ UNCHANGED exiting
    BY <1>1, <1>3 DEF StopApplication
  <2>2. current["application"] # None /\ Alive(current["application"])
    BY <1>3 DEF ServiceAlive
  <2>3. PICK h \in Hosts : h = current["application"]
    BY <2>2, Kinds DEF Supervised, CurrentOk, Services
  <2>4. record[h].state # "exited"
    <3>1. HostsTypeOK /\ HostOk(h)
      BY DEF HostsOk
    <3>2. ~IsOver(record[h], process[h])
      BY <2>2, <2>3, <3>1, DeadIsOver
    <3> QED  BY <3>2 DEF IsOver
  <2> QED  BY <1>0, <1>2, <2>1, <2>2, <2>3, <2>4, StopServiceOk DEF Services
<1>4. CASE ~ServiceAlive("application")
  <2>1. AppIdle
    BY <1>4, DeadServiceIsIdle, Kinds DEF AppIdle, Supervised, Services
  <2>2. HostsQuiet /\ UNCHANGED hostVars /\ pending' = None
    BY <1>2, <1>4 DEF StopApplication, HostsQuiet
  <2>3. NoneWakes
    BY <2>2, QuietWakesNone
  <2>4. CASE after = "activate"
    <3> DEFINE y == DoThen("startWeb", None, "activate", candidate)
    <3>1. y \in Agenda /\ y.op = "startWeb" /\ y.candidate = candidate
      BY Entry DEF Steps, Afters
    <3>2. agenda' = <<y>> /\ UNCHANGED exiting
      BY <1>1, <1>4, <2>4 DEF StopApplication
    <3>3. AppIdle'
      BY <2>1, <2>3, StillIdle
    <3> HIDE DEF y
    <3>4. PICK x \in Agenda : x = y
      BY <3>1
    <3>5. StepOk(x)' /\ x.op \in Steps /\ agenda' = <<x>>
      BY <1>0, <1>2, <2>2, <3>1, <3>2, <3>3, <3>4 DEF StepOk, NoService, Steps
    <3> QED  BY <1>0, <1>2, <2>2, <2>3, <3>2, <3>5, TurnGoesOn DEF Accords, NoService
  <2>5. CASE after # "activate"
    <3>1. /\ agenda' = <<>>
          /\ after = "replace" => exiting' = candidate
          /\ after = "shutdown" => exiting' = "stop"
      BY <1>1, <1>2, <1>4, <2>5 DEF StopApplication
    <3>2. TurnOk' /\ PendingOk' /\ DownOk'
      BY <1>0, <2>2, <3>1 DEF TurnOk, PendingOk, DownOk
    <3>3. AppIdle' /\ (after = "shutdown" => WorkIdle' /\ WebIdle')
      BY <1>2, <2>1, <2>3, StillIdle
    <3>4. ExitOk'
      BY <1>2, <2>2, <2>5, <3>1, <3>3, DaemonAssumption DEF ExitOk
    <3>5. exiting' \in Releases \cup {None, "stop"}
      BY <1>2, <2>5, <3>1
    <3> QED  BY <1>0, <2>2, <2>3, <3>2, <3>4, <3>5, Frame DEF Accords, Supervised
  <2> QED  BY <2>4, <2>5
<1> QED  BY <1>3, <1>4

(* A service that is not alive is given a new identity, which is launched   *)
(* next; an activation has taken its configuration.                         *)
LEMMA SelectStep ==
    ASSUME HostsOk, Supervised, daemon = "up", exiting = None, NEW service \in Services, ~ServiceAlive(service),
           NEW step \in {"launch", "launchAndWait"}, Select(service, step), UNCHANGED hostVars,
           UNCHANGED <<release, disk, daemon, inherited, pending, exiting>>,
           config' \in Releases \cup {None}, config' = config \/ AppIdle,
           NoService \/ pending.op = "launch", step = "launchAndWait" => pending = None
    PROVE  Accords
<1>1. PICK h \in IdsOf(service) : current' = [current EXCEPT ![service] = h] /\ agenda' = <<DoFor(step, h)>>
  BY DEF Select, Fresh
<1>2. h \in Hosts /\ h \notin WorkHosts /\ ServiceOf(h) = service
  BY Kinds
<1>3. /\ current' \in [Services -> Hosts \cup {None}] /\ current'[service] = h
      /\ \A other \in Services \ {service} : current'[other] = current[other]
  BY <1>1, <1>2 DEF Supervised
<1>4. \A g \in Hosts : (Living(g)' <=> Living(g)) /\ (Idle(g)' <=> Idle(g))
  BY DEF hostVars, Living, Escaped, Idle
<1>5. CurrentOk'
  <2>1. \A g \in IdsOf(service) : ~Living(g)'
    BY <1>4, DeadServiceIsIdle, Kinds DEF Idle, Supervised
  <2> QED  BY <1>3, <1>4, <2>1, Kinds DEF CurrentOk, Supervised
<1>6. ReleaseOk' /\ StoppedIsIdle'
  BY <1>4, Kinds DEF ReleaseOk, StoppedIsIdle, Supervised, AppIdle, Idle
<1>7. PICK x \in Agenda : x.op = step /\ x.host = h /\ agenda' = <<x>>
  <2> DEFINE y == DoThen(step, h, "inspect", None)
  <2>1. y \in Agenda /\ y.op = step /\ y.host = h /\ DoFor(step, h) = y
    BY <1>2, Entry, ShortEntries DEF Steps, Afters
  <2> QED  BY <1>1, <2>1
<1>8. StepOk(x)'
  BY <1>2, <1>3, <1>7 DEF StepOk, NoService, ServiceOf
<1>9. TurnOk' /\ ExitOk' /\ DownOk'
  BY <1>7, <1>8 DEF TurnOk, Steps, ExitOk, DownOk
<1>10. PendingOk'
  BY DEF PendingOk, NoService, Supervised
<1> QED  BY <1>3, <1>5, <1>6, <1>9, <1>10 DEF Accords, Supervised

(* start_web and start_application.                                         *)
LEMMA StartStep ==
    ASSUME HostsOk, Supervised, StartWeb \/ StartService
    PROVE  Accords
<1>1. CASE StartWeb
  <2>0. Doing("startWeb") /\ "startWeb" \in Steps
    BY <1>1 DEF StartWeb, Steps
  <2>1. Now \in Agenda /\ StepOk(Now) /\ daemon = "up" /\ exiting = None /\ Now.op = "startWeb"
    BY <2>0, Doings
  <2>2. PICK candidate \in Releases \cup {None} : candidate = Now.candidate
    BY <2>1 DEF Agenda
  <2>3. /\ UNCHANGED hostVars /\ UNCHANGED <<release, disk, daemon, inherited, pending, exiting>>
        /\ config' = IF candidate = None THEN config ELSE candidate
    BY <1>1, <2>2 DEF StartWeb, bounds
  <2>4. NoService /\ (candidate # None => pending = None /\ (candidate = config \/ AppIdle))
    BY <2>1, <2>2 DEF StepOk
  <2>5. config' \in Releases \cup {None} /\ (config' = config \/ AppIdle)
    BY <2>2, <2>3, <2>4 DEF Supervised
  <2>6. CASE ~ServiceAlive("web")
    <3>1. PICK step \in {"launch", "launchAndWait"} :
            /\ Select("web", step)
            /\ step = "launchAndWait" => pending = None
      BY <1>1, <2>2, <2>4, <2>6 DEF StartWeb
    <3> QED  BY <2>1, <2>3, <2>4, <2>5, <2>6, <3>1, SelectStep DEF Services
  <2>7. CASE ServiceAlive("web")
    <3>1. agenda' = <<>> /\ UNCHANGED current
      BY <1>1, <2>7 DEF StartWeb
    <3>2. \A g \in Hosts : (Living(g)' <=> Living(g)) /\ (Idle(g)' <=> Idle(g))
      BY <2>3 DEF hostVars, Living, Escaped, Idle
    <3>3. CurrentOk' /\ ReleaseOk' /\ StoppedIsIdle'
      <4>1. CurrentOk'
        BY <3>1, <3>2, Kinds DEF CurrentOk, Supervised
      <4> QED  BY <2>3, <2>5, <3>2, <4>1, Kinds DEF ReleaseOk, StoppedIsIdle, Supervised, AppIdle, Idle
    <3>4. TurnOk' /\ ExitOk' /\ DownOk'
      BY <2>1, <2>3, <3>1 DEF TurnOk, ExitOk, DownOk
    <3>5. PendingOk'
      BY <2>1, <2>3, <2>4, <3>1 DEF PendingOk, NoService, Supervised
    <3> QED  BY <2>3, <2>5, <3>1, <3>3, <3>4, <3>5 DEF Accords, Supervised
  <2> QED  BY <2>6, <2>7
<1>2. CASE StartService
  <2>0. Doing("startApplication") /\ "startApplication" \in Steps
    BY <1>2 DEF StartService, Steps
  <2>1. Now \in Agenda /\ StepOk(Now) /\ daemon = "up" /\ exiting = None /\ Now.op = "startApplication"
    BY <2>0, Doings
  <2>2. UNCHANGED hostVars /\ UNCHANGED <<release, disk, config, daemon, inherited, pending, exiting>>
    BY <1>2 DEF StartService, bounds
  <2>3. NoService \/ pending.op = "launch"
    BY <2>1 DEF StepOk
  <2>4. CASE ~ServiceAlive("application")
    <3>1. Select("application", "launch")
      BY <1>2, <2>4 DEF StartService
    <3>2. config' \in Releases \cup {None} /\ config' = config
      BY <2>2 DEF Supervised
    <3> QED  BY <2>1, <2>2, <2>3, <2>4, <3>1, <3>2, SelectStep DEF Services
  <2>5. CASE ServiceAlive("application")
    <3>1. agenda' = <<>> /\ UNCHANGED current
      BY <1>2, <2>5 DEF StartService
    <3>2. NoneWakes
      BY <2>2, QuietWakesNone DEF HostsQuiet
    <3> QED  BY <2>1, <2>2, <3>1, <3>2, TurnEnds DEF Accords
  <2> QED  BY <2>4, <2>5
<1> QED  BY <1>1, <1>2

(* hosts::launch reserves what the turn is for: a host of work, or the      *)
(* current identity of a service, with the configuration of the daemon.     *)
LEMMA LaunchingStep ==
    ASSUME HostsOk, Supervised, Launch
    PROVE  Accords
<1>0. /\ agenda = <<Now>> /\ Now \in Agenda /\ StepOk(Now) /\ daemon = "up" /\ exiting = None
      /\ Now.op \in {"launch", "launchAndWait"}
      /\ UNCHANGED <<current, config, daemon, inherited, disk, pending, exiting>>
  <2>1. "launch" \in Steps /\ "launchAndWait" \in Steps
    BY DEF Steps
  <2>2. UNCHANGED <<current, config, daemon, inherited, disk, pending, exiting>>
    BY DEF Launch, bounds
  <2> QED  BY <2>1, <2>2, Doings DEF Launch
<1>1. PICK x \in Agenda : x = Now
  BY <1>0
<1>2. PICK h \in Hosts : h = x.host
  BY <1>0, <1>1 DEF StepOk
<1>3. /\ agenda = <<x>> /\ StepOk(x) /\ x.op \in {"launch", "launchAndWait"}
      /\ h \in WorkHosts \/ h = current[ServiceOf(h)]
      /\ NoService \/ pending.op = "launch"
  BY <1>0, <1>1, <1>2 DEF StepOk
<1>4. CASE ~CanLaunch(h)
  <2>1. agenda' = <<>> /\ UNCHANGED hostVars /\ UNCHANGED release
    BY <1>1, <1>2, <1>4 DEF Launch
  <2>2. NoneWakes
    BY <2>1, QuietWakesNone DEF HostsQuiet
  <2> QED  BY <1>0, <2>1, <2>2, TurnEnds DEF Accords
<1>5. CASE CanLaunch(h)
  <2>1. /\ LaunchReserves(h, IF h \in WorkHosts THEN "unsupported" ELSE "pending", ~Asked("process-group"))
        /\ release' = [release EXCEPT ![h] = config] /\ agenda' = agenda
    BY <1>1, <1>2, <1>5 DEF Launch
  <2>2. StepOf(h)
    BY <2>1 DEF StepOf, Asked
  <2>3. \A g \in Hosts \ {h} : Living(g)' => Living(g)
    <3>1. HostsOk'
      BY <2>2, HostsOkStep DEF HostStep
    <3> QED  BY <2>2, <3>1, NoneRevived, LivingIsBusy, LivingIsBusyNext
  <2>4. /\ release' \in [Hosts -> Releases \cup {None}] /\ release'[h] = config
        /\ \A g \in Hosts \ {h} : release'[g] = release[g]
    BY <2>1 DEF Supervised
  <2>5. CurrentOk'
    <3>1. \A service \in Services : \A g \in IdsOf(service) : Living(g)' => current[service] = g
      BY <1>3, <2>3, Kinds DEF CurrentOk, Supervised
    <3> QED  BY <1>0, <3>1 DEF CurrentOk, Supervised
  <2>6. ReleaseOk'
    BY <1>0, <2>3, <2>4, Kinds DEF ReleaseOk, Supervised
  <2>7. StoppedIsIdle' /\ ExitOk' /\ DownOk'
    BY <1>0 DEF StoppedIsIdle, ExitOk, DownOk
  <2>8. PendingOk'
    BY <1>0, <1>3 DEF PendingOk, NoService, Supervised
  <2>9. StepOk(x)'
    BY <1>0, <1>3 DEF StepOk, NoService, ServiceOf
  <2>10. TurnOk'
    BY <1>3, <2>1, <2>9 DEF TurnOk, Steps
  <2> QED  BY <1>0, <2>2, <2>4, <2>5, <2>6, <2>7, <2>8, <2>10 DEF Accords, Supervised, HostStep
<1> QED  BY <1>4, <1>5

(* The guardian is spawned or not, and a client waits for what it reports.  *)
LEMMA SpawnStep ==
    ASSUME HostsOk, Supervised, Spawn \/ SpawnFails
    PROVE  Accords
<1>0. /\ Now \in Agenda /\ StepOk(Now) /\ daemon = "up" /\ exiting = None
      /\ Now.op \in {"launch", "launchAndWait"}
      /\ UNCHANGED <<release, current, config, daemon, inherited, disk, exiting>> /\ agenda' = <<>>
  <2>1. "launch" \in Steps /\ "launchAndWait" \in Steps
    BY DEF Steps
  <2>2. UNCHANGED <<release, current, config, daemon, inherited, disk, exiting>> /\ agenda' = <<>>
    BY DEF Spawn, SpawnFails, files, bounds
  <2> QED  BY <2>1, <2>2, Doings DEF Spawn, SpawnFails
<1>1. PICK h \in Hosts : h = Now.host
  BY <1>0 DEF StepOk
<1>2. HostsQuiet
  BY <1>1, QuietHostSteps DEF Spawn, SpawnFails
<1>3. NoneWakes /\ (HostStep \/ UNCHANGED hostVars)
  BY <1>2, QuietWakesNone
<1>4. CASE UNCHANGED pending
  BY <1>0, <1>3, <1>4, TurnEnds DEF Accords
<1>5. CASE pending' = Launching(h)
  <2>1. PendingOk'
    <3>1. /\ pending' \in Operation /\ pending'.op = "launch" /\ pending'.after = "inspect"
      BY <1>5, Operations DEF Afters
    <3> QED  BY <1>0, <3>1 DEF PendingOk
  <2>2. TurnOk' /\ ExitOk' /\ DownOk'
    BY <1>0 DEF TurnOk, ExitOk, DownOk
  <2> QED  BY <1>0, <1>3, <2>1, <2>2, Frame DEF Accords, Supervised
<1> QED  BY <1>1, <1>4, <1>5 DEF Spawn, SpawnFails

(* The signal, or the kill, of a stop.                                      *)
LEMMA SignalStep ==
    ASSUME HostsOk, Supervised, Kill \/ \E unhandled \in BOOLEAN : Signal(unhandled)
    PROVE  Accords
<1>0. /\ UNCHANGED <<release, current, config, daemon, inherited, disk, exiting>> /\ agenda' = <<>>
      /\ "kill" \in Steps /\ "signal" \in Steps
  BY DEF Kill, Signal, files, bounds, Steps
<1>1. ASSUME NEW unhandled \in BOOLEAN, Signal(unhandled) PROVE Accords
  <2>1. daemon = "up" /\ exiting = None /\ Now.host \in Hosts /\ UNCHANGED pending /\ StopSignals(Now.host, unhandled)
    BY <1>0, <1>1, Doings DEF Signal, StepOk
  <2>2. NoneWakes /\ (HostStep \/ UNCHANGED hostVars)
    BY <2>1, QuietHostSteps, QuietWakesNone
  <2> QED  BY <1>0, <2>1, <2>2, TurnEnds DEF Accords
<1>2. CASE Kill
  <2>1. daemon = "up" /\ exiting = None /\ Now.host \in WorkHosts /\ pending = None
    <3>1. Doing("kill")
      BY <1>2 DEF Kill
    <3> QED  BY <1>0, <3>1, Doings DEF StepOk
  <2>2. PICK h \in WorkHosts : h = Now.host
    BY <2>1
  <2>3. \/ StopKills(h) /\ pending' = Stopping(h, "inspect", None)
        \/ UNCHANGED hostVars /\ pending' = pending
    BY <1>2, <2>2 DEF Kill
  <2>4. NoneWakes /\ (HostStep \/ UNCHANGED hostVars)
    <3>1. HostsQuiet
      BY <2>3, QuietHostSteps, Kinds DEF HostsQuiet
    <3> QED  BY <3>1, QuietWakesNone
  <2>5. CASE UNCHANGED pending
    BY <1>0, <2>1, <2>4, <2>5, TurnEnds DEF Accords
  <2>6. CASE pending' = Stopping(h, "inspect", None)
    <3>1. PendingOk'
      <4>1. pending' \in Operation /\ pending'.op = "stop" /\ pending'.after = "inspect" /\ pending'.host \in WorkHosts
        BY <2>6, Operations, Kinds DEF Afters
      <4> QED  BY <1>0, <2>1, <4>1 DEF PendingOk
    <3>2. TurnOk' /\ ExitOk' /\ DownOk'
      BY <1>0, <2>1 DEF TurnOk, ExitOk, DownOk
    <3> QED  BY <1>0, <2>4, <3>1, <3>2, Frame DEF Accords, Supervised
  <2> QED  BY <2>3, <2>5, <2>6
<1> QED  BY <1>1, <1>2

-----------------------------------------------------------------------------
(* An operation that is over, or whose deadline has passed.                 *)
LEMMA ForgottenOperation ==
    ASSUME HostsOk, Supervised, LaunchConfirmed \/ TimesOut
    PROVE  Accords
<1>1. /\ daemon = "up" /\ agenda = <<>> /\ agenda' = <<>> /\ pending # None /\ pending' = None /\ UNCHANGED hostVars
      /\ UNCHANGED <<release, current, config, daemon, inherited, disk, exiting>>
  BY DEF LaunchConfirmed, TimesOut, Polling, Running, files, bounds
<1>2. exiting = None
  BY <1>1 DEF Supervised, PendingOk
<1>3. NoneWakes
  BY <1>1, QuietWakesNone DEF HostsQuiet
<1>4. TurnOk' /\ PendingOk' /\ ExitOk' /\ DownOk'
  BY <1>1, <1>2 DEF TurnOk, PendingOk, ExitOk, DownOk
<1> QED  BY <1>1, <1>3, <1>4, Frame DEF Accords, Supervised

(* A stop has taken effect, and what it was for goes on.                    *)
LEMMA StoppedStep ==
    ASSUME HostsOk, Supervised, Stopped
    PROVE  Accords
<1>1. /\ daemon = "up" /\ agenda = <<>> /\ pending # None /\ pending.op = "stop" /\ ~Alive(pending.host)
      /\ pending' = None /\ UNCHANGED hostVars
      /\ UNCHANGED <<release, current, config, daemon, inherited, disk>>
  BY DEF Stopped, Polling, Running, files, bounds
<1>2. /\ pending \in Operation /\ exiting = None
      /\ pending.host \in WorkHosts => pending.after = "inspect"
  BY <1>1 DEF Supervised, PendingOk
<1>3. PICK h \in Hosts, after \in Afters, candidate \in Releases \cup {None} :
        h = pending.host /\ after = pending.after /\ candidate = pending.candidate
  BY <1>2 DEF Operation
<1>4. NoneWakes /\ (HostStep \/ UNCHANGED hostVars)
  BY <1>1, QuietWakesNone DEF HostsQuiet
<1>5. PendingOk' /\ DownOk'
  BY <1>1 DEF PendingOk, DownOk
<1>6. /\ agenda' = CASE after = "restart" -> Activate(candidate)
                     [] after = "activate" -> <<DoThen("startWeb", None, "activate", candidate)>>
                     [] after = "shutdown" /\ ~(h \in ApplicationHosts) ->
                          <<Do("disable"), DoThen("stopApplication", None, "shutdown", None)>>
                     [] OTHER -> <<>>
      /\ exiting' = CASE after = "shutdown" /\ h \in ApplicationHosts -> "stop"
                      [] after = "replace" -> candidate
                      [] OTHER -> exiting
  BY <1>3 DEF Stopped
<1>7. ASSUME exiting' = None, TurnOk' PROVE Accords
  <2>1. ExitOk'
    BY <1>7 DEF ExitOk
  <2> QED  BY <1>1, <1>4, <1>5, <1>7, <2>1, Frame DEF Accords, Supervised
<1>8. CASE after = "inspect" \/ h \in WorkHosts
  <2>1. agenda' = <<>> /\ exiting' = None
    BY <1>2, <1>3, <1>6, <1>8
  <2> QED  BY <1>7, <2>1 DEF TurnOk
<1>9. CASE h \notin WorkHosts /\ after # "inspect"
  <2>1. /\ h = current[ServiceOf(h)]
        /\ after \in {"restart", "activate", "replace"} => candidate \in Releases
        /\ after \in {"activate", "replace"} => h \in ApplicationHosts
        /\ after = "shutdown" => (WorkIdle /\ (h \in ApplicationHosts => WebIdle))
    BY <1>1, <1>3, <1>9 DEF Supervised, PendingOk
  <2>2. /\ ServiceOf(h) \in Services /\ h \in IdsOf(ServiceOf(h)) /\ ~Alive(h)
    BY <1>1, <1>3, <1>9, Kinds
  <2>3. \A g \in IdsOf(ServiceOf(h)) : Idle(g)
    BY <2>1, <2>2, DeadServiceIsIdle DEF ServiceAlive, Supervised
  <2>4. /\ h \in ApplicationHosts => AppIdle
        /\ h \notin ApplicationHosts => WebIdle
    BY <2>2, <2>3, Kinds DEF AppIdle, WebIdle, Services
  <2>5. CASE after = "restart"
    <3>1. agenda' = Activate(candidate) /\ exiting' = None
      BY <1>2, <1>6, <2>5
    <3> QED  BY <1>1, <1>7, <2>1, <2>5, <3>1, ActivateOk
  <2>6. CASE after = "activate"
    <3> DEFINE y == DoThen("startWeb", None, "activate", candidate)
    <3>1. agenda' = <<y>> /\ exiting' = None
      BY <1>2, <1>6, <2>6
    <3>2. y \in Agenda /\ y.op = "startWeb" /\ y.candidate = candidate
      <4>1. "startWeb" \in Steps /\ "activate" \in Afters
        BY DEF Steps, Afters
      <4> QED  BY <4>1, Entry
    <3> HIDE DEF y
    <3>3. AppIdle'
      BY <1>4, <2>1, <2>4, <2>6, StillIdle
    <3>4. StepOk(y)'
      BY <1>1, <3>1, <3>2, <3>3 DEF StepOk, NoService
    <3>5. TurnOk'
      BY <3>1, <3>2, <3>4 DEF TurnOk, Steps
    <3> QED  BY <1>7, <3>1, <3>5
  <2>7. CASE after = "shutdown" /\ h \notin ApplicationHosts
    <3>1. agenda' = <<Do("disable"), DoThen("stopApplication", None, "shutdown", None)>> /\ exiting' = None
      BY <1>2, <1>6, <2>7
    <3>2. WorkIdle' /\ WebIdle'
      BY <1>4, <2>1, <2>4, <2>7, StillIdle
    <3> QED  BY <1>1, <1>7, <3>1, <3>2, StopTurnOk
  <2>8. CASE after = "replace" \/ (after = "shutdown" /\ h \in ApplicationHosts)
    <3>1. /\ agenda' = <<>>
          /\ after = "replace" => exiting' = candidate
          /\ after = "shutdown" => exiting' = "stop"
      BY <1>2, <1>6, <2>8
    <3>2. AppIdle' /\ (after = "shutdown" => WorkIdle' /\ WebIdle')
      BY <1>4, <2>1, <2>4, <2>8, StillIdle
    <3>3. ExitOk'
      BY <1>1, <2>1, <2>8, <3>1, <3>2, DaemonAssumption DEF ExitOk
    <3>4. TurnOk' /\ exiting' \in Releases \cup {None, "stop"}
      BY <2>1, <2>8, <3>1 DEF TurnOk
    <3> QED  BY <1>1, <1>4, <1>5, <3>3, <3>4, Frame DEF Accords, Supervised
  <2> QED  BY <1>9, <2>5, <2>6, <2>7, <2>8 DEF Afters
<1> QED  BY <1>8, <1>9

-----------------------------------------------------------------------------
(* The daemon exits, dies or starts: it knows nothing but the records and   *)
(* the configuration afterwards.                                            *)
LEMMA LifeOfDaemon ==
    ASSUME HostsOk, Supervised, ExitToReplace \/ ExitToStop \/ Crash \/ Boot
    PROVE  Accords
<1>1. /\ UNCHANGED <<release, current, disk>>
      /\ pending' = None /\ agenda' = <<>> /\ exiting' = None
      /\ HostsQuiet
  BY DEF ExitToReplace, ExitToStop, Crash, Boot, Forget, files, HostsQuiet, Supervised, DownOk
<1>2. NoneWakes /\ (HostStep \/ UNCHANGED hostVars)
  BY <1>1, QuietWakesNone
<1>3. TurnOk' /\ PendingOk' /\ ExitOk' /\ DownOk'
  BY <1>1 DEF TurnOk, PendingOk, ExitOk, DownOk
<1>4. CurrentOk'
  BY <1>1, <1>2, Kinds DEF CurrentOk, Supervised, NoneWakes
<1>5. config' \in Releases \cup {None}
  BY DEF Supervised, ExitToReplace, ExitToStop, Crash, Boot
<1>6. StoppedIsIdle'
  <2>1. daemon' = "stopped" => \A h \in Hosts : Idle(h)
    <3>1. CASE ExitToStop
      BY <3>1, Kinds, DaemonAssumption DEF ExitToStop, Supervised, ExitOk, WorkIdle, WebIdle, AppIdle
    <3>2. CASE ~ExitToStop
      BY <3>2 DEF ExitToReplace, Running, Crash, Boot
    <3> QED  BY <3>1, <3>2
  <2> QED  BY <1>2, <2>1, StillIdle DEF StoppedIsIdle, Idle
<1>7. ReleaseOk'
  <2>1. ASSUME daemon' # "stopped", NEW h \in ApplicationHosts, h \notin inherited', Living(h)
        PROVE  config' = config /\ h \notin inherited /\ daemon # "stopped"
    <3>1. ~Idle(h) /\ h \in LivingSchedulers /\ h \in Hosts
      BY <2>1, Kinds DEF Idle, LivingSchedulers
    <3>2. CASE ExitToReplace
      <4>1. exiting = disk /\ inherited' = inherited /\ config' = disk /\ daemon = "up" /\ exiting \in Releases
        BY <2>1, <3>1, <3>2 DEF ExitToReplace, Running
      <4>2. exiting = config
        BY <3>1, <4>1, DaemonAssumption DEF Supervised, ExitOk, AppIdle
      <4> QED  BY <2>1, <4>1, <4>2
    <3>3. CASE Crash
      BY <2>1, <3>3 DEF Crash
    <3>4. CASE Boot
      <4>1. daemon # "stopped"
        BY <3>1 DEF Supervised, StoppedIsIdle, Idle
      <4>2. config' = disk /\ config = disk /\ inherited' = inherited
        BY <2>1, <3>1, <3>4, <4>1 DEF Boot
      <4> QED  BY <2>1, <4>1, <4>2
    <3>5. CASE ExitToStop
      BY <2>1, <3>5 DEF ExitToStop
    <3> QED  BY <3>2, <3>3, <3>4, <3>5
  <2> QED  BY <1>1, <1>2, <2>1, Kinds DEF ReleaseOk, Supervised, NoneWakes
<1> QED  BY <1>1, <1>2, <1>3, <1>4, <1>5, <1>6, <1>7 DEF Accords, Supervised

(* Every step of Daemon, and none.                                          *)
LEMMA NextAccords ==
    ASSUME HostsOk, Supervised, [Next]_vars
    PROVE  Accords
<1>1. CASE UNCHANGED vars
  <2>1. HostsQuiet /\ UNCHANGED <<release, current, daemon, inherited>> /\ UNCHANGED loop /\ disk' \in Releases
    BY <1>1 DEF vars, files, bounds, HostsQuiet, Supervised
  <2> QED  BY <2>1, QuietWakesNone, QuietStep DEF Accords
<1>2. CASE Request
  BY <1>2, LifecycleRequest, HostRequest DEF Request
<1>3. CASE Step
  BY <1>3, DisableStep, StopApplicationStep, StartStep, LaunchingStep, SpawnStep, SignalStep,
     ForgottenOperation, StoppedStep DEF Step
<1>4. CASE ExitToReplace \/ ExitToStop \/ Crash \/ Boot
  BY <1>4, LifeOfDaemon
<1>5. ASSUME NEW service \in Services, Recover(service) PROVE Accords
  BY <1>5, RecoveryStep, AsideStep DEF Recover
<1>6. CASE \/ \E r \in Releases : Configure(r)
           \/ \E h \in Hosts : Maintain(h) \/ HostMoves(h) \/ HostLosesGuardian(h)
  BY <1>6, AsideStep
<1> QED  BY <1>1, <1>2, <1>3, <1>4, <1>5, <1>6 DEF Next

(* A first daemon that has done nothing.                                    *)
LEMMA FirstDaemon == Init => Supervised
<1> SUFFICES ASSUME Init PROVE Supervised
  OBVIOUS
<1>1. \A h \in Hosts : ~Living(h)
  BY DEF Init, HostsInit, NoProcess, Living
<1>2. TurnOk /\ PendingOk /\ ExitOk /\ DownOk /\ StoppedIsIdle
  BY DEF Init, TurnOk, PendingOk, ExitOk, DownOk, StoppedIsIdle
<1>3. CurrentOk /\ ReleaseOk
  BY <1>1, Kinds DEF Init, CurrentOk, ReleaseOk
<1> QED  BY <1>2, <1>3, DaemonAssumption DEF Init, Supervised

-----------------------------------------------------------------------------
(* The records agree with the processes, and the loop with the services, in *)
(* every reachable state: the inductive invariant of palmagentd.            *)
THEOREM SupervisedHolds == Spec => [](HostsOk /\ Supervised)
<1>1. Init => HostsOk /\ Supervised
  BY HostsOkInit, FirstDaemon DEF Init
<1>2. HostsOk /\ Supervised /\ [Next]_vars => (HostsOk /\ Supervised)'
  <2> SUFFICES ASSUME HostsOk, Supervised, [Next]_vars PROVE HostsOk' /\ Supervised'
    OBVIOUS
  <2>1. Supervised' /\ (HostStep \/ UNCHANGED hostVars)
    BY NextAccords DEF Accords
  <2> QED  BY <2>1, HostsOkStep
<1> QED  BY <1>1, <1>2, PTL DEF Spec

(* A host that is reported dead has no process left and will never have one *)
(* (describe, in hosts.rs), whatever the daemon, the guardians and the      *)
(* maintenance did and wherever they died.  Excepted is what escaped, in    *)
(* process-group mode, a guardian that could not read the identity of its   *)
(* child; no other way to a false report exists.                            *)
THEOREM ReportsAreTrue == Spec => []ReportedDeadIsOver
<1>1. HostsOk => ReportedDeadIsOver
  BY ReportIsTrue
<1> QED  BY <1>1, SupervisedHolds, PTL

(* There is never a second web or a second scheduler (start_web,            *)
(* start_application, Recovery::advance), for any number of crashes, deaths *)
(* and time-outs.                                                           *)
THEOREM ServicesAreSingle == Spec => []OneOfEach
<1>1. Supervised => OneOfEach
  <2> SUFFICES ASSUME Supervised, NEW service \in Services
               PROVE  Cardinality({h \in IdsOf(service) : Living(h)}) <= 1
    BY DEF OneOfEach
  <2> DEFINE living == {h \in IdsOf(service) : Living(h)}
  <2>1. living = {} \/ living = {current[service]}
    BY DEF Supervised, CurrentOk
  <2>2. Cardinality(living) \in {0, 1}
    BY <2>1, FS_EmptySet, FS_Singleton
  <2> QED  BY <2>2
<1> QED  BY <1>1, SupervisedHolds, PTL

(* The scheduler that runs is of the release the daemon works with          *)
(* (activate, stop_application_then, Operation::poll).  Excepted is one that*)
(* lived when the daemon took over a configuration nobody had activated:    *)
(* after a death, or by the exec of a replacement during which the          *)
(* configuration changed again.                                             *)
THEOREM SchedulerFollowsRelease == Spec => []SchedulerIsOfRelease
<1>1. Supervised => SchedulerIsOfRelease
  BY DEF Supervised, ReleaseOk, SchedulerIsOfRelease, LivingSchedulers
<1> QED  BY <1>1, SupervisedHolds, PTL

(* A daemon that stopped has left nothing behind (stop, shutdown).          *)
THEOREM StopLeavesNothing == Spec => []StoppedIsIdle
<1>1. Supervised => StoppedIsIdle
  BY DEF Supervised
<1> QED  BY <1>1, SupervisedHolds, PTL

-----------------------------------------------------------------------------
(* The phase of a host, from its record and its processes.                  *)
PhaseIn(rec, proc) ==
    IF rec.state = "absent" THEN "none"
    ELSE IF IsOver(rec, proc) THEN "over"
    ELSE IF proc.started = 0 THEN "reserved" ELSE "invoked"

(* The name of a host that was started never, or once.                      *)
LEMMA StartedName ==
    ASSUME NEW n \in {0, 1}
    PROVE  <<"reserved", "invoked", "invoked again">>[n + 1] = IF n = 0 THEN "reserved" ELSE "invoked"
<1>1. CASE n = 0
  <2>1. n + 1 = 1
    BY <1>1
  <2> QED  BY <1>1, <2>1
<1>2. CASE n = 1
  <2>1. n + 1 = 2
    BY <1>2
  <2> QED  BY <1>2, <2>1
<1> QED  BY <1>1, <1>2

(* PhaseOf is PhaseIn, because what is reported dead is over.               *)
LEMMA PhaseIs ==
    ASSUME HostsTypeOK, NEW h \in Hosts, HostOk(h)
    PROVE  PhaseOf(h) = PhaseIn(record[h], process[h])
<1>1. record[h].state = "absent" \/ (~Alive(h) <=> IsOver(record[h], process[h]))
  BY DeadIsOver
<1>2. process[h].started \in {0, 1}
  BY DEF HostOk
<1>3. <<"reserved", "invoked", "invoked again">>[process[h].started + 1]
        = IF process[h].started = 0 THEN "reserved" ELSE "invoked"
  BY <1>2, StartedName
<1> QED  BY <1>1, <1>3 DEF PhaseOf, PhaseIn

(* The same after a step.                                                   *)
LEMMA PhaseIsNext ==
    ASSUME HostsTypeOK', NEW h \in Hosts, HostOk(h)'
    PROVE  PhaseOf(h)' = PhaseIn(record'[h], process'[h])
<1>1. record'[h].state = "absent" \/ (~Alive(h)' <=> IsOver(record'[h], process'[h]))
  BY DeadIsOverNext
<1>2. process'[h].started \in {0, 1}
  BY DEF HostOk
<1>3. <<"reserved", "invoked", "invoked again">>[process'[h].started + 1]
        = IF process'[h].started = 0 THEN "reserved" ELSE "invoked"
  BY <1>2, StartedName
<1> QED  BY <1>1, <1>3 DEF PhaseOf, PhaseIn

(* A host takes its phases in order.                                        *)
LEMMA PhaseMoves ==
    ASSUME HostsOk, NEW h \in Hosts, StepOf(h)
    PROVE  \/ PhaseOf(h)' = PhaseOf(h)
           \/ PhaseOf(h) \in {"none"} /\ PhaseOf(h)' = "reserved"
           \/ PhaseOf(h) \in {"reserved"} /\ PhaseOf(h)' = "invoked"
           \/ PhaseOf(h) \in {"reserved", "invoked"} /\ PhaseOf(h)' = "over"
<1>1. HostsTypeOK /\ HostOk(h)
  BY DEF HostsOk
<1>2. HostsTypeOK' /\ HostOk(h)' /\ PhaseStep(h)
  BY HostAdvances DEF Advances
<1>3. PhaseOf(h) = PhaseIn(record[h], process[h]) /\ PhaseOf(h)' = PhaseIn(record'[h], process'[h])
  BY <1>1, <1>2, PhaseIs, PhaseIsNext
<1>4. process[h].started \in {0, 1} /\ process'[h].started \in {0, 1}
  BY <1>1, <1>2 DEF HostOk
<1>5. record[h].state = "absent" => process[h].started = 0
  BY <1>1 DEF HostOk, Unborn
<1> QED  BY <1>2, <1>3, <1>4, <1>5 DEF PhaseStep, PhaseIn

(* Every step of Daemon is a step of Invocation on the phases, or none.     *)
LEMMA HostingStep ==
    ASSUME HostsOk, Supervised, [Next]_vars
    PROVE  [Hosting!Next]_([h \in Hosts |-> PhaseOf(h)])
<1> DEFINE before == [h \in Hosts |-> PhaseOf(h)]
           after == [h \in Hosts |-> PhaseOf(h)']
<1>0. /\ HostsTypeOK /\ HostsTypeOK'
      /\ \A h \in Hosts : HostOk(h) /\ HostOk(h)'
      /\ HostStep \/ UNCHANGED hostVars
  BY NextAccords, HostsOkStep DEF Accords, HostsOk
<1>1. ASSUME NEW h \in Hosts, record'[h] = record[h], process'[h] = process[h] PROVE PhaseOf(h)' = PhaseOf(h)
  BY <1>0, <1>1, PhaseIs, PhaseIsNext
<1>2. CASE UNCHANGED hostVars \/ LaunchesAbandoned
  <2>1. \A h \in Hosts : PhaseOf(h)' = PhaseOf(h)
    BY <1>1, <1>2 DEF hostVars, LaunchesAbandoned
  <2>2. after = before
    BY <2>1
  <2> QED  BY <2>2
<1>3. ASSUME NEW h \in Hosts, StepOf(h) PROVE [Hosting!Next]_before
  <2>1. OtherHostsKept(h)
    BY <1>3, HostAdvances DEF Advances
  <2>2. \A g \in Hosts \ {h} : PhaseOf(g)' = PhaseOf(g)
    BY <1>1, <2>1 DEF OtherHostsKept
  <2>3. after = [before EXCEPT ![h] = PhaseOf(h)']
    BY <2>2
  <2>4. CASE PhaseOf(h)' = PhaseOf(h)
    <3>1. after = before
      BY <2>3, <2>4
    <3> QED  BY <3>1
  <2>5. CASE PhaseOf(h)' # PhaseOf(h)
    <3>1. \/ PhaseOf(h) \in {"none"} /\ PhaseOf(h)' = "reserved"
          \/ PhaseOf(h) \in {"reserved"} /\ PhaseOf(h)' = "invoked"
          \/ PhaseOf(h) \in {"reserved", "invoked"} /\ PhaseOf(h)' = "over"
      BY <1>3, <2>5, PhaseMoves
    <3>2. before[h] = PhaseOf(h) /\ after[h] = PhaseOf(h)'
      OBVIOUS
    <3> HIDE DEF before, after
    <3>3. \/ before[h] \in {"none"} /\ after[h] = "reserved" /\ after = [before EXCEPT ![h] = "reserved"]
          \/ before[h] \in {"reserved"} /\ after[h] = "invoked" /\ after = [before EXCEPT ![h] = "invoked"]
          \/ /\ before[h] \in {"reserved", "invoked"} /\ after[h] = "over"
             /\ after = [before EXCEPT ![h] = "over"]
      BY <2>3, <3>1, <3>2
    <3>4. Hosting!Reserve(h) \/ Hosting!Invoke(h) \/ Hosting!End(h)
      BY <3>3 DEF Hosting!Reserve, Hosting!Invoke, Hosting!End, Hosting!Becomes, before, after
    <3> QED  BY <3>4 DEF Hosting!Next
  <2> QED  BY <2>4, <2>5
<1> QED  BY <1>0, <1>2, <1>3 DEF HostStep

(* Before the first launch every phase is "none".                           *)
LEMMA HostingInit == Init => Hosting!Init
<1> SUFFICES ASSUME Init PROVE Hosting!Init
  OBVIOUS
<1>1. \A h \in Hosts : PhaseOf(h) = "none"
  BY DEF Init, HostsInit, PhaseOf, NoRecord
<1> QED  BY <1>1 DEF Hosting!Init

(* What palmagentd answers about its hosts implements Invocation (launch,   *)
(* run, describe, maintain_host): over all crashes, repeated launches and   *)
(* compactions a host is reserved, started at most once and over for good,  *)
(* for any number of them.                                                  *)
THEOREM ImplementsInvocation == Spec => HostsImplementInvocation
<1>1. HostsOk /\ Supervised /\ [Next]_vars => [Hosting!Next]_([h \in Hosts |-> PhaseOf(h)])
  BY HostingStep
<1> QED  BY <1>1, HostingInit, SupervisedHolds, PTL DEF Spec, HostsImplementInvocation, Hosting!Spec
=============================================================================
