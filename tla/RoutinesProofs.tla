--------------------------- MODULE RoutinesProofs ---------------------------
(***************************************************************************)
(* The safety of script routines, for any number of routines, runs, crashes *)
(* and deaths.  RunsOk relates, run by run, the history, Service.pending,   *)
(* the launch request on its way and the host that palmagentd keeps; on the *)
(* hosts it uses RetainedHostsProofs.  CadenceOk is about the schedule      *)
(* alone.                                                                   *)
(***************************************************************************)
EXTENDS Routines, RetainedHostsProofs

(* A run that can no longer run: nothing was reserved, or all is over.      *)
Ceased(n) == record[n].state = "absent" \/ IsOver(record[n], process[n])

(* The part of the type invariant that the others rest on.                  *)
RowTypes ==
    /\ pending \in [Runs -> Pending \cup {None}]
    /\ row \in [Runs -> [routine : RoutineIds \cup {None}, slot : Nat \cup {None},
                         status : Outcomes \cup {"none", "running", "skipped", "deleted"}]]
    /\ files \in [Runs -> [descriptor : BOOLEAN, claim : BOOLEAN, stop : BOOLEAN, recorded : BOOLEAN,
                           result : Outcomes \cup {None}]]
    /\ script \in [Runs -> [at : {"none", "booted", "claimed", "running", "ended", "saved"},
                            outcome : Outcomes \cup {None}]]
    /\ executed \in [Runs -> Nat]

(* The script host of a run starts once, and its command after it.          *)
ScriptOk(n) ==
    /\ process[n].started = 0 => script[n].at = "none" /\ files[n].result = None
    /\ script[n].at \in {"none", "booted", "claimed"} => executed[n] = 0
    /\ executed[n] <= 1
    /\ record[n].state # "absent" => files[n].descriptor = TRUE

(* What Service.pending and the history say of the same run.                *)
EntryIs(p, status) ==
    /\ p.recorded = FALSE => status = "running"
    /\ p.recorded = TRUE => p.result # None /\ status = p.result
    /\ p.job = "acknowledging" => p.recorded = TRUE
    /\ p.job \in {"preparing", "describing", "asking", "waiting", "inspecting", "reading"} =>
         p.result = None /\ p.prepared = FALSE
    /\ p.prepared = TRUE => p.result = None
EntryOk(n) == pending[n] # None => EntryIs(pending[n], row[n].status)

(* The end of a run is decided, or about to be.                             *)
Decided(n) ==
    \/ row[n].status # "running"
    \/ pending[n] # None /\ (pending[n].result # None \/ pending[n].job = "reading")

Untouched(n) == row[n].status = "none" \/ (pending[n] # None /\ pending[n].job = "preparing")

(* A launch request of this runtime has its worker waiting; a run whose end *)
(* is decided is over; one that is being prepared was never launched; a     *)
(* saved result is the decided one, unless its script goes on unseen.       *)
LaunchOk(n) ==
    /\ n \in queue => pending[n] # None /\ pending[n].job = "waiting"
    /\ Decided(n) => Ceased(n)
    /\ Untouched(n) => record[n].state = "absent"
    /\ (process[n].escaped = FALSE /\ pending[n] # None /\ pending[n].result # None /\ files[n].result # None) =>
         pending[n].result = files[n].result
    /\ (process[n].escaped = FALSE /\ files[n].result # None /\ row[n].status \in Outcomes) =>
         row[n].status = files[n].result

RunOk(n) == ScriptOk(n) /\ EntryOk(n) /\ (n \in former \/ LaunchOk(n))

(* A runtime that is down keeps nothing in memory.                          *)
RunsOk ==
    /\ RowTypes
    /\ runtime = "down" => \A n \in Runs : pending[n] = None
    /\ \A n \in Runs : RunOk(n)

(* The cadence of a routine is ahead of every instant it was fired for, and *)
(* a pass fires only what is due.                                           *)
RoutineStates == [fate : {"new", "kept", "removed"}, enabled : BOOLEAN, next : Nat \cup {None}]
Answered(n) ==
    row[n].slot # None =>
        /\ row[n].routine \in RoutineIds /\ row[n].slot \in Nat /\ row[n].slot <= now
        /\ routine[row[n].routine].next # None => row[n].slot < routine[row[n].routine].next

CadenceOk ==
    /\ now \in Nat
    /\ routine \in [RoutineIds -> RoutineStates]
    /\ \A r \in due : r \in RoutineIds /\ routine[r].next # None /\ routine[r].next <= now
    /\ \A n \in Runs : Answered(n)
    /\ FiredOncePerSlot

-----------------------------------------------------------------------------
(* A run of which a step changes nothing.                                   *)
RunKept(n) ==
    /\ record'[n] = record[n] /\ process'[n] = process[n]
    /\ pending'[n] = pending[n] /\ row'[n] = row[n] /\ files'[n] = files[n]
    /\ script'[n] = script[n] /\ executed'[n] = executed[n]
    /\ n \in queue' <=> n \in queue
    /\ n \in former' <=> n \in former

(* It stays as sound as it was.                                             *)
LEMMA KeptStaysOk ==
    ASSUME NEW n \in Runs, RunOk(n), RunKept(n)
    PROVE  RunOk(n)'
<1>1. ScriptOk(n)' /\ EntryOk(n)'
  BY DEF RunOk, RunKept, ScriptOk, EntryOk
<1>2. n \notin former' => LaunchOk(n)'
  BY DEF RunOk, RunKept, LaunchOk, Decided, Ceased, Untouched
<1> QED  BY <1>1, <1>2 DEF RunOk

(* A step that concerns one run.                                            *)
LEMMA OneRun ==
    ASSUME RunsOk, NEW n \in Runs, RowTypes', \A m \in Runs \ {n} : RunKept(m), RunOk(n)',
           UNCHANGED runtime, runtime # "down"
    PROVE  RunsOk'
BY KeptStaysOk DEF RunsOk

(* A step of the world outside the runtime.                                 *)
LEMMA OneRunOutside ==
    ASSUME RunsOk, NEW n \in Runs, RowTypes', \A m \in Runs \ {n} : RunKept(m), RunOk(n)',
           UNCHANGED <<runtime, pending>>
    PROVE  RunsOk'
BY KeptStaysOk DEF RunsOk

(* The types of one run.                                                    *)
LEMMA RunTypes ==
    ASSUME RunsOk, NEW n \in Runs
    PROVE  /\ RowTypes /\ RunOk(n) /\ n \in Hosts
           /\ pending[n] # None => pending[n] \in Pending
           /\ row[n].status \in Outcomes \cup {"none", "running", "skipped", "deleted"}
           /\ files[n] \in [descriptor : BOOLEAN, claim : BOOLEAN, stop : BOOLEAN, recorded : BOOLEAN,
                            result : Outcomes \cup {None}]
           /\ script[n] \in [at : {"none", "booted", "claimed", "running", "ended", "saved"},
                             outcome : Outcomes \cup {None}]
           /\ executed[n] \in Nat
BY DEF RunsOk, RowTypes, Runs

-----------------------------------------------------------------------------
(* Steps of a host by which nothing is reserved; only a guardian starts its *)
(* child.                                                                   *)
AsideOf(n) ==
    \/ LaunchSpawns(n) \/ LaunchFails(n) \/ MaintainNext(n) \/ GuardDies(n) \/ GuardFails(n)
    \/ ChildReady(n) \/ (\E left \in BOOLEAN : ChildExits(n, left)) \/ GroupEmpties(n)

HostSide(n) == GuardNext(n) \/ AsideOf(n)

(* What such steps leave to the runs: nothing is reserved, and what is over *)
(* stays so.                                                                *)
LEMMA HostSideStep ==
    ASSUME HostsOk, NEW n \in Hosts, HostSide(n)
    PROVE  /\ StepOf(n) /\ OtherHostsKept(n)
           /\ record'[n].state = "absent" <=> record[n].state = "absent"
           /\ IsOver(record[n], process[n]) => IsOver(record'[n], process'[n])
           /\ process'[n].escaped = FALSE => process[n].escaped = FALSE
           /\ \/ process'[n].started = process[n].started
              \/ process[n].started = 0 /\ process'[n].started = 1
<1>1. StepOf(n)
  BY DEF HostSide, AsideOf, StepOf
<1>2. OtherHostsKept(n) /\ PhaseStep(n)
  BY <1>1, HostAdvances DEF Advances
<1>3. record[n].state = "absent" => record' = record
  <2>1. HostsTypeOK /\ HostOk(n)
    BY DEF HostsOk
  <2> QED  BY <2>1 DEF HostOk, Unborn, HostSide, AsideOf, LaunchSpawns, LaunchFails, GuardNext, GuardClaims, GuardSpawns,
         GuardCannotSpawn, GuardRecords, GuardNotesReady, GuardKills, GuardSeesExit, GuardTerminates,
         GuardRecordsExit, GuardDies, GuardFails, ChildReady, ChildExits, GroupEmpties,
         MaintainNext, MaintainOrphan, MaintainConfirmsEnd, MaintainCompacts, Maintainable
<1>4. process[n].escaped \in BOOLEAN
  BY HostTypes DEF HostsOk, Process
<1> QED  BY <1>1, <1>2, <1>3, <1>4 DEF PhaseStep

(* Who is no guardian starts nothing.                                       *)
LEMMA StartedKept ==
    ASSUME HostsOk, NEW n \in Hosts, AsideOf(n)
    PROVE  process'[n].started = process[n].started
<1>1. process \in [Hosts -> Process] /\ process[n] \in Process
  BY HostTypes DEF HostsOk
<1> QED  BY <1>1 DEF Process, AsideOf, LaunchSpawns, LaunchFails, GuardDies, GuardFails, SetGuard, ChildReady, ChildExits, GroupEmpties,
         MaintainNext, MaintainOrphan, MaintainConfirmsEnd, MaintainCompacts

(* Nothing of a run that has ceased, or was not started, runs in reach.     *)
LEMMA CeasedIsEmpty ==
    ASSUME HostsOk, NEW n \in Hosts
    PROVE  /\ Ceased(n) => process[n].group = "empty" \/ process[n].escaped = TRUE
           /\ ~Alive(n) => Ceased(n)
<1>1. HostsTypeOK /\ HostOk(n)
  BY DEF HostsOk
<1>2. Ceased(n) => process[n].group = "empty" \/ process[n].escaped = TRUE
  BY <1>1 DEF HostOk, Unborn, Ceased, IsOver
<1>3. ~Alive(n) => Ceased(n)
  BY <1>1, DeadIsOver DEF Ceased
<1> QED  BY <1>2, <1>3

-----------------------------------------------------------------------------
(* Steps of the daemon, the guardians and the watchdog.                     *)
LEMMA OutsideStep ==
    ASSUME HostsOk, RunsOk, NEW n \in Runs, HostSide(n), UNCHANGED <<serviceVars, files, queue, executed, former>>,
           IF process'[n].started > process[n].started THEN SetScript(n, "booted", None) ELSE UNCHANGED script
    PROVE  RunsOk'
<1>0. /\ RowTypes /\ RunOk(n) /\ n \in Hosts
      /\ script[n] \in [at : {"none", "booted", "claimed", "running", "ended", "saved"}, outcome : Outcomes \cup {None}]
  BY RunTypes
<1>1. /\ OtherHostsKept(n)
      /\ record'[n].state = "absent" <=> record[n].state = "absent"
      /\ IsOver(record[n], process[n]) => IsOver(record'[n], process'[n])
      /\ process'[n].escaped = FALSE => process[n].escaped = FALSE
      /\ \/ process'[n].started = process[n].started
         \/ process[n].started = 0 /\ process'[n].started = 1
  BY <1>0, HostSideStep
<1>2. process[n].started \in Nat
  BY <1>0, HostTypes DEF HostsOk, Process
<1>3. /\ UNCHANGED <<pending, row, files, queue, executed, former, runtime>>
      /\ \/ process'[n].started = process[n].started /\ UNCHANGED script
         \/ /\ process[n].started = 0 /\ process'[n].started = 1
            /\ script' = [script EXCEPT ![n] = [at |-> "booted", outcome |-> None]]
  BY <1>1, <1>2 DEF serviceVars, SetScript
<1> DEFINE booted == [at |-> "booted", outcome |-> None]
<1>4. booted \in [at : {"none", "booted", "claimed", "running", "ended", "saved"}, outcome : Outcomes \cup {None}]
      /\ booted.at = "booted"
  OBVIOUS
<1> HIDE DEF booted
<1>5. /\ RowTypes' /\ \A m \in Runs \ {n} : script'[m] = script[m]
      /\ script'[n] = script[n] \/ (process[n].started = 0 /\ process'[n].started = 1 /\ script'[n] = booted)
  BY <1>0, <1>3, <1>4 DEF RowTypes, booted
<1>6. \A m \in Runs \ {n} : RunKept(m)
  BY <1>1, <1>3, <1>5 DEF RunKept, OtherHostsKept, Runs
<1>7. ScriptOk(n)' /\ EntryOk(n)'
  <2>1. ScriptOk(n)'
    BY <1>0, <1>1, <1>3, <1>4, <1>5 DEF RunOk, ScriptOk
  <2> QED  BY <1>0, <1>3, <2>1 DEF RunOk, EntryOk
<1>8. n \notin former' => LaunchOk(n)'
  BY <1>0, <1>1, <1>3 DEF RunOk, LaunchOk, Decided, Ceased, Untouched
<1> QED  BY <1>3, <1>5, <1>6, <1>7, <1>8, OneRunOutside DEF RunOk

(* palmagentd takes a launch request, closes one, crashes or starts.        *)
LEMMA RequestTaken ==
    ASSUME HostsOk, RunsOk, NEW n \in Runs, DaemonTakes(n) \/ DaemonCloses(n)
    PROVE  RunsOk' /\ (HostStep \/ UNCHANGED hostVars)
<1>0. /\ RowTypes /\ RunOk(n) /\ n \in Hosts
  BY RunTypes
<1>1. /\ UNCHANGED <<pending, row, files, script, executed, former, runtime>> /\ n \in queue /\ queue' = queue \ {n}
  BY DEF DaemonTakes, DaemonCloses, serviceVars
<1>2. RowTypes'
  BY <1>0, <1>1 DEF RowTypes
<1>3. CASE UNCHANGED hostVars
  <2>1. \A m \in Runs \ {n} : RunKept(m)
    BY <1>1, <1>3 DEF RunKept, hostVars
  <2>2. RunOk(n)'
    BY <1>0, <1>1, <1>3 DEF RunOk, ScriptOk, EntryOk, LaunchOk, Decided, Ceased, Untouched, hostVars
  <2> QED  BY <1>1, <1>2, <1>3, <2>1, <2>2, OneRunOutside
<1>4. CASE LaunchReserves(n, "pending", ~Asked("process-group")) /\ files[n].descriptor
  <2>1. StepOf(n) /\ UNCHANGED process
    BY <1>4 DEF StepOf, Asked, LaunchReserves
  <2>2. OtherHostsKept(n)
    BY <1>0, <2>1, HostAdvances DEF Advances
  <2>3. \A m \in Runs \ {n} : RunKept(m)
    BY <1>1, <2>2 DEF RunKept, OtherHostsKept, Runs
  <2>4. ScriptOk(n)' /\ EntryOk(n)'
    BY <1>0, <1>1, <1>4, <2>1, RunTypes DEF RunOk, ScriptOk, EntryOk
  <2>5. ASSUME n \notin former PROVE LaunchOk(n)'
    <3>1. pending[n] # None /\ pending[n].job = "waiting" /\ pending[n] \in Pending
      BY <1>0, <1>1, <2>5, RunTypes DEF RunOk, LaunchOk
    <3>2. pending[n].result = None /\ row[n].status = "running"
      BY <1>0, <3>1 DEF RunOk, EntryOk, EntryIs, Pending
    <3> QED  BY <1>1, <3>1, <3>2 DEF LaunchOk, Decided, Untouched, Outcomes
  <2>6. RunOk(n)'
    BY <1>1, <2>4, <2>5 DEF RunOk
  <2> QED  BY <1>0, <1>1, <1>2, <2>1, <2>3, <2>6, OneRunOutside DEF HostStep
<1> QED  BY <1>3, <1>4 DEF DaemonTakes, DaemonCloses

-----------------------------------------------------------------------------
ScriptStates == [at : {"none", "booted", "claimed", "running", "ended", "saved"}, outcome : Outcomes \cup {None}]
FileStates == [descriptor : BOOLEAN, claim : BOOLEAN, stop : BOOLEAN, recorded : BOOLEAN, result : Outcomes \cup {None}]

(* A script host that exists is of a run that was started and whose end is  *)
(* not decided, unless it escaped.                                          *)
LEMMA LivingIsOpen ==
    ASSUME HostsOk, RunsOk, NEW n \in Runs, process[n].group = "child", script[n].at # "none"
    PROVE  /\ process[n].started # 0 /\ record[n].state # "absent"
           /\ n \notin former => ~Untouched(n)
           /\ n \notin former /\ process[n].escaped = FALSE => ~Decided(n)
<1>1. HostsTypeOK /\ HostOk(n) /\ RunOk(n) /\ n \in Hosts
  BY RunTypes DEF HostsOk, Runs
<1>2. process[n].escaped = FALSE => ~Ceased(n)
  BY <1>1, CeasedIsEmpty
<1>3. record[n].state # "absent"
  BY <1>1 DEF HostOk, Unborn
<1>4. process[n].started # 0
  BY <1>1 DEF RunOk, ScriptOk
<1> QED  BY <1>1, <1>2, <1>3, <1>4 DEF RunOk, LaunchOk

(* What a script host does to its own run.                                  *)
LEMMA ScriptAdvances ==
    ASSUME HostsOk, RunsOk, NEW n \in Runs, process[n].group = "child", script[n].at # "none",
           NEW s \in ScriptStates, script' = [script EXCEPT ![n] = s], s.at # "none",
           NEW f \in FileStates, files' = [files EXCEPT ![n] = f], f.descriptor = files[n].descriptor,
           f.result = files[n].result \/ s.at = "saved",
           NEW count \in Nat, executed' = [executed EXCEPT ![n] = count],
           \/ count = executed[n] /\ (s.at \in {"none", "booted", "claimed"} => script[n].at \in {"booted", "claimed"})
           \/ count = executed[n] + 1 /\ script[n].at = "claimed" /\ s.at = "running",
           UNCHANGED <<row, runtime, pending, queue, former>>,
           OtherHostsKept(n), record'[n] = record[n], process'[n].started = process[n].started,
           process'[n].escaped = process[n].escaped
    PROVE  RunsOk'
<1>0. RowTypes /\ RunOk(n) /\ n \in Hosts /\ script[n] \in ScriptStates /\ executed[n] \in Nat
  BY RunTypes DEF ScriptStates
<1>1. /\ process[n].started # 0 /\ record[n].state # "absent"
      /\ n \notin former => ~Untouched(n)
      /\ n \notin former /\ process[n].escaped = FALSE => ~Decided(n)
  BY LivingIsOpen
<1>2. /\ RowTypes' /\ script'[n] = s /\ files'[n] = f /\ executed'[n] = count
      /\ \A m \in Runs \ {n} : script'[m] = script[m] /\ files'[m] = files[m] /\ executed'[m] = executed[m]
  BY <1>0 DEF RowTypes, ScriptStates, FileStates
<1>3. \A m \in Runs \ {n} : RunKept(m)
  BY <1>2 DEF RunKept, OtherHostsKept, Runs
<1>4. ScriptOk(n)'
  BY <1>0, <1>1, <1>2 DEF RunOk, ScriptOk, ScriptStates
<1>5. EntryOk(n)'
  BY <1>0 DEF RunOk, EntryOk
<1>6. n \notin former' => LaunchOk(n)'
  <2> SUFFICES ASSUME n \notin former PROVE LaunchOk(n)'
    OBVIOUS
  <2>1. ~Untouched(n)' /\ (n \in queue' => pending'[n] # None /\ pending'[n].job = "waiting")
    BY <1>0, <1>1 DEF Untouched, RunOk, LaunchOk
  <2>2. CASE process[n].escaped = FALSE
    <3>1. ~Decided(n)' /\ row'[n].status = "running"
      BY <1>1, <2>2 DEF Decided
    <3> QED  BY <2>1, <3>1 DEF LaunchOk, Decided, Outcomes
  <2>3. CASE process[n].escaped = TRUE
    <3>1. record'[n].state = "exited"
      BY <1>0, <2>3 DEF HostsOk, HostOk
    <3> QED  BY <2>1, <2>3, <3>1 DEF LaunchOk, Ceased, IsOver
  <2>4. process[n].escaped \in BOOLEAN
    BY <1>0, HostTypes DEF HostsOk, Process
  <2> QED  BY <2>2, <2>3, <2>4
<1> QED  BY <1>2, <1>3, <1>4, <1>5, <1>6, OneRunOutside DEF RunOk

Accords == RunsOk' /\ (HostStep \/ UNCHANGED hostVars)

(* The steps of a script host.                                              *)
LEMMA ScriptStep ==
    ASSUME HostsOk, RunsOk, NEW n \in Runs,
           \/ HostFindsStop(n) \/ HostExecutes(n) \/ HostSaves(n)
           \/ (\E outcome \in Outcomes : HostScriptEnds(n, outcome))
           \/ HostClaims(n) /\ ~files[n].claim
    PROVE  Accords
<1> DEFINE old == files[n]
           was == script[n]
           claimed == [old EXCEPT !.claim = TRUE]
           saved == [old EXCEPT !.result = was.outcome]
           S(at, outcome) == [at |-> at, outcome |-> outcome]
<1>0. /\ RowTypes /\ n \in Hosts /\ was \in ScriptStates /\ executed[n] \in Nat
      /\ old \in FileStates /\ was.outcome \in Outcomes \cup {None}
  BY RunTypes DEF ScriptStates, FileStates
<1>1. /\ files = [files EXCEPT ![n] = old] /\ executed = [executed EXCEPT ![n] = executed[n]]
  BY <1>0 DEF RowTypes
<1>2. /\ claimed \in FileStates /\ claimed.descriptor = old.descriptor /\ claimed.result = old.result
      /\ saved \in FileStates /\ saved.descriptor = old.descriptor
  BY <1>0 DEF FileStates
<1>3. ASSUME NEW at \in {"booted", "claimed", "running", "ended", "saved"}, NEW outcome \in Outcomes \cup {None}
      PROVE  S(at, outcome) \in ScriptStates /\ S(at, outcome).at = at
  BY DEF ScriptStates
<1>4. /\ process[n].group = "child" /\ was.at # "none" /\ UNCHANGED <<row, runtime, pending, queue, former>>
  BY DEF HostFindsStop, HostExecutes, HostSaves, HostScriptEnds, HostClaims, HostAt, serviceVars
<1> HIDE DEF claimed, saved, S
<1>5. ASSUME UNCHANGED hostVars
      PROVE  /\ OtherHostsKept(n) /\ record'[n] = record[n] /\ process'[n].started = process[n].started
             /\ process'[n].escaped = process[n].escaped
  BY <1>5 DEF hostVars, OtherHostsKept
<1>6. CASE HostFindsStop(n) \/ \E outcome \in Outcomes : HostScriptEnds(n, outcome)
  <2>1. PICK outcome \in Outcomes : script' = [script EXCEPT ![n] = S("ended", outcome)]
    BY <1>6 DEF HostFindsStop, HostScriptEnds, SetScript, S, Outcomes
  <2>2. UNCHANGED <<files, executed>> /\ UNCHANGED hostVars
    BY <1>6 DEF HostFindsStop, HostScriptEnds
  <2> QED  BY <1>0, <1>1, <1>3, <1>4, <1>5, <2>1, <2>2, ScriptAdvances DEF Accords
<1>7. CASE HostSaves(n)
  <2>1. /\ script' = [script EXCEPT ![n] = S("saved", was.outcome)] /\ files' = [files EXCEPT ![n] = saved]
        /\ UNCHANGED executed /\ UNCHANGED hostVars
    BY <1>0, <1>7 DEF HostSaves, SetScript, S, saved, RowTypes
  <2> QED  BY <1>0, <1>1, <1>2, <1>3, <1>4, <1>5, <2>1, ScriptAdvances DEF Accords
<1>8. CASE HostClaims(n) /\ ~files[n].claim
  <2>1. /\ script' = [script EXCEPT ![n] = S("claimed", None)] /\ files' = [files EXCEPT ![n] = claimed]
        /\ UNCHANGED executed /\ UNCHANGED hostVars /\ was.at = "booted"
    BY <1>0, <1>8 DEF HostClaims, HostAt, SetScript, S, claimed, RowTypes
  <2> QED  BY <1>0, <1>1, <1>2, <1>3, <1>4, <1>5, <2>1, ScriptAdvances DEF Accords
<1>9. CASE HostExecutes(n)
  <2> DEFINE count == executed[n] + 1
  <2>1. /\ script' = [script EXCEPT ![n] = S("running", None)] /\ executed' = [executed EXCEPT ![n] = count]
        /\ UNCHANGED files /\ was.at = "claimed" /\ ChildReady(n)
    BY <1>0, <1>9 DEF HostExecutes, HostAt, SetScript, S, RowTypes
  <2>2. count \in Nat /\ count = executed[n] + 1
    BY <1>0
  <2> HIDE DEF count
  <2>3. HostSide(n) /\ AsideOf(n) /\ record' = record
    BY <2>1 DEF HostSide, AsideOf, ChildReady
  <2>4. StepOf(n) /\ OtherHostsKept(n) /\ process'[n].started = process[n].started
    BY <1>0, <2>3, HostSideStep, StartedKept
  <2>6. process'[n].escaped = process[n].escaped
    <3>1. process \in [Hosts -> Process] /\ process[n] \in Process
      BY <1>0, HostTypes DEF HostsOk
    <3> QED  BY <1>0, <2>1, <3>1 DEF ChildReady, Process
  <2>5. RunsOk'
    BY <1>0, <1>1, <1>3, <1>4, <2>1, <2>2, <2>3, <2>4, <2>6, ScriptAdvances
  <2> QED  BY <1>0, <2>4, <2>5 DEF Accords, HostStep
<1> QED  BY <1>6, <1>7, <1>8, <1>9

(* The hosts around a script host: guardians, daemon, watchdog, deaths.     *)
LEMMA HostWorldStep ==
    ASSUME HostsOk, RunsOk, NEW n \in Runs,
           \/ GuardActs(n) \/ HostExits(n) \/ WatchdogEnds(n) \/ Dies(n) \/ DaemonActs(n)
           \/ HostClaims(n) /\ files[n].claim
    PROVE  Accords
<1>0. n \in Hosts /\ process[n] \in Process
  BY HostTypes DEF HostsOk, Runs
<1>1. UNCHANGED <<serviceVars, files, queue, executed, former>>
  BY DEF GuardActs, HostExits, WatchdogEnds, Dies, DaemonActs, HostClaims, worldVars
<1>2. CASE GuardActs(n)
  <2>1. /\ HostSide(n)
        /\ IF process'[n].started > process[n].started THEN SetScript(n, "booted", None) ELSE UNCHANGED script
    BY <1>2 DEF GuardActs, HostSide
  <2>2. HostStep
    BY <1>0, <2>1, HostSideStep DEF HostStep
  <2> QED  BY <1>1, <2>1, <2>2, OutsideStep DEF Accords
<1>3. CASE ~GuardActs(n)
  <2>1. AsideOf(n) /\ UNCHANGED script
    BY <1>3 DEF HostExits, WatchdogEnds, Dies, DaemonActs, HostClaims, worldVars, AsideOf
  <2>2. process'[n].started = process[n].started /\ HostSide(n)
    BY <1>0, <2>1, StartedKept DEF HostSide
  <2>3. ~(process'[n].started > process[n].started)
    BY <1>0, <2>2 DEF Process
  <2>4. HostStep
    BY <1>0, <2>2, HostSideStep DEF HostStep
  <2> QED  BY <1>1, <2>1, <2>2, <2>3, <2>4, OutsideStep DEF Accords
<1> QED  BY <1>2, <1>3

-----------------------------------------------------------------------------
RowStates == [routine : RoutineIds \cup {None}, slot : Nat \cup {None},
              status : Outcomes \cup {"none", "running", "skipped", "deleted"}]

(* What the owner of the runtime may leave behind for a run.                *)
LEMMA OwnerSets ==
    ASSUME RunsOk, NEW n \in Runs, UNCHANGED <<hostVars, script, executed, former, runtime>>, runtime # "down",
           NEW p \in Pending \cup {None}, pending' = [pending EXCEPT ![n] = p],
           NEW x \in RowStates, row' = [row EXCEPT ![n] = x],
           NEW f \in FileStates, files' = [files EXCEPT ![n] = f], f.result = files[n].result,
           files[n].descriptor = TRUE => f.descriptor = TRUE,
           \A m \in Runs \ {n} : m \in queue' <=> m \in queue,
           p # None => EntryIs(p, x.status),
           \/ n \in former
           \/ /\ n \in queue' => p # None /\ p.job = "waiting"
              /\ (x.status # "running" \/ (p # None /\ (p.result # None \/ p.job = "reading"))) => Ceased(n)
              /\ (x.status = "none" \/ (p # None /\ p.job = "preparing")) => record[n].state = "absent"
              /\ (process[n].escaped = FALSE /\ p # None /\ p.result # None /\ files[n].result # None) =>
                    p.result = files[n].result
              /\ (process[n].escaped = FALSE /\ files[n].result # None /\ x.status \in Outcomes) =>
                    x.status = files[n].result
    PROVE  Accords
<1>0. RowTypes /\ RunOk(n)
  BY RunTypes
<1>1. /\ RowTypes' /\ pending'[n] = p /\ row'[n] = x /\ files'[n] = f
      /\ \A m \in Runs \ {n} : pending'[m] = pending[m] /\ row'[m] = row[m] /\ files'[m] = files[m]
  BY <1>0 DEF RowTypes, RowStates, FileStates
<1>2. \A m \in Runs \ {n} : RunKept(m)
  BY <1>1 DEF RunKept, hostVars
<1>3. ScriptOk(n)' /\ EntryOk(n)'
  <2>1. ScriptOk(n)'
    BY <1>0, <1>1 DEF RunOk, ScriptOk, hostVars
  <2> QED  BY <1>1, <2>1 DEF EntryOk
<1>4. n \notin former' => LaunchOk(n)'
  BY <1>1 DEF LaunchOk, Decided, Ceased, Untouched, hostVars
<1> QED  BY <1>1, <1>2, <1>3, <1>4, OneRun DEF RunOk, Accords

(* What is known of a pending run.                                          *)
LEMMA PendingRun ==
    ASSUME RunsOk, NEW n \in Runs, n \in PendingRuns
    PROVE  /\ pending[n] # None /\ pending[n] \in Pending /\ EntryIs(pending[n], row[n].status)
           /\ row[n] \in RowStates /\ files[n] \in FileStates
           /\ row = [row EXCEPT ![n] = row[n]] /\ files = [files EXCEPT ![n] = files[n]]
           /\ n \notin former => LaunchOk(n)
           /\ runtime # "down" /\ None \notin Pending
<1>1. pending[n] # None
  BY DEF PendingRuns
<1> QED  BY <1>1, NotPendingAssumption DEF RunsOk, RowTypes, RunOk, EntryOk, RowStates, FileStates

(* A visit of poll.                                                         *)
LEMMA VisitStep ==
    ASSUME HostsOk, RunsOk, NEW n \in Runs, PollRecords(n) \/ PollLaunches(n) \/ PollInspects(n)
    PROVE  Accords
<1> DEFINE q == pending[n]
<1>0. /\ q # None /\ q \in Pending /\ EntryIs(q, row[n].status)
      /\ row[n] \in RowStates /\ files[n] \in FileStates
      /\ row = [row EXCEPT ![n] = row[n]] /\ files = [files EXCEPT ![n] = files[n]]
      /\ n \notin former => LaunchOk(n)
      /\ runtime # "down" /\ None \notin Pending /\ q.job = "none"
  <2>1. n \in PendingRuns /\ q.job = "none"
    BY DEF PollRecords, PollLaunches, PollInspects, Visitable
  <2> QED  BY <2>1, PendingRun
<1>1. UNCHANGED <<hostVars, script, executed, former, runtime>> /\ UNCHANGED <<files, queue>>
  BY DEF PollRecords, PollLaunches, PollInspects, worldVars
<1>2. CASE PollRecords(n)
  <2> DEFINE p == [q EXCEPT !.recorded = TRUE, !.job = "acknowledging"]
             x == IF q.recorded THEN row[n] ELSE [row[n] EXCEPT !.status = q.result]
  <2>1. /\ pending' = [pending EXCEPT ![n] = p] /\ row' = [row EXCEPT ![n] = x] /\ q.result # None
    BY <1>0, <1>2 DEF PollRecords, SetPending, RowStates
  <2>2. /\ p \in Pending /\ p.recorded = TRUE /\ p.job = "acknowledging" /\ p.result = q.result
        /\ p.prepared = q.prepared /\ q.recorded \in BOOLEAN /\ q.result \in Outcomes
    BY <1>0, <2>1 DEF Pending, Jobs
  <2>3. x \in RowStates /\ x.status = q.result
    BY <1>0, <2>1, <2>2 DEF RowStates, EntryIs
  <2> HIDE DEF p, x
  <2>4. p # None /\ EntryIs(p, x.status)
    BY <1>0, <2>1, <2>2, <2>3 DEF EntryIs, Pending
  <2>5. ASSUME n \notin former
        PROVE  /\ n \notin queue' /\ Ceased(n)
               /\ x.status # "none" /\ p.job # "preparing"
               /\ process[n].escaped = FALSE /\ files[n].result # None =>
                     p.result = files[n].result /\ x.status = files[n].result
    BY <1>0, <1>1, <2>1, <2>2, <2>3, <2>5 DEF LaunchOk, Decided, Outcomes
  <2> QED  BY <1>0, <1>1, <2>1, <2>2, <2>3, <2>4, <2>5, OwnerSets
<1>3. CASE PollLaunches(n)
  <2> DEFINE p == [q EXCEPT !.prepared = FALSE, !.job = "describing"]
             x == [row[n] EXCEPT !.status = "running"]
  <2>1. /\ pending' = [pending EXCEPT ![n] = p] /\ row' = [row EXCEPT ![n] = x] /\ q.result = None
    BY <1>0, <1>3 DEF PollLaunches, SetPending, RowStates
  <2>2. /\ p \in Pending /\ p.recorded = q.recorded /\ p.job = "describing" /\ p.result = q.result /\ p.prepared = FALSE
    BY <1>0 DEF Pending, Jobs
  <2>3. x \in RowStates /\ x.status = "running"
    BY <1>0 DEF RowStates
  <2> HIDE DEF p, x
  <2>4. p # None /\ EntryIs(p, x.status)
    BY <1>0, <2>1, <2>2, <2>3 DEF EntryIs, Pending
  <2>5. n \notin former => n \notin queue'
    BY <1>0, <1>1 DEF LaunchOk
  <2>6. "running" \notin Outcomes
    BY DEF Outcomes
  <2> QED  BY <1>0, <1>1, <2>1, <2>2, <2>3, <2>4, <2>5, <2>6, OwnerSets
<1>4. CASE PollInspects(n)
  <2> DEFINE p == [q EXCEPT !.job = "inspecting"]
  <2>1. /\ pending' = [pending EXCEPT ![n] = p] /\ UNCHANGED row /\ q.result = None /\ ~q.prepared
    BY <1>0, <1>4 DEF PollInspects, SetPending
  <2>2. /\ p \in Pending /\ p.recorded = q.recorded /\ p.job = "inspecting" /\ p.result = q.result /\ p.prepared = q.prepared
    BY <1>0 DEF Pending, Jobs
  <2> HIDE DEF p
  <2>4. p # None /\ EntryIs(p, row[n].status) /\ row[n].status = "running"
    BY <1>0, <2>1, <2>2 DEF EntryIs, Pending
  <2>5. n \notin former => n \notin queue'
    BY <1>0, <1>1 DEF LaunchOk
  <2>6. "running" \notin Outcomes
    BY DEF Outcomes
  <2> QED  BY <1>0, <1>1, <2>1, <2>2, <2>4, <2>5, <2>6, OwnerSets
<1> QED  BY <1>2, <1>3, <1>4

(* A job of a run that goes on, or ends without a result.                   *)
LEMMA JobGoesOn ==
    ASSUME RunsOk, NEW n \in Runs, n \in PendingRuns,
           UNCHANGED <<hostVars, script, executed, former, runtime, row>>,
           NEW p \in Pending, pending' = [pending EXCEPT ![n] = p],
           NEW f \in FileStates, files' = [files EXCEPT ![n] = f], f.result = files[n].result,
           files[n].descriptor = TRUE => f.descriptor = TRUE,
           \A m \in Runs \ {n} : m \in queue' <=> m \in queue,
           p.recorded = pending[n].recorded, pending[n].result = None, p.result = None, p.job # "acknowledging",
           p.job \in {"preparing", "describing", "asking", "waiting", "inspecting", "reading"} => p.prepared = FALSE,
           n \notin former => (n \in queue' => p.job = "waiting"),
           p.job = "reading" => Ceased(n),
           p.job = "preparing" => pending[n].job = "preparing"
    PROVE  Accords
<1>0. /\ pending[n] # None /\ pending[n] \in Pending /\ EntryIs(pending[n], row[n].status)
      /\ row[n] \in RowStates /\ row = [row EXCEPT ![n] = row[n]]
      /\ n \notin former => LaunchOk(n)
      /\ runtime # "down" /\ p # None
  BY PendingRun
<1>1. row[n].status = "running" /\ EntryIs(p, row[n].status)
  BY <1>0 DEF EntryIs, Pending
<1>2. n \notin former /\ p.job = "preparing" => record[n].state = "absent"
  BY <1>0 DEF LaunchOk, Untouched
<1>3. "running" \notin Outcomes
  BY DEF Outcomes
<1> QED  BY <1>0, <1>1, <1>2, <1>3, OwnerSets

(* The jobs of a launch.                                                    *)
LEMMA LaunchJobStep ==
    ASSUME HostsOk, RunsOk, NEW n \in Runs,
           LaunchDescribes(n) \/ LaunchAsks(n) \/ LaunchEnds(n) \/ InspectAsks(n)
    PROVE  Accords
<1> DEFINE q == pending[n]
<1>0. /\ q # None /\ q \in Pending /\ EntryIs(q, row[n].status) /\ n \in PendingRuns
      /\ files[n] \in FileStates /\ files = [files EXCEPT ![n] = files[n]]
      /\ n \notin former => LaunchOk(n)
  <2>1. n \in PendingRuns
    BY DEF LaunchDescribes, LaunchAsks, LaunchEnds, InspectAsks, JobIs
  <2> QED  BY <2>1, PendingRun
<1>1. UNCHANGED <<hostVars, script, executed, former, runtime, row>>
  BY DEF LaunchDescribes, LaunchAsks, LaunchEnds, InspectAsks, worldVars
<1>2. CASE LaunchDescribes(n)
  <2> DEFINE p == [q EXCEPT !.job = "asking"]
             f == [files[n] EXCEPT !.descriptor = TRUE]
  <2>1. /\ pending' = [pending EXCEPT ![n] = p] /\ files' = [files EXCEPT ![n] = f] /\ q.job = "describing"
        /\ queue' = queue
    BY <1>0, <1>2 DEF LaunchDescribes, JobIs, SetPending, FileStates
  <2>2. /\ p \in Pending /\ p.recorded = q.recorded /\ p.job = "asking" /\ p.result = q.result /\ p.prepared = q.prepared
        /\ f \in FileStates /\ f.descriptor = TRUE /\ f.result = files[n].result
    BY <1>0 DEF Pending, Jobs, FileStates
  <2>3. q.result = None /\ q.prepared = FALSE /\ (n \notin former => n \notin queue)
    BY <1>0, <2>1 DEF EntryIs, LaunchOk
  <2> HIDE DEF p, f
  <2> QED  BY <1>0, <1>1, <2>1, <2>2, <2>3, JobGoesOn
<1>3. CASE LaunchAsks(n)
  <2> DEFINE p == [q EXCEPT !.job = "waiting"]
  <2>1. /\ pending' = [pending EXCEPT ![n] = p] /\ files' = files /\ q.job = "asking" /\ queue' = queue \cup {n}
    BY <1>0, <1>3 DEF LaunchAsks, JobIs, SetPending
  <2>2. /\ p \in Pending /\ p.recorded = q.recorded /\ p.job = "waiting" /\ p.result = q.result /\ p.prepared = q.prepared
    BY <1>0 DEF Pending, Jobs
  <2>3. q.result = None /\ q.prepared = FALSE
    BY <1>0, <2>1 DEF EntryIs
  <2> HIDE DEF p
  <2> QED  BY <1>0, <1>1, <2>1, <2>2, <2>3, JobGoesOn
<1>4. CASE LaunchEnds(n)
  <2> DEFINE p == [q EXCEPT !.job = "none"]
  <2>1. /\ pending' = [pending EXCEPT ![n] = p] /\ files' = files /\ queue' = queue
        /\ \/ q.job = "waiting" /\ n \notin queue
           \/ q.job = "asking"
    BY <1>0, <1>4 DEF LaunchEnds, JobIs, Complete, SetPending, worldVars
  <2>2. /\ p \in Pending /\ p.recorded = q.recorded /\ p.job = "none" /\ p.result = q.result /\ p.prepared = q.prepared
    BY <1>0 DEF Pending, Jobs
  <2>3. q.result = None /\ q.prepared = FALSE /\ (n \notin former => n \notin queue)
    BY <1>0, <2>1 DEF EntryIs, LaunchOk
  <2> HIDE DEF p
  <2> QED  BY <1>0, <1>1, <2>1, <2>2, <2>3, JobGoesOn
<1>5. CASE InspectAsks(n)
  <2> DEFINE r == [q EXCEPT !.job = "reading"]
             p == [[q EXCEPT !.result = None] EXCEPT !.job = "none"]
  <2>1. /\ files' = files /\ queue' = queue /\ q.job = "inspecting"
        /\ \/ pending' = [pending EXCEPT ![n] = r] /\ ~Alive(n)
           \/ pending' = [pending EXCEPT ![n] = p]
    BY <1>0, <1>5 DEF InspectAsks, JobIs, Complete, SetPending, worldVars
  <2>2. /\ p \in Pending /\ p.recorded = q.recorded /\ p.job = "none" /\ p.result = None /\ p.prepared = q.prepared
        /\ r \in Pending /\ r.recorded = q.recorded /\ r.job = "reading" /\ r.result = q.result /\ r.prepared = q.prepared
    BY <1>0 DEF Pending, Jobs
  <2>3. q.result = None /\ q.prepared = FALSE /\ (n \notin former => n \notin queue)
    BY <1>0, <2>1 DEF EntryIs, LaunchOk
  <2>4. ~Alive(n) => Ceased(n)
    BY CeasedIsEmpty DEF Runs
  <2> HIDE DEF p, r
  <2>5. CASE pending' = [pending EXCEPT ![n] = r] /\ ~Alive(n)
    <3>1. Ceased(n) /\ pending' = [pending EXCEPT ![n] = r] /\ files' = [files EXCEPT ![n] = files[n]]
      BY <1>0, <2>1, <2>4, <2>5
    <3>2. r.result = None /\ r.prepared = FALSE /\ (n \notin former => n \notin queue') /\ queue' = queue
      BY <2>1, <2>2, <2>3
    <3> QED  BY <1>0, <1>1, <2>2, <2>3, <3>1, <3>2, JobGoesOn
  <2>6. CASE pending' = [pending EXCEPT ![n] = p]
    BY <1>0, <1>1, <2>1, <2>2, <2>3, <2>6, JobGoesOn
  <2> QED  BY <2>1, <2>5, <2>6
<1> QED  BY <1>2, <1>3, <1>4, <1>5

(* A run gets its result: its preparation failed, or its end was inspected. *)
LEMMA ResultStep ==
    ASSUME HostsOk, RunsOk, NEW n \in Runs, InspectReads(n) \/ \E ok \in BOOLEAN : PrepareEnds(n, ok)
    PROVE  Accords
<1> DEFINE q == pending[n]
           given == IF files[n].descriptor /\ files[n].result # None THEN files[n].result ELSE "interrupted"
           ready == [[q EXCEPT !.prepared = TRUE] EXCEPT !.job = "none"]
           failed == [[q EXCEPT !.result = "failed"] EXCEPT !.job = "none"]
           read == [[q EXCEPT !.result = given] EXCEPT !.job = "none"]
<1>0. /\ q # None /\ q \in Pending /\ EntryIs(q, row[n].status) /\ n \in PendingRuns
      /\ files[n] \in FileStates /\ files = [files EXCEPT ![n] = files[n]]
      /\ row[n] \in RowStates /\ row = [row EXCEPT ![n] = row[n]]
      /\ n \notin former => LaunchOk(n)
      /\ runtime # "down" /\ None \notin Pending
  <2>1. n \in PendingRuns
    BY DEF InspectReads, PrepareEnds, JobIs
  <2> QED  BY <2>1, PendingRun
<1>1. UNCHANGED <<hostVars, script, executed, former, runtime, row>> /\ files' = files /\ queue' = queue
  BY DEF InspectReads, PrepareEnds, worldVars
<1>2. /\ \/ pending' = [pending EXCEPT ![n] = ready] /\ q.job = "preparing"
         \/ pending' = [pending EXCEPT ![n] = failed] /\ q.job = "preparing"
         \/ pending' = [pending EXCEPT ![n] = read] /\ q.job = "reading"
  BY DEF InspectReads, PrepareEnds, JobIs, Complete, SetPending
<1>3. given \in Outcomes
  BY <1>0 DEF FileStates, Outcomes
<1>4. q.result = None /\ q.prepared = FALSE /\ q.recorded = FALSE /\ row[n].status = "running"
  BY <1>0, <1>2 DEF EntryIs, Pending
<1>5. n \notin former => /\ n \notin queue'
                         /\ q.job = "reading" => Ceased(n)
                         /\ q.job = "preparing" => record[n].state = "absent"
  BY <1>0, <1>1, <1>2 DEF LaunchOk, Decided, Untouched
<1>6. n \notin former /\ files[n].result # None => record[n].state # "absent" /\ files[n].descriptor = TRUE
  <2>1. RunOk(n) /\ HostOk(n) /\ HostsTypeOK /\ n \in Hosts
    BY RunTypes DEF HostsOk, Runs
  <2>2. files[n].result # None => process[n].started # 0
    BY <2>1 DEF RunOk, ScriptOk
  <2>3. process[n].started # 0 => record[n].state # "absent"
    BY <2>1 DEF HostOk, Unborn
  <2> QED  BY <2>1, <2>2, <2>3 DEF RunOk, ScriptOk
<1>7. n \notin former /\ files[n].result # None => given = files[n].result
  BY <1>6
<1> HIDE DEF given
<1>8. /\ ready \in Pending /\ ready.job = "none" /\ ready.prepared = TRUE /\ ready.result = q.result
      /\ ready.recorded = q.recorded
      /\ failed \in Pending /\ failed.job = "none" /\ failed.prepared = q.prepared /\ failed.result = "failed"
      /\ failed.recorded = q.recorded
      /\ read \in Pending /\ read.job = "none" /\ read.prepared = q.prepared /\ read.result = given
      /\ read.recorded = q.recorded
  BY <1>0, <1>3 DEF Pending, Jobs, Outcomes
<1> HIDE DEF ready, failed, read
<1>9. CASE pending' = [pending EXCEPT ![n] = ready] /\ q.job = "preparing"
  BY <1>0, <1>1, <1>4, <1>5, <1>8, <1>9, JobGoesOn
<1>10. ASSUME NEW p \in Pending, pending' = [pending EXCEPT ![n] = p], p.job = "none", p.prepared = FALSE,
              p.recorded = FALSE, p.result \in Outcomes, n \notin former => Ceased(n),
              n \notin former /\ files[n].result # None => p.result = files[n].result
       PROVE  Accords
  <2>1. p # None /\ EntryIs(p, row[n].status)
    BY <1>0, <1>4, <1>10 DEF EntryIs
  <2>2. row[n].status # "none" /\ row[n].status \notin Outcomes /\ p.job # "preparing"
    BY <1>4, <1>10 DEF Outcomes
  <2> QED  BY <1>0, <1>1, <1>4, <1>5, <1>10, <2>1, <2>2, OwnerSets
<1>11. CASE pending' = [pending EXCEPT ![n] = failed] /\ q.job = "preparing"
  <2>1. n \notin former => Ceased(n) /\ files[n].result = None
    BY <1>5, <1>6, <1>11 DEF Ceased
  <2>2. "failed" \in Outcomes
    BY DEF Outcomes
  <2> QED  BY <1>4, <1>8, <1>10, <1>11, <2>1, <2>2
<1>12. CASE pending' = [pending EXCEPT ![n] = read] /\ q.job = "reading"
  BY <1>3, <1>4, <1>5, <1>7, <1>8, <1>10, <1>12
<1> QED  BY <1>2, <1>9, <1>11, <1>12

(* A result that was stored is acknowledged, and a stop is passed on.       *)
LEMMA MarkStep ==
    ASSUME HostsOk, RunsOk, NEW n \in Runs, NEW ok \in BOOLEAN, Acknowledge(n, ok) \/ WriteStop(n, ok)
    PROVE  Accords
<1> DEFINE q == pending[n]
<1>0. /\ q # None /\ q \in Pending /\ EntryIs(q, row[n].status) /\ n \in PendingRuns
      /\ files[n] \in FileStates /\ files = [files EXCEPT ![n] = files[n]]
      /\ row[n] \in RowStates /\ row = [row EXCEPT ![n] = row[n]]
      /\ n \notin former => LaunchOk(n)
      /\ runtime # "down" /\ None \notin Pending
  <2>1. n \in PendingRuns
    BY DEF Acknowledge, WriteStop, JobIs
  <2> QED  BY <2>1, PendingRun
<1>1. UNCHANGED <<hostVars, script, executed, former, runtime, row>> /\ queue' = queue
  BY DEF Acknowledge, WriteStop
<1>2. PICK f \in FileStates : /\ files' = [files EXCEPT ![n] = f] /\ f.result = files[n].result
                              /\ f.descriptor = files[n].descriptor
  <2> DEFINE known == [files[n] EXCEPT !.recorded = TRUE]
             stopped == [files[n] EXCEPT !.stop = TRUE]
  <2>1. /\ known \in FileStates /\ known.result = files[n].result /\ known.descriptor = files[n].descriptor
        /\ stopped \in FileStates /\ stopped.result = files[n].result /\ stopped.descriptor = files[n].descriptor
    BY <1>0 DEF FileStates
  <2>2. files' \in {files, [files EXCEPT ![n] = known], [files EXCEPT ![n] = stopped]}
    BY <1>0 DEF Acknowledge, WriteStop, FileStates
  <2> HIDE DEF known, stopped
  <2> QED  BY <1>0, <2>1, <2>2
<1>3. CASE Acknowledge(n, ok) /\ ok
  <2>1. pending' = [pending EXCEPT ![n] = None] /\ q.job = "acknowledging"
    BY <1>3 DEF Acknowledge, JobIs, SetPending
  <2>2. q.recorded = TRUE /\ q.result # None /\ row[n].status = q.result
    BY <1>0, <2>1 DEF EntryIs
  <2>3. row[n].status \in Outcomes
    BY <1>0, <2>2 DEF Pending
  <2>4. n \notin former => /\ n \notin queue' /\ Ceased(n)
                           /\ process[n].escaped = FALSE /\ files[n].result # None => row[n].status = files[n].result
    BY <1>0, <1>1, <2>1, <2>2, <2>3 DEF LaunchOk, Decided
  <2>5. row[n].status # "none"
    BY <2>3 DEF Outcomes
  <2> QED  BY <1>0, <1>1, <1>2, <2>1, <2>4, <2>5, OwnerSets
<1>4. ASSUME NEW p \in Pending, pending' = [pending EXCEPT ![n] = p], p.recorded = q.recorded, p.result = q.result,
             p.prepared = q.prepared, \/ p.job = q.job \/ (q.job = "acknowledging" /\ p.job = "none")
      PROVE  Accords
  <2>1. p # None /\ EntryIs(p, row[n].status)
    BY <1>0, <1>4 DEF EntryIs
  <2>2. \/ n \in former
        \/ /\ n \in queue' => p.job = "waiting"
           /\ (row[n].status # "running" \/ p.result # None \/ p.job = "reading") => Ceased(n)
           /\ (row[n].status = "none" \/ p.job = "preparing") => record[n].state = "absent"
           /\ (process[n].escaped = FALSE /\ p.result # None /\ files[n].result # None) => p.result = files[n].result
           /\ (process[n].escaped = FALSE /\ files[n].result # None /\ row[n].status \in Outcomes) =>
                row[n].status = files[n].result
    BY <1>0, <1>1, <1>4 DEF LaunchOk, Decided, Untouched
  <2> QED  BY <1>0, <1>1, <1>2, <1>4, <2>1, <2>2, OwnerSets
<1>5. CASE Acknowledge(n, ok) /\ ~ok
  <2> DEFINE p == [q EXCEPT !.job = "none"]
  <2>1. pending' = [pending EXCEPT ![n] = p] /\ q.job = "acknowledging"
    BY <1>5 DEF Acknowledge, JobIs, Complete, SetPending
  <2>2. /\ p \in Pending /\ p.job = "none" /\ p.recorded = q.recorded /\ p.result = q.result /\ p.prepared = q.prepared
    BY <1>0 DEF Pending, Jobs
  <2> QED  BY <1>4, <2>1, <2>2
<1>6. CASE WriteStop(n, ok)
  <2> DEFINE stop == IF ok THEN "written" ELSE "no"
             p == [q EXCEPT !.stop = stop]
  <2>1. pending' = [pending EXCEPT ![n] = p] /\ stop \in {"no", "written"}
    BY <1>6 DEF WriteStop, SetPending
  <2> HIDE DEF stop
  <2>2. /\ p \in Pending /\ p.job = q.job /\ p.recorded = q.recorded /\ p.result = q.result /\ p.prepared = q.prepared
    BY <1>0, <2>1 DEF Pending
  <2> HIDE DEF p
  <2> QED  BY <1>4, <2>1, <2>2
<1> QED  BY <1>3, <1>5, <1>6

(* A row is inserted: the run is pending, has failed already, or is skipped.*)
LEMMA FireStep ==
    ASSUME HostsOk, RunsOk, NEW n \in Runs, NEW r \in RoutineIds, NEW slot \in Nat \cup {None}, row[n].status = "none",
           UNCHANGED hostVars, UNCHANGED worldVars, UNCHANGED runtime, runtime # "down",
           \/ /\ row' = [row EXCEPT ![n] = [routine |-> r, status |-> "skipped", slot |-> slot]]
              /\ UNCHANGED pending
           \/ /\ row' = [row EXCEPT ![n] = [routine |-> r, status |-> "running", slot |-> slot]]
              /\ \/ SetPending(n, Admitted)
                 \/ SetPending(n, [Recovered EXCEPT !.result = "failed"])
    PROVE  Accords
<1> DEFINE skipped == [routine |-> r, status |-> "skipped", slot |-> slot]
           running == [routine |-> r, status |-> "running", slot |-> slot]
           failed == [Recovered EXCEPT !.result = "failed"]
<1>0. /\ RowTypes /\ RunOk(n) /\ files[n] \in FileStates /\ files = [files EXCEPT ![n] = files[n]]
      /\ pending[n] = None /\ pending = [pending EXCEPT ![n] = pending[n]]
  <2>1. RowTypes /\ RunOk(n) /\ files[n] \in FileStates /\ (pending[n] # None => pending[n] \in Pending)
    BY RunTypes DEF FileStates
  <2>2. pending[n] = None
    BY <2>1 DEF RunOk, EntryOk, EntryIs, Pending, Outcomes
  <2> QED  BY <2>1, <2>2 DEF RowTypes
<1>1. /\ skipped \in RowStates /\ skipped.status = "skipped"
      /\ running \in RowStates /\ running.status = "running"
  BY DEF RowStates
<1>2. /\ Admitted \in Pending /\ Admitted.job = "preparing" /\ Admitted.result = None /\ Admitted.recorded = FALSE
      /\ Admitted.prepared = FALSE
      /\ failed \in Pending /\ failed.job = "none" /\ failed.result = "failed" /\ failed.recorded = FALSE
      /\ failed.prepared = FALSE
  BY DEF Admitted, Recovered, Pending, Jobs, Outcomes
<1>3. ASSUME n \notin former PROVE n \notin queue /\ record[n].state = "absent" /\ Ceased(n) /\ files[n].result = None
  <2>1. n \notin queue /\ record[n].state = "absent"
    BY <1>0, <1>3 DEF RunOk, LaunchOk, Untouched
  <2>2. HostOk(n)
    BY DEF HostsOk, Runs
  <2>3. process[n].started = 0
    BY <2>1, <2>2 DEF HostOk, Unborn
  <2> QED  BY <1>0, <2>1, <2>3 DEF RunOk, ScriptOk, Ceased
<1>4. UNCHANGED <<script, executed, former, queue, files>>
  BY DEF worldVars
<1>5. \/ row' = [row EXCEPT ![n] = skipped] /\ pending' = pending
      \/ row' = [row EXCEPT ![n] = running] /\ pending' = [pending EXCEPT ![n] = Admitted]
      \/ row' = [row EXCEPT ![n] = running] /\ pending' = [pending EXCEPT ![n] = failed]
  BY DEF SetPending
<1>6. None \notin Pending /\ "running" \notin Outcomes /\ "skipped" \notin Outcomes
  BY NotPendingAssumption DEF Outcomes
<1> HIDE DEF skipped, running, failed
<1>7. CASE row' = [row EXCEPT ![n] = skipped] /\ pending' = pending
  <2>1. pending' = [pending EXCEPT ![n] = None]
    BY <1>0, <1>7
  <2> QED  BY <1>0, <1>1, <1>3, <1>4, <1>6, <1>7, <2>1, OwnerSets
<1>8. CASE row' = [row EXCEPT ![n] = running] /\ pending' = [pending EXCEPT ![n] = Admitted]
  <2>1. EntryIs(Admitted, running.status)
    BY <1>1, <1>2 DEF EntryIs
  <2> QED  BY <1>0, <1>1, <1>2, <1>3, <1>4, <1>6, <1>8, <2>1, OwnerSets
<1>9. CASE row' = [row EXCEPT ![n] = running] /\ pending' = [pending EXCEPT ![n] = failed]
  <2>1. EntryIs(failed, running.status)
    BY <1>1, <1>2 DEF EntryIs
  <2> QED  BY <1>0, <1>1, <1>2, <1>3, <1>4, <1>6, <1>9, <2>1, OwnerSets
<1> QED  BY <1>5, <1>7, <1>8, <1>9

(* Scheduled and manual fires, and those that a boot skips.                 *)
LEMMA AdmissionStep ==
    ASSUME HostsOk, RunsOk, CadenceOk, NEW n \in Runs, NEW r \in RoutineIds,
           RunNow(n, r) \/ PollFires(n, r) \/ BootSkips(n, r)
    PROVE  Accords
<1>1. /\ UNCHANGED hostVars /\ UNCHANGED worldVars /\ UNCHANGED runtime /\ runtime # "down"
      /\ row[n].status = "none"
  BY DEF RunNow, PollFires, BootSkips, Fire, Serving, NextRow
<1>2. routine[r].next \in Nat \cup {None}
  BY DEF CadenceOk, RoutineStates
<1>3. PICK slot \in Nat \cup {None} :
        \/ /\ row' = [row EXCEPT ![n] = [routine |-> r, status |-> "skipped", slot |-> slot]]
           /\ UNCHANGED pending
        \/ /\ row' = [row EXCEPT ![n] = [routine |-> r, status |-> "running", slot |-> slot]]
           /\ \/ SetPending(n, Admitted)
              \/ SetPending(n, [Recovered EXCEPT !.result = "failed"])
  BY <1>2 DEF RunNow, PollFires, BootSkips, Fire, Admit
<1> QED  BY <1>1, <1>3, FireStep

-----------------------------------------------------------------------------
(* Steps that leave every run as it is.                                     *)
LEMMA RunsAside ==
    ASSUME RunsOk, UNCHANGED <<hostVars, row, pending, files, script, executed, queue, former>>,
           runtime' = "down" => runtime = "down"
    PROVE  Accords
<1>1. \A n \in Runs : RunKept(n)
  BY DEF RunKept, hostVars
<1>2. RowTypes'
  BY DEF RunsOk, RowTypes
<1>3. \A n \in Runs : RunOk(n)'
  BY <1>1, KeptStaysOk DEF RunsOk
<1> QED  BY <1>2, <1>3 DEF RunsOk, Accords

(* A routine is removed with the rows of its history, none of which runs.   *)
LEMMA RemoveStep ==
    ASSUME HostsOk, RunsOk, NEW r \in RoutineIds, Remove(r)
    PROVE  Accords
<1>1. /\ UNCHANGED <<hostVars, pending, files, script, executed, queue, former>> /\ UNCHANGED runtime
      /\ row' = [n \in Runs |-> IF row[n].routine = r THEN [row[n] EXCEPT !.status = "deleted"] ELSE row[n]]
      /\ \A n \in Runs : row[n].routine = r => row[n].status # "running" /\ pending[n] = None
  BY DEF Remove, worldVars, HasPending, PendingRuns
<1>2. \A n \in Runs : row[n] \in RowStates
  BY DEF RunsOk, RowTypes, RowStates
<1>3. ASSUME NEW x \in RowStates
      PROVE  [x EXCEPT !.status = "deleted"] \in RowStates /\ [x EXCEPT !.status = "deleted"].status = "deleted"
  BY DEF RowStates
<1>4. RowTypes'
  BY <1>1, <1>2, <1>3 DEF RunsOk, RowTypes, RowStates
<1>5. ASSUME NEW n \in Runs PROVE RunOk(n)'
  <2>1. RunOk(n)
    BY DEF RunsOk
  <2>2. CASE row[n].routine # r
    <3>1. RunKept(n)
      BY <1>1, <2>2 DEF RunKept, hostVars
    <3> QED  BY <2>1, <3>1, KeptStaysOk
  <2>3. CASE row[n].routine = r
    <3>1. row'[n].status = "deleted" /\ row[n].status # "running" /\ pending'[n] = None /\ pending[n] = None
      BY <1>1, <1>2, <1>3, <2>3
    <3>2. ScriptOk(n)' /\ EntryOk(n)'
      BY <1>1, <2>1, <3>1 DEF RunOk, ScriptOk, EntryOk, hostVars
    <3>3. n \notin former' => LaunchOk(n)'
      BY <1>1, <2>1, <3>1 DEF RunOk, LaunchOk, Decided, Ceased, Untouched, hostVars, Outcomes
    <3> QED  BY <3>2, <3>3 DEF RunOk
  <2> QED  BY <2>2, <2>3
<1> QED  BY <1>1, <1>4, <1>5 DEF RunsOk, Accords

(* A stop is noted for the runs of a routine.                               *)
LEMMA StopStep ==
    ASSUME HostsOk, RunsOk, NEW r \in RoutineIds, Stop(r)
    PROVE  Accords
<1>1. /\ UNCHANGED <<hostVars, row, files, script, executed, queue, former>> /\ UNCHANGED runtime /\ runtime # "down"
      /\ pending' = [n \in Runs |-> IF n \in PendingRuns /\ row[n].routine = r /\ pending[n].stop = "no"
                                    THEN [pending[n] EXCEPT !.stop = "asked"] ELSE pending[n]]
  BY DEF Stop, worldVars, Serving
<1>2. ASSUME NEW q \in Pending
      PROVE  /\ [q EXCEPT !.stop = "asked"] \in Pending
             /\ [q EXCEPT !.stop = "asked"].job = q.job /\ [q EXCEPT !.stop = "asked"].result = q.result
             /\ [q EXCEPT !.stop = "asked"].recorded = q.recorded /\ [q EXCEPT !.stop = "asked"].prepared = q.prepared
  BY DEF Pending
<1>3. ASSUME NEW n \in Runs
      PROVE  \/ pending'[n] = pending[n]
             \/ /\ pending[n] # None /\ pending[n] \in Pending /\ pending'[n] \in Pending
                /\ pending'[n].job = pending[n].job /\ pending'[n].result = pending[n].result
                /\ pending'[n].recorded = pending[n].recorded /\ pending'[n].prepared = pending[n].prepared
  BY <1>1, <1>2, RunTypes DEF PendingRuns
<1>4. RowTypes'
  BY <1>1, <1>3 DEF RunsOk, RowTypes
<1>5. ASSUME NEW n \in Runs PROVE RunOk(n)'
  <2>1. RunOk(n)
    BY DEF RunsOk
  <2>2. CASE pending'[n] = pending[n]
    <3>1. RunKept(n)
      BY <1>1, <2>2 DEF RunKept, hostVars
    <3> QED  BY <2>1, <3>1, KeptStaysOk
  <2>3. CASE /\ pending[n] # None /\ pending[n] \in Pending /\ pending'[n] \in Pending
             /\ pending'[n].job = pending[n].job /\ pending'[n].result = pending[n].result
             /\ pending'[n].recorded = pending[n].recorded /\ pending'[n].prepared = pending[n].prepared
    <3>1. ScriptOk(n)' /\ EntryOk(n)'
      BY <1>1, <2>1, <2>3 DEF RunOk, ScriptOk, EntryOk, EntryIs, hostVars
    <3>2. pending'[n] # None
      BY <2>3, NotPendingAssumption
    <3>3. n \notin former' => LaunchOk(n)'
      BY <1>1, <2>1, <2>3, <3>2 DEF RunOk, LaunchOk, Decided, Ceased, Untouched, hostVars
    <3> QED  BY <3>1, <3>3 DEF RunOk
  <2> QED  BY <1>3, <2>2, <2>3
<1> QED  BY <1>1, <1>4, <1>5 DEF RunsOk, Accords

(* The runtime ends: in order, or in a crash, which leaves behind the       *)
(* launch requests that are on their way.                                   *)
LEMMA EndOfRuntime ==
    ASSUME HostsOk, RunsOk, Exits \/ RuntimeCrashes
    PROVE  Accords
<1>1. /\ UNCHANGED <<hostVars, row, files, script, executed, queue>>
      /\ pending' = [n \in Runs |-> None]
      /\ \/ former' = former \cup queue
         \/ former' = former /\ \A n \in Runs : Idle(n)
  BY DEF Exits, RuntimeCrashes, worldVars
<1>2. RowTypes' /\ \A n \in Runs : pending'[n] = None
  BY <1>1 DEF RunsOk, RowTypes
<1>3. ASSUME NEW n \in Runs PROVE RunOk(n)'
  <2>1. RunOk(n) /\ pending'[n] = None
    BY <1>2 DEF RunsOk
  <2>2. ScriptOk(n)' /\ EntryOk(n)'
    BY <1>1, <2>1 DEF RunOk, ScriptOk, EntryOk, hostVars
  <2>3. ASSUME n \notin former' PROVE n \notin former /\ n \notin queue
    <3>1. CASE former' = former \cup queue
      BY <2>3, <3>1
    <3>2. CASE former' = former /\ \A m \in Runs : Idle(m)
      <4>1. pending[n] # None => pending[n].job = "none"
        BY <3>2 DEF Idle, PendingRuns
      <4> QED  BY <2>1, <2>3, <3>2, <4>1 DEF RunOk, LaunchOk
    <3> QED  BY <1>1, <3>1, <3>2
  <2>4. n \notin former' => LaunchOk(n)'
    BY <1>1, <2>1, <2>3 DEF RunOk, LaunchOk, Decided, Ceased, Untouched, hostVars
  <2> QED  BY <2>2, <2>4 DEF RunOk
<1> QED  BY <1>1, <1>2, <1>3 DEF RunsOk, Accords

(* Service::new: what runs according to the history is pending again, and   *)
(* will only be inspected.                                                  *)
LEMMA BootStep ==
    ASSUME HostsOk, RunsOk, Boots
    PROVE  Accords
<1>1. /\ UNCHANGED <<hostVars, row, files, script, executed, queue, former>> /\ runtime = "down" /\ runtime' = "booting"
      /\ pending' = [n \in Runs |-> IF row[n].status = "running" THEN Recovered ELSE None]
  BY DEF Boots, worldVars
<1>2. /\ Recovered \in Pending /\ Recovered.job = "none" /\ Recovered.result = None /\ Recovered.recorded = FALSE
      /\ Recovered.prepared = FALSE
  BY DEF Recovered, Admitted, Pending, Jobs
<1>3. RowTypes'
  BY <1>1, <1>2 DEF RunsOk, RowTypes
<1>4. ASSUME NEW n \in Runs PROVE RunOk(n)'
  <2>1. RunOk(n) /\ pending[n] = None
    BY <1>1 DEF RunsOk
  <2>2. pending'[n] = None \/ (pending'[n] = Recovered /\ row[n].status = "running")
    BY <1>1
  <2>3. ScriptOk(n)' /\ EntryOk(n)'
    BY <1>1, <1>2, <2>1, <2>2 DEF RunOk, ScriptOk, EntryOk, EntryIs, hostVars
  <2>4. n \notin former' => LaunchOk(n)'
    BY <1>1, <1>2, <2>1, <2>2 DEF RunOk, LaunchOk, Decided, Ceased, Untouched, hostVars
  <2> QED  BY <2>3, <2>4 DEF RunOk
<1> QED  BY <1>1, <1>3, <1>4 DEF RunsOk, Accords

(* The daemon dies with the connections and the locks it has.               *)
LEMMA EndOfDaemon ==
    ASSUME HostsOk, RunsOk, DaemonCrashes
    PROVE  Accords
<1>1. /\ UNCHANGED <<record, process, row, pending, files, script, executed, former, runtime>> /\ queue' = {}
      /\ LaunchesAbandoned
  BY DEF DaemonCrashes, serviceVars, LaunchesAbandoned
<1>2. RowTypes'
  BY <1>1 DEF RunsOk, RowTypes
<1>3. ASSUME NEW n \in Runs PROVE RunOk(n)'
  <2>1. RunOk(n)
    BY DEF RunsOk
  <2> QED  BY <1>1, <2>1 DEF RunOk, ScriptOk, EntryOk, LaunchOk, Decided, Ceased, Untouched
<1> QED  BY <1>1, <1>2, <1>3 DEF RunsOk, Accords, HostStep

(* Every step keeps the runs in order and is one of the hosts, or none.     *)
LEMMA NextAccords ==
    ASSUME HostsOk, RunsOk, CadenceOk, [Next]_vars
    PROVE  Accords
<1>1. CASE \/ PollTicks \/ Shutdown \/ BootEnds \/ ClockAdvances \/ DaemonStarts \/ UNCHANGED vars
           \/ \E r \in RoutineIds : Create(r) \/ PollPassesOver(r) \/ \E enabled \in BOOLEAN : Update(r, enabled)
  <2>1. /\ UNCHANGED <<hostVars, row, pending, files, script, executed, queue, former>>
        /\ runtime' = "down" => runtime = "down"
    BY <1>1 DEF PollTicks, Shutdown, BootEnds, ClockAdvances, DaemonStarts, Create, PollPassesOver, Update,
                vars, serviceVars, worldVars
  <2> QED  BY <2>1, RunsAside
<1>2. CASE RequestNext
  BY <1>1, <1>2, RemoveStep, StopStep, AdmissionStep DEF RequestNext
<1>3. CASE PassProgress
  BY <1>1, <1>3, AdmissionStep, EndOfRuntime, BootStep DEF PassProgress
<1>4. CASE RuntimeCrashes \/ DaemonCrashes
  BY <1>4, EndOfRuntime, EndOfDaemon
<1>5. ASSUME NEW n \in Runs,
             \/ OwnerProgress(n) \/ Acknowledge(n, FALSE) \/ WriteStop(n, FALSE)
      PROVE  Accords
  BY <1>5, VisitStep, LaunchJobStep, ResultStep, MarkStep DEF OwnerProgress
<1>6. ASSUME NEW n \in Runs, DaemonTakes(n) \/ DaemonCloses(n) PROVE Accords
  BY <1>6, RequestTaken DEF Accords
<1>7. ASSUME NEW n \in Runs, DaemonActs(n) \/ HostProgress(n) \/ Dies(n) PROVE Accords
  BY <1>7, HostWorldStep, ScriptStep DEF HostProgress
<1> QED  BY <1>1, <1>2, <1>3, <1>4, <1>5, <1>6, <1>7 DEF Next

(* Nothing has been admitted.                                               *)
LEMMA FirstRuns == Init => RunsOk
<1> SUFFICES ASSUME Init PROVE RunsOk
  OBVIOUS
<1>1. /\ NewRow \in RowStates /\ NewRow.status = "none" /\ NoFiles \in FileStates /\ NoFiles.result = None
      /\ NoRecord.state = "absent" /\ NoProcess.started = 0
  BY DEF NewRow, RowStates, NoFiles, FileStates, NoRecord, NoProcess
<1>2. /\ RowTypes
      /\ \A n \in Runs : /\ row[n] = NewRow /\ files[n] = NoFiles /\ pending[n] = None /\ script[n].at = "none"
                         /\ executed[n] = 0 /\ record[n] = NoRecord /\ process[n] = NoProcess /\ n \notin queue
  BY <1>1 DEF Init, HostsInit, RowTypes, RowStates, FileStates, Runs
<1>3. ASSUME NEW n \in Runs PROVE RunOk(n)
  BY <1>1, <1>2 DEF RunOk, ScriptOk, EntryOk, LaunchOk, Decided, Ceased, Untouched, Outcomes
<1> QED  BY <1>2, <1>3 DEF RunsOk

-----------------------------------------------------------------------------
SlotsKept == \A n \in Runs : row'[n].slot = row[n].slot /\ row'[n].routine = row[n].routine

(* Steps that leave the schedule and what was fired alone; the clock may    *)
(* advance and a pass may begin or be dropped.                              *)
LEMMA CadenceKept ==
    ASSUME CadenceOk, SlotsKept, UNCHANGED routine, now' \in Nat, now' >= now,
           \A r \in due' : r \in RoutineIds /\ routine[r].next # None /\ routine[r].next <= now
    PROVE  CadenceOk'
<1> USE DEF SlotsKept
<1>0. now \in Nat /\ \A r \in RoutineIds : routine[r].next \in Nat \cup {None}
  BY DEF CadenceOk, RoutineStates
<1>1. FiredOncePerSlot'
  BY DEF CadenceOk, FiredOncePerSlot
<1>2. ASSUME NEW r \in due' PROVE r \in RoutineIds /\ routine'[r].next # None /\ routine'[r].next <= now'
  <2>1. r \in RoutineIds /\ routine[r].next \in Nat /\ routine[r].next <= now /\ routine[r].next # None
    BY <1>0
  <2> QED  BY <1>0, <2>1
<1>3. ASSUME NEW n \in Runs PROVE Answered(n)'
  <2>1. Answered(n)
    BY DEF CadenceOk
  <2> QED  BY <1>0, <2>1 DEF Answered
<1> QED  BY <1>1, <1>2, <1>3 DEF CadenceOk

(* A routine is created, edited or removed between two passes: its cadence  *)
(* is given up, or begins after now.                                        *)
LEMMA CadenceEdited ==
    ASSUME CadenceOk, SlotsKept, due = {}, UNCHANGED <<now, due>>, NEW r \in RoutineIds, NEW x \in RoutineStates,
           routine' = [routine EXCEPT ![r] = x], x.next = None \/ x.next = now + 1
    PROVE  CadenceOk'
<1> USE DEF SlotsKept
<1>0. now \in Nat /\ routine' \in [RoutineIds -> RoutineStates]
  BY DEF CadenceOk
<1>1. FiredOncePerSlot'
  BY DEF CadenceOk, FiredOncePerSlot
<1>2. routine'[r] = x /\ \A other \in RoutineIds \ {r} : routine'[other] = routine[other]
  BY DEF CadenceOk
<1>3. ASSUME NEW n \in Runs PROVE Answered(n)'
  <2>1. Answered(n)
    BY DEF CadenceOk
  <2>2. CASE row[n].routine = r
    BY <1>0, <1>2, <2>1, <2>2 DEF Answered
  <2>3. CASE row[n].routine # r
    BY <1>2, <2>1, <2>3 DEF Answered
  <2> QED  BY <2>2, <2>3
<1> QED  BY <1>0, <1>1, <1>3 DEF CadenceOk

(* A due routine gets a row for the instant it was due at, and its next one *)
(* lies after now, in one transaction.                                      *)
LEMMA CadenceFires ==
    ASSUME CadenceOk, RowTypes, NEW n \in Runs, NEW r \in due, NEW status, UNCHANGED now, due' = due \ {r},
           row' = [row EXCEPT ![n] = [routine |-> r, status |-> status, slot |-> routine[r].next]],
           routine' = [routine EXCEPT ![r].next = NextRun(now)]
    PROVE  CadenceOk'
<1> DEFINE next == routine[r].next
           later == now + 1
           x == [routine[r] EXCEPT !.next = later]
<1>0. /\ now \in Nat /\ r \in RoutineIds /\ routine[r] \in RoutineStates /\ next \in Nat /\ next # None /\ next <= now
      /\ later \in Nat /\ later = now + 1
  BY DEF CadenceOk, RoutineStates
<1>1. routine' = [routine EXCEPT ![r] = x]
  BY <1>0 DEF NextRun, CadenceOk
<1> HIDE DEF later
<1>2. x \in RoutineStates /\ x.next = later
  BY <1>0 DEF RoutineStates
<1> HIDE DEF x
<1>3. /\ routine' \in [RoutineIds -> RoutineStates] /\ routine'[r] = x
      /\ \A other \in RoutineIds \ {r} : routine'[other] = routine[other]
  BY <1>0, <1>1, <1>2 DEF CadenceOk
<1>4. /\ row'[n].routine = r /\ row'[n].slot = next
      /\ \A m \in Runs \ {n} : row'[m] = row[m]
  BY DEF RowTypes
<1> HIDE DEF next
<1>5. ASSUME NEW m \in Runs PROVE Answered(m)'
  <2>0. /\ row[m].slot # None => row[m].routine \in RoutineIds /\ row[m].slot \in Nat /\ row[m].slot <= now
        /\ now' = now /\ routine'[r].next = later
    BY <1>2, <1>3 DEF CadenceOk, Answered
  <2>1. CASE m = n
    <3>1. row'[m].routine = r /\ row'[m].slot = next
      BY <1>4, <2>1
    <3>2. routine'[row'[m].routine].next = later
      BY <2>0, <3>1
    <3>3. next < later
      BY <1>0
    <3> QED  BY <1>0, <2>0, <3>1, <3>2, <3>3 DEF Answered
  <2>2. CASE m # n /\ row[m].routine = r
    <3>1. row'[m] = row[m]
      BY <1>4, <2>2
    <3>2. routine'[row'[m].routine].next = later
      BY <2>0, <2>2, <3>1
    <3>3. row[m].slot # None => row[m].slot < later
      BY <1>0, <2>0
    <3> QED  BY <2>0, <3>1, <3>2, <3>3 DEF Answered
  <2>3. CASE m # n /\ row[m].routine # r
    <3>1. row'[m] = row[m]
      BY <1>4, <2>3
    <3>2. row[m].slot # None => routine'[row[m].routine] = routine[row[m].routine]
      BY <1>3, <2>0, <2>3
    <3>3. Answered(m)
      BY DEF CadenceOk
    <3> QED  BY <2>0, <3>1, <3>2, <3>3 DEF Answered
  <2> QED  BY <2>1, <2>2, <2>3
<1>6. ASSUME NEW m \in Runs \ {n}, row[m].routine = r PROVE row[m].slot # next
  <2>1. Answered(m)
    BY DEF CadenceOk
  <2> QED  BY <1>0, <1>6, <2>1 DEF Answered, next
<1>7. FiredOncePerSlot'
  BY <1>0, <1>4, <1>6 DEF CadenceOk, FiredOncePerSlot
<1>8. \A other \in due' : other \in RoutineIds /\ routine'[other].next # None /\ routine'[other].next <= now'
  BY <1>3 DEF CadenceOk
<1> QED  BY <1>0, <1>3, <1>5, <1>7, <1>8 DEF CadenceOk

(* A run that was asked for answers no instant, and leaves the cadence.     *)
LEMMA CadenceAside ==
    ASSUME CadenceOk, RowTypes, NEW n \in Runs, NEW r \in RoutineIds, NEW status, UNCHANGED <<now, due>>,
           row' = [row EXCEPT ![n] = [routine |-> r, status |-> status, slot |-> None]],
           routine' = [routine EXCEPT ![r].next = routine[r].next]
    PROVE  CadenceOk'
<1>1. routine' = routine
  BY DEF CadenceOk, RoutineStates
<1>2. row'[n].slot = None /\ \A m \in Runs \ {n} : row'[m] = row[m]
  BY DEF RowTypes
<1>3. ASSUME NEW m \in Runs PROVE Answered(m)'
  <2>1. Answered(m)
    BY DEF CadenceOk
  <2> QED  BY <1>1, <1>2, <2>1 DEF Answered
<1>4. FiredOncePerSlot'
  BY <1>2 DEF CadenceOk, FiredOncePerSlot
<1> QED  BY <1>1, <1>3, <1>4 DEF CadenceOk

(* Requests keep the cadence in order.                                      *)
LEMMA CadenceRequested ==
    ASSUME CadenceOk, RowTypes, RequestNext
    PROVE  CadenceOk'
<1>0. now \in Nat /\ now + 1 \in Nat /\ routine \in [RoutineIds -> RoutineStates]
  BY DEF CadenceOk
<1>1. ASSUME NEW r \in RoutineIds, Create(r) PROVE CadenceOk'
  <2> DEFINE x == [fate |-> "kept", enabled |-> TRUE, next |-> now + 1]
  <2>1. x \in RoutineStates /\ x.next = now + 1
    BY <1>0 DEF RoutineStates
  <2>2. /\ routine' = [routine EXCEPT ![r] = x]
        /\ SlotsKept /\ due = {} /\ UNCHANGED <<now, due>>
    BY <1>1 DEF Create, NextRun, Serving, SlotsKept, worldVars
  <2> HIDE DEF x
  <2> QED  BY <2>1, <2>2, CadenceEdited
<1>2. ASSUME NEW r \in RoutineIds, Remove(r) PROVE CadenceOk'
  <2> DEFINE x == [NewRoutine EXCEPT !.fate = "removed"]
  <2>1. x \in RoutineStates /\ x.next = None
    BY DEF RoutineStates, NewRoutine
  <2>2. routine' = [routine EXCEPT ![r] = x] /\ due = {} /\ UNCHANGED <<now, due>>
    BY <1>2 DEF Remove, Serving, worldVars
  <2>3. SlotsKept
    BY <1>2 DEF Remove, SlotsKept, RowTypes
  <2> HIDE DEF x
  <2> QED  BY <2>1, <2>2, <2>3, CadenceEdited
<1>3. ASSUME NEW r \in RoutineIds, NEW enabled \in BOOLEAN, Update(r, enabled) PROVE CadenceOk'
  <2> DEFINE next == IF enabled THEN now + 1 ELSE None
             x == [routine[r] EXCEPT !.enabled = enabled, !.next = next]
  <2>1. next \in Nat \cup {None} /\ (next = None \/ next = now + 1)
    BY <1>0
  <2>2. /\ routine' = [routine EXCEPT ![r] = x]
        /\ SlotsKept /\ due = {} /\ UNCHANGED <<now, due>>
    BY <1>0, <1>3 DEF Update, NextRun, Serving, SlotsKept, worldVars
  <2> HIDE DEF next
  <2>3. x \in RoutineStates /\ x.next = next
    BY <1>0, <2>1 DEF RoutineStates
  <2> HIDE DEF x
  <2> QED  BY <2>1, <2>2, <2>3, CadenceEdited
<1>4. ASSUME NEW n \in Runs, NEW r \in RoutineIds, RunNow(n, r) PROVE CadenceOk'
  <2> DEFINE status == IF Full(r) THEN "skipped" ELSE "running"
  <2>1. /\ row' = [row EXCEPT ![n] = [routine |-> r, status |-> status, slot |-> None]]
        /\ routine' = [routine EXCEPT ![r].next = routine[r].next] /\ UNCHANGED <<now, due>>
    BY <1>4 DEF RunNow, Fire, Admit, worldVars
  <2> HIDE DEF status
  <2> QED  BY <2>1, CadenceAside
<1>5. CASE Shutdown \/ \E r \in RoutineIds : Stop(r)
  <2>1. SlotsKept /\ UNCHANGED <<routine, now, due>>
    BY <1>5 DEF Shutdown, Stop, SlotsKept, worldVars
  <2> QED  BY <1>0, <2>1, CadenceKept DEF CadenceOk
<1> QED  BY <1>1, <1>2, <1>3, <1>4, <1>5 DEF RequestNext

(* So do the passes over the schedule, at boot and while serving.           *)
LEMMA CadencePassed ==
    ASSUME CadenceOk, RowTypes, PollTicks \/ PassProgress
    PROVE  CadenceOk'
<1>0. now \in Nat
  BY DEF CadenceOk
<1>1. CASE PollTicks \/ Boots
  <2>1. SlotsKept /\ UNCHANGED <<routine, now>> /\ due' = {r \in RoutineIds : IsDue(r)}
    BY <1>1 DEF PollTicks, Boots, SlotsKept, worldVars
  <2> QED  BY <1>0, <2>1, CadenceKept DEF IsDue
<1>2. CASE \/ Exits \/ BootEnds
           \/ \E r \in RoutineIds : PollPassesOver(r)
  <2>1. SlotsKept /\ UNCHANGED <<routine, now>> /\ due' \subseteq due
    BY <1>2 DEF Exits, BootEnds, PollPassesOver, SlotsKept, worldVars
  <2> QED  BY <1>0, <2>1, CadenceKept DEF CadenceOk
<1>3. ASSUME NEW n \in Runs, NEW r \in RoutineIds, PollFires(n, r) PROVE CadenceOk'
  <2> DEFINE status == IF Full(r) THEN "skipped" ELSE "running"
  <2>1. /\ r \in due /\ UNCHANGED now /\ due' = due \ {r}
        /\ row' = [row EXCEPT ![n] = [routine |-> r, status |-> status, slot |-> routine[r].next]]
        /\ routine' = [routine EXCEPT ![r].next = NextRun(now)]
    BY <1>3 DEF PollFires, Fire, Admit, worldVars
  <2> HIDE DEF status
  <2> QED  BY <2>1, CadenceFires
<1>4. ASSUME NEW n \in Runs, NEW r \in RoutineIds, BootSkips(n, r) PROVE CadenceOk'
  <2>1. /\ r \in due /\ UNCHANGED now /\ due' = due \ {r}
        /\ row' = [row EXCEPT ![n] = [routine |-> r, status |-> "skipped", slot |-> routine[r].next]]
        /\ routine' = [routine EXCEPT ![r].next = NextRun(now)]
    BY <1>4 DEF BootSkips, Admit, worldVars
  <2> QED  BY <2>1, CadenceFires
<1> QED  BY <1>1, <1>2, <1>3, <1>4 DEF PassProgress

(* And so does every step.                                                  *)
LEMMA CadenceStep ==
    ASSUME CadenceOk, RowTypes, [Next]_vars
    PROVE  CadenceOk'
<1>0. now \in Nat
  BY DEF CadenceOk
<1>1. CASE ClockAdvances \/ RuntimeCrashes
  <2>1. SlotsKept /\ UNCHANGED routine /\ now' \in Nat /\ now' >= now /\ (due' = due \/ due' = {})
    BY <1>0, <1>1 DEF ClockAdvances, RuntimeCrashes, SlotsKept, serviceVars
  <2> QED  BY <2>1, CadenceKept DEF CadenceOk
<1>2. CASE DaemonCrashes \/ DaemonStarts \/ UNCHANGED vars
  <2>1. SlotsKept /\ UNCHANGED <<routine, now, due>>
    BY <1>2 DEF DaemonCrashes, DaemonStarts, SlotsKept, vars, serviceVars, worldVars
  <2> QED  BY <1>0, <2>1, CadenceKept DEF CadenceOk
<1>3. ASSUME NEW n \in Runs, PollRecords(n) \/ PollLaunches(n) PROVE CadenceOk'
  <2>1. UNCHANGED <<routine, now, due>>
    BY <1>3 DEF PollRecords, PollLaunches, worldVars
  <2>2. PICK status : row' = row \/ row' = [row EXCEPT ![n].status = status]
    BY <1>3 DEF PollRecords, PollLaunches
  <2>3. SlotsKept
    BY <2>2 DEF SlotsKept, RowTypes
  <2> QED  BY <1>0, <2>1, <2>3, CadenceKept DEF CadenceOk
<1>4. ASSUME NEW n \in Runs, OwnerProgress(n) \/ Acknowledge(n, FALSE) \/ WriteStop(n, FALSE) PROVE CadenceOk'
  <2>1. CASE PollRecords(n) \/ PollLaunches(n)
    BY <1>3, <2>1
  <2>2. CASE ~(PollRecords(n) \/ PollLaunches(n))
    <3>1. UNCHANGED <<routine, row, now, due>>
      BY <1>4, <2>2 DEF OwnerProgress, PollInspects, PrepareEnds, LaunchDescribes, LaunchAsks, LaunchEnds,
                        InspectAsks, InspectReads, Acknowledge, WriteStop, worldVars
    <3> QED  BY <1>0, <3>1, CadenceKept DEF CadenceOk, SlotsKept
  <2> QED  BY <2>1, <2>2
<1>5. ASSUME NEW n \in Runs,
             DaemonTakes(n) \/ DaemonCloses(n) \/ DaemonActs(n) \/ HostProgress(n) \/ Dies(n)
      PROVE  CadenceOk'
  <2>1. UNCHANGED <<routine, row, now, due>>
    BY <1>5 DEF DaemonTakes, DaemonCloses, DaemonActs, HostProgress, GuardActs, HostClaims, HostFindsStop,
                HostExecutes, HostScriptEnds, HostSaves, HostExits, WatchdogEnds, Dies, serviceVars, worldVars
  <2> QED  BY <1>0, <2>1, CadenceKept DEF CadenceOk, SlotsKept
<1> QED  BY <1>1, <1>2, <1>4, <1>5, CadenceRequested, CadencePassed DEF Next

(* Nothing has been fired.                                                  *)
LEMMA FirstCadence == Init => CadenceOk
<1> SUFFICES ASSUME Init PROVE CadenceOk
  OBVIOUS
<1>1. NewRoutine \in RoutineStates /\ NewRow.slot = None
  BY DEF NewRoutine, RoutineStates, NewRow
<1>2. now = 0 /\ due = {} /\ routine \in [RoutineIds -> RoutineStates] /\ \A n \in Runs : row[n].slot = None
  BY <1>1 DEF Init
<1> QED  BY <1>2 DEF CadenceOk, Answered, FiredOncePerSlot

-----------------------------------------------------------------------------
(* The three invariants hold together: a step of the runtime needs that a   *)
(* host reported dead is over, and that only known routines are fired.      *)
THEOREM RunsHold == Spec => [](HostsOk /\ RunsOk /\ CadenceOk)
<1>1. Init => HostsOk /\ RunsOk /\ CadenceOk
  BY HostsOkInit, FirstRuns, FirstCadence DEF Init
<1>2. HostsOk /\ RunsOk /\ CadenceOk /\ [Next]_vars => (HostsOk /\ RunsOk /\ CadenceOk)'
  <2> SUFFICES ASSUME HostsOk, RunsOk, CadenceOk, [Next]_vars PROVE HostsOk' /\ RunsOk' /\ CadenceOk'
    OBVIOUS
  <2>1. RunsOk' /\ (HostStep \/ UNCHANGED hostVars)
    BY NextAccords DEF Accords
  <2>2. CadenceOk'
    BY CadenceStep DEF RunsOk
  <2> QED  BY <2>1, <2>2, HostsOkStep
<1> QED  BY <1>1, <1>2, PTL DEF Spec

(* The command of a run is started at most once (retained_host.rs claims    *)
(* the run before it executes; hosts.rs never launches it again), for any   *)
(* number of crashes of the runtime, the daemon and the hosts.              *)
THEOREM ScriptsExecuteOnce == Spec => []ExecutedOnce
<1>1. RunsOk => ExecutedOnce
  BY DEF RunsOk, RunOk, ScriptOk, ExecutedOnce
<1> QED  BY <1>1, RunsHold, PTL

(* No two rows of the history answer the same scheduled instant             *)
(* (repository.admit writes the row and the cadence in one transaction),    *)
(* however often the runtime crashes, boots and skips.                      *)
THEOREM SlotsFireOnce == Spec => []FiredOncePerSlot
<1>1. CadenceOk => FiredOncePerSlot
  BY DEF CadenceOk
<1> QED  BY <1>1, RunsHold, PTL

(* What the runtime is said to lose sight of is what was never in sight.    *)
LEMMA InSight ==
    ASSUME HostsOk, RunsOk, NEW n \in Runs \ OutOfSight
    PROVE  n \in Hosts /\ process[n].escaped = FALSE /\ LaunchOk(n)
<1>1. HostsTypeOK /\ HostOk(n) /\ RunOk(n) /\ n \in Hosts
  BY RunTypes DEF HostsOk, Runs
<1>2. n \notin former /\ ~Escaped(n)
  BY DEF OutOfSight
<1>3. process[n].escaped \in BOOLEAN
  BY <1>1, HostTypes DEF Process
<1> QED  BY <1>1, <1>2, <1>3, EscapedIsMarked DEF RunOk

(* The result that the script host saved is the one in the history          *)
(* (Hosts::execute reads the file only of a host that is over), unless the  *)
(* launch request outlived the runtime that sent it, or the script escaped  *)
(* its guardian in process-group mode.                                      *)
THEOREM ResultsAreRecorded == Spec => []SavedResultIsRecorded
<1>1. HostsOk /\ RunsOk => SavedResultIsRecorded
  <2> SUFFICES ASSUME HostsOk, RunsOk, NEW n \in Runs \ OutOfSight, files[n].result # None, row[n].status \in Outcomes
               PROVE  row[n].status = files[n].result
    BY DEF SavedResultIsRecorded
  <2> QED  BY InSight DEF LaunchOk
<1> QED  BY <1>1, RunsHold, PTL

(* A script that executes is one the history shows as running (poll decides *)
(* a run only when its host is over), with the same exceptions.             *)
THEOREM ExecutionsAreKnown == Spec => []ExecutingIsRunning
<1>1. HostsOk /\ RunsOk => ExecutingIsRunning
  <2> SUFFICES ASSUME HostsOk, RunsOk, NEW n \in Runs \ OutOfSight, Executing(n)
               PROVE  row[n].status = "running"
    BY DEF ExecutingIsRunning
  <2>1. n \in Hosts /\ process[n].escaped = FALSE /\ LaunchOk(n)
    BY InSight
  <2>2. ~Ceased(n)
    BY <2>1, CeasedIsEmpty DEF Executing
  <2> QED  BY <2>1, <2>2 DEF LaunchOk, Decided
<1> QED  BY <1>1, RunsHold, PTL
=============================================================================
