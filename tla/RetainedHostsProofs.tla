------------------------- MODULE RetainedHostsProofs -------------------------
(***************************************************************************)
(* What every user of RetainedHosts may rely on: a host that is reported    *)
(* dead is over, and a host is started at most once.  RetainedHosts has no  *)
(* specification of its own, so the results are about any step that a user  *)
(* can take with it (HostStep); Daemon and Routines take only such steps.   *)
(***************************************************************************)
EXTENDS RetainedHosts, TLAPS

(* A step that concerns one host, and the end of the daemon, which frees    *)
(* the locks of all its launches.                                           *)
StepOf(h) ==
    \/ \E readiness \in {"unsupported", "pending"}, contained \in BOOLEAN :
          LaunchReserves(h, readiness, contained)
    \/ LaunchSpawns(h) \/ LaunchFails(h)
    \/ GuardNext(h) \/ GuardDies(h) \/ GuardFails(h)
    \/ ChildReady(h) \/ (\E left \in BOOLEAN : ChildExits(h, left)) \/ GroupEmpties(h)
    \/ StopMarks(h) \/ (\E unhandled \in BOOLEAN : StopSignals(h, unhandled)) \/ StopKills(h)
    \/ MaintainNext(h)

HostStep == LaunchesAbandoned \/ \E h \in Hosts : StepOf(h)

(* What the records and the processes of one host have to do with each      *)
(* other.  A reservation without a guardian, a guardian that has not        *)
(* claimed, one that has, and the end each exclude the others; what is left *)
(* after a recorded end escaped a guardian without an identity for it.      *)
Unborn(h) == process[h].group = "empty" /\ process[h].started = 0

HostOk(h) ==
    /\ record[h].state = "absent" => process[h].guard = "none" /\ h \notin launching
    /\ h \in launching => record[h].state = "starting" /\ process[h].guard = "none"
    /\ process[h].guard \in {"none", "spawned"} => Unborn(h) /\ record[h].guard = FALSE /\ record[h].child = FALSE
    /\ process[h].guard = "spawned" => record[h].state = "starting"
    /\ process[h].guard \in Owning => record[h].guard = TRUE /\ record[h].state \in {"starting", "running"}
    /\ process[h].guard = "guarding" => Unborn(h) /\ record[h].child = FALSE
    /\ process[h].guard = "recording" => record[h].child = FALSE
    /\ record[h].child = TRUE => process[h].known = TRUE
    /\ record[h].state = "exited" =>
          (process[h].group = "empty" \/ process[h].escaped = TRUE) /\ process[h].guard \in {"none", "gone"}
    /\ process[h].escaped = TRUE => record[h].state = "exited" /\ record[h].contained = FALSE /\ process[h].known = FALSE
    /\ process[h].started \in {0, 1}

HostsOk == HostsTypeOK /\ \A h \in Hosts : HostOk(h)

OtherHostsKept(h) ==
    \A g \in Hosts \ {h} : /\ record'[g] = record[g] /\ process'[g] = process[g]
                           /\ g \in launching' <=> g \in launching

(* A host is over when its end is recorded, or when it lies in a control    *)
(* group that is empty while its guardian, once recorded, is gone.  A step  *)
(* starts a host at most once, keeps what is over, and forgets nothing.     *)
IsOver(rec, proc) ==
    \/ rec.state = "exited"
    \/ /\ rec.state # "absent" /\ rec.contained = TRUE /\ rec.guard = TRUE
       /\ proc.group = "empty" /\ proc.guard = "gone"

(* Something of a host runs in reach, or a guardian of it is on the way.    *)
AtWork(proc) == (proc.group # "empty" /\ proc.escaped = FALSE) \/ proc.guard \notin {"none", "gone"}
Busy(h) == AtWork(process[h]) \/ h \in launching

PhaseStep(h) ==
    /\ AtWork(process'[h]) => AtWork(process[h]) \/ h \in launching
    /\ record'[h].state = "absent" => record[h].state = "absent"
    /\ process[h].escaped = TRUE => process'[h].escaped = TRUE
    /\ IsOver(record[h], process[h]) => IsOver(record'[h], process'[h])
    /\ record[h].state = "absent" /\ record'[h].state # "absent" => ~IsOver(record'[h], process'[h])
    /\ \/ process'[h].started = process[h].started
       \/ /\ process[h].started = 0 /\ process'[h].started = 1 /\ record[h].state # "absent"
          /\ ~IsOver(record[h], process[h]) /\ ~IsOver(record'[h], process'[h])

Advances(h) == HostsTypeOK' /\ OtherHostsKept(h) /\ HostOk(h)' /\ PhaseStep(h)

(* The records and processes of one host in types.                          *)
LEMMA HostTypes ==
    ASSUME HostsTypeOK, NEW h \in Hosts
    PROVE  /\ record[h] \in Record /\ process[h] \in Process
           /\ record \in [Hosts -> Record] /\ process \in [Hosts -> Process] /\ launching \subseteq Hosts
BY DEF HostsTypeOK

(* A step replaces the record, the process, or both, of its host.           *)
LEMMA Replaced ==
    ASSUME HostsTypeOK, NEW h \in Hosts, NEW rec \in Record, NEW proc \in Process,
           record' = [record EXCEPT ![h] = rec], process' = [process EXCEPT ![h] = proc],
           launching' \in {launching, launching \cup {h}, launching \ {h}}
    PROVE  /\ HostsTypeOK' /\ OtherHostsKept(h) /\ record'[h] = rec /\ process'[h] = proc
BY DEF HostsTypeOK, OtherHostsKept

(* The daemon's side of a launch.                                           *)
LEMMA LaunchStep ==
    ASSUME HostsTypeOK, NEW h \in Hosts, HostOk(h),
           \/ \E readiness \in {"unsupported", "pending"}, contained \in BOOLEAN :
                 LaunchReserves(h, readiness, contained)
           \/ LaunchSpawns(h) \/ LaunchFails(h)
    PROVE  Advances(h)
<1>0. record[h] \in Record /\ process[h] \in Process
  BY HostTypes
<1>1. ASSUME NEW readiness \in {"unsupported", "pending"}, NEW contained \in BOOLEAN,
             LaunchReserves(h, readiness, contained)
      PROVE  Advances(h)
  <2> DEFINE rec == [NoRecord EXCEPT !.state = "starting", !.readiness = readiness, !.contained = contained]
  <2>1. rec \in Record /\ rec.state = "starting" /\ rec.guard = FALSE /\ rec.child = FALSE
    BY DEF NoRecord, Record, States
  <2>2. /\ record' = [record EXCEPT ![h] = rec] /\ process' = [process EXCEPT ![h] = process[h]]
        /\ launching' = launching \cup {h} /\ record[h].state = "absent" /\ UNCHANGED process
    BY <1>1, HostTypes DEF LaunchReserves, CanLaunch
  <2> HIDE DEF rec
  <2>3. HostsTypeOK' /\ OtherHostsKept(h) /\ record'[h] = rec /\ process'[h] = process[h]
    BY <1>0, <2>1, <2>2, Replaced
  <2> QED  BY <1>0, <2>1, <2>2, <2>3 DEF Advances, HostOk, Unborn, Owning, PhaseStep, IsOver, AtWork
<1>2. CASE LaunchSpawns(h)
  <2> DEFINE proc == [process[h] EXCEPT !.guard = "spawned"]
  <2>1. /\ proc \in Process /\ proc.guard = "spawned" /\ proc.group = process[h].group /\ proc.started = process[h].started
        /\ proc.known = process[h].known /\ proc.escaped = process[h].escaped
    BY <1>0 DEF Process
  <2>2. /\ process' = [process EXCEPT ![h] = proc] /\ record' = [record EXCEPT ![h] = record[h]]
        /\ launching' = launching \ {h} /\ h \in launching
    BY <1>2, HostTypes DEF LaunchSpawns
  <2> HIDE DEF proc
  <2>3. HostsTypeOK' /\ OtherHostsKept(h) /\ record'[h] = record[h] /\ process'[h] = proc
    BY <1>0, <2>1, <2>2, Replaced
  <2> QED  BY <1>0, <2>1, <2>2, <2>3 DEF Advances, HostOk, Unborn, Owning, PhaseStep, IsOver, AtWork
<1>3. CASE LaunchFails(h)
  <2> DEFINE rec == [record[h] EXCEPT !.state = "exited"]
  <2>1. /\ rec \in Record /\ rec.state = "exited" /\ rec.guard = record[h].guard /\ rec.child = record[h].child
        /\ rec.contained = record[h].contained
    BY <1>0 DEF Record, States
  <2>2. /\ record' = [record EXCEPT ![h] = rec] /\ process' = [process EXCEPT ![h] = process[h]]
        /\ launching' = launching \ {h} /\ h \in launching
    BY <1>3, HostTypes DEF LaunchFails
  <2> HIDE DEF rec
  <2>3. HostsTypeOK' /\ OtherHostsKept(h) /\ record'[h] = rec /\ process'[h] = process[h]
    BY <1>0, <2>1, <2>2, Replaced
  <2> QED  BY <1>0, <2>1, <2>2, <2>3 DEF Advances, HostOk, Unborn, Owning, PhaseStep, IsOver, AtWork
<1> QED  BY <1>1, <1>2, <1>3

(* A step that only changes the process.                                    *)
LEMMA ProcessReplaced ==
    ASSUME HostsTypeOK, NEW h \in Hosts, NEW proc \in Process,
           process' = [process EXCEPT ![h] = proc], UNCHANGED <<record, launching>>
    PROVE  /\ HostsTypeOK' /\ OtherHostsKept(h) /\ record'[h] = record[h] /\ process'[h] = proc
           /\ h \in launching' <=> h \in launching
BY DEF HostsTypeOK, OtherHostsKept

(* A step that only changes the record.                                     *)
LEMMA RecordReplaced ==
    ASSUME HostsTypeOK, NEW h \in Hosts, NEW rec \in Record,
           record' = [record EXCEPT ![h] = rec], UNCHANGED <<process, launching>>
    PROVE  /\ HostsTypeOK' /\ OtherHostsKept(h) /\ record'[h] = rec /\ process'[h] = process[h]
           /\ h \in launching' <=> h \in launching
BY DEF HostsTypeOK, OtherHostsKept

(* A guardian on its way to a running child.                                *)
LEMMA GuardStarts ==
    ASSUME HostsTypeOK, NEW h \in Hosts, HostOk(h),
           GuardClaims(h) \/ GuardSpawns(h) \/ GuardCannotSpawn(h) \/ GuardRecords(h) \/ GuardNotesReady(h)
    PROVE  Advances(h)
<1> DEFINE old == record[h]
           was == process[h]
<1>0. old \in Record /\ was \in Process
  BY HostTypes
<1> USE DEF HostOk, Unborn, Owning, PhaseStep, IsOver, Advances, AtWork
<1>1. CASE GuardClaims(h)
  <2> DEFINE rec == [old EXCEPT !.guard = TRUE]
             proc == [was EXCEPT !.guard = "guarding"]
  <2>1. /\ rec \in Record /\ rec.guard = TRUE /\ rec.state = old.state /\ rec.child = old.child
        /\ rec.contained = old.contained
        /\ proc \in Process /\ proc.guard = "guarding" /\ proc.group = was.group /\ proc.started = was.started
        /\ proc.known = was.known /\ proc.escaped = was.escaped
    BY <1>0 DEF Record, Process, Owning
  <2>2. /\ record' = [record EXCEPT ![h] = rec] /\ process' = [process EXCEPT ![h] = proc]
        /\ launching' = launching /\ was.guard = "spawned" /\ h \notin launching
    BY <1>1, HostTypes DEF GuardClaims, SetGuard, LockFree
  <2> HIDE DEF rec, proc
  <2>3. HostsTypeOK' /\ OtherHostsKept(h) /\ record'[h] = rec /\ process'[h] = proc
    BY <1>0, <2>1, <2>2, Replaced
  <2> QED  BY <1>0, <2>1, <2>2, <2>3
<1>2. CASE GuardSpawns(h)
  <2> DEFINE count == was.started + 1
             proc == [was EXCEPT !.guard = "recording", !.group = "child", !.started = count]
  <2>0. count \in Nat
    BY <1>0 DEF Process
  <2>2. /\ process' = [process EXCEPT ![h] = proc] /\ UNCHANGED <<record, launching>> /\ was.guard = "guarding"
    BY <1>2, HostTypes DEF GuardSpawns
  <2> HIDE DEF count
  <2>1. /\ proc \in Process /\ proc.guard = "recording" /\ proc.group = "child" /\ proc.started = count
        /\ proc.known = was.known /\ proc.escaped = was.escaped
    BY <1>0, <2>0 DEF Process, Owning
  <2> HIDE DEF proc
  <2>3. /\ HostsTypeOK' /\ OtherHostsKept(h) /\ record'[h] = old /\ process'[h] = proc
        /\ h \in launching' <=> h \in launching
    BY <2>1, <2>2, ProcessReplaced
  <2> QED  BY <1>0, <2>1, <2>2, <2>3 DEF count
<1>3. CASE GuardCannotSpawn(h)
  <2> DEFINE proc == [was EXCEPT !.guard = "ending"]
  <2>1. /\ proc \in Process /\ proc.guard = "ending" /\ proc.group = was.group /\ proc.started = was.started
        /\ proc.known = was.known /\ proc.escaped = was.escaped
    BY <1>0 DEF Process, Owning
  <2>2. /\ process' = [process EXCEPT ![h] = proc] /\ UNCHANGED <<record, launching>> /\ was.guard = "guarding"
    BY <1>3, HostTypes DEF GuardCannotSpawn, SetGuard
  <2> HIDE DEF proc
  <2>3. /\ HostsTypeOK' /\ OtherHostsKept(h) /\ record'[h] = old /\ process'[h] = proc
        /\ h \in launching' <=> h \in launching
    BY <2>1, <2>2, ProcessReplaced
  <2> QED  BY <1>0, <2>1, <2>2, <2>3
<1>4. CASE GuardRecords(h)
  <2> DEFINE found == was.group = "child"
             rec == [old EXCEPT !.child = found, !.state = "running"]
             proc == [was EXCEPT !.guard = "watching", !.known = found]
  <2>0. found \in BOOLEAN
    OBVIOUS
  <2>2. /\ record' = [record EXCEPT ![h] = rec] /\ process' = [process EXCEPT ![h] = proc]
        /\ launching' = launching /\ was.guard = "recording"
    BY <1>4, HostTypes DEF GuardRecords
  <2> HIDE DEF found
  <2>1. /\ rec \in Record /\ rec.guard = old.guard /\ rec.state = "running" /\ rec.child = found
        /\ rec.contained = old.contained
        /\ proc \in Process /\ proc.guard = "watching" /\ proc.group = was.group /\ proc.started = was.started
        /\ proc.known = found /\ proc.escaped = was.escaped
    BY <1>0, <2>0 DEF Record, States, Process, Owning
  <2> HIDE DEF rec, proc
  <2>3. HostsTypeOK' /\ OtherHostsKept(h) /\ record'[h] = rec /\ process'[h] = proc
    BY <1>0, <2>1, <2>2, Replaced
  <2> QED  BY <1>0, <2>0, <2>1, <2>2, <2>3
<1>5. CASE GuardNotesReady(h)
  <2> DEFINE rec == [old EXCEPT !.readiness = "ready"]
  <2>1. /\ rec \in Record /\ rec.guard = old.guard /\ rec.state = old.state /\ rec.child = old.child
        /\ rec.contained = old.contained
    BY <1>0 DEF Record
  <2>2. record' = [record EXCEPT ![h] = rec] /\ UNCHANGED <<process, launching>>
    BY <1>5, HostTypes DEF GuardNotesReady
  <2> HIDE DEF rec
  <2>3. /\ HostsTypeOK' /\ OtherHostsKept(h) /\ record'[h] = rec /\ process'[h] = was
        /\ h \in launching' <=> h \in launching
    BY <2>1, <2>2, RecordReplaced
  <2> QED  BY <1>0, <2>1, <2>2, <2>3
<1> QED  BY <1>1, <1>2, <1>3, <1>4, <1>5

(* Whatever shrinks the group, ends the guardian, or lets one that has a    *)
(* child stop to watch it.                                                  *)
LEMMA ProcessAside ==
    ASSUME HostsTypeOK, NEW h \in Hosts, HostOk(h), NEW proc \in Process,
           process' = [process EXCEPT ![h] = proc], UNCHANGED <<record, launching>>,
           proc.started = process[h].started, proc.escaped = process[h].escaped,
           proc.known = process[h].known \/ process[h].guard = "recording",
           \/ proc.group = process[h].group \/ proc.group = "empty"
           \/ process[h].group = "child" /\ proc.group = "descendants",
           \/ proc.guard = process[h].guard
           \/ process[h].guard \in Owning \cup {"spawned"} /\ proc.guard = "gone"
           \/ process[h].guard \in {"recording", "watching"} /\ proc.guard = "ending"
    PROVE  Advances(h)
<1>1. /\ HostsTypeOK' /\ OtherHostsKept(h) /\ record'[h] = record[h] /\ process'[h] = proc
      /\ h \in launching' <=> h \in launching
  BY ProcessReplaced
<1>2. record[h] \in Record /\ process[h] \in Process
  BY HostTypes
<1>3. HostOk(h)'
  BY <1>1, <1>2 DEF HostOk, Unborn, Owning
<1>4. PhaseStep(h)
  BY <1>1, <1>2 DEF HostOk, Unborn, Owning, PhaseStep, IsOver, AtWork
<1> QED  BY <1>1, <1>3, <1>4 DEF Advances

(* A step that leaves everything as it is.                                  *)
LEMMA StillAdvances ==
    ASSUME HostsTypeOK, NEW h \in Hosts, HostOk(h), UNCHANGED <<record, process, launching>>
    PROVE  Advances(h)
<1>1. HostsTypeOK' /\ OtherHostsKept(h) /\ HostOk(h)' /\ process'[h] = process[h]
  BY DEF HostsTypeOK, OtherHostsKept, HostOk, Unborn
<1> QED  BY <1>1 DEF Advances, PhaseStep

(* Guardians that end, deaths, and what children and stops do to the group. *)
LEMMA ProcessStep ==
    ASSUME HostsTypeOK, NEW h \in Hosts, HostOk(h),
           \/ GuardKills(h) \/ GuardSeesExit(h) \/ GuardTerminates(h) \/ GuardDies(h) \/ GuardFails(h)
           \/ ChildReady(h) \/ (\E left \in BOOLEAN : ChildExits(h, left)) \/ GroupEmpties(h)
           \/ (\E unhandled \in BOOLEAN : StopSignals(h, unhandled)) \/ StopKills(h)
    PROVE  Advances(h)
<1> DEFINE was == process[h]
           emptied == [was EXCEPT !.group = "empty"]
           left == [was EXCEPT !.group = "descendants"]
           ending == [was EXCEPT !.guard = "ending"]
           failed(found) == [was EXCEPT !.guard = "ending", !.known = found]
           died == [was EXCEPT !.guard = "gone", !.told = FALSE]
           signalled == [was EXCEPT !.guard = "gone"]
           told == [was EXCEPT !.told = TRUE]
           ready == [was EXCEPT !.marker = TRUE]
<1>0. was \in Process /\ process \in [Hosts -> Process]
  BY HostTypes
<1>1. /\ {emptied, left, ending, died, signalled, told, ready} \subseteq Process
      /\ \A proc \in {emptied, left, ending, died, signalled, told, ready} : proc.started = was.started
      /\ \A proc \in {emptied, left, ending, died, signalled, told, ready} :
            proc.known = was.known /\ proc.escaped = was.escaped
      /\ emptied.guard = was.guard /\ emptied.group = "empty"
      /\ left.guard = was.guard /\ left.group = "descendants"
      /\ ending.guard = "ending" /\ ending.group = was.group
      /\ died.guard = "gone" /\ died.group = was.group
      /\ signalled.guard = "gone" /\ signalled.group = was.group
      /\ told.guard = was.guard /\ told.group = was.group
      /\ ready.guard = was.guard /\ ready.group = was.group
  BY <1>0 DEF Process, Owning
<1>11. ASSUME NEW found \in BOOLEAN
       PROVE  /\ failed(found) \in Process /\ failed(found).started = was.started
              /\ failed(found).guard = "ending" /\ failed(found).group = was.group /\ failed(found).escaped = was.escaped
  BY <1>0 DEF Process, Owning
<1>2. \/ UNCHANGED process
      \/ process' = [process EXCEPT ![h] = emptied]
      \/ process' = [process EXCEPT ![h] = left] /\ was.group = "child"
      \/ process' = [process EXCEPT ![h] = ending] /\ was.guard = "watching"
      \/ \E found \in BOOLEAN : process' = [process EXCEPT ![h] = failed(found)] /\ was.guard = "recording"
      \/ process' = [process EXCEPT ![h] = died] /\ was.guard \in Owning \cup {"spawned"}
      \/ process' = [process EXCEPT ![h] = signalled] /\ was.guard \in Owning
      \/ process' = [process EXCEPT ![h] = told]
      \/ process' = [process EXCEPT ![h] = ready]
  BY DEF GuardKills, GuardSeesExit, SetGuard, GuardTerminates, GuardDies, GuardFails, ChildReady, ChildExits, GroupEmpties,
         StopSignals, GuardAlive, StopKills
<1>3. UNCHANGED <<record, launching>>
  BY DEF GuardKills, GuardSeesExit, SetGuard, GuardTerminates, GuardDies, GuardFails, ChildReady, ChildExits, GroupEmpties,
         StopSignals, StopKills
<1> HIDE DEF emptied, left, ending, failed, died, signalled, told, ready
<1>4. CASE UNCHANGED process
  BY <1>3, <1>4, StillAdvances
<1>5. CASE process' = [process EXCEPT ![h] = emptied]
  BY <1>1, <1>3, <1>5, ProcessAside
<1>6. CASE process' = [process EXCEPT ![h] = left] /\ was.group = "child"
  BY <1>1, <1>3, <1>6, ProcessAside
<1>7. CASE process' = [process EXCEPT ![h] = ending] /\ was.guard = "watching"
  BY <1>1, <1>3, <1>7, ProcessAside
<1>8. CASE process' = [process EXCEPT ![h] = died] /\ was.guard \in Owning \cup {"spawned"}
  BY <1>1, <1>3, <1>8, ProcessAside
<1>9. CASE process' = [process EXCEPT ![h] = signalled] /\ was.guard \in Owning
  BY <1>1, <1>3, <1>9, ProcessAside
<1>10. CASE process' = [process EXCEPT ![h] = told] \/ process' = [process EXCEPT ![h] = ready]
  BY <1>1, <1>3, <1>10, ProcessAside
<1>12. ASSUME NEW found \in BOOLEAN, process' = [process EXCEPT ![h] = failed(found)], was.guard = "recording"
       PROVE  Advances(h)
  BY <1>3, <1>11, <1>12, ProcessAside
<1> QED  BY <1>2, <1>4, <1>5, <1>6, <1>7, <1>8, <1>9, <1>10, <1>12

(* The end of a host is recorded when its guardian sees nothing of it any   *)
(* more; marks and compaction change nothing of what a report is made of.   *)
LEMMA RecordStep ==
    ASSUME HostsTypeOK, NEW h \in Hosts, HostOk(h),
           GuardRecordsExit(h) \/ StopMarks(h) \/ MaintainNext(h)
    PROVE  Advances(h)
<1> DEFINE old == record[h]
           was == process[h]
<1>0. old \in Record /\ was \in Process
  BY HostTypes
<1> USE DEF HostOk, Unborn, Owning, PhaseStep, IsOver, Advances, AtWork
<1>1. CASE GuardRecordsExit(h)
  <2> DEFINE rec == [old EXCEPT !.state = "exited", !.child = was.known]
             left == was.group # "empty"
             proc == [was EXCEPT !.guard = "gone", !.told = FALSE, !.escaped = left]
  <2>0. left \in BOOLEAN /\ was.known \in BOOLEAN
    BY <1>0 DEF Process
  <2>2. /\ record' = [record EXCEPT ![h] = rec] /\ process' = [process EXCEPT ![h] = proc]
        /\ launching' = launching /\ was.guard = "ending"
    BY <1>1, HostTypes DEF GuardRecordsExit
  <2>4. left = TRUE => old.contained = FALSE /\ was.known = FALSE
    <3>1. old.contained \in BOOLEAN /\ was.known \in BOOLEAN
      BY <1>0 DEF Record, Process
    <3>2. ~(was.group # "empty" /\ (old.contained \/ was.known))
      BY <1>1 DEF GuardRecordsExit, Seen
    <3> QED  BY <3>1, <3>2
  <2>5. left = FALSE => was.group = "empty"
    OBVIOUS
  <2> HIDE DEF left
  <2>1. /\ rec \in Record /\ rec.guard = old.guard /\ rec.state = "exited" /\ rec.child = was.known
        /\ rec.contained = old.contained
        /\ proc \in Process /\ proc.guard = "gone" /\ proc.group = was.group /\ proc.started = was.started
        /\ proc.known = was.known /\ proc.escaped = left
    BY <1>0, <2>0 DEF Record, States, Process
  <2> HIDE DEF rec, proc
  <2>3. HostsTypeOK' /\ OtherHostsKept(h) /\ record'[h] = rec /\ process'[h] = proc
    BY <1>0, <2>1, <2>2, Replaced
  <2> QED  BY <1>0, <2>0, <2>1, <2>2, <2>3, <2>4, <2>5
<1>2. CASE StopMarks(h)
  <2> DEFINE rec == [old EXCEPT !.stop = TRUE]
  <2>1. /\ rec \in Record /\ rec.guard = old.guard /\ rec.state = old.state /\ rec.child = old.child
        /\ rec.contained = old.contained
    BY <1>0 DEF Record
  <2>2. record' = [record EXCEPT ![h] = rec] /\ UNCHANGED <<process, launching>>
    BY <1>2, HostTypes DEF StopMarks
  <2> HIDE DEF rec
  <2>3. /\ HostsTypeOK' /\ OtherHostsKept(h) /\ record'[h] = rec /\ process'[h] = was
        /\ h \in launching' <=> h \in launching
    BY <2>1, <2>2, RecordReplaced
  <2> QED  BY <1>0, <2>1, <2>2, <2>3
<1>3. CASE MaintainOrphan(h)
  <2> DEFINE rec == [old EXCEPT !.lost = TRUE]
             emptied == [was EXCEPT !.group = "empty"]
             proc == IF old.contained THEN emptied ELSE was
  <2>1. /\ rec \in Record /\ rec.guard = old.guard /\ rec.state = old.state /\ rec.child = old.child
        /\ rec.contained = old.contained
        /\ emptied \in Process /\ emptied.guard = was.guard /\ emptied.group = "empty"
        /\ emptied.started = was.started /\ emptied.known = was.known /\ emptied.escaped = was.escaped
    BY <1>0 DEF Record, Process
  <2>2. /\ record' = [record EXCEPT ![h] = rec] /\ process' = [process EXCEPT ![h] = proc]
        /\ launching' = launching
    BY <1>3, HostTypes DEF MaintainOrphan
  <2>3. /\ proc \in Process /\ proc.guard = was.guard /\ proc.group \in {was.group, "empty"} /\ proc.started = was.started
        /\ proc.known = was.known /\ proc.escaped = was.escaped
    BY <1>0, <2>1
  <2> HIDE DEF rec, proc, emptied
  <2>4. HostsTypeOK' /\ OtherHostsKept(h) /\ record'[h] = rec /\ process'[h] = proc
    BY <1>0, <2>1, <2>2, <2>3, Replaced
  <2> QED  BY <1>0, <2>1, <2>2, <2>3, <2>4
<1>4. CASE MaintainConfirmsEnd(h)
  <2> DEFINE rec == [old EXCEPT !.lost = TRUE, !.state = "exited"]
  <2>1. /\ rec \in Record /\ rec.guard = old.guard /\ rec.state = "exited" /\ rec.child = old.child
        /\ rec.contained = old.contained
    BY <1>0 DEF Record, States
  <2>2. record' = [record EXCEPT ![h] = rec] /\ UNCHANGED <<process, launching>>
    BY <1>4, HostTypes DEF MaintainConfirmsEnd
  <2>3. was.group = "empty" /\ was.guard = "gone"
    <3>1. old.guard = TRUE /\ was.guard \notin Owning /\ was.group = "empty"
      BY <1>0, <1>4 DEF MaintainConfirmsEnd, Maintainable, LockFree, Populated, NoUnrecordedChild, Record
    <3> QED  BY <1>0, <3>1 DEF Process
  <2> HIDE DEF rec
  <2>4. /\ HostsTypeOK' /\ OtherHostsKept(h) /\ record'[h] = rec /\ process'[h] = was
        /\ h \in launching' <=> h \in launching
    BY <2>1, <2>2, RecordReplaced
  <2> QED  BY <1>0, <2>1, <2>2, <2>3, <2>4
<1>5. CASE MaintainCompacts(h)
  <2> DEFINE readiness == IF IsReady(h) THEN "ready" ELSE old.readiness
             rec == [old EXCEPT !.guard = FALSE, !.child = FALSE, !.stop = FALSE, !.compacted = TRUE,
                                !.readiness = readiness]
             proc == [was EXCEPT !.marker = FALSE]
  <2>1. readiness \in {"unsupported", "pending", "ready"}
    BY <1>0 DEF Record
  <2>2. /\ record' = [record EXCEPT ![h] = rec] /\ process' = [process EXCEPT ![h] = proc]
        /\ launching' = launching /\ old.state = "exited"
    BY <1>5, HostTypes DEF MaintainCompacts, CompactRecord
  <2> HIDE DEF readiness
  <2>3. /\ rec \in Record /\ rec.guard = FALSE /\ rec.state = old.state /\ rec.child = FALSE
        /\ rec.contained = old.contained
        /\ proc \in Process /\ proc.guard = was.guard /\ proc.group = was.group /\ proc.started = was.started
        /\ proc.known = was.known /\ proc.escaped = was.escaped
    BY <1>0, <2>1 DEF Record, Process
  <2> HIDE DEF rec, proc
  <2>4. HostsTypeOK' /\ OtherHostsKept(h) /\ record'[h] = rec /\ process'[h] = proc
    BY <1>0, <2>2, <2>3, Replaced
  <2> QED  BY <1>0, <2>2, <2>3, <2>4
<1> QED  BY <1>1, <1>2, <1>3, <1>4, <1>5 DEF MaintainNext

(* Every step of a host keeps its record and its processes in accord.       *)
LEMMA HostAdvances ==
    ASSUME HostsOk, NEW h \in Hosts, StepOf(h)
    PROVE  Advances(h)
<1>1. HostsTypeOK /\ HostOk(h)
  BY DEF HostsOk
<1> QED  BY <1>1, LaunchStep, GuardStarts, ProcessStep, RecordStep DEF StepOf, GuardNext

(* The lost locks of a crashed daemon change no record and no process.      *)
LEMMA AbandonedStep ==
    ASSUME HostsOk, LaunchesAbandoned
    PROVE  HostsOk' /\ UNCHANGED <<record, process>>
BY DEF HostsOk, HostsTypeOK, LaunchesAbandoned, HostOk, Unborn

(* HostsOk is inductive for everybody who uses the hosts.                   *)
LEMMA HostsOkStep ==
    ASSUME HostsOk, HostStep \/ UNCHANGED hostVars
    PROVE  HostsOk'
<1>1. CASE UNCHANGED hostVars
  BY <1>1 DEF hostVars, HostsOk, HostsTypeOK, HostOk, Unborn
<1>2. CASE LaunchesAbandoned
  BY <1>2, AbandonedStep
<1>3. ASSUME NEW h \in Hosts, StepOf(h) PROVE HostsOk'
  <2>1. HostsTypeOK' /\ OtherHostsKept(h) /\ HostOk(h)'
    BY <1>3, HostAdvances DEF Advances
  <2>2. ASSUME NEW g \in Hosts \ {h} PROVE HostOk(g)'
    <3>1. HostOk(g) /\ record'[g] = record[g] /\ process'[g] = process[g] /\ (g \in launching' <=> g \in launching)
      BY <2>1 DEF HostsOk, OtherHostsKept
    <3> QED  BY <3>1 DEF HostOk, Unborn
  <2> QED  BY <2>1, <2>2 DEF HostsOk
<1> QED  BY <1>1, <1>2, <1>3 DEF HostStep

(* Before any launch no host has a record, a process or a lock.             *)
LEMMA HostsOkInit == HostsInit => HostsOk
<1> SUFFICES ASSUME HostsInit PROVE HostsOk
  OBVIOUS
<1>1. NoRecord \in Record /\ NoProcess \in Process
  BY DEF NoRecord, Record, States, NoProcess, Process, Owning
<1>2. /\ HostsTypeOK
      /\ \A h \in Hosts : record[h] = NoRecord /\ process[h] = NoProcess /\ h \notin launching
  BY <1>1 DEF HostsInit, HostsTypeOK
<1>3. /\ NoRecord.state = "absent" /\ NoRecord.guard = FALSE /\ NoRecord.child = FALSE
      /\ NoProcess.guard = "none" /\ NoProcess.group = "empty" /\ NoProcess.started = 0
      /\ NoProcess.escaped = FALSE
  BY DEF NoRecord, NoProcess
<1> QED  BY <1>2, <1>3 DEF HostsOk, HostOk, Unborn, Owning

(* What describe answers, in terms of the record and the processes.         *)
LEMMA DeadIsOver ==
    ASSUME HostsTypeOK, NEW h \in Hosts, HostOk(h)
    PROVE  (record[h].state # "absent" /\ ~Alive(h)) <=> IsOver(record[h], process[h])
<1>1. record[h] \in Record /\ process[h] \in Process
  BY HostTypes
<1>2. /\ Populated(h) <=> process[h].group # "empty" /\ (record[h].contained = TRUE \/ record[h].child = TRUE)
      /\ GuardAlive(h) <=> record[h].guard = TRUE /\ process[h].guard \in Owning
      /\ (record[h].contained /\ record[h].guard) <=> record[h].contained = TRUE /\ record[h].guard = TRUE
  BY <1>1 DEF Populated, GuardAlive, Record
<1>3. record[h].state \in {"absent", "starting", "running", "exited"}
  BY <1>1 DEF Record, States
<1>4. Alive(h) <=> /\ record[h].state # "absent"
                   /\ \/ Populated(h) \/ GuardAlive(h)
                      \/ record[h].state # "exited" /\ ~(record[h].contained /\ record[h].guard)
  BY DEF Alive, HostState
<1>5. process[h].guard \in {"none", "spawned", "gone"} \cup Owning
  BY <1>1 DEF Process
<1> QED  BY <1>2, <1>3, <1>4, <1>5 DEF IsOver, HostOk, Owning, Unborn

(* The same after a step.                                                   *)
LEMMA DeadIsOverNext ==
    ASSUME HostsTypeOK', NEW h \in Hosts, HostOk(h)'
    PROVE  (record'[h].state # "absent" /\ ~Alive(h)') <=> IsOver(record'[h], process'[h])
<1>1. record'[h] \in Record /\ process'[h] \in Process
  BY DEF HostsTypeOK
<1>2. /\ Populated(h)' <=> process'[h].group # "empty" /\ (record'[h].contained = TRUE \/ record'[h].child = TRUE)
      /\ GuardAlive(h)' <=> record'[h].guard = TRUE /\ process'[h].guard \in Owning
      /\ (record'[h].contained /\ record'[h].guard) <=> record'[h].contained = TRUE /\ record'[h].guard = TRUE
  BY <1>1 DEF Populated, GuardAlive, Record
<1>3. record'[h].state \in {"absent", "starting", "running", "exited"}
  BY <1>1 DEF Record, States
<1>4. Alive(h)' <=> /\ record'[h].state # "absent"
                    /\ \/ Populated(h)' \/ GuardAlive(h)'
                       \/ record'[h].state # "exited" /\ ~(record'[h].contained /\ record'[h].guard)
  BY DEF Alive, HostState
<1>5. process'[h].guard \in {"none", "spawned", "gone"} \cup Owning
  BY <1>1 DEF Process
<1> QED  BY <1>2, <1>3, <1>4, <1>5 DEF IsOver, HostOk, Owning, Unborn

(* What escaped is what was left by a guardian that recorded the end.       *)
LEMMA EscapedIsMarked ==
    ASSUME HostsTypeOK, NEW h \in Hosts, HostOk(h)
    PROVE  Escaped(h) <=> process[h].escaped = TRUE
<1>1. record[h] \in Record /\ process[h] \in Process
  BY HostTypes
<1> QED  BY <1>1 DEF HostOk, Escaped, Record, Process

(* A report of death is trustworthy in every state that HostsOk describes.  *)
LEMMA ReportIsTrue == HostsOk => ReportedDeadIsOver
<1> SUFFICES ASSUME HostsOk, NEW h \in Hosts, record[h].state # "absent", ~Alive(h)
             PROVE  /\ process[h].group = "empty" \/ Escaped(h)
                    /\ process[h].guard \in {"none", "gone"} /\ h \notin launching
  BY DEF ReportedDeadIsOver
<1>1. HostsTypeOK /\ HostOk(h)
  BY DEF HostsOk
<1>2. IsOver(record[h], process[h])
  BY <1>1, DeadIsOver
<1>3. process[h].escaped = TRUE => Escaped(h)
  BY <1>1 DEF HostOk, Escaped
<1> QED  BY <1>1, <1>2, <1>3 DEF IsOver, HostOk

(* Nothing comes to life but by a launch.                                   *)
LEMMA NoneRevived ==
    ASSUME HostsOk, NEW h \in Hosts, StepOf(h)
    PROVE  /\ \A g \in Hosts \ {h} : Busy(g)' => Busy(g)
           /\ launching' \subseteq launching => \A g \in Hosts : Busy(g)' => Busy(g)
<1>1. OtherHostsKept(h) /\ PhaseStep(h)
  BY HostAdvances DEF Advances
<1>2. \A g \in Hosts \ {h} : Busy(g)' => Busy(g)
  BY <1>1 DEF OtherHostsKept, Busy
<1>3. launching' \subseteq launching => (Busy(h)' => Busy(h))
  BY <1>1 DEF PhaseStep, Busy
<1> QED  BY <1>2, <1>3
=============================================================================
