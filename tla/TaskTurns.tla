----------------------------- MODULE TaskTurns -----------------------------
(***************************************************************************)
(* The life of one Palmagent-owned task in the web process of a package     *)
(* installation: its message queue (MessageController), the turns it runs   *)
(* (TaskService) and what of the executions' journals reaches the product   *)
(* database.                                                               *)
(*                                                                         *)
(* JavaScript runs a request to its end without interleaving, but every     *)
(* commit is a point at which the process can die.  A request is therefore  *)
(* its first commit plus `agenda`, the commits it still has to make: while  *)
(* the agenda is not empty nothing else happens in the web, except that it  *)
(* crashes.  Only the two awaits of the code give other requests a turn:    *)
(* resolving the skills of a new turn (`waiting`) and delivering a message  *)
(* into a running one (`steers`).                                          *)
(*                                                                         *)
(* Executions go on while the web is down.  ExecutionSystem says how they   *)
(* do; here one is reserved, starts, journals what the product shows, and   *)
(* ends.                                                                   *)
(***************************************************************************)
EXTENDS MessageQueue

CONSTANTS
    WithSkills,     \* messages that select skills
    Scenarios,      \* sets of request kinds, ends of an execution and faults that occur together
    MaxRuns,        \* bound on runs
    MaxCrashes,     \* bound on web crashes
    MaxFaults       \* bound on failing store calls

ASSUME TurnsAssumption ==
    /\ WithSkills \subseteq Messages
    /\ Scenarios \subseteq SUBSET
          {"send", "queue", "promote", "delete", "edit", "resume", "stop", "cancel", "archive", "followup",
           "steer", "compact", "update", "skills", "question", "completed", "failed", "lost", "silent",
           "crash", "fault", "admission"}
    /\ MaxRuns \in Nat \ {0} /\ MaxCrashes \in Nat /\ MaxFaults \in Nat

VARIABLES
    task,       \* the row of the tasks table
    queue,      \* the row of task_message_state
    shown,      \* the product's event log: <<execution, sequence number>> of every entry
    control,    \* the control row of the execution store
    execs,      \* executions of the task, in order of reservation
    runs,       \* run ids given out
    web,        \* "up", "down", or "refused" when init threw
    updating,   \* maintenance
    handle,     \* supervisor.get(task): the execution of the turn, 0 for none
    view,       \* the backend's ExecutionHandle for the task
    waiting,    \* turns waiting for their skills
    steers,     \* messages on their way into a running turn
    agenda,     \* commits the current request still has to make
    crashes, faults,
    scenario    \* the scenario of this behaviour: a bound, not a state of the program

product == <<task, queue, shown>>
memory == <<handle, view, waiting, steers, agenda>>
bounds == <<crashes, faults, scenario>>
vars == <<task, queue, shown, control, execs, runs, web, updating, handle, view, waiting, steers,
          agenda, crashes, faults, scenario>>

-----------------------------------------------------------------------------
Status == {"none", "queued", "running", "awaiting_input", "idle", "failed", "cancelled", "archived"}
InFlight == {"queued", "running", "awaiting_input"}
Closed == {"cancelled", "archived"}

Receipt == {"none", "accepted", "delivered", "rejected", "unknown"}
Event(kind, m) == [kind |-> kind, message |-> m]

(* What runTurn carries along: the message, the content it had when it was  *)
(* taken, and the compaction request.                                       *)
Turn(m, version, request) == [message |-> m, version |-> version, request |-> request]
Turns == [message : Messages \cup {None}, version : 1..MaxVersion, request : Compactions \cup {None}]
Plain == Turn(None, 1, None)

(* Completed and failed: with a result.  Lost: an error or an abnormal exit *)
(* without one.  Silent: a normal exit without one.                         *)
Outcomes == {"completed", "failed", "lost", "silent"}
Exec == [state : {"queued", "running", "ended"}, turn : Turns, stopped : BOOLEAN,
         outcome : Outcomes \cup {"none"},
         journal : Seq([kind : {"queued", "started", "delivered", "question", "resolved"},
                        message : Messages \cup {None}]),
         sends : [Messages -> Receipt]]

NoView == [exec |-> 0, cursor |-> 0, baseline |-> 0, listening |-> FALSE]

Do(op) == [op |-> op]
Open(op, turn) == [op |-> op, turn |-> turn]
Opening(turn) == <<Open("reset", turn), Open("run", turn), Open("arm", turn), Open("reserve", turn)>>

TypeOK ==
    /\ task \in [status : Status, pending : BOOLEAN, rawSeq : Nat, worktree : BOOLEAN]
    /\ queue \in Queue
    /\ \A i \in DOMAIN queue.messages, j \in DOMAIN queue.messages :
          queue.messages[i].id = queue.messages[j].id => i = j
    /\ shown \in Seq(Nat \X Nat)
    /\ control \in [stopping : BOOLEAN, steer : BOOLEAN, restart : BOOLEAN]
    /\ execs \in Seq(Exec)
    /\ runs \in 0..MaxRuns
    /\ web \in {"up", "down", "refused"}
    /\ updating \in BOOLEAN
    /\ handle \in 0..Len(execs)
    /\ view \in [exec : 0..Len(execs), cursor : Nat, baseline : Nat, listening : BOOLEAN]
    /\ waiting \subseteq [run : 1..MaxRuns, turn : Turns]
    /\ steers \subseteq [message : Messages, exec : 1..Len(execs), phase : {"resolving", "sent"}]
    /\ crashes \in 0..MaxCrashes
    /\ faults \in 0..MaxFaults
    /\ scenario \in Scenarios

Init ==
    /\ task = [status |-> "none", pending |-> FALSE, rawSeq |-> 0, worktree |-> TRUE]
    /\ queue = EmptyQueue
    /\ shown = <<>>
    /\ control = [stopping |-> FALSE, steer |-> FALSE, restart |-> FALSE]
    /\ execs = <<>>
    /\ runs = 0
    /\ web = "up"
    /\ updating = FALSE
    /\ handle = 0
    /\ view = NoView
    /\ waiting = {}
    /\ steers = {}
    /\ agenda = <<>>
    /\ crashes = 0
    /\ faults = 0
    /\ scenario \in Scenarios

-----------------------------------------------------------------------------
(* Guards                                                                   *)

Idle == web = "up" /\ agenda = <<>>
Asked(kind) == kind \in scenario
Exists == task.status # "none"

Budget == runs < MaxRuns        \* the bound on runs, not a guard of the code
CanStart == Budget /\ ~updating /\ task.status \in {"idle", "failed"} /\ handle = 0
Writable == ~updating /\ Exists /\ ~Compacting(queue) /\ task.status \notin Closed

Last == execs[Len(execs)]
Has(e, event) == event \in Elements(execs[e].journal)
LiveExec == execs # <<>> /\ Last.state # "ended"

Request(steps) == agenda' = steps /\ UNCHANGED <<runs, web, updating, handle, view, waiting, steers, bounds>>

-----------------------------------------------------------------------------
(* Requests                                                                 *)

CreateTask(skills) ==
    /\ Idle /\ ~Exists /\ ~updating
    /\ task' = [task EXCEPT !.status = "queued"]
    /\ Request(<<[op |-> "begin", turn |-> Plain, skills |-> skills]>>)
    /\ UNCHANGED <<queue, shown, control, execs>>

SubmitAgain(m, mode) ==
    /\ Idle /\ Asked(mode) /\ Writable
    /\ CanSubmit(queue, mode, CanStart)
    /\ queue' = Submit(queue, m, mode)
    /\ Request(IF mode = "send" THEN <<[op |-> "sendNow", message |-> m]>> ELSE <<Do("pump")>>)
    /\ UNCHANGED <<task, shown, control, execs>>
SubmitMessage(m, mode) ==
    /\ Idle /\ Asked(mode) /\ Writable
    /\ m \notin Ids(queue)
    /\ CanSubmit(queue, mode, CanStart)
    /\ queue' = Submit(queue, m, mode)
    /\ Request(IF mode = "send" THEN <<[op |-> "sendNow", message |-> m]>> ELSE <<Do("pump")>>)
    /\ UNCHANGED <<task, shown, control, execs>>

Promote(m) ==
    /\ Idle /\ Asked("promote") /\ Writable
    /\ CanPromote(queue, m)
    /\ CanSendNow(queue, CanStart)
    /\ queue' = SendNow(queue, m)
    /\ Request(<<[op |-> IF queue.run = 0 THEN "start" ELSE "steer", message |-> m]>>)
    /\ UNCHANGED <<task, shown, control, execs>>

(* delete, edit, save and release all end in the same save and pump.        *)
Change(kind, q) ==
    /\ Idle /\ Asked(kind) /\ Writable
    /\ queue' = q
    /\ Request(<<Do("pump")>>)
    /\ UNCHANGED <<task, shown, control, execs>>

DeleteMessage(m) == CanDelete(queue, m) /\ Change("delete", Delete(queue, m))
EditMessage(m, token) == CanEdit(queue, m, token) /\ Change("edit", Edit(queue, m, token))
SaveMessage(m, token) ==
    /\ CanClose(queue, m, token) /\ Entry(queue, m).version < MaxVersion
    /\ Change("edit", CloseEdit(queue, m, TRUE))
ReleaseMessage(m, token) == CanClose(queue, m, token) /\ Change("edit", CloseEdit(queue, m, FALSE))

Resume ==
    /\ queue.paused /\ ~Some(queue, {"unknown", "sending"})
    /\ Change("resume", [queue EXCEPT !.paused = FALSE])

(* EDIT_MS passes without a renewal.                                        *)
HoldLapses(m) ==
    /\ Idle /\ m \in Ids(queue) /\ Entry(queue, m).held
    /\ queue' = Expire(queue, m)
    /\ Request(<<>>)
    /\ UNCHANGED <<task, shown, control, execs>>

Stop ==
    /\ Idle /\ Asked("stop") /\ Exists /\ task.status \notin Closed
    /\ queue' = Paused(queue)
    /\ Request(IF handle # 0 THEN <<Do("dropSteer"), Do("stopping"), Do("interrupt")>>
               ELSE IF task.status = "queued" THEN <<Do("dequeue"), Do("stopWaiting")>> ELSE <<>>)
    /\ UNCHANGED <<task, shown, control, execs>>

Cancel ==
    /\ Idle /\ Asked("cancel") /\ Exists /\ task.status \notin Closed
    /\ queue' = Paused(queue)
    /\ Request(<<Do("dropSteer"), Do("cancelled")>>)
    /\ UNCHANGED <<task, shown, control, execs>>

ArchiveRunning ==
    /\ Idle /\ Asked("archive") /\ Exists /\ task.status # "archived"
    /\ queue' = Paused(queue)
    /\ Request(<<Do("archived"), Do("cleanup")>>)
    /\ UNCHANGED <<task, shown, control, execs>>
Archive ==
    /\ Idle /\ Asked("archive") /\ Exists /\ task.status # "archived"
    /\ ~Compacting(queue)
    /\ handle = 0
    /\ queue' = Paused(queue)
    /\ Request(<<Do("archived"), Do("cleanup")>>)
    /\ UNCHANGED <<task, shown, control, execs>>

(* The clients of earlier versions: followup, and a steer that is injected  *)
(* (no state), run as a follow-up, or kept for the end of the turn; one that*)
(* changes the settings also interrupts the turn.                           *)
Followup ==
    /\ Idle /\ Asked("followup") /\ CanStart
    /\ Request(<<[op |-> "begin", turn |-> Plain, skills |-> FALSE]>>)
    /\ UNCHANGED <<product, control, execs>>

LegacySteer(restart) ==
    /\ Idle /\ Asked("steer") /\ handle # 0 /\ ~Compacting(queue)
    /\ control' = [control EXCEPT !.steer = TRUE]
    /\ Request(IF restart THEN <<Do("restart"), Do("interruptSteered")>> ELSE <<>>)
    /\ UNCHANGED <<product, execs>>

Compact(request) ==
    /\ Idle /\ Asked("compact")
    /\ queue.compaction.request # request                      \* a retry reads the receipt
    /\ \A e \in DOMAIN execs : execs[e].turn.request # request  \* or has an old revision
    /\ ~Compacting(queue) /\ queue.run = 0 /\ Unresolved(queue) = {}
    /\ CanStart
    /\ \E e \in DOMAIN execs : Has(e, Event("started", None))   \* the session is known
    /\ Request(<<[op |-> "begin", turn |-> Turn(None, 1, request), skills |-> FALSE]>>)
    /\ UNCHANGED <<product, control, execs>>

(* The interval of the controller.                                          *)
Timer ==
    /\ Idle /\ CanPump(queue, CanStart)
    /\ Request(<<Do("pump")>>)
    /\ UNCHANGED <<product, control, execs>>

Maintenance ==
    /\ Idle /\ Asked("update")
    /\ updating' = ~updating
    /\ UNCHANGED <<product, control, execs, runs, web, memory, bounds>>

-----------------------------------------------------------------------------
(* Agenda: what is left of a request, one commit at a time                  *)

Now == Head(agenda)
Doing(op) == web = "up" /\ agenda # <<>> /\ Now.op = op
Then(steps) == agenda' = steps \o Tail(agenda)
Skip == UNCHANGED <<web, updating, waiting, steers, bounds>>
Fault(kind) == Asked(kind) /\ faults < MaxFaults /\ faults' = faults + 1

(* A commit to one table and nothing else.                                  *)
CommitTask(op, row, steps) ==
    /\ Doing(op) /\ task' = row /\ Then(steps)
    /\ Skip /\ UNCHANGED <<queue, shown, control, execs, runs, handle, view>>
CommitQueue(op, row, steps) ==
    /\ Doing(op) /\ queue' = row /\ Then(steps)
    /\ Skip /\ UNCHANGED <<task, shown, control, execs, runs, handle, view>>
CommitControl(op, row) ==
    /\ Doing(op) /\ control' = row /\ Then(<<>>)
    /\ Skip /\ UNCHANGED <<product, execs, runs, handle, view>>

Transition(status) == [task EXCEPT !.status = status]

Pump ==
    \/ /\ CanPump(queue, CanStart)
       /\ LET m == NextQueued(queue)
          IN  CommitQueue("pump", Take(queue, m), <<[op |-> "start", message |-> m]>>)
    \/ /\ ~CanPump(queue, CanStart)
       /\ CommitQueue("pump", queue, <<>>)

SendMessageNow ==
    CommitQueue("sendNow", SendNow(queue, Now.message),
                <<[op |-> IF queue.run = 0 THEN "start" ELSE "steer", message |-> Now.message]>>)

(* host.start captures the message, or throws.                              *)
Start ==
    /\ Doing("start")
    /\ Then(<<[op |-> "begin", turn |-> Turn(Now.message, Entry(queue, Now.message).version, None),
               skills |-> Now.message \in WithSkills]>>)
    /\ Skip /\ UNCHANGED <<product, control, execs, runs, handle, view>>

StartThrows ==
    /\ Doing("start") /\ Fault("fault")
    /\ queue' = StartRefused(queue, Now.message)
    /\ Then(<<>>)
    /\ UNCHANGED <<task, shown, control, execs, runs, web, updating, handle, view, waiting, steers, crashes, scenario>>

(* runTurn up to the await                                                  *)
Begin ==
    /\ Doing("begin")
    /\ runs' = runs + 1
    /\ queue' = BeginRun(queue, runs', Now.turn.message, Now.turn.request)
    /\ Then(IF Now.skills THEN <<[op |-> "park", turn |-> Now.turn]>> ELSE Opening(Now.turn))
    /\ Skip /\ UNCHANGED <<task, shown, control, execs, handle, view>>

Park ==
    /\ Doing("park")
    /\ task' = Transition("queued")
    /\ waiting' = waiting \cup {[run |-> queue.run, turn |-> Now.turn]}
    /\ Then(<<>>)
    /\ UNCHANGED <<queue, shown, control, execs, runs, web, updating, handle, view, steers, bounds>>

(* startTurnNow: the cursor, the status and the mark that the runtime may   *)
(* have been reached are commits of the product database; the reservation   *)
(* is one of the execution store.                                           *)
ResetCursor ==
    /\ Doing("reset")
    /\ task' = [task EXCEPT !.rawSeq = 0]
    /\ view' = [view EXCEPT !.baseline = 0]
    /\ Then(<<>>)
    /\ Skip /\ UNCHANGED <<queue, shown, control, execs, runs, handle>>

SetRunning == CommitTask("run", Transition("running"), <<>>)
ArmRuntime == CommitQueue("arm", StartingRuntime(queue), <<>>)

SameMessage(turn) == LiveExec /\ Last.turn.message = turn.message /\ turn.message # None

NewExec(turn) == [state |-> "queued", turn |-> turn, stopped |-> FALSE, outcome |-> "none",
                  journal |-> <<Event("queued", None)>>, sends |-> [m \in Messages |-> "none"]]

Watch(exec, baseline, listening) ==
    view' = [exec |-> exec, cursor |-> 0, baseline |-> baseline, listening |-> listening]

Reserve ==
    /\ Doing("reserve")
    /\ ~LiveExec \/ SameMessage(Now.turn)
    /\ execs' = IF LiveExec THEN execs ELSE Append(execs, NewExec(Now.turn))
    /\ handle' = Len(execs')
    /\ Watch(Len(execs'), 0, TRUE)
    /\ Then(<<>>)
    /\ Skip /\ UNCHANGED <<product, control, runs>>

(* The catch: a live execution owns the task, or the store call fails.      *)
ReserveThrows ==
    /\ Doing("reserve")
    /\ \/ LiveExec /\ ~SameMessage(Now.turn) /\ UNCHANGED faults
       \/ Fault("fault")
    /\ handle' = 0
    /\ Then(<<Do("fail"), Do("finishFailed")>>)
    /\ UNCHANGED <<product, control, execs, runs, web, updating, view, waiting, steers, crashes, scenario>>

(* The same catch, but it is admitExecutions that throws: the execution is  *)
(* reserved and the backend watches it, with nobody listening for its end.  *)
AdmitThrows ==
    /\ Doing("reserve") /\ Fault("admission")
    /\ ~LiveExec
    /\ execs' = Append(execs, NewExec(Now.turn))
    /\ handle' = 0
    /\ Watch(Len(execs'), 0, FALSE)
    /\ Then(<<Do("fail"), Do("finishFailed")>>)
    /\ UNCHANGED <<product, control, runs, web, updating, waiting, steers, crashes, scenario>>

SetFailed == CommitTask("fail", Transition("failed"), <<>>)
FinishFailed == CommitQueue("finishFailed", Finish(queue, TRUE), <<>>)
Reject == CommitQueue("reject", RejectBeforeStart(queue), <<>>)

(* stop                                                                     *)
SetStopping == CommitControl("stopping", [control EXCEPT !.stopping = TRUE])
Dequeue == CommitTask("dequeue", Transition("idle"), <<>>)
StopParked == CommitQueue("stopWaiting", StopWaiting(queue), <<>>)

(* interrupt or cancel: a command for a running execution; one that has not *)
(* started ends at once.                                                    *)
End(exec, outcome) ==
    [exec EXCEPT !.state = "ended", !.outcome = outcome,
                 !.sends = [m \in Messages |-> IF @[m] = "accepted" THEN "unknown" ELSE @[m]]]
InterruptedBeforeStart(exec) == IF exec.state = "queued" THEN End([exec EXCEPT !.stopped = TRUE], "lost") ELSE exec
Interrupted(exec) == LET asked == [exec EXCEPT !.stopped = TRUE]
                     IN  IF exec.state = "queued" THEN End(asked, "lost") ELSE asked

Interrupt ==
    /\ Doing("interrupt")
    /\ execs' = [execs EXCEPT ![handle] = Interrupted(@)]
    /\ Then(<<>>)
    /\ Skip /\ UNCHANGED <<product, control, runs, handle, view>>

(* cancel                                                                   *)
DropSteer == CommitControl("dropSteer", [control EXCEPT !.steer = FALSE])

SetCancelled ==
    CommitTask("cancelled", Transition("cancelled"),
               IF handle # 0 THEN <<Do("interrupt")>>
               ELSE IF Compacting(queue) THEN <<Do("stopWaiting"), Do("cleanup")>> ELSE <<Do("cleanup")>>)

SetArchived == CommitTask("archived", Transition("archived"), <<>>)
Cleanup == CommitTask("cleanup", [task EXCEPT !.worktree = FALSE], <<>>)

(* a legacy steer that changes the settings                                 *)
SetRestart == CommitControl("restart", [control EXCEPT !.restart = TRUE])
InterruptSteered ==
    /\ Doing("interruptSteered")
    /\ \/ execs[handle].state = "running" /\ UNCHANGED control
       \/ control' = [control EXCEPT !.restart = FALSE]
    /\ Then(<<>>)
    /\ Skip /\ UNCHANGED <<product, execs, runs, handle, view>>

-----------------------------------------------------------------------------
(* The await of runTurn.  release(taskId) drops whatever handle the         *)
(* supervisor has for the task.                                             *)

CurrentOrNot(w) == TRUE
Current(w) == queue.run = w.run

SkillsResolve(w) ==
    /\ Idle /\ w \in waiting
    /\ waiting' = waiting \ {w}
    /\ IF Current(w) /\ task.status \notin Closed
       THEN agenda' = Opening(w.turn) /\ UNCHANGED handle
       ELSE handle' = 0 /\ UNCHANGED agenda
    /\ UNCHANGED <<product, control, execs, runs, web, updating, view, steers, bounds>>

SkillsFail(w) ==
    /\ Idle /\ w \in waiting
    /\ waiting' = waiting \ {w}
    /\ handle' = 0
    /\ agenda' = IF Current(w) /\ task.status = "queued" THEN <<Do("fail"), Do("reject")>> ELSE <<>>
    /\ UNCHANGED <<product, control, execs, runs, web, updating, view, steers, bounds>>

-----------------------------------------------------------------------------
(* Sending into a running turn                                              *)

Answer(m, result) == [op |-> "answer", message |-> m, result |-> result]
SteerOf(m, exec, phase) == [message |-> m, exec |-> exec, phase |-> phase]

Steerable == task.status = "running" /\ ~control.stopping /\ handle # 0

Steer ==
    /\ Doing("steer")
    /\ IF ~Steerable
       THEN Then(<<Answer(Now.message, "rejected")>>) /\ UNCHANGED steers
       ELSE IF Now.message \in WithSkills
       THEN Then(<<>>) /\ steers' = steers \cup {SteerOf(Now.message, handle, "resolving")}
       ELSE Then(<<[op |-> "handOver", message |-> Now.message, exec |-> handle]>>) /\ UNCHANGED steers
    /\ UNCHANGED <<product, control, execs, runs, web, updating, handle, view, waiting, bounds>>

SteerResolves(s) ==
    /\ Idle /\ s \in steers /\ s.phase = "resolving"
    /\ steers' = steers \ {s}
    /\ \/ agenda' = <<[op |-> "handOver", message |-> s.message, exec |-> s.exec]>>
       \/ agenda' = <<Answer(s.message, "rejected")>>        \* the skill is gone
    /\ UNCHANGED <<product, control, execs, runs, web, updating, handle, view, waiting, bounds>>

SameTurn(exec) == handle = exec /\ task.status = "running"

HandOverToAny ==
    /\ Doing("handOver")
    /\ IF handle # 0 /\ task.status = "running" /\ execs[handle].state = "running"
       THEN /\ execs' = [execs EXCEPT ![handle].sends[Now.message] = "accepted"]
            /\ steers' = steers \cup {SteerOf(Now.message, handle, "sent")}
            /\ Then(<<>>)
       ELSE Then(<<Answer(Now.message, "rejected")>>) /\ UNCHANGED <<execs, steers>>
    /\ UNCHANGED <<product, control, runs, web, updating, handle, view, waiting, bounds>>
HandOver ==
    /\ Doing("handOver")
    /\ LET m == Now.message  e == Now.exec
           accepted == SameTurn(e) /\ execs[e].state = "running"
       IN  IF accepted
           THEN /\ execs' = [execs EXCEPT ![e].sends[m] = "accepted"]
                /\ steers' = steers \cup {SteerOf(m, e, "sent")}
                /\ Then(<<>>)
           ELSE /\ Then(<<Answer(m, "rejected")>>)
                /\ UNCHANGED <<execs, steers>>
    /\ UNCHANGED <<product, control, runs, web, updating, handle, view, waiting, bounds>>

Answered == CommitQueue("answer", SteerAnswered(queue, Now.message, Now.result), <<>>)

CaughtUp == view.exec # 0 /\ view.cursor = Len(execs[view.exec].journal)

(* A final receipt, once the journal up to it is projected; or 15 s passed. *)
ReceiptArrives(s) ==
    /\ Idle /\ s \in steers /\ s.phase = "sent"
    /\ CaughtUp /\ execs[s.exec].sends[s.message] # "accepted"
    /\ steers' = steers \ {s}
    /\ agenda' = <<Answer(s.message, execs[s.exec].sends[s.message])>>
    /\ UNCHANGED <<product, control, execs, runs, web, updating, handle, view, waiting, bounds>>

SendTimesOut(s) ==
    /\ Idle /\ s \in steers /\ s.phase = "sent"
    /\ steers' = steers \ {s}
    /\ agenda' = <<Answer(s.message, "unknown")>>
    /\ UNCHANGED <<product, control, execs, runs, web, updating, handle, view, waiting, bounds>>

-----------------------------------------------------------------------------
(* onRaw: the effect of a journal entry, then the entry itself together     *)
(* with the cursor.  Entries up to the baseline were projected before.      *)

NextEntry == execs[view.exec].journal[view.cursor + 1]

ResolveInput(row) ==
    IF row.pending THEN [row EXCEPT !.pending = FALSE,
                                    !.status = IF @ = "awaiting_input" THEN "running" ELSE @]
    ELSE row

TaskAfter(event) ==
    CASE event.kind = "queued" /\ task.status # "cancelled" -> Transition("queued")
      [] event.kind = "started" /\ task.status # "cancelled" -> Transition("running")
      [] event.kind = "question" ->
            [task EXCEPT !.pending = TRUE, !.status = IF @ = "running" THEN "awaiting_input" ELSE @]
      [] event.kind = "resolved" -> ResolveInput(task)
      [] OTHER -> task

SuppressedOneMore == view.cursor <= view.baseline /\ view.baseline > 0
Suppressed == view.cursor + 1 <= view.baseline

Project ==
    /\ Idle /\ view.exec # 0 /\ ~CaughtUp
    /\ view' = [view EXCEPT !.cursor = @ + 1]
    /\ IF Suppressed THEN UNCHANGED <<task, queue, agenda>>
       ELSE /\ task' = TaskAfter(NextEntry)
            /\ queue' = IF NextEntry.kind = "delivered" THEN Delivered(queue, NextEntry.message) ELSE queue
            /\ agenda' = <<[op |-> "append", exec |-> view.exec, seq |-> view.cursor + 1]>>
    /\ UNCHANGED <<shown, control, execs, runs, web, updating, handle, waiting, steers, bounds>>

AppendEvent ==
    /\ Doing("append")
    /\ shown' = Append(shown, <<Now.exec, Now.seq>>)
    /\ task' = [task EXCEPT !.rawSeq = Now.seq]
    /\ Then(<<>>)
    /\ Skip /\ UNCHANGED <<queue, control, execs, runs, handle, view>>

-----------------------------------------------------------------------------
(* finishTurn.  The handle completes once the execution has ended and its   *)
(* journal is projected; receipts still awaited are answered after it.      *)

SentOn(exec) == {s \in steers : s.phase = "sent" /\ s.exec = exec}

Late(exec) == {Answer(s.message, execs[exec].sends[s.message]) : s \in SentOn(exec)}

TurnEnds ==
    /\ Idle /\ view.listening /\ CaughtUp /\ execs[view.exec].state = "ended"
    /\ handle' = 0
    /\ view' = NoView
    /\ steers' = steers \ SentOn(view.exec)
    /\ task' = [task EXCEPT !.pending = FALSE]
    /\ \E answers \in [1..Cardinality(Late(view.exec)) -> Late(view.exec)] :
          /\ {answers[i] : i \in DOMAIN answers} = Late(view.exec)
          /\ agenda' = <<[op |-> "control", stopped |-> control.stopping, restarted |-> control.restart,
                         outcome |-> execs[view.exec].outcome]>> \o answers
    /\ UNCHANGED <<queue, shown, control, execs, runs, web, updating, waiting, bounds>>

ClearControl ==
    /\ Doing("control")
    /\ control' = [control EXCEPT !.stopping = FALSE, !.restart = FALSE]
    /\ Then(<<[Now EXCEPT !.op = "settle"]>>)
    /\ Skip /\ UNCHANGED <<product, execs, runs, handle, view>>

SettleCancelled ==
    /\ Doing("settle") /\ task.status = "cancelled"
    /\ queue' = IF Compacting(queue) THEN Finish(queue, TRUE) ELSE queue
    /\ Then(<<Do("cleanup")>>)
    /\ Skip /\ UNCHANGED <<task, shown, control, execs, runs, handle, view>>

SettleStopped ==
    /\ Doing("settle") /\ task.status # "cancelled" /\ Now.stopped
    /\ CommitTask("settle", Transition("idle"), <<Do("finishFailed")>>)

TurnFailed(turn) == \/ Compacting(queue) /\ turn.outcome \in {"lost", "silent"}
                    \/ ~turn.restarted /\ turn.outcome \in {"failed", "lost"}

Settle ==
    /\ Doing("settle") /\ task.status # "cancelled" /\ ~Now.stopped
    /\ LET failed == TurnFailed(Now)
       IN  /\ task' = Transition(IF failed THEN "failed" ELSE "idle")
           /\ queue' = Finish(queue, failed)
           /\ Then(IF failed THEN <<>> ELSE IF control.steer /\ Budget THEN <<Do("chain")>> ELSE <<Do("pump")>>)
    /\ Skip /\ UNCHANGED <<shown, control, execs, runs, handle, view>>

Chain ==
    /\ Doing("chain")
    /\ control' = [control EXCEPT !.steer = FALSE]
    /\ Then(<<[op |-> "begin", turn |-> Plain, skills |-> FALSE]>>)
    /\ Skip /\ UNCHANGED <<product, execs, runs, handle, view>>

-----------------------------------------------------------------------------
(* The web dies, and init of the next one.  Any execution of an in-flight   *)
(* task is reattached, whatever its state; without one init throws, and     *)
(* does so again at every restart.                                          *)

Crash ==
    /\ web = "up" /\ Asked("crash") /\ crashes < MaxCrashes
    /\ crashes' = crashes + 1
    /\ web' = "down"
    /\ updating' = FALSE
    /\ handle' = 0 /\ view' = NoView /\ waiting' = {} /\ steers' = {} /\ agenda' = <<>>
    /\ UNCHANGED <<product, control, execs, runs, faults, scenario>>

ReattachedLive == LiveExec /\ task.status \in InFlight \cup {"cancelled"}
Reattached == execs # <<>> /\ task.status \in InFlight \cup {"cancelled"}
Recoverable == task.status \in InFlight => execs # <<>>

BootRefused ==
    /\ web \in {"down", "refused"} /\ ~Recoverable
    /\ web' = "refused"
    /\ UNCHANGED <<product, control, execs, runs, updating, memory, bounds>>

Boot ==
    /\ web = "down" /\ Recoverable
    /\ web' = "up"
    /\ queue' = Recover(queue, Reattached)
    /\ IF Reattached
       THEN handle' = Len(execs) /\ Watch(Len(execs), task.rawSeq, TRUE)
       ELSE UNCHANGED <<handle, view>>
    /\ UNCHANGED <<task, shown, control, execs, runs, updating, waiting, steers, agenda, bounds>>

-----------------------------------------------------------------------------
(* Executions, seen from here: ExecutionSystem models them                  *)

Journal(e, event) == execs' = [execs EXCEPT ![e].journal = Append(@, event)]
Alone == UNCHANGED <<product, control, runs, web, updating, memory, bounds>>

ExecStarts(e) ==
    /\ execs[e].state = "queued"
    /\ execs' = [execs EXCEPT ![e].state = "running", ![e].journal = Append(@, Event("started", None))]
    /\ Alone

(* The journal entry of a delivery and the receipt of its command are taken *)
(* together here; they are two operations of the host's store, in this      *)
(* order (ExecutionSystem has both).                                        *)
ExecDelivers(e, m) ==
    /\ execs[e].state = "running"
    /\ \/ execs[e].turn.message = m /\ ~Has(e, Event("delivered", m)) /\ Journal(e, Event("delivered", m))
       \/ /\ execs[e].sends[m] = "accepted"
          /\ execs' = [execs EXCEPT ![e].sends[m] = "delivered",
                                    ![e].journal = Append(@, Event("delivered", m))]
    /\ Alone

ExecRejects(e, m) ==
    /\ execs[e].sends[m] = "accepted"
    /\ execs' = [execs EXCEPT ![e].sends[m] = "rejected"]
    /\ Alone

ExecAsks(e) ==
    /\ Asked("question") /\ execs[e].state = "running" /\ ~Has(e, Event("question", None))
    /\ Journal(e, Event("question", None)) /\ Alone

ExecResolves(e) ==
    /\ execs[e].state = "running"
    /\ Has(e, Event("question", None)) /\ ~Has(e, Event("resolved", None))
    /\ Journal(e, Event("resolved", None)) /\ Alone

(* One that never started is lost: no result, exit code -1.                 *)
ExecEnds(e) ==
    /\ \/ /\ execs[e].state = "queued"
          /\ execs' = [execs EXCEPT ![e] = End(@, "lost")]
       \/ /\ execs[e].state = "running"
          /\ \E outcome \in Outcomes : Asked(outcome) /\ execs' = [execs EXCEPT ![e] = End(@, outcome)]
    /\ Alone

-----------------------------------------------------------------------------
UserRequest ==
    \/ \E skills \in BOOLEAN : CreateTask(skills /\ Asked("skills"))
    \/ \E m \in Messages :
          \/ \E mode \in {"send", "queue"} : SubmitMessage(m, mode)
          \/ Promote(m)
          \/ DeleteMessage(m)
          \/ HoldLapses(m)
          \/ \E token \in Editors :
                EditMessage(m, token) \/ SaveMessage(m, token) \/ ReleaseMessage(m, token)
    \/ Resume \/ Stop \/ Cancel \/ Archive \/ Followup \/ Maintenance
    \/ \E restart \in BOOLEAN : LegacySteer(restart)
    \/ \E request \in Compactions : Compact(request)

Step ==
    \/ Pump \/ SendMessageNow \/ Start \/ Begin \/ Park \/ ResetCursor \/ SetRunning \/ ArmRuntime
    \/ Reserve \/ ReserveThrows \/ SetFailed \/ FinishFailed \/ Reject
    \/ SetStopping \/ Dequeue \/ StopParked \/ Interrupt \/ DropSteer \/ SetCancelled \/ SetArchived
    \/ Cleanup \/ SetRestart \/ InterruptSteered \/ Steer \/ HandOver \/ Answered \/ AppendEvent
    \/ ClearControl \/ SettleCancelled \/ SettleStopped \/ Settle \/ Chain

Await ==
    \/ \E w \in waiting : SkillsResolve(w) \/ SkillsFail(w)
    \/ \E s \in steers : SteerResolves(s) \/ ReceiptArrives(s) \/ SendTimesOut(s)

Execution ==
    \E e \in DOMAIN execs :
       \/ ExecStarts(e) \/ ExecAsks(e) \/ ExecResolves(e) \/ ExecEnds(e)
       \/ \E m \in Messages : ExecDelivers(e, m) \/ ExecRejects(e, m)

Next ==
    \/ UserRequest \/ Step \/ StartThrows \/ AdmitThrows
    \/ Await \/ Timer \/ Project \/ TurnEnds
    \/ Crash \/ Boot \/ BootRefused
    \/ Execution

Spec == Init /\ [][Next]_vars

(* The event loop serves callbacks in order, so requests do not keep them   *)
(* from running for ever; a crashed web is started again; and a provider    *)
(* ends what it was told to interrupt.  Nothing makes any other turn end.   *)
Fairness ==
    /\ WF_vars(Step) /\ WF_vars(Boot)
    /\ SF_vars(Await) /\ SF_vars(Timer) /\ SF_vars(Project) /\ SF_vars(TurnEnds)
    /\ WF_vars(\E e \in DOMAIN execs : execs[e].stopped /\ ExecEnds(e))

FairSpec == Spec /\ Fairness

-----------------------------------------------------------------------------
(* Properties                                                               *)

Handed(m) == Cardinality({e \in DOMAIN execs : execs[e].turn.message = m})
             + Cardinality({e \in DOMAIN execs : execs[e].sends[m] # "none"})

(* "Never replay it merely because its acknowledgement was lost": whatever  *)
(* crashes, times out, is stopped, requeued, promoted or resumed, a message *)
(* reaches at most one execution, once (recover, stopWaiting, sendNow and   *)
(* pump all move messages back to or out of the queue).                     *)
HandedOnce == \A m \in Messages : Handed(m) <= 1

(* A message is shown as delivered only when an execution has journalled    *)
(* its delivery; a receipt, a timeout or the end of a turn never makes it   *)
(* so (delivered, the continuation of steer, finish).                       *)
DeliveredIsAcknowledged ==
    \A m \in Messages : StatusOf(queue, m) = "delivered"
        => \E e \in DOMAIN execs : Has(e, Event("delivered", m))

(* Removing an uncertain message is final for the agents: once removed it   *)
(* is never handed to an execution, not even by a steer that was still      *)
(* resolving its skills (host.steer compares the handle after the await).   *)
RemovedIsNotHanded ==
    [][\A m \in Messages : StatusOf(queue, m) = "cancelled" => Handed(m)' = Handed(m)]_vars

(* The prompt that runs is the prompt the queue holds: neither a save after *)
(* a message was taken nor a stopped turn that still waits for its skills   *)
(* makes an older text run (action "save", the run id check of runTurn).    *)
HandedIsCurrent ==
    \A e \in DOMAIN execs : execs[e].turn.message # None
        => Entry(queue, execs[e].turn.message).version = execs[e].turn.version

Position(m) == CHOOSE i \in DOMAIN queue.messages : queue.messages[i].id = m
RanFromQueue(e) == execs[e].turn.message # None /\ Entry(queue, execs[e].turn.message).mode = "queue"

(* Queue entries run individually in FIFO order, also when one of them is   *)
(* stopped before it starts, requeued by a restart, or held by an editor    *)
(* (pump, stopWaiting, recover).                                            *)
QueuedRunInOrder ==
    \A d, e \in DOMAIN execs : (d < e /\ RanFromQueue(d) /\ RanFromQueue(e))
        => Position(execs[d].turn.message) < Position(execs[e].turn.message)

Listening == view.exec # 0 /\ view.listening
Parked == \E w \in waiting : Current(w)

(* A task that is queued, running or asking has a turn that will end it,    *)
(* and the logical run lasts exactly as long (runTurn, finishTurn, init).   *)
InFlightHasOwner ==
    (Idle /\ task.status \in InFlight) => (Parked \/ Listening)
RunHasOwner ==
    (Idle /\ task.status \notin Closed /\ queue.run # 0) => (Parked \/ Listening)

(* When a turn has settled, everything its execution journalled is in the   *)
(* product log, even if the web was down while it ran (reattach, baseline,  *)
(* and the completion condition of the handle).                             *)
CompleteAtSettle ==
    (Idle /\ task.status \in {"idle", "failed"} /\ queue.run = 0) =>
        \A e \in DOMAIN execs : \A i \in DOMAIN execs[e].journal : <<e, i>> \in Elements(shown)

(* "finishTurn() removes the worktree once it exits" and "no process held — *)
(* clean up now": a worktree is removed only when no execution of the task  *)
(* is left (cancel, archive, finishTurn).                                   *)
WorktreeOutlivesProvider == ~task.worktree => ~LiveExec

(* An entry someone holds open in an editor is neither sent, started nor    *)
(* removed by anybody until it is saved, released or the hold lapses.       *)
HoldRespected ==
    [][\A m \in Ids(queue) : Entry(queue, m).held => StatusOf(queue', m) = "queued"]_vars

(* Of the environment: no provider runs for ever.                           *)
ProvidersEnd == []<>~LiveExec

(* As long as no provider runs for ever, a message that waits in a queue    *)
(* that is not paused is taken, unless the task is closed or an unresolved  *)
(* entry stands before it (finishTurn and the controller's timer).          *)
QueueDrains ==
    ProvidersEnd =>
        \A m \in Messages :
            (StatusOf(queue, m) = "queued") ~>
                \/ StatusOf(queue, m) # "queued" \/ queue.paused \/ ~Budget
                \/ task.status \in Closed \/ Some(queue, {"unknown", "rejected"})

(* A provider that waits for ever ends when its turn is stopped: the task   *)
(* comes to rest and the mark of the stop is gone, over a restart too once  *)
(* the interrupt was sent.  The exception is a web that dies after it wrote *)
(* the mark and before it sent the interrupt: init reads the mark again,    *)
(* but only another stop would send the interrupt (stop, init, finishTurn). *)
InterruptLost == web = "down" /\ LiveExec /\ ~Last.stopped
StopSettles ==
    (Doing("interrupt") /\ control.stopping) ~>
        (Idle /\ ~control.stopping /\ task.status \notin InFlight) \/ InterruptLost

(* "settles via finishTurn when the child exits": every recorded stop       *)
(* settles, without that exception.                                         *)
MarkedStopSettles == control.stopping ~> ~control.stopping

(* "A server restart reattaches surviving processes; missing runs remain    *)
(* interrupted with a paused queue": after a crash the web serves again.    *)
RestartServes == web # "refused"

(* "the product cursor prevents duplicate events": no journal entry is in   *)
(* the product log twice.                                                   *)
ShownOnce == \A i, j \in DOMAIN shown : shown[i] = shown[j] => i = j

(* "User-requested stop: always resumable, never failed".                   *)
StopNeverFails == [][Doing("settle") /\ task'.status = "failed" => ~Last.stopped]_vars

(* "Removing an unknown entry acknowledges uncertainty": a removed message  *)
(* does not come back.                                                      *)
RemovedStaysRemoved ==
    [][\A m \in Messages : StatusOf(queue, m) = "cancelled" => StatusOf(queue', m) \in {"cancelled", "delivered"}]_vars

(* "success requires the native contextCompaction item and terminal turn    *)
(* result": a compaction reported as completed was executed.                *)
CompactionTruthful ==
    queue.compaction.status = "completed" =>
        \E e \in DOMAIN execs : execs[e].turn.request = queue.compaction.request
=============================================================================
