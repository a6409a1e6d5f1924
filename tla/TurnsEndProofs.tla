---------------------------- MODULE TurnsEndProofs ----------------------------
(***************************************************************************)
(* Who ends a turn, what it keeps and what it shows, for any number of     *)
(* messages, turns and crashes and any mixture of requests.                *)
(*                                                                         *)
(* Four invariants, each about one thing that must not be lost while a turn*)
(* is open: somebody who ends it (OwnerOk, HeardOk), the handle that its   *)
(* worktree hangs on (KeptOk), and the part of its journal that the product*)
(* log does not have yet (SeenOk).  For each of them a lemma says of every *)
(* commit of a request, and of every step of a provider or the backend,    *)
(* what it does to these; another, that the invariant survives it.         *)
(***************************************************************************)
EXTENDS TaskTurnsProofs

-----------------------------------------------------------------------------
(* Who ends a turn.  A run that is not over, and a task in flight, have a   *)
(* commit that ends them before the request is over, an execution whose end *)
(* the backend reports, or a turn that waits for its skills.  A failing     *)
(* admission leaves an execution that nobody listens to: everything below   *)
(* is about behaviours without one.                                         *)
Pending(S) == \E x \in Todo : x.op \in S
EndsRun == {"park", "reserve", "control", "settle", "finishFailed", "reject", "stopWaiting"}
EndsFlight == {"begin", "park", "reserve", "control", "settle", "fail", "dequeue"}
Owner == view.exec # 0 \/ (task.status = "queued" /\ Parked)

(* A commit that takes the task out of flight has one that ends the run     *)
(* with it.                                                                 *)
Partner(x) ==
    /\ x.op = "fail" => Pending({"finishFailed", "reject"})
    /\ x.op = "dequeue" => Pending({"stopWaiting"})
    /\ x.op = "run" => Pending({"reserve"})
    /\ x.op \in {"finishFailed", "reject", "stopWaiting"} => task.status \notin InFlight \/ Pending({"fail", "dequeue"})
    /\ x.op \in {"park", "reject"} => queue.started = FALSE

OwnerOk ==
    /\ view.exec # 0 => view.listening = TRUE
    /\ \A x \in Todo : Partner(x)
    /\ \A w \in waiting : w.run = queue.run => queue.started = FALSE
    /\ web = "up" /\ queue.run # 0 /\ task.status \notin Closed => Pending(EndsRun) \/ Owner
    /\ web = "up" /\ task.status \in InFlight => Pending(EndsFlight) \/ Owner

-----------------------------------------------------------------------------
(* What a step makes of the run.                                            *)
SameRun == queue'.run = queue.run /\ queue'.started = queue.started

(* Only beginRun, finish, rejectBeforeStart, stopWaiting, recover and the   *)
(* arming of the runtime change the run.                                    *)
LEMMA RunAlone ==
    ASSUME Sound,
           \/ \E skills \in BOOLEAN : CreateTask(skills /\ Asked("skills"))
           \/ Resume \/ Stop \/ Cancel \/ Archive \/ Followup \/ Maintenance \/ Timer
           \/ \E restart \in BOOLEAN : LegacySteer(restart)
           \/ \E request \in Compactions : Compact(request)
           \/ Pump \/ SendMessageNow \/ StartThrows \/ Answered \/ Project
           \/ \E m \in Messages :
                 \/ Promote(m) \/ DeleteMessage(m) \/ HoldLapses(m)
                 \/ \E mode \in {"send", "queue"} : SubmitMessage(m, mode)
                 \/ \E token \in Editors : EditMessage(m, token) \/ SaveMessage(m, token) \/ ReleaseMessage(m, token)
    PROVE  SameRun
<1>1. queue \in Queue /\ Distinct(queue) /\ TodoOk /\ QueueOk
  BY DEF Sound, TypeOK, Distinct
<1>2. CASE \/ \E skills \in BOOLEAN : CreateTask(skills /\ Asked("skills"))
           \/ Resume \/ Stop \/ Cancel \/ Archive \/ Followup \/ Maintenance \/ Timer
           \/ \E restart \in BOOLEAN : LegacySteer(restart)
           \/ \E request \in Compactions : Compact(request)
  <2>1. queue' = queue \/ \E paused \in BOOLEAN : queue' = [queue EXCEPT !.paused = paused]
    BY <1>2 DEF CreateTask, Resume, Change, Stop, Cancel, Archive, Paused, Followup, Maintenance, Timer, LegacySteer, Compact, product
  <2> QED  BY <1>1, <2>1 DEF Queue, SameRun
<1>3. CASE Pump
  <2>1. PICK n : n = NextQueued(queue)
    OBVIOUS
  <2>2. queue' = queue \/ queue' = Take(queue, n)
    BY <1>3, <2>1 DEF Pump, CommitQueue
  <2> QED  BY <1>1, <2>2, TakeEffect DEF SameRun
<1>4. ASSUME NEW n, queue' = SendNow(queue, n) PROVE SameRun
  BY <1>1, <1>4, SendEffect DEF SameRun
<1>5. CASE SendMessageNow
  BY <1>4, <1>5 DEF SendMessageNow, CommitQueue
<1>6. CASE StartThrows
  <2>1. PICK n : n = Now.message
    OBVIOUS
  <2>2. queue' = StartRefused(queue, n)
    BY <1>6, <2>1 DEF StartThrows
  <2> QED  BY <1>1, <2>2, RefusedEffect DEF SameRun
<1>7. CASE Answered
  <2>1. PICK n, result : n = Now.message /\ result = Now.result
    OBVIOUS
  <2>2. Doing("answer") /\ queue' = SteerAnswered(queue, n, result)
    BY <1>7, <2>1 DEF Answered, CommitQueue
  <2>3. Now \in Todo /\ Now.op = "answer" /\ Now \in AgendaSteps
    BY <1>1, <2>2, Doings
  <2>4. Answering(n) /\ n \in Messages /\ result \in Results
    BY <2>1, <2>3, StepFields DEF Answering
  <2>5. n \in Ids(queue)
    BY <1>1, <2>4 DEF QueueOk
  <2> QED  BY <1>1, <2>2, <2>4, <2>5, AnswerEffect DEF SameRun
<1>8. CASE Project
  <2>1. PICK n : n = NextEntry.message
    OBVIOUS
  <2>2. queue' = queue \/ queue' = Delivered(queue, n)
    BY <1>8, <2>1 DEF Project
  <2> QED  BY <1>1, <2>2, DeliveredEffect DEF SameRun
<1>9. ASSUME NEW m \in Messages, Promote(m) PROVE SameRun
  BY <1>4, <1>9 DEF Promote
<1>10. ASSUME NEW m \in Messages, DeleteMessage(m) PROVE SameRun
  <2>1. queue' = Delete(queue, m)
    BY <1>10 DEF DeleteMessage, Change
  <2> QED  BY <1>1, <2>1, DeleteEffect DEF SameRun
<1>11. ASSUME NEW m \in Messages, NEW mode \in {"send", "queue"}, SubmitMessage(m, mode) PROVE SameRun
  <2>1. Submitted(queue, m, queue')
    BY <1>1, <1>11, SubmitEffect DEF SubmitMessage
  <2> QED  BY <2>1 DEF Submitted, SameRun
<1>12. ASSUME NEW m \in Messages, HoldLapses(m) PROVE SameRun
  <2>1. Edited(queue, m, queue', FALSE, 0)
    BY <1>1, <1>12, ExpireEffect DEF HoldLapses
  <2> QED  BY <2>1 DEF Edited, SameRun
<1>13. ASSUME NEW m \in Messages, NEW token \in Editors, EditMessage(m, token) PROVE SameRun
  <2>1. Edited(queue, m, queue', TRUE, 0)
    BY <1>1, <1>13, HoldEffect DEF EditMessage, Change
  <2> QED  BY <2>1 DEF Edited, SameRun
<1>14. ASSUME NEW m \in Messages, NEW token \in Editors, SaveMessage(m, token) \/ ReleaseMessage(m, token) PROVE SameRun
  <2>1. PICK saved \in BOOLEAN :
           /\ queue' = CloseEdit(queue, m, saved)
           /\ StatusOf(queue, m) = "queued" /\ (saved = TRUE => Entry(queue, m).version < MaxVersion)
    BY <1>14 DEF SaveMessage, ReleaseMessage, Change, CanClose
  <2>2. m \in Ids(queue)
    BY <2>1 DEF StatusOf
  <2>3. PICK k \in DOMAIN queue.messages : queue.messages[k].id = m
    BY <2>2, IdAt
  <2>4. Entry(queue, m) = queue.messages[k]
    BY <1>1, <2>3, EntryAt
  <2>5. Edited(queue, m, queue', FALSE, queue.messages[k].version + 1)
    BY <1>1, <2>1, <2>3, <2>4, CloseEffect
  <2> QED  BY <2>5 DEF Edited, SameRun
<1> QED  BY <1>2, <1>3, <1>5, <1>6, <1>7, <1>8, <1>9, <1>10, <1>11, <1>12, <1>13, <1>14

-----------------------------------------------------------------------------
(* A request other than the creation of the task makes one commit to the    *)
(* queue or the control row and says what is left to do.                    *)
Dull == {"pump", "steer", "dropSteer", "stopping", "interrupt", "cancelled", "restart", "interruptSteered", "handOver",
         "answer"}
Ready == handle = 0 /\ task.status \in {"idle", "failed"}
Fresh(x, S) ==
    /\ x.op \in Dull \cup {"sendNow", "start", "begin", "dequeue", "stopWaiting", "archived", "cleanup"}
    /\ x.op \in {"start", "begin"} \/ (x.op = "sendNow" /\ queue.run = 0) => Ready
    /\ x.op = "begin" => x.skills = FALSE
    /\ x.op = "dequeue" => handle = 0 /\ task.status = "queued" /\ \E y \in S : y.op = "stopWaiting"
    /\ x.op = "stopWaiting" => \E y \in S : y.op = "dequeue"
    /\ x.op \in {"archived", "cleanup"} => handle = 0
    /\ x.op = "cleanup" => \E y \in S : y.op = "archived"
Asks ==
    /\ web = "up" /\ Todo = {} /\ SameRun
    /\ UNCHANGED <<task, shown, execs, web, handle, view, waiting>>
    /\ \A x \in Todo' : Fresh(x, Todo')

(* The requests of the user, the timer and the steers that come back.       *)
LEMMA RequestsAsk ==
    ASSUME Sound,
           \/ \E m \in Messages :
                 \/ \E mode \in {"send", "queue"} : SubmitMessage(m, mode)
                 \/ Promote(m) \/ DeleteMessage(m) \/ HoldLapses(m)
                 \/ \E token \in Editors : EditMessage(m, token) \/ SaveMessage(m, token) \/ ReleaseMessage(m, token)
           \/ Resume \/ Stop \/ Cancel \/ Archive \/ Followup \/ Maintenance \/ Timer
           \/ \E restart \in BOOLEAN : LegacySteer(restart)
           \/ \E request \in Compactions : Compact(request)
           \/ \E s \in steers : SteerResolves(s) \/ ReceiptArrives(s) \/ SendTimesOut(s)
    PROVE  Asks
<1>0. /\ Elements(agenda') = Todo'
      /\ agenda = <<>> => Todo = {}
  BY FewElements DEF Todo
<1>1. ASSUME Idle, SameRun, UNCHANGED <<task, shown, execs, web, handle, view, waiting>>,
             \A x \in Todo' : Fresh(x, Todo')
      PROVE  Asks
  BY <1>0, <1>1 DEF Asks, Idle
<1>2. ASSUME NEW x, agenda' = <<x>>, Fresh(x, {x}) PROVE \A y \in Todo' : Fresh(y, Todo')
  <2>1. Todo' = {x}
    BY <1>2, FewElements DEF Todo
  <2> QED  BY <1>2, <2>1
<1>3. ASSUME agenda' = <<>> PROVE \A y \in Todo' : Fresh(y, Todo')
  BY <1>3, FewElements DEF Todo
<1>4. ASSUME NEW m \in Messages, NEW mode \in {"send", "queue"}, SubmitMessage(m, mode) PROVE Asks
  <2>1. SameRun
    BY <1>4, RunAlone
  <2>2. Idle /\ UNCHANGED <<task, shown, execs, web, handle, view, waiting>> /\ (mode = "send" /\ queue.run = 0 => CanStart)
    BY <1>4 DEF SubmitMessage, Request, CanSubmit
  <2>3. PICK x : agenda' = <<x>> /\ x = IF mode = "send" THEN [op |-> "sendNow", message |-> m] ELSE Do("pump")
    BY <1>4 DEF SubmitMessage, Request
  <2>4. x.op = IF mode = "send" THEN "sendNow" ELSE "pump"
    BY <2>3 DEF Do
  <2>5. Fresh(x, {x})
    BY <2>2, <2>4 DEF Fresh, Dull, Ready, CanStart
  <2> QED  BY <1>1, <1>2, <2>1, <2>2, <2>3, <2>5
<1>5. ASSUME NEW m \in Messages, Promote(m) PROVE Asks
  <2>1. SameRun
    BY <1>5, RunAlone
  <2>2. Idle /\ UNCHANGED <<task, shown, execs, web, handle, view, waiting>> /\ (queue.run = 0 => CanStart)
    BY <1>5 DEF Promote, Request, CanSendNow
  <2>3. PICK x : agenda' = <<x>> /\ x = [op |-> IF queue.run = 0 THEN "start" ELSE "steer", message |-> m]
    BY <1>5 DEF Promote, Request
  <2>4. x.op = IF queue.run = 0 THEN "start" ELSE "steer"
    BY <2>3
  <2>5. Fresh(x, {x})
    BY <2>2, <2>4 DEF Fresh, Dull, Ready, CanStart
  <2> QED  BY <1>1, <1>2, <2>1, <2>2, <2>3, <2>5
<1>6. Fresh(Do("pump"), {Do("pump")})
  BY DEF Fresh, Dull, Do
<1>7. CASE \/ Resume
           \/ \E m \in Messages :
                 \/ DeleteMessage(m)
                 \/ \E token \in Editors : EditMessage(m, token) \/ SaveMessage(m, token) \/ ReleaseMessage(m, token)
  <2>1. SameRun
    BY <1>7, RunAlone
  <2>2. Idle /\ UNCHANGED <<task, shown, execs, web, handle, view, waiting>> /\ agenda' = <<Do("pump")>>
    BY <1>7 DEF Resume, DeleteMessage, EditMessage, SaveMessage, ReleaseMessage, Change, Request
  <2> QED  BY <1>1, <1>2, <1>6, <2>1, <2>2
<1>8. CASE Timer
  <2>1. SameRun
    BY <1>8, RunAlone
  <2>2. Idle /\ UNCHANGED <<task, shown, execs, web, handle, view, waiting>> /\ agenda' = <<Do("pump")>>
    BY <1>8 DEF Timer, Request, product
  <2> QED  BY <1>1, <1>2, <1>6, <2>1, <2>2
<1>9. CASE Maintenance \/ \E m \in Messages : HoldLapses(m)
  <2>1. SameRun
    BY <1>9, RunAlone
  <2>2. Idle /\ UNCHANGED <<task, shown, execs, web, handle, view, waiting>> /\ agenda' = <<>>
    BY <1>9 DEF Maintenance, HoldLapses, Request, product, memory, Idle
  <2> QED  BY <1>1, <1>3, <2>1, <2>2
<1>10. CASE Stop
  <2>1. SameRun
    BY <1>10, RunAlone
  <2>2. Idle /\ UNCHANGED <<task, shown, execs, web, handle, view, waiting>>
    BY <1>10 DEF Stop, Request
  <2>3. \/ handle # 0 /\ agenda' = <<Do("dropSteer"), Do("stopping"), Do("interrupt")>>
        \/ handle = 0 /\ task.status = "queued" /\ agenda' = <<Do("dequeue"), Do("stopWaiting")>>
        \/ agenda' = <<>>
    BY <1>10 DEF Stop, Request
  <2>4. CASE agenda' = <<Do("dropSteer"), Do("stopping"), Do("interrupt")>>
    <3>1. Todo' = {Do("dropSteer"), Do("stopping"), Do("interrupt")}
      BY <2>4, FewElements DEF Todo
    <3>2. \A x \in Todo' : x.op \in {"dropSteer", "stopping", "interrupt"}
      BY <3>1 DEF Do
    <3>3. \A x \in Todo' : Fresh(x, Todo')
      BY <3>2 DEF Fresh, Dull
    <3> QED  BY <1>1, <2>1, <2>2, <3>3
  <2>5. CASE handle = 0 /\ task.status = "queued" /\ agenda' = <<Do("dequeue"), Do("stopWaiting")>>
    <3>1. PICK x, y : x = Do("dequeue") /\ y = Do("stopWaiting")
      OBVIOUS
    <3>2. Todo' = {x, y} /\ x.op = "dequeue" /\ y.op = "stopWaiting"
      BY <2>5, <3>1, FewElements DEF Todo, Do
    <3>3. Fresh(x, {x, y}) /\ Fresh(y, {x, y})
      BY <2>5, <3>2 DEF Fresh, Dull
    <3> QED  BY <1>1, <2>1, <2>2, <3>2, <3>3
  <2> QED  BY <1>1, <1>3, <2>1, <2>2, <2>3, <2>4, <2>5
<1>11. CASE Cancel
  <2>1. SameRun
    BY <1>11, RunAlone
  <2>2. /\ Idle /\ UNCHANGED <<task, shown, execs, web, handle, view, waiting>>
        /\ agenda' = <<Do("dropSteer"), Do("cancelled")>>
    BY <1>11 DEF Cancel, Request
  <2>3. Todo' = {Do("dropSteer"), Do("cancelled")}
    BY <2>2, FewElements DEF Todo
  <2>4. \A x \in Todo' : x.op \in {"dropSteer", "cancelled"}
    BY <2>3 DEF Do
  <2>5. \A x \in Todo' : Fresh(x, Todo')
    BY <2>4 DEF Fresh, Dull
  <2> QED  BY <1>1, <2>1, <2>2, <2>5
<1>12. CASE Archive
  <2>1. SameRun
    BY <1>12, RunAlone
  <2>2. /\ Idle /\ UNCHANGED <<task, shown, execs, web, handle, view, waiting>> /\ handle = 0
        /\ agenda' = <<Do("archived"), Do("cleanup")>>
    BY <1>12 DEF Archive, Request
  <2>3. PICK x, y : x = Do("archived") /\ y = Do("cleanup")
    OBVIOUS
  <2>4. Todo' = {x, y} /\ x.op = "archived" /\ y.op = "cleanup"
    BY <2>2, <2>3, FewElements DEF Todo, Do
  <2>5. Fresh(x, {x, y}) /\ Fresh(y, {x, y})
    BY <2>2, <2>4 DEF Fresh, Dull
  <2> QED  BY <1>1, <2>1, <2>2, <2>4, <2>5
<1>13. CASE Followup \/ \E request \in Compactions : Compact(request)
  <2>1. SameRun
    BY <1>13, RunAlone
  <2>2. Idle /\ UNCHANGED <<task, shown, execs, web, handle, view, waiting>> /\ CanStart
    BY <1>13 DEF Followup, Compact, Request, product
  <2>3. PICK turn : agenda' = <<[op |-> "begin", turn |-> turn, skills |-> FALSE]>>
    BY <1>13 DEF Followup, Compact, Request
  <2>4. PICK x : x = [op |-> "begin", turn |-> turn, skills |-> FALSE]
    OBVIOUS
  <2>5. agenda' = <<x>> /\ x.op = "begin" /\ x.skills = FALSE
    BY <2>3, <2>4
  <2>6. Fresh(x, {x})
    BY <2>2, <2>5 DEF Fresh, Dull, Ready, CanStart
  <2> QED  BY <1>1, <1>2, <2>1, <2>2, <2>5, <2>6
<1>14. ASSUME NEW restart \in BOOLEAN, LegacySteer(restart) PROVE Asks
  <2>1. SameRun
    BY <1>14, RunAlone
  <2>2. Idle /\ UNCHANGED <<task, shown, execs, web, handle, view, waiting>>
    BY <1>14 DEF LegacySteer, Request, product
  <2>3. agenda' = <<>> \/ agenda' = <<Do("restart"), Do("interruptSteered")>>
    BY <1>14 DEF LegacySteer, Request
  <2>4. \A x \in Todo' : x.op \in {"restart", "interruptSteered"}
    BY <2>3, FewElements DEF Todo, Do
  <2>5. \A x \in Todo' : Fresh(x, Todo')
    BY <2>4 DEF Fresh, Dull
  <2> QED  BY <1>1, <2>1, <2>2, <2>5
<1>15. ASSUME NEW s \in steers, SteerResolves(s) \/ ReceiptArrives(s) \/ SendTimesOut(s) PROVE Asks
  <2>1. Idle /\ UNCHANGED <<task, queue, shown, execs, web, handle, view, waiting>>
    BY <1>15 DEF SteerResolves, ReceiptArrives, SendTimesOut, product
  <2>2. SameRun
    BY <2>1 DEF SameRun
  <2>3. PICK x : agenda' = <<x>> /\ x.op \in {"handOver", "answer"}
    BY <1>15 DEF SteerResolves, ReceiptArrives, SendTimesOut, Answer
  <2>4. Fresh(x, {x})
    BY <2>3 DEF Fresh, Dull
  <2> QED  BY <1>1, <1>2, <2>1, <2>2, <2>3, <2>4
<1> QED  BY <1>4, <1>5, <1>7, <1>8, <1>9, <1>10, <1>11, <1>12, <1>13, <1>14, <1>15

-----------------------------------------------------------------------------
(* Commits after which the same turn, the same run and the same task go on. *)
SameJournals ==
    /\ Len(execs') = Len(execs) /\ DOMAIN execs' = DOMAIN execs
    /\ \A e \in DOMAIN execs : /\ execs'[e].journal = execs[e].journal
                               /\ execs[e].state = "ended" => execs'[e].state = "ended"
Continues(x) ==
    \/ x.op \in Dull
    \/ x.op = "start" /\ (Ready \/ (Now.op = "sendNow" /\ queue.run = 0))
    \/ x.op = "begin" /\ Now.op \in {"start", "chain"} /\ (x.skills = TRUE => WithSkills # {})
    \/ x.op = "settle" /\ Now.op = "control"
Proceeds ==
    /\ web = "up" /\ SameRun /\ UNCHANGED <<task, shown, web, handle, view, waiting>> /\ SameJournals
    /\ Now \in Todo /\ Now.op \in Dull \cup {"sendNow", "start", "chain", "control"}
    /\ \A x \in Todo : x.op \in Dull \cup {Now.op}
    /\ \A x \in Todo' : Continues(x)
    /\ Now.op = "control" => \E x \in Todo' : x.op = "settle"

(* Nothing but dull commits stands behind one of these.                     *)
LEMMA OnlyDullBehind ==
    ASSUME NEW a, a \in Dull \cup {"sendNow", "start", "chain", "control", "settle", "begin", "park", "finishFailed", "reject",
                            "cleanup", "reserve", "append"},
           NEW b, Behind(a, b)
    PROVE  b \in Dull
BY DEF Dull, Behind, BeforeAnswers

(* One execution changes, and its journal does not.                         *)
LEMMA JournalsStay ==
    ASSUME Sound, NEW e \in DOMAIN execs, NEW x, execs' = [execs EXCEPT ![e] = x],
           x.journal = execs[e].journal, execs[e].state = "ended" => x.state = "ended"
    PROVE  SameJournals
<1>1. execs \in Seq(Exec)
  BY DEF Sound, TypeOK
<1>2. /\ DOMAIN execs' = DOMAIN execs /\ Len(execs') = Len(execs) /\ execs'[e] = x
      /\ \A d \in DOMAIN execs : d # e => execs'[d] = execs[d]
  BY <1>1
<1> QED  BY <1>2 DEF SameJournals

(* The commits that let the task go on.                                     *)
LEMMA StepsGoOn ==
    ASSUME Sound,
           \/ Pump \/ SendMessageNow \/ Start \/ StartThrows \/ SetStopping \/ DropSteer \/ Interrupt \/ SetRestart
           \/ InterruptSteered \/ Steer \/ HandOver \/ Answered \/ ClearControl \/ Chain
    PROVE  Proceeds
<1>0. TodoOk /\ execs \in Seq(Exec)
  BY DEF Sound, TypeOK
<1>1. SameRun
  <2>1. CASE \/ Start \/ SetStopping \/ DropSteer \/ Interrupt \/ SetRestart
             \/ InterruptSteered \/ Steer \/ HandOver \/ ClearControl \/ Chain
    <3>1. queue' = queue
      BY <2>1, QueueAlone
    <3> QED  BY <3>1 DEF SameRun
  <2> QED  BY <2>1, RunAlone
<1>2. /\ web = "up" /\ agenda # <<>> /\ UNCHANGED <<task, shown, web, handle, view, waiting>>
      /\ Now.op \in Dull \cup {"sendNow", "start", "chain", "control"}
  BY DEF Pump, SendMessageNow, Start, StartThrows, SetStopping, DropSteer, Interrupt, SetRestart, InterruptSteered, Steer,
         HandOver, Answered, ClearControl, Chain, CommitQueue, CommitControl, Doing, Skip, Dull, product
<1>3. Now \in Todo /\ Now \in AgendaSteps
  BY <1>0, <1>2, Doings DEF Doing
<1>4. ASSUME NEW S, Made(S), \A x \in S : Continues(x), SameJournals, Now.op = "control" => \E x \in S : x.op = "settle"
      PROVE  Proceeds
  <2>1. Todo' = S \cup Rest /\ Todo = {Now} \cup Rest /\ \A x \in Rest : x.op \in Dull
    BY <1>2, <1>4, OnlyDullBehind DEF Made
  <2>2. \A x \in Todo' : Continues(x)
    BY <1>4, <2>1 DEF Continues
  <2>3. \A x \in Todo : x.op \in Dull \cup {Now.op}
    BY <2>1
  <2>4. Now.op = "control" => \E x \in Todo' : x.op = "settle"
    BY <1>4, <2>1
  <2> QED  BY <1>1, <1>2, <1>3, <1>4, <2>2, <2>3, <2>4 DEF Proceeds
<1>5. ASSUME execs' = execs PROVE SameJournals
  BY <1>5 DEF SameJournals
<1>6. ASSUME Then(<<>>), SameJournals, Now.op # "control" PROVE Proceeds
  BY <1>0, <1>2, <1>4, <1>6, MadeNone
<1>7. ASSUME NEW a \in AgendaSteps, Then(<<a>>), Continues(a), SameJournals, \A b : Behind(Now.op, b) => Behind(a.op, b),
             Now.op = "control" => a.op = "settle"
      PROVE  Proceeds
  <2>1. Made({a})
    BY <1>0, <1>2, <1>7, MadeOne
  <2> QED  BY <1>4, <1>7, <2>1
<1>8. CASE Pump
  <2>1. execs' = execs /\ Now.op = "pump"
    BY <1>8 DEF Pump, CommitQueue, Doing
  <2>2. CASE ~CanPump(queue, CanStart)
    <3>1. Then(<<>>)
      BY <1>8, <2>2 DEF Pump, CommitQueue
    <3> QED  BY <1>5, <1>6, <2>1, <3>1
  <2>3. CASE CanPump(queue, CanStart)
    <3>1. PICK a : a = [op |-> "start", message |-> NextQueued(queue)]
      OBVIOUS
    <3>2. Then(<<a>>) /\ a.op = "start" /\ a.message = NextQueued(queue) /\ CanStart
      BY <1>8, <2>3, <3>1 DEF Pump, CommitQueue, CanPump
    <3>3. NextQueued(queue) \in Messages
      <4>1. queue \in Queue
        BY DEF Sound, TypeOK
      <4>2. Waiting(queue) # {} /\ Waiting(queue) \subseteq Nat
        BY <2>3, <4>1, QueueFields DEF CanPump, Waiting
      <4>3. \E j \in Waiting(queue) : \A l \in Waiting(queue) : j <= l
        BY <4>2, Least
      <4>4. Oldest(queue) \in DOMAIN queue.messages
        BY <4>3 DEF Oldest, Waiting
      <4>5. queue.messages[Oldest(queue)] \in Message
        BY <4>1, <4>4, QueueFields
      <4> QED  BY <4>5 DEF NextQueued, Message
    <3>4. a \in AgendaSteps
      BY <3>1, <3>3 DEF AgendaSteps, Sends
    <3>5. Continues(a)
      BY <3>2 DEF Continues, Ready, CanStart
    <3>6. \A b : Behind(Now.op, b) => Behind(a.op, b)
      BY <2>1, <3>2 DEF Behind, BeforeAnswers
    <3> QED  BY <1>5, <1>7, <2>1, <3>2, <3>4, <3>5, <3>6
  <2> QED  BY <2>2, <2>3
<1>9. CASE SendMessageNow
  <2>1. PICK a : a = [op |-> IF queue.run = 0 THEN "start" ELSE "steer", message |-> Now.message]
    OBVIOUS
  <2>2. execs' = execs /\ Now.op = "sendNow" /\ Then(<<a>>) /\ a.op = (IF queue.run = 0 THEN "start" ELSE "steer")
    BY <1>9, <2>1 DEF SendMessageNow, CommitQueue, Doing
  <2>3. Now.message \in Messages
    BY <1>3, <2>2, StepFields DEF Sends
  <2>4. a \in AgendaSteps
    BY <2>1, <2>3 DEF AgendaSteps, Sends
  <2>5. Continues(a) /\ \A b : Behind(Now.op, b) => Behind(a.op, b)
    BY <2>2 DEF Continues, Dull, Behind, BeforeAnswers
  <2> QED  BY <1>5, <1>7, <2>2, <2>4, <2>5
<1>10. ASSUME NEW turn \in Turns, NEW skills \in BOOLEAN, Then(<<[op |-> "begin", turn |-> turn, skills |-> skills]>>),
              Now.op \in {"start", "chain"}, execs' = execs, skills = TRUE => WithSkills # {}
       PROVE  Proceeds
  <2>1. PICK a : a = [op |-> "begin", turn |-> turn, skills |-> skills]
    OBVIOUS
  <2>2. a \in AgendaSteps /\ a.op = "begin" /\ a.skills = skills
    BY <2>1 DEF AgendaSteps
  <2>3. Continues(a) /\ \A b : Behind(Now.op, b) => Behind(a.op, b)
    BY <1>10, <2>2 DEF Continues, Behind, BeforeAnswers
  <2> QED  BY <1>5, <1>7, <1>10, <2>1, <2>2, <2>3
<1>11. CASE Start
  <2>1. Now.op = "start" /\ execs' = execs
    BY <1>11 DEF Start, Doing
  <2>2. PICK m, turn, skills : m = Now.message /\ turn = Turn(m, Entry(queue, m).version, None) /\ skills = (m \in WithSkills)
    OBVIOUS
  <2>3. m \in Messages /\ TodoStepOk(Now)
    BY <1>0, <1>3, <2>1, <2>2, StepFields DEF Sends, TodoOk
  <2>4. m \in Ids(queue)
    <3>1. Opened(m)
      BY <1>3, <2>1, <2>2 DEF Opened, Carries
    <3> QED  BY <2>3, <3>1 DEF Sound, QueueOk
  <2>5. Entry(queue, m).version \in 1..MaxVersion
    <3>1. queue \in Queue /\ Distinct(queue)
      BY DEF Sound, TypeOK, Distinct
    <3>2. PICK k \in DOMAIN queue.messages : queue.messages[k].id = m
      BY <2>4, IdAt
    <3>3. Entry(queue, m) = queue.messages[k] /\ queue.messages[k] \in Message
      BY <3>1, <3>2, EntryAt, QueueFields
    <3> QED  BY <3>3 DEF Message
  <2>6. turn \in Turns /\ skills \in BOOLEAN
    BY <2>2, <2>3, <2>5 DEF Turn, Turns
  <2>7. Then(<<[op |-> "begin", turn |-> turn, skills |-> skills]>>)
    BY <1>11, <2>2 DEF Start
  <2>8. skills = TRUE => WithSkills # {}
    BY <2>2
  <2> QED  BY <1>10, <2>1, <2>6, <2>7, <2>8
<1>12. CASE Chain
  <2>1. Now.op = "chain" /\ execs' = execs /\ Then(<<[op |-> "begin", turn |-> Plain, skills |-> FALSE]>>)
    BY <1>12 DEF Chain, Doing
  <2>2. Plain \in Turns
    BY QueueAssumption DEF Plain, Turn, Turns
  <2> QED  BY <1>10, <2>1, <2>2
<1>13. CASE StartThrows \/ SetStopping \/ DropSteer \/ SetRestart \/ InterruptSteered \/ Answered
  <2>1. Then(<<>>) /\ execs' = execs /\ Now.op # "control"
    BY <1>13 DEF StartThrows, SetStopping, DropSteer, SetRestart, InterruptSteered, Answered, CommitQueue, CommitControl, Doing
  <2> QED  BY <1>5, <1>6, <2>1
<1>14. CASE Interrupt
  <2>1. Then(<<>>) /\ Now.op = "interrupt" /\ execs' = [execs EXCEPT ![handle] = Interrupted(execs[handle])]
    BY <1>14 DEF Interrupt, Doing
  <2>2. CASE handle \in DOMAIN execs
    <3>1. PICK old, x : old = execs[handle] /\ x = Interrupted(old)
      OBVIOUS
    <3>2. old \in Exec
      BY <1>0, <2>2, <3>1
    <3>3. x.journal = old.journal /\ (old.state = "ended" => x.state = "ended")
      <4>1. PICK asked : asked = [old EXCEPT !.stopped = TRUE]
        OBVIOUS
      <4>2. asked.journal = old.journal /\ asked.state = old.state /\ asked \in Exec
        BY <3>2, <4>1 DEF Exec
      <4>3. End(asked, "lost").journal = asked.journal /\ End(asked, "lost").state = "ended"
        BY <4>2 DEF End, Exec
      <4> QED  BY <3>1, <4>1, <4>2, <4>3 DEF Interrupted
    <3>4. SameJournals
      BY <2>1, <2>2, <3>1, <3>3, JournalsStay
    <3> QED  BY <1>6, <2>1, <3>4
  <2>3. CASE handle \notin DOMAIN execs
    <3>1. execs' = execs
      BY <1>0, <2>1, <2>3
    <3> QED  BY <1>5, <1>6, <2>1, <3>1
  <2> QED  BY <2>2, <2>3
<1>15. ASSUME NEW m \in Messages, Then(<<Answer(m, "rejected")>>), SameJournals, Now.op \in {"steer", "handOver"} PROVE Proceeds
  <2>1. PICK a : a = Answer(m, "rejected")
    OBVIOUS
  <2>2. a \in AgendaSteps /\ a.op = "answer"
    BY <2>1 DEF Answer, AgendaSteps, Results
  <2>3. Continues(a) /\ \A b : Behind(Now.op, b) => Behind(a.op, b)
    BY <1>15, <2>2 DEF Continues, Dull, Behind, BeforeAnswers
  <2> QED  BY <1>7, <1>15, <2>1, <2>2, <2>3
<1>16. CASE Steer
  <2>1. Now.op = "steer" /\ execs' = execs
    BY <1>16 DEF Steer, Doing
  <2>2. PICK m : m = Now.message
    OBVIOUS
  <2>3. m \in Messages
    BY <1>3, <2>1, <2>2, StepFields DEF Sends
  <2>4. \/ Then(<<Answer(m, "rejected")>>) \/ Then(<<>>)
        \/ Then(<<[op |-> "handOver", message |-> m, exec |-> handle]>>)
    BY <1>16, <2>2 DEF Steer
  <2>5. CASE Then(<<[op |-> "handOver", message |-> m, exec |-> handle]>>)
    <3>1. PICK a : a = [op |-> "handOver", message |-> m, exec |-> handle]
      OBVIOUS
    <3>2. handle \in Nat
      BY <1>0 DEF Sound, TypeOK
    <3>3. a \in AgendaSteps /\ a.op = "handOver"
      BY <2>3, <3>1, <3>2 DEF AgendaSteps
    <3>4. Continues(a) /\ \A b : Behind(Now.op, b) => Behind(a.op, b)
      BY <2>1, <3>3 DEF Continues, Dull, Behind, BeforeAnswers
    <3> QED  BY <1>5, <1>7, <2>1, <2>5, <3>1, <3>3, <3>4
  <2> QED  BY <1>5, <1>6, <1>15, <2>1, <2>3, <2>4, <2>5
<1>17. CASE HandOver
  <2>1. Now.op = "handOver"
    BY <1>17 DEF HandOver, Doing
  <2>2. PICK m, e : m = Now.message /\ e = Now.exec
    OBVIOUS
  <2>3. m \in Messages /\ TodoStepOk(Now)
    BY <1>0, <1>3, <2>1, <2>2, StepFields DEF Sends, TodoOk
  <2>4. e \in DOMAIN execs
    BY <1>0, <2>1, <2>2, <2>3 DEF TodoStepOk
  <2>5. \/ Then(<<>>) /\ execs' = [execs EXCEPT ![e].sends[m] = "accepted"]
        \/ Then(<<Answer(m, "rejected")>>) /\ execs' = execs
    BY <1>17, <2>2 DEF HandOver
  <2>6. CASE Then(<<>>) /\ execs' = [execs EXCEPT ![e].sends[m] = "accepted"]
    <3>1. PICK x : x = [execs[e] EXCEPT !.sends[m] = "accepted"]
      OBVIOUS
    <3>2. execs[e] \in Exec
      BY <1>0, <2>4
    <3>3. x.journal = execs[e].journal /\ x.state = execs[e].state
      BY <3>1, <3>2 DEF Exec
    <3>4. execs' = [execs EXCEPT ![e] = x]
      BY <2>6, <3>1
    <3>5. SameJournals
      BY <2>4, <3>3, <3>4, JournalsStay
    <3> QED  BY <1>6, <2>1, <2>6, <3>5
  <2> QED  BY <1>5, <1>15, <2>1, <2>3, <2>5, <2>6
<1>18. CASE ClearControl
  <2>1. Now.op = "control" /\ execs' = execs
    BY <1>18 DEF ClearControl, Doing
  <2>2. PICK a : a = [Now EXCEPT !.op = "settle"]
    OBVIOUS
  <2>3. Now \in [op : Ends, stopped : BOOLEAN, restarted : BOOLEAN, outcome : Outcomes \cup {"none"}]
    BY <1>3, <2>1, StepFields DEF Ends
  <2>4. a \in [op : Ends, stopped : BOOLEAN, restarted : BOOLEAN, outcome : Outcomes \cup {"none"}] /\ a.op = "settle"
    BY <2>2, <2>3 DEF Ends
  <2>5. a \in AgendaSteps
    BY <2>4 DEF AgendaSteps
  <2>6. Then(<<a>>)
    BY <1>18, <2>2 DEF ClearControl
  <2>7. Continues(a) /\ \A b : Behind(Now.op, b) => Behind(a.op, b)
    BY <2>1, <2>4 DEF Continues, Behind, BeforeAnswers
  <2> QED  BY <1>5, <1>7, <2>1, <2>4, <2>5, <2>6, <2>7
<1> QED  BY <1>8, <1>9, <1>11, <1>12, <1>13, <1>14, <1>16, <1>17, <1>18

-----------------------------------------------------------------------------
(* What the other steps leave.  First the commits of a request: Now is      *)
(* made, and the rest stands behind it.                                     *)
Making(op) ==
    /\ web = "up" /\ web' = "up" /\ Now \in Todo /\ Now.op = op /\ Now \in AgendaSteps /\ TodoStepOk(Now)
    /\ Todo = {Now} \cup Rest /\ \A x \in Rest : Behind(op, x.op)
StatusOnly(op, status) ==
    /\ Making(op) /\ Todo' = Rest /\ UNCHANGED <<queue, shown, execs, handle, view, waiting>>
    /\ task'.status = status /\ task'.rawSeq = task.rawSeq /\ task'.worktree = task.worktree
QueueOnly(op) ==
    Making(op) /\ Todo' = Rest /\ UNCHANGED <<task, shown, execs, handle, view, waiting>> /\ queue'.started \in BOOLEAN

(* A commit that is made, with the commits that follow it.                  *)
LEMMA Makes ==
    ASSUME Sound, NEW op, Doing(op), web' = web, NEW S, Made(S)
    PROVE  Making(op) /\ Todo' = S \cup Rest
<1>1. TodoOk
  BY DEF Sound
<1>2. web = "up" /\ Now.op = op /\ Now \in Todo /\ Now \in AgendaSteps /\ TodoStepOk(Now)
  BY <1>1, Doings
<1> QED  BY <1>2 DEF Making, Made

(* One with nothing after it.                                               *)
LEMMA MakesLast ==
    ASSUME Sound, NEW op, Doing(op), web' = web, Then(<<>>)
    PROVE  Making(op) /\ Todo' = Rest
<1>1. Made({})
  BY MadeNone DEF Sound, Doing
<1>2. Making(op) /\ Todo' = {} \cup Rest
  BY <1>1, Makes
<1> QED  BY <1>2

(* The commits that set the status of the task.                             *)
LEMMA StatusCommits ==
    ASSUME Sound
    PROVE  /\ SetRunning => StatusOnly("run", "running")
           /\ SetFailed => StatusOnly("fail", "failed")
           /\ Dequeue => StatusOnly("dequeue", "idle")
           /\ SetArchived => StatusOnly("archived", "archived")
<1>1. ASSUME NEW op, NEW status, CommitTask(op, Transition(status), <<>>) PROVE StatusOnly(op, status)
  <2>1. Doing(op) /\ Then(<<>>) /\ web' = web /\ task' = [task EXCEPT !.status = status] /\ UNCHANGED <<queue, shown, execs, handle, view, waiting>>
    BY <1>1 DEF CommitTask, Skip, Transition
  <2>2. task'.status = status /\ task'.rawSeq = task.rawSeq /\ task'.worktree = task.worktree
    BY <2>1 DEF Sound, TypeOK
  <2> QED  BY <2>1, <2>2, MakesLast DEF StatusOnly
<1> QED  BY <1>1 DEF SetRunning, SetFailed, Dequeue, SetArchived

(* The commits that end or arm the run.                                     *)
LEMMA RunCommits ==
    ASSUME Sound
    PROVE  /\ FinishFailed => QueueOnly("finishFailed") /\ queue'.run = 0
           /\ Reject => QueueOnly("reject") /\ (queue.started = FALSE => queue'.run = 0)
           /\ StopParked => QueueOnly("stopWaiting") /\ queue'.run = 0
           /\ ArmRuntime => QueueOnly("arm") /\ queue'.run = queue.run
<1>0. queue \in Queue /\ queue.started \in BOOLEAN
  BY QueueFields DEF Sound, TypeOK
<1>1. ASSUME NEW op, NEW q, q.started \in BOOLEAN, CommitQueue(op, q, <<>>) PROVE QueueOnly(op) /\ queue' = q
  <2>1. Doing(op) /\ Then(<<>>) /\ web' = web /\ queue' = q /\ UNCHANGED <<task, shown, execs, handle, view, waiting>>
    BY <1>1 DEF CommitQueue, Skip
  <2> QED  BY <1>1, <2>1, MakesLast DEF QueueOnly
<1>2. PICK q : q = Finish(queue, TRUE)
  OBVIOUS
<1>3. q.run = 0 /\ q.started \in BOOLEAN
  BY <1>0, <1>2, FinishEffect
<1>4. PICK r : r = RejectBeforeStart(queue)
  OBVIOUS
<1>5. r.started \in BOOLEAN /\ (queue.started = FALSE => r.run = 0)
  <2>1. CASE queue.started = TRUE
    BY <1>0, <1>4, <2>1 DEF RejectBeforeStart
  <2>2. CASE queue.started = FALSE
    BY <1>0, <1>4, <2>2, RejectEffect
  <2> QED  BY <1>0, <2>1, <2>2
<1>6. PICK s : s = StopWaiting(queue)
  OBVIOUS
<1>7. s.run = 0 /\ s.started \in BOOLEAN
  BY <1>0, <1>6, StopEffect
<1>8. PICK t : t = StartingRuntime(queue)
  OBVIOUS
<1>13. t.run = queue.run /\ t.started \in BOOLEAN
  BY <1>0, <1>8 DEF StartingRuntime, Queue
<1>9. FinishFailed => QueueOnly("finishFailed") /\ queue'.run = 0
  <2> SUFFICES ASSUME FinishFailed PROVE QueueOnly("finishFailed") /\ queue'.run = 0
    OBVIOUS
  <2>1. CommitQueue("finishFailed", q, <<>>)
    BY <1>2, Zenon DEF FinishFailed
  <2> QED  BY <1>1, <1>3, <2>1
<1>10. Reject => QueueOnly("reject") /\ (queue.started = FALSE => queue'.run = 0)
  BY <1>1, <1>4, <1>5 DEF Reject
<1>11. StopParked => QueueOnly("stopWaiting") /\ queue'.run = 0
  BY <1>1, <1>6, <1>7 DEF StopParked
<1>12. ArmRuntime => QueueOnly("arm") /\ queue'.run = queue.run
  BY <1>1, <1>8, <1>13 DEF ArmRuntime
<1> QED  BY <1>9, <1>10, <1>11, <1>12

(* The commits of startTurnNow are all there.                               *)
OpensTurn(S) ==
    /\ (\E x \in S : x.op = "reset") /\ (\E x \in S : x.op = "run") /\ (\E x \in S : x.op = "reserve")
    /\ \A x \in S : x.op \in {"reset", "run", "arm", "reserve"}

(* Opening puts all of them on the agenda.                                  *)
LEMMA OpeningOpens ==
    ASSUME NEW turn
    PROVE  OpensTurn(OpeningSet(turn))
<1>1. PICK a, b, c, d : a = Open("reset", turn) /\ b = Open("run", turn) /\ c = Open("arm", turn) /\ d = Open("reserve", turn)
  OBVIOUS
<1>2. a.op = "reset" /\ b.op = "run" /\ c.op = "arm" /\ d.op = "reserve" /\ OpeningSet(turn) = {a, b, c, d}
  BY <1>1 DEF Open, OpeningSet
<1> QED  BY <1>2 DEF OpensTurn

(* beginRun: the turn waits for its skills, or is opened.                   *)
LEMMA BeginBegins ==
    ASSUME Sound, Begin
    PROVE  /\ Making("begin") /\ queue'.started = FALSE /\ queue'.run # 0
           /\ UNCHANGED <<task, shown, execs, handle, view, waiting>>
           /\ \A w \in waiting : w.run # queue'.run
           /\ \E S : /\ Todo' = S \cup Rest
                     /\ \/ Now.skills = TRUE /\ (\E x \in S : x.op = "park") /\ \A x \in S : x.op = "park"
                        \/ Now.skills = FALSE /\ OpensTurn(S)
<1>0. PICK turn, n, run, skills : turn = Now.turn /\ n = Now.turn.message /\ run = runs + 1 /\ skills = Now.skills
  OBVIOUS
<1>1. /\ TodoOk /\ TypeOK /\ Doing("begin") /\ queue \in Queue /\ RunsOk
      /\ queue' = BeginRun(queue, run, n, turn.request) /\ runs' = run
      /\ Then(IF skills THEN <<[op |-> "park", turn |-> turn]>> ELSE Opening(turn))
      /\ UNCHANGED <<task, shown, execs, handle, view, web, waiting>>
  BY <1>0 DEF Sound, Begin, Skip, bounds, TypeOK
<1>2. agenda # <<>> /\ web = "up" /\ Now.op = "begin" /\ Now \in Todo /\ Now \in AgendaSteps /\ TodoStepOk(Now)
  BY <1>1, Doings
<1>3. /\ turn \in Turns /\ turn.message = n /\ n \in Messages \cup {None} /\ turn.request \in Compactions \cup {None}
      /\ skills \in BOOLEAN
  BY <1>0, <1>2, StepFields DEF Turns
<1>4. runs \in Nat /\ run \in Nat /\ run # 0 /\ run = runs + 1
  BY <1>0, <1>1, TurnsAssumption DEF TypeOK
<1>5. queue'.run = run /\ queue'.started = FALSE
  <2>1. PICK q : q = BeginRun(queue, run, n, turn.request)
    OBVIOUS
  <2>2. NewRun(queue, q, run, n)
    BY <1>1, <1>3, <1>4, <2>1, BeginEffect
  <2>3. queue' = q
    BY <1>1, <2>1
  <2> QED  BY <2>2, <2>3 DEF NewRun
<1>6. \A w \in waiting : w.run # queue'.run
  <2>1. \A w \in waiting : w.run \in Nat /\ w.run <= runs
    BY <1>1, TurnsAssumption DEF TypeOK, RunsOk
  <2> QED  BY <1>4, <1>5, <2>1
<1>7. CASE skills = TRUE
  <2>1. PICK a : a = [op |-> "park", turn |-> turn]
    OBVIOUS
  <2>2. a \in AgendaSteps /\ a.op = "park" /\ Then(<<a>>)
    BY <1>1, <1>3, <1>7, <2>1 DEF AgendaSteps, Opens
  <2>3. \A b : Behind(Now.op, b) => Behind(a.op, b)
    BY <1>2, <2>2 DEF Behind, BeforeAnswers
  <2>4. Made({a})
    BY <1>1, <1>2, <2>2, <2>3, MadeOne
  <2>5. Making("begin") /\ Todo' = {a} \cup Rest
    BY <1>1, <2>4, Makes
  <2>6. (\E x \in {a} : x.op = "park") /\ \A x \in {a} : x.op = "park"
    BY <2>2
  <2> QED  BY <1>0, <1>1, <1>4, <1>5, <1>6, <1>7, <2>5, <2>6
<1>8. CASE skills = FALSE
  <2>1. Then(Opening(turn))
    BY <1>1, <1>8
  <2>2. Made(OpeningSet(turn))
    BY <1>1, <1>2, <1>3, <2>1, MadeOpening
  <2>3. PICK S : S = OpeningSet(turn)
    OBVIOUS
  <2>4. Making("begin") /\ Todo' = S \cup Rest
    BY <1>1, <2>2, <2>3, Makes
  <2>5. OpensTurn(S)
    BY <2>3, OpeningOpens
  <2> QED  BY <1>0, <1>1, <1>4, <1>5, <1>6, <1>8, <2>4, <2>5
<1> QED  BY <1>3, <1>7, <1>8

(* The catch of startTurnNow.                                               *)
LEMMA ThrowCatches ==
    ASSUME Sound, ReserveThrows
    PROVE  /\ Making("reserve") /\ handle' = 0 /\ UNCHANGED <<task, queue, shown, execs, view, waiting>>
           /\ (\E x \in Todo' : x.op = "fail") /\ (\E x \in Todo' : x.op = "finishFailed")
           /\ \A x \in Todo' : x.op \in {"fail", "finishFailed"} \/ x \in Rest
<1>1. /\ TodoOk /\ Doing("reserve") /\ handle' = 0 /\ Then(<<Do("fail"), Do("finishFailed")>>)
      /\ UNCHANGED <<task, queue, shown, execs, web, view, waiting>>
  BY DEF Sound, ReserveThrows, product
<1>2. PICK a, b : a = Do("fail") /\ b = Do("finishFailed")
  OBVIOUS
<1>3. a.op = "fail" /\ b.op = "finishFailed"
  BY <1>2 DEF Do
<1>4. Made({a, b})
  BY <1>1, <1>2, Catches
<1>5. Making("reserve") /\ Todo' = {a, b} \cup Rest
  BY <1>1, <1>4, Makes
<1> QED  BY <1>1, <1>3, <1>5

(* The reservation.                                                         *)
LEMMA ReserveReserves ==
    ASSUME Sound, Reserve
    PROVE  /\ Making("reserve") /\ Todo' = Rest /\ UNCHANGED <<task, queue, shown, waiting>>
           /\ handle' = Len(execs') /\ Len(execs') \in Nat \ {0}
           /\ view' = [exec |-> Len(execs'), cursor |-> 0, baseline |-> 0, listening |-> TRUE]
           /\ \/ LiveExec /\ execs' = execs
              \/ /\ ~LiveExec /\ Len(execs') = Len(execs) + 1
                 /\ \A e \in DOMAIN execs : execs'[e] = execs[e]
<1>1. /\ TodoOk /\ TypeOK /\ Doing("reserve") /\ Then(<<>>) /\ UNCHANGED <<task, queue, shown, waiting, web>>
      /\ handle' = Len(execs')
      /\ view' = [exec |-> Len(execs'), cursor |-> 0, baseline |-> 0, listening |-> TRUE]
      /\ execs' = IF LiveExec THEN execs ELSE Append(execs, NewExec(Now.turn))
  BY DEF Sound, Reserve, Skip, product, Watch
<1>2. Making("reserve") /\ Todo' = Rest
  BY <1>1, MakesLast
<1>3. execs \in Seq(Exec) /\ Len(execs) \in Nat
  BY <1>1 DEF TypeOK
<1>4. CASE LiveExec
  <2>1. execs' = execs /\ Len(execs) # 0
    BY <1>1, <1>3, <1>4 DEF LiveExec
  <2> QED  BY <1>1, <1>2, <1>3, <1>4, <2>1
<1>5. CASE ~LiveExec
  <2>1. PICK x : x = NewExec(Now.turn)
    OBVIOUS
  <2>2. execs' = Append(execs, x)
    BY <1>1, <1>5, <2>1
  <2>3. Len(execs') = Len(execs) + 1 /\ Len(execs') \in Nat \ {0} /\ \A e \in DOMAIN execs : execs'[e] = execs[e]
    BY <1>3, <2>2
  <2> QED  BY <1>1, <1>2, <1>5, <2>3
<1> QED  BY <1>4, <1>5

(* cancel.                                                                  *)
LEMMA CancelCommits ==
    ASSUME Sound, SetCancelled
    PROVE  /\ Making("cancelled") /\ UNCHANGED <<queue, shown, execs, handle, view, waiting>>
           /\ task'.status = "cancelled" /\ task'.rawSeq = task.rawSeq /\ task'.worktree = task.worktree
           /\ \A x \in Todo' : \/ x.op = "interrupt"
                               \/ x.op \in {"stopWaiting", "cleanup"} /\ handle = 0
<1>1. /\ TodoOk /\ Doing("cancelled") /\ UNCHANGED <<queue, shown, execs, handle, view, waiting, web>>
      /\ task' = [task EXCEPT !.status = "cancelled"]
      /\ \/ handle # 0 /\ Then(<<Do("interrupt")>>)
         \/ handle = 0 /\ Then(<<Do("stopWaiting"), Do("cleanup")>>)
         \/ handle = 0 /\ Then(<<Do("cleanup")>>)
  BY DEF Sound, SetCancelled, CommitTask, Skip, Transition
<1>2. agenda # <<>> /\ Now.op = "cancelled"
  BY <1>1 DEF Doing
<1>3. \A b : ~Behind(Now.op, b)
  BY <1>2 DEF Behind, BeforeAnswers
<1>4. PICK a, b, c : a = Do("interrupt") /\ b = Do("stopWaiting") /\ c = Do("cleanup")
  OBVIOUS
<1>5. /\ a.op = "interrupt" /\ b.op = "stopWaiting" /\ c.op = "cleanup"
      /\ a \in AgendaSteps /\ b \in AgendaSteps /\ c \in AgendaSteps
  BY <1>4 DEF Do, AgendaSteps, Plainly
<1>6. PICK S : Made(S) /\ (S = {a} \/ (handle = 0 /\ S \subseteq {b, c}))
  <2>1. CASE Then(<<Do("interrupt")>>)
    BY <1>1, <1>2, <1>3, <1>4, <1>5, <2>1, MadeOne
  <2>2. CASE handle = 0 /\ Then(<<Do("cleanup")>>)
    <3>1. Made({c})
      BY <1>1, <1>2, <1>3, <1>4, <1>5, <2>2, MadeOne
    <3> QED  BY <2>2, <3>1
  <2>3. CASE handle = 0 /\ Then(<<Do("stopWaiting"), Do("cleanup")>>)
    <3>1. Behind(b.op, c.op)
      BY <1>5 DEF Behind
    <3>2. Made({b, c})
      BY <1>1, <1>2, <1>3, <1>4, <1>5, <2>3, <3>1, MadeTwo
    <3> QED  BY <2>3, <3>2
  <2> QED  BY <1>1, <2>1, <2>2, <2>3
<1>7. Making("cancelled") /\ Todo' = S \cup Rest
  BY <1>1, <1>6, Makes
<1>8. Rest = {}
  BY <1>2, <1>3, <1>7 DEF Making
<1>9. task'.status = "cancelled" /\ task'.rawSeq = task.rawSeq /\ task'.worktree = task.worktree
  BY <1>1 DEF Sound, TypeOK
<1> QED  BY <1>1, <1>5, <1>6, <1>7, <1>8, <1>9

(* The commits to the row of the task that leave its status alone.          *)
LEMMA RowCommits ==
    ASSUME Sound
    PROVE  /\ Cleanup =>
                /\ Making("cleanup") /\ Todo' = Rest /\ UNCHANGED <<queue, shown, execs, handle, view, waiting>>
                /\ task'.status = task.status /\ task'.rawSeq = task.rawSeq
           /\ ResetCursor =>
                /\ Making("reset") /\ Todo' = Rest /\ UNCHANGED <<queue, shown, execs, handle, waiting>>
                /\ task'.status = task.status /\ task'.rawSeq = 0 /\ task'.worktree = task.worktree
                /\ view'.exec = view.exec /\ view'.cursor = view.cursor /\ view'.listening = view.listening
                /\ view'.baseline = 0
           /\ AppendEvent =>
                /\ Making("append") /\ Todo' = Rest /\ UNCHANGED <<queue, execs, handle, view, waiting>>
                /\ task'.status = task.status /\ task'.worktree = task.worktree
                /\ task'.rawSeq = Now.seq /\ shown' = Append(shown, <<Now.exec, Now.seq>>)
<1>0. TypeOK
  BY DEF Sound
<1>1. CASE Cleanup
  <2>1. /\ Doing("cleanup") /\ Then(<<>>) /\ web' = web /\ UNCHANGED <<queue, shown, execs, handle, view, waiting>>
        /\ task' = [task EXCEPT !.worktree = FALSE]
    BY <1>1 DEF Cleanup, CommitTask, Skip
  <2>2. task'.status = task.status /\ task'.rawSeq = task.rawSeq
    BY <1>0, <2>1 DEF TypeOK
  <2>3. ~ResetCursor /\ ~AppendEvent
    BY <2>1 DEF ResetCursor, AppendEvent, Doing
  <2> QED  BY <2>1, <2>2, <2>3, MakesLast
<1>2. CASE ResetCursor
  <2>1. /\ Doing("reset") /\ Then(<<>>) /\ web' = web /\ UNCHANGED <<queue, shown, execs, handle, waiting>>
        /\ task' = [task EXCEPT !.rawSeq = 0] /\ view' = [view EXCEPT !.baseline = 0]
    BY <1>2 DEF ResetCursor, Skip
  <2>2. task'.status = task.status /\ task'.rawSeq = 0 /\ task'.worktree = task.worktree
    BY <1>0, <2>1 DEF TypeOK
  <2>3. view'.exec = view.exec /\ view'.cursor = view.cursor /\ view'.listening = view.listening /\ view'.baseline = 0
    BY <1>0, <2>1 DEF TypeOK
  <2>4. ~Cleanup /\ ~AppendEvent
    BY <2>1 DEF Cleanup, CommitTask, AppendEvent, Doing
  <2> QED  BY <2>1, <2>2, <2>3, <2>4, MakesLast
<1>3. CASE AppendEvent
  <2>1. /\ Doing("append") /\ Then(<<>>) /\ web' = web /\ UNCHANGED <<queue, execs, handle, view, waiting>>
        /\ task' = [task EXCEPT !.rawSeq = Now.seq] /\ shown' = Append(shown, <<Now.exec, Now.seq>>)
    BY <1>3 DEF AppendEvent, Skip
  <2>2. task'.status = task.status /\ task'.rawSeq = Now.seq /\ task'.worktree = task.worktree
    BY <1>0, <2>1 DEF TypeOK
  <2>3. ~Cleanup /\ ~ResetCursor
    BY <2>1 DEF Cleanup, CommitTask, ResetCursor, Doing
  <2> QED  BY <2>1, <2>2, <2>3, MakesLast
<1> QED  BY <1>1, <1>2, <1>3

(* The turn is waited for.                                                  *)
LEMMA ParkParks ==
    ASSUME Sound, Park
    PROVE  /\ Making("park") /\ Todo' = Rest /\ UNCHANGED <<queue, shown, execs, handle, view>>
           /\ task'.status = "queued" /\ \E w \in waiting' : w.run = queue.run
           /\ \A w \in waiting' : w \in waiting \/ w.run = queue.run
<1>1. /\ Doing("park") /\ Then(<<>>) /\ web' = web /\ UNCHANGED <<queue, shown, execs, handle, view>>
      /\ task' = [task EXCEPT !.status = "queued"] /\ waiting' = waiting \cup {[run |-> queue.run, turn |-> Now.turn]}
  BY DEF Park, Transition
<1>2. PICK w : w = [run |-> queue.run, turn |-> Now.turn]
  OBVIOUS
<1>3. w.run = queue.run /\ waiting' = waiting \cup {w}
  BY <1>1, <1>2
<1>4. task'.status = "queued"
  BY <1>1 DEF Sound, TypeOK
<1> QED  BY <1>1, <1>3, <1>4, MakesLast

-----------------------------------------------------------------------------
(* The commit with which finishTurn takes the task out of the turn.         *)
Settles == Making("settle") /\ UNCHANGED <<shown, execs, handle, view, waiting>> /\ queue'.started = queue.started

(* It is one of the three ways to settle: cancelled, stopped or by outcome.  *)
LEMMA SettleSettles ==
    ASSUME Sound
    PROVE  /\ SettleCancelled =>
                /\ Settles /\ task.status = "cancelled" /\ task' = task /\ queue'.run \in {0, queue.run}
                /\ \A x \in Todo' : x.op = "cleanup" \/ x \in Rest
           /\ SettleStopped =>
                /\ Settles /\ task.status # "cancelled" /\ queue' = queue
                /\ task'.status = "idle" /\ task'.rawSeq = task.rawSeq /\ task'.worktree = task.worktree
                /\ \E x \in Todo' : x.op = "finishFailed"
                /\ \A x \in Todo' : x.op = "finishFailed" \/ x \in Rest
           /\ Settle =>
                /\ Settles /\ task.status # "cancelled" /\ queue'.run = 0
                /\ task'.status \in {"idle", "failed"} /\ task'.rawSeq = task.rawSeq /\ task'.worktree = task.worktree
                /\ \A x \in Todo' : x.op \in {"chain", "pump"} \/ x \in Rest
<1>0. /\ TodoOk /\ TypeOK /\ queue \in Queue
      /\ task \in [status : Status, pending : BOOLEAN, rawSeq : Nat, worktree : BOOLEAN]
  BY DEF Sound, TypeOK
<1>1. ASSUME NEW op \in Plainly, op \in BeforeAnswers, Doing("settle"), Then(<<Do(op)>>), web' = web
      PROVE  Making("settle") /\ (\E x \in Todo' : x.op = op) /\ \A x \in Todo' : x.op = op \/ x \in Rest
  <2>1. PICK a : a = Do(op)
    OBVIOUS
  <2>2. a.op = op /\ a \in AgendaSteps
    BY <2>1 DEF Do, AgendaSteps
  <2>3. agenda # <<>> /\ Now.op = "settle"
    BY <1>1 DEF Doing
  <2>4. \A b : Behind(Now.op, b) => Behind(a.op, b)
    BY <1>1, <2>2, <2>3 DEF Behind, BeforeAnswers
  <2>5. Made({a})
    BY <1>0, <1>1, <2>1, <2>2, <2>3, <2>4, MadeOne
  <2>6. Making("settle") /\ Todo' = {a} \cup Rest
    BY <1>1, <2>5, Makes
  <2> QED  BY <2>2, <2>6
<1>2. /\ "cleanup" \in Plainly /\ "cleanup" \in BeforeAnswers /\ "finishFailed" \in Plainly /\ "finishFailed" \in BeforeAnswers
      /\ "chain" \in Plainly /\ "chain" \in BeforeAnswers /\ "pump" \in Plainly /\ "pump" \in BeforeAnswers
  BY DEF Plainly, BeforeAnswers
<1>3. ASSUME SettleCancelled
      PROVE  /\ Settles /\ task.status = "cancelled" /\ task' = task /\ queue'.run \in {0, queue.run}
             /\ \A x \in Todo' : x.op = "cleanup" \/ x \in Rest
  <2>1. /\ Doing("settle") /\ Then(<<Do("cleanup")>>) /\ web' = web /\ UNCHANGED <<task, shown, execs, handle, view, waiting>>
        /\ task.status = "cancelled"
        /\ queue' = IF Compacting(queue) THEN Finish(queue, TRUE) ELSE queue
    BY <1>3 DEF SettleCancelled, Skip
  <2>2. queue'.run \in {0, queue.run} /\ queue'.started = queue.started
    <3>1. CASE Compacting(queue)
      <4>1. PICK q : q = Finish(queue, TRUE)
        OBVIOUS
      <4>2. queue' = q
        BY <2>1, <3>1, <4>1, Zenon
      <4> QED  BY <1>0, <4>1, <4>2, FinishEffect
    <3>2. CASE ~Compacting(queue)
      BY <2>1, <3>2
    <3> QED  BY <3>1, <3>2
  <2>3. Making("settle") /\ \A x \in Todo' : x.op = "cleanup" \/ x \in Rest
    BY <1>1, <1>2, <2>1
  <2> QED  BY <2>1, <2>2, <2>3 DEF Settles
<1>4. ASSUME SettleStopped
      PROVE  /\ Settles /\ task.status # "cancelled" /\ queue' = queue
             /\ task'.status = "idle" /\ task'.rawSeq = task.rawSeq /\ task'.worktree = task.worktree
             /\ \E x \in Todo' : x.op = "finishFailed"
             /\ \A x \in Todo' : x.op = "finishFailed" \/ x \in Rest
  <2>1. /\ Doing("settle") /\ Then(<<Do("finishFailed")>>) /\ web' = web /\ UNCHANGED <<queue, shown, execs, handle, view, waiting>>
        /\ task.status # "cancelled" /\ task' = [task EXCEPT !.status = "idle"]
    BY <1>4 DEF SettleStopped, CommitTask, Skip, Transition
  <2>2. task'.status = "idle" /\ task'.rawSeq = task.rawSeq /\ task'.worktree = task.worktree
    BY <1>0, <2>1
  <2>3. Making("settle") /\ (\E x \in Todo' : x.op = "finishFailed") /\ \A x \in Todo' : x.op = "finishFailed" \/ x \in Rest
    BY <1>1, <1>2, <2>1
  <2> QED  BY <2>1, <2>2, <2>3 DEF Settles
<1>5. ASSUME Settle
      PROVE  /\ Settles /\ task.status # "cancelled" /\ queue'.run = 0
             /\ task'.status \in {"idle", "failed"} /\ task'.rawSeq = task.rawSeq /\ task'.worktree = task.worktree
             /\ \A x \in Todo' : x.op \in {"chain", "pump"} \/ x \in Rest
  <2>1. PICK failed \in BOOLEAN : failed = TurnFailed(Now)
    BY DEF TurnFailed
  <2>2. PICK q, status : q = Finish(queue, failed) /\ status = IF failed THEN "failed" ELSE "idle"
    OBVIOUS
  <2>3. /\ Doing("settle") /\ web' = web /\ UNCHANGED <<shown, execs, handle, view, waiting>>
        /\ task.status # "cancelled" /\ task' = [task EXCEPT !.status = status] /\ queue' = q
        /\ Then(<<>>) \/ Then(<<Do("chain")>>) \/ Then(<<Do("pump")>>)
    BY <1>5, <2>1, <2>2 DEF Settle, Skip, Transition
  <2>4. task'.status = status /\ status \in {"idle", "failed"} /\ task'.rawSeq = task.rawSeq /\ task'.worktree = task.worktree
    BY <1>0, <2>2, <2>3
  <2>5. queue'.run = 0 /\ queue'.started = queue.started
    BY <1>0, <2>2, <2>3, FinishEffect
  <2>6. Making("settle") /\ \A x \in Todo' : x.op \in {"chain", "pump"} \/ x \in Rest
    <3>1. CASE Then(<<>>)
      BY <2>3, <3>1, MakesLast
    <3>2. CASE Then(<<Do("chain")>>)
      BY <1>1, <1>2, <2>3, <3>2
    <3>3. CASE Then(<<Do("pump")>>)
      BY <1>1, <1>2, <2>3, <3>3
    <3> QED  BY <2>3, <3>1, <3>2, <3>3
  <2> QED  BY <2>3, <2>4, <2>5, <2>6 DEF Settles
<1> QED  BY <1>3, <1>4, <1>5

(* The skills of a turn that waited are there, or are not.                  *)
LEMMA SkillsArrive ==
    ASSUME Sound, NEW w \in waiting, SkillsResolve(w) \/ SkillsFail(w)
    PROVE  /\ web = "up" /\ Todo = {} /\ waiting' = waiting \ {w} /\ UNCHANGED <<task, queue, shown, execs, web, view>>
           /\ \/ Current(w) /\ task.status \notin Closed /\ OpensTurn(Todo')
              \/ Todo' = {} /\ (Current(w) => task.status # "queued")
              \/ /\ Current(w) /\ task.status = "queued"
                 /\ (\E x \in Todo' : x.op = "fail") /\ (\E x \in Todo' : x.op = "reject")
                 /\ \A x \in Todo' : x.op \in {"fail", "reject"}
<1>1. /\ Idle /\ waiting' = waiting \ {w} /\ UNCHANGED <<task, queue, shown, execs, web, view>>
      /\ TypeOK
  BY DEF SkillsResolve, SkillsFail, product, Sound
<1>2. web = "up" /\ agenda = <<>> /\ Todo = {}
  BY <1>1, FewElements DEF Idle, Todo
<1>3. CASE SkillsResolve(w)
  <2>1. CASE Current(w) /\ task.status \notin Closed
    <3>1. agenda' = Opening(w.turn) /\ w.turn \in Turns
      BY <1>1, <1>3, <2>1 DEF SkillsResolve, TypeOK
    <3>2. Todo' = OpeningSet(w.turn)
      BY <3>1, OpeningSteps DEF Todo
    <3> QED  BY <1>1, <1>2, <2>1, <3>2, OpeningOpens
  <2>2. CASE ~(Current(w) /\ task.status \notin Closed)
    <3>1. Todo' = {}
      BY <1>2, <1>3, <2>2, FewElements DEF SkillsResolve, Todo
    <3> QED  BY <1>1, <1>2, <2>2, <3>1 DEF Closed
  <2> QED  BY <2>1, <2>2
<1>4. CASE SkillsFail(w)
  <2>1. CASE Current(w) /\ task.status = "queued"
    <3>1. PICK a, b : a = Do("fail") /\ b = Do("reject")
      OBVIOUS
    <3>2. Todo' = {a, b} /\ a.op = "fail" /\ b.op = "reject"
      BY <1>4, <2>1, <3>1, FewElements DEF SkillsFail, Todo, Do
    <3> QED  BY <1>1, <1>2, <2>1, <3>2
  <2>2. CASE ~(Current(w) /\ task.status = "queued")
    <3>1. Todo' = {}
      BY <1>4, <2>2, FewElements DEF SkillsFail, Todo
    <3> QED  BY <1>1, <1>2, <2>2, <3>1
  <2> QED  BY <2>1, <2>2
<1> QED  BY <1>3, <1>4

(* What an entry of the journal makes of the row of the task.               *)
LEMMA StatusAfter ==
    ASSUME NEW event, task \in [status : Status, pending : BOOLEAN, rawSeq : Nat, worktree : BOOLEAN],
           NEW row, row = TaskAfter(event)
    PROVE  /\ row.rawSeq = task.rawSeq /\ row.worktree = task.worktree
           /\ row.status = task.status \/ (task.status # "cancelled" /\ row.status \in InFlight)
<1>1. \/ row \in {Transition("queued"), Transition("running")} /\ task.status # "cancelled"
      \/ row = [task EXCEPT !.pending = TRUE, !.status = IF @ = "running" THEN "awaiting_input" ELSE @]
      \/ row \in {ResolveInput(task), task}
  BY DEF TaskAfter
<1>2. CASE row \in {Transition("queued"), Transition("running")} /\ task.status # "cancelled"
  BY <1>2 DEF Transition, InFlight
<1>3. CASE row = [task EXCEPT !.pending = TRUE, !.status = IF @ = "running" THEN "awaiting_input" ELSE @]
  BY <1>3 DEF InFlight
<1>4. CASE row = ResolveInput(task)
  BY <1>4 DEF ResolveInput, InFlight
<1>5. CASE row = task
  BY <1>5
<1> QED  BY <1>1, <1>2, <1>3, <1>4, <1>5

(* onRaw.                                                                   *)
LEMMA ProjectProjects ==
    ASSUME Sound, Project
    PROVE  /\ web = "up" /\ Todo = {} /\ UNCHANGED <<shown, execs, web, handle, waiting>> /\ SameRun
           /\ view.exec # 0 /\ view'.exec = view.exec /\ view'.cursor = view.cursor + 1
           /\ view'.baseline = view.baseline /\ view'.listening = view.listening
           /\ task'.rawSeq = task.rawSeq /\ task'.worktree = task.worktree
           /\ task'.status = task.status \/ (task.status # "cancelled" /\ task'.status \in InFlight)
           /\ \/ view.cursor + 1 <= view.baseline /\ Todo' = {}
              \/ \E x : Todo' = {x} /\ x.op = "append" /\ x.exec = view.exec /\ x.seq = view.cursor + 1
<1>1. /\ Idle /\ TypeOK /\ UNCHANGED <<shown, execs, web, handle, waiting>> /\ view.exec # 0
      /\ view' = [view EXCEPT !.cursor = view.cursor + 1]
  BY DEF Project, Sound
<1>2. SameRun
  BY RunAlone
<1>3. web = "up" /\ agenda = <<>> /\ Todo = {}
  BY <1>1, FewElements DEF Idle, Todo
<1>4. /\ view'.exec = view.exec /\ view'.cursor = view.cursor + 1 /\ view'.baseline = view.baseline
      /\ view'.listening = view.listening
  BY <1>1 DEF TypeOK
<1>5. CASE Suppressed
  <2>1. task' = task /\ agenda' = agenda /\ view.cursor + 1 <= view.baseline
    BY <1>5 DEF Project, Suppressed
  <2>2. Todo' = {}
    BY <1>3, <2>1, FewElements DEF Todo
  <2> QED  BY <1>1, <1>2, <1>3, <1>4, <2>1, <2>2
<1>6. CASE ~Suppressed
  <2>1. PICK event, x : event = NextEntry /\ x = [op |-> "append", exec |-> view.exec, seq |-> view.cursor + 1]
    OBVIOUS
  <2>2. task' = TaskAfter(event) /\ agenda' = <<x>>
    BY <1>6, <2>1 DEF Project
  <2>3. /\ task'.rawSeq = task.rawSeq /\ task'.worktree = task.worktree
        /\ task'.status = task.status \/ (task.status # "cancelled" /\ task'.status \in InFlight)
    BY <1>1, <2>2, StatusAfter DEF TypeOK
  <2>4. Todo' = {x} /\ x.op = "append" /\ x.exec = view.exec /\ x.seq = view.cursor + 1
    BY <2>1, <2>2, FewElements DEF Todo
  <2> QED  BY <1>1, <1>2, <1>3, <1>4, <2>3, <2>4
<1> QED  BY <1>5, <1>6

(* finishTurn.                                                              *)
LEMMA EndLeaves ==
    ASSUME Sound, IsFiniteSet(steers), TurnEnds
    PROVE  /\ web = "up" /\ Todo = {} /\ UNCHANGED <<queue, shown, execs, web, waiting>>
           /\ handle' = 0 /\ view'.exec = 0 /\ CaughtUp /\ execs[view.exec].state = "ended"
           /\ task'.status = task.status /\ task'.rawSeq = task.rawSeq /\ task'.worktree = task.worktree
           /\ \E x \in Todo' : x.op = "control"
           /\ \A x \in Todo' : x.op \in {"control", "answer"}
<1>1. /\ Idle /\ TypeOK /\ UNCHANGED <<queue, shown, execs, web, waiting>> /\ handle' = 0 /\ view' = NoView
      /\ CaughtUp /\ execs[view.exec].state = "ended" /\ task' = [task EXCEPT !.pending = FALSE]
  BY DEF TurnEnds, Sound
<1>2. web = "up" /\ Todo = {} /\ view'.exec = 0
  BY <1>1, FewElements DEF Idle, Todo, NoView
<1>3. task'.status = task.status /\ task'.rawSeq = task.rawSeq /\ task'.worktree = task.worktree
  BY <1>1 DEF TypeOK
<1>4. PICK e : e = view.exec
  OBVIOUS
<1>5. PICK a : a = [op |-> "control", stopped |-> control.stopping, restarted |-> control.restart, outcome |-> execs[e].outcome]
  OBVIOUS
<1>6. PICK answers \in [1..Cardinality(Late(e)) -> Late(e)] : agenda' = <<a>> \o answers
  BY <1>4, <1>5 DEF TurnEnds
<1>7. Cardinality(Late(e)) \in Nat /\ a.op = "control" /\ \A x \in Late(e) : x.op = "answer"
  BY <1>5, LateFinite DEF Late, Answer
<1>8. answers \in Seq(Late(e)) /\ Len(answers) = Cardinality(Late(e))
  BY <1>7
<1>9. PICK S : S = Late(e) \cup {a}
  OBVIOUS
<1>10. /\ agenda' \in Seq(S) /\ DOMAIN agenda' = 1..(Len(answers) + 1) /\ agenda'[1] = a
       /\ \A i \in 1..Len(answers) : agenda'[i + 1] = answers[i]
  <2>1. answers \in Seq(S) /\ <<a>> \in Seq(S) /\ Len(answers) \in Nat
    BY <1>7, <1>8, <1>9
  <2> QED  BY <1>6, <2>1
<1>11. a \in Todo'
  BY <1>7, <1>8, <1>10 DEF Todo, Elements
<1>12. \A x \in Todo' : x \in S
  BY <1>10 DEF Todo, Elements
<1> QED  BY <1>1, <1>2, <1>3, <1>7, <1>9, <1>11, <1>12

(* init.                                                                    *)
LEMMA BootBoots ==
    ASSUME Sound, Boot
    PROVE  /\ web = "down" /\ web' = "up" /\ Todo = {} /\ Todo' = {} /\ waiting = {} /\ handle = 0
           /\ UNCHANGED <<task, shown, execs, waiting>> /\ (task.status \in InFlight => execs # <<>>)
           /\ Len(execs) \in Nat /\ (execs # <<>> => Len(execs) # 0)
           /\ \/ /\ Reattached /\ handle' = Len(execs)
                 /\ view' = [exec |-> Len(execs), cursor |-> 0, baseline |-> task.rawSeq, listening |-> TRUE]
              \/ ~Reattached /\ handle' = handle /\ view' = view /\ queue'.run = 0
<1>1. /\ web = "down" /\ web' = "up" /\ UNCHANGED <<task, shown, execs, waiting, agenda>>
      /\ (task.status \in InFlight => execs # <<>>)
      /\ IF Reattached
         THEN /\ handle' = Len(execs)
              /\ view' = [exec |-> Len(execs), cursor |-> 0, baseline |-> task.rawSeq, listening |-> TRUE]
         ELSE UNCHANGED <<handle, view>>
  BY DEF Boot, Recoverable, Watch
<1>2. agenda = <<>> /\ waiting = {} /\ handle = 0
  BY <1>1 DEF Sound, TodoOk
<1>3. Todo = {} /\ Todo' = {}
  BY <1>1, <1>2, FewElements DEF Todo
<1>4. execs \in Seq(Exec) /\ queue \in Queue
  BY DEF Sound, TypeOK
<1>5. Len(execs) \in Nat /\ (execs # <<>> => Len(execs) # 0)
  BY <1>4
<1>6. CASE Reattached
  BY <1>1, <1>2, <1>3, <1>5, <1>6
<1>7. CASE ~Reattached
  <2>1. PICK live \in BOOLEAN : live = Reattached
    BY DEF Reattached
  <2>2. queue' = Recover(queue, live)
    BY <2>1 DEF Boot
  <2>3. queue'.run = 0
    BY <1>4, <1>7, <2>1, <2>2, RecoverEffect
  <2> QED  BY <1>1, <1>2, <1>3, <1>5, <1>7, <2>3
<1> QED  BY <1>6, <1>7

(* Executions go on, but those that have ended do not.                      *)
ExecsProceed ==
    /\ Len(execs') = Len(execs) /\ DOMAIN execs' = DOMAIN execs
    /\ \A e \in DOMAIN execs : execs[e].state = "ended" => execs'[e].state = "ended" /\ execs'[e].journal = execs[e].journal

(* Whatever an execution does, the web sees only its journal grow.          *)
LEMMA ExecutionProceeds ==
    ASSUME Sound, Execution
    PROVE  /\ UNCHANGED <<task, queue, shown, web, handle, view, waiting, agenda>>
           /\ ExecsProceed
<1>1. execs \in Seq(Exec)
  BY DEF Sound, TypeOK
<1>2. PICK e \in DOMAIN execs :
        \/ ExecStarts(e) \/ ExecAsks(e) \/ ExecResolves(e) \/ ExecEnds(e)
        \/ \E m \in Messages : ExecDelivers(e, m) \/ ExecRejects(e, m)
  BY DEF Execution
<1>3. execs[e] \in Exec
  BY <1>1
<1>4. UNCHANGED <<task, queue, shown, web, handle, view, waiting, agenda>>
  BY <1>2 DEF ExecStarts, ExecAsks, ExecResolves, ExecEnds, ExecDelivers, ExecRejects, Alone, product, memory
<1> SUFFICES ExecsProceed
  BY <1>4
<1>5. ASSUME NEW x, execs' = [execs EXCEPT ![e] = x],
             execs[e].state = "ended" => x.state = "ended" /\ x.journal = execs[e].journal
      PROVE  ExecsProceed
  <2>1. /\ DOMAIN execs' = DOMAIN execs /\ Len(execs') = Len(execs) /\ execs'[e] = x
        /\ \A d \in DOMAIN execs : d # e => execs'[d] = execs[d]
    BY <1>1, <1>5
  <2> QED  BY <1>5, <2>1 DEF ExecsProceed
<1>6. ASSUME NEW x, execs' = [execs EXCEPT ![e] = x], execs[e].state # "ended" PROVE ExecsProceed
  BY <1>5, <1>6
<1>7. CASE ExecStarts(e)
  <2>1. PICK x : x = [execs[e] EXCEPT !.state = "running", !.journal = Append(execs[e].journal, Event("started", None))]
    OBVIOUS
  <2>2. execs' = [execs EXCEPT ![e] = x] /\ execs[e].state # "ended"
    BY <1>1, <1>7, <2>1 DEF ExecStarts
  <2> QED  BY <1>6, <2>2
<1>12. ASSUME NEW event, Journal(e, event), execs[e].state = "running" PROVE ExecsProceed
  <2>1. PICK x : x = [execs[e] EXCEPT !.journal = Append(execs[e].journal, event)]
    OBVIOUS
  <2>2. execs' = [execs EXCEPT ![e] = x] /\ execs[e].state # "ended"
    BY <1>1, <1>12, <2>1 DEF Journal
  <2> QED  BY <1>6, <2>2
<1>8. CASE ExecAsks(e) \/ ExecResolves(e)
  BY <1>8, <1>12 DEF ExecAsks, ExecResolves
<1>9. CASE ExecEnds(e)
  <2>1. execs[e].state # "ended"
    BY <1>9 DEF ExecEnds
  <2>2. PICK outcome : execs' = [execs EXCEPT ![e] = End(execs[e], outcome)]
    BY <1>9 DEF ExecEnds
  <2> QED  BY <1>6, <2>1, <2>2
<1>10. ASSUME NEW m \in Messages, ExecDelivers(e, m) PROVE ExecsProceed
  <2>1. CASE Journal(e, Event("delivered", m))
    BY <1>10, <1>12, <2>1 DEF ExecDelivers
  <2>2. CASE execs' = [execs EXCEPT ![e].sends[m] = "delivered", ![e].journal = Append(@, Event("delivered", m))]
    <3>1. PICK j : j = Append(execs[e].journal, Event("delivered", m))
      OBVIOUS
    <3>2. execs' = [execs EXCEPT ![e] = [execs[e] EXCEPT !.sends[m] = "delivered", !.journal = j]]
      BY <1>1, <1>3, <2>2, <3>1 DEF Exec
    <3>3. execs[e].state # "ended"
      BY <1>10 DEF ExecDelivers
    <3> QED  BY <1>6, <3>2, <3>3
  <2> QED  BY <1>10, <2>1, <2>2 DEF ExecDelivers
<1>11. ASSUME NEW m \in Messages, ExecRejects(e, m) PROVE ExecsProceed
  <2>1. PICK x : x = [execs[e] EXCEPT !.sends[m] = "rejected"]
    OBVIOUS
  <2>2. execs' = [execs EXCEPT ![e] = x]
    BY <1>11, <2>1 DEF ExecRejects
  <2>3. x.state = execs[e].state /\ x.journal = execs[e].journal
    BY <1>3, <2>1 DEF Exec
  <2> QED  BY <1>5, <2>2, <2>3
<1> QED  BY <1>2, <1>7, <1>8, <1>9, <1>10, <1>11

-----------------------------------------------------------------------------
(* Every run and every task in flight keeps its owner.                      *)

(* Requests.                                                                *)
LEMMA AskingKeepsOwner ==
    ASSUME OwnerOk, Asks
    PROVE  OwnerOk'
<1>1. \A x \in Todo' : Partner(x)'
  BY DEF Asks, Fresh, Dull, Partner, Pending
<1>2. Owner' <=> Owner
  BY DEF Asks, SameRun, Owner, Parked, Current
<1>3. \A S : ~Pending(S)
  BY DEF Asks, Pending
<1> QED  BY <1>1, <1>2, <1>3 DEF OwnerOk, Asks, SameRun

(* Commits after which the turn goes on.                                    *)
LEMMA ProceedingKeepsOwner ==
    ASSUME OwnerOk, Proceeds
    PROVE  OwnerOk'
<1>1. \A x \in Todo' : Partner(x)'
  BY DEF Proceeds, Continues, Dull, Partner
<1>2. Owner' <=> Owner
  BY DEF Proceeds, SameRun, Owner, Parked, Current
<1>3. (Pending(EndsRun) => Pending(EndsRun)') /\ (Pending(EndsFlight) => Pending(EndsFlight)')
  <2>1. Pending(EndsRun) \/ Pending(EndsFlight) => Now.op \in {"control", "begin"}
    BY DEF Proceeds, Pending, EndsRun, EndsFlight, Dull
  <2>2. Pending(EndsRun) \/ Pending(EndsFlight) => \E x \in Todo' : x.op = "settle"
    BY <2>1 DEF Proceeds, Dull
  <2> QED  BY <2>2 DEF Pending, EndsRun, EndsFlight
<1> QED  BY <1>1, <1>2, <1>3 DEF OwnerOk, Proceeds, SameRun

(* The creation of the task.                                                *)
LEMMA CreatingKeepsOwner ==
    ASSUME Sound, OwnerOk, NEW skills, CreateTask(skills)
    PROVE  OwnerOk'
<1>1. /\ web = "up" /\ task.status = "none" /\ task' = [task EXCEPT !.status = "queued"]
      /\ UNCHANGED <<queue, web, view, waiting>> /\ agenda' = <<[op |-> "begin", turn |-> Plain, skills |-> skills]>>
  BY DEF CreateTask, Idle, Exists, Request
<1>2. PICK a : a = [op |-> "begin", turn |-> Plain, skills |-> skills]
  OBVIOUS
<1>3. a.op = "begin" /\ Todo' = {a}
  BY <1>1, <1>2, FewElements DEF Todo
<1>4. task'.status = "queued"
  BY <1>1 DEF Sound, TypeOK
<1>5. queue.run = 0
  <2>1. queue \in Queue /\ queue.run <= runs /\ runs = 0
    BY <1>1 DEF Sound, TypeOK, RunsOk
  <2>2. queue.run \in Nat
    BY <2>1, QueueFields
  <2> QED  BY <2>1, <2>2
<1>6. \A x \in Todo' : Partner(x)'
  BY <1>3 DEF Partner
<1>7. Pending(EndsFlight)'
  BY <1>3 DEF Pending, EndsFlight
<1> QED  BY <1>1, <1>5, <1>6, <1>7 DEF OwnerOk

(* Commits that set the status.                                             *)
LEMMA StatusKeepsOwner ==
    ASSUME OwnerOk, NEW op, NEW status, StatusOnly(op, status),
           <<op, status>> \in {<<"run", "running">>, <<"fail", "failed">>, <<"dequeue", "idle">>, <<"archived", "archived">>}
    PROVE  OwnerOk'
<1>1. /\ Making(op) /\ Todo' = Rest /\ UNCHANGED <<queue, view, waiting>> /\ task'.status = status /\ Partner(Now)
      /\ web' = "up"
  BY DEF StatusOnly, Making, OwnerOk
<1>2. CASE op = "run" /\ status = "running"
  <2>1. Pending({"reserve"}) /\ Todo = {Now} \cup Rest /\ Now.op = "run"
    BY <1>1, <1>2 DEF Making, Partner
  <2>2. Pending(EndsRun)' /\ Pending(EndsFlight)'
    BY <1>1, <2>1 DEF Pending, EndsRun, EndsFlight
  <2>3. \A x \in Todo' : Partner(x)'
    BY <1>1, <1>2 DEF Making, Behind, Partner
  <2> QED  BY <1>1, <2>2, <2>3 DEF OwnerOk
<1>3. CASE op = "fail" /\ status = "failed"
  <2>1. Pending({"finishFailed", "reject"}) /\ Todo = {Now} \cup Rest /\ Now.op = "fail"
    BY <1>1, <1>3 DEF Making, Partner
  <2>2. Pending(EndsRun)'
    BY <1>1, <2>1 DEF Pending, EndsRun
  <2>3. \A x \in Todo' : Partner(x)'
    <3> SUFFICES ASSUME NEW x \in Rest PROVE Partner(x)'
      BY <1>1
    <3>1. Partner(x) /\ x.op \in {"reject", "finishFailed", "answer"}
      BY <1>1, <1>3, <2>1 DEF OwnerOk, Making, Behind
    <3> QED  BY <1>1, <1>3, <3>1 DEF Partner, InFlight
  <2> QED  BY <1>1, <1>3, <2>2, <2>3 DEF OwnerOk, InFlight
<1>4. CASE op = "dequeue" /\ status = "idle"
  <2>1. Pending({"stopWaiting"}) /\ Todo = {Now} \cup Rest /\ Now.op = "dequeue"
    BY <1>1, <1>4 DEF Making, Partner
  <2>2. Pending(EndsRun)'
    BY <1>1, <2>1 DEF Pending, EndsRun
  <2>3. \A x \in Todo' : Partner(x)'
    BY <1>1, <1>4 DEF Making, Behind, BeforeAnswers, Partner, InFlight
  <2> QED  BY <1>1, <1>4, <2>2, <2>3 DEF OwnerOk, InFlight
<1>5. CASE op = "archived" /\ status = "archived"
  <2>1. \A x \in Todo' : Partner(x)'
    BY <1>1, <1>5 DEF Making, Behind, BeforeAnswers, Partner
  <2> QED  BY <1>1, <1>5, <2>1 DEF OwnerOk, InFlight, Closed
<1> QED  BY <1>2, <1>3, <1>4, <1>5

(* Commits that end the run.                                                *)
LEMMA RunEndKeepsOwner ==
    ASSUME Sound, OwnerOk, FinishFailed \/ Reject \/ StopParked
    PROVE  OwnerOk'
<1>1. PICK op \in {"finishFailed", "reject", "stopWaiting"} : QueueOnly(op) /\ (op # "reject" \/ queue.started = FALSE => queue'.run = 0)
  BY RunCommits
<1>2. /\ Making(op) /\ Todo' = Rest /\ UNCHANGED <<task, view, waiting>> /\ Partner(Now) /\ Now.op = op
      /\ Todo = {Now} \cup Rest /\ web' = "up"
  BY <1>1 DEF QueueOnly, Making, OwnerOk
<1>3. queue'.run = 0
  BY <1>1, <1>2 DEF Partner
<1>4. \A x \in Rest : x.op \in {"answer", "cleanup"}
  BY <1>1, <1>2 DEF Making, Behind, BeforeAnswers
<1>5. task.status \notin InFlight
  BY <1>1, <1>2, <1>4 DEF Partner, Pending
<1>6. \A x \in Todo' : Partner(x)'
  BY <1>2, <1>4 DEF Partner
<1>7. \A w \in waiting : w.run # 0
  BY TurnsAssumption DEF Sound, TypeOK
<1> QED  BY <1>2, <1>3, <1>5, <1>6, <1>7 DEF OwnerOk

(* The runtime is armed.                                                    *)
LEMMA ArmKeepsOwner ==
    ASSUME Sound, OwnerOk, ArmRuntime
    PROVE  OwnerOk'
<1>1. QueueOnly("arm") /\ queue'.run = queue.run
  BY RunCommits
<1>2. /\ Making("arm") /\ Todo' = Rest /\ UNCHANGED <<task, view, waiting>> /\ Now.op = "arm"
      /\ Todo = {Now} \cup Rest /\ web' = "up" /\ web = "up" /\ TodoStepOk(Now)
  BY <1>1 DEF QueueOnly, Making
<1>3. \A w \in waiting : w.run # queue.run
  BY <1>2 DEF TodoStepOk
<1>4. \A x \in Rest : x.op \in {"answer", "reserve"}
  BY <1>2 DEF Making, Behind, BeforeAnswers
<1>5. \A x \in Todo' : Partner(x)'
  BY <1>2, <1>4 DEF Partner
<1>6. (Pending(EndsRun) => Pending(EndsRun)') /\ (Pending(EndsFlight) => Pending(EndsFlight)')
  BY <1>2 DEF Pending, EndsRun, EndsFlight
<1>7. Owner' <=> Owner
  BY <1>1, <1>2 DEF Owner, Parked, Current
<1> QED  BY <1>1, <1>2, <1>3, <1>5, <1>6, <1>7 DEF OwnerOk

(* beginRun, and the turn that waits.                                       *)
LEMMA BeginKeepsOwner ==
    ASSUME Sound, OwnerOk, Begin \/ Park
    PROVE  OwnerOk'
<1>1. CASE Begin
  <2>1. /\ Making("begin") /\ queue'.started = FALSE /\ UNCHANGED <<task, view, waiting>>
        /\ \A w \in waiting : w.run # queue'.run
    BY <1>1, BeginBegins
  <2>2. PICK S : /\ Todo' = S \cup Rest
                 /\ \/ (\E x \in S : x.op = "park") /\ \A x \in S : x.op = "park"
                    \/ OpensTurn(S)
    BY <1>1, BeginBegins
  <2>3. \A x \in Rest : x.op = "answer"
    BY <2>1 DEF Making, Behind
  <2>4. Pending(EndsRun)' /\ Pending(EndsFlight)'
    BY <2>2 DEF Pending, EndsRun, EndsFlight, OpensTurn
  <2>5. \A x \in Todo' : Partner(x)'
    BY <2>1, <2>2, <2>3 DEF Partner, Pending, OpensTurn
  <2> QED  BY <2>1, <2>4, <2>5 DEF OwnerOk
<1>2. CASE Park
  <2>1. /\ Making("park") /\ Todo' = Rest /\ UNCHANGED <<queue, view>> /\ task'.status = "queued"
        /\ \E w \in waiting' : w.run = queue.run
        /\ \A w \in waiting' : w \in waiting \/ w.run = queue.run
    BY <1>2, ParkParks
  <2>2. queue.started = FALSE
    BY <2>1 DEF Making, OwnerOk, Partner
  <2>3. Owner'
    BY <2>1 DEF Owner, Parked, Current
  <2>4. \A x \in Todo' : Partner(x)'
    BY <2>1 DEF Making, Behind, Partner
  <2> QED  BY <2>1, <2>2, <2>3, <2>4 DEF OwnerOk
<1> QED  BY <1>1, <1>2

(* The reservation, or its failure.                                         *)
LEMMA ReserveKeepsOwner ==
    ASSUME Sound, OwnerOk, Reserve \/ ReserveThrows
    PROVE  OwnerOk'
<1>1. CASE Reserve
  <2>1. /\ Making("reserve") /\ Todo' = Rest /\ UNCHANGED <<task, queue, waiting>> /\ Len(execs') # 0
        /\ view' = [exec |-> Len(execs'), cursor |-> 0, baseline |-> 0, listening |-> TRUE]
    BY <1>1, ReserveReserves
  <2>2. view'.exec # 0 /\ view'.listening = TRUE /\ Owner'
    BY <2>1 DEF Owner
  <2>3. \A x \in Todo' : Partner(x)'
    BY <2>1 DEF Making, Behind, Partner
  <2> QED  BY <2>1, <2>2, <2>3 DEF OwnerOk
<1>2. CASE ReserveThrows
  <2>1. /\ Making("reserve") /\ UNCHANGED <<task, queue, view, waiting>>
        /\ (\E x \in Todo' : x.op = "fail") /\ (\E x \in Todo' : x.op = "finishFailed")
        /\ \A x \in Todo' : x.op \in {"fail", "finishFailed"} \/ x \in Rest
    BY <1>2, ThrowCatches
  <2>2. \A x \in Rest : x.op = "answer"
    BY <2>1 DEF Making, Behind
  <2>3. Pending(EndsRun)' /\ Pending(EndsFlight)'
    BY <2>1 DEF Pending, EndsRun, EndsFlight
  <2>4. \A x \in Todo' : Partner(x)'
    BY <2>1, <2>2 DEF Partner, Pending
  <2> QED  BY <2>1, <2>3, <2>4 DEF OwnerOk
<1> QED  BY <1>1, <1>2

(* Commits to the row that leave the status alone, and cancel.              *)
LEMMA RowsKeepOwner ==
    ASSUME Sound, OwnerOk, Cleanup \/ ResetCursor \/ AppendEvent \/ SetCancelled
    PROVE  OwnerOk'
<1>1. CASE Cleanup \/ ResetCursor \/ AppendEvent
  <2>1. PICK op \in {"cleanup", "reset", "append"} :
          /\ Making(op) /\ Todo' = Rest /\ UNCHANGED <<queue, waiting>> /\ task'.status = task.status
          /\ view'.exec = view.exec /\ view'.listening = view.listening
    BY <1>1, RowCommits
  <2>2. Owner' <=> Owner
    BY <2>1 DEF Owner, Parked, Current
  <2>3. (Pending(EndsRun) => Pending(EndsRun)') /\ (Pending(EndsFlight) => Pending(EndsFlight)')
    BY <2>1 DEF Making, Pending, EndsRun, EndsFlight
  <2>4. \A x \in Todo' : Partner(x)'
    <3> SUFFICES ASSUME NEW x \in Rest PROVE Partner(x)'
      BY <2>1
    <3>1. x \in Todo /\ x.op \in {"answer", "run", "arm", "reserve"} /\ Todo = {Now} \cup Rest /\ Now.op = op
      BY <2>1 DEF Making, Behind, BeforeAnswers
    <3>2. Partner(x)
      BY <3>1 DEF OwnerOk
    <3> QED  BY <2>1, <3>1, <3>2 DEF Partner, Pending
  <2> QED  BY <2>1, <2>2, <2>3, <2>4 DEF OwnerOk, Making
<1>2. CASE SetCancelled
  <2>1. /\ Making("cancelled") /\ UNCHANGED <<queue, view, waiting>> /\ task'.status = "cancelled"
        /\ \A x \in Todo' : x.op \in {"interrupt", "stopWaiting", "cleanup"}
    BY <1>2, CancelCommits
  <2>2. \A x \in Todo' : Partner(x)'
    BY <2>1 DEF Partner, InFlight
  <2> QED  BY <2>1, <2>2 DEF OwnerOk, InFlight, Closed
<1> QED  BY <1>1, <1>2

(* The end of a turn.                                                       *)
LEMMA SettleKeepsOwner ==
    ASSUME Sound, OwnerOk, SettleCancelled \/ SettleStopped \/ Settle
    PROVE  OwnerOk'
<1>1. Settles
  BY SettleSettles
<1>2. Making("settle") /\ UNCHANGED <<view, waiting>> /\ queue'.started = queue.started /\ \A x \in Rest : x.op = "answer"
  BY <1>1 DEF Settles, Making, Behind
<1>3. \A w \in waiting : w.run # 0
  BY TurnsAssumption DEF Sound, TypeOK
<1>4. CASE SettleCancelled
  <2>1. task.status = "cancelled" /\ task' = task /\ queue'.run \in {0, queue.run} /\ \A x \in Todo' : x.op = "cleanup" \/ x \in Rest
    BY <1>4, SettleSettles
  <2>2. \A x \in Todo' : Partner(x)'
    BY <1>2, <2>1 DEF Partner
  <2> QED  BY <1>2, <1>3, <2>1, <2>2 DEF OwnerOk, InFlight, Closed
<1>5. CASE SettleStopped
  <2>1. /\ queue' = queue /\ task'.status = "idle" /\ \E x \in Todo' : x.op = "finishFailed"
        /\ \A x \in Todo' : x.op = "finishFailed" \/ x \in Rest
    BY <1>5, SettleSettles
  <2>2. \A x \in Todo' : Partner(x)'
    BY <1>2, <2>1 DEF Partner, InFlight
  <2>3. Pending(EndsRun)'
    BY <2>1 DEF Pending, EndsRun
  <2> QED  BY <1>2, <2>1, <2>2, <2>3 DEF OwnerOk, InFlight
<1>6. CASE Settle
  <2>1. task'.status \in {"idle", "failed"} /\ queue'.run = 0 /\ \A x \in Todo' : x.op \in {"chain", "pump"} \/ x \in Rest
    BY <1>6, SettleSettles
  <2>2. \A x \in Todo' : Partner(x)'
    BY <1>2, <2>1 DEF Partner
  <2> QED  BY <1>2, <1>3, <2>1, <2>2 DEF OwnerOk, InFlight
<1> QED  BY <1>4, <1>5, <1>6

(* The skills arrive, the journal is read, and the turn ends.               *)
LEMMA EventsKeepOwner ==
    ASSUME Sound, IsFiniteSet(steers), OwnerOk,
           Project \/ TurnEnds \/ \E w \in waiting : SkillsResolve(w) \/ SkillsFail(w)
    PROVE  OwnerOk'
<1>1. CASE Project
  <2>1. /\ UNCHANGED <<waiting, web>> /\ SameRun /\ view.exec # 0 /\ view'.exec = view.exec /\ view'.listening = view.listening
        /\ \A x \in Todo' : x.op = "append"
    BY <1>1, ProjectProjects
  <2>2. Owner'
    BY <2>1 DEF Owner
  <2>3. \A x \in Todo' : Partner(x)'
    BY <2>1 DEF Partner
  <2> QED  BY <2>1, <2>2, <2>3 DEF OwnerOk, SameRun
<1>2. CASE TurnEnds
  <2>1. /\ UNCHANGED <<queue, waiting>> /\ view'.exec = 0
        /\ (\E x \in Todo' : x.op = "control") /\ \A x \in Todo' : x.op \in {"control", "answer"}
    BY <1>2, EndLeaves
  <2>2. Pending(EndsRun)' /\ Pending(EndsFlight)'
    BY <2>1 DEF Pending, EndsRun, EndsFlight
  <2>3. \A x \in Todo' : Partner(x)'
    BY <2>1 DEF Partner
  <2> QED  BY <2>1, <2>2, <2>3 DEF OwnerOk
<1>3. ASSUME NEW w \in waiting, SkillsResolve(w) \/ SkillsFail(w) PROVE OwnerOk'
  <2>1. web = "up" /\ Todo = {} /\ waiting' = waiting \ {w} /\ UNCHANGED <<task, queue, web, view>>
    BY <1>3, SkillsArrive
  <2>2. CASE OpensTurn(Todo')
    <3>1. Pending(EndsRun)' /\ Pending(EndsFlight)'
      BY <2>2 DEF Pending, EndsRun, EndsFlight, OpensTurn
    <3>2. \A x \in Todo' : Partner(x)'
      BY <2>2 DEF Partner, Pending, OpensTurn
    <3> QED  BY <2>1, <3>1, <3>2 DEF OwnerOk
  <2>3. CASE Todo' = {} /\ (Current(w) => task.status # "queued")
    <3>1. Owner => Owner'
      BY <2>1, <2>3 DEF Owner, Parked, Current
    <3> QED  BY <2>1, <2>3, <3>1 DEF OwnerOk, Pending
  <2>4. CASE /\ Current(w) /\ (\E x \in Todo' : x.op = "fail") /\ (\E x \in Todo' : x.op = "reject")
             /\ \A x \in Todo' : x.op \in {"fail", "reject"}
    <3>1. queue.started = FALSE
      BY <2>4 DEF OwnerOk, Current
    <3>2. Pending(EndsRun)' /\ Pending(EndsFlight)'
      BY <2>4 DEF Pending, EndsRun, EndsFlight
    <3>3. \A x \in Todo' : Partner(x)'
      BY <2>1, <2>4, <3>1 DEF Partner, Pending
    <3> QED  BY <2>1, <3>2, <3>3 DEF OwnerOk
  <2> QED  BY <1>3, <2>2, <2>3, <2>4, SkillsArrive
<1> QED  BY <1>1, <1>2, <1>3

(* The web dies and comes back; executions go on.                           *)
LEMMA OthersKeepOwner ==
    ASSUME Sound, OwnerOk, Crash \/ Boot \/ BootRefused \/ Execution \/ UNCHANGED vars
    PROVE  OwnerOk'
<1>1. CASE Crash
  <2>1. web' = "down" /\ view'.exec = 0 /\ waiting' = {} /\ Todo' = {}
    BY <1>1, FewElements DEF Crash, Todo, NoView
  <2> QED  BY <2>1 DEF OwnerOk
<1>2. CASE Boot
  <2>1. /\ Todo' = {} /\ waiting = {} /\ handle = 0 /\ web = "down" /\ UNCHANGED <<task, execs, waiting>>
        /\ (task.status \in InFlight => execs # <<>>) /\ (execs # <<>> => Len(execs) # 0)
    BY <1>2, BootBoots
  <2>2. CASE /\ Reattached
             /\ view' = [exec |-> Len(execs), cursor |-> 0, baseline |-> task.rawSeq, listening |-> TRUE]
    <3>1. view'.exec # 0 /\ view'.listening = TRUE
      BY <2>1, <2>2 DEF Reattached
    <3> QED  BY <2>1, <3>1 DEF OwnerOk, Owner
  <2>3. CASE ~Reattached /\ view' = view /\ queue'.run = 0
    <3>1. task.status \notin InFlight
      BY <2>1, <2>3 DEF Reattached
    <3> QED  BY <2>1, <2>3, <3>1 DEF OwnerOk
  <2> QED  BY <1>2, <2>2, <2>3, BootBoots
<1>3. CASE BootRefused
  <2>1. web' # "up" /\ UNCHANGED <<task, queue, view, waiting, agenda>>
    BY <1>3 DEF BootRefused, product, memory
  <2>2. \A x \in Todo' : Partner(x)'
    BY <2>1 DEF OwnerOk, Partner, Pending, Todo
  <2> QED  BY <2>1, <2>2 DEF OwnerOk
<1>4. CASE Execution \/ UNCHANGED vars
  <2>1. UNCHANGED <<task, queue, web, view, waiting, agenda>>
    BY <1>4, ExecutionProceeds DEF vars
  <2> QED  BY <2>1 DEF OwnerOk, Partner, Pending, Todo, Owner, Parked, Current
<1> QED  BY <1>1, <1>2, <1>3, <1>4

(* Every step but a failing admission.                                      *)
LEMMA NextKeepsOwner ==
    ASSUME Sound, IsFiniteSet(steers), OwnerOk, Next \/ UNCHANGED vars, ~AdmitThrows
    PROVE  OwnerOk'
<1>1. CASE UserRequest \/ Timer \/ \E s \in steers : SteerResolves(s) \/ ReceiptArrives(s) \/ SendTimesOut(s)
  <2>1. CASE \E skills \in BOOLEAN : CreateTask(skills /\ Asked("skills"))
    BY <2>1, CreatingKeepsOwner
  <2>2. CASE Asks
    BY <2>2, AskingKeepsOwner
  <2> QED  BY <1>1, <2>1, <2>2, RequestsAsk DEF UserRequest
<1>2. CASE Step \/ StartThrows
  <2>1. CASE \/ Pump \/ SendMessageNow \/ Start \/ StartThrows \/ SetStopping \/ DropSteer \/ Interrupt \/ SetRestart
             \/ InterruptSteered \/ Steer \/ HandOver \/ Answered \/ ClearControl \/ Chain
    BY <2>1, StepsGoOn, ProceedingKeepsOwner
  <2>2. CASE SetRunning \/ SetFailed \/ Dequeue \/ SetArchived
    BY <2>2, StatusCommits, StatusKeepsOwner
  <2> QED  BY <1>2, <2>1, <2>2, RunEndKeepsOwner, ArmKeepsOwner, BeginKeepsOwner, ReserveKeepsOwner, RowsKeepOwner,
              SettleKeepsOwner DEF Step
<1>3. CASE Project \/ TurnEnds \/ \E w \in waiting : SkillsResolve(w) \/ SkillsFail(w)
  BY <1>3, EventsKeepOwner
<1>4. CASE Crash \/ Boot \/ BootRefused \/ Execution \/ UNCHANGED vars
  BY <1>4, OthersKeepOwner
<1> QED  BY <1>1, <1>2, <1>3, <1>4 DEF Next, Await

(* Initially nothing runs.                                                  *)
LEMMA InitOwner ==
    ASSUME Init
    PROVE  OwnerOk
<1>1. Todo = {} /\ view.exec = 0 /\ waiting = {} /\ queue.run = 0 /\ task.status = "none"
  BY FewElements DEF Init, Todo, NoView, EmptyQueue
<1> QED  BY <1>1 DEF OwnerOk, InFlight

(* The scenario is chosen once.                                             *)
LEMMA ScenarioStays ==
    ASSUME Next \/ UNCHANGED vars
    PROVE  scenario' = scenario
<1>1. CASE UserRequest \/ Timer
  BY <1>1 DEF UserRequest, Timer, CreateTask, SubmitMessage, Promote, DeleteMessage, HoldLapses, EditMessage, SaveMessage,
              ReleaseMessage, Resume, Stop, Cancel, Archive, Followup, Maintenance, LegacySteer, Compact, Change, Request, bounds
<1>2. CASE Step
  BY <1>2 DEF Step, Pump, SendMessageNow, Start, Begin, Park, ResetCursor, SetRunning, ArmRuntime, Reserve,
              ReserveThrows, SetFailed, FinishFailed, Reject, SetStopping, Dequeue, StopParked, DropSteer, Interrupt,
              SetCancelled, SetArchived, Cleanup, SetRestart, InterruptSteered, Steer, HandOver, Answered, AppendEvent, ClearControl,
              SettleCancelled, SettleStopped, Settle, Chain, CommitTask, CommitQueue, CommitControl, Skip, bounds
<1>3. CASE StartThrows \/ AdmitThrows \/ Await \/ Project \/ TurnEnds \/ Crash \/ Boot \/ BootRefused
  BY <1>3 DEF StartThrows, AdmitThrows, Await, SkillsResolve, SkillsFail, SteerResolves, ReceiptArrives, SendTimesOut,
              Project, TurnEnds, Crash, Boot, BootRefused, bounds
<1>4. CASE Execution
  BY <1>4 DEF Execution, ExecStarts, ExecAsks, ExecResolves, ExecEnds, ExecDelivers, ExecRejects, Alone, bounds
<1>5. CASE UNCHANGED vars
  BY <1>5 DEF vars
<1> QED  BY <1>1, <1>2, <1>3, <1>4, <1>5 DEF Next

(* The invariant, of behaviours in which no admission fails.                *)
THEOREM OwnersHold ==
    Spec /\ ~Asked("admission") => []OwnerOk
<1>1. Init /\ ~Asked("admission") => ~Asked("admission") /\ OwnerOk
  BY InitOwner
<1>2. Sound /\ IsFiniteSet(steers) /\ (~Asked("admission") /\ OwnerOk) /\ [Next]_vars => (~Asked("admission") /\ OwnerOk)'
  <2> SUFFICES ASSUME Sound, IsFiniteSet(steers), ~Asked("admission"), OwnerOk, Next \/ UNCHANGED vars
               PROVE  ~Asked("admission")' /\ OwnerOk'
    OBVIOUS
  <2>1. ~AdmitThrows
    BY DEF AdmitThrows, Fault
  <2>2. ~Asked("admission")'
    BY ScenarioStays DEF Asked
  <2> QED  BY <2>1, <2>2, NextKeepsOwner
<1> QED  BY <1>1, <1>2, TurnsAreSound, PTL DEF Spec

(* A run that is not over, of a task that is not closed, has an execution   *)
(* the product listens to or a turn that waits for its skills, so it will   *)
(* be ended: whatever crashes, fails, is stopped, cancelled or resumed.     *)
THEOREM RunsHaveOwners ==
    Spec /\ ~Asked("admission") => []RunHasOwner
<1>1. OwnerOk => RunHasOwner
  <2> SUFFICES ASSUME OwnerOk, Idle, task.status \notin Closed, queue.run # 0 PROVE Parked \/ Listening
    BY DEF RunHasOwner
  <2>1. Todo = {}
    BY FewElements DEF Idle, Todo
  <2>2. Owner
    BY <2>1 DEF OwnerOk, Pending, Idle
  <2> QED  BY <2>2 DEF Owner, OwnerOk, Listening
<1> QED  BY <1>1, OwnersHold, PTL

(* So has a task that is shown as queued, running or asking.                *)
THEOREM TasksInFlightHaveOwners ==
    Spec /\ ~Asked("admission") => []InFlightHasOwner
<1>1. OwnerOk => InFlightHasOwner
  <2> SUFFICES ASSUME OwnerOk, Idle, task.status \in InFlight PROVE Parked \/ Listening
    BY DEF InFlightHasOwner
  <2>1. Todo = {}
    BY FewElements DEF Idle, Todo
  <2>2. Owner
    BY <2>1 DEF OwnerOk, Pending, Idle
  <2> QED  BY <2>2 DEF Owner, OwnerOk, Listening
<1> QED  BY <1>1, OwnersHold, PTL

-----------------------------------------------------------------------------
(* A failing admission leaves an execution that nobody listens to, and its  *)
(* journal goes on to change the status of the task.  It cannot take the    *)
(* end from a run, unless the run waits for its skills.                     *)
Heard == view.exec # 0 /\ view.listening = TRUE
StepHeard(x) ==
    /\ x.op \notin {"park", "reject"} /\ (x.op = "begin" => x.skills # TRUE)
    /\ x.op = "fail" => Pending({"finishFailed"})
    /\ x.op = "dequeue" => Pending({"stopWaiting"})
    /\ x.op = "run" => Pending({"reserve"})
    /\ x.op \in {"control", "settle"} => view.exec = 0
HeardOk ==
    /\ waiting = {}
    /\ \A x \in Todo : StepHeard(x)
    /\ web = "up" /\ queue.run # 0 =>
          Pending(EndsRun) \/ Heard \/ (task.status \in Closed /\ view.exec = 0)

(* The catch of an admission that fails.                                    *)
LEMMA AdmissionCatches ==
    ASSUME Sound, AdmitThrows
    PROVE  /\ Making("reserve") /\ UNCHANGED <<task, queue, waiting>>
           /\ (\E x \in Todo' : x.op = "fail") /\ (\E x \in Todo' : x.op = "finishFailed")
           /\ \A x \in Todo' : x.op \in {"fail", "finishFailed"} \/ x \in Rest
<1>1. /\ TodoOk /\ Doing("reserve") /\ handle' = 0 /\ Then(<<Do("fail"), Do("finishFailed")>>)
      /\ UNCHANGED <<task, queue, web, waiting>>
  BY DEF Sound, AdmitThrows, product
<1>2. PICK a, b : a = Do("fail") /\ b = Do("finishFailed")
  OBVIOUS
<1>3. a.op = "fail" /\ b.op = "finishFailed"
  BY <1>2 DEF Do
<1>4. Made({a, b})
  BY <1>1, <1>2, Catches
<1>5. Making("reserve") /\ Todo' = {a, b} \cup Rest
  BY <1>1, <1>4, Makes
<1> QED  BY <1>1, <1>3, <1>5

(* The commits that are left when one was made that ends no run.            *)
LEMMA RestHeard ==
    ASSUME HeardOk, NEW op, Making(op), op \notin {"reserve", "finishFailed", "stopWaiting"}, Todo' = Rest, view'.exec = view.exec
    PROVE  /\ \A x \in Todo' : StepHeard(x)'
           /\ Pending(EndsRun) /\ op \notin EndsRun => Pending(EndsRun)'
<1>1. Todo = {Now} \cup Rest /\ Now.op = op
  BY DEF Making
<1>2. \A S : Pending(S) /\ op \notin S => Pending(S)'
  BY <1>1 DEF Pending
<1>3. ASSUME NEW x \in Rest PROVE StepHeard(x)'
  <2>1. StepHeard(x)
    BY <1>1 DEF HeardOk
  <2>2. /\ x.op = "fail" => Pending({"finishFailed"})'
        /\ x.op = "dequeue" => Pending({"stopWaiting"})'
        /\ x.op = "run" => Pending({"reserve"})'
    BY <1>2, <2>1 DEF StepHeard
  <2> QED  BY <2>1, <2>2 DEF StepHeard
<1> QED  BY <1>2, <1>3

(* Requests and commits after which the turn goes on.                       *)
LEMMA AskingKeepsHeard ==
    ASSUME HeardOk, (Asks \/ Proceeds), WithSkills = {}
    PROVE  HeardOk'
<1>1. UNCHANGED <<task, web, view, waiting>> /\ queue'.run = queue.run
  BY DEF Asks, Proceeds, SameRun
<1>2. CASE Asks
  <2>1. \A x \in Todo' : StepHeard(x)'
    BY <1>2 DEF Asks, Fresh, Dull, StepHeard, Pending
  <2>2. ~Pending(EndsRun)
    BY <1>2 DEF Asks, Pending
  <2> QED  BY <1>1, <2>1, <2>2 DEF HeardOk, Heard
<1>3. CASE Proceeds
  <2>1. \A x \in Todo' : StepHeard(x)'
    <3> SUFFICES ASSUME NEW x \in Todo' PROVE StepHeard(x)'
      OBVIOUS
    <3>1. Continues(x) /\ StepHeard(Now)
      BY <1>3 DEF Proceeds, HeardOk
    <3>2. x.op = "settle" => view.exec = 0
      BY <3>1 DEF Continues, StepHeard, Dull
    <3>3. x.op \in Dull \cup {"start", "begin", "settle"} /\ (x.op = "begin" => x.skills # TRUE)
      BY <3>1 DEF Continues, Dull
    <3> QED  BY <1>1, <3>2, <3>3 DEF StepHeard, Dull
  <2>2. Pending(EndsRun) => Pending(EndsRun)'
    <3>1. Pending(EndsRun) => Now.op = "control"
      BY <1>3 DEF Proceeds, Pending, EndsRun, Dull
    <3>2. Pending(EndsRun) => \E x \in Todo' : x.op = "settle"
      BY <1>3, <3>1 DEF Proceeds
    <3> QED  BY <3>2 DEF Pending, EndsRun
  <2> QED  BY <1>1, <2>1, <2>2 DEF HeardOk, Heard
<1> QED  BY <1>2, <1>3

(* The creation of the task.                                                *)
LEMMA CreatingKeepsHeard ==
    ASSUME HeardOk, CreateTask(FALSE)
    PROVE  HeardOk'
<1>1. /\ web = "up" /\ task.status = "none" /\ agenda = <<>> /\ UNCHANGED <<queue, web, view, waiting>>
      /\ agenda' = <<[op |-> "begin", turn |-> Plain, skills |-> FALSE]>>
  BY DEF CreateTask, Idle, Exists, Request
<1>2. PICK a : a = [op |-> "begin", turn |-> Plain, skills |-> FALSE]
  OBVIOUS
<1>3. a.op = "begin" /\ a.skills = FALSE /\ Todo' = {a} /\ Todo = {}
  BY <1>1, <1>2, FewElements DEF Todo
<1>4. \A x \in Todo' : StepHeard(x)'
  BY <1>3 DEF StepHeard
<1>5. queue.run # 0 => Heard
  BY <1>1, <1>3 DEF HeardOk, Pending, Closed
<1> QED  BY <1>1, <1>4, <1>5 DEF HeardOk, Heard

(* Commits that set the status.                                             *)
LEMMA StatusKeepsHeard ==
    ASSUME HeardOk, NEW op, NEW status, StatusOnly(op, status),
           <<op, status>> \in {<<"run", "running">>, <<"fail", "failed">>, <<"dequeue", "idle">>, <<"archived", "archived">>}
    PROVE  HeardOk'
<1>1. /\ Making(op) /\ Todo' = Rest /\ UNCHANGED <<queue, view, waiting>> /\ task'.status = status /\ StepHeard(Now)
      /\ web = "up" /\ Now.op = op /\ Todo = {Now} \cup Rest
  BY DEF StatusOnly, Making, HeardOk
<1>2. op \in {"run", "fail", "dequeue", "archived"}
  OBVIOUS
<1>3. (\A x \in Todo' : StepHeard(x)') /\ (Pending(EndsRun) => Pending(EndsRun)')
  BY <1>1, <1>2, RestHeard DEF EndsRun
<1>4. op # "archived" => Pending(EndsRun)
  BY <1>1, <1>2 DEF StepHeard, Pending, EndsRun
<1>5. op = "archived" => task'.status \in Closed
  BY <1>1 DEF Closed
<1> QED  BY <1>1, <1>3, <1>4, <1>5 DEF HeardOk, Heard

(* Commits of the queue alone, and the beginning of a run.                  *)
LEMMA QueueKeepsHeard ==
    ASSUME Sound, HeardOk, FinishFailed \/ Reject \/ StopParked \/ ArmRuntime \/ Begin \/ Park
    PROVE  HeardOk'
<1>1. CASE FinishFailed \/ StopParked
  <2>1. PICK op \in {"finishFailed", "stopWaiting"} : QueueOnly(op) /\ queue'.run = 0
    BY <1>1, RunCommits
  <2>2. Making(op) /\ Todo' = Rest /\ UNCHANGED <<view, waiting>>
    BY <2>1 DEF QueueOnly
  <2>3. \A x \in Rest : x.op \in {"cleanup", "answer"}
    BY <2>1, <2>2 DEF Making, Behind
  <2>4. \A x \in Todo' : StepHeard(x)'
    BY <2>2, <2>3 DEF StepHeard
  <2> QED  BY <2>1, <2>2, <2>4 DEF HeardOk
<1>2. CASE Reject
  BY <1>2, RunCommits DEF QueueOnly, Making, HeardOk, StepHeard
<1>3. CASE Park
  BY <1>3, ParkParks DEF Making, HeardOk, StepHeard
<1>4. CASE ArmRuntime
  <2>1. Making("arm") /\ Todo' = Rest /\ UNCHANGED <<task, view, waiting>> /\ queue'.run = queue.run /\ web' = web
    BY <1>4, RunCommits DEF QueueOnly, Making
  <2>2. (\A x \in Todo' : StepHeard(x)') /\ (Pending(EndsRun) => Pending(EndsRun)')
    BY <2>1, RestHeard DEF EndsRun
  <2> QED  BY <2>1, <2>2 DEF HeardOk, Heard
<1>5. CASE Begin
  <2>1. Making("begin") /\ StepHeard(Now) /\ Now.op = "begin" /\ UNCHANGED waiting
    BY <1>5, BeginBegins DEF Making, HeardOk
  <2>2. PICK S : Todo' = S \cup Rest /\ OpensTurn(S)
    BY <1>5, <2>1, BeginBegins DEF StepHeard
  <2>3. Pending({"reserve"})' /\ Pending(EndsRun)'
    BY <2>2 DEF Pending, OpensTurn, EndsRun
  <2>4. \A x \in Todo' : x.op \in {"reset", "run", "arm", "reserve", "answer"}
    BY <2>1, <2>2 DEF OpensTurn, Making, Behind
  <2>5. \A x \in Todo' : StepHeard(x)'
    BY <2>3, <2>4 DEF StepHeard
  <2> QED  BY <2>1, <2>3, <2>5 DEF HeardOk
<1> QED  BY <1>1, <1>2, <1>3, <1>4, <1>5

(* The reservation, and its two failures.                                   *)
LEMMA ReserveKeepsHeard ==
    ASSUME Sound, HeardOk, Reserve \/ ReserveThrows \/ AdmitThrows
    PROVE  HeardOk'
<1>1. Making("reserve") /\ waiting' = waiting
  BY ReserveReserves, ThrowCatches, AdmissionCatches
<1>2. \A x \in Rest : x.op = "answer"
  BY <1>1 DEF Making, Behind
<1>3. CASE Reserve
  <2>1. /\ Todo' = Rest /\ Len(execs') # 0
        /\ view' = [exec |-> Len(execs'), cursor |-> 0, baseline |-> 0, listening |-> TRUE]
    BY <1>3, ReserveReserves
  <2>2. Heard'
    BY <2>1 DEF Heard
  <2>3. \A x \in Todo' : StepHeard(x)'
    BY <1>2, <2>1 DEF StepHeard
  <2> QED  BY <1>1, <2>2, <2>3 DEF HeardOk
<1>4. CASE ReserveThrows \/ AdmitThrows
  <2>1. (\E x \in Todo' : x.op = "finishFailed") /\ \A x \in Todo' : x.op \in {"fail", "finishFailed"} \/ x \in Rest
    BY <1>4, ThrowCatches, AdmissionCatches
  <2>2. Pending({"finishFailed"})' /\ Pending(EndsRun)'
    BY <2>1 DEF Pending, EndsRun
  <2>3. \A x \in Todo' : StepHeard(x)'
    BY <1>2, <2>1, <2>2 DEF StepHeard
  <2> QED  BY <1>1, <2>2, <2>3 DEF HeardOk
<1> QED  BY <1>3, <1>4

(* The rows of the task.                                                    *)
LEMMA RowsKeepHeard ==
    ASSUME Sound, HeardOk, Cleanup \/ ResetCursor \/ AppendEvent \/ SetCancelled
    PROVE  HeardOk'
<1>1. CASE Cleanup \/ ResetCursor \/ AppendEvent
  <2>1. PICK op \in {"cleanup", "reset", "append"} :
           /\ Making(op) /\ Todo' = Rest /\ UNCHANGED <<queue, waiting>> /\ web' = web /\ task'.status = task.status
           /\ view'.exec = view.exec /\ view'.listening = view.listening
    BY <1>1, RowCommits DEF Making
  <2>2. (\A x \in Todo' : StepHeard(x)') /\ (Pending(EndsRun) => Pending(EndsRun)')
    BY <2>1, RestHeard DEF EndsRun
  <2> QED  BY <2>1, <2>2 DEF HeardOk, Heard
<1>2. CASE SetCancelled
  <2>1. /\ Making("cancelled") /\ UNCHANGED <<queue, view, waiting>> /\ task'.status = "cancelled"
        /\ \A x \in Todo' : x.op \in {"interrupt", "stopWaiting", "cleanup"}
    BY <1>2, CancelCommits
  <2>2. \A x \in Todo' : StepHeard(x)'
    BY <2>1 DEF StepHeard
  <2>3. ~Pending(EndsRun) /\ web = "up"
    BY <2>1 DEF Making, Behind, BeforeAnswers, Pending, EndsRun
  <2> QED  BY <2>1, <2>2, <2>3 DEF HeardOk, Heard, Closed
<1> QED  BY <1>1, <1>2

(* The end of a turn ends its run, unless the task was cancelled.           *)
LEMMA SettleKeepsHeard ==
    ASSUME Sound, HeardOk, SettleCancelled \/ SettleStopped \/ Settle
    PROVE  HeardOk'
<1>1. Making("settle") /\ UNCHANGED <<view, waiting>> /\ Now.op = "settle" /\ StepHeard(Now)
  BY SettleSettles DEF Settles, Making, HeardOk
<1>2. \A x \in Rest : x.op = "answer"
  BY <1>1 DEF Making, Behind
<1>3. \A x \in Todo' : x.op \in {"cleanup", "finishFailed", "chain", "pump", "answer"}
  BY <1>2, SettleSettles
<1>4. \A x \in Todo' : StepHeard(x)'
  BY <1>3 DEF StepHeard
<1>5. CASE SettleCancelled
  <2>1. task'.status \in Closed
    BY <1>5, SettleSettles DEF Closed
  <2>2. view'.exec = 0
    BY <1>1 DEF StepHeard
  <2> QED  BY <1>1, <1>4, <2>1, <2>2 DEF HeardOk
<1>6. CASE SettleStopped
  <2>1. Pending(EndsRun)'
    BY <1>6, SettleSettles DEF Pending, EndsRun
  <2> QED  BY <1>1, <1>4, <2>1 DEF HeardOk
<1>7. CASE Settle
  BY <1>1, <1>4, <1>7, SettleSettles DEF HeardOk
<1> QED  BY <1>5, <1>6, <1>7

(* Entries of the journal, and everything that is not the web's.            *)
LEMMA EventsKeepHeard ==
    ASSUME Sound, IsFiniteSet(steers), HeardOk,
           \/ Project \/ TurnEnds \/ Crash \/ Boot \/ BootRefused \/ Execution \/ UNCHANGED vars
           \/ \E w \in waiting : SkillsResolve(w) \/ SkillsFail(w)
    PROVE  HeardOk'
<1>1. CASE Project
  <2>1. /\ Todo = {} /\ UNCHANGED <<web, waiting>> /\ queue'.run = queue.run /\ view.exec # 0 /\ view'.exec = view.exec
        /\ view'.listening = view.listening /\ \A x \in Todo' : x.op = "append"
    BY <1>1, ProjectProjects DEF SameRun
  <2>2. \A x \in Todo' : StepHeard(x)'
    BY <2>1 DEF StepHeard
  <2>3. ~Pending(EndsRun)
    BY <2>1 DEF Pending
  <2> QED  BY <2>1, <2>2, <2>3 DEF HeardOk, Heard
<1>2. CASE TurnEnds
  <2>1. /\ UNCHANGED waiting /\ view'.exec = 0 /\ (\E x \in Todo' : x.op = "control")
        /\ \A x \in Todo' : x.op \in {"control", "answer"}
    BY <1>2, EndLeaves
  <2>2. \A x \in Todo' : StepHeard(x)'
    BY <2>1 DEF StepHeard
  <2>3. Pending(EndsRun)'
    BY <2>1 DEF Pending, EndsRun
  <2> QED  BY <2>1, <2>2, <2>3 DEF HeardOk
<1>3. CASE Crash
  <2>1. web' = "down" /\ waiting' = {} /\ Todo' = {}
    BY <1>3, FewElements DEF Crash, Todo
  <2> QED  BY <2>1 DEF HeardOk
<1>4. CASE Boot
  <2>1. Todo' = {} /\ waiting' = {} /\ (execs # <<>> => Len(execs) # 0)
    BY <1>4, BootBoots
  <2>2. CASE /\ Reattached
             /\ view' = [exec |-> Len(execs), cursor |-> 0, baseline |-> task.rawSeq, listening |-> TRUE]
    BY <2>1, <2>2 DEF Reattached, HeardOk, Heard
  <2>3. CASE queue'.run = 0
    BY <2>1, <2>3 DEF HeardOk
  <2> QED  BY <1>4, <2>2, <2>3, BootBoots
<1>5. CASE BootRefused \/ Execution \/ UNCHANGED vars
  <2>1. UNCHANGED <<task, queue, view, waiting, agenda>> /\ (web' = web \/ web' # "up")
    BY <1>5, ExecutionProceeds DEF BootRefused, product, memory, vars
  <2>2. (\A x \in Todo' : StepHeard(x)') /\ (Pending(EndsRun)' <=> Pending(EndsRun))
    BY <2>1 DEF HeardOk, StepHeard, Pending, Todo
  <2> QED  BY <2>1, <2>2 DEF HeardOk, Heard
<1>6. CASE \E w \in waiting : SkillsResolve(w) \/ SkillsFail(w)
  BY <1>6 DEF HeardOk
<1> QED  BY <1>1, <1>2, <1>3, <1>4, <1>5, <1>6

(* Every step of a task without skills.                                     *)
LEMMA NextKeepsHeard ==
    ASSUME Sound, IsFiniteSet(steers), HeardOk, Next \/ UNCHANGED vars, WithSkills = {}, ~Asked("skills")
    PROVE  HeardOk'
<1>1. CASE UserRequest \/ Timer \/ \E s \in steers : SteerResolves(s) \/ ReceiptArrives(s) \/ SendTimesOut(s)
  <2>1. CASE \E skills \in BOOLEAN : CreateTask(skills /\ Asked("skills"))
    <3>1. PICK skills \in BOOLEAN : CreateTask(skills /\ Asked("skills"))
      BY <2>1
    <3>2. (skills /\ Asked("skills")) = FALSE
      OBVIOUS
    <3>3. CreateTask(FALSE)
      BY <3>1, <3>2
    <3> QED  BY <3>3, CreatingKeepsHeard
  <2>2. CASE Asks
    BY <2>2, AskingKeepsHeard
  <2> QED  BY <1>1, <2>1, <2>2, RequestsAsk DEF UserRequest
<1>2. CASE Step \/ StartThrows \/ AdmitThrows
  <2>1. CASE \/ Pump \/ SendMessageNow \/ Start \/ StartThrows \/ SetStopping \/ DropSteer \/ Interrupt \/ SetRestart
             \/ InterruptSteered \/ Steer \/ HandOver \/ Answered \/ ClearControl \/ Chain
    BY <2>1, StepsGoOn, AskingKeepsHeard
  <2>2. CASE SetRunning \/ SetFailed \/ Dequeue \/ SetArchived
    BY <2>2, StatusCommits, StatusKeepsHeard
  <2> QED  BY <1>2, <2>1, <2>2, QueueKeepsHeard, ReserveKeepsHeard, RowsKeepHeard, SettleKeepsHeard DEF Step
<1>3. CASE \/ Project \/ TurnEnds \/ Crash \/ Boot \/ BootRefused \/ Execution \/ UNCHANGED vars
           \/ \E w \in waiting : SkillsResolve(w) \/ SkillsFail(w)
  BY <1>3, EventsKeepHeard
<1> QED  BY <1>1, <1>2, <1>3 DEF Next, Await

(* A run of a task without skills has an execution the product listens to,  *)
(* even if admissions fail: the catch of startTurnNow ends the run itself.  *)
THEOREM RunsSurviveAdmission ==
    Spec /\ WithSkills = {} /\ ~Asked("skills") => []RunHasOwner
<1> DEFINE Plainest == WithSkills = {} /\ ~Asked("skills")
<1>1. Init /\ Plainest => Plainest /\ HeardOk
  <2> SUFFICES ASSUME Init PROVE HeardOk
    OBVIOUS
  <2>1. Todo = {} /\ waiting = {} /\ queue.run = 0
    BY FewElements DEF Init, Todo, EmptyQueue
  <2> QED  BY <2>1 DEF HeardOk
<1>2. Sound /\ IsFiniteSet(steers) /\ (Plainest /\ HeardOk) /\ [Next]_vars => (Plainest /\ HeardOk)'
  <2> SUFFICES ASSUME Sound, IsFiniteSet(steers), Plainest, HeardOk, Next \/ UNCHANGED vars
               PROVE  Plainest' /\ HeardOk'
    OBVIOUS
  <2>1. Plainest'
    BY ScenarioStays DEF Asked
  <2> QED  BY <2>1, NextKeepsHeard
<1>3. HeardOk => RunHasOwner
  <2> SUFFICES ASSUME HeardOk, Idle, task.status \notin Closed, queue.run # 0 PROVE Listening
    BY DEF RunHasOwner
  <2>1. Todo = {}
    BY FewElements DEF Idle, Todo
  <2> QED  BY <2>1 DEF HeardOk, Pending, Heard, Listening, Idle
<1> HIDE DEF Plainest
<1>4. WithSkills = {} /\ ~Asked("skills") => Plainest
  BY DEF Plainest
<1> QED  BY <1>1, <1>2, <1>3, <1>4, TurnsAreSound, PTL DEF Spec

-----------------------------------------------------------------------------
(* What a turn keeps.  A worktree is removed only when nothing runs in it.  *)
(* That holds of turns without skills: one that resolves its skills late    *)
(* drops the handle of the turn that runs by then.                          *)
Simple == WithSkills = {} /\ ~Asked("skills") /\ ~Asked("admission")

Begins == {"chain", "start", "begin", "reset", "run", "arm", "reserve", "fail", "dequeue"}
StepKept(x) ==
    /\ x.op # "park" /\ (x.op = "begin" => x.skills # TRUE)
    /\ x.op \in Begins \/ (x.op = "sendNow" /\ queue.run = 0) => handle = 0 /\ task.status \notin Closed
    /\ x.op \in {"cleanup", "archived", "control", "settle"} => handle = 0
    /\ x.op = "cleanup" => task.status \in Closed \/ Pending({"archived"})
    /\ x.op = "reserve" => task.status = "running" \/ Pending({"run"})
    /\ x.op \in {"control", "settle"} => task.status # "archived"
StateKept ==
    /\ waiting = {} /\ handle = view.exec /\ view.exec \in {0, Len(execs)}
    /\ LiveExec => task.status \in InFlight \cup {"cancelled"} /\ (web = "up" => view.exec = Len(execs))
    /\ task.status \in {"archived", "none"} => view.exec = 0
    /\ task.worktree = FALSE => task.status \in Closed /\ ~LiveExec
    /\ \A e \in DOMAIN execs : e < Len(execs) => execs[e].state = "ended"
KeptOk == StateKept /\ \A x \in Todo : StepKept(x)

(* Without a handle nothing runs.                                           *)
LEMMA NoHandleNoExec ==
    ASSUME Sound, KeptOk, web = "up", handle = 0
    PROVE  ~LiveExec
<1>1. execs # <<>> => Len(execs) # 0
  BY DEF Sound, TypeOK
<1> QED  BY <1>1 DEF KeptOk, StateKept, LiveExec

(* An execution that has ended does not live again.                         *)
LEMMA EndedStays ==
    ASSUME Sound, Sound', Len(execs') = Len(execs), DOMAIN execs' = DOMAIN execs,
           \A e \in DOMAIN execs : execs[e].state = "ended" => execs'[e].state = "ended"
    PROVE  /\ LiveExec' => LiveExec
           /\ (\A e \in DOMAIN execs : e < Len(execs) => execs[e].state = "ended") =>
                 \A e \in DOMAIN execs' : e < Len(execs') => execs'[e].state = "ended"
<1>1. execs \in Seq(Exec) /\ execs' \in Seq(Exec)
  BY DEF Sound, TypeOK
<1>2. execs' # <<>> => Len(execs) \in DOMAIN execs /\ execs # <<>>
  BY <1>1
<1>3. LiveExec' => execs' # <<>> /\ execs'[Len(execs')].state # "ended"
  BY DEF LiveExec, Last
<1>4. LiveExec' => LiveExec
  BY <1>2, <1>3 DEF LiveExec, Last
<1> QED  BY <1>4

(* The commits that are left when one was made.                             *)
LEMMA RestKept ==
    ASSUME KeptOk, NEW op, Making(op), op \notin {"archived", "run"}, Todo' = Rest,
           queue'.run = queue.run \/ op # "sendNow", handle' = handle, task'.status = task.status
    PROVE  \A x \in Todo' : StepKept(x)'
<1> SUFFICES ASSUME NEW x \in Rest PROVE StepKept(x)'
  OBVIOUS
<1>1. StepKept(x) /\ x.op # "sendNow" /\ Todo = {Now} \cup Rest /\ Now.op = op
  BY DEF KeptOk, Making, Behind
<1>2. (Pending({"archived"}) => Pending({"archived"})') /\ (Pending({"run"}) => Pending({"run"})')
  BY <1>1 DEF Pending
<1>4. /\ x.op # "park" /\ (x.op = "begin" => x.skills # TRUE)
      /\ x.op \in Begins => handle' = 0 /\ task'.status \notin Closed
      /\ x.op \in {"cleanup", "archived", "control", "settle"} => handle' = 0
      /\ x.op \in {"control", "settle"} => task'.status # "archived"
  BY <1>1 DEF StepKept
<1>5. /\ x.op = "cleanup" => task'.status \in Closed \/ Pending({"archived"})'
      /\ x.op = "reserve" => task'.status = "running" \/ Pending({"run"})'
  BY <1>1, <1>2 DEF StepKept
<1> QED  BY <1>1, <1>4, <1>5 DEF StepKept

(* A request and what it will do.                                           *)
LEMMA AskingKeepsTree ==
    ASSUME KeptOk, Asks
    PROVE  KeptOk'
<1>1. \A x \in Todo' : StepKept(x)'
  <2> SUFFICES ASSUME NEW x \in Todo' PROVE StepKept(x)'
    OBVIOUS
  <2>1. Fresh(x, Todo') /\ UNCHANGED <<task, handle>> /\ queue'.run = queue.run
    BY DEF Asks, SameRun
  <2>2. x.op = "cleanup" => Pending({"archived"})'
    BY <2>1 DEF Fresh, Pending
  <2> QED  BY <2>1, <2>2 DEF Fresh, Ready, Dull, Begins, Closed, StepKept
<1>2. UNCHANGED <<task, execs, web, handle, view, waiting>>
  BY DEF Asks
<1>3. StateKept'
  BY <1>2 DEF KeptOk, StateKept, LiveExec, Last
<1> QED  BY <1>1, <1>3 DEF KeptOk

(* Commits after which the turn goes on.                                    *)
LEMMA ProceedingKeepsTree ==
    ASSUME Sound, Sound', KeptOk, Proceeds, WithSkills = {}
    PROVE  KeptOk'
<1>1. \A x \in Todo' : StepKept(x)'
  <2> SUFFICES ASSUME NEW x \in Todo' PROVE StepKept(x)'
    OBVIOUS
  <2>1. Continues(x) /\ StepKept(Now) /\ UNCHANGED <<task, handle>> /\ queue'.run = queue.run
    BY DEF Proceeds, SameRun, KeptOk
  <2>2. CASE x.op \in Dull
    BY <2>2 DEF Dull, StepKept, Begins
  <2>3. CASE x.op = "start" /\ (Ready \/ (Now.op = "sendNow" /\ queue.run = 0))
    BY <2>1, <2>3 DEF Ready, StepKept, Closed
  <2>4. CASE x.op = "begin" /\ Now.op \in {"start", "chain"} /\ (x.skills = TRUE => WithSkills # {})
    BY <2>1, <2>4 DEF StepKept, Begins
  <2>5. CASE x.op = "settle" /\ Now.op = "control"
    BY <2>1, <2>5 DEF StepKept, Begins
  <2> QED  BY <2>1, <2>2, <2>3, <2>4, <2>5 DEF Continues
<1>2. UNCHANGED <<task, web, handle, view, waiting>> /\ SameJournals
  BY DEF Proceeds
<1>3. /\ LiveExec' => LiveExec
      /\ (\A e \in DOMAIN execs : e < Len(execs) => execs[e].state = "ended") =>
            \A e \in DOMAIN execs' : e < Len(execs') => execs'[e].state = "ended"
  BY <1>2, EndedStays DEF SameJournals
<1>4. StateKept'
  BY <1>2, <1>3 DEF KeptOk, StateKept, SameJournals
<1> QED  BY <1>1, <1>4 DEF KeptOk

(* The creation of the task.                                                *)
LEMMA CreatingKeepsTree ==
    ASSUME Sound, KeptOk, CreateTask(FALSE)
    PROVE  KeptOk'
<1>1. /\ web = "up" /\ task.status = "none" /\ task' = [task EXCEPT !.status = "queued"]
      /\ UNCHANGED <<queue, web, view, waiting, handle, execs>>
      /\ agenda' = <<[op |-> "begin", turn |-> Plain, skills |-> FALSE]>>
  BY DEF CreateTask, Idle, Exists, Request
<1>2. PICK a : a = [op |-> "begin", turn |-> Plain, skills |-> FALSE]
  OBVIOUS
<1>3. a.op = "begin" /\ a.skills = FALSE /\ Todo' = {a}
  BY <1>1, <1>2, FewElements DEF Todo
<1>4. task'.status = "queued" /\ task'.worktree = task.worktree
  BY <1>1 DEF Sound, TypeOK
<1>5. handle = 0 /\ ~LiveExec /\ task.worktree # FALSE
  BY <1>1 DEF KeptOk, StateKept, InFlight, Closed
<1>6. LiveExec' <=> LiveExec
  BY <1>1 DEF LiveExec, Last
<1>7. \A x \in Todo' : StepKept(x)'
  BY <1>1, <1>3, <1>4, <1>5 DEF StepKept, Closed
<1>8. StateKept'
  BY <1>1, <1>4, <1>5, <1>6 DEF KeptOk, StateKept, InFlight
<1> QED  BY <1>7, <1>8 DEF KeptOk

(* Commits that set the status.                                             *)
LEMMA StatusKeepsTree ==
    ASSUME Sound, KeptOk, NEW op, NEW status, StatusOnly(op, status),
           <<op, status>> \in {<<"run", "running">>, <<"fail", "failed">>, <<"dequeue", "idle">>, <<"archived", "archived">>}
    PROVE  KeptOk'
<1>1. /\ Making(op) /\ Todo' = Rest /\ UNCHANGED <<queue, view, waiting, execs, handle>> /\ StepKept(Now)
      /\ task'.status = status /\ task'.worktree = task.worktree /\ web = "up" /\ web' = "up" /\ Now.op = op
  BY DEF StatusOnly, Making, KeptOk
<1>2. handle = 0 /\ (op # "archived" => task.status \notin Closed)
  BY <1>1 DEF StepKept, Begins
<1>3. ~LiveExec
  BY <1>1, <1>2, NoHandleNoExec
<1>4. LiveExec' <=> LiveExec
  BY <1>1 DEF LiveExec, Last
<1>5. StateKept'
  BY <1>1, <1>2, <1>3, <1>4 DEF KeptOk, StateKept, InFlight, Closed
<1>6. \A x \in Todo' : StepKept(x)'
  <2> SUFFICES ASSUME NEW x \in Rest PROVE StepKept(x)'
    BY <1>1
  <2>1. StepKept(x) /\ Behind(op, x.op)
    BY <1>1 DEF KeptOk, Making
  <2> QED  BY <1>1, <1>2, <2>1 DEF Behind, BeforeAnswers, StepKept, Begins, Closed
<1> QED  BY <1>5, <1>6 DEF KeptOk

(* Commits of the queue alone.                                              *)
LEMMA QueueKeepsTree ==
    ASSUME Sound, KeptOk, FinishFailed \/ Reject \/ StopParked \/ ArmRuntime
    PROVE  KeptOk'
<1>1. PICK op \in {"finishFailed", "reject", "stopWaiting", "arm"} : QueueOnly(op)
  BY RunCommits
<1>2. Making(op) /\ Todo' = Rest /\ UNCHANGED <<task, execs, handle, view, waiting>> /\ web' = web
  BY <1>1 DEF QueueOnly, Making
<1>3. \A x \in Todo' : StepKept(x)'
  BY <1>2, RestKept
<1>4. StateKept'
  BY <1>2 DEF KeptOk, StateKept, LiveExec, Last
<1> QED  BY <1>3, <1>4 DEF KeptOk

(* The run begins, without waiting.                                         *)
LEMMA BeginKeepsTree ==
    ASSUME Sound, KeptOk, Begin \/ Park
    PROVE  KeptOk'
<1>1. CASE Begin
  <2>1. /\ Making("begin") /\ StepKept(Now) /\ Now.op = "begin" /\ web' = web
        /\ UNCHANGED <<task, execs, handle, view, waiting>>
    BY <1>1, BeginBegins DEF Making, KeptOk
  <2>2. PICK S : Todo' = S \cup Rest /\ OpensTurn(S)
    BY <1>1, <2>1, BeginBegins DEF StepKept
  <2>3. handle = 0 /\ task.status \notin Closed
    BY <2>1 DEF StepKept, Begins
  <2>4. Pending({"run"})'
    BY <2>2 DEF Pending, OpensTurn
  <2>5. \A x \in Todo' : StepKept(x)'
    <3>1. \A x \in S : x.op \in {"reset", "run", "arm", "reserve"}
      BY <2>2 DEF OpensTurn
    <3>2. \A x \in Rest : x.op = "answer"
      BY <2>1 DEF Making, Behind
    <3> QED  BY <2>1, <2>2, <2>3, <2>4, <3>1, <3>2 DEF StepKept, Begins
  <2>6. StateKept'
    BY <2>1 DEF KeptOk, StateKept, LiveExec, Last
  <2> QED  BY <2>5, <2>6 DEF KeptOk
<1>2. CASE Park
  BY <1>2, ParkParks DEF Making, KeptOk, StepKept
<1> QED  BY <1>1, <1>2

(* The reservation: nothing runs before it.                                 *)
LEMMA ReserveKeepsTree ==
    ASSUME Sound, Sound', KeptOk, Reserve \/ ReserveThrows
    PROVE  KeptOk'
<1>1. Making("reserve") /\ web = "up" /\ web' = "up" /\ StepKept(Now) /\ Now.op = "reserve"
  BY ReserveReserves, ThrowCatches DEF Making, KeptOk
<1>2. \A x \in Rest : x.op = "answer"
  BY <1>1 DEF Making, Behind
<1>3. ~Pending({"run"})
  BY <1>1, <1>2 DEF Pending, Making
<1>4. handle = 0 /\ task.status = "running"
  BY <1>1, <1>3 DEF StepKept, Begins
<1>5. ~LiveExec
  BY <1>1, <1>4, NoHandleNoExec
<1>6. task.worktree # FALSE
  BY <1>4 DEF KeptOk, StateKept, Closed
<1>7. CASE Reserve
  <2>1. /\ Todo' = Rest /\ UNCHANGED <<task, waiting>> /\ handle' = Len(execs') /\ Len(execs') = Len(execs) + 1
        /\ view' = [exec |-> Len(execs'), cursor |-> 0, baseline |-> 0, listening |-> TRUE]
        /\ \A e \in DOMAIN execs : execs'[e] = execs[e]
    BY <1>5, <1>7, ReserveReserves
  <2>2. view'.exec = Len(execs')
    BY <2>1
  <2>3. ASSUME NEW e \in DOMAIN execs', e < Len(execs') PROVE execs'[e].state = "ended"
    <3>1. execs \in Seq(Exec) /\ execs' \in Seq(Exec)
      BY DEF Sound, TypeOK
    <3>2. e \in DOMAIN execs /\ execs # <<>>
      BY <2>1, <2>3, <3>1
    <3>3. CASE e < Len(execs)
      BY <2>1, <3>2, <3>3 DEF KeptOk, StateKept
    <3>4. CASE e = Len(execs)
      BY <1>5, <2>1, <3>2, <3>4 DEF LiveExec, Last
    <3> QED  BY <2>1, <2>3, <3>1, <3>2, <3>3, <3>4
  <2>4. StateKept'
    BY <1>4, <1>6, <2>1, <2>2, <2>3 DEF KeptOk, StateKept, InFlight
  <2>5. \A x \in Todo' : StepKept(x)'
    BY <1>2, <2>1 DEF StepKept, Begins
  <2> QED  BY <2>4, <2>5 DEF KeptOk
<1>8. CASE ReserveThrows
  <2>1. /\ handle' = 0 /\ UNCHANGED <<task, queue, execs, view, waiting>>
        /\ \A x \in Todo' : x.op \in {"fail", "finishFailed"} \/ x \in Rest
    BY <1>8, ThrowCatches
  <2>2. StateKept'
    BY <1>1, <1>4, <2>1 DEF KeptOk, StateKept, LiveExec, Last
  <2>3. \A x \in Todo' : StepKept(x)'
    BY <1>2, <1>4, <2>1 DEF StepKept, Begins, Closed
  <2> QED  BY <2>2, <2>3 DEF KeptOk
<1> QED  BY <1>7, <1>8

-----------------------------------------------------------------------------
(* The rows of the task: cleanup, the cursor, an event, a cancellation.     *)
LEMMA RowsKeepTree ==
    ASSUME Sound, KeptOk, Cleanup \/ ResetCursor \/ AppendEvent \/ SetCancelled
    PROVE  KeptOk'
<1>1. CASE Cleanup
  <2>1. /\ Making("cleanup") /\ Todo' = Rest /\ UNCHANGED <<queue, execs, handle, view, waiting>> /\ web = "up" /\ web' = "up"
        /\ task'.status = task.status /\ Now.op = "cleanup" /\ StepKept(Now)
    BY <1>1, RowCommits DEF Making, KeptOk
  <2>2. ~Pending({"archived"})
    BY <2>1 DEF Making, Behind, Pending
  <2>3. handle = 0 /\ task.status \in Closed
    BY <2>1, <2>2 DEF StepKept
  <2>4. ~LiveExec
    BY <2>1, <2>3, NoHandleNoExec
  <2>5. LiveExec' <=> LiveExec
    BY <2>1 DEF LiveExec, Last
  <2>6. StateKept'
    BY <2>1, <2>3, <2>4, <2>5 DEF KeptOk, StateKept
  <2>7. \A x \in Todo' : StepKept(x)'
    BY <2>1, RestKept
  <2> QED  BY <2>6, <2>7 DEF KeptOk
<1>2. CASE ResetCursor \/ AppendEvent
  <2>1. PICK op \in {"reset", "append"} :
           /\ Making(op) /\ Todo' = Rest /\ UNCHANGED <<queue, execs, handle, waiting>>
           /\ web' = web /\ task'.status = task.status /\ task'.worktree = task.worktree /\ view'.exec = view.exec
    BY <1>2, RowCommits DEF Making
  <2>2. \A x \in Todo' : StepKept(x)'
    BY <2>1, RestKept
  <2>3. LiveExec' <=> LiveExec
    BY <2>1 DEF LiveExec, Last
  <2>4. StateKept'
    BY <2>1, <2>3 DEF KeptOk, StateKept
  <2> QED  BY <2>2, <2>4 DEF KeptOk
<1>3. CASE SetCancelled
  <2>1. /\ UNCHANGED <<execs, handle, view, waiting>> /\ web' = web
        /\ task'.status = "cancelled" /\ task'.worktree = task.worktree
        /\ \A x \in Todo' : x.op = "interrupt" \/ (x.op \in {"stopWaiting", "cleanup"} /\ handle = 0)
    BY <1>3, CancelCommits DEF Making
  <2>2. \A x \in Todo' : StepKept(x)'
    BY <2>1 DEF StepKept, Begins, Closed
  <2>3. LiveExec' <=> LiveExec
    BY <2>1 DEF LiveExec, Last
  <2>4. StateKept'
    BY <2>1, <2>3 DEF KeptOk, StateKept, Closed
  <2> QED  BY <2>2, <2>4 DEF KeptOk
<1> QED  BY <1>1, <1>2, <1>3

(* The end of a turn, once its execution has ended.                         *)
LEMMA SettleKeepsTree ==
    ASSUME Sound, KeptOk, SettleCancelled \/ SettleStopped \/ Settle
    PROVE  KeptOk'
<1>1. /\ Making("settle") /\ UNCHANGED <<execs, handle, view, waiting>> /\ web = "up" /\ web' = "up" /\ Now.op = "settle"
      /\ StepKept(Now)
  BY SettleSettles DEF Settles, Making, KeptOk
<1>2. handle = 0 /\ task.status # "archived"
  BY <1>1 DEF StepKept
<1>3. ~LiveExec
  BY <1>1, <1>2, NoHandleNoExec
<1>4. LiveExec' <=> LiveExec
  BY <1>1 DEF LiveExec, Last
<1>5. \A x \in Rest : x.op = "answer"
  BY <1>1 DEF Making, Behind
<1>6. CASE SettleCancelled
  <2>1. task.status = "cancelled" /\ task' = task /\ \A x \in Todo' : x.op \in {"cleanup", "answer"}
    BY <1>5, <1>6, SettleSettles
  <2>2. \A x \in Todo' : StepKept(x)'
    BY <1>1, <1>2, <2>1 DEF StepKept, Begins, Closed
  <2>3. StateKept'
    BY <1>1, <1>4, <2>1 DEF KeptOk, StateKept
  <2> QED  BY <2>2, <2>3 DEF KeptOk
<1>7. CASE SettleStopped \/ Settle
  <2>1. /\ task.status # "cancelled" /\ task'.status \in {"idle", "failed"} /\ task'.worktree = task.worktree
        /\ \A x \in Todo' : x.op \in {"finishFailed", "chain", "pump", "answer"}
    BY <1>5, <1>7, SettleSettles
  <2>2. \A x \in Todo' : StepKept(x)'
    BY <1>1, <1>2, <2>1 DEF StepKept, Closed
  <2>3. task.worktree # FALSE
    BY <1>2, <2>1 DEF KeptOk, StateKept, Closed
  <2>4. StateKept'
    BY <1>1, <1>3, <1>4, <2>1, <2>3 DEF KeptOk, StateKept
  <2> QED  BY <2>2, <2>4 DEF KeptOk
<1> QED  BY <1>6, <1>7

(* An entry of the journal, and the end of the execution.                   *)
LEMMA EventsKeepTree ==
    ASSUME Sound, IsFiniteSet(steers), KeptOk,
           Project \/ TurnEnds \/ \E w \in waiting : SkillsResolve(w) \/ SkillsFail(w)
    PROVE  KeptOk'
<1>1. CASE Project
  <2>1. /\ UNCHANGED <<execs, web, handle, waiting>> /\ view.exec # 0 /\ view'.exec = view.exec
        /\ task'.worktree = task.worktree
        /\ task'.status = task.status \/ (task.status # "cancelled" /\ task'.status \in InFlight)
        /\ \A x \in Todo' : x.op = "append"
    BY <1>1, ProjectProjects
  <2>2. task.status \notin {"archived", "none"}
    BY <2>1 DEF KeptOk, StateKept
  <2>3. LiveExec' <=> LiveExec
    BY <2>1 DEF LiveExec, Last
  <2>4. \A x \in Todo' : StepKept(x)'
    BY <2>1 DEF StepKept, Begins
  <2>5. task.worktree = FALSE => task.status = "cancelled" /\ ~LiveExec
    BY <2>2 DEF KeptOk, StateKept, Closed
  <2>6. StateKept'
    BY <2>1, <2>2, <2>3, <2>5 DEF KeptOk, StateKept, InFlight, Closed
  <2> QED  BY <2>4, <2>6 DEF KeptOk
<1>2. CASE TurnEnds
  <2>1. /\ UNCHANGED <<execs, web, waiting>> /\ handle' = 0 /\ view'.exec = 0 /\ CaughtUp /\ execs[view.exec].state = "ended"
        /\ task'.status = task.status /\ task'.worktree = task.worktree
        /\ \A x \in Todo' : x.op \in {"control", "answer"}
    BY <1>2, EndLeaves
  <2>2. view.exec = Len(execs) /\ view.exec # 0
    BY <2>1 DEF KeptOk, StateKept, CaughtUp
  <2>3. ~LiveExec /\ task.status # "archived"
    BY <2>1, <2>2 DEF KeptOk, StateKept, LiveExec, Last
  <2>4. LiveExec' <=> LiveExec
    BY <2>1 DEF LiveExec, Last
  <2>5. \A x \in Todo' : StepKept(x)'
    BY <2>1, <2>3 DEF StepKept, Begins
  <2>6. StateKept'
    BY <2>1, <2>3, <2>4 DEF KeptOk, StateKept
  <2> QED  BY <2>5, <2>6 DEF KeptOk
<1> QED  BY <1>1, <1>2 DEF KeptOk, StateKept

(* Crashes, restarts and executions.                                        *)
LEMMA OthersKeepTree ==
    ASSUME Sound, Sound', KeptOk, Crash \/ Boot \/ BootRefused \/ Execution \/ UNCHANGED vars
    PROVE  KeptOk'
<1>1. CASE Crash
  <2>1. /\ web' = "down" /\ view'.exec = 0 /\ handle' = 0 /\ waiting' = {} /\ Todo' = {} /\ UNCHANGED <<task, execs>>
    BY <1>1, FewElements DEF Crash, Todo, NoView, product
  <2>2. LiveExec' <=> LiveExec
    BY <2>1 DEF LiveExec, Last
  <2> QED  BY <2>1, <2>2 DEF KeptOk, StateKept
<1>2. CASE Boot
  <2>1. Todo' = {} /\ waiting = {} /\ handle = 0 /\ UNCHANGED <<task, execs, waiting>>
    BY <1>2, BootBoots
  <2>2. LiveExec' <=> LiveExec
    BY <2>1 DEF LiveExec, Last
  <2>3. LiveExec => Reattached
    BY DEF KeptOk, StateKept, LiveExec, Reattached
  <2>4. CASE /\ Reattached /\ handle' = Len(execs)
             /\ view' = [exec |-> Len(execs), cursor |-> 0, baseline |-> task.rawSeq, listening |-> TRUE]
    <3>1. view'.exec = Len(execs) /\ task.status \in InFlight \cup {"cancelled"}
      BY <2>4 DEF Reattached
    <3> QED  BY <2>1, <2>2, <2>4, <3>1 DEF KeptOk, StateKept, InFlight
  <2>5. CASE ~Reattached /\ handle' = handle /\ view' = view
    BY <2>1, <2>2, <2>3, <2>5 DEF KeptOk, StateKept
  <2> QED  BY <1>2, <2>4, <2>5, BootBoots
<1>3. CASE BootRefused
  <2>1. web' # "up" /\ UNCHANGED <<task, queue, execs, handle, view, waiting, agenda>>
    BY <1>3 DEF BootRefused, product, memory
  <2>2. \A x \in Todo' : StepKept(x)'
    BY <2>1 DEF KeptOk, StepKept, Pending, Todo
  <2>3. StateKept'
    BY <2>1 DEF KeptOk, StateKept, LiveExec, Last
  <2> QED  BY <2>2, <2>3 DEF KeptOk
<1>4. CASE Execution
  <2>1. UNCHANGED <<task, queue, web, handle, view, waiting, agenda>> /\ ExecsProceed
    BY <1>4, ExecutionProceeds
  <2>2. /\ LiveExec' => LiveExec
        /\ (\A e \in DOMAIN execs : e < Len(execs) => execs[e].state = "ended") =>
              \A e \in DOMAIN execs' : e < Len(execs') => execs'[e].state = "ended"
    BY <2>1, EndedStays DEF ExecsProceed
  <2>3. \A x \in Todo' : StepKept(x)'
    BY <2>1 DEF KeptOk, StepKept, Pending, Todo
  <2>4. StateKept'
    BY <2>1, <2>2 DEF KeptOk, StateKept, ExecsProceed
  <2> QED  BY <2>3, <2>4 DEF KeptOk
<1>5. CASE UNCHANGED vars
  <2>1. UNCHANGED <<task, queue, execs, web, handle, view, waiting, agenda>>
    BY <1>5 DEF vars
  <2> QED  BY <2>1 DEF KeptOk, StepKept, Pending, Todo, StateKept, LiveExec, Last
<1> QED  BY <1>1, <1>2, <1>3, <1>4, <1>5

(* Every step of a task without skills, but a failing admission.            *)
LEMMA NextKeepsTree ==
    ASSUME Sound, Sound', IsFiniteSet(steers), KeptOk, Next \/ UNCHANGED vars, Simple
    PROVE  KeptOk'
<1>1. CASE UserRequest \/ Timer \/ \E s \in steers : SteerResolves(s) \/ ReceiptArrives(s) \/ SendTimesOut(s)
  <2>1. CASE \E skills \in BOOLEAN : CreateTask(skills /\ Asked("skills"))
    <3>1. PICK skills \in BOOLEAN : CreateTask(skills /\ Asked("skills"))
      BY <2>1
    <3>2. (skills /\ Asked("skills")) = FALSE
      BY DEF Simple
    <3>3. CreateTask(FALSE)
      BY <3>1, <3>2
    <3> QED  BY <3>3, CreatingKeepsTree
  <2>2. CASE Asks
    BY <2>2, AskingKeepsTree
  <2> QED  BY <1>1, <2>1, <2>2, RequestsAsk DEF UserRequest
<1>2. CASE Step \/ StartThrows
  <2>1. CASE \/ Pump \/ SendMessageNow \/ Start \/ StartThrows \/ SetStopping \/ DropSteer \/ Interrupt \/ SetRestart
             \/ InterruptSteered \/ Steer \/ HandOver \/ Answered \/ ClearControl \/ Chain
    BY <2>1, StepsGoOn, ProceedingKeepsTree DEF Simple
  <2>2. CASE SetRunning \/ SetFailed \/ Dequeue \/ SetArchived
    BY <2>2, StatusCommits, StatusKeepsTree
  <2> QED  BY <1>2, <2>1, <2>2, QueueKeepsTree, BeginKeepsTree, ReserveKeepsTree, RowsKeepTree, SettleKeepsTree DEF Step
<1>3. CASE Project \/ TurnEnds \/ \E w \in waiting : SkillsResolve(w) \/ SkillsFail(w)
  BY <1>3, EventsKeepTree
<1>4. CASE Crash \/ Boot \/ BootRefused \/ Execution \/ UNCHANGED vars
  BY <1>4, OthersKeepTree
<1>5. ~AdmitThrows
  BY DEF AdmitThrows, Fault, Simple
<1> QED  BY <1>1, <1>2, <1>3, <1>4, <1>5 DEF Next, Await

(* Initially there is no execution.                                         *)
LEMMA InitKept ==
    ASSUME Init
    PROVE  KeptOk
<1>1. Todo = {} /\ view.exec = 0 /\ handle = 0 /\ waiting = {} /\ execs = <<>> /\ task.worktree = TRUE
  BY FewElements DEF Init, Todo, NoView
<1>2. ~LiveExec /\ DOMAIN execs = {}
  BY <1>1 DEF LiveExec
<1> QED  BY <1>1, <1>2 DEF KeptOk, StateKept

(* The invariant, of a task without skills whose admissions succeed.        *)
THEOREM TurnsKeep ==
    Spec /\ Simple => []KeptOk
<1>1. Init /\ Simple => Simple /\ KeptOk
  BY InitKept
<1>2. Sound /\ Sound' /\ IsFiniteSet(steers) /\ (Simple /\ KeptOk) /\ [Next]_vars => (Simple /\ KeptOk)'
  <2> SUFFICES ASSUME Sound, Sound', IsFiniteSet(steers), Simple, KeptOk, Next \/ UNCHANGED vars
               PROVE  Simple' /\ KeptOk'
    OBVIOUS
  <2>1. Simple'
    BY ScenarioStays DEF Asked, Simple
  <2> QED  BY <2>1, NextKeepsTree
<1> QED  BY <1>1, <1>2, TurnsAreSound, PTL DEF Spec

(* A worktree is removed only when no execution of the task is left, for    *)
(* every order of cancelling, archiving, stopping and crashing              *)
(* (finishTurn, cancel, archive and init).                                  *)
THEOREM WorktreesOutliveProviders ==
    Spec /\ WithSkills = {} /\ ~Asked("skills") /\ ~Asked("admission") => []WorktreeOutlivesProvider
<1>1. Sound /\ KeptOk => WorktreeOutlivesProvider
  <2>1. Sound => task.worktree \in BOOLEAN
    BY DEF Sound, TypeOK
  <2> QED  BY <2>1 DEF KeptOk, StateKept, WorktreeOutlivesProvider
<1>2. WithSkills = {} /\ ~Asked("skills") /\ ~Asked("admission") => Simple
  BY DEF Simple
<1> QED  BY <1>1, <1>2, TurnsKeep, TurnsAreSound, PTL

-----------------------------------------------------------------------------
(* What of the journals is in the product log.  Every execution but the     *)
(* last is in it completely; the last one up to the cursor of its handle,   *)
(* except for the entry whose append is the next commit.  As long as some   *)
(* of it is missing, the task is in flight and the handle is there, or the  *)
(* task is closed.                                                          *)
SeenUpTo(e, n) == \A i \in 1..n : <<e, i>> \in Elements(shown)
Seen(e) == SeenUpTo(e, Len(execs[e].journal))
LastSeen == execs # <<>> => Seen(Len(execs))
Projected ==
    view.exec # 0 =>
        /\ SeenUpTo(view.exec, view.baseline)
        /\ \A i \in 1..view.cursor : <<view.exec, i>> \in Elements(shown) \/ (Pending({"append"}) /\ i = view.cursor)
StepSeen(x) ==
    /\ x.op = "append" => x.exec = view.exec /\ x.seq = view.cursor /\ view.exec # 0
    /\ x.op = "reserve" => task.rawSeq = 0 \/ Pending({"reset"})
SeenOk ==
    /\ \A e \in DOMAIN execs : e < Len(execs) => Seen(e)
    /\ execs # <<>> => SeenUpTo(Len(execs), task.rawSeq)
    /\ Projected
    /\ \A x \in Todo : StepSeen(x)
    /\ ~LastSeen => task.status \in InFlight \cup Closed
    /\ ~LastSeen /\ web = "up" /\ task.status \notin Closed => view.exec = Len(execs)

(* Without a handle everything has been shown.                              *)
LEMMA AllShown ==
    ASSUME Sound, KeptOk, SeenOk, web = "up", handle = 0, task.status \notin Closed
    PROVE  LastSeen
<1>1. view.exec = 0
  BY DEF KeptOk, StateKept
<1>2. execs # <<>> => Len(execs) # 0
  BY DEF Sound, TypeOK
<1> QED  BY <1>1, <1>2 DEF SeenOk, LastSeen

(* Journals that stay as they are, in a log that stays as it is.            *)
LEMMA SeenStays ==
    ASSUME Sound, Sound', SameJournals, shown' = shown
    PROVE  /\ \A e, n : SeenUpTo(e, n)' <=> SeenUpTo(e, n)
           /\ \A e \in DOMAIN execs : Seen(e) => Seen(e)'
           /\ LastSeen <=> LastSeen'
           /\ execs' # <<>> => execs # <<>>
<1>1. execs \in Seq(Exec) /\ execs' \in Seq(Exec) /\ Len(execs') = Len(execs) /\ DOMAIN execs' = DOMAIN execs
  BY DEF Sound, TypeOK, SameJournals
<1>2. execs' # <<>> <=> execs # <<>>
  BY <1>1
<1>3. \A e, n : SeenUpTo(e, n)' <=> SeenUpTo(e, n)
  BY DEF SeenUpTo
<1>4. \A e \in DOMAIN execs : Seen(e)' <=> Seen(e)
  BY <1>3 DEF Seen, SameJournals
<1>5. execs # <<>> => Len(execs) \in DOMAIN execs
  BY <1>1
<1>6. LastSeen <=> LastSeen'
  BY <1>1, <1>2, <1>4, <1>5 DEF LastSeen
<1> QED  BY <1>2, <1>3, <1>4, <1>6

(* A step that shows nothing and forgets nothing that is not shown.         *)
LEMMA NothingShown ==
    ASSUME Sound, Sound', SeenOk, SameJournals, shown' = shown, ~Pending({"append"}),
           view'.exec = view.exec, view'.cursor = view.cursor, view'.baseline \in {view.baseline, 0},
           task'.rawSeq \in {task.rawSeq, 0}, \A x \in Todo' : StepSeen(x)',
           LastSeen \/ task'.status \in Closed \/ (task'.status = task.status /\ (web' = web \/ web' # "up"))
    PROVE  SeenOk'
<1>1. Len(execs') = Len(execs) /\ DOMAIN execs' = DOMAIN execs
  BY DEF SameJournals
<1>2. \A e, n : SeenUpTo(e, n)' <=> SeenUpTo(e, n)
  BY SeenStays
<1>3. \A e : SeenUpTo(e, 0)
  BY DEF SeenUpTo
<1>4. \A e \in DOMAIN execs' : e < Len(execs') => Seen(e)'
  BY <1>1, SeenStays DEF SeenOk
<1>5. execs' # <<>> => SeenUpTo(Len(execs), task'.rawSeq)
  BY <1>3, SeenStays DEF SeenOk
<1>7. (execs # <<>> => SeenUpTo(Len(execs), task.rawSeq))'
  BY <1>1, <1>5 DEF SeenUpTo
<1>8. Projected'
  <2> SUFFICES ASSUME view'.exec # 0
               PROVE  /\ \A i \in 1..view'.baseline : <<view'.exec, i>> \in Elements(shown)
                      /\ \A i \in 1..view'.cursor : <<view'.exec, i>> \in Elements(shown)
    BY DEF Projected, SeenUpTo
  <2>1. SeenUpTo(view.exec, view.baseline) /\ \A i \in 1..view.cursor : <<view.exec, i>> \in Elements(shown)
    BY DEF SeenOk, Projected
  <2>2. SeenUpTo(view.exec, view'.baseline)
    BY <1>3, <2>1
  <2> QED  BY <2>1, <2>2 DEF SeenUpTo
<1>9. ~LastSeen' => ~LastSeen
  BY SeenStays
<1>10. /\ ~LastSeen' => task'.status \in InFlight \cup Closed
       /\ ~LastSeen' /\ web' = "up" /\ task'.status \notin Closed => view'.exec = Len(execs')
  BY <1>1, <1>9 DEF SeenOk
<1> QED  BY <1>4, <1>7, <1>8, <1>10 DEF SeenOk

(* The executions as they are.                                              *)
LEMMA SameExecs ==
    ASSUME execs' = execs
    PROVE  SameJournals
BY DEF SameJournals

(* Requests, and commits after which the turn goes on.                      *)
LEMMA AskingSees ==
    ASSUME Sound, Sound', SeenOk, Asks \/ Proceeds
    PROVE  SeenOk'
<1>1. UNCHANGED <<task, shown, web, view>> /\ SameJournals
  BY SameExecs DEF Asks, Proceeds
<1>2. ~Pending({"append"})
  BY DEF Asks, Proceeds, Pending, Dull
<1>3. \A x \in Todo' : x.op \notin {"append", "reserve"}
  BY DEF Asks, Proceeds, Fresh, Continues, Dull
<1>4. \A x \in Todo' : StepSeen(x)'
  BY <1>3 DEF StepSeen
<1> QED  BY <1>1, <1>2, <1>4, NothingShown

(* The creation of the task.                                                *)
LEMMA CreatingSees ==
    ASSUME Sound, Sound', SeenOk, NEW skills, CreateTask(skills)
    PROVE  SeenOk'
<1>1. /\ task.status = "none" /\ task' = [task EXCEPT !.status = "queued"] /\ agenda = <<>>
      /\ UNCHANGED <<shown, view, execs>> /\ agenda' = <<[op |-> "begin", turn |-> Plain, skills |-> skills]>>
  BY DEF CreateTask, Idle, Exists, Request
<1>2. PICK a : a = [op |-> "begin", turn |-> Plain, skills |-> skills]
  OBVIOUS
<1>3. a.op = "begin" /\ Todo' = {a} /\ Todo = {}
  BY <1>1, <1>2, FewElements DEF Todo
<1>4. task'.rawSeq = task.rawSeq
  BY <1>1 DEF Sound, TypeOK
<1>5. LastSeen
  BY <1>1 DEF SeenOk, InFlight, Closed
<1>6. \A x \in Todo' : StepSeen(x)'
  BY <1>3 DEF StepSeen
<1>7. ~Pending({"append"})
  BY <1>3 DEF Pending
<1> QED  BY <1>1, <1>4, <1>5, <1>6, <1>7, NothingShown, SameExecs

(* No append stands behind another commit, and the commits that are left    *)
(* are still right.                                                         *)
LEMMA RestSees ==
    ASSUME SeenOk, NEW op, Making(op), op # "append"
    PROVE  /\ ~Pending({"append"}) /\ \A x \in Rest : x.op # "append"
           /\ Todo' = Rest /\ op # "reset" /\ task'.rawSeq = task.rawSeq => \A x \in Todo' : StepSeen(x)'
<1>1. Todo = {Now} \cup Rest /\ Now.op = op /\ \A x \in Rest : x.op # "append"
  BY DEF Making, Behind
<1>2. ~Pending({"append"})
  BY <1>1 DEF Pending
<1>3. ASSUME Todo' = Rest, op # "reset", task'.rawSeq = task.rawSeq, NEW x \in Rest PROVE StepSeen(x)'
  <2>1. StepSeen(x) /\ x.op # "append"
    BY <1>1, <1>3 DEF SeenOk
  <2>2. Pending({"reset"}) => Pending({"reset"})'
    BY <1>1, <1>3 DEF Pending
  <2> QED  BY <1>3, <2>1, <2>2 DEF StepSeen
<1> QED  BY <1>1, <1>2, <1>3

(* Commits that set the status.                                             *)
LEMMA StatusSees ==
    ASSUME Sound, Sound', KeptOk, SeenOk, NEW op, NEW status, StatusOnly(op, status),
           <<op, status>> \in {<<"run", "running">>, <<"fail", "failed">>, <<"dequeue", "idle">>, <<"archived", "archived">>}
    PROVE  SeenOk'
<1>1. /\ Making(op) /\ Todo' = Rest /\ UNCHANGED <<shown, view, execs>> /\ StepKept(Now)
      /\ task'.status = status /\ task'.rawSeq = task.rawSeq /\ web = "up" /\ web' = "up" /\ Now.op = op
  BY DEF StatusOnly, Making, KeptOk
<1>2. op \in {"run", "fail", "dequeue", "archived"}
  OBVIOUS
<1>3. ~Pending({"append"}) /\ \A x \in Todo' : StepSeen(x)'
  BY <1>1, <1>2, RestSees
<1>4. CASE op = "archived" /\ status = "archived"
  BY <1>1, <1>3, <1>4, NothingShown, SameExecs DEF Closed
<1>5. CASE op # "archived"
  <2>1. handle = 0 /\ task.status \notin Closed
    BY <1>1, <1>2, <1>5 DEF StepKept, Begins
  <2>2. LastSeen
    BY <1>1, <2>1, AllShown
  <2> QED  BY <1>1, <1>3, <2>2, NothingShown, SameExecs
<1> QED  BY <1>4, <1>5

(* Commits of the queue alone.                                              *)
LEMMA QueueSees ==
    ASSUME Sound, Sound', SeenOk, FinishFailed \/ Reject \/ StopParked \/ ArmRuntime
    PROVE  SeenOk'
<1>1. PICK op \in {"finishFailed", "reject", "stopWaiting", "arm"} : QueueOnly(op)
  BY RunCommits
<1>2. Making(op) /\ Todo' = Rest /\ UNCHANGED <<task, shown, execs, view>> /\ web' = web
  BY <1>1 DEF QueueOnly, Making
<1>3. ~Pending({"append"}) /\ \A x \in Todo' : StepSeen(x)'
  BY <1>2, RestSees
<1> QED  BY <1>2, <1>3, NothingShown, SameExecs

(* The run begins.                                                          *)
LEMMA BeginSees ==
    ASSUME Sound, Sound', KeptOk, SeenOk, Begin \/ Park
    PROVE  SeenOk'
<1>1. CASE Begin
  <2>1. /\ Making("begin") /\ StepKept(Now) /\ Now.op = "begin" /\ web' = web
        /\ UNCHANGED <<task, shown, execs, view>>
    BY <1>1, BeginBegins DEF Making, KeptOk
  <2>2. PICK S : Todo' = S \cup Rest /\ OpensTurn(S)
    BY <1>1, <2>1, BeginBegins DEF StepKept
  <2>3. Pending({"reset"})'
    BY <2>2 DEF Pending, OpensTurn
  <2>4. \A x \in Todo' : StepSeen(x)'
    <3>1. \A x \in S : x.op # "append"
      BY <2>2 DEF OpensTurn
    <3>2. \A x \in Rest : x.op # "append"
      BY <2>1 DEF Making, Behind
    <3> QED  BY <2>2, <2>3, <3>1, <3>2 DEF StepSeen
  <2>5. ~Pending({"append"})
    BY <2>1, RestSees
  <2> QED  BY <2>1, <2>4, <2>5, NothingShown, SameExecs
<1>2. CASE Park
  BY <1>2, ParkParks DEF Making, KeptOk, StepKept
<1> QED  BY <1>1, <1>2

-----------------------------------------------------------------------------
(* The reservation: the execution before it has been shown completely.      *)
LEMMA ReserveSees ==
    ASSUME Sound, Sound', KeptOk, SeenOk, Reserve \/ ReserveThrows
    PROVE  SeenOk'
<1>1. /\ Making("reserve") /\ web = "up" /\ web' = "up" /\ StepKept(Now) /\ StepSeen(Now) /\ Now.op = "reserve"
  BY ReserveReserves, ThrowCatches DEF Making, KeptOk, SeenOk
<1>2. \A x \in Rest : x.op = "answer"
  BY <1>1 DEF Making, Behind
<1>3. ~Pending({"run"}) /\ ~Pending({"reset"}) /\ ~Pending({"append"})
  BY <1>1, <1>2 DEF Pending, Making
<1>4. handle = 0 /\ task.status = "running" /\ task.rawSeq = 0
  BY <1>1, <1>3 DEF StepKept, StepSeen, Begins
<1>5. ~LiveExec /\ LastSeen
  BY <1>1, <1>4, NoHandleNoExec, AllShown DEF Closed
<1>6. CASE Reserve
  <2>1. /\ Todo' = Rest /\ UNCHANGED <<task, shown>> /\ Len(execs') = Len(execs) + 1
        /\ view' = [exec |-> Len(execs'), cursor |-> 0, baseline |-> 0, listening |-> TRUE]
        /\ \A e \in DOMAIN execs : execs'[e] = execs[e]
    BY <1>5, <1>6, ReserveReserves
  <2>2. view'.exec = Len(execs') /\ view'.cursor = 0 /\ view'.baseline = 0
    BY <2>1
  <2>3. \A e, n : SeenUpTo(e, n)' <=> SeenUpTo(e, n)
    BY <2>1 DEF SeenUpTo
  <2>4. ASSUME NEW e \in DOMAIN execs', e < Len(execs') PROVE Seen(e)'
    <3>1. execs \in Seq(Exec) /\ execs' \in Seq(Exec)
      BY DEF Sound, TypeOK
    <3>2. e \in DOMAIN execs /\ execs # <<>>
      BY <2>1, <2>4, <3>1
    <3>3. Seen(e)' <=> Seen(e)
      BY <2>1, <2>3, <3>2 DEF Seen
    <3>4. CASE e < Len(execs)
      BY <3>2, <3>3, <3>4 DEF SeenOk
    <3>5. CASE e = Len(execs)
      BY <1>5, <3>2, <3>3, <3>5 DEF LastSeen
    <3> QED  BY <2>1, <2>4, <3>1, <3>2, <3>4, <3>5
  <2>5. SeenUpTo(Len(execs), task.rawSeq)' /\ Projected'
    BY <1>4, <2>1, <2>2 DEF SeenUpTo, Projected
  <2>6. \A x \in Todo' : StepSeen(x)'
    BY <1>2, <2>1 DEF StepSeen
  <2>7. task'.status \in InFlight
    BY <1>4, <2>1 DEF InFlight
  <2> QED  BY <2>2, <2>4, <2>5, <2>6, <2>7 DEF SeenOk
<1>7. CASE ReserveThrows
  <2>1. /\ UNCHANGED <<task, shown, execs, view>>
        /\ \A x \in Todo' : x.op \in {"fail", "finishFailed"} \/ x \in Rest
    BY <1>7, ThrowCatches
  <2>2. \A x \in Todo' : StepSeen(x)'
    BY <1>2, <2>1 DEF StepSeen
  <2> QED  BY <1>3, <1>5, <2>1, <2>2, NothingShown, SameExecs
<1> QED  BY <1>6, <1>7

(* What is in the log stays in it.                                          *)
LEMMA LogGrows ==
    ASSUME Sound, NEW entry, shown' = Append(shown, entry)
    PROVE  Elements(shown)' = Elements(shown) \cup {entry}
<1>1. shown \in Seq(Nat \X Nat)
  BY DEF Sound, TypeOK
<1>2. PICK s : s = shown
  OBVIOUS
<1>3. Len(s) \in Nat /\ DOMAIN s = 1..Len(s)
  BY <1>1, <1>2
<1>4. /\ DOMAIN Append(s, entry) = 1..(Len(s) + 1) /\ Append(s, entry)[Len(s) + 1] = entry
      /\ \A i \in 1..Len(s) : Append(s, entry)[i] = s[i]
  BY <1>1, <1>2
<1>5. Elements(Append(s, entry)) = Elements(s) \cup {entry}
  BY <1>3, <1>4 DEF Elements
<1> QED  BY <1>2, <1>5

(* The rows of the task: cleanup, the cursor, a cancellation.               *)
LEMMA RowsSee ==
    ASSUME Sound, Sound', SeenOk, Cleanup \/ ResetCursor \/ SetCancelled
    PROVE  SeenOk'
<1>1. CASE Cleanup
  <2>1. /\ Making("cleanup") /\ Todo' = Rest /\ UNCHANGED <<shown, execs, view>> /\ web' = web
        /\ task'.status = task.status /\ task'.rawSeq = task.rawSeq
    BY <1>1, RowCommits DEF Making
  <2>2. ~Pending({"append"}) /\ \A x \in Todo' : StepSeen(x)'
    BY <2>1, RestSees
  <2> QED  BY <2>1, <2>2, NothingShown, SameExecs
<1>2. CASE ResetCursor
  <2>1. /\ Making("reset") /\ Todo' = Rest /\ UNCHANGED <<shown, execs>> /\ web' = web
        /\ task'.status = task.status /\ task'.rawSeq = 0
        /\ view'.exec = view.exec /\ view'.cursor = view.cursor /\ view'.baseline = 0
    BY <1>2, RowCommits DEF Making
  <2>2. ~Pending({"append"}) /\ \A x \in Rest : x.op # "append"
    BY <2>1, RestSees
  <2>3. \A x \in Todo' : StepSeen(x)'
    BY <2>1, <2>2 DEF StepSeen
  <2> QED  BY <2>1, <2>2, <2>3, NothingShown, SameExecs
<1>3. CASE SetCancelled
  <2>1. /\ Making("cancelled") /\ UNCHANGED <<shown, execs, view>> /\ task'.status = "cancelled" /\ task'.rawSeq = task.rawSeq
        /\ \A x \in Todo' : x.op \in {"interrupt", "stopWaiting", "cleanup"}
    BY <1>3, CancelCommits
  <2>2. ~Pending({"append"})
    BY <2>1, RestSees
  <2>3. \A x \in Todo' : StepSeen(x)'
    BY <2>1 DEF StepSeen
  <2> QED  BY <2>1, <2>2, <2>3, NothingShown, SameExecs DEF Closed
<1> QED  BY <1>1, <1>2, <1>3

(* The entry the cursor has passed is appended, with its number.            *)
LEMMA AppendSees ==
    ASSUME Sound, KeptOk, SeenOk, AppendEvent
    PROVE  SeenOk'
<1>1. /\ Making("append") /\ Todo' = Rest /\ UNCHANGED <<execs, view>> /\ web' = web
      /\ task'.status = task.status /\ task'.rawSeq = Now.seq /\ shown' = Append(shown, <<Now.exec, Now.seq>>)
      /\ StepSeen(Now) /\ Now.op = "append" /\ Now \in Todo
  BY RowCommits DEF Making, SeenOk
<1>2. Now.exec = view.exec /\ Now.seq = view.cursor /\ view.exec # 0 /\ view.exec = Len(execs)
  BY <1>1 DEF StepSeen, KeptOk, StateKept
<1>3. Elements(shown)' = Elements(shown) \cup {<<view.exec, view.cursor>>}
  BY <1>1, <1>2, LogGrows
<1>4. \A e, n : SeenUpTo(e, n) => SeenUpTo(e, n)'
  BY <1>3 DEF SeenUpTo
<1>5. \A e \in DOMAIN execs : Seen(e) => Seen(e)'
  BY <1>1, <1>4 DEF Seen
<1>6. Rest = {}
  BY <1>1 DEF Making, Behind, BeforeAnswers
<1>7. \A i \in 1..view.cursor : <<view.exec, i>> \in Elements(shown)'
  BY <1>2, <1>3 DEF SeenOk, Projected
<1>8. Projected'
  BY <1>1, <1>4, <1>7 DEF SeenOk, Projected, SeenUpTo
<1>9. SeenUpTo(Len(execs), task.rawSeq)'
  BY <1>1, <1>2, <1>7 DEF SeenUpTo
<1>10. execs # <<>> => Len(execs) \in DOMAIN execs
  BY DEF Sound, TypeOK
<1>11. LastSeen => LastSeen'
  BY <1>1, <1>5, <1>10 DEF LastSeen
<1>12. \A e \in DOMAIN execs' : e < Len(execs') => Seen(e)'
  BY <1>1, <1>5 DEF SeenOk
<1> QED  BY <1>1, <1>2, <1>6, <1>8, <1>9, <1>11, <1>12 DEF SeenOk

(* The end of a turn: its execution has been shown.                         *)
LEMMA SettleSees ==
    ASSUME Sound, Sound', KeptOk, SeenOk, SettleCancelled \/ SettleStopped \/ Settle
    PROVE  SeenOk'
<1>1. /\ Making("settle") /\ UNCHANGED <<shown, execs, view>> /\ web = "up" /\ web' = "up" /\ Now.op = "settle"
      /\ StepKept(Now)
  BY SettleSettles DEF Settles, Making, KeptOk
<1>2. handle = 0 /\ task.status # "archived"
  BY <1>1 DEF StepKept
<1>3. \A x \in Rest : x.op = "answer"
  BY <1>1 DEF Making, Behind
<1>4. \A x \in Todo' : x.op \in {"cleanup", "finishFailed", "chain", "pump", "answer"}
  BY <1>3, SettleSettles
<1>5. \A x \in Todo' : StepSeen(x)'
  BY <1>4 DEF StepSeen
<1>6. ~Pending({"append"})
  BY <1>1, RestSees
<1>7. CASE SettleCancelled
  BY <1>1, <1>5, <1>6, <1>7, SettleSettles, NothingShown, SameExecs
<1>8. CASE SettleStopped \/ Settle
  <2>1. task.status \notin Closed /\ task'.rawSeq = task.rawSeq
    BY <1>2, <1>8, SettleSettles DEF Closed
  <2>2. LastSeen
    BY <1>1, <1>2, <2>1, AllShown
  <2> QED  BY <1>1, <1>5, <1>6, <2>1, <2>2, NothingShown, SameExecs
<1> QED  BY <1>7, <1>8

-----------------------------------------------------------------------------
(* An entry of the journal, and the end of the execution.                   *)
LEMMA EventsSee ==
    ASSUME Sound, Sound', IsFiniteSet(steers), KeptOk, SeenOk,
           Project \/ TurnEnds \/ \E w \in waiting : SkillsResolve(w) \/ SkillsFail(w)
    PROVE  SeenOk'
<1>1. CASE Project
  <2>1. /\ Todo = {} /\ UNCHANGED <<shown, execs, web>> /\ view.exec # 0 /\ view'.exec = view.exec
        /\ view'.cursor = view.cursor + 1 /\ view'.baseline = view.baseline /\ task'.rawSeq = task.rawSeq
        /\ task'.status = task.status \/ (task.status # "cancelled" /\ task'.status \in InFlight)
        /\ \/ view.cursor + 1 <= view.baseline /\ Todo' = {}
           \/ \E x : Todo' = {x} /\ x.op = "append" /\ x.exec = view.exec /\ x.seq = view.cursor + 1
    BY <1>1, ProjectProjects
  <2>2. view.exec = Len(execs) /\ view.cursor \in Nat /\ view.baseline \in Nat
    BY <2>1 DEF KeptOk, StateKept, Sound, TypeOK
  <2>3. \A i \in 1..view.cursor : <<view.exec, i>> \in Elements(shown)
    BY <2>1 DEF SeenOk, Projected, Pending
  <2>4. \A i \in 1..view.baseline : <<view.exec, i>> \in Elements(shown)
    BY <2>1 DEF SeenOk, Projected, SeenUpTo
  <2>5. <<view.exec, view.cursor + 1>> \in Elements(shown) \/ Pending({"append"})'
    <3>1. CASE view.cursor + 1 <= view.baseline
      BY <2>2, <2>4, <3>1
    <3>2. CASE \E x : Todo' = {x} /\ x.op = "append"
      BY <3>2 DEF Pending
    <3> QED  BY <2>1, <3>1, <3>2
  <2>6. Projected'
    BY <2>1, <2>2, <2>3, <2>4, <2>5 DEF Projected, SeenUpTo
  <2>7. \A x \in Todo' : StepSeen(x)'
    BY <2>1 DEF StepSeen
  <2>8. LastSeen' <=> LastSeen
    BY <2>1 DEF LastSeen, Seen, SeenUpTo
  <2>9. (execs # <<>> => SeenUpTo(Len(execs), task.rawSeq))' /\ \A e \in DOMAIN execs' : e < Len(execs') => Seen(e)'
    BY <2>1 DEF SeenOk, Seen, SeenUpTo
  <2> QED  BY <2>1, <2>2, <2>6, <2>7, <2>8, <2>9 DEF SeenOk
<1>2. CASE TurnEnds
  <2>1. /\ Todo = {} /\ UNCHANGED <<shown, execs, web>> /\ view'.exec = 0 /\ CaughtUp
        /\ task'.status = task.status /\ task'.rawSeq = task.rawSeq
        /\ \A x \in Todo' : x.op \in {"control", "answer"}
    BY <1>2, EndLeaves
  <2>2. view.exec = Len(execs) /\ view.exec # 0 /\ view.cursor = Len(execs[view.exec].journal)
    BY <2>1 DEF KeptOk, StateKept, CaughtUp
  <2>3. \A i \in 1..view.cursor : <<view.exec, i>> \in Elements(shown)
    BY <2>1, <2>2 DEF SeenOk, Projected, Pending
  <2>4. LastSeen
    BY <2>2, <2>3 DEF LastSeen, Seen, SeenUpTo
  <2>5. LastSeen' <=> LastSeen
    BY <2>1 DEF LastSeen, Seen, SeenUpTo
  <2>6. \A x \in Todo' : StepSeen(x)'
    BY <2>1 DEF StepSeen
  <2>7. (execs # <<>> => SeenUpTo(Len(execs), task.rawSeq))' /\ \A e \in DOMAIN execs' : e < Len(execs') => Seen(e)'
    BY <2>1 DEF SeenOk, Seen, SeenUpTo
  <2>8. Projected'
    BY <2>1 DEF Projected
  <2> QED  BY <2>4, <2>5, <2>6, <2>7, <2>8 DEF SeenOk
<1> QED  BY <1>1, <1>2 DEF KeptOk, StateKept

(* Crashes and restarts: the journal is projected again from its start, up  *)
(* to the cursor of the row without appending.                              *)
LEMMA RestartsSee ==
    ASSUME Sound, Sound', KeptOk, SeenOk, Crash \/ Boot \/ BootRefused \/ UNCHANGED vars
    PROVE  SeenOk'
<1>1. UNCHANGED <<task, shown, execs>>
  BY BootBoots DEF Crash, BootRefused, product, vars
<1>2. LastSeen' <=> LastSeen
  BY <1>1 DEF LastSeen, Seen, SeenUpTo
<1>3. (execs # <<>> => SeenUpTo(Len(execs), task.rawSeq))' /\ \A e \in DOMAIN execs' : e < Len(execs') => Seen(e)'
  BY <1>1 DEF SeenOk, Seen, SeenUpTo
<1>4. ~LastSeen' => task'.status \in InFlight \cup Closed
  BY <1>1, <1>2 DEF SeenOk
<1>5. CASE Crash
  <2>1. web' = "down" /\ view'.exec = 0 /\ Todo' = {}
    BY <1>5, FewElements DEF Crash, Todo, NoView
  <2>2. Projected'
    BY <2>1 DEF Projected
  <2> QED  BY <1>3, <1>4, <2>1, <2>2 DEF SeenOk
<1>6. CASE Boot
  <2>1. Todo' = {} /\ handle = 0
    BY <1>6, BootBoots
  <2>2. CASE /\ Reattached
             /\ view' = [exec |-> Len(execs), cursor |-> 0, baseline |-> task.rawSeq, listening |-> TRUE]
    <3>1. view'.exec = Len(execs) /\ view'.cursor = 0 /\ view'.baseline = task.rawSeq /\ execs # <<>>
      BY <2>2 DEF Reattached
    <3>2. Projected'
      <4>1. \A i \in 1..view'.baseline : <<view'.exec, i>> \in Elements(shown)
        BY <3>1 DEF SeenOk, SeenUpTo
      <4>2. 1..view'.cursor = {}
        BY <3>1
      <4> QED  BY <1>1, <4>1, <4>2 DEF Projected, SeenUpTo
    <3> QED  BY <1>1, <1>3, <1>4, <2>1, <3>1, <3>2 DEF SeenOk
  <2>3. CASE ~Reattached /\ view' = view
    <3>1. view'.exec = 0
      BY <2>1, <2>3 DEF KeptOk, StateKept
    <3>2. Projected'
      BY <3>1 DEF Projected
    <3>3. ~LastSeen' => task'.status \in Closed
      BY <1>1, <1>2, <1>4, <2>3 DEF Reattached, LastSeen, Closed
    <3> QED  BY <1>3, <1>4, <2>1, <3>2, <3>3 DEF SeenOk
  <2> QED  BY <1>6, <2>2, <2>3, BootBoots
<1>7. CASE BootRefused \/ UNCHANGED vars
  <2>1. UNCHANGED <<view, agenda>> /\ (web' = web \/ web' # "up")
    BY <1>7 DEF BootRefused, memory, vars
  <2>2. Projected' /\ \A x \in Todo' : StepSeen(x)'
    BY <1>1, <2>1 DEF SeenOk, Projected, StepSeen, SeenUpTo, Pending, Todo
  <2>3. ~LastSeen' /\ web' = "up" /\ task'.status \notin Closed => view'.exec = Len(execs')
    BY <1>1, <1>2, <2>1 DEF SeenOk
  <2> QED  BY <1>3, <1>4, <2>2, <2>3 DEF SeenOk
<1> QED  BY <1>5, <1>6, <1>7

(* Only the journal of the last execution grows, and only while it runs.    *)
LEMMA ExecutionSees ==
    ASSUME Sound, Sound', KeptOk, SeenOk, Execution
    PROVE  SeenOk'
<1>1. UNCHANGED <<task, shown, web, view, agenda>> /\ ExecsProceed
  BY ExecutionProceeds
<1>2. Len(execs') = Len(execs) /\ DOMAIN execs' = DOMAIN execs
  BY <1>1 DEF ExecsProceed
<1>3. execs \in Seq(Exec) /\ execs' \in Seq(Exec)
  BY DEF Sound, TypeOK
<1>4. (execs' # <<>> <=> execs # <<>>) /\ (execs # <<>> => Len(execs) \in DOMAIN execs)
  BY <1>2, <1>3
<1>5. \A e, n : SeenUpTo(e, n)' <=> SeenUpTo(e, n)
  BY <1>1 DEF SeenUpTo
<1>6. \A e \in DOMAIN execs : execs[e].state = "ended" => (Seen(e)' <=> Seen(e))
  BY <1>1, <1>5 DEF Seen, ExecsProceed
<1>7. \A e \in DOMAIN execs' : e < Len(execs') => Seen(e)'
  BY <1>2, <1>6 DEF SeenOk, KeptOk, StateKept
<1>8. (execs # <<>> => SeenUpTo(Len(execs), task.rawSeq))'
  BY <1>1, <1>2, <1>4 DEF SeenOk, SeenUpTo
<1>9. Projected' /\ \A x \in Todo' : StepSeen(x)'
  BY <1>1 DEF SeenOk, Projected, StepSeen, SeenUpTo, Pending, Todo
<1>10. CASE LiveExec
  <2>1. task.status \in InFlight \cup {"cancelled"} /\ (web = "up" => view.exec = Len(execs))
    BY <1>10 DEF KeptOk, StateKept
  <2>2. /\ task'.status \in InFlight \cup Closed
        /\ web' = "up" /\ task'.status \notin Closed => view'.exec = Len(execs')
    BY <1>1, <1>2, <2>1 DEF Closed
  <2> QED  BY <1>7, <1>8, <1>9, <2>2 DEF SeenOk
<1>11. CASE ~LiveExec
  <2>1. LastSeen' <=> LastSeen
    BY <1>2, <1>4, <1>6, <1>11 DEF LastSeen, LiveExec, Last
  <2>2. /\ ~LastSeen' => task'.status \in InFlight \cup Closed
        /\ ~LastSeen' /\ web' = "up" /\ task'.status \notin Closed => view'.exec = Len(execs')
    BY <1>1, <1>2, <2>1 DEF SeenOk
  <2> QED  BY <1>7, <1>8, <1>9, <2>2 DEF SeenOk
<1> QED  BY <1>10, <1>11

(* Every step of a task without skills, but a failing admission.            *)
LEMMA NextSees ==
    ASSUME Sound, Sound', IsFiniteSet(steers), KeptOk, SeenOk, Next \/ UNCHANGED vars, Simple
    PROVE  SeenOk'
<1>1. CASE UserRequest \/ Timer \/ \E s \in steers : SteerResolves(s) \/ ReceiptArrives(s) \/ SendTimesOut(s)
  <2>1. CASE \E skills \in BOOLEAN : CreateTask(skills /\ Asked("skills"))
    BY <2>1, CreatingSees
  <2>2. CASE Asks
    BY <2>2, AskingSees
  <2> QED  BY <1>1, <2>1, <2>2, RequestsAsk DEF UserRequest
<1>2. CASE Step \/ StartThrows
  <2>1. CASE \/ Pump \/ SendMessageNow \/ Start \/ StartThrows \/ SetStopping \/ DropSteer \/ Interrupt \/ SetRestart
             \/ InterruptSteered \/ Steer \/ HandOver \/ Answered \/ ClearControl \/ Chain
    BY <2>1, StepsGoOn, AskingSees
  <2>2. CASE SetRunning \/ SetFailed \/ Dequeue \/ SetArchived
    BY <2>2, StatusCommits, StatusSees
  <2> QED  BY <1>2, <2>1, <2>2, QueueSees, BeginSees, ReserveSees, RowsSee, AppendSees, SettleSees DEF Step
<1>3. CASE Project \/ TurnEnds \/ \E w \in waiting : SkillsResolve(w) \/ SkillsFail(w)
  BY <1>3, EventsSee
<1>4. CASE Crash \/ Boot \/ BootRefused \/ Execution \/ UNCHANGED vars
  BY <1>4, RestartsSee, ExecutionSees
<1>5. ~AdmitThrows
  BY DEF AdmitThrows, Fault, Simple
<1> QED  BY <1>1, <1>2, <1>3, <1>4, <1>5 DEF Next, Await

(* Initially there is nothing to show.                                      *)
LEMMA InitSeen ==
    ASSUME Init
    PROVE  SeenOk
<1>1. Todo = {} /\ view.exec = 0 /\ execs = <<>>
  BY FewElements DEF Init, Todo, NoView
<1>2. DOMAIN execs = {} /\ LastSeen /\ Projected
  BY <1>1 DEF LastSeen, Projected
<1> QED  BY <1>1, <1>2 DEF SeenOk

(* The invariant, of a task without skills whose admissions succeed.        *)
THEOREM LogsGrow ==
    Spec /\ Simple => []SeenOk
<1>1. Init /\ Simple => Simple /\ SeenOk
  BY InitSeen
<1>2. Sound /\ Sound' /\ IsFiniteSet(steers) /\ KeptOk /\ (Simple /\ SeenOk) /\ [Next]_vars => (Simple /\ SeenOk)'
  <2> SUFFICES ASSUME Sound, Sound', IsFiniteSet(steers), KeptOk, Simple, SeenOk, Next \/ UNCHANGED vars
               PROVE  Simple' /\ SeenOk'
    OBVIOUS
  <2>1. Simple'
    BY ScenarioStays DEF Asked, Simple
  <2> QED  BY <2>1, NextSees
<1> QED  BY <1>1, <1>2, TurnsKeep, TurnsAreSound, PTL DEF Spec

(* When a turn has settled, everything its execution journalled is in the   *)
(* product log, however often the web was down while it ran (reattach, the  *)
(* baseline, and the completion condition of the handle).                   *)
THEOREM SettledIsComplete ==
    Spec /\ WithSkills = {} /\ ~Asked("skills") /\ ~Asked("admission") => []CompleteAtSettle
<1>1. Sound /\ SeenOk => CompleteAtSettle
  <2> SUFFICES ASSUME Sound, SeenOk, task.status \in {"idle", "failed"}, NEW e \in DOMAIN execs,
                      NEW i \in DOMAIN execs[e].journal
               PROVE  <<e, i>> \in Elements(shown)
    BY DEF CompleteAtSettle
  <2>1. execs \in Seq(Exec) /\ e \in 1..Len(execs) /\ execs # <<>> /\ execs[e] \in Exec
    BY DEF Sound, TypeOK
  <2>2. DOMAIN execs[e].journal = 1..Len(execs[e].journal)
    BY <2>1 DEF Exec
  <2>3. LastSeen
    BY DEF SeenOk, InFlight, Closed
  <2>4. Seen(e)
    BY <2>1, <2>3 DEF SeenOk, LastSeen
  <2> QED  BY <2>2, <2>4 DEF Seen, SeenUpTo
<1>2. WithSkills = {} /\ ~Asked("skills") /\ ~Asked("admission") => Simple
  BY DEF Simple
<1> QED  BY <1>1, <1>2, LogsGrow, TurnsAreSound, PTL
=============================================================================
