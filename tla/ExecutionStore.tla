--------------------------- MODULE ExecutionStore ---------------------------
(***************************************************************************)
(* The durable execution registry (executions.sqlite): one row per          *)
(* invocation with its journal and its command receipts, and the            *)
(* transactions of the class ExecutionStore on it.                          *)
(*                                                                         *)
(* Executions are numbered in insertion order, so the number stands both    *)
(* for the random id and for the rowid the SQL orders by.  lastSeq is the   *)
(* length of the journal: the primary key (execution,seq) makes a gap or a  *)
(* second row with the same seq impossible.  A pid with its boot and start  *)
(* identity is one process, named by the launch attempt that created it.    *)
(* The start arguments are reduced to what a transaction compares: the      *)
(* task, the message id and the provider session to resume.                 *)
(***************************************************************************)
EXTENDS Naturals, Sequences, FiniteSets

CONSTANTS
    Tasks,          \* product tasks
    Messages,       \* message ids a start may carry
    Sessions,       \* provider session identities
    Requests,       \* ids of provider questions
    Commands,       \* client-chosen command ids
    Bodies,         \* command contents used by the clients
    MaxLaunches,    \* bound on the processes ever launched for one execution
    MaxExecutions,  \* bound on the rows ever inserted
    None            \* SQL NULL, an absent optional argument

CommandKinds == {"send", "steer", "answer", "approve", "interrupt", "cancel"}

ASSUME StoreAssumption ==
    /\ MaxExecutions \in Nat
    /\ MaxLaunches \in Nat
    /\ IsFiniteSet(Commands)
    /\ None \notin Tasks \cup Messages \cup Sessions \cup Requests
    /\ None \notin Commands \cup Bodies
    /\ Bodies \subseteq [kind : CommandKinds, request : Requests \cup {None}]
    /\ \A s \in Sessions : s \notin 1..MaxExecutions
    /\ None \notin Nat

Executions == 1..MaxExecutions
Attempts == 1..MaxLaunches

Live == {"queued", "starting", "running"}
Ended == {"finished", "lost"}
States == {"absent"} \cup Live \cup Ended

Receipts == {"accepted", "delivered", "rejected", "unknown"}

(* A normalised event: what append and the projection look at.              *)
EventKinds == {"queued", "started", "output", "question", "input_resolved",
               "answer", "error", "process_exit"}
Entry == [kind : EventKinds, request : Requests \cup {None}]
Note(kind) == [kind |-> kind, request |-> None]

Args == [task : Tasks, message : Messages \cup {None}, resume : Sessions \cup {None}]
NoArgs == [task |-> None, message |-> None, resume |-> None]

(* rowid 0 marks an id that is not in the commands table.                   *)
NoCommand == [body |-> None, result |-> "none", claimed |-> FALSE, rowid |-> 0]
Inserted == [body : Bodies, result : Receipts, claimed : BOOLEAN, rowid : Nat \ {0}]
CommandRow == {NoCommand} \cup Inserted

Row == [state : States, args : Args \cup {NoArgs},
        ownerKey : Sessions \cup Executions \cup {None},
        pid : Attempts \cup {None}, question : Requests \cup {None},
        journal : Seq(Entry), commands : [Commands -> CommandRow]]

NoRow == [state |-> "absent", args |-> NoArgs, ownerKey |-> None, pid |-> None,
          question |-> None, journal |-> <<>>, commands |-> [c \in Commands |-> NoCommand]]

VARIABLES rows,      \* the executions, events and commands tables
          capacity   \* admission_settings

storeVars == <<rows, capacity>>

-----------------------------------------------------------------------------
(* Row operators: the part of a transaction that concerns one execution.    *)

(* clearQuestion: only the matching request is cleared.                     *)
Cleared(question, request) == IF question = request THEN None ELSE question

(* append: next seq, and the pending question follows the event.            *)
QuestionAfter(question, entry) ==
    CASE entry.kind = "question"       -> entry.request
      [] entry.kind = "input_resolved" -> Cleared(question, entry.request)
      [] OTHER                         -> question

Append1(row, entry) ==
    [row EXCEPT !.journal = Append(@, entry), !.question = QuestionAfter(@, entry)]

(* finish: no guard on the previous state; open receipts become unknown.    *)
EndRow(row, lost) ==
    [row EXCEPT !.state = IF lost THEN "lost" ELSE "finished", !.question = None]
ResolveOpen(row, result) ==
    [row EXCEPT !.commands = [c \in Commands |->
        IF row.commands[c].result = "accepted" THEN [row.commands[c] EXCEPT !.result = result]
                                               ELSE row.commands[c]]]
FinishRowOpen(row, lost) == EndRow(row, lost)
FinishRowOptimistic(row, lost) == ResolveOpen(EndRow(row, lost), "delivered")
FinishRow(row, lost) == ResolveOpen(EndRow(row, lost), "unknown")

(* cancelBeforeStart: only while no process has claimed the row.            *)
CancellableWhileLive(row) == row.state \in Live
CancellableBeforeStart(row) == row.state \in {"queued", "starting"} /\ row.pid = None
CancelRow(row) == FinishRow(Append1(row, Note("process_exit")), FALSE)

(* enqueue: the receipt a command would get.  A known id is answered from   *)
(* its row; reuse of an id with another body throws ("reused").             *)
AnswerBlockedByQuestion(row, request) == row.question # request
AnswerBlocked(row, request) ==
    \/ row.question # request
    \/ \E c \in Commands : /\ row.commands[c].rowid # 0
                           /\ row.commands[c].body.kind = "answer"
                           /\ row.commands[c].body.request = request
                           /\ row.commands[c].result # "rejected"

EnqueueResult(row, c, body) ==
    IF row.commands[c].rowid # 0
    THEN IF row.commands[c].body = body THEN row.commands[c].result ELSE "reused"
    ELSE IF row.state # "running" THEN "rejected"
    ELSE IF body.kind = "answer" /\ AnswerBlocked(row, body.request) THEN "rejected"
    ELSE "accepted"

InsertCommand(row, c, body) ==
    [row EXCEPT !.commands[c] = [body |-> body, result |-> "accepted", claimed |-> FALSE,
        rowid |-> 1 + Cardinality({d \in Commands : row.commands[d].rowid # 0})]]

EnqueueRowAgain(row, c, body) ==
    IF row.state = "running" THEN InsertCommand(row, c, body) ELSE row
EnqueueRow(row, c, body) ==
    IF row.commands[c].rowid = 0 /\ EnqueueResult(row, c, body) = "accepted"
    THEN InsertCommand(row, c, body) ELSE row

(* pending: every accepted, unclaimed command, claimed under the write lock.*)
PendingCommands(row) ==
    {c \in Commands : row.commands[c].result = "accepted" /\ ~row.commands[c].claimed}

ClaimCommands(row) ==
    [row EXCEPT !.commands = [c \in Commands |->
        IF c \in PendingCommands(row) THEN [row.commands[c] EXCEPT !.claimed = TRUE]
                                      ELSE row.commands[c]]]

(* settle: only an open receipt; a delivered answer clears its question and *)
(* is journalled in the same transaction.                                   *)
SettleRow(row, c, result) ==
    LET body     == row.commands[c].body
        settled  == [row EXCEPT !.commands[c].result = result]
        answered == [kind |-> "answer", request |-> body.request]
    IN  IF row.commands[c].result # "accepted" THEN row
        ELSE IF body.kind = "answer" /\ result = "delivered"
             THEN Append1([settled EXCEPT !.question = Cleared(@, body.request)], answered)
             ELSE settled

-----------------------------------------------------------------------------
(* Transactions that look at several rows.                                  *)

Rows(states) == {e \in Executions : rows[e].state \in states}
OfTask(t) == {e \in Executions : rows[e].state # "absent" /\ rows[e].args.task = t}
IsLatest(e, t) == e \in OfTask(t) /\ \A f \in OfTask(t) : f <= e

(* The unique index live_owner.                                             *)
OwnerFree(e, owner) == \A f \in Rows(Live) \ {e} : rows[f].ownerKey # owner

(* reserve: a live latest execution of the task answers an identical retry  *)
(* of the same message with itself and refuses everything else (Reserved);  *)
(* otherwise a new queued row is inserted, unless the provider session is   *)
(* owned by another live execution (ReserveRow).                            *)
Reserved(e, args) ==
    /\ IsLatest(e, args.task)
    /\ rows[e].state \in Live
    /\ args.message # None
    /\ rows[e].args = args

OwnerOf(e, args) == IF args.resume = None THEN e ELSE args.resume

CanReserve(e, args) ==
    /\ rows[e].state = "absent"
    /\ \A f \in Executions : f < e => rows[f].state # "absent"
    /\ \A f \in OfTask(args.task) : rows[f].state \notin Live
    /\ OwnerFree(e, OwnerOf(e, args))

ReserveRow(e, args) ==
    Append1([NoRow EXCEPT !.state = "queued", !.args = args, !.ownerKey = OwnerOf(e, args)],
            Note("queued"))

(* admit: the oldest queued rows fill the slots that are free, counted and  *)
(* taken in one transaction.                                                *)
Occupied == Cardinality(Rows({"starting", "running"}))

AdmittedOverLimit ==
    {e \in Rows({"queued"}) :
        Cardinality({f \in Rows({"queued"}) : f < e}) + Occupied <= capacity}
AdmittedUnderLimit ==
    {e \in Rows({"queued"}) :
        Cardinality({f \in Rows({"queued"}) : f < e}) + Occupied + 1 < capacity}
AdmittedNewestFirst ==
    {e \in Rows({"queued"}) :
        Cardinality({f \in Rows({"queued"}) : f > e}) + Occupied < capacity}
Admitted ==
    {e \in Rows({"queued"}) :
        Cardinality({f \in Rows({"queued"}) : f < e}) + Occupied < capacity}

AdmitRows ==
    [e \in Executions |-> IF e \in Admitted THEN [rows[e] EXCEPT !.state = "starting"]
                                            ELSE rows[e]]

(* claim: the durable, exclusive right to invoke the provider.              *)
ClaimableUnlessClaimed(row) == row.pid = None
ClaimableAgain(row) == row.state \in {"starting", "running"}
Claimable(row) == row.state = "starting" /\ row.pid = None
ClaimRowUnset(row, k) == [row EXCEPT !.state = "running", !.pid = 0]
ClaimRow(row, k) == [row EXCEPT !.state = "running", !.pid = k]

(* bindSession: only a running row takes the session as its owner key.      *)
BindRowNever(row, session) == row
BindRow(row, session) ==
    IF row.state = "running" THEN [row EXCEPT !.ownerKey = session] ELSE row

=============================================================================
