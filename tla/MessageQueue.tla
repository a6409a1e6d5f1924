---------------------------- MODULE MessageQueue ----------------------------
(***************************************************************************)
(* The message aggregate of one task: MessageState as the synchronous       *)
(* transitions of MessageController read and write it.  Every operator      *)
(* below is what one commit (`save`) makes of the stored record; which      *)
(* commits a request makes, in which order, and what a crash leaves of them *)
(* is the subject of module TaskTurns.                                      *)
(*                                                                         *)
(* Texts, attachments and settings are left out.  `version` stands for the  *)
(* content: an edit is the only thing that changes either.                  *)
(***************************************************************************)
EXTENDS Naturals, Sequences, FiniteSets

CONSTANTS
    None,           \* an absent value (null or undefined)
    Messages,       \* client message ids
    Editors,        \* edit tokens, one per open editor
    Compactions,    \* request ids of context compactions
    QueueLimit,     \* most unresolved messages of a task (100)
    MaxVersion      \* bound on saved edits

ASSUME QueueAssumption ==
    /\ None \notin Messages \cup Editors \cup Compactions
    /\ QueueLimit \in Nat \ {0}
    /\ MaxVersion \in Nat \ {0}

-----------------------------------------------------------------------------
MessageStatus == {"queued", "sending", "delivered", "unknown", "rejected", "cancelled"}

(* A run id is a number here, 0 for none: ids.uuid() never repeats one.     *)
(* held: editingUntil lies in the future.                                   *)
Message == [id : Messages, mode : {"send", "queue"}, status : MessageStatus, run : Nat,
            token : Editors \cup {None}, held : BOOLEAN, version : 1..MaxVersion]

Compaction == [request : Compactions \cup {None}, status : {"none", "running", "failed", "completed"}]

Queue == [paused : BOOLEAN, run : Nat, initial : Messages \cup {None}, started : BOOLEAN,
          compaction : Compaction, messages : Seq(Message)]

NoCompaction == [request |-> None, status |-> "none"]

EmptyQueue == [paused |-> FALSE, run |-> 0, initial |-> None, started |-> FALSE,
               compaction |-> NoCompaction, messages |-> <<>>]

-----------------------------------------------------------------------------
Elements(s) == {s[i] : i \in DOMAIN s}
Ids(q) == {m.id : m \in Elements(q.messages)}
Entry(q, id) == CHOOSE m \in Elements(q.messages) : m.id = id
StatusOf(q, id) == IF id \in Ids(q) THEN Entry(q, id).status ELSE "absent"

Some(q, statuses) == \E m \in Elements(q.messages) : m.status \in statuses
Unresolved(q) == {m \in Elements(q.messages) : m.status \notin {"delivered", "cancelled"}}
Compacting(q) == q.compaction.status = "running"

(* Every entry for which Test holds becomes Change of itself.               *)
Update(q, Test(_), Change(_)) ==
    [q EXCEPT !.messages = [i \in DOMAIN @ |-> IF Test(@[i]) THEN Change(@[i]) ELSE @[i]]]

Set(q, id, Change(_)) == LET Test(m) == m.id = id IN Update(q, Test, Change)

Paused(q) == [q EXCEPT !.paused = TRUE]

CompactionEnds(q, status) ==
    IF Compacting(q) THEN [q EXCEPT !.compaction.status = status] ELSE q

-----------------------------------------------------------------------------
(* beginRun: a new run id; messages claimed before the run was known join   *)
(* it.                                                                      *)
BeginRun(q, run, initial, request) ==
    LET Claimed(m) == m.status = "sending" /\ m.run = 0
        Join(m) == [m EXCEPT !.run = run]
    IN  [Update(q, Claimed, Join) EXCEPT
            !.run = run, !.initial = initial, !.started = FALSE,
            !.compaction = IF request = None THEN NoCompaction
                           ELSE [request |-> request, status |-> "running"]]

StartingRuntime(q) == [q EXCEPT !.started = TRUE]

RejectBeforeStartInRun(q) ==
    LET Sending(m) == m.status = "sending"
        Reject(m) == [m EXCEPT !.status = "rejected"]
    IN  [Update(q, Sending, Reject) EXCEPT !.paused = TRUE]
RejectBeforeStart(q) ==
    LET Sending(m) == m.status = "sending"
        Reject(m) == [m EXCEPT !.status = "rejected"]
    IN  IF q.started THEN q
        ELSE [Update(q, Sending, Reject) EXCEPT !.run = 0, !.paused = TRUE]

Requeue(m) == [m EXCEPT !.status = "queued", !.run = 0]

StopWaiting(q) ==
    LET Parked(m) == ~q.started /\ m.id = q.initial /\ m.status = "sending"
    IN  CompactionEnds([Update(q, Parked, Requeue) EXCEPT !.run = 0, !.paused = TRUE], "failed")

(* recover: a send may have crossed the process boundary before the server  *)
(* died, so it is never replayed merely because its acknowledgement is lost.*)
NeverLeft(q, m, live) == ~live /\ ~q.started /\ m.id = q.initial

RecoverReplays(q, live) ==
    LET Sending(m) == m.status = "sending"
    IN  [Update(q, Sending, Requeue) EXCEPT !.run = IF live THEN @ ELSE 0]
Recover(q, live) ==
    LET Sending(m) == m.status = "sending"
        Uncertain(m) == Sending(m) /\ ~NeverLeft(q, m, live)
        Back(m) == IF NeverLeft(q, m, live) THEN Requeue(m) ELSE [m EXCEPT !.status = "unknown"]
        settled == [Update(q, Sending, Back) EXCEPT
                       !.paused = @ \/ (\E m \in Elements(q.messages) : Uncertain(m)) \/ (~live /\ q.run # 0),
                       !.run = IF live THEN @ ELSE 0]
    IN  IF live THEN settled ELSE CompactionEnds(settled, "failed")

FinishInRun(q, failed) ==
    CompactionEnds([q EXCEPT !.paused = @ \/ failed], IF failed THEN "failed" ELSE "completed")
Finish(q, failed) ==
    LET Sending(m) == m.status = "sending"
        Lose(m) == [m EXCEPT !.status = "unknown"]
    IN  CompactionEnds([Update(q, Sending, Lose) EXCEPT
                           !.run = 0, !.paused = @ \/ failed \/ Some(q, {"sending"})],
                       IF failed THEN "failed" ELSE "completed")

(* delivered: the projection of a message_delivered event.                  *)
Delivered(q, id) ==
    LET Open(m) == m.id = id /\ m.status \in {"sending", "unknown"}
        Deliver(m) == [m EXCEPT !.status = "delivered"]
    IN  Update(q, Open, Deliver)

(* The continuation of host.steer: it re-reads the record but decides only  *)
(* on "delivered".                                                          *)
SteerAnsweredOptimistic(q, id, result) ==
    LET Answer(m) == [m EXCEPT !.status = IF result = "rejected" THEN "rejected" ELSE "delivered"]
    IN  Set(q, id, Answer)
SteerAnswered(q, id, result) ==
    LET Answer(m) == [m EXCEPT !.status = result]
    IN  IF StatusOf(q, id) = "delivered" THEN q
        ELSE [Set(q, id, Answer) EXCEPT !.paused = @ \/ result # "delivered"]

(* start: host.start threw before a run existed.                            *)
StartRefused(q, id) ==
    LET Refuse(m) == [m EXCEPT !.status = "rejected"]
    IN  [Set(q, id, Refuse) EXCEPT !.paused = TRUE]

-----------------------------------------------------------------------------
(* submit                                                                   *)
CanSubmit(q, mode, canStart) ==
    /\ Cardinality(Unresolved(q)) < QueueLimit
    /\ mode = "send" => /\ ~Some(q, {"sending", "unknown"})
                        /\ q.run = 0 => canStart

Submit(q, id, mode) ==
    [q EXCEPT !.messages = Append(@, [id |-> id, mode |-> mode, status |-> "queued", run |-> 0,
                                      token |-> None, held |-> FALSE, version |-> 1])]

(* sendNow, and the "send" action that promotes a waiting entry             *)
CanSendNow(q, canStart) ==
    /\ ~Some(q, {"sending", "unknown"})
    /\ q.run = 0 => canStart

SendNow(q, id) ==
    LET Claim(m) == [m EXCEPT !.status = "sending", !.mode = "send", !.run = q.run]
    IN  Set(q, id, Claim)

CanPromote(q, id) == StatusOf(q, id) = "queued" /\ ~Entry(q, id).held

(* pump: the oldest waiting entry, unless someone is editing it.  Nothing   *)
(* overtakes an entry that is uncertain or was rejected.                    *)
Waiting(q) == {i \in DOMAIN q.messages : q.messages[i].status = "queued"}
Oldest(q) == CHOOSE i \in Waiting(q) : \A j \in Waiting(q) : i <= j
NextQueuedNewest(q) == q.messages[CHOOSE i \in Waiting(q) : \A j \in Waiting(q) : i >= j].id
NextQueued(q) == q.messages[Oldest(q)].id

CanPump(q, canStart) ==
    /\ ~q.paused
    /\ q.run = 0
    /\ canStart
    /\ ~Some(q, {"sending", "unknown", "rejected"})
    /\ Waiting(q) # {}
    /\ ~q.messages[Oldest(q)].held

Take(q, id) == LET Claim(m) == [m EXCEPT !.status = "sending"] IN Set(q, id, Claim)

(* delete, edit, save, cancel and the expiry of an edit hold                *)
CanDeleteHeld(q, id) == StatusOf(q, id) \notin {"absent", "sending", "delivered", "cancelled"}
CanDelete(q, id) == /\ StatusOf(q, id) \notin {"absent", "sending", "delivered", "cancelled"}
                    /\ ~Entry(q, id).held
Delete(q, id) == LET Drop(m) == [m EXCEPT !.status = "cancelled"] IN Set(q, id, Drop)

CanEdit(q, id, token) == /\ StatusOf(q, id) = "queued"
                         /\ Entry(q, id).token \in {None, token} \/ ~Entry(q, id).held
Edit(q, id, token) ==
    LET Hold(m) == [m EXCEPT !.token = token, !.held = TRUE] IN Set(q, id, Hold)

CanClose(q, id, token) == /\ StatusOf(q, id) = "queued"
                          /\ Entry(q, id).token = token
                          /\ Entry(q, id).held
CloseEdit(q, id, saved) ==
    LET Let(m) == [m EXCEPT !.token = None, !.held = FALSE,
                            !.version = IF saved THEN @ + 1 ELSE @]
    IN  Set(q, id, Let)

Expire(q, id) == LET Lapse(m) == [m EXCEPT !.held = FALSE] IN Set(q, id, Lapse)
=============================================================================
