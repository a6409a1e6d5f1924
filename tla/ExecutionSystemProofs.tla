----------------------- MODULE ExecutionSystemProofs -----------------------
(***************************************************************************)
(* Proofs about ExecutionSystem for every value of its constants.           *)
(*                                                                         *)
(* The properties rest on one fact: the pid column decides who works.  A    *)
(* host that works holds a running row under its own identity, whatever a   *)
(* host owns exists only for the claimant, and no transaction of another    *)
(* process ends or takes over such a row.  Ownership states this for hosts, *)
(* rows and the web's lost-host check, Delivery for the commands a host has *)
(* taken.  First each action is reduced to its effect on the fields these   *)
(* two look at (the Effect lemmas), then the effects are shown to keep them.*)
(***************************************************************************)
EXTENDS ExecutionSystem, TLAPS, FiniteSetTheorems

-----------------------------------------------------------------------------
(* What the operators of ExecutionStore on a row return, preserve and never *)
(* touch.                                                                   *)

(* A row that is not in the table is a well-formed row without a process.   *)
LEMMA NoRowType == NoRow \in Row /\ NoRow.pid = None
BY DEF NoRow, Row, NoCommand, CommandRow, States

(* append keeps the row well-formed and touches neither state, process nor  *)
(* commands.                                                                *)
LEMMA Append1Type ==
    ASSUME NEW row \in Row, NEW entry \in Entry
    PROVE  /\ Append1(row, entry) \in Row
           /\ Append1(row, entry).state = row.state
           /\ Append1(row, entry).pid = row.pid
           /\ Append1(row, entry).commands = row.commands
<1>1. Append(row.journal, entry) \in Seq(Entry)
  BY DEF Row
<1>2. QuestionAfter(row.question, entry) \in Requests \cup {None}
  BY DEF Row, QuestionAfter, Cleared, Entry
<1> QED  BY <1>1, <1>2 DEF Append1, Row

(* finish ends the row and settles receipts; it forgets neither the process *)
(* that held it nor which commands were claimed.                            *)
LEMMA FinishRowType ==
    ASSUME NEW row \in Row, NEW lost \in BOOLEAN
    PROVE  /\ FinishRow(row, lost) \in Row
           /\ FinishRow(row, lost).state \in Ended
           /\ FinishRow(row, lost).pid = row.pid
           /\ \A c \in Commands :
                 /\ FinishRow(row, lost).commands[c].claimed = row.commands[c].claimed
                 /\ FinishRow(row, lost).commands[c].rowid = row.commands[c].rowid
<1> DEFINE ended == EndRow(row, lost)
           cs == [c \in Commands |->
                    IF ended.commands[c].result = "accepted"
                    THEN [ended.commands[c] EXCEPT !.result = "unknown"] ELSE ended.commands[c]]
<1>1. ended \in Row /\ ended.commands = row.commands /\ ended.pid = row.pid /\ ended.state \in Ended
  BY DEF EndRow, Row, States, Ended
<1> HIDE DEF ended
<1>2. cs \in [Commands -> CommandRow]
  BY <1>1 DEF Row, CommandRow, Inserted, Receipts, NoCommand
<1>3. \A c \in Commands : cs[c].claimed = row.commands[c].claimed /\ cs[c].rowid = row.commands[c].rowid
  BY <1>1 DEF Row, CommandRow, Inserted, NoCommand
<1>4. FinishRow(row, lost) = [ended EXCEPT !.commands = cs]
  BY DEF FinishRow, ResolveOpen, ended
<1> HIDE DEF cs
<1>5. [ended EXCEPT !.commands = cs] \in Row
  BY <1>1, <1>2 DEF Row
<1> QED  BY <1>1, <1>2, <1>3, <1>4, <1>5 DEF Row

(* enqueue adds at most one command, under an id that had no row, and       *)
(* unclaimed.                                                               *)
LEMMA EnqueueRowType ==
    ASSUME NEW row \in Row, NEW c \in Commands, NEW body \in Bodies
    PROVE  /\ EnqueueRow(row, c, body) \in Row
           /\ EnqueueRow(row, c, body).state = row.state
           /\ EnqueueRow(row, c, body).pid = row.pid
           /\ \A d \in Commands : \/ EnqueueRow(row, c, body).commands[d] = row.commands[d]
                                  \/ /\ row.commands[d].rowid = 0
                                     /\ EnqueueRow(row, c, body).commands[d].claimed = FALSE
<1>1. {d \in Commands : row.commands[d].rowid # 0} \subseteq Commands
  OBVIOUS
<1>2. Cardinality({d \in Commands : row.commands[d].rowid # 0}) \in Nat
  BY <1>1, StoreAssumption, FS_Subset, FS_CardinalityType
<1>3. [body |-> body, result |-> "accepted", claimed |-> FALSE,
        rowid |-> 1 + Cardinality({d \in Commands : row.commands[d].rowid # 0})] \in CommandRow
  BY <1>2 DEF CommandRow, Inserted, Receipts
<1>4. ASSUME NEW cr \in CommandRow
      PROVE [row EXCEPT !.commands[c] = cr] \in Row
  BY DEF Row
<1>5. InsertCommand(row, c, body) \in Row
  BY <1>3, <1>4 DEF InsertCommand
<1>6. /\ InsertCommand(row, c, body).state = row.state /\ InsertCommand(row, c, body).pid = row.pid
      /\ \A d \in Commands \ {c} : InsertCommand(row, c, body).commands[d] = row.commands[d]
      /\ InsertCommand(row, c, body).commands[c].claimed = FALSE
  BY DEF InsertCommand, Row
<1>7. CASE row.commands[c].rowid = 0 /\ EnqueueResult(row, c, body) = "accepted"
  <2>1. EnqueueRow(row, c, body) = InsertCommand(row, c, body)
    BY <1>7 DEF EnqueueRow
  <2>2. ASSUME NEW d \in Commands
        PROVE  \/ InsertCommand(row, c, body).commands[d] = row.commands[d]
               \/ row.commands[d].rowid = 0 /\ InsertCommand(row, c, body).commands[d].claimed = FALSE
    <3>1. CASE d = c
      BY <1>6, <1>7, <3>1
    <3>2. CASE d # c
      BY <1>6, <3>2
    <3> QED  BY <3>1, <3>2
  <2> QED  BY <1>5, <1>6, <2>1, <2>2
<1>8. CASE ~(row.commands[c].rowid = 0 /\ EnqueueResult(row, c, body) = "accepted")
  <2>1. EnqueueRow(row, c, body) = row
    BY <1>8 DEF EnqueueRow
  <2> QED  BY <2>1
<1> QED  BY <1>7, <1>8

(* pending claims exactly the pending commands and changes nothing else.    *)
LEMMA ClaimCommandsType ==
    ASSUME NEW row \in Row
    PROVE  /\ ClaimCommands(row) \in Row
           /\ PendingCommands(row) \in SUBSET Commands
           /\ ClaimCommands(row).state = row.state
           /\ ClaimCommands(row).pid = row.pid
           /\ \A c \in Commands :
                /\ ClaimCommands(row).commands[c].rowid = row.commands[c].rowid
                /\ c \in PendingCommands(row) => ClaimCommands(row).commands[c].claimed = TRUE
                /\ c \notin PendingCommands(row) => ClaimCommands(row).commands[c] = row.commands[c]
<1> DEFINE cs == [c \in Commands |->
        IF c \in PendingCommands(row) THEN [row.commands[c] EXCEPT !.claimed = TRUE]
                                      ELSE row.commands[c]]
<1>1. ASSUME NEW c \in Commands
      PROVE  /\ cs[c] \in CommandRow
             /\ cs[c].rowid = row.commands[c].rowid
             /\ c \in PendingCommands(row) => cs[c].claimed = TRUE
             /\ c \notin PendingCommands(row) => cs[c] = row.commands[c]
  <2>1. CASE c \in PendingCommands(row)
    <3>1. row.commands[c] \in Inserted
      BY <2>1 DEF PendingCommands, Row, CommandRow, NoCommand
    <3>2. [row.commands[c] EXCEPT !.claimed = TRUE] \in Inserted
      BY <3>1 DEF Inserted
    <3>3. cs[c] = [row.commands[c] EXCEPT !.claimed = TRUE]
      BY <2>1
    <3> QED  BY <2>1, <3>1, <3>2, <3>3 DEF CommandRow, Inserted
  <2>2. CASE c \notin PendingCommands(row)
    <3>1. row.commands[c] \in CommandRow
      BY DEF Row
    <3> QED  BY <2>2, <3>1
  <2> QED  BY <2>1, <2>2
<1>2. cs \in [Commands -> CommandRow]
  BY <1>1
<1>3. ClaimCommands(row) = [row EXCEPT !.commands = cs]
  BY DEF ClaimCommands
<1> HIDE DEF cs
<1> QED  BY <1>1, <1>2, <1>3 DEF Row, PendingCommands

(* settle never reopens a claim and never changes the state or the process. *)
LEMMA SettleRowType ==
    ASSUME NEW row \in Row, NEW c \in Commands, NEW result \in Receipts
    PROVE  /\ SettleRow(row, c, result) \in Row
           /\ SettleRow(row, c, result).state = row.state
           /\ SettleRow(row, c, result).pid = row.pid
           /\ \A d \in Commands :
                /\ SettleRow(row, c, result).commands[d].claimed = row.commands[d].claimed
                /\ SettleRow(row, c, result).commands[d].rowid = row.commands[d].rowid
<1>1. CASE row.commands[c].result # "accepted"
  BY <1>1 DEF SettleRow
<1>2. CASE row.commands[c].result = "accepted"
  <2> DEFINE body == row.commands[c].body
             settled == [row EXCEPT !.commands[c].result = result]
             cleared == [settled EXCEPT !.question = Cleared(settled.question, body.request)]
             answered == [kind |-> "answer", request |-> body.request]
  <2>1. row.commands[c] \in Inserted
    BY <1>2 DEF Row, CommandRow, Inserted, NoCommand
  <2>2. body \in Bodies /\ body.request \in Requests \cup {None}
    BY <2>1, StoreAssumption DEF Inserted
  <2>3. [row.commands[c] EXCEPT !.result = result] \in CommandRow
    BY <2>1 DEF CommandRow, Inserted
  <2>4. /\ settled \in Row /\ settled.state = row.state /\ settled.pid = row.pid
        /\ \A d \in Commands : /\ settled.commands[d].claimed = row.commands[d].claimed
                               /\ settled.commands[d].rowid = row.commands[d].rowid
    BY <2>1, <2>3 DEF Row, Inserted
  <2>5. answered \in Entry
    BY <2>2 DEF Entry, EventKinds
  <2>6. SettleRow(row, c, result) \in {settled, Append1(cleared, answered)}
    BY <1>2 DEF SettleRow
  <2> HIDE DEF settled, answered, body
  <2>7. /\ cleared \in Row /\ cleared.state = settled.state /\ cleared.pid = settled.pid
        /\ cleared.commands = settled.commands
    BY <2>2, <2>4 DEF Row, Cleared
  <2> HIDE DEF cleared
  <2> QED  BY <2>4, <2>5, <2>6, <2>7, Append1Type
<1> QED  BY <1>1, <1>2

(* A reservation starts queued, without a process and without commands.     *)
LEMMA ReserveRowType ==
    ASSUME NEW e \in Executions, NEW args \in Args
    PROVE  /\ ReserveRow(e, args) \in Row
           /\ ReserveRow(e, args).state = "queued"
           /\ ReserveRow(e, args).pid = None
           /\ ReserveRow(e, args).commands = NoRow.commands
<1> DEFINE fresh == [NoRow EXCEPT !.state = "queued", !.args = args, !.ownerKey = OwnerOf(e, args)]
<1>1. OwnerOf(e, args) \in Sessions \cup Executions
  BY DEF OwnerOf, Args
<1>2. /\ fresh \in Row /\ fresh.state = "queued" /\ fresh.pid = None
      /\ fresh.commands = NoRow.commands
  BY <1>1, NoRowType DEF Row, States, Live, NoRow
<1>3. Note("queued") \in Entry
  BY DEF Note, Entry, EventKinds
<1>4. ReserveRow(e, args) = Append1(fresh, Note("queued"))
  BY DEF ReserveRow
<1> HIDE DEF fresh
<1> QED  BY <1>2, <1>3, <1>4, Append1Type

(* cancelBeforeStart ends the row as finish does.                           *)
LEMMA CancelRowType ==
    ASSUME NEW row \in Row
    PROVE  /\ CancelRow(row) \in Row
           /\ CancelRow(row).state \in Ended
           /\ CancelRow(row).pid = row.pid
           /\ \A c \in Commands :
                 /\ CancelRow(row).commands[c].claimed = row.commands[c].claimed
                 /\ CancelRow(row).commands[c].rowid = row.commands[c].rowid
<1>1. Note("process_exit") \in Entry
  BY DEF Note, Entry, EventKinds
<1> DEFINE marked == Append1(row, Note("process_exit"))
<1>2. marked \in Row /\ marked.pid = row.pid /\ marked.commands = row.commands
  BY <1>1, Append1Type
<1>3. CancelRow(row) = FinishRow(marked, FALSE)
  BY DEF CancelRow
<1> HIDE DEF marked
<1>4. ASSUME NEW lost \in BOOLEAN
      PROVE  /\ FinishRow(marked, lost) \in Row
             /\ FinishRow(marked, lost).state \in Ended
             /\ FinishRow(marked, lost).pid = marked.pid
             /\ \A c \in Commands :
                 /\ FinishRow(marked, lost).commands[c].claimed = marked.commands[c].claimed
                 /\ FinishRow(marked, lost).commands[c].rowid = marked.commands[c].rowid
  BY <1>2, FinishRowType
<1>5. /\ FinishRow(marked, FALSE) \in Row
      /\ FinishRow(marked, FALSE).state \in Ended
      /\ FinishRow(marked, FALSE).pid = marked.pid
      /\ \A c \in Commands :
                 /\ FinishRow(marked, FALSE).commands[c].claimed = marked.commands[c].claimed
                 /\ FinishRow(marked, FALSE).commands[c].rowid = marked.commands[c].rowid
  BY <1>4, Zenon
<1> QED  BY <1>2, <1>3, <1>5

(* admit only moves rows from queued to starting.                           *)
LEMMA AdmitRowsType ==
    ASSUME rows \in [Executions -> Row]
    PROVE  /\ AdmitRows \in [Executions -> Row]
           /\ \A e \in Executions :
                /\ AdmitRows[e].pid = rows[e].pid
                /\ AdmitRows[e].commands = rows[e].commands
                /\ \/ AdmitRows[e].state = rows[e].state
                   \/ rows[e].state = "queued" /\ AdmitRows[e].state = "starting"
<1> SUFFICES ASSUME NEW e \in Executions
             PROVE  /\ AdmitRows[e] \in Row
                    /\ AdmitRows[e].pid = rows[e].pid
                    /\ AdmitRows[e].commands = rows[e].commands
                    /\ \/ AdmitRows[e].state = rows[e].state
                       \/ rows[e].state = "queued" /\ AdmitRows[e].state = "starting"
  BY DEF AdmitRows
<1>1. CASE e \in Admitted
  <2>1. rows[e].state = "queued" /\ rows[e] \in Row
    BY <1>1 DEF Admitted, Rows
  <2>2. AdmitRows[e] = [rows[e] EXCEPT !.state = "starting"]
    BY <1>1 DEF AdmitRows
  <2>3. /\ [rows[e] EXCEPT !.state = "starting"] \in Row
        /\ [rows[e] EXCEPT !.state = "starting"].state = "starting"
        /\ [rows[e] EXCEPT !.state = "starting"].pid = rows[e].pid
        /\ [rows[e] EXCEPT !.state = "starting"].commands = rows[e].commands
    BY <2>1 DEF Row, States, Live
  <2> QED  BY <2>1, <2>2, <2>3
<1>2. CASE e \notin Admitted
  BY <1>2 DEF AdmitRows
<1> QED  BY <1>1, <1>2

(* claim makes the row running under the given process and keeps its        *)
(* commands.                                                                *)
LEMMA ClaimRowType ==
    ASSUME NEW row \in Row, NEW k \in Attempts
    PROVE  /\ ClaimRow(row, k) \in Row
           /\ ClaimRow(row, k).state = "running"
           /\ ClaimRow(row, k).pid = k
           /\ ClaimRow(row, k).commands = row.commands
BY DEF ClaimRow, Row, States, Live

(* bindSession changes the owner key only.                                  *)
LEMMA BindRowType ==
    ASSUME NEW row \in Row, NEW session \in Sessions
    PROVE  /\ BindRow(row, session) \in Row
           /\ BindRow(row, session).state = row.state
           /\ BindRow(row, session).pid = row.pid
           /\ BindRow(row, session).commands = row.commands
BY DEF BindRow, Row
-----------------------------------------------------------------------------
(* Which transactions keep what a reservation is for and whom it belongs    *)
(* to: all of them, except reserve, which sets both, and bindSession.       *)

SameKey(row, new) == new.args = row.args /\ new.ownerKey = row.ownerKey

(* append keeps the start arguments and the owner key.                      *)
LEMMA AppendKey ==
    ASSUME NEW row \in Row, NEW entry
    PROVE  SameKey(row, Append1(row, entry))
BY DEF Append1, SameKey, Row

(* finish keeps the start arguments and the owner key.                      *)
LEMMA FinishKey ==
    ASSUME NEW row \in Row, NEW lost \in BOOLEAN
    PROVE  SameKey(row, FinishRow(row, lost))
<1> DEFINE ended == EndRow(row, lost)
           cs == [c \in Commands |->
                    IF ended.commands[c].result = "accepted"
                    THEN [ended.commands[c] EXCEPT !.result = "unknown"] ELSE ended.commands[c]]
<1>1. ended \in Row /\ SameKey(row, ended)
  BY DEF EndRow, Row, States, Ended, SameKey
<1>2. FinishRow(row, lost) = [ended EXCEPT !.commands = cs]
  BY DEF FinishRow, ResolveOpen
<1> HIDE DEF ended, cs
<1> QED  BY <1>1, <1>2 DEF Row, SameKey

(* cancelBeforeStart keeps them.                                            *)
LEMMA CancelKey ==
    ASSUME NEW row \in Row
    PROVE  SameKey(row, CancelRow(row))
<1> DEFINE marked == Append1(row, Note("process_exit"))
<1>1. Note("process_exit") \in Entry
  BY DEF Note, Entry, EventKinds
<1>2. marked \in Row /\ SameKey(row, marked)
  BY <1>1, Append1Type, AppendKey
<1>3. CancelRow(row) = FinishRow(marked, FALSE)
  BY DEF CancelRow
<1> HIDE DEF marked
<1>4. \A lost \in BOOLEAN : SameKey(marked, FinishRow(marked, lost))
  BY <1>2, FinishKey
<1>5. SameKey(marked, CancelRow(row))
  BY <1>3, <1>4, Zenon
<1> QED  BY <1>2, <1>5 DEF SameKey

(* enqueue, pending and settle change commands, journal and question only.  *)
LEMMA CommandKey ==
    ASSUME NEW row \in Row, NEW c \in Commands
    PROVE  /\ \A body \in Bodies : SameKey(row, EnqueueRow(row, c, body))
           /\ \A result \in Receipts : SameKey(row, SettleRow(row, c, result))
<1>1. ASSUME NEW body \in Bodies PROVE SameKey(row, EnqueueRow(row, c, body))
  BY DEF EnqueueRow, InsertCommand, Row, SameKey
<1>2. ASSUME NEW result \in Receipts PROVE SameKey(row, SettleRow(row, c, result))
  BY DEF SettleRow, Append1, Row, SameKey
<1> QED  BY <1>1, <1>2

(* pending keeps the start arguments and the owner key.                     *)
LEMMA PendingKey ==
    ASSUME NEW row \in Row
    PROVE  SameKey(row, ClaimCommands(row))
BY DEF ClaimCommands, Row, SameKey

(* admit and claim only move the state and name the process.                *)
LEMMA AdmissionKey ==
    ASSUME rows \in [Executions -> Row], NEW e \in Executions
    PROVE  /\ SameKey(rows[e], AdmitRows[e])
           /\ \A k \in Attempts : SameKey(rows[e], ClaimRow(rows[e], k))
<1>1. SameKey(rows[e], AdmitRows[e])
  <2>1. rows[e] \in Row
    OBVIOUS
  <2>2. AdmitRows[e] \in {rows[e], [rows[e] EXCEPT !.state = "starting"]}
    BY DEF AdmitRows
  <2> QED  BY <2>1, <2>2 DEF Row, SameKey
<1>2. ASSUME NEW k \in Attempts PROVE SameKey(rows[e], ClaimRow(rows[e], k))
  BY DEF ClaimRow, Row, SameKey
<1> QED  BY <1>1, <1>2

(* A reservation carries its arguments and the owner key they stand for.    *)
LEMMA ReserveKey ==
    ASSUME NEW e \in Executions, NEW args \in Args
    PROVE  ReserveRow(e, args).args = args /\ ReserveRow(e, args).ownerKey = OwnerOf(e, args)
<1> DEFINE owner == OwnerOf(e, args)
           fresh == [NoRow EXCEPT !.state = "queued", !.args = args, !.ownerKey = owner]
<1>1. owner \in Sessions \cup Executions
  BY DEF OwnerOf, Args
<1>2. ReserveRow(e, args) = Append1(fresh, Note("queued"))
  BY DEF ReserveRow
<1> HIDE DEF owner
<1>3. fresh \in Row /\ fresh.args = args /\ fresh.ownerKey = owner
  BY <1>1, NoRowType DEF Row, States, Live, NoRow
<1> HIDE DEF fresh
<1>4. SameKey(fresh, Append1(fresh, Note("queued")))
  BY <1>3, AppendKey
<1> QED  BY <1>2, <1>3, <1>4 DEF SameKey, owner

(* bindSession sets the owner key of a running row and touches no other.    *)
LEMMA BindKey ==
    ASSUME NEW row \in Row, NEW session \in Sessions
    PROVE  /\ BindRow(row, session).args = row.args
           /\ row.state = "running" => BindRow(row, session).ownerKey = session
           /\ row.state # "running" => BindRow(row, session).ownerKey = row.ownerKey
BY DEF BindRow, Row

-----------------------------------------------------------------------------
(* The table of rows and the steps of the system.                           *)

(* Replacing one row leaves the others as they are.                         *)
LEMMA UpdateRowType ==
    ASSUME NEW e \in Executions, NEW row \in Row, rows \in [Executions -> Row], UpdateRow(e, row)
    PROVE  /\ rows' \in [Executions -> Row]
           /\ rows'[e] = row
           /\ \A f \in Executions \ {e} : rows'[f] = rows[f]
BY DEF UpdateRow

(* Replacing one host leaves the others as they are.                        *)
LEMMA SetHostType ==
    ASSUME NEW e \in Executions, NEW k \in Attempts, NEW host \in Host,
           hosts \in [Executions -> [Attempts -> Host]], SetHost(e, k, host)
    PROVE  /\ hosts' \in [Executions -> [Attempts -> Host]]
           /\ hosts'[e][k] = host
           /\ \A f \in Executions, j \in Attempts : f # e \/ j # k => hosts'[f][j] = hosts[f][j]
BY DEF SetHost


-----------------------------------------------------------------------------
(* Hosts and operations of the chain.                                       *)

(* The memory of a process that has not been started.                       *)
LEMMA NoHostType ==
    /\ NoHost \in Host /\ NoHost.pc = "absent" /\ NoHost.child = "none"
    /\ NoHost.tail = <<>> /\ NoHost.batch = {}
<1>1. <<>> \in Seq(Op) /\ {} \in SUBSET Commands
  OBVIOUS
<1> QED  BY <1>1 DEF NoHost, Host, HostMemory, Phases

(* Changing the phase and the child of a host changes nothing else.         *)
LEMMA PhaseType ==
    ASSUME NEW host \in Host, NEW pc \in Phases, NEW child \in {"none", "alive", "dead"}
    PROVE  LET new == [host EXCEPT !.pc = pc, !.child = child]
           IN  /\ new \in Host /\ new.pc = pc /\ new.child = child
               /\ new.tail = host.tail /\ new.batch = host.batch /\ new.mismatch = host.mismatch
BY DEF Host, HostMemory, Phases

(* What the host puts on its chain is an operation.                         *)
LEMMA OpTypes ==
    /\ \A event \in Emitted : EventOp(event) \in Op
    /\ \A kind \in EventKinds : Plain(kind) \in Op
    /\ [op |-> "pending"] \in Op
    /\ \A c \in Commands, result \in Receipts :
          [op |-> "settle", command |-> c, result |-> result] \in Op
    /\ \A lost \in BOOLEAN : [op |-> "finish", lost |-> lost] \in Op
<1>1. \A event \in Emitted : EventOp(event) \in Op
  BY DEF EventOp, Op
<1>2. \A kind \in EventKinds : [kind |-> kind, request |-> None, session |-> None] \in Emitted
  BY DEF Emitted
<1>3. \A kind \in EventKinds : Plain(kind) \in Op
  BY <1>1, <1>2 DEF Plain
<1>4. [op |-> "pending"] \in Op
  BY DEF Op
<1>5. \A c \in Commands, result \in Receipts :
          [op |-> "settle", command |-> c, result |-> result] \in Op
  BY DEF Op
<1>6. \A lost \in BOOLEAN : [op |-> "finish", lost |-> lost] \in Op
  BY DEF Op
<1> QED  BY <1>1, <1>3, <1>4, <1>5, <1>6

(* The arguments an operation carries.                                      *)
LEMMA OpFields ==
    ASSUME NEW op \in Op
    PROVE  /\ op.op = "event" => op.event \in Emitted
           /\ op.op = "settle" => op.command \in Commands /\ op.result \in Receipts
           /\ op.op = "finish" => op.lost \in BOOLEAN
BY DEF Op

(* Queueing operations changes the chain only.                              *)
LEMMA PushType ==
    ASSUME NEW host \in Host, NEW ops \in Seq(Op)
    PROVE  /\ Push(host, ops) \in Host
           /\ Push(host, ops).pc = host.pc
           /\ Push(host, ops).child = host.child
           /\ Push(host, ops).batch = host.batch
<1>1. host.tail \o ops \in Seq(Op)
  <2>1. host.tail \in Seq(Op)
    BY DEF Host, HostMemory
  <2> QED  BY <2>1
<1> DEFINE s == host.tail \o ops
<1>2. Push(host, ops) = [host EXCEPT !.tail = s]
  BY DEF Push
<1>3. s \in Seq(Op)
  BY <1>1
<1> HIDE DEF s
<1> QED  BY <1>2, <1>3 DEF Host, HostMemory

(* Taking the head off a chain that is not empty changes the chain only.    *)
LEMMA PoppedType ==
    ASSUME NEW host \in Host, host.tail # <<>>
    PROVE  /\ Head(host.tail) \in Op
           /\ Popped(host) \in Host
           /\ Popped(host).pc = host.pc
           /\ Popped(host).child = host.child
           /\ Popped(host).batch = host.batch
<1>1. host.tail \in Seq(Op)
  BY DEF Host, HostMemory
<1>2. Head(host.tail) \in Op /\ Tail(host.tail) \in Seq(Op)
  BY <1>1
<1>3. Popped(host) = [host EXCEPT !.tail = Tail(host.tail)]
  BY DEF Popped
<1>4. ASSUME NEW s \in Seq(Op)
      PROVE  /\ [host EXCEPT !.tail = s] \in Host
             /\ [host EXCEPT !.tail = s].pc = host.pc
             /\ [host EXCEPT !.tail = s].child = host.child
             /\ [host EXCEPT !.tail = s].batch = host.batch
  BY DEF Host, HostMemory
<1> QED  BY <1>2, <1>3, <1>4

(* A dead process keeps its child and nothing of its memory.                *)
LEMMA DeadType ==
    ASSUME NEW host \in Host
    PROVE  /\ Dead(host) \in Host
           /\ Dead(host).pc = "gone"
           /\ Dead(host).child = host.child
           /\ Dead(host).tail = <<>>
           /\ Dead(host).batch = {}
<1>1. NoHost \in Host /\ NoHost.tail = <<>> /\ NoHost.batch = {}
  <2>1. <<>> \in Seq(Op) /\ {} \in SUBSET Commands
    OBVIOUS
  <2> QED  BY <2>1 DEF NoHost, Host, HostMemory, Phases
<1>2. ASSUME NEW child \in {"none", "alive", "dead"}
      PROVE  LET dead == [NoHost EXCEPT !.pc = "gone", !.child = child]
             IN  /\ dead \in Host /\ dead.pc = "gone" /\ dead.child = child
                 /\ dead.tail = NoHost.tail /\ dead.batch = NoHost.batch
  BY <1>1 DEF Host, HostMemory, Phases
<1>3. host.child \in {"none", "alive", "dead"}
  BY DEF Host, HostMemory
<1> QED  BY <1>1, <1>2, <1>3 DEF Dead

-----------------------------------------------------------------------------
(* Each action keeps the types.  With that, every lemma states what the     *)
(* action does to the fields the ownership argument looks at.               *)

RowKept(e) == rows'[e].state = rows[e].state /\ rows'[e].pid = rows[e].pid
RowsKept == \A e \in Executions : RowKept(e)
ClaimKept(e, c) == /\ rows'[e].commands[c].claimed = rows[e].commands[c].claimed
                   /\ rows'[e].commands[c].rowid = rows[e].commands[c].rowid
ClaimsKept == \A e \in Executions, c \in Commands : ClaimKept(e, c)
OthersKept(e, k) ==
    \A f \in Executions, j \in Attempts : f # e \/ j # k => hosts'[f][j] = hosts[f][j]

(* The replaced row.                                                        *)
LEMMA ReplacedRow ==
    ASSUME TypeOK, NEW e \in Executions, NEW row, UpdateRow(e, row)
    PROVE  rows'[e] = row /\ \A f \in Executions \ {e} : rows'[f] = rows[f]
BY DEF TypeOK, UpdateRow

(* The replaced host.                                                       *)
LEMMA ReplacedHost ==
    ASSUME TypeOK, NEW e \in Executions, NEW k \in Attempts, NEW host, SetHost(e, k, host)
    PROVE  hosts'[e][k] = host /\ OthersKept(e, k)
BY DEF TypeOK, SetHost, OthersKept

(* The fields of a host that has queued operations.                         *)
LEMMA PushFields ==
    ASSUME NEW host \in Host, NEW ops
    PROVE  /\ Push(host, ops).tail = host.tail \o ops /\ Push(host, ops).pc = host.pc
           /\ Push(host, ops).step = host.step /\ Push(host, ops).command = host.command
           /\ Push(host, ops).batch = host.batch /\ Push(host, ops).session = host.session
<1> DEFINE s == host.tail \o ops
<1>1. Push(host, ops) = [host EXCEPT !.tail = s]
  BY DEF Push
<1> HIDE DEF s
<1>2. Push(host, ops).tail = s
  BY <1>1 DEF Host, HostMemory
<1> QED  BY <1>1, <1>2 DEF Host, HostMemory, s

(* The fields of a host whose head has committed.                           *)
LEMMA PoppedFields ==
    ASSUME NEW host \in Host
    PROVE  /\ Popped(host).tail = Tail(host.tail) /\ Popped(host).pc = host.pc
           /\ Popped(host).step = host.step /\ Popped(host).command = host.command
           /\ Popped(host).batch = host.batch /\ Popped(host).session = host.session
<1> DEFINE s == Tail(host.tail)
<1>1. Popped(host) = [host EXCEPT !.tail = s]
  BY DEF Popped
<1> HIDE DEF s
<1>2. Popped(host).tail = s
  BY <1>1 DEF Host, HostMemory
<1> QED  BY <1>1, <1>2 DEF Host, HostMemory, s

(* The web's calls in progress are well-formed.                             *)
LEMMA DoingType ==
    /\ NoCall \in [exec : Executions \cup {None}, pid : Attempts \cup {None},
                   step : {"idle", "admitting", "read", "marked"}]
    /\ Admitting \in [exec : Executions \cup {None}, pid : Attempts \cup {None},
                      step : {"idle", "admitting", "read", "marked"}]
    /\ NoCall.step = "idle" /\ Admitting.step = "admitting"
BY DEF NoCall, Admitting

(* An event without a request is a journal entry.                           *)
LEMMA NoteType == \A kind \in EventKinds : Note(kind) \in Entry
BY DEF Note, Entry

(* open inserts the next row and then still has to admit.                   *)
LEMMA OpenEffect ==
    ASSUME TypeOK, NEW e \in Executions, NEW args \in Args, OpenReserves(e, args)
    PROVE  /\ TypeOK' /\ UNCHANGED <<hosts, provider>>
           /\ doing'.step = "admitting"
           /\ rows[e].state = "absent" /\ rows'[e].state = "queued" /\ rows'[e].pid = None
           /\ rows'[e].commands = NoRow.commands
           /\ \A f \in Executions \ {e} : rows'[f] = rows[f]
<1>1. rows \in [Executions -> Row] /\ view \in [Tasks -> Executions \cup {None}]
  BY DEF TypeOK
<1>2. ReserveRow(e, args) \in Row /\ UpdateRow(e, ReserveRow(e, args))
  BY ReserveRowType DEF OpenReserves
<1>3. /\ rows' \in [Executions -> Row] /\ rows'[e] = ReserveRow(e, args)
      /\ \A f \in Executions \ {e} : rows'[f] = rows[f]
  BY <1>1, <1>2, UpdateRowType
<1>4. view' \in [Tasks -> Executions \cup {None}]
  BY <1>1 DEF OpenReserves, Args
<1>5. TypeOK'
  BY <1>3, <1>4, DoingType DEF TypeOK, OpenReserves
<1> QED  BY <1>3, <1>5, ReserveRowType, DoingType DEF OpenReserves, CanReserve

(* open of a message that is already reserved inserts nothing.              *)
LEMMA FoundEffect ==
    ASSUME TypeOK, NEW e \in Executions, NEW args \in Args, OpenFindsReserved(e, args)
    PROVE  TypeOK' /\ doing'.step = "admitting" /\ UNCHANGED <<rows, hosts, provider>>
<1>1. view' \in [Tasks -> Executions \cup {None}]
  BY DEF OpenFindsReserved, TypeOK, Args
<1> QED  BY <1>1, DoingType DEF TypeOK, OpenFindsReserved

(* admitExecutions changes queued rows to starting and nothing else in the  *)
(* registry.                                                                *)
LEMMA AdmitEffect ==
    ASSUME TypeOK, AdmitExecutions
    PROVE  /\ rows' \in [Executions -> Row] /\ launches' \subseteq Executions
           /\ ClaimsKept
           /\ \A e \in Executions : /\ rows'[e].pid = rows[e].pid
                                    /\ \/ rows'[e].state = rows[e].state
                                       \/ rows[e].state = "queued" /\ rows'[e].state = "starting"
<1>1. rows \in [Executions -> Row] /\ rows' = AdmitRows
  BY DEF TypeOK, AdmitExecutions
<1>2. launches' \subseteq Executions
  BY DEF TypeOK, AdmitExecutions
<1> QED  BY <1>1, <1>2, AdmitRowsType DEF ClaimsKept, ClaimKept

(* The web admits at the end of open and in every reconcile.                *)
LEMMA WebAdmitEffect ==
    ASSUME TypeOK, OpenAdmits \/ WebAdmits
    PROVE  TypeOK' /\ AdmitExecutions /\ doing'.step = "idle" /\ UNCHANGED <<hosts, provider>>
<1>1. AdmitExecutions
  BY DEF OpenAdmits, WebAdmits
<1> QED  BY <1>1, AdmitEffect, DoingType DEF TypeOK, OpenAdmits, WebAdmits, Idle

(* The lost-host check remembers the process that holds the row.            *)
LEMMA ReadsEffect ==
    ASSUME TypeOK, NEW t \in Tasks, ReconcileReads(t)
    PROVE  /\ TypeOK' /\ UNCHANGED <<rows, hosts, provider>>
           /\ doing'.step = "read" /\ doing'.exec \in Executions /\ doing'.pid \in Attempts
           /\ rows[doing'.exec].pid = doing'.pid
<1>1. view[t] \in Executions /\ view[t] # None
  BY DEF TypeOK, ReconcileReads
<1>2. rows[view[t]].pid \in Attempts
  BY <1>1 DEF TypeOK, ReconcileReads, Row
<1>3. doing' = [exec |-> view[t], pid |-> rows[view[t]].pid, step |-> "read"]
  BY DEF ReconcileReads
<1> QED  BY <1>1, <1>2, <1>3 DEF TypeOK, ReconcileReads

(* The lost-host check goes on only with a process that is not alive.       *)
LEMMA ProbesEffect ==
    ASSUME TypeOK, ReconcileProbes, doing.exec \in Executions, doing.pid \in Attempts
    PROVE  /\ TypeOK' /\ RowsKept /\ ClaimsKept /\ UNCHANGED <<hosts, provider>>
           /\ \/ doing'.step = "idle"
              \/ /\ doing'.step = "marked" /\ doing'.exec = doing.exec /\ doing'.pid = doing.pid
                 /\ ~ProcessAlive(doing.exec, doing.pid)
<1>0. UNCHANGED <<hosts, provider>>
  BY DEF ReconcileProbes
<1>1. CASE ProcessAlive(doing.exec, doing.pid)
  BY <1>0, <1>1, DoingType DEF TypeOK, ReconcileProbes, RowsKept, RowKept, ClaimsKept, ClaimKept
<1>2. CASE ~ProcessAlive(doing.exec, doing.pid)
  <2> DEFINE e == doing.exec
             row == Append1(rows[e], Note("process_exit"))
  <2>1. rows \in [Executions -> Row] /\ rows[e] \in Row
    BY DEF TypeOK
  <2>2. /\ row \in Row /\ row.state = rows[e].state /\ row.pid = rows[e].pid
        /\ row.commands = rows[e].commands
    BY <2>1, NoteType, Append1Type DEF EventKinds
  <2>3. UpdateRow(e, row) /\ doing' = [doing EXCEPT !.step = "marked"]
    BY <1>2 DEF ReconcileProbes
  <2> HIDE DEF row
  <2>4. /\ rows' \in [Executions -> Row] /\ rows'[e] = row
        /\ \A f \in Executions \ {e} : rows'[f] = rows[f]
    BY <2>1, <2>2, <2>3, UpdateRowType
  <2>5. RowsKept /\ ClaimsKept
    BY <2>2, <2>4 DEF RowsKept, RowKept, ClaimsKept, ClaimKept
  <2>6. TypeOK' /\ doing'.step = "marked" /\ doing'.exec = doing.exec /\ doing'.pid = doing.pid
    BY <2>3, <2>4 DEF TypeOK, ReconcileProbes
  <2> QED  BY <1>0, <1>2, <2>5, <2>6
<1> QED  BY <1>1, <1>2

(* One row is replaced by the result of an operator on it.                  *)
LEMMA RowUpdated ==
    ASSUME TypeOK, NEW e \in Executions, NEW row \in Row, UpdateRow(e, row)
    PROVE  /\ rows' \in [Executions -> Row] /\ rows'[e] = row
           /\ \A f \in Executions \ {e} : rows'[f] = rows[f]
BY UpdateRowType DEF TypeOK

(* The lost-host check ends the row it has read.                            *)
LEMMA MarksLostEffect ==
    ASSUME TypeOK, ReconcileMarksLost, doing.exec \in Executions
    PROVE  /\ TypeOK' /\ ClaimsKept /\ UNCHANGED <<hosts, provider>>
           /\ doing'.step = "idle"
           /\ rows'[doing.exec].state \in Ended /\ rows'[doing.exec].pid = rows[doing.exec].pid
           /\ \A f \in Executions \ {doing.exec} : rows'[f] = rows[f]
<1> DEFINE e == doing.exec
           row == FinishRow(rows[e], TRUE)
<1>1. rows[e] \in Row
  BY DEF TypeOK
<1>2. /\ row \in Row /\ row.state \in Ended /\ row.pid = rows[e].pid
      /\ \A c \in Commands : /\ row.commands[c].claimed = rows[e].commands[c].claimed
                             /\ row.commands[c].rowid = rows[e].commands[c].rowid
  <2>1. \A lost \in BOOLEAN :
          /\ FinishRow(rows[e], lost) \in Row
          /\ FinishRow(rows[e], lost).state \in Ended
          /\ FinishRow(rows[e], lost).pid = rows[e].pid
          /\ \A c \in Commands :
                /\ FinishRow(rows[e], lost).commands[c].claimed = rows[e].commands[c].claimed
                /\ FinishRow(rows[e], lost).commands[c].rowid = rows[e].commands[c].rowid
    BY <1>1, FinishRowType
  <2> QED  BY <2>1, Zenon
<1>3. UpdateRow(e, row)
  BY DEF ReconcileMarksLost
<1> HIDE DEF row
<1>4. /\ rows' \in [Executions -> Row] /\ rows'[e] = row
      /\ \A f \in Executions \ {e} : rows'[f] = rows[f]
  BY <1>2, <1>3, RowUpdated
<1>5. TypeOK'
  BY <1>4, DoingType DEF TypeOK, ReconcileMarksLost
<1> QED  BY <1>2, <1>4, <1>5, DoingType DEF ReconcileMarksLost, ClaimsKept, ClaimKept

(* Completing a handle changes the web's memory only.                       *)
LEMMA CompletesEffect ==
    ASSUME TypeOK, NEW t \in Tasks, HandleCompletes(t)
    PROVE  TypeOK' /\ UNCHANGED <<rows, hosts, provider, doing>>
BY DEF TypeOK, HandleCompletes

(* A client's command leaves every claimed command alone.                   *)
LEMMA CommandsEffect ==
    ASSUME TypeOK, NEW t \in Tasks, NEW c \in Commands, NEW body \in Bodies, WebCommands(t, c, body)
    PROVE  /\ TypeOK' /\ RowsKept
           /\ \A e \in Executions, d \in Commands :
                 \/ ClaimKept(e, d)
                 \/ rows[e].commands[d].rowid = 0 /\ rows'[e].commands[d].claimed = FALSE
           /\ UNCHANGED <<hosts, provider, doing>>
<1> DEFINE e == view[t]
           row == EnqueueRow(rows[e], c, body)
<1>1. e \in Executions /\ rows[e] \in Row
  BY DEF TypeOK, WebCommands
<1>2. /\ row \in Row /\ row.state = rows[e].state /\ row.pid = rows[e].pid
      /\ \A d \in Commands : \/ row.commands[d] = rows[e].commands[d]
                             \/ rows[e].commands[d].rowid = 0 /\ row.commands[d].claimed = FALSE
  BY <1>1, EnqueueRowType
<1>3. UpdateRow(e, row)
  BY DEF WebCommands
<1> HIDE DEF row, e
<1>4. /\ rows' \in [Executions -> Row] /\ rows'[e] = row
      /\ \A f \in Executions \ {e} : rows'[f] = rows[f]
  BY <1>1, <1>2, <1>3, RowUpdated
<1>5. TypeOK'
  BY <1>4 DEF TypeOK, WebCommands
<1> QED  BY <1>2, <1>4, <1>5 DEF WebCommands, RowsKept, RowKept, ClaimKept

(* Only an unclaimed reservation is withdrawn.                              *)
LEMMA CancelEffect ==
    ASSUME TypeOK, NEW t \in Tasks, WebCancelsBeforeStart(t)
    PROVE  /\ TypeOK' /\ ClaimsKept
           /\ view[t] \in Executions
           /\ rows[view[t]].state \in {"queued", "starting"} /\ rows[view[t]].pid = None
           /\ rows'[view[t]].state \in Ended /\ rows'[view[t]].pid = None
           /\ \A f \in Executions \ {view[t]} : rows'[f] = rows[f]
           /\ UNCHANGED <<hosts, provider, doing>>
<1> DEFINE e == view[t]
           row == CancelRow(rows[e])
<1>1. e \in Executions /\ rows[e] \in Row
  BY DEF TypeOK, WebCancelsBeforeStart
<1>2. rows[e].state \in {"queued", "starting"} /\ rows[e].pid = None
  BY DEF WebCancelsBeforeStart, CancellableBeforeStart
<1>3. /\ row \in Row /\ row.state \in Ended /\ row.pid = rows[e].pid
      /\ \A c \in Commands : /\ row.commands[c].claimed = rows[e].commands[c].claimed
                             /\ row.commands[c].rowid = rows[e].commands[c].rowid
  BY <1>1, CancelRowType
<1>4. UpdateRow(e, row)
  BY DEF WebCancelsBeforeStart
<1> HIDE DEF row
<1>5. /\ rows' \in [Executions -> Row] /\ rows'[e] = row
      /\ \A f \in Executions \ {e} : rows'[f] = rows[f]
  BY <1>1, <1>3, <1>4, RowUpdated
<1>6. TypeOK'
  BY <1>5 DEF TypeOK, WebCancelsBeforeStart
<1> QED  BY <1>1, <1>2, <1>3, <1>5, <1>6 DEF WebCancelsBeforeStart, ClaimsKept, ClaimKept

(* Replacing the web process changes no row, host or provider.              *)
LEMMA CrashAndStartEffect ==
    ASSUME TypeOK, WebCrashes \/ WebStarts
    PROVE  TypeOK' /\ UNCHANGED <<rows, hosts, provider>> /\ (doing'.step = "idle" \/ UNCHANGED doing)
<1>1. CASE WebCrashes
  <2>1. faults' \in 0..MaxFaults
    BY <1>1, SystemAssumption DEF TypeOK, WebCrashes, Fault
  <2>2. view' \in [Tasks -> Executions \cup {None}] /\ webUp' \in BOOLEAN
    BY <1>1 DEF WebCrashes
  <2> QED  BY <1>1, <2>1, <2>2, DoingType DEF TypeOK, WebCrashes
<1>2. CASE WebStarts
  BY <1>2 DEF TypeOK, WebStarts
<1> QED  BY <1>1, <1>2

(* A lost launch changes no row, host or provider.                          *)
LEMMA LaunchLostEffect ==
    ASSUME TypeOK, NEW e \in Executions, LaunchIsLost(e)
    PROVE  TypeOK' /\ UNCHANGED <<rows, hosts, provider, doing>>
BY SystemAssumption DEF TypeOK, LaunchIsLost, Fault

(* Replacing one host keeps the types and the other hosts.                  *)
LEMMA HostSet ==
    ASSUME TypeOK, NEW e \in Executions, NEW k \in Attempts, NEW host \in Host, SetHost(e, k, host)
    PROVE  /\ hosts' \in [Executions -> [Attempts -> Host]]
           /\ hosts'[e][k] = host
           /\ OthersKept(e, k)
BY SetHostType DEF TypeOK, OthersKept

(* The types of one host and of its row.                                    *)
LEMMA HostIsTyped ==
    ASSUME TypeOK, NEW e \in Executions, NEW k \in Attempts
    PROVE  /\ hosts[e][k] \in Host /\ rows[e] \in Row /\ hosts[e][k].tail \in Seq(Op)
           /\ hosts[e][k].child \in {"none", "alive", "dead"}
BY DEF TypeOK, Host, HostMemory

(* A launched process begins without anything of its own.                   *)
LEMMA LaunchEffect ==
    ASSUME TypeOK, NEW e \in Executions, NEW k \in Attempts, LaunchArrives(e, k)
    PROVE  /\ TypeOK' /\ OthersKept(e, k) /\ UNCHANGED <<rows, provider, doing>>
           /\ hosts[e][k].pc = "absent" /\ hosts'[e][k].pc = "booted"
           /\ hosts'[e][k].child = "none" /\ hosts'[e][k].tail = <<>> /\ hosts'[e][k].batch = {}
<1>1. rows[e].args.resume \in Sessions \cup {None}
  BY DEF TypeOK, Row, Args, NoArgs
<1>2. ASSUME NEW s \in Sessions \cup {None}
      PROVE  LET new == [NoHost EXCEPT !.pc = "booted", !.session = s]
             IN  /\ new \in Host /\ new.pc = "booted" /\ new.child = "none"
                 /\ new.tail = <<>> /\ new.batch = {}
  BY NoHostType DEF Host, HostMemory, Phases
<1> DEFINE new == [NoHost EXCEPT !.pc = "booted", !.session = rows[e].args.resume]
<1>3. /\ new \in Host /\ new.pc = "booted" /\ new.child = "none"
      /\ new.tail = <<>> /\ new.batch = {}
  BY <1>1, <1>2
<1>4. SetHost(e, k, new)
  BY DEF LaunchArrives, SetHost
<1> HIDE DEF new
<1>5. hosts' \in [Executions -> [Attempts -> Host]] /\ hosts'[e][k] = new /\ OthersKept(e, k)
  BY <1>3, <1>4, HostSet
<1>6. TypeOK'
  BY <1>5 DEF TypeOK, LaunchArrives
<1> QED  BY <1>3, <1>5, <1>6 DEF LaunchArrives

(* claim turns an unclaimed reservation into a running row of this process. *)
LEMMA ClaimEffect ==
    ASSUME TypeOK, NEW e \in Executions, NEW k \in Attempts, HostClaims(e, k)
    PROVE  /\ TypeOK' /\ ClaimsKept /\ OthersKept(e, k) /\ UNCHANGED <<provider, doing>>
           /\ rows[e].state = "starting" /\ rows[e].pid = None
           /\ rows'[e].state = "running" /\ rows'[e].pid = k
           /\ \A f \in Executions \ {e} : rows'[f] = rows[f]
           /\ hosts'[e][k].pc = "claimed" /\ hosts'[e][k].child = hosts[e][k].child
           /\ hosts'[e][k].tail = hosts[e][k].tail /\ hosts'[e][k].batch = hosts[e][k].batch
<1> DEFINE row == ClaimRow(rows[e], k)
           host == [hosts[e][k] EXCEPT !.pc = "claimed"]
<1>1. hosts[e][k] \in Host /\ rows[e] \in Row
  BY HostIsTyped
<1>2. row \in Row /\ row.state = "running" /\ row.pid = k /\ row.commands = rows[e].commands
  BY <1>1, ClaimRowType
<1>3. /\ host \in Host /\ host.pc = "claimed" /\ host.child = hosts[e][k].child
      /\ host.tail = hosts[e][k].tail /\ host.batch = hosts[e][k].batch
  BY <1>1 DEF Host, HostMemory, Phases
<1>4. UpdateRow(e, row) /\ SetHost(e, k, host)
  BY DEF HostClaims
<1> HIDE DEF row, host
<1>5. /\ rows' \in [Executions -> Row] /\ rows'[e] = row
      /\ \A f \in Executions \ {e} : rows'[f] = rows[f]
  BY <1>2, <1>4, RowUpdated
<1>6. hosts' \in [Executions -> [Attempts -> Host]] /\ hosts'[e][k] = host /\ OthersKept(e, k)
  BY <1>3, <1>4, HostSet
<1>7. TypeOK'
  BY <1>5, <1>6 DEF TypeOK, HostClaims
<1> QED  BY <1>2, <1>3, <1>5, <1>6, <1>7 DEF HostClaims, Claimable, ClaimsKept, ClaimKept

(* The steps after which the process is gone and its memory with it.        *)
LEMMA DeathEffect ==
    ASSUME TypeOK, NEW e \in Executions, NEW k \in Attempts,
           HostClaimRefused(e, k) \/ HostCloses(e, k) \/ HostCrashes(e, k)
    PROVE  /\ TypeOK' /\ ClaimsKept /\ OthersKept(e, k) /\ UNCHANGED <<provider, doing>>
           /\ \A f \in Executions : /\ rows'[f].pid = rows[f].pid
                                    /\ \/ rows'[f].state = rows[f].state
                                       \/ rows[f].state = "queued" /\ rows'[f].state = "starting"
           /\ hosts[e][k].pc # "absent"
           /\ hosts'[e][k].pc = "gone" /\ hosts'[e][k].child = hosts[e][k].child
           /\ hosts'[e][k].tail = <<>> /\ hosts'[e][k].batch = {}
<1> DEFINE host == Dead(hosts[e][k])
<1>1. hosts[e][k] \in Host
  BY HostIsTyped
<1>2. /\ host \in Host /\ host.pc = "gone" /\ host.child = hosts[e][k].child
      /\ host.tail = <<>> /\ host.batch = {}
  BY <1>1, DeadType
<1>3. SetHost(e, k, host) /\ hosts[e][k].pc # "absent"
  BY DEF HostClaimRefused, HostCloses, HostCrashes, ProcessAlive
<1> HIDE DEF host
<1>4. hosts' \in [Executions -> [Attempts -> Host]] /\ hosts'[e][k] = host /\ OthersKept(e, k)
  BY <1>2, <1>3, HostSet
<1>5. CASE HostClaimRefused(e, k)
  <2>1. TypeOK'
    BY <1>4, <1>5 DEF TypeOK, HostClaimRefused
  <2> QED  BY <1>2, <1>3, <1>4, <1>5, <2>1 DEF HostClaimRefused, ClaimsKept, ClaimKept
<1>6. CASE HostCloses(e, k)
  <2>1. AdmitExecutions
    BY <1>6 DEF HostCloses
  <2>2. TypeOK'
    BY <1>4, <1>6, <2>1, AdmitEffect DEF TypeOK, HostCloses
  <2> QED  BY <1>2, <1>3, <1>4, <1>6, <2>1, <2>2, AdmitEffect DEF HostCloses
<1>7. CASE HostCrashes(e, k)
  <2>1. faults' \in 0..MaxFaults
    BY <1>7, SystemAssumption DEF TypeOK, HostCrashes, Fault
  <2>2. TypeOK'
    BY <1>4, <1>7, <2>1 DEF TypeOK, HostCrashes
  <2> QED  BY <1>2, <1>3, <1>4, <1>7, <2>2 DEF HostCrashes, ClaimsKept, ClaimKept
<1> QED  BY <1>5, <1>6, <1>7

(* What a provider emits is a normalised event.                             *)
LEMMA ProviderEventType == ProviderEvents \subseteq Emitted
BY DEF ProviderEvents, Emitted, EventKinds

(* What has been asked of the providers: nothing new.                       *)
CallsKept == \A e \in Executions : /\ provider'[e].invoked = provider[e].invoked
                                   /\ provider'[e].writes = provider[e].writes

(* The invocation is counted and the host serves.                           *)
LEMMA InvokeEffect ==
    ASSUME TypeOK, NEW e \in Executions, NEW k \in Attempts, HostInvokes(e, k)
    PROVE  /\ TypeOK' /\ OthersKept(e, k) /\ UNCHANGED <<rows, doing>>
           /\ hosts[e][k].pc = "claimed" /\ hosts'[e][k].pc = "serving"
           /\ hosts'[e][k].batch = hosts[e][k].batch
           /\ provider'[e].invoked = provider[e].invoked + 1
           /\ provider'[e].writes = provider[e].writes
           /\ \A f \in Executions \ {e} : provider'[f] = provider[f]
<1> DEFINE base == [hosts[e][k] EXCEPT !.pc = "serving", !.child = "alive"]
           host == Push(base, <<Plain("started")>>)
<1>1. hosts[e][k] \in Host
  BY HostIsTyped
<1>2. base \in Host /\ base.pc = "serving" /\ base.batch = hosts[e][k].batch
  BY <1>1 DEF Host, HostMemory, Phases
<1>3. <<Plain("started")>> \in Seq(Op)
  BY OpTypes DEF EventKinds
<1>4. SetHost(e, k, host)
  BY DEF HostInvokes
<1> HIDE DEF base
<1>5. host \in Host /\ host.pc = "serving" /\ host.batch = hosts[e][k].batch
  BY <1>2, <1>3, PushType
<1> HIDE DEF host
<1>6. hosts' \in [Executions -> [Attempts -> Host]] /\ hosts'[e][k] = host /\ OthersKept(e, k)
  BY <1>4, <1>5, HostSet
<1>7. /\ provider' \in [Executions -> Provider]
      /\ provider'[e].invoked = provider[e].invoked + 1
      /\ provider'[e].writes = provider[e].writes
      /\ \A f \in Executions \ {e} : provider'[f] = provider[f]
  <2> DEFINE p == [provider[e] EXCEPT !.invoked = provider[e].invoked + 1]
  <2>1. provider[e] \in Provider
    BY DEF TypeOK
  <2>2. p \in Provider /\ p.invoked = provider[e].invoked + 1 /\ p.writes = provider[e].writes
    BY <2>1 DEF Provider
  <2>3. provider' = [provider EXCEPT ![e] = p]
    BY DEF HostInvokes
  <2> HIDE DEF p
  <2> QED  BY <2>2, <2>3 DEF TypeOK
<1>8. TypeOK'
  BY <1>6, <1>7 DEF TypeOK, HostInvokes
<1> QED  BY <1>5, <1>6, <1>7, <1>8 DEF HostInvokes

(* The steps of a working host that only add to its chain.                  *)
Works(e, k) ==
    \/ HostCannotInvoke(e, k)
    \/ \E event \in ProviderEvents : ProviderEmits(e, k, event)
    \/ \E lost \in BOOLEAN : ProviderExits(e, k, lost)
    \/ HostDrains(e, k)
    \/ \E result \in Receipts \ {"accepted"} : ProviderReplies(e, k, result)

(* A host that only queues operations keeps its claimed commands.           *)
LEMMA PushedEffect ==
    ASSUME TypeOK, NEW e \in Executions, NEW k \in Attempts, NEW base \in Host, NEW ops \in Seq(Op),
           SetHost(e, k, Push(base, ops)),
           base.batch = hosts[e][k].batch, base.pc \in {"serving", "finishing"},
           base.child = "none" \/ hosts[e][k].child # "none"
    PROVE  /\ hosts' \in [Executions -> [Attempts -> Host]] /\ OthersKept(e, k)
           /\ hosts'[e][k].pc \in {"serving", "finishing"}
           /\ hosts'[e][k].child = "none" \/ hosts[e][k].child # "none"
           /\ hosts'[e][k].batch = hosts[e][k].batch
<1> DEFINE host == Push(base, ops)
<1>1. host \in Host /\ host.pc = base.pc /\ host.child = base.child /\ host.batch = base.batch
  BY PushType
<1>2. SetHost(e, k, host)
  OBVIOUS
<1> HIDE DEF host
<1>3. hosts' \in [Executions -> [Attempts -> Host]] /\ hosts'[e][k] = host /\ OthersKept(e, k)
  BY <1>1, <1>2, HostSet
<1> QED  BY <1>1, <1>3

(* The steps in Works change no row, no invocation and no write.            *)
LEMMA WorkEffect ==
    ASSUME TypeOK, NEW e \in Executions, NEW k \in Attempts, Works(e, k)
    PROVE  /\ TypeOK' /\ OthersKept(e, k) /\ UNCHANGED <<rows, doing>> /\ CallsKept
           /\ hosts[e][k].pc \in {"claimed", "serving"}
           /\ hosts'[e][k].pc \in {"serving", "finishing"}
           /\ hosts'[e][k].child = "none" \/ hosts[e][k].child # "none"
           /\ hosts'[e][k].batch = hosts[e][k].batch
<1> DEFINE old == hosts[e][k]
           HostGoal == /\ hosts' \in [Executions -> [Attempts -> Host]] /\ OthersKept(e, k)
                       /\ hosts[e][k].pc \in {"claimed", "serving"}
                       /\ hosts'[e][k].pc \in {"serving", "finishing"}
                       /\ hosts'[e][k].child = "none" \/ hosts[e][k].child # "none"
                       /\ hosts'[e][k].batch = hosts[e][k].batch
<1>0. old \in Host
  BY HostIsTyped
<1>1. CASE HostCannotInvoke(e, k)
  <2> DEFINE base == [old EXCEPT !.pc = "finishing"]
             ops == <<Plain("started"), Plain("error"), [op |-> "finish", lost |-> TRUE]>>
  <2>1. base \in Host /\ base.pc = "finishing" /\ base.child = old.child /\ base.batch = old.batch
    BY <1>0 DEF Host, HostMemory, Phases
  <2>2. ops \in Seq(Op)
    <3>1. Plain("started") \in Op /\ Plain("error") \in Op
      BY OpTypes DEF EventKinds
    <3>2. [op |-> "finish", lost |-> TRUE] \in Op
      BY DEF Op
    <3> QED  BY <3>1, <3>2
  <2>3. SetHost(e, k, Push(base, ops))
    BY <1>1 DEF HostCannotInvoke
  <2>4. old.pc = "claimed"
    BY <1>1 DEF HostCannotInvoke
  <2> HIDE DEF base, ops
  <2>5. HostGoal
    BY <2>1, <2>2, <2>3, <2>4, PushedEffect
  <2> HIDE DEF HostGoal
  <2>6. TypeOK' /\ UNCHANGED <<rows, doing>> /\ CallsKept
    BY <1>1, <2>5 DEF TypeOK, HostCannotInvoke, CallsKept, HostGoal
  <2> QED  BY <2>5, <2>6 DEF HostGoal
<1>2. CASE \E event \in ProviderEvents : ProviderEmits(e, k, event)
  <2>1. PICK event \in ProviderEvents : ProviderEmits(e, k, event)
    BY <1>2
  <2>2. <<EventOp(event)>> \in Seq(Op) /\ old.pc = "serving"
    BY <2>1, OpTypes, ProviderEventType DEF ProviderEmits
  <2>3. ASSUME old.mismatch  PROVE HostGoal
    <3>1. SetHost(e, k, old)
      BY <2>1, <2>3 DEF ProviderEmits
    <3> QED  BY <1>0, <2>2, <3>1, HostSet
  <2>4. ASSUME ~old.mismatch  PROVE HostGoal
    <3> DEFINE ops == <<EventOp(event)>>
    <3>1. SetHost(e, k, Push(old, ops))
      BY <2>1, <2>4 DEF ProviderEmits
    <3> HIDE DEF ops
    <3> QED  BY <1>0, <2>2, <3>1, PushedEffect DEF ops
  <2>5. HostGoal
    BY <2>3, <2>4
  <2> HIDE DEF HostGoal
  <2>6. provider' \in [Executions -> Provider] /\ CallsKept
    <3> DEFINE p == [provider[e] EXCEPT !.emitted = provider[e].emitted + 1]
    <3>1. provider[e] \in Provider /\ provider[e].emitted < MaxOutput
      BY <2>1 DEF TypeOK, ProviderEmits
    <3>2. provider[e].emitted + 1 \in 0..MaxOutput
      BY <3>1, SystemAssumption DEF Provider
    <3>3. /\ p \in Provider /\ p.invoked = provider[e].invoked
          /\ p.writes = provider[e].writes
      BY <3>1, <3>2 DEF Provider
    <3>4. provider' = [provider EXCEPT ![e] = p]
      BY <2>1 DEF ProviderEmits
    <3> HIDE DEF p
    <3> QED  BY <3>3, <3>4 DEF TypeOK, CallsKept
  <2>7. TypeOK' /\ UNCHANGED <<rows, doing>>
    BY <2>1, <2>5, <2>6 DEF TypeOK, ProviderEmits, HostGoal
  <2> QED  BY <2>5, <2>6, <2>7 DEF HostGoal
<1>3. CASE \E lost \in BOOLEAN : ProviderExits(e, k, lost)
  <2>0. PICK lost \in BOOLEAN : ProviderExits(e, k, lost)
    BY <1>3
  <2> DEFINE base == [old EXCEPT !.pc = "finishing", !.child = "dead"]
             exit == IF old.mismatch THEN <<>> ELSE <<Plain("process_exit")>>
             ops == exit \o <<[op |-> "finish", lost |-> lost]>>
  <2>1. base \in Host /\ base.pc = "finishing" /\ base.child = "dead" /\ base.batch = old.batch
    BY <1>0 DEF Host, HostMemory, Phases
  <2>2. ops \in Seq(Op)
    <3>1. exit \in Seq(Op)
      BY OpTypes DEF EventKinds
    <3>2. <<[op |-> "finish", lost |-> lost]>> \in Seq(Op)
      BY <2>0 DEF Op
    <3> HIDE DEF exit
    <3> QED  BY <3>1, <3>2
  <2>3. SetHost(e, k, Push(base, ops))
    BY <2>0 DEF ProviderExits
  <2>4. old.pc = "serving" /\ old.child = "alive"
    BY <2>0 DEF ProviderExits
  <2> HIDE DEF base, ops
  <2>5. HostGoal
    BY <2>1, <2>2, <2>3, <2>4, PushedEffect
  <2> HIDE DEF HostGoal
  <2>6. TypeOK' /\ UNCHANGED <<rows, doing>> /\ CallsKept
    BY <2>0, <2>5 DEF TypeOK, ProviderExits, CallsKept, HostGoal
  <2> QED  BY <2>5, <2>6 DEF HostGoal
<1>4. CASE HostDrains(e, k)
  <2> DEFINE base == [old EXCEPT !.step = "claiming"]
             ops == <<[op |-> "pending"]>>
  <2>1. base \in Host /\ base.pc = old.pc /\ base.child = old.child /\ base.batch = old.batch
    BY <1>0 DEF Host, HostMemory
  <2>2. ops \in Seq(Op)
    BY OpTypes
  <2>3. SetHost(e, k, Push(base, ops)) /\ old.pc = "serving"
    BY <1>4 DEF HostDrains
  <2> HIDE DEF base, ops
  <2>5. HostGoal
    BY <2>1, <2>2, <2>3, PushedEffect
  <2> HIDE DEF HostGoal
  <2>6. TypeOK' /\ UNCHANGED <<rows, doing>> /\ CallsKept
    BY <1>4, <2>5 DEF TypeOK, HostDrains, CallsKept, HostGoal
  <2> QED  BY <2>5, <2>6 DEF HostGoal
<1>5. CASE \E result \in Receipts \ {"accepted"} : ProviderReplies(e, k, result)
  <2>1. PICK result \in Receipts : ProviderReplies(e, k, result)
    BY <1>5
  <2> DEFINE base == [old EXCEPT !.step = "settling"]
             settle == [op |-> "settle", command |-> old.command, result |-> result]
  <2>2. base \in Host /\ base.pc = old.pc /\ base.child = old.child /\ base.batch = old.batch
    BY <1>0 DEF Host, HostMemory
  <2>3. old.command \in Commands
    BY <1>0, <2>1 DEF Host, ProviderReplies
  <2>4. <<settle>> \in Seq(Op)
    BY <2>3, OpTypes
  <2>5. SetHost(e, k, Push(base, <<settle>>)) /\ old.pc = "serving"
    BY <2>1 DEF ProviderReplies
  <2> HIDE DEF base, settle
  <2>6. HostGoal
    BY <2>2, <2>4, <2>5, PushedEffect
  <2> HIDE DEF HostGoal
  <2>7. TypeOK' /\ UNCHANGED <<rows, doing>> /\ CallsKept
    BY <2>1, <2>6 DEF TypeOK, ProviderReplies, CallsKept, HostGoal
  <2> QED  BY <2>6, <2>7 DEF HostGoal
<1> QED  BY <1>1, <1>2, <1>3, <1>4, <1>5 DEF Works

(* One claimed command leaves the host's batch and is written.              *)
LEMMA WriteEffect ==
    ASSUME TypeOK, NEW e \in Executions, NEW k \in Attempts, NEW c \in Commands, NEW took \in BOOLEAN,
           HostWrites(e, k, c, took)
    PROVE  /\ TypeOK' /\ OthersKept(e, k) /\ UNCHANGED <<rows, doing>>
           /\ hosts[e][k].pc = "serving" /\ hosts'[e][k].pc = "serving"
           /\ hosts'[e][k].child = hosts[e][k].child
           /\ c \in hosts[e][k].batch /\ hosts'[e][k].batch = hosts[e][k].batch \ {c}
           /\ \A f \in Executions : provider'[f].invoked = provider[f].invoked
           /\ provider'[e].writes = [provider[e].writes EXCEPT ![c] = provider[e].writes[c] + 1]
           /\ \A f \in Executions \ {e} : provider'[f] = provider[f]
<1> DEFINE old == hosts[e][k]
           host == [old EXCEPT !.step = "writing", !.command = c, !.batch = old.batch \ {c}]
<1>1. old \in Host /\ c \in old.batch /\ old.pc = "serving"
  BY HostIsTyped DEF HostWrites, NextCommands
<1>2. old.batch \ {c} \in SUBSET Commands
  BY <1>1 DEF Host, HostMemory
<1>3. /\ host \in Host /\ host.pc = old.pc /\ host.child = old.child
      /\ host.batch = old.batch \ {c}
  BY <1>1, <1>2 DEF Host, HostMemory
<1>4. SetHost(e, k, host)
  BY DEF HostWrites
<1> HIDE DEF host
<1>5. hosts' \in [Executions -> [Attempts -> Host]] /\ hosts'[e][k] = host /\ OthersKept(e, k)
  BY <1>3, <1>4, HostSet
<1>6. /\ provider' \in [Executions -> Provider]
      /\ provider'[e].invoked = provider[e].invoked
      /\ provider'[e].writes = [provider[e].writes EXCEPT ![c] = provider[e].writes[c] + 1]
      /\ \A f \in Executions \ {e} : provider'[f] = provider[f]
  <2> DEFINE ws == [provider[e].writes EXCEPT ![c] = provider[e].writes[c] + 1]
             tk == IF took THEN provider[e].took \cup {c} ELSE provider[e].took
             p == [provider[e] EXCEPT !.writes = ws, !.took = tk]
  <2>1. provider[e] \in Provider
    BY DEF TypeOK
  <2>2. ws \in [Commands -> Nat] /\ tk \in SUBSET Commands
    BY <2>1 DEF Provider
  <2>3. provider' = [provider EXCEPT ![e] = p]
    BY DEF HostWrites
  <2> HIDE DEF ws, tk
  <2>4. p \in Provider /\ p.invoked = provider[e].invoked /\ p.writes = ws
    BY <2>1, <2>2 DEF Provider
  <2> HIDE DEF p
  <2>5. /\ provider' \in [Executions -> Provider] /\ provider'[e] = p
        /\ \A f \in Executions \ {e} : provider'[f] = provider[f]
    BY <2>3, <2>4 DEF TypeOK
  <2> QED  BY <2>4, <2>5 DEF ws
<1>7. TypeOK'
  BY <1>5, <1>6 DEF TypeOK, HostWrites
<1> QED  BY <1>1, <1>3, <1>5, <1>6, <1>7 DEF HostWrites

(* A popped operation with an update of the row that keeps the claims.      *)
LEMMA PersistedEffect ==
    ASSUME TypeOK, NEW e \in Executions, NEW k \in Attempts, NEW row \in Row, NEW host \in Host,
           UpdateRow(e, row), SetHost(e, k, host),
           row.state = rows[e].state, row.pid = rows[e].pid,
           \A c \in Commands : /\ row.commands[c].claimed = rows[e].commands[c].claimed
                               /\ row.commands[c].rowid = rows[e].commands[c].rowid,
           UNCHANGED <<capacity, provider, launches, webUp, view, doing, faults>>
    PROVE  /\ TypeOK' /\ RowsKept /\ ClaimsKept /\ OthersKept(e, k) /\ hosts'[e][k] = host
<1>1. /\ rows' \in [Executions -> Row] /\ rows'[e] = row
      /\ \A f \in Executions \ {e} : rows'[f] = rows[f]
  BY RowUpdated
<1>2. hosts' \in [Executions -> [Attempts -> Host]] /\ hosts'[e][k] = host /\ OthersKept(e, k)
  BY HostSet
<1>3. TypeOK'
  BY <1>1, <1>2 DEF TypeOK
<1>4. RowsKept /\ ClaimsKept
  BY <1>1 DEF RowsKept, RowKept, ClaimsKept, ClaimKept
<1> QED  BY <1>2, <1>3, <1>4

Commits(e, k) ==
    PersistDrops(e, k) \/ PersistRefuses(e, k) \/ PersistStores(e, k) \/ PersistSettle(e, k)

(* The head of a host's chain and the host without it.                      *)
LEMMA HeadType ==
    ASSUME TypeOK, NEW e \in Executions, NEW k \in Attempts, hosts[e][k].tail # <<>>
    PROVE  /\ Head(hosts[e][k].tail) \in Op
           /\ Popped(hosts[e][k]) \in Host
           /\ Popped(hosts[e][k]).pc = hosts[e][k].pc
           /\ Popped(hosts[e][k]).child = hosts[e][k].child
           /\ Popped(hosts[e][k]).batch = hosts[e][k].batch
BY HostIsTyped, PoppedType

(* The steps in Commits keep the row's state, process and claims.           *)
LEMMA CommitEffect ==
    ASSUME TypeOK, NEW e \in Executions, NEW k \in Attempts, Commits(e, k)
    PROVE  /\ TypeOK' /\ RowsKept /\ ClaimsKept /\ OthersKept(e, k) /\ UNCHANGED <<provider, doing>>
           /\ hosts[e][k].tail # <<>>
           /\ hosts'[e][k].pc = hosts[e][k].pc
           /\ hosts'[e][k].child = hosts[e][k].child
           /\ hosts'[e][k].batch = hosts[e][k].batch
<1> DEFINE old == hosts[e][k]
           popped == Popped(old)
           head == Head(old.tail)
<1>0. old.tail # <<>>
  BY DEF Commits, PersistDrops, PersistRefuses, PersistStores, PersistSettle, AtHead
<1>1. /\ old \in Host /\ rows[e] \in Row /\ head \in Op /\ popped \in Host
      /\ popped.pc = old.pc /\ popped.child = old.child /\ popped.batch = old.batch
  BY <1>0, HostIsTyped, HeadType
<1>2. CASE PersistDrops(e, k)
  <2>1. SetHost(e, k, popped)
    BY <1>2 DEF PersistDrops
  <2> HIDE DEF popped
  <2>2. hosts' \in [Executions -> [Attempts -> Host]] /\ hosts'[e][k] = popped /\ OthersKept(e, k)
    BY <1>1, <2>1, HostSet
  <2>3. TypeOK'
    BY <1>2, <2>2 DEF TypeOK, PersistDrops
  <2> QED  BY <1>0, <1>1, <1>2, <2>2, <2>3 DEF PersistDrops, RowsKept, RowKept, ClaimsKept, ClaimKept
<1>3. CASE PersistRefuses(e, k)
  <2> DEFINE row1 == Append1(rows[e], Note("error"))
             row == Append1(row1, Note("process_exit"))
             host == [popped EXCEPT !.mismatch = TRUE]
  <2>1. UpdateRow(e, row) /\ SetHost(e, k, host)
    BY <1>3 DEF PersistRefuses
  <2>2. Note("error") \in Entry /\ Note("process_exit") \in Entry
    BY NoteType DEF EventKinds
  <2>3. /\ row1 \in Row /\ row1.state = rows[e].state /\ row1.pid = rows[e].pid
        /\ row1.commands = rows[e].commands
    BY <1>1, <2>2, Append1Type
  <2> HIDE DEF row1
  <2>4. /\ row \in Row /\ row.state = rows[e].state /\ row.pid = rows[e].pid
        /\ row.commands = rows[e].commands
    BY <2>2, <2>3, Append1Type
  <2> HIDE DEF row, popped
  <2>5. host \in Host /\ host.pc = popped.pc /\ host.child = popped.child /\ host.batch = popped.batch
    BY <1>1 DEF Host, HostMemory
  <2> HIDE DEF host
  <2>6. UNCHANGED <<capacity, provider, launches, webUp, view, doing, faults>>
    BY <1>3 DEF PersistRefuses
  <2>7. TypeOK' /\ RowsKept /\ ClaimsKept /\ OthersKept(e, k) /\ hosts'[e][k] = host
    BY <2>1, <2>4, <2>5, <2>6, PersistedEffect
  <2> QED  BY <1>0, <1>1, <2>5, <2>6, <2>7
<1>4. CASE PersistStores(e, k)
  <2> DEFINE event == head.event
             binds == old.session = None /\ event.session # None
             bound == IF binds THEN BindRow(rows[e], event.session) ELSE rows[e]
             entry == [kind |-> event.kind, request |-> event.request]
             row == Append1(bound, entry)
             session == IF binds THEN event.session ELSE popped.session
             host == [popped EXCEPT !.session = session]
  <2>1. UpdateRow(e, row) /\ SetHost(e, k, host)
    BY <1>4 DEF PersistStores
  <2>2. event \in Emitted
    BY <1>1, <1>4, OpFields DEF PersistStores, AtHead
  <2>3. entry \in Entry /\ event.session \in Sessions \cup {None}
    BY <2>2 DEF Emitted, Entry
  <2>4. /\ bound \in Row /\ bound.state = rows[e].state /\ bound.pid = rows[e].pid
        /\ bound.commands = rows[e].commands
    BY <1>1, <2>3, BindRowType
  <2>5. session \in Sessions \cup {None}
    BY <1>1, <2>3 DEF Host, HostMemory
  <2> HIDE DEF bound, entry, session
  <2>6. /\ row \in Row /\ row.state = rows[e].state /\ row.pid = rows[e].pid
        /\ row.commands = rows[e].commands
    BY <2>3, <2>4, Append1Type
  <2> HIDE DEF row, popped
  <2>7. host \in Host /\ host.pc = popped.pc /\ host.child = popped.child /\ host.batch = popped.batch
    BY <1>1, <2>5 DEF Host, HostMemory
  <2> HIDE DEF host
  <2>8. UNCHANGED <<capacity, provider, launches, webUp, view, doing, faults>>
    BY <1>4 DEF PersistStores
  <2>9. TypeOK' /\ RowsKept /\ ClaimsKept /\ OthersKept(e, k) /\ hosts'[e][k] = host
    BY <2>1, <2>6, <2>7, <2>8, PersistedEffect
  <2> QED  BY <1>0, <1>1, <2>7, <2>8, <2>9
<1>5. CASE PersistSettle(e, k)
  <2> DEFINE row == SettleRow(rows[e], head.command, head.result)
             host == [popped EXCEPT !.step = "idle", !.command = None]
  <2>1. UpdateRow(e, row) /\ SetHost(e, k, host)
    BY <1>5 DEF PersistSettle
  <2>2. head.command \in Commands /\ head.result \in Receipts
    BY <1>1, <1>5, OpFields DEF PersistSettle, AtHead
  <2>3. /\ row \in Row /\ row.state = rows[e].state /\ row.pid = rows[e].pid
        /\ \A c \in Commands : /\ row.commands[c].claimed = rows[e].commands[c].claimed
                               /\ row.commands[c].rowid = rows[e].commands[c].rowid
    BY <1>1, <2>2, SettleRowType
  <2> HIDE DEF row, popped
  <2>4. host \in Host /\ host.pc = popped.pc /\ host.child = popped.child /\ host.batch = popped.batch
    BY <1>1 DEF Host, HostMemory
  <2> HIDE DEF host
  <2>5. UNCHANGED <<capacity, provider, launches, webUp, view, doing, faults>>
    BY <1>5 DEF PersistSettle
  <2>6. TypeOK' /\ RowsKept /\ ClaimsKept /\ OthersKept(e, k) /\ hosts'[e][k] = host
    BY <2>1, <2>3, <2>4, <2>5, PersistedEffect
  <2> QED  BY <1>0, <1>1, <2>4, <2>5, <2>6
<1> QED  BY <1>2, <1>3, <1>4, <1>5 DEF Commits

(* The pending operation hands exactly the newly claimed commands to the    *)
(* host.                                                                    *)
LEMMA PendingEffect ==
    ASSUME TypeOK, NEW e \in Executions, NEW k \in Attempts, PersistPending(e, k)
    PROVE  /\ TypeOK' /\ RowsKept /\ OthersKept(e, k) /\ UNCHANGED <<provider, doing>>
           /\ hosts[e][k].tail # <<>>
           /\ hosts'[e][k].pc = hosts[e][k].pc /\ hosts'[e][k].child = hosts[e][k].child
           /\ hosts'[e][k].batch = PendingCommands(rows[e])
           /\ \A f \in Executions, c \in Commands : rows'[f].commands[c].rowid = rows[f].commands[c].rowid
           /\ \A c \in Commands : /\ c \in PendingCommands(rows[e]) => rows'[e].commands[c].claimed = TRUE
                                  /\ c \notin PendingCommands(rows[e]) => ClaimKept(e, c)
           /\ \A f \in Executions \ {e} : rows'[f] = rows[f]
<1> DEFINE old == hosts[e][k]
           popped == Popped(old)
           row == ClaimCommands(rows[e])
           taken == PendingCommands(rows[e])
           host == [popped EXCEPT !.step = "idle", !.batch = taken]
<1>0. old.tail # <<>>
  BY DEF PersistPending, AtHead
<1>1. /\ old \in Host /\ rows[e] \in Row /\ popped \in Host
      /\ popped.pc = old.pc /\ popped.child = old.child
  BY <1>0, HostIsTyped, HeadType
<1>2. /\ row \in Row /\ row.state = rows[e].state /\ row.pid = rows[e].pid /\ taken \in SUBSET Commands
      /\ \A c \in Commands : /\ row.commands[c].rowid = rows[e].commands[c].rowid
                             /\ c \in taken => row.commands[c].claimed = TRUE
                             /\ c \notin taken => row.commands[c] = rows[e].commands[c]
  BY <1>1, ClaimCommandsType
<1>3. UpdateRow(e, row) /\ SetHost(e, k, host)
  BY DEF PersistPending
<1> HIDE DEF row, popped, taken
<1>4. host \in Host /\ host.pc = popped.pc /\ host.child = popped.child /\ host.batch = taken
  BY <1>1, <1>2 DEF Host, HostMemory
<1> HIDE DEF host
<1>5. /\ rows' \in [Executions -> Row] /\ rows'[e] = row
      /\ \A f \in Executions \ {e} : rows'[f] = rows[f]
  BY <1>2, <1>3, RowUpdated
<1>6. hosts' \in [Executions -> [Attempts -> Host]] /\ hosts'[e][k] = host /\ OthersKept(e, k)
  BY <1>3, <1>4, HostSet
<1>7. TypeOK'
  BY <1>5, <1>6 DEF TypeOK, PersistPending
<1>8. RowsKept
  BY <1>2, <1>5 DEF RowsKept, RowKept
<1>9. /\ \A f \in Executions, c \in Commands : rows'[f].commands[c].rowid = rows[f].commands[c].rowid
      /\ \A c \in Commands : /\ c \in taken => rows'[e].commands[c].claimed = TRUE
                             /\ c \notin taken => ClaimKept(e, c)
  BY <1>2, <1>5 DEF ClaimKept
<1> QED  BY <1>0, <1>1, <1>4, <1>5, <1>6, <1>7, <1>8, <1>9 DEF PersistPending, taken

(* The finish operation ends the row and leaves the host closing.           *)
LEMMA FinishEffect ==
    ASSUME TypeOK, NEW e \in Executions, NEW k \in Attempts, PersistFinish(e, k)
    PROVE  /\ TypeOK' /\ ClaimsKept /\ OthersKept(e, k) /\ UNCHANGED <<provider, doing>>
           /\ hosts[e][k].tail # <<>>
           /\ hosts'[e][k].pc = "closing" /\ hosts'[e][k].child = hosts[e][k].child
           /\ hosts'[e][k].batch = hosts[e][k].batch
           /\ rows'[e].state \in Ended /\ rows'[e].pid = rows[e].pid
           /\ \A f \in Executions \ {e} : rows'[f] = rows[f]
<1> DEFINE old == hosts[e][k]
           popped == Popped(old)
           row == FinishRow(rows[e], Head(old.tail).lost)
           host == [popped EXCEPT !.pc = "closing"]
<1>0. old.tail # <<>>
  BY DEF PersistFinish, AtHead
<1>1. /\ old \in Host /\ rows[e] \in Row /\ Head(old.tail) \in Op /\ popped \in Host
      /\ popped.child = old.child /\ popped.batch = old.batch
  BY <1>0, HostIsTyped, HeadType
<1>2. Head(old.tail).lost \in BOOLEAN
  BY <1>1, OpFields DEF PersistFinish, AtHead
<1>3. /\ row \in Row /\ row.state \in Ended /\ row.pid = rows[e].pid
      /\ \A c \in Commands : /\ row.commands[c].claimed = rows[e].commands[c].claimed
                             /\ row.commands[c].rowid = rows[e].commands[c].rowid
  BY <1>1, <1>2, FinishRowType
<1>4. UpdateRow(e, row) /\ SetHost(e, k, host)
  BY DEF PersistFinish
<1> HIDE DEF row, popped
<1>5. host \in Host /\ host.pc = "closing" /\ host.child = popped.child /\ host.batch = popped.batch
  BY <1>1 DEF Host, HostMemory, Phases
<1> HIDE DEF host
<1>6. /\ rows' \in [Executions -> Row] /\ rows'[e] = row
      /\ \A f \in Executions \ {e} : rows'[f] = rows[f]
  BY <1>3, <1>4, RowUpdated
<1>7. hosts' \in [Executions -> [Attempts -> Host]] /\ hosts'[e][k] = host /\ OthersKept(e, k)
  BY <1>4, <1>5, HostSet
<1>8. TypeOK'
  BY <1>6, <1>7 DEF TypeOK, PersistFinish
<1>9. ClaimsKept
  BY <1>3, <1>6 DEF ClaimsKept, ClaimKept
<1> QED  BY <1>0, <1>1, <1>3, <1>5, <1>6, <1>7, <1>8, <1>9 DEF PersistFinish

(* A failing host drops its chain and its batch.                            *)
LEMMA FailEffect ==
    ASSUME TypeOK, NEW e \in Executions, NEW k \in Attempts, HostFails(e, k)
    PROVE  /\ TypeOK' /\ OthersKept(e, k) /\ UNCHANGED <<rows, provider, doing>>
           /\ hosts[e][k].pc \in {"serving", "finishing"} /\ hosts'[e][k].pc = "failing"
           /\ hosts'[e][k].child = hosts[e][k].child
           /\ hosts'[e][k].tail = <<>> /\ hosts'[e][k].batch = {}
<1> DEFINE host == [NoHost EXCEPT !.pc = "failing", !.child = hosts[e][k].child]
<1>1. hosts[e][k].child \in {"none", "alive", "dead"}
  BY HostIsTyped
<1>2. /\ host \in Host /\ host.pc = "failing" /\ host.child = hosts[e][k].child
      /\ host.tail = NoHost.tail /\ host.batch = NoHost.batch
  BY <1>1, NoHostType DEF Host, HostMemory, Phases
<1>3. SetHost(e, k, host)
  BY DEF HostFails
<1> HIDE DEF host
<1>4. hosts' \in [Executions -> [Attempts -> Host]] /\ hosts'[e][k] = host /\ OthersKept(e, k)
  BY <1>2, <1>3, HostSet
<1>5. faults' \in 0..MaxFaults
  BY SystemAssumption DEF TypeOK, HostFails, Fault
<1>6. TypeOK'
  BY <1>4, <1>5 DEF TypeOK, HostFails
<1> QED  BY <1>2, <1>4, <1>6, NoHostType DEF HostFails

(* A failed host exits and an orphaned child ends.                          *)
LEMMA EndEffect ==
    ASSUME TypeOK, NEW e \in Executions, NEW k \in Attempts,
           HostFailureExits(e, k) \/ OrphanEnds(e, k)
    PROVE  /\ TypeOK' /\ OthersKept(e, k) /\ UNCHANGED <<rows, provider, doing>>
           /\ hosts[e][k].pc \in {"failing", "gone"} /\ hosts'[e][k].pc = "gone"
           /\ hosts'[e][k].child = "none" \/ hosts[e][k].child # "none"
           /\ hosts'[e][k].tail = <<>> \/ (hosts[e][k].pc = "gone" /\ hosts'[e][k].tail = hosts[e][k].tail)
           /\ hosts'[e][k].batch \subseteq hosts[e][k].batch
<1> DEFINE old == hosts[e][k]
           dead == Dead(old)
<1>1. old \in Host
  BY HostIsTyped
<1>2. /\ dead \in Host /\ dead.pc = "gone" /\ dead.child = old.child
      /\ dead.tail = <<>> /\ dead.batch = {}
  BY <1>1, DeadType
<1>3. CASE HostFailureExits(e, k)
  <2> DEFINE child == IF dead.child = "alive" THEN "dead" ELSE dead.child
             host == [dead EXCEPT !.child = child]
  <2>1. SetHost(e, k, host)
    BY <1>3 DEF HostFailureExits
  <2>2. child \in {"none", "alive", "dead"} /\ (child = "none" \/ old.child # "none")
    BY <1>1, <1>2 DEF Host, HostMemory
  <2> HIDE DEF child, dead
  <2>3. host \in Host /\ host.pc = "gone" /\ host.child = child /\ host.tail = <<>> /\ host.batch = {}
    BY <1>2, <2>2 DEF Host, HostMemory
  <2> HIDE DEF host
  <2>4. hosts' \in [Executions -> [Attempts -> Host]] /\ hosts'[e][k] = host /\ OthersKept(e, k)
    BY <2>1, <2>3, HostSet
  <2>5. TypeOK'
    BY <1>3, <2>4 DEF TypeOK, HostFailureExits
  <2>6. hosts'[e][k].batch \subseteq hosts[e][k].batch
    BY <2>3, <2>4
  <2>7. hosts[e][k].pc = "failing" /\ UNCHANGED <<rows, provider, doing>>
    BY <1>3 DEF HostFailureExits
  <2>8. /\ hosts'[e][k].pc = "gone" /\ hosts'[e][k].tail = <<>>
        /\ hosts'[e][k].child = "none" \/ hosts[e][k].child # "none"
    BY <2>2, <2>3, <2>4
  <2> QED  BY <2>4, <2>5, <2>6, <2>7, <2>8
<1>4. CASE OrphanEnds(e, k)
  <2> DEFINE host == [old EXCEPT !.child = "dead"]
  <2>1. SetHost(e, k, host) /\ old.child = "alive" /\ old.pc = "gone"
    BY <1>4 DEF OrphanEnds
  <2>2. host \in Host /\ host.pc = old.pc /\ host.tail = old.tail /\ host.batch = old.batch
    BY <1>1 DEF Host, HostMemory
  <2> HIDE DEF host
  <2>3. hosts' \in [Executions -> [Attempts -> Host]] /\ hosts'[e][k] = host /\ OthersKept(e, k)
    BY <2>1, <2>2, HostSet
  <2>4. TypeOK'
    BY <1>4, <2>3 DEF TypeOK, OrphanEnds
  <2> QED  BY <1>4, <2>1, <2>2, <2>3, <2>4 DEF OrphanEnds
<1> QED  BY <1>3, <1>4
-----------------------------------------------------------------------------
(* The inductive invariant.                                                 *)

Working == {"claimed", "serving", "finishing", "failing"}

(* A host works only on its own claim; what belongs to a host (its child,   *)
(* its chain, its claimed commands) exists only for the claimant.           *)
HostOwns(e, k) ==
    /\ hosts[e][k].pc \in Working => rows[e].state = "running"
    /\ hosts[e][k].pc \in Working => rows[e].pid = k
    /\ hosts[e][k].child # "none" => rows[e].pid = k
    /\ hosts[e][k].tail # <<>> => rows[e].pid = k
    /\ hosts[e][k].batch # {} => rows[e].pid = k
    /\ rows[e].pid = k => hosts[e][k].pc \notin {"absent", "booted"}
    /\ hosts[e][k].pc = "gone" => hosts[e][k].tail = <<>>
    /\ hosts[e][k].pc = "claimed" => provider[e].invoked = 0

(* No process is named before a claim, and no provider runs without one.    *)
RowOwns(e) ==
    /\ rows[e].state \in {"absent", "queued", "starting"} => rows[e].pid = None
    /\ rows[e].pid = None => provider[e].invoked = 0
    /\ provider[e].invoked <= 1

(* The web's lost-host check holds the claim it has read, and goes on only  *)
(* after it has seen the claimant gone.                                     *)
CheckOwns ==
    doing.step \in {"read", "marked"} =>
        /\ doing.exec \in Executions /\ doing.pid \in Attempts
        /\ rows[doing.exec].pid = doing.pid
        /\ doing.step = "marked" => hosts[doing.exec][doing.pid].pc = "gone"

Ownership ==
    /\ \A e \in Executions, k \in Attempts : HostOwns(e, k)
    /\ \A e \in Executions : RowOwns(e)
    /\ CheckOwns

(* A command in a host's hands is claimed and not yet written; one that has *)
(* been written stays claimed.                                              *)
CommandOwned(e, c) ==
    /\ provider[e].writes[c] # 0 => rows[e].commands[c].claimed = TRUE
    /\ rows[e].commands[c].claimed = TRUE => rows[e].commands[c].rowid # 0
    /\ rows[e].state = "absent" => rows[e].commands[c].claimed = FALSE
    /\ provider[e].writes[c] <= 1
    /\ \A k \in Attempts : c \in hosts[e][k].batch =>
           rows[e].commands[c].claimed = TRUE /\ provider[e].writes[c] = 0

Delivery == \A e \in Executions, c \in Commands : CommandOwned(e, c)

(* The invariant holds in the empty installation.                           *)
LEMMA InitHolds == Init => TypeOK /\ Ownership /\ Delivery
<1> SUFFICES ASSUME Init PROVE TypeOK /\ Ownership /\ Delivery
  OBVIOUS
<1>1. rows \in [Executions -> Row] /\ \A e \in Executions : rows[e] = NoRow
  BY NoRowType DEF Init
<1>2. /\ hosts \in [Executions -> [Attempts -> Host]]
      /\ \A e \in Executions, k \in Attempts : hosts[e][k] = NoHost
  BY NoHostType DEF Init
<1>3. /\ provider \in [Executions -> Provider]
      /\ \A e \in Executions : provider[e].invoked = 0 /\ \A c \in Commands : provider[e].writes[c] = 0
  <2> DEFINE p == [invoked |-> 0, emitted |-> 0, writes |-> [c \in Commands |-> 0], took |-> {}]
  <2>1. p \in Provider /\ p.invoked = 0 /\ \A c \in Commands : p.writes[c] = 0
    BY SystemAssumption DEF Provider
  <2>2. provider = [e \in Executions |-> p]
    BY DEF Init
  <2> HIDE DEF p
  <2> QED  BY <2>1, <2>2
<1>4. TypeOK
  <2>1. faults \in 0..MaxFaults
    BY SystemAssumption DEF Init
  <2>2. view \in [Tasks -> Executions \cup {None}] /\ launches \subseteq Executions
    BY DEF Init
  <2>3. webUp \in BOOLEAN /\ capacity \in Capacities
    BY DEF Init
  <2> QED  BY <1>1, <1>2, <1>3, <2>1, <2>2, <2>3, DoingType DEF Init, TypeOK
<1>5. /\ NoRow.state = "absent" /\ NoRow.pid = None
      /\ \A c \in Commands : NoRow.commands[c].claimed = FALSE
  BY DEF NoRow, NoCommand
<1>6. None \notin Attempts
  BY StoreAssumption DEF Attempts
<1>7. Ownership
  BY <1>1, <1>2, <1>3, <1>5, <1>6, NoHostType, DoingType
  DEF Init, Ownership, HostOwns, RowOwns, CheckOwns, Working
<1>8. Delivery
  BY <1>1, <1>2, <1>3, <1>5, NoHostType DEF Delivery, CommandOwned
<1> QED  BY <1>4, <1>7, <1>8

(* NULL is not a process.                                                   *)
LEMMA NoneIsNoProcess == None \notin Attempts
BY StoreAssumption DEF Attempts

(* A step that touches no host and names no other process.                  *)
LEMMA RowsOnly ==
    ASSUME TypeOK, TypeOK', Ownership, UNCHANGED <<hosts, provider>>,
           \A e \in Executions :
               /\ rows'[e].pid = rows[e].pid
               /\ \/ rows'[e].state = rows[e].state
                  \/ rows[e].state = "queued" /\ rows'[e].state = "starting"
                  \/ rows[e].state = "absent" /\ rows'[e].state = "queued"
           , CheckOwns'
    PROVE  Ownership'
<1>1. ASSUME NEW e \in Executions PROVE RowOwns(e)'
  BY DEF Ownership, RowOwns
<1>2. ASSUME NEW e \in Executions, NEW k \in Attempts PROVE HostOwns(e, k)'
  <2>1. HostOwns(e, k) /\ hosts' = hosts /\ provider' = provider /\ rows'[e].pid = rows[e].pid
    BY DEF Ownership
  <2>2. hosts[e][k].pc \in Working => rows'[e].state = "running"
    BY DEF Ownership, HostOwns
  <2> QED  BY <2>1, <2>2 DEF HostOwns
<1> QED  BY <1>1, <1>2 DEF Ownership

(* A step that keeps every claim and touches no host keeps the delivery.    *)
LEMMA DeliveryKept ==
    ASSUME TypeOK, Delivery, ClaimsKept,
           \A e \in Executions : provider'[e].writes = provider[e].writes,
           \A e \in Executions : rows'[e].state = "absent" => rows[e].state = "absent",
           \A e \in Executions, k \in Attempts : hosts'[e][k].batch \subseteq hosts[e][k].batch
    PROVE  Delivery'
<1> SUFFICES ASSUME NEW e \in Executions, NEW c \in Commands PROVE CommandOwned(e, c)'
  BY DEF Delivery
<1>1. CommandOwned(e, c) /\ ClaimKept(e, c) /\ provider'[e].writes = provider[e].writes
  BY DEF Delivery, ClaimsKept
<1> QED  BY <1>1 DEF CommandOwned, ClaimKept

Invariant == TypeOK /\ Ownership /\ Delivery

(* Every transaction of the web keeps the invariant.                        *)
LEMMA WebStep ==
    ASSUME Invariant, WebNext
    PROVE  Invariant'
<1> USE DEF Invariant
<1>1. ASSUME NEW e \in Executions, NEW args \in Args, OpenReserves(e, args)
      PROVE  Invariant'
  <2>1. /\ TypeOK' /\ UNCHANGED <<hosts, provider>> /\ doing'.step = "admitting"
        /\ rows[e].state = "absent" /\ rows'[e].state = "queued" /\ rows'[e].pid = None
        /\ rows'[e].commands = NoRow.commands
        /\ \A f \in Executions \ {e} : rows'[f] = rows[f]
    BY <1>1, OpenEffect
  <2>2. rows[e].pid = None
    BY <2>1 DEF Ownership, RowOwns
  <2>3. CheckOwns'
    BY <2>1 DEF CheckOwns
  <2>4. Ownership'
    BY <2>1, <2>2, <2>3, RowsOnly
  <2>5. \A c \in Commands : /\ rows'[e].commands[c].claimed = FALSE
                            /\ rows[e].commands[c].claimed = FALSE
    BY <2>1 DEF NoRow, NoCommand, Delivery, CommandOwned
  <2>6. ASSUME NEW f \in Executions, NEW c \in Commands PROVE CommandOwned(f, c)'
    <3>1. CommandOwned(f, c) /\ hosts' = hosts /\ provider' = provider
      BY <2>1 DEF Delivery
    <3>2. CASE f = e
      BY <2>1, <2>5, <3>1, <3>2 DEF CommandOwned
    <3>3. CASE f # e
      BY <2>1, <3>1, <3>3 DEF CommandOwned
    <3> QED  BY <3>2, <3>3
  <2> QED  BY <2>1, <2>4, <2>6 DEF Delivery
<1>2. ASSUME NEW e \in Executions, NEW args \in Args, OpenFindsReserved(e, args)
      PROVE  Invariant'
  <2>1. TypeOK' /\ doing'.step = "admitting" /\ UNCHANGED <<rows, hosts, provider>>
    BY <1>2, FoundEffect
  <2>2. CheckOwns'
    BY <2>1 DEF CheckOwns
  <2> QED  BY <2>1, <2>2 DEF Ownership, HostOwns, RowOwns, Delivery, CommandOwned
<1>3. ASSUME OpenAdmits \/ WebAdmits
      PROVE  Invariant'
  <2>1. TypeOK' /\ AdmitExecutions /\ doing'.step = "idle" /\ UNCHANGED <<hosts, provider>>
    BY <1>3, WebAdmitEffect
  <2>2. /\ ClaimsKept
        /\ \A e \in Executions : /\ rows'[e].pid = rows[e].pid
                                 /\ \/ rows'[e].state = rows[e].state
                                    \/ rows[e].state = "queued" /\ rows'[e].state = "starting"
    BY <2>1, AdmitEffect
  <2>3. CheckOwns'
    BY <2>1 DEF CheckOwns
  <2>4. Ownership'
    BY <2>1, <2>2, <2>3, RowsOnly
  <2>5. Delivery'
    BY <2>1, <2>2, DeliveryKept DEF CallsKept
  <2> QED  BY <2>1, <2>4, <2>5
<1>4. ASSUME NEW t \in Tasks, ReconcileReads(t)
      PROVE  Invariant'
  <2>1. /\ TypeOK' /\ UNCHANGED <<rows, hosts, provider>>
        /\ doing'.step = "read" /\ doing'.exec \in Executions /\ doing'.pid \in Attempts
        /\ rows[doing'.exec].pid = doing'.pid
    BY <1>4, ReadsEffect
  <2>2. CheckOwns'
    BY <2>1 DEF CheckOwns
  <2> QED  BY <2>1, <2>2 DEF Ownership, HostOwns, RowOwns, Delivery, CommandOwned
<1>5. ASSUME ReconcileProbes
      PROVE  Invariant'
  <2>1. /\ doing.exec \in Executions /\ doing.pid \in Attempts
        /\ rows[doing.exec].pid = doing.pid
    BY <1>5 DEF ReconcileProbes, Ownership, CheckOwns
  <2>2. /\ TypeOK' /\ RowsKept /\ ClaimsKept /\ UNCHANGED <<hosts, provider>>
        /\ \/ doing'.step = "idle"
           \/ /\ doing'.step = "marked" /\ doing'.exec = doing.exec /\ doing'.pid = doing.pid
              /\ ~ProcessAlive(doing.exec, doing.pid)
    BY <1>5, <2>1, ProbesEffect
  <2>3. hosts[doing.exec][doing.pid].pc # "absent"
    BY <2>1 DEF Ownership, HostOwns
  <2>4. CheckOwns'
    BY <2>1, <2>2, <2>3 DEF CheckOwns, ProcessAlive, RowsKept, RowKept
  <2>5. Ownership'
    BY <2>2, <2>4, RowsOnly DEF RowsKept, RowKept
  <2>6. Delivery'
    BY <2>2, DeliveryKept DEF CallsKept, RowsKept, RowKept
  <2> QED  BY <2>2, <2>5, <2>6
<1>6. ASSUME ReconcileMarksLost
      PROVE  Invariant'
  <2> DEFINE e == doing.exec
  <2>1. /\ e \in Executions /\ doing.pid \in Attempts
        /\ rows[e].pid = doing.pid /\ hosts[e][doing.pid].pc = "gone"
    BY <1>6 DEF ReconcileMarksLost, Ownership, CheckOwns
  <2>2. /\ TypeOK' /\ ClaimsKept /\ UNCHANGED <<hosts, provider>> /\ doing'.step = "idle"
        /\ rows'[e].state \in Ended /\ rows'[e].pid = rows[e].pid
        /\ \A f \in Executions \ {e} : rows'[f] = rows[f]
    BY <1>6, <2>1, MarksLostEffect
  <2>3. CheckOwns'
    BY <2>2 DEF CheckOwns
  <2>4. ASSUME NEW f \in Executions PROVE RowOwns(f)'
    BY <2>2 DEF Ownership, RowOwns, Ended
  <2>5. ASSUME NEW f \in Executions, NEW k \in Attempts PROVE HostOwns(f, k)'
    <3>1. HostOwns(f, k) /\ hosts' = hosts /\ provider' = provider /\ rows'[f].pid = rows[f].pid
      BY <2>2 DEF Ownership
    <3>2. hosts[f][k].pc \in Working => rows'[f].state = "running"
      BY <2>1, <2>2, <3>1 DEF HostOwns, Working
    <3> QED  BY <3>1, <3>2 DEF HostOwns
  <2>6. Delivery'
    BY <2>2, DeliveryKept DEF CallsKept, Ended
  <2> QED  BY <2>2, <2>3, <2>4, <2>5, <2>6 DEF Ownership
<1>7. ASSUME NEW t \in Tasks, HandleCompletes(t)
      PROVE  Invariant'
  BY <1>7, CompletesEffect DEF Ownership, HostOwns, RowOwns, CheckOwns, Delivery, CommandOwned
<1>8. ASSUME NEW t \in Tasks, NEW c \in Commands, NEW body \in Bodies, WebCommands(t, c, body)
      PROVE  Invariant'
  <2>1. /\ TypeOK' /\ RowsKept /\ UNCHANGED <<hosts, provider, doing>>
        /\ \A e \in Executions, d \in Commands :
              \/ ClaimKept(e, d)
              \/ rows[e].commands[d].rowid = 0 /\ rows'[e].commands[d].claimed = FALSE
    BY <1>8, CommandsEffect
  <2>2. CheckOwns'
    BY <2>1 DEF Ownership, CheckOwns, RowsKept, RowKept
  <2>3. Ownership'
    BY <2>1, <2>2, RowsOnly DEF RowsKept, RowKept
  <2>4. ASSUME NEW e \in Executions, NEW d \in Commands PROVE CommandOwned(e, d)'
    <3>1. CommandOwned(e, d) /\ hosts' = hosts /\ provider' = provider /\ RowKept(e)
      BY <2>1 DEF Delivery, RowsKept
    <3>2. CASE ClaimKept(e, d)
      BY <3>1, <3>2 DEF CommandOwned, ClaimKept, RowKept
    <3>3. CASE rows[e].commands[d].rowid = 0 /\ rows'[e].commands[d].claimed = FALSE
      <4>1. rows[e].commands[d].claimed # TRUE
        BY <3>1, <3>3 DEF CommandOwned
      <4>2. provider[e].writes[d] = 0 /\ \A k \in Attempts : d \notin hosts[e][k].batch
        BY <3>1, <4>1 DEF CommandOwned
      <4> QED  BY <3>1, <3>3, <4>2 DEF CommandOwned
    <3> QED  BY <2>1, <3>2, <3>3
  <2> QED  BY <2>1, <2>3, <2>4 DEF Delivery
<1>9. ASSUME NEW t \in Tasks, WebCancelsBeforeStart(t)
      PROVE  Invariant'
  <2> DEFINE e == view[t]
  <2>1. /\ TypeOK' /\ ClaimsKept /\ UNCHANGED <<hosts, provider, doing>>
        /\ e \in Executions
        /\ rows[e].state \in {"queued", "starting"} /\ rows[e].pid = None
        /\ rows'[e].state \in Ended /\ rows'[e].pid = None
        /\ \A f \in Executions \ {e} : rows'[f] = rows[f]
    BY <1>9, CancelEffect
  <2> HIDE DEF e
  <2>2. CheckOwns'
    BY <2>1 DEF Ownership, CheckOwns
  <2>3. ASSUME NEW f \in Executions PROVE RowOwns(f)'
    BY <2>1 DEF Ownership, RowOwns, Ended
  <2>4. ASSUME NEW f \in Executions, NEW k \in Attempts PROVE HostOwns(f, k)'
    <3>1. HostOwns(f, k) /\ hosts' = hosts /\ provider' = provider /\ rows'[f].pid = rows[f].pid
      BY <2>1 DEF Ownership
    <3>2. hosts[f][k].pc \in Working => rows'[f].state = "running"
      BY <2>1, <3>1 DEF HostOwns
    <3> QED  BY <3>1, <3>2 DEF HostOwns
  <2>5. Delivery'
    BY <2>1, DeliveryKept DEF CallsKept, Ended
  <2> QED  BY <2>1, <2>2, <2>3, <2>4, <2>5 DEF Ownership
<1>10. ASSUME WebCrashes \/ WebStarts
       PROVE  Invariant'
  <2>1. /\ TypeOK' /\ UNCHANGED <<rows, hosts, provider>>
        /\ doing'.step = "idle" \/ UNCHANGED doing
    BY <1>10, CrashAndStartEffect
  <2>2. CheckOwns'
    BY <2>1 DEF Ownership, CheckOwns
  <2> QED  BY <2>1, <2>2 DEF Ownership, HostOwns, RowOwns, Delivery, CommandOwned
<1> QED  BY <1>1, <1>2, <1>3, <1>4, <1>5, <1>6, <1>7, <1>8, <1>9, <1>10 DEF WebNext

(* A step of host k of e: nothing else moves, and the row keeps its claim.  *)
LEMMA HostOnly ==
    ASSUME TypeOK, TypeOK', Ownership, NEW e \in Executions, NEW k \in Attempts,
           OthersKept(e, k), UNCHANGED doing,
           \A f \in Executions : provider'[f].invoked = provider[f].invoked,
           \A f \in Executions :
               /\ rows'[f].pid = rows[f].pid
               /\ \/ rows'[f].state = rows[f].state
                  \/ rows[f].state = "queued" /\ rows'[f].state = "starting",
           hosts[e][k].pc = "gone" => hosts'[e][k].pc = "gone",
           HostOwns(e, k)'
    PROVE  Ownership'
<1>1. ASSUME NEW f \in Executions PROVE RowOwns(f)'
  BY DEF Ownership, RowOwns
<1>2. ASSUME NEW f \in Executions, NEW j \in Attempts PROVE HostOwns(f, j)'
  <2>1. CASE f # e \/ j # k
    <3>1. /\ HostOwns(f, j) /\ hosts'[f][j] = hosts[f][j] /\ rows'[f].pid = rows[f].pid
          /\ provider'[f].invoked = provider[f].invoked
      BY <2>1 DEF Ownership, OthersKept
    <3>2. hosts[f][j].pc \in Working => rows'[f].state = "running"
      BY <3>1 DEF HostOwns
    <3> QED  BY <3>1, <3>2 DEF HostOwns
  <2> QED  BY <2>1
<1>3. CheckOwns'
  BY DEF Ownership, CheckOwns, OthersKept
<1> QED  BY <1>1, <1>2, <1>3 DEF Ownership

(* A host that shows a sign of work holds the claim, and no other host of   *)
(* the execution has any.                                                   *)
LEMMA SoleClaimant ==
    ASSUME TypeOK, Ownership, NEW e \in Executions, NEW k \in Attempts, rows[e].pid = k
    PROVE  \A j \in Attempts \ {k} : /\ hosts[e][j].pc \notin Working
                                     /\ hosts[e][j].child = "none"
                                     /\ hosts[e][j].tail = <<>>
                                     /\ hosts[e][j].batch = {}
BY DEF Ownership, HostOwns

(* Every step of a host, of its launcher and of its provider keeps the      *)
(* invariant.                                                               *)
LEMMA HostStep ==
    ASSUME Invariant, NEW e \in Executions, NEW k \in Attempts, HostNext(e, k)
    PROVE  Invariant'
<1> USE DEF Invariant
<1>0. HostOwns(e, k) /\ RowOwns(e)
  BY DEF Ownership
<1>1. CASE LaunchArrives(e, k)
  <2>1. /\ TypeOK' /\ OthersKept(e, k) /\ UNCHANGED <<rows, provider, doing>>
        /\ hosts[e][k].pc = "absent" /\ hosts'[e][k].pc = "booted"
        /\ hosts'[e][k].child = "none" /\ hosts'[e][k].tail = <<>> /\ hosts'[e][k].batch = {}
    BY <1>1, LaunchEffect
  <2>2. HostOwns(e, k)'
    BY <1>0, <2>1 DEF HostOwns, Working
  <2>3. Ownership'
    BY <2>1, <2>2, HostOnly
  <2>4. Delivery'
    BY <2>1, DeliveryKept DEF CallsKept, ClaimsKept, ClaimKept, OthersKept
  <2> QED  BY <2>1, <2>3, <2>4
<1>2. CASE HostClaims(e, k)
  <2>1. /\ TypeOK' /\ ClaimsKept /\ OthersKept(e, k) /\ UNCHANGED <<provider, doing>>
        /\ rows[e].state = "starting" /\ rows[e].pid = None
        /\ rows'[e].state = "running" /\ rows'[e].pid = k
        /\ \A f \in Executions \ {e} : rows'[f] = rows[f]
        /\ hosts'[e][k].pc = "claimed" /\ hosts'[e][k].child = hosts[e][k].child
        /\ hosts'[e][k].tail = hosts[e][k].tail /\ hosts'[e][k].batch = hosts[e][k].batch
    BY <1>2, ClaimEffect
  <2>2. hosts[e][k].pc = "booted"
    BY <1>2 DEF HostClaims
  <2>3. ASSUME NEW f \in Executions PROVE RowOwns(f)'
    BY <2>1, NoneIsNoProcess DEF Ownership, RowOwns
  <2>4. ASSUME NEW f \in Executions, NEW j \in Attempts PROVE HostOwns(f, j)'
    <3>1. HostOwns(f, j) /\ RowOwns(f)
      BY DEF Ownership
    <3>2. CASE f = e /\ j = k
      BY <2>1, <3>1, <3>2 DEF HostOwns, RowOwns
    <3>3. CASE f = e /\ j # k
      BY <2>1, <3>1, <3>3, NoneIsNoProcess DEF HostOwns, OthersKept
    <3>4. CASE f # e
      BY <2>1, <3>1, <3>4 DEF HostOwns, OthersKept
    <3> QED  BY <3>2, <3>3, <3>4
  <2>5. CheckOwns'
    BY <2>1, <2>2, NoneIsNoProcess DEF Ownership, CheckOwns, OthersKept
  <2>6. Delivery'
    BY <2>1, DeliveryKept DEF CallsKept, OthersKept
  <2> QED  BY <2>1, <2>3, <2>4, <2>5, <2>6 DEF Ownership
<1>3. CASE HostClaimRefused(e, k) \/ HostCloses(e, k) \/ HostCrashes(e, k)
  <2>1. /\ TypeOK' /\ ClaimsKept /\ OthersKept(e, k) /\ UNCHANGED <<provider, doing>>
        /\ \A f \in Executions : /\ rows'[f].pid = rows[f].pid
                                 /\ \/ rows'[f].state = rows[f].state
                                    \/ rows[f].state = "queued" /\ rows'[f].state = "starting"
        /\ hosts[e][k].pc # "absent"
        /\ hosts'[e][k].pc = "gone" /\ hosts'[e][k].child = hosts[e][k].child
        /\ hosts'[e][k].tail = <<>> /\ hosts'[e][k].batch = {}
    BY <1>3, DeathEffect
  <2>2. HostOwns(e, k)'
    BY <1>0, <2>1 DEF HostOwns, Working
  <2>3. Ownership'
    BY <2>1, <2>2, HostOnly
  <2>4. Delivery'
    BY <2>1, DeliveryKept DEF CallsKept, OthersKept
  <2> QED  BY <2>1, <2>3, <2>4
<1>4. CASE HostInvokes(e, k)
  <2>1. /\ TypeOK' /\ OthersKept(e, k) /\ UNCHANGED <<rows, doing>>
        /\ hosts[e][k].pc = "claimed" /\ hosts'[e][k].pc = "serving"
        /\ hosts'[e][k].batch = hosts[e][k].batch
        /\ provider'[e].invoked = provider[e].invoked + 1
        /\ provider'[e].writes = provider[e].writes
        /\ \A f \in Executions \ {e} : provider'[f] = provider[f]
    BY <1>4, InvokeEffect
  <2>2. /\ rows[e].state = "running" /\ rows[e].pid = k
        /\ provider[e].invoked = 0 /\ provider'[e].invoked = 1
    BY <1>0, <2>1 DEF HostOwns, Working
  <2>3. ASSUME NEW f \in Executions PROVE RowOwns(f)'
    BY <2>1, <2>2, NoneIsNoProcess DEF Ownership, RowOwns
  <2>4. ASSUME NEW f \in Executions, NEW j \in Attempts PROVE HostOwns(f, j)'
    <3>1. HostOwns(f, j)
      BY DEF Ownership
    <3>2. CASE f = e /\ j = k
      BY <2>1, <2>2, <3>2 DEF HostOwns
    <3>3. CASE f = e /\ j # k
      BY <2>1, <2>2, <3>1, <3>3, SoleClaimant DEF HostOwns, OthersKept, Working
    <3>4. CASE f # e
      BY <2>1, <3>1, <3>4 DEF HostOwns, OthersKept
    <3> QED  BY <3>2, <3>3, <3>4
  <2>5. CheckOwns'
    BY <2>1 DEF Ownership, CheckOwns, OthersKept
  <2>6. Delivery'
    BY <2>1, DeliveryKept DEF CallsKept, ClaimsKept, ClaimKept, OthersKept
  <2> QED  BY <2>1, <2>3, <2>4, <2>5, <2>6 DEF Ownership
<1>5. CASE Works(e, k)
  <2>1. /\ TypeOK' /\ OthersKept(e, k) /\ UNCHANGED <<rows, doing>> /\ CallsKept
        /\ hosts[e][k].pc \in {"claimed", "serving"}
        /\ hosts'[e][k].pc \in {"serving", "finishing"}
        /\ hosts'[e][k].child = "none" \/ hosts[e][k].child # "none"
        /\ hosts'[e][k].batch = hosts[e][k].batch
    BY <1>5, WorkEffect
  <2>2. HostOwns(e, k)'
    BY <1>0, <2>1 DEF HostOwns, Working
  <2>3. Ownership'
    BY <2>1, <2>2, HostOnly DEF CallsKept
  <2>4. Delivery'
    BY <2>1, DeliveryKept DEF CallsKept, ClaimsKept, ClaimKept, OthersKept
  <2> QED  BY <2>1, <2>3, <2>4
<1>6. ASSUME NEW c \in Commands, NEW took \in BOOLEAN, HostWrites(e, k, c, took)
      PROVE  Invariant'
  <2>1. /\ TypeOK' /\ OthersKept(e, k) /\ UNCHANGED <<rows, doing>>
        /\ hosts[e][k].pc = "serving" /\ hosts'[e][k].pc = "serving"
        /\ hosts'[e][k].child = hosts[e][k].child
        /\ c \in hosts[e][k].batch /\ hosts'[e][k].batch = hosts[e][k].batch \ {c}
        /\ \A f \in Executions : provider'[f].invoked = provider[f].invoked
        /\ provider'[e].writes = [provider[e].writes EXCEPT ![c] = provider[e].writes[c] + 1]
        /\ \A f \in Executions \ {e} : provider'[f] = provider[f]
    BY <1>6, WriteEffect
  <2>2. HostOwns(e, k)'
    BY <1>0, <2>1 DEF HostOwns, Working
  <2>3. Ownership'
    BY <2>1, <2>2, HostOnly
  <2>4. rows[e].pid = k /\ rows[e].commands[c].claimed = TRUE /\ provider[e].writes[c] = 0
    BY <1>0, <2>1 DEF HostOwns, Working, Delivery, CommandOwned
  <2>5. provider[e].writes \in [Commands -> Nat]
    BY DEF TypeOK, Provider
  <2>6. ASSUME NEW f \in Executions, NEW d \in Commands PROVE CommandOwned(f, d)'
    <3>1. CommandOwned(f, d) /\ rows' = rows
      BY <2>1 DEF Delivery
    <3>2. CASE f = e /\ d = c
      <4>1. provider'[e].writes[c] = 1
        BY <2>1, <2>4, <2>5
      <4>2. \A j \in Attempts : c \notin hosts'[e][j].batch
        BY <2>1, <2>4, SoleClaimant DEF OthersKept
      <4> QED  BY <2>4, <3>1, <3>2, <4>1, <4>2 DEF CommandOwned
    <3>3. CASE f = e /\ d # c
      <4>1. provider'[e].writes[d] = provider[e].writes[d]
        BY <2>1, <2>5, <3>3
      <4>2. \A j \in Attempts : hosts'[e][j].batch \subseteq hosts[e][j].batch
        BY <2>1 DEF OthersKept
      <4> QED  BY <3>1, <3>3, <4>1, <4>2 DEF CommandOwned
    <3>4. CASE f # e
      BY <2>1, <3>1, <3>4 DEF CommandOwned, OthersKept
    <3> QED  BY <3>2, <3>3, <3>4
  <2> QED  BY <2>1, <2>3, <2>6 DEF Delivery
<1>7. CASE Commits(e, k)
  <2>1. /\ TypeOK' /\ RowsKept /\ ClaimsKept /\ OthersKept(e, k) /\ UNCHANGED <<provider, doing>>
        /\ hosts[e][k].tail # <<>>
        /\ hosts'[e][k].pc = hosts[e][k].pc
        /\ hosts'[e][k].child = hosts[e][k].child
        /\ hosts'[e][k].batch = hosts[e][k].batch
    BY <1>7, CommitEffect
  <2>2. HostOwns(e, k)'
    BY <1>0, <2>1 DEF HostOwns, RowsKept, RowKept
  <2>3. Ownership'
    BY <2>1, <2>2, HostOnly DEF RowsKept, RowKept
  <2>4. Delivery'
    BY <2>1, DeliveryKept DEF CallsKept, RowsKept, RowKept, OthersKept
  <2> QED  BY <2>1, <2>3, <2>4
<1>8. CASE PersistPending(e, k)
  <2> DEFINE taken == PendingCommands(rows[e])
  <2>1. /\ TypeOK' /\ RowsKept /\ OthersKept(e, k) /\ UNCHANGED <<provider, doing>>
        /\ hosts[e][k].tail # <<>>
        /\ hosts'[e][k].pc = hosts[e][k].pc /\ hosts'[e][k].child = hosts[e][k].child
        /\ hosts'[e][k].batch = taken
        /\ \A f \in Executions, c \in Commands : rows'[f].commands[c].rowid = rows[f].commands[c].rowid
        /\ \A c \in Commands : /\ c \in taken => rows'[e].commands[c].claimed = TRUE
                               /\ c \notin taken => ClaimKept(e, c)
        /\ \A f \in Executions \ {e} : rows'[f] = rows[f]
    BY <1>8, PendingEffect
  <2>2. HostOwns(e, k)' /\ rows[e].pid = k
    BY <1>0, <2>1 DEF HostOwns, RowsKept, RowKept
  <2>3. Ownership'
    BY <2>1, <2>2, HostOnly DEF RowsKept, RowKept
  <2>4. \A c \in taken : /\ rows[e].commands[c].claimed = FALSE /\ rows[e].commands[c].rowid # 0
                         /\ rows[e].state # "absent"
    <3>1. rows[e].state # "absent" /\ rows[e] \in Row
      BY <1>0, <2>2, NoneIsNoProcess DEF RowOwns, TypeOK
    <3>2. ASSUME NEW c \in taken
          PROVE  rows[e].commands[c].claimed = FALSE /\ rows[e].commands[c].rowid # 0
      <4>1. /\ c \in Commands /\ rows[e].commands[c].result = "accepted"
            /\ ~rows[e].commands[c].claimed
        BY DEF PendingCommands
      <4>2. rows[e].commands[c] \in Inserted
        BY <3>1, <4>1 DEF Row, CommandRow, NoCommand
      <4> QED  BY <4>1, <4>2 DEF Inserted
    <3> QED  BY <3>1, <3>2
  <2>5. ASSUME NEW f \in Executions, NEW c \in Commands PROVE CommandOwned(f, c)'
    <3>1. CommandOwned(f, c) /\ provider' = provider /\ RowKept(f)
      BY <2>1 DEF Delivery, RowsKept
    <3>2. CASE f = e /\ c \in taken
      <4>1. provider[e].writes[c] = 0
        BY <2>4, <3>1, <3>2 DEF CommandOwned
      <4> QED  BY <2>1, <2>4, <3>1, <3>2, <4>1 DEF CommandOwned, RowKept
    <3>3. CASE f = e /\ c \notin taken
      <4>1. \A j \in Attempts : hosts'[e][j].batch \subseteq hosts[e][j].batch \cup taken
        BY <2>1 DEF OthersKept
      <4> QED  BY <2>1, <3>1, <3>3, <4>1 DEF CommandOwned, ClaimKept, RowKept
    <3>4. CASE f # e
      BY <2>1, <3>1, <3>4 DEF CommandOwned, OthersKept
    <3> QED  BY <3>2, <3>3, <3>4
  <2> QED  BY <2>1, <2>3, <2>5 DEF Delivery
<1>9. CASE PersistFinish(e, k)
  <2>1. /\ TypeOK' /\ ClaimsKept /\ OthersKept(e, k) /\ UNCHANGED <<provider, doing>>
        /\ hosts[e][k].tail # <<>>
        /\ hosts'[e][k].pc = "closing" /\ hosts'[e][k].child = hosts[e][k].child
        /\ hosts'[e][k].batch = hosts[e][k].batch
        /\ rows'[e].state \in Ended /\ rows'[e].pid = rows[e].pid
        /\ \A f \in Executions \ {e} : rows'[f] = rows[f]
    BY <1>9, FinishEffect
  <2>2. rows[e].pid = k /\ hosts[e][k].pc # "gone"
    BY <1>0, <2>1 DEF HostOwns
  <2>3. ASSUME NEW f \in Executions PROVE RowOwns(f)'
    BY <2>1 DEF Ownership, RowOwns, Ended
  <2>4. ASSUME NEW f \in Executions, NEW j \in Attempts PROVE HostOwns(f, j)'
    <3>1. HostOwns(f, j)
      BY DEF Ownership
    <3>2. CASE f = e /\ j = k
      BY <2>1, <2>2, <3>1, <3>2 DEF HostOwns, Working
    <3>3. CASE f = e /\ j # k
      BY <2>1, <2>2, <3>1, <3>3, SoleClaimant DEF HostOwns, OthersKept
    <3>4. CASE f # e
      BY <2>1, <3>1, <3>4 DEF HostOwns, OthersKept
    <3> QED  BY <3>2, <3>3, <3>4
  <2>5. CheckOwns'
    BY <2>1, <2>2 DEF Ownership, CheckOwns, OthersKept
  <2>6. Delivery'
    BY <2>1, DeliveryKept DEF CallsKept, OthersKept, Ended
  <2> QED  BY <2>1, <2>3, <2>4, <2>5, <2>6 DEF Ownership
<1>10. CASE HostFails(e, k)
  <2>1. /\ TypeOK' /\ OthersKept(e, k) /\ UNCHANGED <<rows, provider, doing>>
        /\ hosts[e][k].pc \in {"serving", "finishing"} /\ hosts'[e][k].pc = "failing"
        /\ hosts'[e][k].child = hosts[e][k].child
        /\ hosts'[e][k].tail = <<>> /\ hosts'[e][k].batch = {}
    BY <1>10, FailEffect
  <2>2. HostOwns(e, k)'
    BY <1>0, <2>1 DEF HostOwns, Working
  <2>3. Ownership'
    BY <2>1, <2>2, HostOnly
  <2>4. Delivery'
    BY <2>1, DeliveryKept DEF CallsKept, ClaimsKept, ClaimKept, OthersKept
  <2> QED  BY <2>1, <2>3, <2>4
<1>11. CASE HostFailureExits(e, k) \/ OrphanEnds(e, k)
  <2>1. /\ TypeOK' /\ OthersKept(e, k) /\ UNCHANGED <<rows, provider, doing>>
        /\ hosts[e][k].pc \in {"failing", "gone"} /\ hosts'[e][k].pc = "gone"
        /\ hosts'[e][k].child = "none" \/ hosts[e][k].child # "none"
        /\ hosts'[e][k].tail = <<>> \/ (hosts[e][k].pc = "gone" /\ hosts'[e][k].tail = hosts[e][k].tail)
        /\ hosts'[e][k].batch \subseteq hosts[e][k].batch
    BY <1>11, EndEffect
  <2>2. HostOwns(e, k)'
    BY <1>0, <2>1 DEF HostOwns, Working
  <2>3. Ownership'
    BY <2>1, <2>2, HostOnly
  <2>4. \A f \in Executions, j \in Attempts : hosts'[f][j].batch \subseteq hosts[f][j].batch
    BY <2>1 DEF OthersKept
  <2>5. Delivery'
    BY <2>1, <2>4, DeliveryKept DEF CallsKept, ClaimsKept, ClaimKept
  <2> QED  BY <2>1, <2>3, <2>5
<1> QED  BY <1>1, <1>2, <1>3, <1>4, <1>5, <1>6, <1>7, <1>8, <1>9, <1>10, <1>11
         DEF HostNext, Works, Commits, Persists

(* No step of the system leaves the invariant.                              *)
LEMMA InvariantStep == Invariant /\ [Next]_vars => Invariant'
<1> SUFFICES ASSUME Invariant, [Next]_vars PROVE Invariant'
  OBVIOUS
<1>1. CASE WebNext
  BY <1>1, WebStep
<1>2. ASSUME NEW e \in Executions, LaunchIsLost(e) PROVE Invariant'
  <2>1. TypeOK' /\ UNCHANGED <<rows, hosts, provider, doing>>
    BY <1>2, LaunchLostEffect DEF Invariant
  <2> QED  BY <2>1 DEF Invariant, Ownership, HostOwns, RowOwns, CheckOwns, Delivery, CommandOwned
<1>3. ASSUME NEW e \in Executions, NEW k \in Attempts, HostNext(e, k) PROVE Invariant'
  BY <1>3, HostStep
<1>4. CASE UNCHANGED vars
  BY <1>4 DEF vars, Invariant, TypeOK, Ownership, HostOwns, RowOwns, CheckOwns, Delivery, CommandOwned
<1> QED  BY <1>1, <1>2, <1>3, <1>4 DEF Next

(* The types that a step of a host starts from and ends in.                 *)
LEMMA StepTypes ==
    ASSUME Invariant, [Next]_vars
    PROVE  /\ Invariant' /\ TypeOK /\ TypeOK'
           /\ \A e \in Executions :
                 /\ rows[e] \in Row /\ rows'[e] \in Row
                 /\ provider[e] \in Provider /\ provider'[e] \in Provider
                 /\ \A k \in Attempts : hosts[e][k] \in Host /\ hosts'[e][k] \in Host
<1>1. Invariant' /\ TypeOK /\ TypeOK'
  BY InvariantStep DEF Invariant
<1>2. /\ rows \in [Executions -> Row] /\ rows' \in [Executions -> Row]
      /\ provider \in [Executions -> Provider] /\ provider' \in [Executions -> Provider]
      /\ hosts \in [Executions -> [Attempts -> Host]] /\ hosts' \in [Executions -> [Attempts -> Host]]
  BY <1>1 DEF TypeOK
<1> QED  BY <1>1, <1>2

(* The inductive invariant holds for all sizes of the installation.         *)
THEOREM InvariantHolds == Spec => []Invariant
<1>1. Init => Invariant
  BY InitHolds DEF Invariant
<1> QED  BY <1>1, InvariantStep, PTL DEF Spec

(* Every state of every installation is well-formed (ExecutionStore and its *)
(* clients).                                                                *)
THEOREM TypeCorrect == Spec => []TypeOK
<1>1. Invariant => TypeOK
  BY DEF Invariant
<1> QED  BY <1>1, InvariantHolds, PTL

(* No execution ever has its provider invoked twice, and only the process   *)
(* whose claim is in the row invokes it (execution-host.ts, claim before    *)
(* runner.start), for any number of executions, launches and faults.        *)
THEOREM InvokedOnce == Spec => []InvokedOnceByClaimant
<1>1. Invariant => InvokedOnceByClaimant
  BY DEF Invariant, Ownership, HostOwns, RowOwns, InvokedOnceByClaimant
<1> QED  BY <1>1, InvariantHolds, PTL

(* Every host that may still use its provider or write its journal holds a  *)
(* running row under its own process identity (claim, finish,               *)
(* cancelBeforeStart and the web's lost-host check together).               *)
THEOREM ActiveHostOwns == Spec => []ActiveHostIsOwner
<1>1. Invariant => ActiveHostIsOwner
  BY DEF Invariant, Ownership, HostOwns, Working, ActiveHostIsOwner
<1> QED  BY <1>1, InvariantHolds, PTL

(* No command is written to a provider twice, whatever is repeated, lost or *)
(* restarted (enqueue, pending and drainExecutionCommands together).        *)
THEOREM NeverWrittenTwice == Spec => []WrittenOnce
<1>1. Invariant => WrittenOnce
  BY DEF Invariant, Delivery, CommandOwned, WrittenOnce
<1> QED  BY <1>1, InvariantHolds, PTL
=============================================================================
