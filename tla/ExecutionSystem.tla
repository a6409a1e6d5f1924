-------------------------- MODULE ExecutionSystem --------------------------
(***************************************************************************)
(* Everything that works on the execution registry at the same time: the    *)
(* replaceable web process (ExecutionBackend and its handles), the launch   *)
(* requests it and finishing hosts send, and one execution host process per *)
(* launch that arrives, with the provider child it starts.                  *)
(*                                                                         *)
(* The web runs one JavaScript thread, but every store call is a            *)
(* transaction of its own and host processes commit between two of them; a  *)
(* crash can fall between any two.  A host serialises its own store calls   *)
(* in the promise chain of ExecutionPersistence (tail); what the provider   *)
(* emits and what a command writes happen outside that chain.               *)
(*                                                                         *)
(* Launching is external to the server (palmagentd or a systemd helper): a  *)
(* request may be lost, be late, or start one more process for the same     *)
(* execution.  Nothing below relies on the launcher to start only one.      *)
(***************************************************************************)
EXTENDS ExecutionStore

CONSTANTS
    Capacities,      \* concurrency limits an installation may configure
    MaxOutput,       \* bound on the events one provider emits before it exits
    MaxFaults        \* bound on process deaths, storage failures and lost launches

ASSUME SystemAssumption ==
    /\ Capacities \subseteq Nat \ {0}
    /\ MaxOutput \in Nat
    /\ MaxFaults \in Nat

VARIABLES
    hosts,      \* hosts[e][k]: process of the k-th launch of execution e
    provider,   \* what the provider of e has seen of us
    launches,   \* executions with a launch request under way
    webUp,      \* is a web process running
    view,       \* view[t]: the execution task t's open handle watches
    doing,      \* the web call that has committed some but not all of its transactions
    faults      \* faults so far

vars == <<rows, capacity, hosts, provider, launches, webUp, view, doing, faults>>

-----------------------------------------------------------------------------
Emitted == [kind : EventKinds, request : Requests \cup {None}, session : Sessions \cup {None}]

Op == [op : {"event"}, event : Emitted]
      \cup [op : {"pending"}]
      \cup [op : {"settle"}, command : Commands, result : Receipts]
      \cup [op : {"finish"}, lost : BOOLEAN]

(* pc: the phases of bootstrap/execution-host.ts.  "serving" is the only    *)
(* phase in which `stopping` is false and a handle exists.  step, command   *)
(* and batch are the locals of drainExecutionCommands.                      *)
Phases == {"absent", "booted", "claimed", "serving", "finishing", "closing", "failing", "gone"}
HostMemory == [pc : Phases, child : {"none", "alive", "dead"},
               session : Sessions \cup {None}, mismatch : BOOLEAN, tail : Seq(Op),
               step : {"idle", "claiming", "writing", "settling"},
               command : Commands \cup {None}, batch : SUBSET Commands]
Host == {host \in HostMemory : host.step = "writing" => host.command \in Commands}

NoHost == [pc |-> "absent", child |-> "none", session |-> None, mismatch |-> FALSE,
           tail |-> <<>>, step |-> "idle", command |-> None, batch |-> {}]

(* Process death: the memory is gone, the child is not.                     *)
Dead(host) == [NoHost EXCEPT !.pc = "gone", !.child = host.child]

Provider == [invoked : Nat, emitted : 0..MaxOutput, writes : [Commands -> Nat], took : SUBSET Commands]

TypeOK ==
    /\ rows \in [Executions -> Row]
    /\ capacity \in Capacities
    /\ hosts \in [Executions -> [Attempts -> Host]]
    /\ provider \in [Executions -> Provider]
    /\ launches \subseteq Executions
    /\ webUp \in BOOLEAN
    /\ view \in [Tasks -> Executions \cup {None}]
    /\ doing \in [exec : Executions \cup {None}, pid : Attempts \cup {None},
                  step : {"idle", "admitting", "read", "marked"}]
    /\ faults \in 0..MaxFaults

NoCall == [exec |-> None, pid |-> None, step |-> "idle"]

Init ==
    /\ rows = [e \in Executions |-> NoRow]
    /\ capacity \in Capacities
    /\ hosts = [e \in Executions |-> [k \in Attempts |-> NoHost]]
    /\ provider = [e \in Executions |-> [invoked |-> 0, emitted |-> 0,
                     writes |-> [c \in Commands |-> 0], took |-> {}]]
    /\ launches = {}
    /\ webUp = TRUE
    /\ view = [t \in Tasks |-> None]
    /\ doing = NoCall
    /\ faults = 0

-----------------------------------------------------------------------------
Fault == faults < MaxFaults /\ faults' = faults + 1

(* admitExecutions: admit, then request a launch of every reservation that  *)
(* no process has claimed.  A request that fails keeps the reservation.     *)
AdmitExecutions ==
    /\ rows' = AdmitRows
    /\ launches' = launches \cup {e \in Executions : Claimable(AdmitRows[e])}

UpdateRow(e, row) == rows' = [rows EXCEPT ![e] = row]

(* ---- the web process ---------------------------------------------------*)
Idle == webUp /\ doing.step = "idle"

(* open, fresh: reserve a new row, or find the reservation an earlier open  *)
(* of the same message made; the admission that follows is a transaction of *)
(* its own.  A refused reserve throws and changes nothing.                  *)
Admitting == [NoCall EXCEPT !.step = "admitting"]

OpenReserves(e, args) ==
    /\ Idle
    /\ CanReserve(e, args)
    /\ UpdateRow(e, ReserveRow(e, args))
    /\ view' = [view EXCEPT ![args.task] = e]
    /\ doing' = Admitting
    /\ UNCHANGED <<capacity, hosts, provider, launches, webUp, faults>>

OpenFindsReserved(e, args) ==
    /\ Idle
    /\ Reserved(e, args)
    /\ view' = [view EXCEPT ![args.task] = e]
    /\ doing' = Admitting
    /\ UNCHANGED <<rows, capacity, hosts, provider, launches, webUp, faults>>

OpenAdmits ==
    /\ webUp /\ doing.step = "admitting"
    /\ AdmitExecutions
    /\ doing' = NoCall
    /\ UNCHANGED <<capacity, hosts, provider, webUp, view, faults>>

(* reconcile's last step: repair admission.                                 *)
WebAdmits ==
    /\ Idle
    /\ \E e \in Executions : rows[e].state = "queued" \/ (Claimable(rows[e]) /\ e \notin launches)
    /\ AdmitExecutions
    /\ UNCHANGED <<capacity, hosts, provider, webUp, view, doing, faults>>

(* handle.reconcile: the row is read ...                                    *)
ReconcileReads(t) ==
    /\ Idle
    /\ view[t] # None
    /\ rows[view[t]].state = "running"
    /\ rows[view[t]].pid # None
    /\ doing' = [exec |-> view[t], pid |-> rows[view[t]].pid, step |-> "read"]
    /\ UNCHANGED <<rows, capacity, hosts, provider, launches, webUp, view, faults>>

(* ... then the process it names is inspected; a live one ends the doing,   *)
(* a dead one is journalled as an abnormal exit ...                         *)
ProcessSeen(e, k) == hosts[e][k].pc # "absent"
ProcessAlive(e, k) == hosts[e][k].pc \notin {"absent", "gone"}

ReconcileProbes ==
    /\ webUp /\ doing.step = "read"
    /\ IF ProcessAlive(doing.exec, doing.pid)
       THEN doing' = NoCall /\ UNCHANGED rows
       ELSE /\ doing' = [doing EXCEPT !.step = "marked"]
            /\ UpdateRow(doing.exec, Append1(rows[doing.exec], Note("process_exit")))
    /\ UNCHANGED <<capacity, hosts, provider, launches, webUp, view, faults>>

(* ... and the execution is recorded as lost, in a transaction of its own.  *)
ReconcileMarksLost ==
    /\ webUp /\ doing.step = "marked"
    /\ UpdateRow(doing.exec, FinishRow(rows[doing.exec], TRUE))
    /\ doing' = NoCall
    /\ UNCHANGED <<capacity, hosts, provider, launches, webUp, view, faults>>

(* A caught-up handle of an ended execution completes and is released.      *)
HandleCompletes(t) ==
    /\ Idle
    /\ view[t] # None
    /\ rows[view[t]].state \in Ended
    /\ view' = [view EXCEPT ![t] = None]
    /\ UNCHANGED <<rows, capacity, hosts, provider, launches, webUp, doing, faults>>

(* handle.command: every send, steer, answer, approval, interrupt.          *)
WebCommands(t, c, body) ==
    /\ Idle
    /\ view[t] # None
    /\ UpdateRow(view[t], EnqueueRow(rows[view[t]], c, body))
    /\ UNCHANGED <<capacity, hosts, provider, launches, webUp, view, doing, faults>>

(* handle.cancel: withdraw the reservation (else a cancel command).         *)
WebCancelsBeforeStart(t) ==
    /\ Idle
    /\ view[t] # None
    /\ CancellableBeforeStart(rows[view[t]])
    /\ UpdateRow(view[t], CancelRow(rows[view[t]]))
    /\ UNCHANGED <<capacity, hosts, provider, launches, webUp, view, doing, faults>>

(* The web process dies: handles and the check in progress are memory.      *)
WebCrashes ==
    /\ webUp
    /\ Fault
    /\ webUp' = FALSE
    /\ view' = [t \in Tasks |-> None]
    /\ doing' = NoCall
    /\ UNCHANGED <<rows, capacity, hosts, provider, launches>>

(* Replacement: the configured capacity is stored and every task with an    *)
(* execution reattaches to its latest one, finished journals included.      *)
WebStarts ==
    /\ ~webUp
    /\ webUp' = TRUE
    /\ capacity' \in Capacities
    /\ view' \in [Tasks -> Executions \cup {None}]
    /\ \A t \in Tasks : IF OfTask(t) = {} THEN view'[t] = None ELSE IsLatest(view'[t], t)
    /\ UNCHANGED <<rows, hosts, provider, launches, doing, faults>>

(* ---- the launcher (external) -------------------------------------------*)
LaunchArrives(e, k) ==
    /\ e \in launches
    /\ hosts[e][k].pc = "absent"
    /\ \A j \in Attempts : j < k => hosts[e][j].pc # "absent"
    /\ launches' = launches \ {e}
    /\ hosts' = [hosts EXCEPT ![e][k] = [NoHost EXCEPT !.pc = "booted", !.session = rows[e].args.resume]]
    /\ UNCHANGED <<rows, capacity, provider, webUp, view, doing, faults>>

LaunchIsLost(e) ==
    /\ Fault
    /\ e \in launches
    /\ launches' = launches \ {e}
    /\ UNCHANGED <<rows, capacity, hosts, provider, webUp, view, doing>>

(* ---- an execution host process -----------------------------------------*)
SetHost(e, k, host) == hosts' = [hosts EXCEPT ![e][k] = host]
Push(host, ops) == [host EXCEPT !.tail = @ \o ops]
EventOp(event) == [op |-> "event", event |-> event]
Plain(kind) == EventOp([kind |-> kind, request |-> None, session |-> None])

HostClaims(e, k) ==
    /\ hosts[e][k].pc = "booted"
    /\ Claimable(rows[e])
    /\ UpdateRow(e, ClaimRow(rows[e], k))
    /\ SetHost(e, k, [hosts[e][k] EXCEPT !.pc = "claimed"])
    /\ UNCHANGED <<capacity, provider, launches, webUp, view, doing, faults>>

(* No claim, no invocation: the process exits with 0.                       *)
HostClaimRefused(e, k) ==
    /\ hosts[e][k].pc = "booted"
    /\ ~Claimable(rows[e])
    /\ SetHost(e, k, Dead(hosts[e][k]))
    /\ UNCHANGED <<rows, capacity, provider, launches, webUp, view, doing, faults>>

HostInvokes(e, k) ==
    /\ hosts[e][k].pc = "claimed"
    /\ SetHost(e, k, Push([hosts[e][k] EXCEPT !.pc = "serving", !.child = "alive"],
                          <<Plain("started")>>))
    /\ provider' = [provider EXCEPT ![e].invoked = @ + 1]
    /\ UNCHANGED <<rows, capacity, launches, webUp, view, doing, faults>>

(* runner.start throws.                                                     *)
HostCannotInvoke(e, k) ==
    /\ hosts[e][k].pc = "claimed"
    /\ SetHost(e, k, Push([hosts[e][k] EXCEPT !.pc = "finishing"],
                          <<Plain("started"), Plain("error"), [op |-> "finish", lost |-> TRUE]>>))
    /\ UNCHANGED <<rows, capacity, provider, launches, webUp, view, doing, faults>>

(* The provider emits; emit drops what arrives while stopping or mismatched.*)
ProviderEmits(e, k, event) ==
    /\ hosts[e][k].pc = "serving" /\ hosts[e][k].child = "alive"
    /\ provider[e].emitted < MaxOutput
    /\ provider' = [provider EXCEPT ![e].emitted = @ + 1]
    /\ SetHost(e, k, IF hosts[e][k].mismatch THEN hosts[e][k]
                     ELSE Push(hosts[e][k], <<EventOp(event)>>))
    /\ UNCHANGED <<rows, capacity, launches, webUp, view, doing, faults>>

(* The child exits: its exit event and the finish join the chain.  The host *)
(* records a run whose handle.done rejects as lost.                         *)
ProviderExits(e, k, lost) ==
    LET host == hosts[e][k] IN
    /\ host.pc = "serving" /\ host.child = "alive"
    /\ SetHost(e, k, Push([host EXCEPT !.pc = "finishing", !.child = "dead"],
                          (IF host.mismatch THEN <<>> ELSE <<Plain("process_exit")>>)
                            \o <<[op |-> "finish", lost |-> lost]>>))
    /\ UNCHANGED <<rows, capacity, provider, launches, webUp, view, doing, faults>>

(* drain: woken by a hint or by the one-second repair interval; a wake with *)
(* an empty queue or while a drain is in progress does nothing.             *)
HostDrains(e, k) ==
    LET host == hosts[e][k] IN
    /\ host.pc = "serving" /\ host.step = "idle" /\ host.batch = {}
    /\ PendingCommands(rows[e]) # {}
    /\ SetHost(e, k, Push([host EXCEPT !.step = "claiming"], <<[op |-> "pending"]>>))
    /\ UNCHANGED <<rows, capacity, provider, launches, webUp, view, doing, faults>>

(* The next claimed command, in rowid order, is written to the provider,    *)
(* which takes it or not.  A signal (cancel, or an interrupt that falls     *)
(* back to it) cannot be refused.                                           *)
NextCommandsUnordered(e, host) == host.batch
NextCommands(e, host) ==
    {c \in host.batch : \A d \in host.batch : rows[e].commands[c].rowid <= rows[e].commands[d].rowid}

HostWrites(e, k, c, took) ==
    LET host == hosts[e][k] IN
    /\ host.pc = "serving" /\ host.step = "idle"
    /\ c \in NextCommands(e, host)
    /\ rows[e].commands[c].body.kind \in {"cancel", "interrupt"} => took
    /\ SetHost(e, k, [host EXCEPT !.step = "writing", !.command = c, !.batch = @ \ {c}])
    /\ provider' = [provider EXCEPT ![e].writes[c] = @ + 1,
                                    ![e].took = IF took THEN @ \cup {c} ELSE @]
    /\ UNCHANGED <<rows, capacity, launches, webUp, view, doing, faults>>

(* The write is confirmed or refused, or (a send without an answer in time, *)
(* an exception) nobody knows.  The receipt then joins the chain.           *)
ProviderReplies(e, k, result) ==
    LET host == hosts[e][k] IN
    /\ host.pc = "serving" /\ host.step = "writing"
    /\ result = "delivered" => host.command \in provider[e].took
    /\ result = "rejected" => host.command \notin provider[e].took
    /\ SetHost(e, k, Push([host EXCEPT !.step = "settling"],
                          <<[op |-> "settle", command |-> host.command, result |-> result]>>))
    /\ UNCHANGED <<rows, capacity, provider, launches, webUp, view, doing, faults>>

(* ---- the host's persistence chain: its head commits --------------------*)
AtHead(e, k, op) == hosts[e][k].tail # <<>> /\ Head(hosts[e][k].tail).op = op
Popped(host) == [host EXCEPT !.tail = Tail(@)]

(* persistEvent refuses a provider that changes its session, or that binds  *)
(* a session another live execution owns.                                   *)
ForeignSession(e, host, session) ==
    /\ session # None
    /\ IF host.session # None THEN session # host.session
       ELSE rows[e].state = "running" /\ ~OwnerFree(e, session)

PersistDrops(e, k) ==
    /\ AtHead(e, k, "event") /\ hosts[e][k].mismatch
    /\ SetHost(e, k, Popped(hosts[e][k]))
    /\ UNCHANGED <<rows, capacity, provider, launches, webUp, view, doing, faults>>

PersistRefuses(e, k) ==
    LET host == hosts[e][k] IN
    /\ AtHead(e, k, "event") /\ ~host.mismatch
    /\ ForeignSession(e, host, Head(host.tail).event.session)
    /\ UpdateRow(e, Append1(Append1(rows[e], Note("error")), Note("process_exit")))
    /\ SetHost(e, k, [Popped(host) EXCEPT !.mismatch = TRUE])
    /\ UNCHANGED <<capacity, provider, launches, webUp, view, doing, faults>>

PersistStores(e, k) ==
    LET host  == hosts[e][k]
        event == Head(host.tail).event
        binds == host.session = None /\ event.session # None
        bound == IF binds THEN BindRow(rows[e], event.session) ELSE rows[e]
    IN
    /\ AtHead(e, k, "event") /\ ~host.mismatch
    /\ ~ForeignSession(e, host, event.session)
    /\ UpdateRow(e, Append1(bound, [kind |-> event.kind, request |-> event.request]))
    /\ SetHost(e, k, [Popped(host) EXCEPT !.session = IF binds THEN event.session ELSE @])
    /\ UNCHANGED <<capacity, provider, launches, webUp, view, doing, faults>>

PersistPending(e, k) ==
    /\ AtHead(e, k, "pending")
    /\ UpdateRow(e, ClaimCommands(rows[e]))
    /\ SetHost(e, k, [Popped(hosts[e][k]) EXCEPT !.step = "idle", !.batch = PendingCommands(rows[e])])
    /\ UNCHANGED <<capacity, provider, launches, webUp, view, doing, faults>>

PersistSettle(e, k) ==
    LET op == Head(hosts[e][k].tail) IN
    /\ AtHead(e, k, "settle")
    /\ UpdateRow(e, SettleRow(rows[e], op.command, op.result))
    /\ SetHost(e, k, [Popped(hosts[e][k]) EXCEPT !.step = "idle", !.command = None])
    /\ UNCHANGED <<capacity, provider, launches, webUp, view, doing, faults>>

PersistFinish(e, k) ==
    /\ AtHead(e, k, "finish")
    /\ UpdateRow(e, FinishRow(rows[e], Head(hosts[e][k].tail).lost))
    /\ SetHost(e, k, [Popped(hosts[e][k]) EXCEPT !.pc = "closing"])
    /\ UNCHANGED <<capacity, provider, launches, webUp, view, doing, faults>>

(* The freed slot is given on before the process exits.                     *)
HostCloses(e, k) ==
    /\ hosts[e][k].pc = "closing"
    /\ AdmitExecutions
    /\ SetHost(e, k, Dead(hosts[e][k]))
    /\ UNCHANGED <<capacity, provider, webUp, view, doing, faults>>

(* fatal: a write that stays impossible for the retry window rejects the    *)
(* whole chain.  The child is closed first, the row is left as it is.       *)
HostFails(e, k) ==
    /\ Fault
    /\ hosts[e][k].pc \in {"serving", "finishing"} /\ hosts[e][k].tail # <<>>
    /\ SetHost(e, k, [NoHost EXCEPT !.pc = "failing", !.child = hosts[e][k].child])
    /\ UNCHANGED <<rows, capacity, provider, launches, webUp, view, doing>>

HostFailureExits(e, k) ==
    /\ hosts[e][k].pc = "failing"
    /\ SetHost(e, k, [Dead(hosts[e][k]) EXCEPT !.child = IF @ = "alive" THEN "dead" ELSE @])
    /\ UNCHANGED <<rows, capacity, provider, launches, webUp, view, doing, faults>>

HostCrashes(e, k) ==
    /\ Fault
    /\ ProcessAlive(e, k)
    /\ SetHost(e, k, Dead(hosts[e][k]))
    /\ UNCHANGED <<rows, capacity, provider, launches, webUp, view, doing>>

(* Whatever supervises the host's control group ends what it left behind.   *)
OrphanEnds(e, k) ==
    /\ hosts[e][k].pc = "gone" /\ hosts[e][k].child = "alive"
    /\ SetHost(e, k, [hosts[e][k] EXCEPT !.child = "dead"])
    /\ UNCHANGED <<rows, capacity, provider, launches, webUp, view, doing, faults>>

-----------------------------------------------------------------------------
ProviderEvents ==
    [kind : {"output"}, request : {None}, session : Sessions \cup {None}]
    \cup [kind : {"question", "input_resolved"}, request : Requests, session : {None}]

WebNext ==
    \/ \E e \in Executions, args \in Args : OpenReserves(e, args) \/ OpenFindsReserved(e, args)
    \/ \E t \in Tasks : ReconcileReads(t) \/ HandleCompletes(t) \/ WebCancelsBeforeStart(t)
    \/ \E t \in Tasks, c \in Commands, body \in Bodies : WebCommands(t, c, body)
    \/ OpenAdmits \/ WebAdmits \/ ReconcileProbes \/ ReconcileMarksLost \/ WebCrashes \/ WebStarts

Persists(e, k) ==
    \/ PersistDrops(e, k) \/ PersistRefuses(e, k) \/ PersistStores(e, k)
    \/ PersistPending(e, k) \/ PersistSettle(e, k) \/ PersistFinish(e, k)

HostNext(e, k) ==
    \/ LaunchArrives(e, k)
    \/ HostClaims(e, k) \/ HostClaimRefused(e, k) \/ HostInvokes(e, k) \/ HostCannotInvoke(e, k)
    \/ \E event \in ProviderEvents : ProviderEmits(e, k, event)
    \/ \E lost \in BOOLEAN : ProviderExits(e, k, lost)
    \/ HostDrains(e, k)
    \/ \E c \in Commands, took \in BOOLEAN : HostWrites(e, k, c, took)
    \/ \E result \in Receipts \ {"accepted"} : ProviderReplies(e, k, result)
    \/ Persists(e, k)
    \/ HostCloses(e, k) \/ HostFails(e, k) \/ HostFailureExits(e, k)
    \/ HostCrashes(e, k) \/ OrphanEnds(e, k)

Next ==
    \/ WebNext
    \/ \E e \in Executions : LaunchIsLost(e)
    \/ \E e \in Executions, k \in Attempts : HostNext(e, k)

Spec == Init /\ [][Next]_vars

-----------------------------------------------------------------------------
(* Safety.                                                                  *)

(* Only the process whose claim is in the row ever starts the provider, and *)
(* it starts it once: repeated, late and stale launch requests, restarts    *)
(* and a cancel before the start never lead to another invocation           *)
(* (execution-host.ts: the claim precedes runner.start).                    *)
InvokedOnceByClaimant ==
    \A e \in Executions :
        /\ provider[e].invoked <= 1
        /\ \A k \in Attempts : hosts[e][k].child # "none" => rows[e].pid = k

(* As long as a host may still use its provider or write its journal, the   *)
(* registry holds its reservation: the row is running under that process,   *)
(* so neither its slot, its task nor its session is given to anyone else.   *)
ActiveHostIsOwner ==
    \A e \in Executions, k \in Attempts :
        hosts[e][k].pc \in {"claimed", "serving", "finishing", "failing"} =>
            rows[e].state = "running" /\ rows[e].pid = k

(* Two hosts at work never speak to the same provider session, whether they *)
(* resumed it or learned it from the provider's output (bindSession).       *)
SessionExclusive ==
    \A e, f \in Executions : \A i, j \in Attempts :
        /\ e # f
        /\ hosts[e][i].pc = "serving" /\ ~hosts[e][i].mismatch /\ hosts[e][i].session # None
        /\ hosts[f][j].pc = "serving" /\ ~hosts[f][j].mismatch
        => hosts[e][i].session # hosts[f][j].session

(* Whoever admits, the web or a finishing host, never takes a slot above    *)
(* the stored capacity and never passes over an older reservation, whatever *)
(* the others commit in between.                                            *)
AdmissionIsOrderly ==
    [][/\ Occupied' > Occupied => Occupied' <= capacity
       /\ \A e, f \in Executions :
            rows[e].state = "queued" /\ rows[f].state = "queued" /\ f < e
              /\ rows'[e].state = "starting" => rows'[f].state # "queued"]_vars

(* A command reaches the provider at most once; an interrupted drain, a     *)
(* delayed receipt or a repeated request never repeats the write.           *)
WrittenOnce ==
    \A e \in Executions, c \in Commands : provider[e].writes[c] <= 1

(* A receipt never claims more than happened: "delivered" only if the       *)
(* provider took the command, "rejected" only if it did not.                *)
ReceiptTruthful ==
    \A e \in Executions, c \in Commands :
        /\ rows[e].commands[c].result = "delivered" => c \in provider[e].took
        /\ rows[e].commands[c].result = "rejected" => c \notin provider[e].took

(* No provider question is answered twice, however many clients answer it   *)
(* and whichever of their receipts stay unknown.                            *)
AnsweredOnce ==
    \A e \in Executions : \A c, d \in provider[e].took :
        /\ rows[e].commands[c].body.kind = "answer"
        /\ rows[e].commands[d].body = rows[e].commands[c].body
        => c = d

(* Commands reach the provider in the order they were accepted.             *)
WrittenInOrder ==
    \A e \in Executions : \A c, d \in Commands :
        /\ 0 < rows[e].commands[c].rowid
        /\ rows[e].commands[c].rowid < rows[e].commands[d].rowid
        /\ provider[e].writes[d] > 0
        => provider[e].writes[c] > 0

(* What execution-client.ts must not do to a host that ended in good order: *)
(* "A confirmed lost host produces an abnormal exit" -- and only that one.  *)
FinishedIsFinal ==
    [][\A e \in Executions : rows[e].state = "finished" => rows'[e].state = "finished"]_vars

-----------------------------------------------------------------------------
(* Liveness.  The web is restarted by palmagentd; its reconcile runs at     *)
(* least every second over every handle, so no step of it is overtaken for  *)
(* ever (SF where another handle's check can disable it).  A host advances  *)
(* its own code; every adapter answers a write or times it out.  Nothing is *)
(* assumed of users, of providers (they may never exit) or of launches.     *)
HostProgress(e, k) ==
    \/ HostClaims(e, k) \/ HostClaimRefused(e, k) \/ HostInvokes(e, k)
    \/ HostDrains(e, k) \/ (\E c \in Commands, took \in BOOLEAN : HostWrites(e, k, c, took))
    \/ (\E result \in Receipts \ {"accepted"} : ProviderReplies(e, k, result))
    \/ Persists(e, k) \/ HostCloses(e, k) \/ HostFailureExits(e, k)

Fairness ==
    /\ WF_vars(WebStarts) /\ WF_vars(OpenAdmits)
    /\ WF_vars(ReconcileProbes) /\ WF_vars(ReconcileMarksLost)
    /\ SF_vars(WebAdmits)
    /\ \A t \in Tasks : SF_vars(ReconcileReads(t))
    /\ \A e \in Executions, k \in Attempts : WF_vars(HostProgress(e, k))

FairSpec == Spec /\ Fairness

(* A host that died without finishing is eventually recorded, so that its   *)
(* slot, task and session become available again.                           *)
LostHostIsRecorded ==
    \A e \in Executions, k \in Attempts :
        (rows[e].state = "running" /\ rows[e].pid = k /\ hosts[e][k].pc = "gone")
            ~> (rows[e].state \in Ended)

(* Every accepted command eventually has a final receipt.                   *)
ReceiptsSettle ==
    \A e \in Executions, c \in Commands :
        (rows[e].commands[c].result = "accepted") ~> (rows[e].commands[c].result # "accepted")

(* A slot does not stay free for ever while an execution is queued.         *)
NoIdleSlot ==
    ~<>[](Occupied < capacity /\ \E e \in Executions : rows[e].state = "queued")
=============================================================================
