---------------------------- MODULE Conversation ----------------------------
(***************************************************************************)
(* The compact conversation as a function of the raw events of one run:     *)
(* appendHistoryEvent, presentTranscript, traceOperations and               *)
(* projectConversation of packages/shared.  A log item is its key (the      *)
(* sequence number of its first event), its end and its kind; wording and   *)
(* payloads are left out.  The kinds are                                    *)
(*   reset      a dispatched or follow-up message, which begins a block     *)
(*   begin      the provider's turn_started, which begins a block too       *)
(*   user       a steer, an answer, a question or an approval request       *)
(*   compacted  the marker of a compaction                                  *)
(*   text       visible prose; progress: prose of phase progress            *)
(*   tool       a call; done: the result of the last call                   *)
(*   status     a lifecycle event without an operation; marker: the late    *)
(*              classification of a message                                 *)
(*   result     the end of a run; answer: one that brings its own text      *)
(*   error      a failure of the run; failed: a result that reports one     *)
(***************************************************************************)
EXTENDS Integers, Sequences, FiniteSets, FiniteSetsExt, SequencesExt

AllKinds == {"reset", "begin", "user", "compacted", "text", "progress", "tool", "done",
             "status", "marker", "result", "answer", "error", "failed"}

Prose == {"text", "progress"}
Results == {"result", "answer"}
Errors == {"error", "failed"}
EndsTurn == Results \union {"failed"}
Boundaries == {"reset", "begin"}
Separate == {"reset", "user"}                        \* a row of its own, and the end of what came before
Background == {"begin", "status", "tool", "done", "progress"} \union Results

(* Prose that continues a message grows its item.  Messages and agents are  *)
(* not told apart: prose of one kind with nothing in between is taken to be *)
(* of one message, while the code starts a new item at another message id.  *)
AppendHistoryEvent(log, kind, seq) ==
    IF kind \in Prose /\ log # <<>> /\ Last(log).kind = kind
    THEN [log EXCEPT ![Len(log)].end = seq]
    ELSE Append(log, [key |-> seq, end |-> seq, kind |-> kind])

-----------------------------------------------------------------------------
(* presentTranscript.  A flush separates the items of a block into turns.   *)
SameTurn(log, i, j) ==
    LET a == Min({i, j})  b == Max({i, j})
    IN \A k \in a..b : /\ k > a => log[k].kind \notin Separate \union Boundaries \union {"compacted"}
                       /\ k < b => log[k].kind \notin Separate \union EndsTurn \union {"compacted"}

(* Consecutive background items form a group, which visible prose ends.     *)
GroupOf(log, i) ==
    {j \in DOMAIN log : /\ log[j].kind \in Background
                        /\ SameTurn(log, i, j)
                        /\ \A k \in Min({i, j})..Max({i, j}) : log[k].kind # "text"}
Groups(log) == {GroupOf(log, i) : i \in {j \in DOMAIN log : log[j].kind \in Background}}

IsWork(log, group) == \E i \in group : log[i].kind \in {"tool", "done", "progress"}

(* A late classification belongs to the last group before it.               *)
WithMarkers(log, group) ==
    group \union {m \in DOMAIN log :
        /\ log[m].kind = "marker"
        /\ LET earlier == {j \in 1..(m - 1) : log[j].kind \in Background /\ SameTurn(log, j, m)}
           IN earlier # {} /\ Max(earlier) \in group}

(* A group without work joins the next group of its turn that has some, or  *)
(* the last one.                                                            *)
JoinedTo(log, group) ==
    LET work == {g \in Groups(log) : IsWork(log, g) /\ SameTurn(log, Min(g), Min(group))}
        later == {g \in work : Min(g) > Min(group)}
    IN IF work = {} THEN {}
       ELSE IF later # {} THEN CHOOSE g \in later : \A h \in later : Min(g) <= Min(h)
       ELSE CHOOSE g \in work : \A h \in work : Min(g) >= Min(h)

MembersOf(log, group) ==
    WithMarkers(log, group)
      \union UNION {WithMarkers(log, h) : h \in {h \in Groups(log) : ~IsWork(log, h) /\ JoinedTo(log, h) = group}}

(* traceOperations: a result belongs to the last call, unless the run ended *)
(* in between; an operation runs until its result or the end of the run,    *)
(* and the latest progress of the active turn is its preview.               *)
Terminal == Results \union Errors
CallOf(log, i) ==
    LET calls == {j \in 1..(i - 1) : log[j].kind = "tool" /\ \A k \in j..i : log[k].kind \notin Terminal}
    IN IF calls = {} THEN i ELSE Max(calls)
OwnOperations(log, members) ==
    {i \in members : log[i].kind \in {"tool", "progress"} \/ (log[i].kind = "done" /\ CallOf(log, i) = i)}
InActiveTurn(log, i, live) == live /\ SameTurn(log, i, Len(log)) /\ Last(log).kind \notin EndsTurn
Outcome(log, i, live) ==
    LET after == (i + 1)..Len(log)
    IN CASE log[i].kind = "progress" ->
                IF InActiveTurn(log, i, live) /\ \A j \in after : log[j].kind # "progress" THEN "preview" ELSE "completed"
         [] log[i].kind = "done" -> "completed"
         [] OTHER -> IF \E j \in after : log[j].kind = "done" /\ CallOf(log, j) = i THEN "completed"
                     ELSE IF ~live \/ \E j \in after : log[j].kind \in Terminal THEN "over" ELSE "running"
Operations(log, members, live) ==
    {<<log[i].key, Outcome(log, i, live)>> : i \in OwnOperations(log, members)}

(* The last group with work of the active turn is shown as running.         *)
IsLive(log, group, live) ==
    /\ InActiveTurn(log, Min(group), live)
    /\ \A g \in Groups(log) : IsWork(log, g) => Min(g) <= Min(group)

ItemsOf(log, members) == {log[i] : i \in members}
Row(type, key, items, ops, live) ==
    [type |-> type, key |-> key, end |-> Max({x.end : x \in items}), items |-> items, ops |-> ops, live |-> live]

ActivityRow(log, group, live) ==
    LET members == MembersOf(log, group)
    IN Row("activity", log[Min(members)].key, ItemsOf(log, members), Operations(log, members, live),
           IsLive(log, group, live))

(* Work without an operation of its own (a result whose call is shown       *)
(* elsewhere) is not shown.                                                 *)
Activities(log, live) ==
    {ActivityRow(log, g, live) :
        g \in {g \in Groups(log) : IsWork(log, g) /\ OwnOperations(log, MembersOf(log, g)) # {}}}

Messages(log) ==
    {Row("message", log[i].key, {log[i]}, {}, FALSE) :
        i \in {j \in DOMAIN log : log[j].kind \in Separate \union {"text", "answer"}}}

(* All failures of a run are one row, which a later result completes and    *)
(* the next run makes historical.                                           *)
Failures(log, live) ==
    LET errors == {i \in DOMAIN log : log[i].kind \in Errors}
        completed == errors # {} /\ \E i \in Max(errors)..Len(log) : log[i].kind \in Results
    IN IF errors = {} THEN {}
       ELSE {Row("failure", log[Min(errors)].key, ItemsOf(log, errors), IF completed THEN {<<0, "completed">>} ELSE {}, live)}

ProjectConversation(log, live) == Activities(log, live) \union Messages(log) \union Failures(log, live)
=============================================================================
