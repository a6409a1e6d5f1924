----------------------------- MODULE TaskStream -----------------------------
(***************************************************************************)
(* How a browser follows the conversation of a task.  The web server        *)
(* commits events with their compact conversation (sqlite-tasks.ts,         *)
(* conversation-history.ts), pushes a notice of each over server-sent       *)
(* events (stream.ts), and answers reads: the newest page, an earlier page, *)
(* and what changed between two cursors.  The client (useTaskStream.ts,     *)
(* sse.ts, conversation-history.ts of the web) keeps the pages it has       *)
(* loaded, a cursor up to which they are current, and catches up by reads.  *)
(* A client with a checkpoint of the former format follows raw events       *)
(* instead, which the stream then carries itself.  Connections break,       *)
(* requests fail, the reader leaves and comes back.  Zero stands for the    *)
(* null of a page's "before" and for an absent key.                         *)
(***************************************************************************)
EXTENDS Conversation

CONSTANTS None,
          Workloads,      \* sets of kinds of events; with "unread" nobody opens the task
          MaxEvents,      \* events of the task
          MaxBatch,       \* events of one commit
          PageItems,      \* CONVERSATION_PAGE_ITEMS, HISTORY_PAGE_EVENTS
          MaxFrames,      \* MAX_PENDING_FRAMES of the server
          MaxPending,     \* MAX_PENDING_EVENTS of the client
          MaxTroubles,    \* connections that break, reads that fail, times the reader leaves
          Formats         \* "transcript", or "events" for the former checkpoints

ASSUME StreamAssumption ==
    /\ \A kinds \in Workloads : kinds \subseteq AllKinds \union {"unread"}
    /\ {MaxEvents, MaxBatch, PageItems, MaxFrames, MaxPending} \subseteq Nat \ {0}
    /\ MaxTroubles \in Nat
    /\ "transcript" \in Formats /\ Formats \subseteq {"transcript", "events"}

VARIABLES log,          \* events: the kinds committed, in order of their seq
          stored,       \* conversation_rows and conversation_state
          stream,       \* frames under way to the client, None without a connection
          format,       \* what the client's pages hold
          pages,        \* the client's query data, oldest page first; <<>> without data
          reader,       \* the variables of the running effect, None while away
          older,        \* the request for an earlier page
          workload,
          troubles

vars == <<log, stored, stream, format, pages, reader, older, workload, troubles>>
server == <<log, stored, workload>>

-----------------------------------------------------------------------------
(* The values these hold.                                                   *)
LogItems == [key : Nat, end : Nat, kind : AllKinds]
TraceOperations == Nat \X {"preview", "running", "completed", "over"}
Bodies == [type : {"activity", "message", "failure"}, key : Nat, end : Nat, items : SUBSET LogItems,
           ops : SUBSET TraceOperations, live : BOOLEAN]
Rows == [block : Nat, revision : Nat, body : Bodies \union {None}]

Frames == [type : {"tasks", "event"}, seq : Nat]
Items == [key : Nat, revision : Nat, end : Nat]
Pages == [items : SUBSET Items, before : Nat, cursor : Nat]
EventPages == [items : Seq(Nat), before : {0}, cursor : Nat]
Earlier == [before : Nat, captured : Seq(Pages), answer : Pages \union {None}]

Patches == [key : Nat, revision : Nat, item : Items \union {None}]
Answers == [patches : SUBSET Patches, events : Seq(Nat), through : Nat, nextAfter : Nat, nextKey : Nat]
Requests == [after : Nat, through : Nat, afterKey : Nat, answer : Answers \union {None}]
Readers == [applied : Nat, received : Nat, target : Nat, recovering : BOOLEAN, pending : SUBSET Nat,
            catchup : Requests \union {None}, projection : BOOLEAN, retry : BOOLEAN,
            animation : BOOLEAN, overflow : BOOLEAN]

(* None is none of the values it stands beside.                             *)
ASSUME NoneAssumption ==
    /\ None \notin Bodies /\ None \notin Seq(Frames) /\ None \notin Readers
    /\ None \notin Pages /\ None \notin Earlier
    /\ None \notin Items /\ None \notin Answers /\ None \notin Requests

-----------------------------------------------------------------------------
Seqs == 1..MaxEvents
Cursor == Len(log)                                               \* eventCursor
Larger(a, b) == IF a < b THEN b ELSE a

-----------------------------------------------------------------------------
(* The stored conversation.  Only rows whose body changed get a revision;   *)
(* rows of the block that are gone keep an empty body.                      *)
NoRow == [block |-> 0, revision |-> 0, body |-> None]

SaveBlock(rows, start, items, revision, live) ==
    LET projected == ProjectConversation(items, live)
        At(k) == {r \in projected : r.key = k}
    IN [k \in Seqs |->
          IF At(k) # {}
          THEN LET body == CHOOSE r \in At(k) : TRUE
               IN IF rows[k].body = body THEN rows[k] ELSE [block |-> start, revision |-> revision, body |-> body]
          ELSE IF rows[k].block = start /\ rows[k].body # None
               THEN [rows[k] EXCEPT !.revision = revision, !.body = None] ELSE rows[k]]

(* A variant: the block that ends is taken as stored already.               *)
TakeUnsaved(st, event) ==
    IF event.kind \in Boundaries /\ st.items # <<>>
    THEN [st EXCEPT !.start = event.seq, !.items = AppendHistoryEvent(<<>>, event.kind, event.seq)]
    ELSE [st EXCEPT !.items = AppendHistoryEvent(@, event.kind, event.seq)]

(* refresh, event by event: a boundary closes the block before it.          *)
Take(st, event) ==
    IF event.kind \in Boundaries /\ st.items # <<>>
    THEN [rows |-> SaveBlock(st.rows, st.start, st.items, event.seq, FALSE),
          start |-> event.seq, items |-> AppendHistoryEvent(<<>>, event.kind, event.seq)]
    ELSE [st EXCEPT !.items = AppendHistoryEvent(@, event.kind, event.seq)]

Refresh(st, events) ==
    LET taken[i \in 0..Len(events)] == IF i = 0 THEN st ELSE Take(taken[i - 1], events[i])
        all == taken[Len(events)]
    IN [all EXCEPT !.rows = SaveBlock(@, all.start, all.items, Last(events).seq, TRUE)]

Numbered(batch) == [i \in DOMAIN batch |-> [kind |-> batch[i], seq |-> Cursor + i]]

(* A variant: frames are queued without a limit.                            *)
EnqueueAll(frames) == IF stream = None THEN None ELSE stream \o frames

(* A client that reads too slowly is disconnected.                          *)
Enqueue(frames) ==
    IF stream = None \/ Len(stream) + Len(frames) > MaxFrames THEN None ELSE stream \o frames

(* appendAgentEvents and importSessionEvents commit events together with    *)
(* the conversation, then every listener of the hub gets them.              *)
AppendEvents(batch) ==
    /\ Cursor + Len(batch) <= MaxEvents
    /\ log' = log \o batch
    /\ stored' = Refresh(stored, Numbered(batch))
    /\ stream' = Enqueue([i \in DOMAIN batch |-> [type |-> "event", seq |-> Cursor + i]])
    /\ UNCHANGED <<format, pages, reader, older, workload, troubles>>

-----------------------------------------------------------------------------
(* Reads.  An item carries the revision of its row, which stands for its    *)
(* content.                                                                 *)
Visible == {k \in Seqs : stored.rows[k].body # None}
Item(k) == [key |-> k, revision |-> stored.rows[k].revision, end |-> stored.rows[k].body.end]
Greatest(S, n) == {k \in S : Cardinality({j \in S : j > k}) < n}

ConversationPage(before) ==
    LET candidates == {k \in Visible : k < before}
        page == Greatest(candidates, PageItems)
    IN [items |-> {Item(k) : k \in page},
        before |-> IF page = candidates THEN 0 ELSE Min(page),
        cursor |-> Cursor]

(* conversationChanges in the order of revision and key, from behind afterKey. *)
ConversationChanges(after, through, afterKey) ==
    LET rows == stored.rows
        end == Larger(after, Min({through, Cursor}))
        Before(j, k) == rows[j].revision < rows[k].revision \/ (rows[j].revision = rows[k].revision /\ j < k)
        changed == {k \in Seqs : \/ rows[k].revision > after /\ rows[k].revision <= end
                                 \/ afterKey # 0 /\ rows[k].revision = after /\ rows[k].revision > 0 /\ k > afterKey}
        page == {k \in changed : Cardinality({j \in changed : Before(j, k)}) < PageItems}
        last == CHOOSE k \in page : \A j \in page : j = k \/ Before(j, k)
        more == page # changed
    IN [patches |-> {[key |-> k, revision |-> rows[k].revision,
                      item |-> IF rows[k].body = None THEN None ELSE Item(k)] : k \in page},
        events |-> <<>>,
        through |-> end,
        nextAfter |-> IF more THEN rows[last].revision ELSE end,
        nextKey |-> IF more THEN last ELSE 0]

(* historyChanges, the same for raw events.                                 *)
HistoryChanges(after, through) ==
    LET end == Larger(after, Min({through, Cursor}))
        last == Min({end, after + PageItems})
    IN [patches |-> {}, events |-> [i \in 1..(last - after) |-> after + i],
        through |-> end, nextAfter |-> last, nextKey |-> 0]

Changes(request) ==
    IF format = "transcript" THEN ConversationChanges(request.after, request.through, request.afterKey)
    ELSE HistoryChanges(request.after, request.through)

-----------------------------------------------------------------------------
(* The pages.  retainedConversation takes the newest revision of every key. *)
ItemsOfPages(ps) == UNION {ps[i].items : i \in DOMAIN ps}
Retained(ps) ==
    LET all == ItemsOfPages(ps)
    IN {x \in all : \A y \in all : y.key = x.key => y.revision <= x.revision}

WithCursor(ps, cursor) == [ps EXCEPT ![Len(ps)].cursor = Larger(@, cursor)]

(* mergeConversationChanges: a patch goes to the page that owns its key, a  *)
(* new row to the latest page unless it lies before everything loaded.      *)
Merge(ps, patches, cursor) ==
    LET retained == Retained(ps)
        floor == IF retained = {} THEN ps[1].before ELSE Min({x.key : x \in retained})
        Owners(p) == {i \in DOMAIN ps : \E x \in ps[i].items : x.key = p.key}
        Stale(p) == Owners(p) # {} /\ \E x \in ps[Min(Owners(p))].items : x.key = p.key /\ x.revision > p.revision
        effective == {p \in patches : ~Stale(p)}
        Home(p) == IF Owners(p) # {} THEN Min(Owners(p)) ELSE Len(ps)
        placed == {p \in effective : p.item # None /\ (Owners(p) # {} \/ p.item.end >= floor)}
    IN WithCursor([i \in DOMAIN ps |->
            [ps[i] EXCEPT !.items = {x \in @ : \A p \in effective : p.key # x.key}
                                      \union {p.item : p \in {q \in placed : Home(q) = i}}]], cursor)

(* The former format: raw events at the end of the latest page, in their    *)
(* order.                                                                   *)
Ascending(S) == CHOOSE s \in [1..Cardinality(S) -> S] : \A i, j \in DOMAIN s : i < j => s[i] < s[j]

AppendItems(ps, seqs, cursor) ==
    WithCursor([ps EXCEPT ![Len(ps)].items = @ \o seqs], cursor)

-----------------------------------------------------------------------------
(* The effect of useTaskStream.                                             *)
Started(ps) ==
    [applied |-> Last(ps).cursor, received |-> Last(ps).cursor, target |-> Last(ps).cursor,
     recovering |-> FALSE, pending |-> {}, catchup |-> None,
     projection |-> FALSE, retry |-> FALSE, animation |-> FALSE, overflow |-> FALSE]

Schedule(r, loading) == [r EXCEPT !.animation = @ \/ (~r.recovering /\ loading = None)]

Request(after, through, afterKey) ==
    [after |-> after, through |-> through, afterKey |-> afterKey, answer |-> None]

BeginCatchup(r) ==
    IF r.catchup # None THEN r
    ELSE IF r.applied >= r.target THEN Schedule([r EXCEPT !.retry = FALSE, !.recovering = FALSE], older)
    ELSE [r EXCEPT !.retry = FALSE, !.recovering = TRUE, !.catchup = Request(r.applied, r.target, 0)]

(* A new connection begins with a snapshot and the boundary behind which    *)
(* its events lie; EventSource dials until it succeeds.  The server does it *)
(* without an await, hence one step: what its fence against events stored   *)
(* meanwhile would do if that changed is not seen here.                     *)
Accept ==
    /\ reader # None /\ stream = None
    /\ stream' = <<[type |-> "tasks", seq |-> Cursor]>>
    /\ UNCHANGED <<server, format, pages, reader, older, troubles>>

(* The server restarts, the network fails, the page comes back to the       *)
(* foreground, or the streams are paused for an update of the client.       *)
Disconnect ==
    /\ stream # None /\ troubles < MaxTroubles
    /\ stream' = None
    /\ troubles' = troubles + 1
    /\ UNCHANGED <<server, format, pages, reader, older>>

ReceiveSnapshot(frame) ==
    /\ frame.type = "tasks"
    /\ reader' = IF frame.seq > reader.applied
                 THEN BeginCatchup([reader EXCEPT !.target = Larger(@, frame.seq), !.recovering = TRUE, !.overflow = FALSE])
                 ELSE reader
    /\ stream' = Tail(stream)

ReceiveChange(frame) ==
    /\ frame.type = "event" /\ format = "transcript"
    /\ reader' = [reader EXCEPT !.target = Larger(@, frame.seq), !.projection = TRUE]
    /\ stream' = Tail(stream)

(* Too many unpublished events are dropped and a new connection is asked    *)
(* for, whose snapshot starts the catch-up.                                 *)
ReceiveEvent(frame) ==
    /\ frame.type = "event" /\ format = "events"
    /\ IF frame.seq <= Larger(reader.applied, reader.received) THEN reader' = reader /\ stream' = Tail(stream)
       ELSE IF Cardinality(reader.pending) >= MaxPending
       THEN /\ reader' = [reader EXCEPT !.received = frame.seq, !.pending = {}, !.overflow = TRUE]
            /\ stream' = IF reader.overflow THEN Tail(stream) ELSE None
       ELSE /\ reader' = Schedule([reader EXCEPT !.received = frame.seq, !.pending = @ \union {frame.seq}], older)
            /\ stream' = Tail(stream)

Receive ==
    /\ reader # None /\ stream \notin {None, <<>>}
    /\ ReceiveSnapshot(Head(stream)) \/ ReceiveChange(Head(stream)) \/ ReceiveEvent(Head(stream))
    /\ UNCHANGED <<server, format, pages, older, troubles>>

ProjectionTimer ==
    /\ reader # None /\ reader.projection
    /\ reader' = BeginCatchup([reader EXCEPT !.projection = FALSE])
    /\ UNCHANGED <<server, stream, format, pages, older, troubles>>

RetryTimer ==
    /\ reader # None /\ reader.retry
    /\ reader' = BeginCatchup([reader EXCEPT !.retry = FALSE])
    /\ UNCHANGED <<server, stream, format, pages, older, troubles>>

CatchupAnswered ==
    /\ reader # None /\ reader.catchup # None /\ reader.catchup.answer = None
    /\ reader' = [reader EXCEPT !.catchup.answer = Changes(reader.catchup)]
    /\ UNCHANGED <<server, stream, format, pages, older, troubles>>

(* What is buffered stays buffered behind the gap.                          *)
CatchupFails ==
    /\ reader # None /\ reader.catchup # None /\ reader.catchup.answer = None
    /\ troubles < MaxTroubles
    /\ reader' = [reader EXCEPT !.catchup = None, !.retry = TRUE]
    /\ troubles' = troubles + 1
    /\ UNCHANGED <<server, stream, format, pages, older>>

(* A variant: a target raised meanwhile is left to the next notice.         *)
ContinueOnce(r, answer, request) ==
    IF answer.nextAfter < request.through \/ answer.nextKey # 0
    THEN [r EXCEPT !.catchup = Request(answer.nextAfter, request.through, answer.nextKey)]
    ELSE Schedule([r EXCEPT !.catchup = None, !.recovering = FALSE, !.overflow = FALSE], older)

(* After a page of changes either the next page, the next target or the end.*)
Continue(r, answer, request) ==
    IF answer.nextAfter < request.through \/ answer.nextKey # 0
    THEN [r EXCEPT !.catchup = Request(answer.nextAfter, request.through, answer.nextKey)]
    ELSE IF r.applied < r.target THEN [r EXCEPT !.catchup = Request(r.applied, r.target, 0)]
    ELSE Schedule([r EXCEPT !.catchup = None, !.recovering = FALSE, !.overflow = FALSE], older)

(* The cursor stays behind a revision of which only some rows have come.    *)
SafeCursor(r, answer) ==
    IF answer.nextKey = 0 THEN answer.nextAfter ELSE Larger(r.applied, answer.nextAfter - 1)

(* A variant: changes are merged whatever is under way.                     *)
MayAlwaysWrite == TRUE

(* An earlier page under way is awaited: it will be put before the pages    *)
(* as they were when it was asked for.                                      *)
MayWrite == older = None

CatchupApplies ==
    /\ reader # None /\ reader.catchup # None /\ reader.catchup.answer # None
    /\ MayWrite
    /\ LET answer == reader.catchup.answer
           applied == SafeCursor(reader, answer)
       IN /\ pages' = IF format = "transcript" THEN Merge(pages, answer.patches, applied)
                      ELSE AppendItems(pages, answer.events, applied)
          /\ reader' = Continue([reader EXCEPT !.applied = applied, !.received = Larger(@, applied)],
                                answer, reader.catchup)
    /\ UNCHANGED <<server, stream, format, older, troubles>>

Publish ==
    /\ reader # None /\ reader.animation
    /\ IF reader.recovering \/ ~MayWrite
       THEN reader' = [reader EXCEPT !.animation = FALSE] /\ UNCHANGED pages
       ELSE LET fresh == {s \in reader.pending : s > reader.applied}
                applied == Max(fresh \union {reader.applied})
            IN /\ pages' = IF fresh = {} THEN pages
                           ELSE AppendItems(pages, Ascending(fresh), applied)
               /\ reader' = [reader EXCEPT !.animation = FALSE, !.pending = {}, !.applied = applied,
                                           !.received = Larger(@, applied)]
    /\ UNCHANGED <<server, stream, format, older, troubles>>

-----------------------------------------------------------------------------
(* Earlier pages.                                                           *)
LoadEarlier ==
    /\ reader # None /\ older = None /\ pages[1].before # 0
    /\ older' = [before |-> pages[1].before, captured |-> pages, answer |-> None]
    /\ UNCHANGED <<server, stream, format, pages, reader, troubles>>

EarlierAnswered ==
    /\ older # None /\ older.answer = None
    /\ older' = [older EXCEPT !.answer = ConversationPage(older.before)]
    /\ UNCHANGED <<server, stream, format, pages, reader, troubles>>

EarlierArrives ==
    /\ older # None /\ older.answer # None
    /\ pages' = <<older.answer>> \o older.captured
    /\ older' = None
    /\ reader' = Schedule(reader, None)
    /\ UNCHANGED <<server, stream, format, troubles>>

EarlierFails ==
    /\ older # None /\ older.answer = None /\ troubles < MaxTroubles
    /\ older' = None
    /\ reader' = Schedule(reader, None)
    /\ troubles' = troubles + 1
    /\ UNCHANGED <<server, stream, format, pages>>

-----------------------------------------------------------------------------
(* The reader opens the task for the first time, or without data left.      *)
LoadFirst ==
    /\ reader = None /\ pages = <<>> /\ "unread" \notin workload
    /\ format' = "transcript"
    /\ pages' = <<ConversationPage(MaxEvents + 1)>>
    /\ reader' = Started(pages')
    /\ UNCHANGED <<server, stream, older, troubles>>

Return ==
    /\ reader = None /\ pages # <<>> /\ "unread" \notin workload
    /\ reader' = Started(pages)
    /\ UNCHANGED <<server, stream, format, pages, older, troubles>>

(* Leaving ends the effect and cancels what it has asked for.               *)
Leave ==
    /\ reader # None /\ troubles < MaxTroubles
    /\ reader' = None /\ stream' = None /\ older' = None
    /\ troubles' = troubles + 1
    /\ UNCHANGED <<server, format, pages>>

(* pruneInactiveHistory drops the oldest page, or everything.               *)
Prune ==
    /\ reader = None /\ pages # <<>>
    /\ pages' \in {Tail(pages), <<>>}
    /\ UNCHANGED <<server, stream, format, reader, older, troubles>>

-----------------------------------------------------------------------------
(* createTask commits the dispatched message before anybody can open the    *)
(* task.  A checkpoint of the former format holds everything up to its      *)
(* cursor.                                                                  *)
Created == Refresh([rows |-> [k \in Seqs |-> NoRow], start |-> 1, items |-> <<>>], <<[kind |-> "reset", seq |-> 1]>>)
Checkpoint == [items |-> <<1>>, before |-> 0, cursor |-> 1]

Init ==
    /\ log = <<"reset">> /\ stored = Created
    /\ format \in Formats /\ workload \in Workloads /\ ("unread" \in workload => format = "transcript")
    /\ pages = IF format = "events" THEN <<Checkpoint>> ELSE <<>>
    /\ stream = None /\ reader = None /\ older = None /\ troubles = 0

Commit == \E n \in 1..MaxBatch : \E batch \in [1..n -> workload \intersect AllKinds] : AppendEvents(batch)

Next ==
    \/ Commit
    \/ Accept \/ Disconnect \/ Receive
    \/ ProjectionTimer \/ RetryTimer \/ CatchupAnswered \/ CatchupFails \/ CatchupApplies \/ Publish
    \/ LoadEarlier \/ EarlierAnswered \/ EarlierArrives \/ EarlierFails
    \/ LoadFirst \/ Return \/ Leave \/ Prune

Spec == Init /\ [][Next]_vars
-----------------------------------------------------------------------------
TypeOK ==
    /\ log \in Seq(AllKinds) /\ Cursor \in 1..MaxEvents
    /\ stored \in [rows : [Seqs -> Rows], start : 1..Cursor, items : Seq(LogItems)]
    /\ \A k \in Seqs : stored.rows[k].revision \in 0..Cursor /\ stored.rows[k].block \in 0..k
    /\ stream \in Seq(Frames) \union {None} /\ pages \in Seq(IF format = "events" THEN EventPages ELSE Pages)
    /\ reader \in Readers \union {None} /\ older \in Earlier \union {None}
    /\ format \in Formats
    /\ stream # None => Len(stream) <= Larger(MaxFrames, 1)
    /\ reader # None =>
         /\ reader.applied \in 0..Cursor /\ reader.target \in 0..Cursor
         /\ reader.received \in reader.applied..Cursor
         /\ reader.pending \subseteq 1..reader.received /\ Cardinality(reader.pending) <= MaxPending
         /\ pages # <<>> /\ Last(pages).cursor >= reader.applied
    /\ older # None => reader # None

Applied == IF reader = None THEN Last(pages).cursor ELSE reader.applied

(* The client's cursor is truthful: in the part of the conversation it has  *)
(* loaded, a row that has not changed since the cursor is shown exactly if  *)
(* the server shows it, in the server's revision, whatever was appended,    *)
(* paged, dropped, retried or loaded in between; raw events are there once  *)
(* and in order.                                                            *)
CursorIsTruthful ==
    pages # <<>> =>
        IF format = "events" THEN Last(pages).items = [i \in 1..Applied |-> i]
        ELSE \A k \in Seqs :
                stored.rows[k].revision \in 1..Applied /\ k >= pages[1].before =>
                    {x.revision : x \in {y \in Retained(pages) : y.key = k}}
                      = IF stored.rows[k].body = None THEN {} ELSE {stored.rows[k].revision}

(* A connected client that waits for nothing has everything: no frame,      *)
(* timer or end of a request is the last that was needed and is missing.    *)
QuietIsCurrent ==
    /\ reader # None /\ stream = <<>> /\ older = None
    /\ reader.catchup = None /\ ~reader.projection /\ ~reader.retry /\ ~reader.animation
    => reader.applied = Cursor

(* What the user and the agent said and the calls and failures of a run are *)
(* each in exactly one row of the stored conversation, however they were    *)
(* cut into blocks and commits.  Left out are kinds without a row of their  *)
(* own: a lifecycle event, the result of a call that is shown elsewhere,    *)
(* and the end of a run, which with a text of its own is a message and may  *)
(* be part of the work as well.                                             *)
EveryEventShown ==
    \A i \in DOMAIN log : log[i] \in {"reset", "user", "text", "progress", "tool", "error", "failed"} =>
        Cardinality({k \in Visible : \E x \in stored.rows[k].body.items : x.key <= i /\ i <= x.end}) = 1

(* Work is not moved above prose that came before it (presentTranscript:    *)
(* "Never move later tools above content the user has already started       *)
(* reading").                                                               *)
WorkFollowsProse ==
    \A m, a \in Visible :
        LET prose == stored.rows[m].body  work == stored.rows[a].body
        IN /\ prose.type = "message" /\ work.type = "activity"
           /\ \A x \in work.items : x.kind = "tool" => x.key > prose.end
           => m < a
=============================================================================
